------------------------------ MODULE Delivery ------------------------------
(***************************************************************************)
(* From a committed event to a message: the outbox that drain_outbox       *)
(* empties (app/workers/jobs/outbox.py) and the queue of notification jobs *)
(* that send_due sends (app/workers/jobs/notifications.py).  Cron starts   *)
(* either job again while an earlier run of it may still be at work, and a *)
(* run ends early when the worker stops or the timeout of arq hits.        *)
(***************************************************************************)
EXTENDS Integers, FiniteSets

CONSTANTS
  Events,       \* ids of outbox rows
  Contents,     \* type and payload, as _dedup_key sees them
  ContentOf,    \* of an event; two events may have the same
  Poison,       \* events whose dispatch fails whenever it is tried
  Silent,       \* contents without a template, or for a customer out of reach
  Batch,        \* BATCH of the outbox
  MaxAttempts,  \* 5
  Day,          \* hours of a day
  QuietFrom, QuietTo,  \* the customers' quiet hours
  Drains,       \* runs of drain_outbox at the same time
  Senders       \* runs of send_due at the same time

ASSUME DeliveryAssumption ==
  /\ Events \subseteq Nat
  /\ ContentOf \in [Events -> Contents]
  /\ Poison \subseteq Events
  /\ Silent \subseteq Contents
  /\ Batch \in Nat /\ Batch > Cardinality(Poison)
  /\ MaxAttempts \in Nat \ {0}
  /\ Day \in Nat \ {0} /\ QuietFrom \in 0..(Day - 1) /\ QuietTo \in 0..(Day - 1)

VARIABLES
  outbox,  \* events: "none", "waiting" or "published"
  drain,   \* what each run of drain_outbox has still to do, and has marked
  job,     \* notification_jobs by content; wait: hours until scheduled_at
  send,    \* what each run of send_due has loaded, and what it has decided
  hour,    \* of the customers' day
  calm     \* from now on nothing is cut off, slow or refused without a cause

vars == <<outbox, drain, job, send, hour, calm>>

-----------------------------------------------------------------------------
NoDrain == [todo |-> {}, marked |-> {}]
NoJob == [status |-> "none", attempt |-> 0, wait |-> 0]
Nothing == [c \in {} |-> NoJob]
NoSend == [loaded |-> Nothing, decided |-> Nothing]

Init ==
  /\ outbox = [e \in Events |-> "none"]
  /\ drain = [d \in Drains |-> NoDrain]
  /\ job = [c \in Contents |-> NoJob]
  /\ send = [s \in Senders |-> NoSend]
  /\ hour = QuietTo /\ calm = FALSE

\* enqueue_event: the row comes with the transaction it reports; ids are drawn
\* before, and commit in any order.
Emit(e) ==
  /\ outbox[e] = "none"
  /\ outbox' = [outbox EXCEPT ![e] = "waiting"]
  /\ UNCHANGED <<drain, job, send, hour, calm>>

-----------------------------------------------------------------------------
(* drain_outbox *)

Locked == UNION {drain[d].todo \cup drain[d].marked : d \in Drains}

\* ORDER BY id FOR UPDATE SKIP LOCKED LIMIT: fewer than Batch are before each.
\* A row that a run failed to mark is taken for free here before the run ends.
Selected ==
  LET free == {e \in Events : outbox[e] = "waiting"} \ Locked
  IN {e \in free : Cardinality({f \in free : f < e}) < Batch}

StartDrain(d) ==
  /\ drain[d] = NoDrain /\ Selected # {}
  /\ drain' = [drain EXCEPT ![d].todo = Selected]
  /\ UNCHANGED <<outbox, job, send, hour, calm>>

\* INSERT ... ON CONFLICT DO NOTHING, committed in a session of its own.
Enqueued(c) ==
  IF job[c].status = "none" THEN [NoJob EXCEPT !.status = "queued"] ELSE job[c]

\* What an exception leaves of the run k in the row e.
Abandoned(k, e) == NoDrain                                 \* mutant: no try around it
MarkedAnyway(k, e) == [k EXCEPT !.marked = @ \cup {e}]     \* mutant: marked in finally
Skipped(k, e) == k

IsNext(d, e) == e \in drain[d].todo /\ \A f \in drain[d].todo : e <= f
Taken(d, e) == [drain[d] EXCEPT !.todo = @ \ {e}]

Dispatch(d, e) ==
  /\ IsNext(d, e) /\ e \notin Poison
  /\ job' = IF ContentOf[e] \in Silent THEN job
            ELSE [job EXCEPT ![ContentOf[e]] = Enqueued(ContentOf[e])]
  /\ drain' = [drain EXCEPT ![d] = [Taken(d, e) EXCEPT !.marked = @ \cup {e}]]
  /\ UNCHANGED <<outbox, send, hour, calm>>

DispatchFails(d, e) ==
  /\ IsNext(d, e) /\ (calm => e \in Poison)
  /\ drain' = [drain EXCEPT ![d] = Skipped(Taken(d, e), e)]
  /\ UNCHANGED <<outbox, job, send, hour, calm>>

CommitDrain(d) ==
  /\ drain[d].todo = {} /\ drain[d].marked # {}
  /\ outbox' = [e \in Events |-> IF e \in drain[d].marked THEN "published" ELSE outbox[e]]
  /\ drain' = [drain EXCEPT ![d] = NoDrain]
  /\ UNCHANGED <<job, send, hour, calm>>

\* The worker stops, the run takes too long, or the database refuses a statement
\* of the outer transaction; jobs that it has committed remain.
AbortDrain(d) ==
  /\ drain[d] # NoDrain /\ ~calm
  /\ drain' = [drain EXCEPT ![d] = NoDrain]
  /\ UNCHANGED <<outbox, job, send, hour, calm>>

-----------------------------------------------------------------------------
(* send_due *)

\* [from, to), across midnight when from > to, empty when they are equal.
InQuiet(t) ==
  \/ QuietFrom < QuietTo /\ QuietFrom <= t /\ t < QuietTo
  \/ QuietFrom > QuietTo /\ (QuietFrom <= t \/ t < QuietTo)

\* _next_send_after_quiet: to of today, or of tomorrow once it has passed.
Tomorrow(t) == QuietTo - t + Day  \* mutant: always of tomorrow
UntilEnd(t) == IF QuietTo <= t THEN QuietTo - t + Day ELSE QuietTo - t

DueJobs == {c \in Contents : job[c].status = "queued" /\ job[c].wait = 0}

\* A plain SELECT: two runs may load the same jobs.
StartSend(s) ==
  /\ send[s] = NoSend /\ DueJobs # {}
  /\ send' = [send EXCEPT ![s].loaded = [c \in DueJobs |-> job[c]]]
  /\ UNCHANGED <<outbox, drain, job, hour, calm>>

Left(s) == DOMAIN send[s].loaded \ DOMAIN send[s].decided

Decide(s, c, new) ==
  /\ c \in Left(s)
  /\ send' = [send EXCEPT ![s].decided =
                [k \in DOMAIN @ \cup {c} |-> IF k = c THEN new ELSE @[k]]]

SameAttempt(k) == k  \* mutant: the attempt is not counted
OneMore(k) ==
  [k EXCEPT !.attempt = @ + 1, !.status = IF k.attempt + 1 >= MaxAttempts THEN "failed" ELSE "queued"]

\* send_message answers ...
Deliver(s, c) ==
  /\ ~InQuiet(hour)
  /\ Decide(s, c, [send[s].loaded[c] EXCEPT !.status = "sent"])
  /\ UNCHANGED <<outbox, drain, job, hour, calm>>

\* ... or raises, with or without a message gone out; or format raises before,
\* each time when the payload lacks a field of the template.
SendFails(s, c) ==
  /\ ~InQuiet(hour)
  /\ Decide(s, c, OneMore(send[s].loaded[c]))
  /\ UNCHANGED <<outbox, drain, job, hour, calm>>

\* The customer has gone, or wants no more messages.
Skip(s, c) ==
  /\ Decide(s, c, [send[s].loaded[c] EXCEPT !.status = "skipped"])
  /\ UNCHANGED <<outbox, drain, job, hour, calm>>

Defer(s, c) ==
  /\ InQuiet(hour)
  /\ Decide(s, c, [send[s].loaded[c] EXCEPT !.wait = UntilEnd(hour)])
  /\ UNCHANGED <<outbox, drain, job, hour, calm>>

\* One flush of all rows, by primary key, of the columns that differ from those
\* loaded: what another run has written to the others stays, to these it is lost.
EveryColumn(now, was, new) == new  \* mutant: the whole row is written back
Merged(now, was, new) ==
  [f \in DOMAIN now |-> IF new[f] # was[f] THEN new[f] ELSE now[f]]

CommitSend(s) ==
  /\ send[s] # NoSend /\ Left(s) = {}
  /\ job' = [c \in Contents |->
               IF c \in DOMAIN send[s].decided
               THEN Merged(job[c], send[s].loaded[c], send[s].decided[c]) ELSE job[c]]
  /\ send' = [send EXCEPT ![s] = NoSend]
  /\ UNCHANGED <<outbox, drain, hour, calm>>

\* What has been sent is out; that it was is forgotten.
AbortSend(s) ==
  /\ send[s] # NoSend /\ ~calm
  /\ send' = [send EXCEPT ![s] = NoSend]
  /\ UNCHANGED <<outbox, drain, job, hour, calm>>

\* An hour passes; scheduled_at is that much nearer.
Nearer(rows) == [c \in DOMAIN rows |-> [rows[c] EXCEPT !.wait = IF @ > 0 THEN @ - 1 ELSE 0]]

Tick ==
  /\ calm => \A s \in Senders : send[s] = NoSend
  /\ hour' = (hour + 1) % Day
  /\ job' = Nearer(job)
  /\ send' = [s \in Senders |-> [send[s] EXCEPT !.decided = Nearer(@)]]
  /\ UNCHANGED <<outbox, drain, calm>>

-----------------------------------------------------------------------------
Decision(s, c) == Deliver(s, c) \/ SendFails(s, c) \/ Skip(s, c) \/ Defer(s, c)
Abort == (\E d \in Drains : AbortDrain(d)) \/ (\E s \in Senders : AbortSend(s))

\* At last the workers are left to run, a run takes less than an hour and no
\* event is refused but the poisoned.  Safety does not ask when.
Calm == ~calm /\ calm' = TRUE /\ UNCHANGED <<outbox, drain, job, send, hour>>

Next ==
  \/ \E e \in Events : Emit(e)
  \/ \E d \in Drains :
       \/ StartDrain(d) \/ CommitDrain(d)
       \/ \E e \in Events : Dispatch(d, e) \/ DispatchFails(d, e)
  \/ \E s \in Senders :
       \/ StartSend(s) \/ CommitSend(s)
       \/ \E c \in Contents : Decision(s, c)
  \/ Abort
  \/ Tick
  \/ Calm

Spec == Init /\ [][Next]_vars

\* Cron starts the jobs for ever, every few seconds and so by day too, and a run
\* goes on until it is done.
Fairness ==
  /\ WF_vars(Calm) /\ WF_vars(Tick)
  /\ \A d \in Drains :
       /\ WF_vars(StartDrain(d)) /\ WF_vars(CommitDrain(d))
       /\ WF_vars(\E e \in Events : Dispatch(d, e) \/ DispatchFails(d, e))
  /\ \A s \in Senders :
       /\ WF_vars(CommitSend(s))
       /\ WF_vars(\E c \in Contents : Decision(s, c))
  /\ SF_vars(~InQuiet(hour) /\ \E s \in Senders : StartSend(s))

FairSpec == Spec /\ Fairness

-----------------------------------------------------------------------------
\* What drain_outbox has marked is never lost: its job is there, whatever run was
\* cut off, or overtaken, between the two commits.
EventHasJob ==
  \A e \in Events :
    outbox[e] = "published" /\ ContentOf[e] \notin Silent => job[ContentOf[e]].status # "none"

\* A message put off for the night waits until the window ends and no longer: by
\* day nothing waits, also when the decision is committed after the window.
WakesInTime == \A c \in Contents : job[c].status = "queued" /\ job[c].wait > 0 => InQuiet(hour)

\* A job that has been sent, skipped or given up never goes back to the queue:
\* no slower run writes "queued" over what another has settled.
SettledStaysSettled ==
  [][\A c \in Contents :
       job[c].status \notin {"none", "queued"} => job'[c].status \notin {"none", "queued"}]_vars

\* A poisoned event does not hold up those behind it.
EventsPublished ==
  \A e \in Events \ Poison : (outbox[e] = "waiting") ~> (outbox[e] = "published")

\* No job is tried for ever, also when runs overtake each other and undo the
\* count of attempts, and when its text can never be made.
JobsLeaveQueue ==
  \A c \in Contents : (job[c].status = "queued") ~> (job[c].status # "queued")
=============================================================================
