----------------------------- MODULE Broadcasts -----------------------------
(***************************************************************************)
(* The messages that the owner sends to every linked customer              *)
(* (app/domain/broadcast.py and app/admin/routes/broadcasts.py), while     *)
(* customers come, link, are blocked and go.  A broadcast is a row and a   *)
(* task of the API process, which a crash ends and nothing starts again.   *)
(***************************************************************************)
EXTENDS Customers

CONSTANTS
  Posts,  \* the broadcasts that are ever written
  Step    \* the sends after which the counters are saved: 25

BroadcastRows ==
  [status : {"sending", "done", "failed", "deleted"}, total : Nat, sent : Nat, failed : Nat]

ASSUME BroadcastsAssumption == None \notin BroadcastRows

VARIABLES
  row,    \* broadcasts by id; None before, "deleted" after
  task,   \* dispatch of each broadcast
  inbox   \* how often a broadcast reached an account

broadcastVars == <<row, task, inbox>>
vars == <<accountVars, broadcastVars>>

NoTask == [pc |-> "none", left |-> {}, sent |-> 0, failed |-> 0]

Init ==
  /\ AccountsInit
  /\ row = [b \in Posts |-> None]
  /\ task = [b \in Posts |-> NoTask]
  /\ inbox = [b \in Posts |-> [g \in Chats |-> 0]]

At(b, pc) == task[b].pc = pc
Goto(b, pc) == task' = [task EXCEPT ![b].pc = pc]

-----------------------------------------------------------------------------
(* The panel *)

\* create_and_send: the row is committed as "sending", then the task is created.
Announce(b) ==
  /\ row[b] = None /\ At(b, "none")
  /\ row' = [row EXCEPT ![b] = [status |-> "sending", total |-> 0, sent |-> 0, failed |-> 0]]
  /\ Goto(b, "start")
  /\ UNCHANGED <<accountVars, inbox>>

\* delete_broadcast reads the status, and deletes the row it has read.
OnRecord == {b \in Posts : row[b] # None /\ row[b].status # "deleted"}
Settled == {b \in OnRecord : row[b].status # "sending"}

AskErase(r) == \E b \in Settled : Begin(r, [todo |-> "erase", post |-> b]) /\ UNCHANGED broadcastVars

Erase(r) ==
  /\ Is(r, "erase")
  /\ row' = [row EXCEPT ![request[r].post].status = "deleted"]
  /\ Finish(r)
  /\ UNCHANGED <<users, codes, screen, task, inbox>>

-----------------------------------------------------------------------------
(* dispatch *)

\* The accounts it goes to, as the rows have them now.
EveryRow == {u \in Inserted : users[u].telegram # None}  \* mutant: no filter on deleted_at
Recipients == {u \in Live : users[u].telegram # None /\ users[u].status = "active"}

Snapshot(b) ==
  LET to == {[user |-> u, chat |-> users[u].telegram] : u \in Recipients} IN
  /\ At(b, "start") /\ row[b].status = "sending"
  /\ row' = [row EXCEPT ![b].total = Cardinality(to)]
  /\ task' = [task EXCEPT ![b] = [NoTask EXCEPT !.pc = "send", !.left = to]]
  /\ UNCHANGED <<accountVars, inbox>>

\* What is counted of a send: an error is a failure, also when it comes after
\* the message.
ForgetFailure(k, ok) == [k EXCEPT !.sent = @ + (IF ok THEN 1 ELSE 0)]  \* mutant
Counted(k, ok) ==
  [k EXCEPT !.sent = @ + (IF ok THEN 1 ELSE 0), !.failed = @ + (IF ok THEN 0 ELSE 1)]

Due(k) == IF (k.sent + k.failed) % Step = 0 THEN "save" ELSE "send"

Send(b) ==
  /\ At(b, "send")
  /\ \E to \in task[b].left, ok, out \in BOOLEAN :
       LET k == Counted(task[b], ok) IN
       /\ ok => out
       /\ inbox' = [inbox EXCEPT ![b][to.chat] = @ + (IF out THEN 1 ELSE 0)]
       /\ task' = [task EXCEPT ![b] = [k EXCEPT !.left = @ \ {to}, !.pc = Due(k)]]
  /\ UNCHANGED <<accountVars, row>>

\* UPDATE of the row, which is there or is not.
Put(b, new) == row' = [row EXCEPT ![b] = IF b \in OnRecord THEN new ELSE @]

Save(b) ==
  /\ At(b, "save")
  /\ Put(b, [row[b] EXCEPT !.sent = task[b].sent, !.failed = task[b].failed])
  /\ Goto(b, "send")
  /\ UNCHANGED <<accountVars, inbox>>

MarkDone(b) ==
  /\ At(b, "send") /\ task[b].left = {}
  /\ Put(b, [row[b] EXCEPT !.status = "done", !.sent = task[b].sent, !.failed = task[b].failed])
  /\ task' = [task EXCEPT ![b] = NoTask]
  /\ UNCHANGED <<accountVars, inbox>>

\* The token is not set, or the database fails while the loop runs.
MarkFailed(b) ==
  /\ task[b].pc \in {"start", "save", "send"}
  /\ Put(b, [row[b] EXCEPT !.status = "failed"])
  /\ task' = [task EXCEPT ![b] = NoTask]
  /\ UNCHANGED <<accountVars, inbox>>

-----------------------------------------------------------------------------
\* The API process stops and starts again.
Crash ==
  /\ task' = [b \in Posts |-> NoTask]
  /\ request' = [r \in Requests |-> NoRequest]
  /\ UNCHANGED <<users, codes, screen, row, inbox>>

Dispatch(b) == Snapshot(b) \/ Send(b) \/ Save(b) \/ MarkDone(b) \/ MarkFailed(b)

Next ==
  \/ AccountsNext /\ UNCHANGED broadcastVars
  \/ \E b \in Posts : Announce(b) \/ Dispatch(b)
  \/ \E r \in Requests : AskErase(r) \/ Erase(r)
  \/ Crash

Spec == Init /\ [][Next]_vars

-----------------------------------------------------------------------------
(* What makes it correct *)

\* A broadcast reaches an account once at most, though a customer who is deleted
\* and comes back has two rows with it, and a phone may change hands on the way.
OncePerAccount == \A b \in Posts, g \in Chats : inbox[b][g] <= 1

\* A broadcast that is done has an answer for everybody it was meant for, and no
\* row ever claims more messages than went out.
Reached(b) == {g \in Chats : inbox[b][g] > 0}
CountsAddUp ==
  \A b \in OnRecord :
    /\ row[b].status = "done" => row[b].sent + row[b].failed = row[b].total
    /\ row[b].sent <= Cardinality(Reached(b))

\* While messages go out their broadcast is on record, and the owner can see it:
\* the refusal to delete one that is sending is not overtaken by what runs.
SendingIsOnRecord ==
  \A b \in Posts : ~At(b, "none") => row[b].status = "sending"
=============================================================================
