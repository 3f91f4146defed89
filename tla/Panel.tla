------------------------------- MODULE Panel --------------------------------
(***************************************************************************)
(* The forms of a customer's page in the panel                             *)
(* (app/admin/routes/customers.py), posted by owners while the crew        *)
(* changes.  A page carries a token for each form; a post of it records a  *)
(* transaction and an audit row and commits both, then starts a task that  *)
(* tells the customer.                                                     *)
(***************************************************************************)
EXTENDS Crew, Functions

CONSTANTS
  Forms,     \* rendered forms, each with its token
  Kind,      \* of a form: what it is for
  MaxClicks  \* bound: posts of all the forms

ASSUME PanelAssumption ==
  /\ Kind \in [Forms -> {"purchase", "prepaid", "bonus", "redeem", "membership"}]
  /\ MaxClicks \in Nat

VARIABLE form  \* posts, transactions, audit rows and messages of each form

vars == <<crewVars, form>>

Init == CrewInit /\ form = [f \in Forms |-> [clicks |-> 0, effects |-> 0, audits |-> 0, told |-> 0]]

\* record_purchase, open_package and redeem_free_coffee return the transaction that
\* has the token; grants and memberships have uq_tx_idempotency only.
Replays == {f \in Forms : Kind[f] \in {"purchase", "prepaid", "redeem"}}
Tells == {f \in Forms : Kind[f] # "prepaid"}

\* uq_tx_idempotency.
NoKey(f) == TRUE  \* mutant
KeyFree(f) == form[f].effects = 0

-----------------------------------------------------------------------------
\* _accept_crid, current_admin, and find_replay.
Submit(r, by, f) ==
  /\ SumFunction([g \in Forms |-> form[g].clicks]) < MaxClicks
  /\ form' = [form EXCEPT ![f].clicks = @ + 1]
  /\ Begin(r, [todo |-> IF f \in Replays /\ ~KeyFree(f) THEN "replay" ELSE "apply",
               by |-> by, form |-> f])

\* After the commit the task is created that sends the message.
Then(r, f) ==
  request' = [request EXCEPT ![r] = IF f \in Tells THEN [todo |-> "tell", form |-> f] ELSE NoRequest]

\* The transaction and its audit row, by an author who is still there.
Record(f) == form' = [form EXCEPT ![f].effects = @ + 1, ![f].audits = @ + 1]

Apply(r) ==
  LET f == request[r].form  by == request[r].by IN
  /\ Is(r, "apply")
  /\ IF KeyFree(f) /\ by \in Rows
     THEN Record(f) /\ worked' = worked \cup {by} /\ Then(r, f)
     ELSE Finish(r) /\ UNCHANGED <<worked, form>>
  /\ UNCHANGED <<staff, shift>>

\* Nothing is recorded again, but it is audited and told again.
Replay(r) ==
  LET f == request[r].form IN
  /\ Is(r, "replay")
  /\ form' = [form EXCEPT ![f].audits = @ + 1]
  /\ Then(r, f)
  /\ UNCHANGED <<staff, worked, shift>>

\* customer_notify; errors are swallowed.
TellAgain(r) ==  \* mutant: sent again after a timeout
  /\ Is(r, "tell")
  /\ form' = [form EXCEPT ![request[r].form].told = @ + 1]
  /\ UNCHANGED <<staff, worked, shift, request>>
Tell(r) ==
  /\ Is(r, "tell")
  /\ form' = [form EXCEPT ![request[r].form].told = @ + 1]
  /\ Finish(r)
  /\ UNCHANGED <<staff, worked, shift>>

\* The API process stops; a message that has not been sent is lost.
Crash ==
  /\ request' = [r \in Requests |-> NoRequest]
  /\ UNCHANGED <<staff, worked, shift, form>>

Next ==
  \/ CrewNext /\ UNCHANGED form
  \/ \E r \in Requests :
       \/ \E f \in Forms, by \in Owners : Submit(r, by, f)
       \/ Apply(r) \/ Replay(r) \/ Tell(r)
  \/ Crash

Spec == Init /\ [][Next]_vars

-----------------------------------------------------------------------------
(* What makes it correct *)

\* "A duplicate POST (double-click, browser retry) is caught": a form takes
\* effect once at most, also when two posts of it find no replay.
OncePerForm == \A f \in Forms : form[f].effects <= 1

\* The requests that are about to do something for a form.
Doing(f, todo) == {r \in Requests : request[r].todo \in todo /\ request[r].form = f}
Posts == {"apply", "replay"}

\* The logs add up, over posts that overlap, fail or replay and crashes between a commit
\* and its message: exactly what took effect is in the audit log, each row is due to
\* another post, a form without a replay leaves one row, and each message, those
\* under way included, to another row.
LogsAddUp ==
  \A f \in Forms : LET k == form[f] IN
    /\ k.effects > 0 <=> k.audits > 0
    /\ k.audits + Cardinality(Doing(f, Posts)) <= k.clicks
    /\ f \notin Replays => k.audits = k.effects
    /\ k.told + Cardinality(Doing(f, {"tell"})) <= IF f \in Tells THEN k.audits ELSE 0
=============================================================================
