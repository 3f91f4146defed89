----------------------------- MODULE Membership -----------------------------
(***************************************************************************)
(* The VIP deposits of one customer: app/domain/membership.py and the      *)
(* purchases that draw on them (app/domain/loyalty_engine.py), statement   *)
(* by statement, at READ COMMITTED.  The admin panel and the bots run the  *)
(* operations in sessions; a session keeps the row versions it has         *)
(* written, and their locks, until it commits or rolls back.               *)
(***************************************************************************)
EXTENDS Integers, Sequences, FiniteSets, Sums

CONSTANTS
  Sessions,
  Purchases,   \* client_request_ids of purchases
  Forced,      \* those with a campaign picked by hand (force_campaign_id)
  Sales,       \* client_request_ids of activations
  Cost,        \* of a purchase, after the discount of the deposit
  Paid,        \* for a deposit; at least the entry amount of the campaign
  Life,        \* rules.duration_days, 0 never expires
  MaxCards,    \* bound on the rows
  NoOne,
  MaxNow       \* bound on the clock

Requests == Purchases \cup Sales
Cards == 1..MaxCards

ASSUME MembershipAssumption ==
  /\ Cost \in [Purchases -> Nat] /\ Paid \in [Sales -> Nat \ {0}]
  /\ Purchases \cap Sales = {} /\ Forced \subseteq Purchases
  /\ Life \in Nat /\ MaxCards \in Nat /\ MaxNow \in Nat
  /\ NoOne \notin Requests

VARIABLES
  now,
  member,   \* memberships (committed); status "none": no such row
  status,   \* transactions, by the client_request_id they carry
  charges,  \* membership_id and vip_charged in the metadata of transactions
  pc,       \* the statement a session is about to send
  req,      \* the request it serves; NoOne for a page that shows the customer
  found,    \* the active row its SELECT has loaded: {} or one identity
  mine      \* the rows it has locked, as it has written them

db == <<member, status, charges>>
vars == <<now, member, status, charges, pc, req, found, mine>>

-----------------------------------------------------------------------------
(* Rows *)

NoRow == [c \in {} |-> 0]
With(rows, c, v) == [d \in DOMAIN rows \cup {c} |-> IF d = c THEN v ELSE rows[d]]

NoMember ==
  [status |-> "none", balance |-> 0, paid |-> 0, expires |-> 0]

NewMember(r) ==
  [status |-> "active", balance |-> Paid[r], paid |-> Paid[r],
   expires |-> IF Life = 0 THEN 0 ELSE now + Life]

Active(k) == k.status = "active"
Over(k) == k.expires # 0 /\ k.expires <= now

\* deduct_balance: WHERE of the UPDATE, the UPDATE, and the status of a deposit
\* that it has drained.
Funded(k, amount) == k.balance >= amount  \* mutant: whatever the status
Covers(k, amount) == Active(k) /\ k.balance >= amount

Drained(k, amount) ==
  [k EXCEPT !.balance = @ - amount,
            !.status = IF k.balance - amount = 0 THEN "exhausted" ELSE @]

\* get_active_membership: what becomes of an active row that is read.
Stale(k) == IF k.balance = 0 THEN {"exhausted"} ELSE IF Over(k) THEN {"expired"} ELSE {}

Cancelled(k) == [k EXCEPT !.status = "cancelled"]

Seen(s, c) == IF c \in DOMAIN mine[s] THEN mine[s][c] ELSE member[c]

NeverWaits(s, c) == TRUE  \* mutant: no row locks
RowFree(s, c) == \A t \in Sessions \ {s} : c \notin DOMAIN mine[t]

\* uq_membership_active: an INSERT waits for the sessions that change or insert
\* an active row, and fails on one that is committed and nobody changes.
IndexFree(s) ==
  \A c \in Cards :
    /\ ~Active(Seen(s, c))
    /\ RowFree(s, c) \/ (\A t \in Sessions : ~Active(member[c]) /\ ~Active(Seen(t, c)))

IndexTaken(s) == \E c \in Cards : Active(Seen(s, c)) /\ RowFree(s, c)

\* UNIQUE (tenant_id, client_request_id); a refund locks its transaction.
TxFree(s, r) == \A t \in Sessions \ {s} : req[t] = r => pc[t] \notin {"insert", "commit", "reverse"}

-----------------------------------------------------------------------------
Init ==
  /\ now = 0
  /\ member = [c \in Cards |-> NoMember]
  /\ status = [r \in Requests |-> "new"]
  /\ charges = <<>>
  /\ pc = [s \in Sessions |-> "idle"]
  /\ req = [s \in Sessions |-> NoOne]
  /\ found = [s \in Sessions |-> {}]
  /\ mine = [s \in Sessions |-> NoRow]

Goto(s, label) == pc' = [pc EXCEPT ![s] = label]

Forget(s) ==
  /\ Goto(s, "idle")
  /\ req' = [req EXCEPT ![s] = NoOne]
  /\ found' = [found EXCEPT ![s] = {}]
  /\ mine' = [mine EXCEPT ![s] = NoRow]

RollBack(s) == Forget(s) /\ UNCHANGED <<now, db>>

Start(s, r, label) ==
  /\ pc[s] = "idle"
  /\ Goto(s, label)
  /\ req' = [req EXCEPT ![s] = r]
  /\ UNCHANGED <<now, db, found, mine>>

-----------------------------------------------------------------------------
(* get_active_membership and its callers *)

\* record_purchase finds no replay; a campaign picked by hand bypasses the
\* deposit.  activate_membership does not look for one.
Begin(s, r) ==
  /\ status[r] = "new"
  /\ Start(s, r, IF r \in Forced THEN "record" ELSE "look")

\* The pages of the bots and of the admin panel that show the deposit.
View(s) == Start(s, NoOne, "look")

\* What follows once there is no live deposit, or one.
Without(r) == IF r = NoOne THEN "commit" ELSE "record"
Using(r) ==
  IF r \in Purchases THEN IF Cost[r] > 0 THEN "deduct" ELSE "record"
  ELSE IF r \in Sales THEN "refuse" ELSE "commit"

\* The SELECT of the active row.
Look(s) ==
  /\ pc[s] = "look"
  /\ \/ /\ \A c \in Cards : ~Active(member[c])
        /\ Goto(s, Without(req[s]))
        /\ UNCHANGED found
     \/ \E c \in Cards :
          /\ Active(member[c])
          /\ found' = [found EXCEPT ![s] = {c}]
          /\ \/ Stale(member[c]) = {} /\ Goto(s, Using(req[s]))
             \/ \E label \in Stale(member[c]) : Goto(s, label)
  /\ UNCHANGED <<now, db, req, mine>>

\* The UPDATE by id of a row that was stale when it was read, whatever it has
\* become in between.
Retire(s) ==
  \E c \in found[s] :
    /\ pc[s] \in {"exhausted", "expired"} /\ RowFree(s, c)
    /\ mine' = [mine EXCEPT ![s] = With(@, c, [member[c] EXCEPT !.status = pc[s]])]
    /\ found' = [found EXCEPT ![s] = {}]
    /\ Goto(s, Without(req[s]))
    /\ UNCHANGED <<now, db, req>>

\* DomainError: the customer has a live deposit already.
Refuse(s) == pc[s] = "refuse" /\ RollBack(s)

\* deduct_balance, with the status it reads back.
Deduct(s) ==
  \E c \in found[s] :
    /\ pc[s] = "deduct" /\ RowFree(s, c)
    /\ Covers(member[c], Cost[req[s]])
    /\ mine' = [mine EXCEPT ![s] = With(@, c, Drained(member[c], Cost[req[s]]))]
    /\ Goto(s, "record")
    /\ UNCHANGED <<now, db, req, found>>

\* DomainError: the deposit is short, or closed by now.
Short(s) ==
  \E c \in found[s] :
    pc[s] = "deduct" /\ RowFree(s, c) /\ ~Covers(member[c], Cost[req[s]]) /\ RollBack(s)

\* INSERT of the transaction ...
Record(s) ==
  /\ pc[s] = "record" /\ status[req[s]] = "new" /\ TxFree(s, req[s])
  /\ Goto(s, IF req[s] \in Sales THEN "insert" ELSE "commit")
  /\ UNCHANGED <<now, db, req, found, mine>>

\* ... which fails on the key if a retry of the request has committed.
RecordFails(s) == pc[s] = "record" /\ status[req[s]] # "new" /\ RollBack(s)

\* INSERT of the deposit, which the unique index may delay or refuse.
Unused(c) == member[c].status = "none" /\ \A t \in Sessions : c \notin DOMAIN mine[t]

Insert(s) ==
  /\ pc[s] = "insert" /\ IndexFree(s)
  /\ \E c \in Cards :
       /\ Unused(c) /\ \A d \in 1..(c - 1) : ~Unused(d)
       /\ mine' = [mine EXCEPT ![s] = With(@, c, NewMember(req[s]))]
  /\ Goto(s, "commit")
  /\ UNCHANGED <<now, db, req, found>>

InsertFails(s) == pc[s] = "insert" /\ IndexTaken(s) /\ RollBack(s)

-----------------------------------------------------------------------------
(* cancel_membership, and the refund of a purchase *)

\* The active row that SELECT ... FOR UPDATE finds ...
BeginCancel(s, c) ==
  /\ pc[s] = "idle" /\ Active(member[c])
  /\ found' = [found EXCEPT ![s] = {c}]
  /\ Goto(s, "cancel")
  /\ UNCHANGED <<now, db, req, mine>>

\* ... is looked at again once it is locked.
Cancel(s) ==
  \E c \in found[s] :
    /\ pc[s] = "cancel" /\ RowFree(s, c) /\ Active(member[c])
    /\ mine' = [mine EXCEPT ![s] = With(@, c, Cancelled(member[c]))]
    /\ Goto(s, "commit")
    /\ UNCHANGED <<now, db, req, found>>

NoneToCancel(s) ==
  \E c \in found[s] :
    pc[s] = "cancel" /\ RowFree(s, c) /\ ~Active(member[c]) /\ RollBack(s)

\* refund_transaction: a purchase paid from a deposit has no ledger entry that
\* could be compensated, so nothing but its status changes.
BeginRefund(s, r) == status[r] = "committed" /\ TxFree(s, r) /\ Start(s, r, "reverse")

-----------------------------------------------------------------------------
(* The end of a session's transaction, and time *)

Charge(s) ==
  IF req[s] \in Purchases /\ pc[s] = "commit" /\ found[s] # {}
  THEN <<[on |-> CHOOSE c \in found[s] : TRUE, tx |-> req[s], amount |-> Cost[req[s]]]>>
  ELSE <<>>

Commit(s) ==
  /\ pc[s] \in {"commit", "reverse"}
  /\ member' = [c \in Cards |-> Seen(s, c)]
  /\ status' = [r \in Requests |->
                  IF r # req[s] THEN status[r]
                  ELSE IF pc[s] = "reverse" THEN "reversed" ELSE "committed"]
  /\ charges' = charges \o Charge(s)
  /\ Forget(s)
  /\ UNCHANGED now

Abort(s) == pc[s] # "idle" /\ RollBack(s)

Tick == now < MaxNow /\ now' = now + 1 /\ UNCHANGED <<db, pc, req, found, mine>>

Serve(s) ==
  \/ \E r \in Requests : Begin(s, r)
  \/ \E c \in Cards : BeginCancel(s, c)
  \/ \E r \in Purchases : BeginRefund(s, r)
  \/ View(s)

Advance(s) ==
  \/ Look(s) \/ Retire(s) \/ Refuse(s) \/ Deduct(s) \/ Short(s)
  \/ Record(s) \/ RecordFails(s) \/ Insert(s) \/ InsertFails(s)
  \/ Cancel(s) \/ NoneToCancel(s) \/ Commit(s)

Next == (\E s \in Sessions : Serve(s) \/ Advance(s) \/ Abort(s)) \/ Tick

Spec == Init /\ [][Next]_vars

-----------------------------------------------------------------------------
(* What makes it correct *)

ChargedTo(c) ==
  Total([i \in DOMAIN charges |-> IF charges[i].on = c THEN charges[i].amount ELSE 0])

\* deduct_balance has no ledger behind it: the balance of a deposit, closed or
\* not, is nevertheless what was paid for it less what the transactions on
\* record were charged, and no retry of a purchase is charged twice.
DepositFollowsCharges ==
  /\ \A c \in Cards : member[c].balance = member[c].paid - ChargedTo(c)
  /\ \A i, j \in DOMAIN charges : charges[i].tx = charges[j].tx => i = j

\* The deposits of a customer, through every overlap of purchases, sales,
\* cancellations and lazy expiries: one is live at a time, a live one is not
\* replaced before its term, and a closed one is never spent from nor revived.
AbstractDeposit ==
  INSTANCE Deposit WITH
    Deposits <- Cards,
    left <- [c \in Cards |-> member[c].balance],
    live <- {c \in Cards : Active(member[c])},
    over <- {c \in Cards : Over(member[c])}

DepositSpec == AbstractDeposit!Spec
=============================================================================
