------------------------------ MODULE Prepaid ------------------------------
(***************************************************************************)
(* The prepaid packages of one customer: app/domain/prepaid.py, the        *)
(* prepaid half of app/domain/refund.py and the job that expires packages  *)
(* (app/workers/jobs/expirations.py), statement by statement, at READ      *)
(* COMMITTED.  A session writes new versions of rows; a commit publishes   *)
(* them and releases the row locks, a rollback drops them.                 *)
(***************************************************************************)
EXTENDS Integers, Sequences, FiniteSets, Sums

CONSTANTS
  Sessions,   \* the bot and admin workers
  Job,        \* the arq worker that runs expire_prepaid_packages
  Opens,      \* client_request_ids of sales of packages
  Uses,       \* client_request_ids of consumed units
  Packages,   \* identities of packages
  Bundles,    \* what is on offer: [qty, life], life 0 never expires
  NoOne,
  MaxNow      \* bound on the clock

Actors == Sessions \cup {Job}
Requests == Opens \cup Uses

ASSUME PrepaidAssumption ==
  /\ Bundles \subseteq [qty : Nat \ {0}, life : Nat]
  /\ Job \notin Sessions
  /\ NoOne \notin Packages \cup Requests
  /\ Opens \cap Uses = {}
  /\ IsFiniteSet(Uses) /\ IsFiniteSet(Packages)
  /\ MaxNow \in Nat

VARIABLES
  now,
  pkg,      \* prepaid_packages (committed); status "none": not opened
  status,   \* transactions, by the client_request_id they carry
  package,  \* the package of a committed transaction
  ledger,   \* ledger_entries on accounts prepaid:<package id>
  pc,       \* the statement an actor is about to send
  req,      \* the request it serves, or the transaction it refunds
  mine,     \* the package rows it has locked, as it has written them
  cands     \* rows its SELECT or UPDATE found and has yet to lock

db == <<pkg, status, package, ledger>>
vars == <<now, pkg, status, package, ledger, pc, req, mine, cands>>

-----------------------------------------------------------------------------
(* Rows *)

States == {"none", "active", "exhausted", "refunded", "expired"}
Package == [status : States, qty : Nat, total : Nat, expires : Nat]

NoRow == [p \in {} |-> 0]
Row(p, k) == [q \in {p} |-> k]

Unopened == [status |-> "none", qty |-> 0, total |-> 0, expires |-> 0]

NewPackage(b) ==
  [status |-> "active", qty |-> b.qty, total |-> b.qty,
   expires |-> IF b.life = 0 THEN 0 ELSE now + b.life]

\* Mutant: only the units are looked at.
AnyWithUnits(k) == k.qty > 0
Usable(k) == k.status = "active" /\ k.qty > 0

Lapsed(k) == k.status = "active" /\ k.expires # 0 /\ k.expires < now

\* UPDATE qty_remaining - 1; the ORM object now holds the new quantity, from
\* which one more is subtracted for the test that closes the package.
Decremented(k) ==
  [k EXCEPT !.qty = @ - 1, !.status = IF (k.qty - 1) - 1 = 0 THEN "exhausted" ELSE @]

\* _refund_prepaid of a consume, whatever has closed the package ...
RestoredWhole(k) == [k EXCEPT !.qty = k.total, !.status = "active"]  \* mutant
Restored(k) == [k EXCEPT !.qty = @ + 1, !.status = "active"]

\* ... and of the sale.
Cancelled(k) == [k EXCEPT !.qty = 0, !.status = "refunded"]

ExpiredBurnt(k) == [k EXCEPT !.qty = 0, !.status = "expired"]  \* mutant: nothing booked
Expired(k) == [k EXCEPT !.status = "expired"]

NeverWaits(s, p) == TRUE  \* mutant: no row locks
RowFree(s, p) == \A t \in Actors \ {s} : p \notin DOMAIN mine[t]

\* UNIQUE (tenant_id, client_request_id): an INSERT waits for another one of
\* the same key.  A refund locks the transaction it refunds FOR UPDATE.
TxUnlocked(s, r) == TRUE  \* mutant
TxFree(s, r) ==
  \A t \in Actors \ {s} : req[t] = r => pc[t] \notin {"restore", "commit"}

\* What the transaction of request r has done to its package, and its inverse.
Delta(r, k) == IF r \in Opens THEN k.total ELSE -1

Effect(p, delta, r, refund) ==
  [package |-> p, delta |-> delta, tx |-> r, refund |-> refund]

-----------------------------------------------------------------------------
Init ==
  /\ now = 0
  /\ pkg = [p \in Packages |-> Unopened]
  /\ status = [r \in Requests |-> "new"]
  /\ package = [r \in Requests |-> NoOne]
  /\ ledger = <<>>
  /\ pc = [s \in Actors |-> "idle"]
  /\ req = [s \in Actors |-> NoOne]
  /\ mine = [s \in Actors |-> NoRow]
  /\ cands = [s \in Actors |-> <<>>]

Goto(s, label) == pc' = [pc EXCEPT ![s] = label]

Forget(s) ==
  /\ Goto(s, "idle")
  /\ req' = [req EXCEPT ![s] = NoOne]
  /\ mine' = [mine EXCEPT ![s] = NoRow]
  /\ cands' = [cands EXCEPT ![s] = <<>>]

RollBack(s) == Forget(s) /\ UNCHANGED <<now, db>>

-----------------------------------------------------------------------------
(* Sales and consumed units *)

\* open_package: no replay is found; INSERT of the package.
BeginOpen(s, r, p, b) ==
  /\ pc[s] = "idle" /\ status[r] = "new"
  /\ pkg[p] = Unopened /\ RowFree(s, p)
  /\ req' = [req EXCEPT ![s] = r]
  /\ mine' = [mine EXCEPT ![s] = Row(p, NewPackage(b))]
  /\ Goto(s, "record")
  /\ UNCHANGED <<now, db, cands>>

\* Orders of a set of packages in which none comes after one that expires later.
Earlier(p, q) ==
  pkg[p].expires # 0 /\ (pkg[q].expires = 0 \/ pkg[p].expires < pkg[q].expires)

Orders(S) ==
  {o \in [1..Cardinality(S) -> S] :
     \A i, j \in 1..Cardinality(S) : i < j => o[i] # o[j]}

Fifo(S) == {o \in Orders(S) : \A i, j \in DOMAIN o : i < j => ~Earlier(o[j], o[i])}

\* consume_one: no replay is found; the packages the SELECT ... FOR UPDATE
\* finds, in its order, the one the barista picked or any active one.
BeginConsume(s, r, picked) ==
  /\ pc[s] = "idle" /\ status[r] = "new"
  /\ req' = [req EXCEPT ![s] = r]
  /\ \E o \in Fifo({p \in picked : Usable(pkg[p])}) : cands' = [cands EXCEPT ![s] = o]
  /\ Goto(s, "pick")
  /\ UNCHANGED <<now, db, mine>>

\* The SELECT locks the next row it found, looks at it again, and goes on if it
\* no longer qualifies; else the UPDATEs of consume_one.
PickPackage(s) ==
  LET p == Head(cands[s]) IN
  /\ pc[s] = "pick" /\ cands[s] # <<>>
  /\ RowFree(s, p)
  /\ IF Usable(pkg[p])
     THEN /\ mine' = [mine EXCEPT ![s] = Row(p, Decremented(pkg[p]))]
          /\ cands' = [cands EXCEPT ![s] = <<>>]
          /\ Goto(s, "record")
     ELSE /\ cands' = [cands EXCEPT ![s] = Tail(@)]
          /\ UNCHANGED <<mine, pc>>
  /\ UNCHANGED <<now, db, req>>

\* raise PrepaidNotFound
NotFound(s) == pc[s] = "pick" /\ cands[s] = <<>> /\ RollBack(s)

\* Mutant: no unique key, a retry in flight is recorded as well.
RecordAnyway(s) ==
  /\ pc[s] = "record" /\ Goto(s, "commit")
  /\ UNCHANGED <<now, db, req, mine, cands>>

\* INSERT of the transaction and its ledger entry ...
Record(s) ==
  /\ pc[s] = "record" /\ status[req[s]] = "new" /\ TxFree(s, req[s])
  /\ Goto(s, "commit")
  /\ UNCHANGED <<now, db, req, mine, cands>>

\* ... which fails on the key if a retry of the request has committed.
RecordFails(s) == pc[s] = "record" /\ status[req[s]] # "new" /\ RollBack(s)

-----------------------------------------------------------------------------
(* Refunds *)

\* refund_transaction locks the transaction and finds it committed.
BeginRefund(s, r) ==
  /\ pc[s] = "idle" /\ status[r] = "committed" /\ TxFree(s, r)
  /\ req' = [req EXCEPT ![s] = r]
  /\ Goto(s, "restore")
  /\ UNCHANGED <<now, db, mine, cands>>

\* _refund_prepaid: the UPDATE, by the id in the account of the ledger entry.
Restore(s) ==
  LET r == req[s]
      p == package[r]
  IN
  /\ pc[s] = "restore"
  /\ RowFree(s, p)
  /\ mine' = [mine EXCEPT ![s] =
                Row(p, IF r \in Opens THEN Cancelled(pkg[p]) ELSE Restored(pkg[p]))]
  /\ Goto(s, "commit")
  /\ UNCHANGED <<now, db, req, cands>>

-----------------------------------------------------------------------------
(* The nightly job *)

\* Mutant: only packages with units left, as the implementation plan has it.
ExpirableWithUnits == {p \in Packages : Lapsed(pkg[p]) /\ pkg[p].qty > 0}

\* expire_prepaid_packages: the rows its UPDATE finds ...
Expirable == {p \in Packages : Lapsed(pkg[p])}

BeginExpire ==
  /\ pc[Job] = "idle" /\ Expirable # {}
  /\ \E o \in Orders(Expirable) : cands' = [cands EXCEPT ![Job] = o]
  /\ Goto(Job, "expire")
  /\ UNCHANGED <<now, db, req, mine>>

\* ... and updates one by one, if they still qualify once locked.
ExpirePackage ==
  LET p == Head(cands[Job]) IN
  /\ pc[Job] = "expire"
  /\ RowFree(Job, p)
  /\ mine' = IF Lapsed(pkg[p])
             THEN [mine EXCEPT ![Job] =
                     [q \in DOMAIN @ \cup {p} |-> IF q = p THEN Expired(pkg[p]) ELSE @[q]]]
             ELSE mine
  /\ cands' = [cands EXCEPT ![Job] = Tail(@)]
  /\ Goto(Job, IF Len(cands[Job]) = 1 THEN "commit" ELSE "expire")
  /\ UNCHANGED <<now, db, req>>

-----------------------------------------------------------------------------
(* The end of a transaction, and time *)

Publish(s) ==
  pkg' = [p \in Packages |-> IF p \in DOMAIN mine[s] THEN mine[s][p] ELSE pkg[p]]

\* A session has written one package and one transaction ...
Commit(s) ==
  LET r == req[s] IN
  /\ pc[s] = "commit" /\ s # Job
  /\ Publish(s)
  /\ \E p \in DOMAIN mine[s] :
       LET refund == status[r] = "committed"
           d == Delta(r, mine[s][p])
       IN  /\ status' = [status EXCEPT ![r] = IF refund THEN "reversed" ELSE "committed"]
           /\ package' = [package EXCEPT ![r] = p]
           /\ ledger' = Append(ledger, Effect(p, IF refund THEN -d ELSE d, r, refund))
  /\ Forget(s)
  /\ UNCHANGED now

\* ... the job only packages.
CommitJob ==
  /\ pc[Job] = "commit"
  /\ Publish(Job)
  /\ Forget(Job)
  /\ UNCHANGED <<now, status, package, ledger>>

Abort(s) == pc[s] # "idle" /\ RollBack(s)

Tick == now < MaxNow /\ now' = now + 1 /\ UNCHANGED <<db, pc, req, mine, cands>>

Begin(s) ==
  \/ \E r \in Opens, p \in Packages, b \in Bundles : BeginOpen(s, r, p, b)
  \/ \E r \in Uses : BeginConsume(s, r, Packages) \/ \E p \in Packages : BeginConsume(s, r, {p})
  \/ \E r \in Requests : BeginRefund(s, r)

Advance(s) ==
  PickPackage(s) \/ NotFound(s) \/ Record(s) \/ RecordFails(s) \/ Restore(s) \/ Commit(s)

JobStep == BeginExpire \/ ExpirePackage \/ CommitJob

Next ==
  \/ \E s \in Sessions : Begin(s) \/ Advance(s) \/ Abort(s)
  \/ JobStep \/ Abort(Job)
  \/ Tick

Spec == Init /\ [][Next]_vars

\* A worker does its next statement once it need not wait, in its turn for a
\* row lock (SF), and the job is started every night and not always killed.
CalmNext ==
  \/ \E s \in Sessions : Begin(s) \/ Advance(s) \/ Abort(s)
  \/ JobStep
  \/ Tick

Fairness ==
  /\ \A s \in Sessions : SF_vars(Advance(s))
  /\ SF_vars(ExpirePackage) /\ WF_vars(BeginExpire \/ CommitJob)

FairSpec == Init /\ [][CalmNext]_vars /\ Fairness

-----------------------------------------------------------------------------
(* Correctness *)

Entry ==
  [package : Packages, delta : Int, tx : Requests, refund : BOOLEAN]

\* Types; quantities satisfy the CHECKs 0 <= qty_remaining <= qty_total, so no
\* statement fails on them.
TypeOK ==
  /\ now \in Nat
  /\ pkg \in [Packages -> Package]
  /\ status \in [Requests -> {"new", "committed", "reversed"}]
  /\ package \in [Requests -> Packages \cup {NoOne}]
  /\ ledger \in Seq(Entry)
  /\ pc \in [Actors -> {"idle", "pick", "record", "restore", "expire", "commit"}]
  /\ req \in [Actors -> Requests \cup {NoOne}]
  /\ cands \in [Actors -> Seq(Packages)]
  /\ mine = [s \in Actors |-> mine[s]]
  /\ \A s \in Actors : \A p \in DOMAIN mine[s] : p \in Packages /\ mine[s][p] \in Package

\* Sum of the ledger entries on the account of package p.
Booked(p) ==
  Total([i \in DOMAIN ledger |-> IF ledger[i].package = p THEN ledger[i].delta ELSE 0])

IsCancelled(p) == \E o \in Opens : package[o] = p /\ status[o] = "reversed"

\* models/ledger.py:3-5: as long as its sale stands, what a package has left
\* can be recomputed from the ledger.
QtyIsLedgerSum == \A p \in Packages : ~IsCancelled(p) => pkg[p].qty = Booked(p)

\* Consumed units that have not been given back.
UsedBy(p) == {r \in Uses : package[r] = p /\ status[r] = "committed"}
Used(p) == Cardinality(UsedBy(p))

\* What is left and what has been consumed is never more than was paid for, so
\* giving units back never meets CHECK (qty_remaining <= qty_total).
UnitsPaidFor == \A p \in Packages : pkg[p].qty + Used(p) <= pkg[p].total

\* A request takes effect once, and is taken back once, however often it is
\* sent and by however many workers it is served.
EffectOnce ==
  \A i, j \in DOMAIN ledger :
    ledger[i].tx = ledger[j].tx /\ ledger[i].refund = ledger[j].refund => i = j

\* prepaid.py:160: a unit is only ever taken from a package that is active when
\* it is taken, whatever expires or cancels it at the same time.
UsesOnlyActive ==
  [][\A r \in Uses :
       status[r] = "new" /\ status'[r] = "committed"
         => pkg[package'[r]].status = "active"]_vars

\* A package implements a pool of paid units.
Pool == INSTANCE PrepaidPool WITH
  Pools <- Packages,
  left <- [p \in Packages |-> pkg[p].qty],
  used <- [p \in Packages |-> Used(p)]
PoolSpec == Pool!Spec

\* expirations.py:40: a package past its expiry does not stay active.
LapsedPackagesExpire == \A p \in Packages : Lapsed(pkg[p]) ~> ~Lapsed(pkg[p])

-----------------------------------------------------------------------------
(* Why it holds *)

\* What a request makes of a row when it is recorded ...
RecordedAs(r, p, k) ==
  IF r \in Opens
  THEN pkg[p] = Unopened /\ k.status = "active" /\ k.qty = k.total /\ k.qty > 0
  ELSE Usable(pkg[p]) /\ k = Decremented(pkg[p])

\* ... and when it is refunded.
RefundedAs(r, p, k) ==
  p = package[r] /\ k = IF r \in Opens THEN Cancelled(pkg[p]) ELSE Restored(pkg[p])

\* A session in the middle of a request has one row, in the version that the
\* request makes of the committed one, which cannot change under the row lock.
SessionOK(s) ==
  /\ pc[s] # "expire"
  /\ pc[s] # "idle" => req[s] \in Requests
  /\ pc[s] = "pick" => req[s] \in Uses
  /\ pc[s] = "restore" => status[req[s]] = "committed"
  /\ pc[s] = "commit" => status[req[s]] \in {"new", "committed"}
  /\ pc[s] \in {"idle", "pick", "restore"} => DOMAIN mine[s] = {}
  /\ pc[s] \in {"record", "commit"} =>
       \E p \in Packages :
         /\ DOMAIN mine[s] = {p}
         /\ IF pc[s] = "commit" /\ status[req[s]] = "committed"
            THEN RefundedAs(req[s], p, mine[s][p])
            ELSE RecordedAs(req[s], p, mine[s][p])

JobOK ==
  /\ pc[Job] \in {"idle", "expire", "commit"} /\ req[Job] = NoOne
  /\ pc[Job] = "expire" => cands[Job] # <<>>
  /\ pc[Job] = "idle" => DOMAIN mine[Job] = {}
  /\ \A p \in DOMAIN mine[Job] :
       pkg[p].status = "active" /\ mine[Job][p] = Expired(pkg[p])

\* Row locks and the locks on transactions exclude one another.
LocksOK ==
  \A s, t \in Actors : s # t =>
    /\ DOMAIN mine[s] \cap DOMAIN mine[t] = {}
    /\ s # Job /\ pc[s] \in {"restore", "commit"} => TxFree(s, req[s])

\* Transactions, their packages and their entries belong together.
BooksOK ==
  /\ \A p \in Packages : pkg[p].status = "none" => pkg[p] = Unopened
  /\ \A r \in Requests :
       IF status[r] = "new" THEN package[r] = NoOne
       ELSE package[r] \in Packages /\ pkg[package[r]].status # "none"
  /\ \A i \in DOMAIN ledger :
       /\ status[ledger[i].tx] # "new"
       /\ ledger[i].refund => status[ledger[i].tx] = "reversed"

\* The inductive invariant.
PrepaidInv ==
  /\ TypeOK
  /\ JobOK /\ (\A s \in Sessions : SessionOK(s)) /\ LocksOK
  /\ BooksOK /\ QtyIsLedgerSum /\ UnitsPaidFor /\ EffectOnce

-----------------------------------------------------------------------------
(* What the documentation says and the code does not do *)

\* prepaid.py:216, "If now zero -- close as exhausted".
ExhaustedIsEmpty ==
  \A p \in Packages : pkg[p].status = "exhausted" => pkg[p].qty = 0
=============================================================================
