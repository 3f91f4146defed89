------------------------------- MODULE Wallet -------------------------------
(***************************************************************************)
(* The cashback wallet of one customer: app/domain/wallet.py, the cashback *)
(* half of app/domain/refund.py and the nightly job that burns expired     *)
(* earn rows (app/workers/jobs/expirations.py), at the granularity of the  *)
(* SQL statements they send to PostgreSQL at READ COMMITTED.               *)
(*                                                                         *)
(* A session is one database transaction at a time.  What it has written   *)
(* but not committed is private to it (new, ver, delta, creates); a commit *)
(* publishes all of it and releases the locks, a rollback drops it.        *)
(***************************************************************************)
EXTENDS Integers, Sequences, FiniteSets, Sums

CONSTANTS
  Sessions,   \* the bot and admin workers that serve purchases and refunds
  Job,        \* the arq worker that runs expire_wallet_entries
  Sales,      \* identities of purchase transactions
  Plans,      \* what each purchase may do to the wallet: [spend, earn]
  NoOne,      \* "nobody holds the row lock"
  MaxNow,     \* bound on the clock
  JobLimit    \* LIMIT of the job's SELECT (500 in the code)

Actors == Sessions \cup {Job}

\* A purchase spends cashback (0: none) and earns from each stackable
\* cashback campaign an amount that lives for so many clock units (0: for ever).
Earnings == [amount : Nat \ {0}, life : Nat]

ASSUME PlansAssumption ==
  /\ Plans \in [Sales -> SUBSET [spend : Nat, earn : Seq(Earnings)]]
  /\ Job \notin Sessions
  /\ NoOne \notin Actors \cup Sales
  /\ MaxNow \in Nat
  /\ JobLimit \in Nat \ {0}

VARIABLES
  now,      \* app.core.clock.now, common to every process
  made,     \* does the cashback_wallets row exist (committed)?
  balance,  \* cashback_wallets.balance (committed)
  rows,     \* wallet_entries (committed), in commit order
  holder,   \* who holds the row lock of the wallet row
  sale,     \* status of each purchase transaction
  ledger,   \* its ledger_entries on account wallet:cashback
  pc,       \* the statement an actor is about to send
  work,     \* the purchase it records or refunds
  prog,     \* the wallet calls (for the job: the selected rows) left to do
  seen,     \* wallet.balance as the ORM loaded it in get_or_create
  born,     \* start of the database transaction (server default of created_at)
  new,      \* rows inserted and not yet committed
  ver,      \* new spent_amount of the rows updated and not yet committed
  delta,    \* uncommitted change of the balance
  creates   \* has it inserted the wallet row?

db == <<made, balance, rows, sale, ledger>>
private == <<new, ver, delta, creates>>
vars == <<now, made, balance, rows, holder, sale, ledger, pc, work, prog, seen,
          born, new, ver, delta, creates>>

-----------------------------------------------------------------------------
(* Rows and keys *)

NoLot == [i \in {} |-> 0]

Keys == {"earn", "spend", "refund", "refund_spend"} \X Sales
        \cup {"expire"} \X (Nat \ {0})

Row == [amount : Int, kind : {"earn", "spend", "refund", "expire"}, key : Keys,
        spent : Nat, expires : Nat, born : Nat]

Entry(s, amount, kind, key, expires) ==
  [amount |-> amount, kind |-> kind, key |-> key, spent |-> 0,
   expires |-> expires, born |-> born[s]]

Amounts(rs) == [i \in DOMAIN rs |-> rs[i].amount]

IsLot(r) == r.kind = "earn" /\ r.amount > r.spent
Live(r) == r.expires = 0 \/ r.expires > now
Lapsed(r) == r.expires # 0 /\ r.expires < now

\* Mutant: the session does not see the rows it has inserted itself.
KeyCommitted(s, key) == \E i \in DOMAIN rows : rows[i].key = key

\* UNIQUE (wallet_id, idempotency_key), as the statements of s see it.  Keys
\* carry a transaction id or a row id, so two actors never insert the same one.
KeyTaken(s, key) ==
  \/ \E i \in DOMAIN rows : rows[i].key = key
  \/ \E i \in DOMAIN new[s] : new[s][i].key = key

RowLocked(s, i) == \E t \in Actors \ {s} : i \in DOMAIN ver[t]

AlwaysFree(s) == TRUE  \* mutant: the wallet row is never locked
WalletFree(s) == holder \in {NoOne, s}

\* An uncommitted entry shares the key of the wallet row it refers to.
SharesKey(t) == new[t] # <<>>

\* debit and the clawback of a refund lock the wallet row FOR UPDATE, which
\* excludes those who share its key.  The lock of a plain UPDATE does not; who
\* has only credited, and the job, hold no more than that.
ForUpdate(t) ==
  /\ holder = t /\ t # Job
  /\ SharesKey(t) => \E i \in DOMAIN new[t] : new[t][i].amount < 0

KeyFree(s) == \A t \in Actors \ {s} : ~SharesKey(t)
MayInsert(s) == \A t \in Actors \ {s} : ~ForUpdate(t)

\* The balance as a statement of s reads it.
BalanceFor(s) == balance + delta[s]

-----------------------------------------------------------------------------
(* What purchases and refunds ask of the wallet *)

Call ==
  {c \in [op : {"credit", "debit", "clawback"}, kind : {"earn", "spend", "refund"},
          amount : Nat \ {0}, key : Keys, life : Nat] :
     /\ c.kind = "earn" => c.op = "credit"
     /\ c.kind = "spend" => c.op = "debit"}

Credit(kind, amount, key, life) ==
  [op |-> "credit", kind |-> kind, amount |-> amount, key |-> key, life |-> life]

Debit(amount, key) ==
  [op |-> "debit", kind |-> "spend", amount |-> amount, key |-> key, life |-> 0]

Clawback(amount, key) ==
  [op |-> "clawback", kind |-> "refund", amount |-> amount, key |-> key, life |-> 0]

\* Mutant: earn first, then spend.
SaleCallsEarnFirst(p, plan) ==
  [i \in DOMAIN plan.earn |->
     Credit("earn", plan.earn[i].amount, <<"earn", p>>, plan.earn[i].life)]
  \o (IF plan.spend > 0 THEN <<Debit(plan.spend, <<"spend", p>>)>> ELSE <<>>)

\* record_purchase: spend first, then one credit per cashback campaign, all of
\* them under the key earn:<transaction id>.
SaleCalls(p, plan) ==
  (IF plan.spend > 0 THEN <<Debit(plan.spend, <<"spend", p>>)>> ELSE <<>>)
  \o [i \in DOMAIN plan.earn |->
        Credit("earn", plan.earn[i].amount, <<"earn", p>>, plan.earn[i].life)]

\* ... and what it writes to ledger_entries on account wallet:cashback.
SaleLedger(plan) ==
  (IF plan.spend > 0 THEN <<-plan.spend>> ELSE <<>>)
  \o [i \in DOMAIN plan.earn |-> plan.earn[i].amount]

\* refund_transaction: one compensation per ledger entry of the purchase.
Compensation(p, change) ==
  IF change > 0 THEN Clawback(change, <<"refund", p>>)
                ELSE Credit("refund", -change, <<"refund_spend", p>>, 0)

Orders(n) == {o \in [1..n -> 1..n] : \A i, j \in 1..n : o[i] = o[j] => i = j}

-----------------------------------------------------------------------------
Init ==
  /\ now = 0
  /\ made = FALSE /\ balance = 0 /\ rows = <<>>
  /\ holder = NoOne
  /\ sale = [p \in Sales |-> "new"]
  /\ ledger = [p \in Sales |-> <<>>]
  /\ pc = [s \in Actors |-> "idle"]
  /\ work = [s \in Actors |-> NoOne]
  /\ prog = [s \in Actors |-> <<>>]
  /\ seen = [s \in Actors |-> 0]
  /\ born = [s \in Actors |-> 0]
  /\ new = [s \in Actors |-> <<>>]
  /\ ver = [s \in Actors |-> NoLot]
  /\ delta = [s \in Actors |-> 0]
  /\ creates = [s \in Actors |-> FALSE]

Goto(s, label) == pc' = [pc EXCEPT ![s] = label]

\* The current wallet call returns to its caller.
Return(s) == Goto(s, "call") /\ prog' = [prog EXCEPT ![s] = Tail(@)]

Acquire(s) == WalletFree(s) /\ holder' = s

\* Mutant: SET balance = loaded + d loses the change made before.
UpdateOverwriting(s, d) ==
  /\ Acquire(s)
  /\ BalanceFor(s) + d >= 0
  /\ delta' = [delta EXCEPT ![s] = d]

\* UPDATE cashback_wallets SET balance = balance + d: takes the row lock and
\* satisfies CHECK (balance >= 0).
UpdateBalance(s, d) ==
  /\ Acquire(s)
  /\ BalanceFor(s) + d >= 0
  /\ delta' = [delta EXCEPT ![s] = @ + d]

\* The transaction ends without effect: an exception, a timeout or a crash.
RollBack(s) ==
  /\ Goto(s, "idle")
  /\ holder' = IF holder = s THEN NoOne ELSE holder
  /\ sale' = IF s = Job THEN sale
             ELSE [sale EXCEPT ![work[s]] =
                     IF @ = "refunding" THEN "committed" ELSE "new"]
  /\ ledger' = IF s = Job \/ sale[work[s]] = "refunding" THEN ledger
               ELSE [ledger EXCEPT ![work[s]] = <<>>]
  /\ prog' = [prog EXCEPT ![s] = <<>>]
  /\ seen' = [seen EXCEPT ![s] = 0]
  /\ born' = [born EXCEPT ![s] = 0]
  /\ new' = [new EXCEPT ![s] = <<>>]
  /\ ver' = [ver EXCEPT ![s] = NoLot]
  /\ delta' = [delta EXCEPT ![s] = 0]
  /\ creates' = [creates EXCEPT ![s] = FALSE]
  /\ work' = [work EXCEPT ![s] = NoOne]
  /\ UNCHANGED <<now, made, balance, rows>>

-----------------------------------------------------------------------------
(* Purchases and refunds *)

\* record_purchase starts: a staff scan or an admin purchase.
BeginSale(s, p, plan) ==
  /\ pc[s] = "idle" /\ sale[p] = "new"
  /\ sale' = [sale EXCEPT ![p] = "recording"]
  /\ ledger' = [ledger EXCEPT ![p] = SaleLedger(plan)]
  /\ work' = [work EXCEPT ![s] = p]
  /\ prog' = [prog EXCEPT ![s] = SaleCalls(p, plan)]
  /\ born' = [born EXCEPT ![s] = now]
  /\ Goto(s, "call")
  /\ UNCHANGED <<now, made, balance, rows, holder, seen>> /\ UNCHANGED private

\* refund_transaction has locked a committed purchase and read its ledger
\* entries, in whatever order the database returns them.
BeginRefund(s, p, order) ==
  /\ pc[s] = "idle" /\ sale[p] = "committed"
  /\ sale' = [sale EXCEPT ![p] = "refunding"]
  /\ work' = [work EXCEPT ![s] = p]
  /\ prog' = [prog EXCEPT ![s] =
                [i \in DOMAIN order |-> Compensation(p, ledger[p][order[i]])]]
  /\ born' = [born EXCEPT ![s] = now]
  /\ Goto(s, "call")
  /\ UNCHANGED <<now, made, balance, rows, holder, ledger, seen>>
  /\ UNCHANGED private

Calling(s, op) == pc[s] = "call" /\ prog[s] # <<>> /\ Head(prog[s]).op = op

\* get_or_create: the unlocked SELECT.  The balance it loads stays in the
\* session's identity map while the caller holds the object.
GetOrCreate(s) ==
  /\ Calling(s, "credit") \/ Calling(s, "debit")
  /\ seen' = [seen EXCEPT ![s] = IF made THEN BalanceFor(s) ELSE 0]
  /\ Goto(s, IF ~(made \/ creates[s]) THEN "make"
             ELSE IF Head(prog[s]).op = "credit" THEN "insert" ELSE "lock")
  /\ UNCHANGED <<now, db, holder, work, prog, born, private>>

\* get_or_create: the INSERT waits for a concurrent creator of the same row
\* and fails on UNIQUE (user_id, currency) if that one commits.
MakeWallet(s) ==
  /\ pc[s] = "make" /\ ~made
  /\ \A t \in Actors : ~creates[t]
  /\ creates' = [creates EXCEPT ![s] = TRUE]
  /\ Goto(s, IF Head(prog[s]).op = "credit" THEN "insert" ELSE "lock")
  /\ UNCHANGED <<now, db, holder, work, prog, seen, born, new, ver, delta>>

MakeWalletFails(s) == pc[s] = "make" /\ made /\ RollBack(s)

\* credit: INSERT ... ON CONFLICT DO NOTHING; a row already there is a replay.
InsertCredit(s) ==
  LET c == Head(prog[s]) IN
  /\ pc[s] = "insert" /\ MayInsert(s)
  /\ IF KeyTaken(s, c.key)
     THEN Return(s) /\ UNCHANGED new
     ELSE /\ new' = [new EXCEPT ![s] =
                       Append(@, Entry(s, c.amount, c.kind, c.key,
                                       IF c.life = 0 THEN 0 ELSE now + c.life))]
          /\ Goto(s, "bump") /\ UNCHANGED prog
  /\ UNCHANGED <<now, db, holder, work, seen, born, ver, delta, creates>>

\* credit: UPDATE balance + amount.
BumpBalance(s) ==
  /\ pc[s] = "bump"
  /\ UpdateBalance(s, Head(prog[s]).amount)
  /\ Return(s)
  /\ UNCHANGED <<now, db, work, seen, born, new, ver, creates>>

\* debit: SELECT ... FOR UPDATE takes the lock, but the object already loaded
\* keeps the balance of the first SELECT; then INSERT of the spend row.
LockForDebit(s) ==
  LET c == Head(prog[s]) IN
  /\ pc[s] = "lock"
  /\ seen[s] >= c.amount
  /\ Acquire(s) /\ KeyFree(s)
  /\ IF KeyTaken(s, c.key)
     THEN Return(s) /\ UNCHANGED new
     ELSE /\ new' = [new EXCEPT ![s] = Append(@, Entry(s, -c.amount, c.kind, c.key, 0))]
          /\ Goto(s, "allocate") /\ UNCHANGED prog
  /\ seen' = [seen EXCEPT ![s] = 0]  \* not read again
  /\ UNCHANGED <<now, db, work, born, ver, delta, creates>>

\* debit: raise InsufficientCashback; every caller rolls back.
Insufficient(s) ==
  /\ pc[s] = "lock" /\ WalletFree(s) /\ KeyFree(s)
  /\ seen[s] < Head(prog[s]).amount
  /\ RollBack(s)

\* The lots debit walks: ORDER BY expires_at NULLS LAST, created_at.
Lots == {i \in DOMAIN rows : IsLot(rows[i]) /\ Live(rows[i])}

Before(i, j) ==
  LET a == rows[i].expires
      b == rows[j].expires
  IN  \/ a # 0 /\ (b = 0 \/ a < b)
      \/ a = b /\ rows[i].born < rows[j].born

\* Mutant: the ORDER BY is missing.
AnyOrders ==
  {o \in [1..Cardinality(Lots) -> Lots] : \A i, j \in DOMAIN o : i < j => o[i] # o[j]}

FifoOrders ==
  {o \in [1..Cardinality(Lots) -> Lots] :
     \A i, j \in 1..Cardinality(Lots) : i < j => o[i] # o[j] /\ ~Before(o[j], o[i])}

AvailableWhole(i) == rows[i].amount  \* mutant: spent_amount is forgotten
Available(i) == rows[i].amount - rows[i].spent

\* Mutant: a lot is taken whole, not up to what remains.
RemainingUncapped(o, amount) ==
  [k \in 0..Len(o) |-> amount - RunningTotals([j \in DOMAIN o |-> Available(o[j])])[k]]

\* What is left to allocate after the first k lots of o.
Remaining(o, amount) == Left([k \in DOMAIN o |-> Available(o[k])], amount)

\* UPDATE spent_amount = spent_amount + take, for the lots of which it takes any.
DrawnOver(i, take) == IF take = 0 THEN rows[i].spent ELSE take  \* mutant: lost update
Drawn(i, take) == rows[i].spent + take

\* debit: SELECT the lots FOR UPDATE and bump spent_amount along them.
Allocate(s) ==
  /\ pc[s] = "allocate"
  /\ \A i \in Lots : ~RowLocked(s, i)
  /\ \E o \in FifoOrders :
       LET left == Remaining(o, Head(prog[s]).amount)
       IN  ver' = [ver EXCEPT ![s] =
                     [i \in Lots |->
                        LET k == CHOOSE k \in DOMAIN o : o[k] = i
                        IN  Drawn(i, left[k - 1] - left[k])]]
  /\ Goto(s, "charge")
  /\ UNCHANGED <<now, db, holder, work, prog, seen, born, new, delta, creates>>

\* debit: UPDATE balance - amount ...
Charge(s) ==
  /\ pc[s] = "charge"
  /\ UpdateBalance(s, -Head(prog[s]).amount)
  /\ Return(s)
  /\ UNCHANGED <<now, db, work, seen, born, new, ver, creates>>

\* ... or the CHECK refuses it: the balance read in get_or_create was stale.
ChargeFails(s) ==
  /\ pc[s] = "charge"
  /\ BalanceFor(s) < Head(prog[s]).amount
  /\ RollBack(s)

\* _refund_cashback: lock the wallet, cap at its balance, insert the negative
\* refund row and charge it.  Nothing is done without a wallet, with an empty
\* one, or when the key is taken.  Earn rows are left alone.
ClawBack(s) ==
  LET c == Head(prog[s])
      cap == Least(c.amount, BalanceFor(s))
  IN
  /\ Calling(s, "clawback")
  /\ \/ /\ ~(made \/ creates[s])
        /\ UNCHANGED <<holder, new, delta>>
     \/ /\ made \/ creates[s]
        /\ cap <= 0 \/ KeyTaken(s, c.key)
        /\ Acquire(s) /\ KeyFree(s)
        /\ UNCHANGED <<new, delta>>
     \/ /\ made \/ creates[s]
        /\ cap > 0 /\ ~KeyTaken(s, c.key) /\ KeyFree(s)
        /\ new' = [new EXCEPT ![s] = Append(@, Entry(s, -cap, c.kind, c.key, 0))]
        /\ UpdateBalance(s, -cap)
  /\ Return(s)
  /\ UNCHANGED <<now, db, work, seen, born, ver, creates>>

-----------------------------------------------------------------------------
(* The nightly job *)

\* expire_wallet_entries: one unlocked SELECT of the expired remainders, in no
\* particular order, without those that have an expire row already.
Burnable ==
  {i \in DOMAIN rows : /\ IsLot(rows[i]) /\ Lapsed(rows[i])
                       /\ ~\E j \in DOMAIN rows : rows[j].key = <<"expire", i>>}

SelectLapsed ==
  /\ pc[Job] = "idle" /\ Burnable # {}
  /\ LET n == Least(JobLimit, Cardinality(Burnable)) IN
     \E o \in [1..n -> Burnable] :
       /\ \A i, j \in 1..n : i # j => o[i] # o[j]
       /\ prog' = [prog EXCEPT ![Job] =
                     [k \in 1..n |-> [lot |-> o[k], remainder |-> Available(o[k])]]]
  /\ born' = [born EXCEPT ![Job] = now]
  /\ Goto(Job, "mark")
  /\ UNCHANGED <<now, db, holder, work, seen, private>>

\* INSERT the expire row for the remainder read above; UPDATE spent_amount =
\* amount, which waits for whoever has updated the earn row.
MarkSpent ==
  LET b == Head(prog[Job]) IN
  /\ pc[Job] = "mark" /\ MayInsert(Job)
  /\ ~RowLocked(Job, b.lot)
  /\ ~KeyTaken(Job, <<"expire", b.lot>>)
  /\ new' = [new EXCEPT ![Job] =
               Append(@, Entry(Job, -b.remainder, "expire", <<"expire", b.lot>>, 0))]
  /\ ver' = [ver EXCEPT ![Job] =
               [i \in DOMAIN @ \cup {b.lot} |->
                  IF i = b.lot THEN rows[b.lot].amount ELSE @[i]]]
  /\ Goto(Job, "burn")
  /\ UNCHANGED <<now, db, holder, work, prog, seen, born, delta, creates>>

\* UPDATE balance - remainder ...
BurnBalance ==
  /\ pc[Job] = "burn"
  /\ UpdateBalance(Job, -Head(prog[Job]).remainder)
  /\ prog' = [prog EXCEPT ![Job] = Tail(@)]
  /\ Goto(Job, IF Len(prog[Job]) = 1 THEN "call" ELSE "mark")
  /\ UNCHANGED <<now, db, work, seen, born, new, ver, creates>>

\* ... or the CHECK refuses it and the whole batch is lost.
BurnFails ==
  /\ pc[Job] = "burn"
  /\ WalletFree(Job)
  /\ BalanceFor(Job) < Head(prog[Job]).remainder
  /\ RollBack(Job)

-----------------------------------------------------------------------------
(* The end of a transaction, and time *)

Commit(s) ==
  /\ pc[s] = "call" /\ prog[s] = <<>>
  /\ made' = (made \/ creates[s])
  /\ balance' = BalanceFor(s)
  /\ rows' = [i \in DOMAIN rows |->
                IF i \in DOMAIN ver[s] THEN [rows[i] EXCEPT !.spent = ver[s][i]]
                                       ELSE rows[i]] \o new[s]
  /\ holder' = IF holder = s THEN NoOne ELSE holder
  /\ sale' = IF s = Job THEN sale
             ELSE [sale EXCEPT ![work[s]] =
                     IF @ = "refunding" THEN "reversed" ELSE "committed"]
  /\ prog' = [prog EXCEPT ![s] = <<>>]
  /\ seen' = [seen EXCEPT ![s] = 0]
  /\ born' = [born EXCEPT ![s] = 0]
  /\ new' = [new EXCEPT ![s] = <<>>]
  /\ ver' = [ver EXCEPT ![s] = NoLot]
  /\ delta' = [delta EXCEPT ![s] = 0]
  /\ creates' = [creates EXCEPT ![s] = FALSE]
  /\ work' = [work EXCEPT ![s] = NoOne]
  /\ Goto(s, "idle")
  /\ UNCHANGED <<now, ledger>>

Abort(s) == pc[s] # "idle" /\ RollBack(s)

Tick ==
  /\ now < MaxNow /\ now' = now + 1
  /\ UNCHANGED <<db, holder, pc, work, prog, seen, born, private>>

Begin(s) ==
  \E p \in Sales :
    \/ \E plan \in Plans[p] : BeginSale(s, p, plan)
    \/ \E order \in Orders(Len(ledger[p])) : BeginRefund(s, p, order)

\* A refund that has restored a payment holds the wallet row by an UPDATE and
\* wants it FOR UPDATE to claw back; whoever has inserted an entry in between
\* waits for the row.  PostgreSQL's deadlock detector rolls one of them back.
Circle(s, t) ==
  /\ holder = s /\ Calling(s, "clawback")
  /\ t # s /\ SharesKey(t)

Victim(s) == (\E t \in Actors : Circle(s, t) \/ Circle(t, s)) /\ RollBack(s)

\* Statements that may have to wait for a row lock or a unique key.
Waiting(s) ==
  \/ MakeWallet(s) \/ MakeWalletFails(s) \/ InsertCredit(s) \/ BumpBalance(s)
  \/ LockForDebit(s) \/ Insufficient(s) \/ Allocate(s)
  \/ Charge(s) \/ ChargeFails(s) \/ ClawBack(s)

Advance(s) == GetOrCreate(s) \/ Waiting(s) \/ Commit(s)

JobStep == MarkSpent \/ BurnBalance \/ BurnFails \/ Commit(Job)

Next ==
  \/ \E s \in Sessions : Begin(s) \/ Advance(s) \/ Abort(s)
  \/ SelectLapsed \/ JobStep \/ Abort(Job)
  \/ Tick

Spec == Init /\ [][Next]_vars

\* No crash and no timeout: whoever fails again and again, each time with an
\* entry inserted, can keep a debit waiting for ever.
CalmNext ==
  \/ \E s \in Sessions : Begin(s) \/ Advance(s)
  \/ SelectLapsed \/ JobStep
  \/ \E s \in Actors : Victim(s)
  \/ Tick

\* PostgreSQL grants a row lock in arrival order, so a statement that can
\* proceed again and again is not passed over for ever, and it breaks up a
\* circle of waiting transactions.  Everything else a worker does by itself,
\* and the job is started every night.  Nobody has to start a purchase.
Fairness ==
  /\ \A s \in Sessions : SF_vars(Waiting(s)) /\ WF_vars(Advance(s))
  /\ SF_vars(MarkSpent) /\ SF_vars(BurnBalance \/ BurnFails) /\ WF_vars(JobStep)
  /\ WF_vars(\E s \in Actors : Victim(s))
  /\ WF_vars(SelectLapsed)

FairSpec == Init /\ [][CalmNext]_vars /\ Fairness

-----------------------------------------------------------------------------
(* Correctness *)

Labels == {"idle", "call", "make", "insert", "bump", "lock", "allocate",
           "charge", "mark", "burn"}

\* Types of the committed state and of what each transaction holds privately.
TypeOK ==
  /\ now \in Nat /\ made \in BOOLEAN /\ balance \in Int /\ rows \in Seq(Row)
  /\ holder \in Actors \cup {NoOne}
  /\ sale \in [Sales -> {"new", "recording", "committed", "refunding", "reversed"}]
  /\ ledger \in [Sales -> Seq(Int \ {0})]
  /\ pc \in [Actors -> Labels]
  /\ work \in [Actors -> Sales \cup {NoOne}]
  /\ seen \in [Actors -> Int] /\ born \in [Actors -> Nat]
  /\ new \in [Actors -> Seq(Row)]
  /\ delta \in [Actors -> Int] /\ creates \in [Actors -> BOOLEAN]
  /\ ver = [s \in Actors |-> ver[s]] /\ prog = [s \in Actors |-> prog[s]]

\* wallet.py:3-5, models/wallet.py:45: the cached balance is the sum of the
\* committed wallet entries, whatever transactions interleave or fail.
BalanceIsLedgerSum == balance = Total(Amounts(rows))

\* The balance a customer sees is never negative, although debit compares
\* with a balance that may be stale.
BalanceNonNegative == balance >= 0

\* Concurrent debits and the job never hand out a unit of an earn row twice.
SpentWithinAmount ==
  \A i \in DOMAIN rows :
    rows[i].kind = "earn" => rows[i].spent \in 0..rows[i].amount

\* What is left of each row: the unspent part of an earn row, the whole of a
\* restored payment (refund rows are never allocated).
Backed(r) == IF r.kind = "earn" THEN r.amount - r.spent
             ELSE IF r.kind = "refund" /\ r.amount > 0 THEN r.amount ELSE 0

Backing(rs) == [i \in DOMAIN rs |-> Backed(rs[i])]

\* Every unit of the balance is backed by an unspent unit of some row: no
\* order of spends, refunds and expirations leaves more money in the wallet
\* than the earn rows and the restored payments account for.
BalanceIsBacked == balance <= Total(Backing(rows))

\* FIFO (wallet.py:134-136): while a debit holds its allocation, every lot
\* still live that expires before a lot it touches is used up by it, also
\* against what other transactions commit in the meantime.
OldestFirst(s) ==
  \A i \in Lots, j \in DOMAIN ver[s] :
    ver[s][j] > rows[j].spent /\ Before(i, j)
      => i \in DOMAIN ver[s] /\ ver[s][i] = rows[i].amount

SpendsOldestFirst == \A s \in Sessions : pc[s] = "charge" => OldestFirst(s)

\* An idempotency key is spent at most once, over retries, replays and the two
\* cashback campaigns of one purchase.
OneRowPerKey ==
  \A i, j \in DOMAIN rows : rows[i].key = rows[j].key => i = j

\* The wallet ledger is append-only: a committed row keeps everything but its
\* spent_amount, which never goes back.
AppendOnly ==
  [][/\ Len(rows') >= Len(rows)
     /\ \A i \in DOMAIN rows :
          /\ [rows[i] EXCEPT !.spent = 0] = [rows'[i] EXCEPT !.spent = 0]
          /\ rows'[i].spent >= rows[i].spent]_rows

\* The wallet seen from outside: postings that appear with the balance, whole
\* transactions at a time.
Account == INSTANCE CashbackAccount WITH account <- balance, posted <- Amounts(rows)
AccountSpec == Account!Spec

\* The statement that s is about to send waits for what t holds: the wallet row
\* that t is inserting, the row lock of the wallet, a key of it, or a lot.
WaitsFor(s, t) ==
  /\ t # s
  /\ \/ pc[s] = "make" /\ ~made /\ creates[t]
     \/ pc[s] \in {"insert", "mark"} /\ ForUpdate(t)
     \/ pc[s] = "mark" /\ Head(prog[s]).lot \in DOMAIN ver[t]
     \/ pc[s] = "allocate" /\ Lots \cap DOMAIN ver[t] # {}
     \/ pc[s] \in {"bump", "charge", "burn"} /\ holder = t
     \/ /\ pc[s] = "lock" \/ (Calling(s, "clawback") /\ (made \/ creates[s]))
        /\ holder = t \/ SharesKey(t)

\* The statement that s is about to send waits for none of the transactions A.
Unhindered(s, A) == \A t \in A : ~WaitsFor(s, t)

\* wallet.py:136 locks the wallet row so that debits come one after another, and
\* record_purchase debits before it credits.  Of any set of open transactions one
\* waits for none of the others, unless the set has a circle that Victim breaks;
\* and what Victim breaks is a circle.
OnlyKnownCircles ==
  /\ \A A \in (SUBSET {s \in Actors : pc[s] # "idle"}) \ {{}} :
       \E s \in A : Unhindered(s, A) \/ \E t \in A : Circle(s, t)
  /\ \A s, t \in Actors : Circle(s, t) => WaitsFor(s, t) /\ WaitsFor(t, s)

\* Locks are taken in an order that closes no circle but the one that Victim
\* describes: every transaction commits or is rolled back, and its locks are
\* released.
TransactionsEnd == \A s \in Actors : pc[s] # "idle" ~> pc[s] = "idle"

-----------------------------------------------------------------------------
(* Why it holds: what every reachable state satisfies, statement by statement *)

\* What the job selected.
Selected == [lot : Nat \ {0}, remainder : Nat]

\* An actor is inside the call at the head of its program.
SessionOK(s) ==
  /\ prog[s] \in Seq(Call)
  /\ pc[s] \notin {"mark", "burn"}
  /\ pc[s] \notin {"idle", "call"} => prog[s] # <<>>
  /\ pc[s] # "idle" => work[s] \in Sales
  /\ pc[s] = "make" => Head(prog[s]).op \in {"credit", "debit"}
  /\ pc[s] \in {"insert", "bump"} => Head(prog[s]).op = "credit"
  /\ pc[s] \in {"lock", "allocate", "charge"} => Head(prog[s]).op = "debit"

JobOK ==
  /\ prog[Job] \in Seq(Selected)
  /\ pc[Job] \in {"idle", "call", "mark", "burn"}
  /\ pc[Job] \in {"mark", "burn"} => prog[Job] # <<>>

ProgramOK == JobOK /\ \A s \in Sessions : SessionOK(s)

\* Inserted by the current call and not yet applied to the balance.
Outstanding(s) ==
  CASE pc[s] = "bump" -> Head(prog[s]).amount
    [] pc[s] \in {"allocate", "charge"} -> -Head(prog[s]).amount
    [] pc[s] = "burn" -> -Head(prog[s]).remainder
    [] OTHER -> 0

\* A transaction's rows and its change of the balance move together, and only
\* the holder of the row lock has changed the balance.
PurseOK(s) ==
  /\ Total(Amounts(new[s])) = delta[s] + Outstanding(s)
  /\ delta[s] # 0 => holder = s
  /\ BalanceFor(s) >= 0

MoneyOK ==
  /\ BalanceIsLedgerSum
  /\ BalanceNonNegative
  /\ \A s \in Actors : PurseOK(s)

\* Row versions belong to earn rows, to one transaction each, and only grow.
EarnRow(i) == i \in DOMAIN rows /\ rows[i].kind = "earn"

InsertsOK(s) ==
  \A i \in DOMAIN new[s] :
    new[s][i].spent = 0 /\ (new[s][i].kind = "earn" => new[s][i].amount > 0)

VersionsOK(s) ==
  \A i \in DOMAIN ver[s] : EarnRow(i) /\ ver[s][i] \in rows[i].spent..rows[i].amount

VersionsApart ==
  \A s, t \in Actors : s # t => DOMAIN ver[s] \cap DOMAIN ver[t] = {}

SelectionOK == \A k \in DOMAIN prog[Job] : EarnRow(prog[Job][k].lot)

LotsOK ==
  /\ SpentWithinAmount
  /\ \A s \in Actors : InsertsOK(s)
  /\ \A s \in Actors : VersionsOK(s)
  /\ VersionsApart
  /\ SelectionOK

CoreInv == TypeOK /\ ProgramOK /\ MoneyOK /\ LotsOK

\* A purchase is recorded or refunded by one session at a time, and who is idle
\* has nothing in hand.
WorkOK ==
  /\ \A s \in Actors : pc[s] = "idle" => new[s] = <<>>
  /\ \A s \in Sessions :
       /\ pc[s] = "idle" => work[s] = NoOne
       /\ work[s] # NoOne => sale[work[s]] \in {"recording", "refunding"}
  /\ \A s, t \in Sessions : work[s] = work[t] /\ work[s] # NoOne => s = t

\* Keys carry the purchase they are for, or the lot that is burnt.
OwnKey(s, key) == IF s = Job THEN key[1] = "expire"
                  ELSE key[1] # "expire" /\ key[2] = work[s]

\* What s has inserted meets no key twice, neither there nor in the wallet.
FreshKeys(s) ==
  /\ \A i, j \in DOMAIN new[s] : new[s][i].key = new[s][j].key => i = j
  /\ \A i \in DOMAIN rows, j \in DOMAIN new[s] : rows[i].key # new[s][j].key

KeysOK ==
  /\ WorkOK
  /\ \A s \in Sessions : \A k \in DOMAIN prog[s] : OwnKey(s, prog[s][k].key)
  /\ \A s \in Actors : \A k \in DOMAIN new[s] : OwnKey(s, new[s][k].key)
  /\ \A s \in Actors : FreshKeys(s)
  /\ OneRowPerKey

\* From the insertion of its spend row to its UPDATE of the balance a debit is
\* alone: nobody else has inserted a row, and MayInsert lets nobody do so.
Alone(s) ==
  /\ holder = s
  /\ \E i \in DOMAIN new[s] : new[s][i].amount < 0
  /\ \A t \in Actors \ {s} : new[t] = <<>>

\* Who has updated an earn row has inserted the entry it did so for.
DebitsOK ==
  /\ \A s \in Actors : ver[s] = NoLot \/ new[s] # <<>>
  /\ \A s \in Sessions : pc[s] \in {"allocate", "charge"} => Alone(s)
  /\ SpendsOldestFirst

\* What the rows rs withdraw from the wallet without leaving it in one of them,
\* and what s has taken from each earn row.
Debts(rs) == [i \in DOMAIN rs |-> Backed(rs[i]) - rs[i].amount]

Takes(s) == [i \in DOMAIN rows |-> IF i \in DOMAIN ver[s] THEN ver[s][i] - rows[i].spent
                                                         ELSE 0]

\* Nobody takes more from the earn rows than it withdraws, and the job never
\* burns less than what is left of a lot.
FundsOK ==
  /\ BalanceIsBacked
  /\ \A s \in Actors :
       /\ Total(Takes(s)) <= Total(Debts(new[s]))
       /\ 0 <= Total(Debts(new[s]))
  /\ \A s \in Sessions :
       pc[s] = "allocate" => Head(prog[s]).amount <= Total(Debts(new[s]))
  /\ \A k \in DOMAIN prog[Job] :
       Available(prog[Job][k].lot) <= prog[Job][k].remainder

\* Who holds the wallet row, and since when: from its first UPDATE or FOR UPDATE
\* to its end, and who has inserted an entry holds it but for the moment before
\* that entry's UPDATE.  A debit comes first, before its purchase holds anything.
HoldsOK(s) ==
  /\ pc[s] = "idle" => holder # s
  /\ holder = s \/ new[s] # <<>> \/ pc[s] \in {"insert", "bump", "lock", "mark", "burn"}
       => made \/ creates[s]
  /\ pc[s] = "make" => ~creates[s]
  /\ new[s] # <<>> /\ pc[s] \notin {"bump", "burn"} => holder = s
  /\ s # Job =>
       /\ ver[s] # NoLot => holder = s
       /\ \A k \in DOMAIN prog[s] : prog[s][k].op = "debit" => k = 1
       /\ prog[s] # <<>> /\ pc[s] \in {"call", "make", "lock"} /\ holder = s
            => Head(prog[s]).op # "debit"

LocksOK ==
  /\ rows # <<>> => made
  /\ \A s \in Actors : HoldsOK(s)

\* The inductive invariant.
WalletInv == CoreInv /\ KeysOK /\ DebitsOK /\ FundsOK /\ LocksOK
=============================================================================
