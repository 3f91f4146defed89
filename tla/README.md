# Caffelito in TLA+

Caffelito is the loyalty system of a coffee shop: customers collect stamps and
cashback, buy prepaid packages and VIP memberships; baristas record purchases in
a Telegram bot, managers in an admin panel; an arq worker expires what has
lapsed and delivers notifications. Everything of value is a row in PostgreSQL,
and every process works on it through SQLAlchemy sessions at READ COMMITTED.
What makes the system hard is what happens between two statements of two
sessions, and what a refund, a retry or the nightly jobs make of rows that have
moved on in the meantime. That is what these modules are about.

    tlc -workers 2 -config MCWallet.cfg MCWallet      # model-check a run
    tlapm WalletProofs.tla                            # check the proofs

## 1. The system

| component | state | operations | modelled in |
|---|---|---|---|
| Cashback wallet (`domain/wallet.py`) | `cashback_wallets.balance`, `wallet_entries` with `spent_amount` | get_or_create, credit, debit | `Wallet` |
| Refund (`domain/refund.py`) | `transactions.status`, inverse ledger entries | refund_transaction: cashback, prepaid units, stamps | `Wallet`, `Prepaid`, `LoyaltyCards` |
| Expiry jobs (`workers/jobs/expirations.py`) | - | expire wallet entries, packages, cards | `Wallet`, `Prepaid`, `LoyaltyCards` |
| Prepaid packages (`domain/prepaid.py`) | `prepaid_packages` (status, qty) | open, consume, refund, expire | `Prepaid` |
| Purchase engine (`domain/loyalty_engine.py`) | `transactions`, `ledger_entries` | record_purchase | the wallet part in `Wallet`, the stamps in `LoyaltyCards` |
| Transaction scope (`core/db.py`) | uncommitted writes, row locks | commit, rollback | in the four modules of section 2 |
| Punch cards (`loyalty_engine.py`, `redeem.py`, `bonus.py`) | `loyalty_cards` (stamps, status, version) | stamp and roll over, redeem, grant, refund, expire | `LoyaltyCards` |
| VIP membership (`domain/membership.py`) | `memberships` (status, balance) | activate, drain, lazy expiry, cancel | `Membership` |
| Idempotent replay (`domain/idempotency.py`) | unique `client_request_id` | find_replay | keys and retries in `Prepaid`, `LoyaltyCards`, `Membership`, `Panel` |
| Manual grants (`domain/bonus.py`) | - | stamps, coffees, cashback | `LoyaltyCards`; cashback as a purchase in `Wallet` |
| Customer identity (`domain/identity.py`) | `users` | find_or_create_by_phone, link_telegram, block, delete | `Customers` |
| Redeem codes (`domain/redeem_code.py`) | Redis keys | issue, resolve | `Customers` |
| Broadcasts (`domain/broadcast.py`) | `broadcasts`, a task of the API process | create, dispatch, progress, delete | `Broadcasts` |
| Staff bot (`bots/staff`) | FSM state and data in Redis | every handler | `Counter` |
| Crew (`admin/routes/staff.py`, `bots/staff/auth_service.py`) | `staff` | create, edit, remove, bind a PIN | `Crew` |
| Admin panel (`admin/routes/customers.py`) | tokens of forms, `audit_log` | the forms of a customer's page | `Panel` |
| Outbox (`domain/outbox.py`, `workers/jobs/outbox.py`) | `outbox_events` | enqueue, drain | `Delivery` |
| Notifications (`workers/jobs/notifications.py`) | `notification_jobs` | enqueue, send, retry, defer | `Delivery` |
| Customer bot (`bots/customer`) | - | linking, codes, read-only screens | linking and codes in `Customers`, the rest is not modelled |
| Dashboard (`loyalty_engine.py`), campaign selection, other forms of the panel, HTTP entry points, migrations | | | not modelled, see section 7 |

How they interact. A barista's confirmation becomes one call of
`record_purchase`, `consume_one`, `open_package`, `redeem_free` or
`refund_transaction` in one database transaction (`session_scope`): it inserts a
row in `transactions` under a `client_request_id`, changes the projections
(wallet, cards, packages, membership), writes a ledger entry per effect, an
outbox event, and recomputes the dashboard row; all of it commits or none. A
refund locks the transaction, reads its ledger entries and applies the inverse
of each. The worker's jobs touch the same rows from the side, in transactions of
their own, and drain the outbox into notifications.

What makes each part correct, in a sentence:

* Wallet: the cached balance is the sum of the entries, never negative, backed
  by unspent earn rows; no unit of a row is spent or burnt twice; spends go by
  expiry; keys post once.
* Prepaid: what is left follows the ledger; what is left and what was consumed
  never exceed what was paid; a request takes effect once; units only come out
  of active packages.
* Cards: a stamp is given once per bought item, a card is complete exactly when
  it is full, a coffee costs one full card, what is redeemed or expired stays
  so, a refund takes back once what the purchase gave.
* Membership: one live deposit at a time, never replaced before its term, never
  spent from once closed; its balance is what was paid less what was charged.
* Customers and codes: a phone and an account lead to one row; a code on a screen
  stands for the customer it was shown to, or for nobody.
* Broadcasts: an account gets a broadcast once at most; the counters on record
  are true.
* Staff bot: whatever is pressed under whichever message, what belongs to a customer is
  used up by that customer's transactions only.
* Crew and panel: a username or an account leads to one row, who has sold stays on
  record, a form takes effect once, the audit log is true.
* Outbox and notifications: a published event has its job, every healthy event
  is published, every job leaves the queue and stays out of it.

The hard behaviours are listed with their lines in `PROJECT.json` under
"hazards", each with the properties that watch it.

## 2. How the database is modelled

`Wallet`, `Prepaid`, `LoyaltyCards` and `Membership` go statement by statement and share
one view of PostgreSQL and SQLAlchemy:

* An actor is a worker in a database transaction; `pc` is the statement it sends
  next. Statements of different actors interleave; a statement that must wait
  for a row lock is disabled until the lock is free.
* What a transaction has written is private until `Commit`: `new`, `ver`,
  `delta` and `creates` in `Wallet` (inserted rows, new `spent_amount`s, change
  of the balance, an inserted wallet), `mine` in `Prepaid`, `LoyaltyCards` and `Membership`
  (the row versions it locked or wrote), `booked` (its ledger entries). A transaction sees its own writes and every commit of the others, which
  is READ COMMITTED. `RollBack` drops everything: an exception, a timeout and a
  crash of the process are the same to the database, and `Abort` may do it at
  every statement. Retries need no action of their own: an aborted request may
  begin again.
* Row locks: a row an actor has updated or selected FOR UPDATE is locked to the
  end of its transaction. In `Wallet` also the share lock that the insertion of
  an entry takes on its wallet row through the foreign key (`SharesKey`): FOR
  UPDATE conflicts with it, a plain UPDATE does not (`ForUpdate`, `KeyFree`,
  `MayInsert`).
* The ORM. Sessions run with `autoflush=False, expire_on_commit=False`, and no
  query uses `populate_existing`: an object that is loaded keeps its old
  attributes when it is later selected FOR UPDATE. Hence `seen` in `Wallet`, the
  balance `debit` compares with, which is that of the first, unlocked SELECT. An
  ORM-enabled UPDATE on the other hand synchronises the loaded object; hence the
  double subtraction in `Prepaid!Decremented`.
* Constraints of the schema are guards: unique keys make an INSERT wait for, and
  then fail on, a concurrent one; a violated CHECK aborts the transaction
  (`ChargeFails`, `BurnFails`). The unique index on open cards is checked by
  every statement that makes a row open (`KeyTaken`, `KeyFree`).
* A SELECT FOR UPDATE or an UPDATE that waits for a row looks at the row again
  when it gets the lock, but not for rows it has not found before: hence
  `PickPackage`, `StampCard`, `PickCard`, `LockCards` and the steps of the jobs.
* Time is one counter, `now`; `created_at` is the start of the transaction, as
  the server default `now()` is.

The other modules are about what happens between transactions. A database transaction
that reads and then writes is two steps there: what it has read and checked, kept
in `request`, and its write, which meets the rows as they are by then. A write that
breaks a unique index or a foreign key changes nothing (IntegrityError, rolled
back). `Counter` takes a transaction as one step, because what it asks about lies
in Redis; the modules above look inside.

## 3. Modules

| module | what it is |
|---|---|
| `Sums` | totals of sequences as recursive functions, `Left`: what an allocation loop leaves after each row |
| `CashbackAccount` | abstract: an account to which whole transactions post amounts, never below zero |
| `Wallet` | the wallet, statement by statement |
| `MCWallet` | its instance: purchases, plans, symmetry |
| `SumsProofs`, `WalletProofs` | proofs |
| `PrepaidPool` | abstract: pools of paid units: sell, use, give back, cancel |
| `Prepaid` | prepaid packages, statement by statement |
| `MCPrepaid` | its instance |
| `PrepaidProofs` | proofs |
| `StampBook` | abstract: a book of stamps in which a coffee costs a card's worth |
| `LoyaltyCards` | the punch cards of a customer in a campaign, statement by statement |
| `MCLoyaltyCards` | its instance |
| `LoyaltyCardsProofs` | proofs |
| `Deposit` | abstract: deposits of a customer, of which one is live at a time |
| `Membership`, `MCMembership` | VIP deposits, statement by statement, and the instance |
| `MembershipProofs` | proofs, the refinement of `Deposit` among them |
| `Counter`, `MCCounter` | the staff bot, await by await, and the instance |
| `Customers` | rows of customers, and redeem codes |
| `Broadcasts`, `MCCustomers` | broadcasts to those customers (EXTENDS `Customers`), and the instance of both |
| `BroadcastsProofs` | proofs about both |
| `Crew` | rows of staff, shifts and sales |
| `Panel`, `MCPanel` | the forms the crew posts for a customer (EXTENDS `Crew`), and the instance of both |
| `PanelProofs` | proofs about both, and about `Counter` |
| `Delivery`, `MCDelivery` | outbox and notification queue, and the instance |
| `DeliveryProofs` | proofs |

### Wallet

`BeginSale` starts a purchase that spends some cashback and earns from each
stackable cashback campaign; `SaleCalls` is the order of the wallet calls of
`record_purchase`, `SaleLedger` its ledger entries. `BeginRefund` starts a refund
of a committed purchase, with one `Compensation` per ledger entry, in any order,
because the query has no ORDER BY. `prog` is the list of calls left. A call runs
through the statements of `wallet.py`:

    get_or_create  GetOrCreate, MakeWallet / MakeWalletFails
    credit         InsertCredit, BumpBalance
    debit          LockForDebit / Insufficient, Allocate, Charge / ChargeFails
    refund         ClawBack (of what was earned); what was paid is a credit

The job is `SelectLapsed` (an unlocked SELECT), then `MarkSpent` and
`BurnBalance` / `BurnFails` for each row, and one commit. Its SELECT is limited
to `JobLimit` rows.

Abstracted: amounts are small integers instead of decimals; the insertion of
the expire row and the UPDATE of the earn row are one step (the first takes no
lock that another actor waits for except the share lock, which it keeps); the
status of the purchase is changed at the beginning of a refund, standing for the
row lock on it; `grant_cashback` is the credit of a purchase that pays nothing;
the outbox and the dashboard row (the last row every transaction locks) are left
out, and so is the refund's own `client_request_id`, because the status of the
refunded transaction decides before its key does.

### Prepaid

A request of `Opens` sells a package: `BeginOpen` (INSERT of the package),
`Record` (INSERT of the transaction), `Commit`. A request of `Uses` consumes a
unit: `BeginConsume` is the SELECT that finds the packages, in the order of their
expiry, `PickPackage` locks the next one, looks at it again as PostgreSQL does
after a wait, and decrements it, or goes on to the next; `NotFound` gives up;
`Record` inserts the transaction, or fails (`RecordFails`) when a retry of the
same request has committed. A refund locks the transaction (`BeginRefund`),
writes the package (`Restore`), and commits. The job finds the lapsed packages
(`BeginExpire`), waits for each and looks again (`ExpirePackage`), and commits.

Abstracted: the SELECT FOR UPDATE of a package and the two UPDATEs that follow
it are one step, since nobody else can touch the row in between; the version
column then never differs and is left out, so `PrepaidExhausted` (line 212) is
never raised; a replay found by `find_replay` writes nothing and is a stutter;
the item row, the outbox events and the dashboard are left out.

### LoyaltyCards

A request of `Purchases`, `StampGrants` or `FreeGrants` begins (`BeginGiving`)
and inserts its transaction (`Record`, `RecordFails`). A purchase then reads the
cooldown (`CoolDown`), and purchase and stamp grant loop over

    FindCard    the SELECT of the open card finds a row or none
    StampCard   the row lock is granted, the row looked at again, stamped if open
    OpenCard    none: INSERT of a new one, stamped;  OpenFails: the index refuses

until no unit is left (`Give`); a full card is complete and the next round finds
or opens another. `GiveFree` inserts complete cards. A request of `Redeems` is
`BeginRedeem` (the cards its SELECT finds, in the order of completion, or the
one the barista picked), `PickCard` (the first one that is still complete once
locked; redeemed or, if lapsed, marked and refused), `Record`, `Commit`. A refund
locks the purchase (`BeginRefund`), and for each of its entries, in any order,
books the inverse and selects the live cards, newest first (`NextEntry`), locks
them (`LockCards`) and takes stamps from one after the other (`TakeBack`,
`ReopenFails`). The job is `BeginExpire`, `ExpireCard` for each row, `Commit`.

Abstracted: one customer and one campaign, since no statement but a redemption
looks across campaigns; an UPDATE that follows the FOR UPDATE of the same row is
one step with it, so the version never differs and `ConcurrentUpdate`
(`loyalty_engine.py:482`) is never raised; the UPDATE of a redemption is one step
with its lock, before the INSERT of the transaction instead of after it; the
SELECT of a refund gets all its locks in one step, and where it would wait for
the job and the job for it, the database aborts one of them (`Abort`); the
cooldown and the life of a card are counted in the clock's unit; `stamps_required`
is a constant, though a campaign may change it between two cards. Grants and
redemptions cannot be refunded (`refund.py:47`).

### Membership

The deposits of one customer. A purchase (`Begin`), an activation, a page that
shows the customer (`View`) all start with the SELECT of the active row (`Look`),
and with the lazy expiry that sets a row that is over or empty to its end by id
alone (`Retire`). A purchase then drains the row by a guarded UPDATE (`Deduct`;
`Short` when it matches no row), records its transaction (`Record`, `RecordFails`),
and commits with the amount it charged in its metadata. An activation is refused
while a row is active (`Refuse`), records its transaction and inserts the row under
the unique index on active rows (`Insert`, `InsertFails`). A cancellation locks the
row FOR UPDATE (`BeginCancel`, `Cancel`, `NoneToCancel`); a refund finds no
ledger entry and marks the transaction (`BeginRefund`). The prices, and with them the
discount, are the constant `Cost`; the campaigns a purchase with a deposit leaves
out are not looked at.

### Counter

One chat of a barista. `Plan` has the awaits of every handler of the four routers in
the order of the code, `In` the states in which an update reaches it, `Needs` the
data whose absence ends it with a KeyError. `Tasks` updates are handled at once:
`Receive` passes the filter, `Get`, `Put`, `Wipe` and `Move` are the Redis
commands, and the other actions are what the handler does in the database. What a
handler has read it keeps in `copy` and may write back whole long after. `shown` only
grows: buttons stay under their messages. A task that only has `set_state` ahead is
stripped of the rest, so that tasks that do the same are the same. Quantities, prices
and reasons are left out, as are the texts.

### Customers and Broadcasts

Requests of the customer bot, the panel and the counter against `users`: a
contact is inserted or linked (`Contact`, `Insert`, `Link`), the panel creates,
blocks, unblocks and deletes (`FindOrCreate`, `Panel`). Codes live in Redis: `AskCode`
and `Issue` (SET NX), `Lapse`, and the two commands of a resolution, `Lookup` and
`Resolve`; `screen` holds the codes customers have been shown. `Broadcasts` adds the
owner's messages: the row is committed (`Announce`), a task of the API process selects the
recipients (`Snapshot`), sends to one after the other (`Send`), saves its counters
every `Step` sends (`Save`) and ends (`MarkDone`, `MarkFailed`); `AskErase` and
`Erase` delete a broadcast; `Crash` ends every task and request, and nothing starts
a task again. Names, languages, media and pauses between sends are left out.

### Crew and Panel

`Crew` has the three forms for staff (`AskNew`/`Create`, `AskEdit`/`Edit`,
`AskRemove`/`Mark`/`Remove`), each a check and a later write; an edit carries the columns that
differ from those loaded, the two ways into a shift (`Start`, `Pin` and `Bind`),
`Logout` and a sale under the shift (`Sell`). `Panel` adds the forms on a customer's page: a
post with a token (`Submit`) takes effect with its audit row in one transaction
(`Apply`), or is a replay, which the route audits and tells the customer of like the
first (`Replay`). Purchases, packages and redemptions look for one, bonuses and memberships leave the
second post to the unique key (`Replays`); the sale of a package sends no message (`Tells`). The message goes out in a task after the commit (`Tell`), which a
crash loses. Passwords, sessions, cookies and the columns no property looks at are left out.

### Delivery

`Emit` is `enqueue_event`. A run of `drain_outbox` locks a batch (`StartDrain`),
and for each row inserts the job in a session of its own and marks the row
(`Dispatch`), or catches an exception and goes on (`DispatchFails`); the marks count when it
commits (`CommitDrain`), and a run that is cut off leaves only the jobs (`AbortDrain`).
A run of `send_due` loads what is due without a lock (`StartSend`), decides each
job (`Deliver`, `SendFails`, `Skip`, `Defer`) and flushes the columns that it
changed at the end (`CommitSend`, `Merged`); cut off, it forgets what it sent
(`AbortSend`). Events with one type and payload have one `Content`, the key of the job.
`hour` is the customers' local time. Left out: windows and zones that differ between customers, the LIMIT of a run
and its order, the deletion of a customer, which takes the jobs along and fails the flush of a run
that has them, as `AbortSend` does.

## 4. Runs

| run | question | states |
|---|---|---|
| `wallet` | eight properties over three purchases, two workers, the job, crashes | 0.54 million |
| `wallet_live` | does every database transaction end? | 36 thousand |
| `prepaid` | six properties over two packages, two sales, two uses, two workers, the job, crashes | 1.0 million |
| `prepaid_live` | does a lapsed package always expire? | 11 thousand |
| `cards` | four properties over two purchases, a granted coffee, a redemption, refunds, two workers, the job, crashes | 0.9 million |
| `cards_expiry` | three properties over a purchase, a granted stamp, two redemptions, while cards lapse | 90 thousand |
| `membership` | two properties over three purchases, one by a forced campaign, two activations, cancellations, refunds, views in two sessions | 0.8 million |
| `counter` | does a transaction of one customer ever use up what is another's? | 4.3 million |
| `customers` | five properties over two phones, two accounts, a code and a broadcast, two requests at a time, crashes | 1.6 million |
| `panel` | four properties over two rows of staff, a PIN, an account and forms of three kinds, two requests at a time, crashes | 2.2 million |
| `delivery` | three safety and two liveness properties over two drains, two senders, crashes and quiet hours | 93 thousand |
| `prepaid_exhausted` | expected to fail, see below | - |

Bounds. In `wallet`, one purchase earns cashback that expires after a clock
unit, one pays with two units, and one pays two and earns from two
stackable campaigns, one row for ever and one that expires. This is the least
that lets a debit span two earn rows, two debits compete for one row, a refund
both restore and claw back, the two campaigns collide on their key, and the job
find two rows at once (`JobLimit` = 2) while both workers are busy; the clock
goes to 2 because a row earned at 1 with life 1 must lapse at 2 and be selected
at a later time than the first. In `prepaid` there is a package of one unit,
where the off-by-one closes nothing, and one of two, where it closes early,
one expiring and one not; two uses under two workers allow every race between
two consumes, a consume and a retry of itself, a refund of a use after the
refund of the sale, and the job between any of them. In `cards` a card takes two
stamps; a cup stamps half of one, two cups fill a card or finish one and start
the next, so that two purchases race for the open card, for opening one and
around its completion, refunds meet full, half-full, granted and redeemed cards,
and three rows are all that these requests can open; nothing lapses there. In `cards_expiry`
the clock goes to 2, so that a card may lapse before it is full, while it waits
for its coffee, and after it was opened in place of one that lapsed; two
redemptions compete for it and repeat. More workers add waiting
transactions of the same kinds, and the theorems below hold for every number of
all of them.

In `membership` there are two deposits that lapse after one clock unit and three
purchases, one of which drains the smaller deposit: it is exhausted, expires, is cancelled and is replaced, each against each. In
`counter` there are two customers, of whom one owns a coffee, a package and a deposit,
one purchase that could be refunded, and two updates at a time, which is the least for a handler to
write back what another has replaced; a chat never handles three updates about one
customer in a way two do not. In `customers` two rows are enough for a customer who is deleted and
comes back, or for two who link one account; `Step` = 2 makes the counters be saved and not. In `panel` the
owner of the seed creates one more, who may become an owner, a barista or leave; the
forms are a redemption, which is replayed and told, a bonus, which is told only, and a package,
which is replayed only, and two posts are two forms at once, or a replay or a race of one. In `delivery` two
events have one content, and the first of them is poisoned: the second is behind it in the batch, and two
runs, or a run after one that was cut off, want the same job for it; the
day has three hours, of which two are quiet, one before and one after midnight; three
attempts let two senders undo each other's count.

What the properties say:

* `SpentWithinAmount`, `BalanceIsBacked`: the money, whatever interleaves and fails. The balance check
  in `debit` is stale and gives no protection; the row lock, the CHECK constraint
  and the order of statements do.
* `SpendsOldestFirst`: an allocation held by a debit skips no live row that
  expires earlier, also against commits made since the rows were selected.
* `OneRowPerKey`: ON CONFLICT DO NOTHING and the unique key, against retries, replays and
  the shared `earn:` key.
* `AppendOnly`: no step rewrites history.
* `AccountSpec`: `Wallet` implements `CashbackAccount`; postings appear with the
  balance, whole transactions at a time, and the balance is their sum.
* `OnlyKnownCircles`: `WaitsFor` says which transactions a statement that is about to be sent waits
  for. Of any set of open transactions one waits for none of the others, so that somebody
  can always go on, unless two of them are the circle that `Victim` breaks; and that one is real.
* `WalletInv`: the inductive invariant of the proofs, checked here first.
* `TransactionsEnd`: nobody waits for ever, given the fairness below.
* `QtyIsLedgerSum`: as long as its sale stands, a package can be recomputed from
  the ledger.
* `UnitsPaidFor`, `EffectOnce`: never more units than paid, over retries and
  concurrent refunds.
* `UsesOnlyActive`: the package is still active at the commit of the consume.
* `PoolSpec`: `Prepaid` implements `PrepaidPool`.
* `LapsedPackagesExpire`: the job is not starved by workers.
* `CompleteIsFull`: whoever gives, takes back or reopens in between, a card that
  waits for its coffee is full and an open one is not.
* `StampsFollowLedger`: cards hold no stamp that was not booked, and refunds take
  no more from them than they book. Equality does not hold: what a refund books
  for a card that is redeemed or expired is not taken from anywhere
  (`refund.py:312-314`).
* `OneOpenCard`: a transaction that has waited for the row it saw open, reopened another one or
  inserted one finds no second card open, nor does anyone after it; the lookup of the open card
  (`loyalty_engine.py:551`) raises when there are two. The SELECT before the INSERT does not give
  this: what does is that the unique index waits for who is changing a row.
* `StampsOnce`: a request gives all its stamps once, or none under the cooldown; a
  refund books all of them once.
* `OneCardPerCoffee`, `ClosedForGood`: a free coffee closes one card, and nothing
  touches a closed one.
* `BookSpec`: `LoyaltyCards` implements `StampBook`: a coffee costs exactly
  `Required` stamps, whatever else commits around it.
* `DepositFollowsCharges`: though no ledger stands behind it, the balance of a deposit can be
  recomputed from the transactions, and a retry is not charged twice.
* `DepositSpec`: `Membership` implements `Deposit`.
* `OwnGoods`: stale data, stale buttons and a card left pending lose against the
  `user_id` in the WHERE of the transactions.
* `OneRowEach`, `LoginFindsOne`: check-then-insert from several places leaves one
  row, or `scalar_one_or_none` would raise ever after.
* `CodesNameTheirCustomer`: a code on a screen is never another customer's, whoever
  resolves, reissues or lets it lapse in between.
* `OncePerAccount`, `CountsAddUp`, `SendingIsOnRecord`: broadcasts against customers
  who go and come back, errors after a message, crashes and the delete button.
* `AuthorsStay`: the count before a removal may be stale; the foreign key is not.
* `OncePerForm`: two posts of a form that both find no replay, or have none to find.
* `LogsAddUp`: over posts that overlap, fail or replay, and crashes between commit and message, what took effect
  is in the audit log and nothing else is, a form without a replay once; every further row, and every
  message, is due to a post, those under way counted. That a replay leaves a row and a message at all is what the code
  does, see below.
* `EventHasJob`: nothing is marked published without its job, wherever a run is cut off.
* `WakesInTime`: what is put off for the night is due when the window ends, also when
  the decision is committed after that.
* `SettledStaysSettled`: a slower sender never queues again what is settled; this
  rests on the ORM writing changed columns only (`Merged`).
* `EventsPublished`: a poisoned event does not hold up the others (as long as the batch is
  larger than the poison, `DeliveryAssumption`).
* `JobsLeaveQueue`: although two senders may undo each other's count of attempts.

Every property has a mutant in `PROJECT.json`: a plausible bug of the code under
which it fails. The mutated operators stand next to the operators they replace.

`CHECK_DEADLOCK FALSE` is set everywhere: the system may stop when all purchases
are made and refunded and the clock has reached its bound.

### What the documentation says and the code does not do

The run `prepaid_exhausted` has one property, taken from a comment, and TLC finds a
behaviour of the code that violates it: a package is closed as exhausted with one
unit left ("findings" in `PROJECT.json` quotes both sides).

Seen while modelling, without a run of their own:

* `expirations.py:63` promises to burn the unspent remainder of each lapsed row. After a
  clawback the burn would make the balance negative; CHECK aborts the batch of up to
  500 rows, and the same rows are selected again the next night.
* "For the *unspent* remainder" (`expirations.py:68`): it is read without a lock; what
  a debit spends before the UPDATE is burnt again.
* The ledger entries of a purchase are called "the authoritative effects"
  (`refund.py:96`). With two stackable cashback campaigns the ledger books both
  and the wallet gets one, since both credits have the key `earn:<tx>`.
* "If the card was complete we re-open it" (`refund.py:268`): when the purchase went
  on to open the next card, the unique index refuses a second open one, and the
  whole refund fails (`ReopenFails`).
* A cooldown is to protect from a double tap (`core/i18n.py:244`): it is read before the card is
  locked, and two purchases at the same moment both pass.
* The clawback of a refund leaves `spent_amount` of its earn row alone
  (`refund.py:391-417`), so what it took is also burnt when the row expires; this
  is what makes the job's batch fail, and where other cashback covers
  it, the burn succeeds out of that.
* `debit` promises to "bump spent_amount until the requested amount is allocated"
  (`wallet.py:134-136`). It compares the request with the whole balance, which
  includes rows that have expired and are not burnt yet and restored payments, but
  allocates from live earn rows only: it may succeed with less allocated than
  spent (`Allocate` followed by `Charge`). `BalanceIsBacked` says what remains true.
* "If the package was closed as exhausted, re-open it" (`refund.py:336`): the UPDATE
  sets the package active whatever its status was, so giving back a unit revives a
  package that was refunded or has expired (`Restored`).
* `redeem_free_coffee` says that "Expired cards are skipped and marked" (`redeem.py:39`).
  It marks the first card it finds and raises, the caller rolls the mark back, and
  a later card that is still good is not tried (`PickCard`, `Refuse`).
* A refund takes stamps from the live card opened last, which may be a granted
  coffee the purchase never stamped; the docstring speaks of "the most recently
  advanced card" (`refund.py:265`).
* The cooldown counts every stamp entry of the campaign, a refund's inverse entry
  and a grant included (`loyalty_engine.py:426-431`): a refund starts it anew.
* `_get_or_create_active_card` and the refund do not look at `expires_at`: stamps go
  to, and come from, a card that has lapsed until the nightly job has run.
* The model class declares the unique index over open and complete cards
  (`models/loyalty.py:48-55`); the migration 0002 made it one over open cards only.
  The modules follow the migration, which is what a deployed database has.
* `wallet.py:134` and `models/wallet.py:45` speak of FIFO by `created_at`; the
  query orders by `expires_at` first.
* The refund of a sale of a package books `-qty_total` and takes what is left
  (`refund.py:210`, 347): with units used before, ledger and quantity differ from
  then on. `QtyIsLedgerSum` is therefore stated for packages whose sale stands.
* The job's statement at `workers/jobs/expirations.py:109` writes `:src::text`;
  whether SQLAlchemy's `text()` reads this as a bind followed by a cast was not
  tried. The model takes the statement as it is meant.

* A cancelled deposit may end as "expired": the lazy expiry updates by id whatever
  the status has become (`membership.py:52`); `cancel_membership` promises "cancelled" (105).
* `link_telegram` raises TelegramConflict for a phone that has another account, but reads that
  account unlocked: of two accounts that link one phone, the later overwrites the earlier (`identity.py:161`).
* A code is "consumed" by `resolve_code` (`redeem_code.py:49`); two scans between GET and
  DELETE both resolve it, and the second DELETE may hit the code's next owner. Six digits that are no
  code any more are looked up as the end of a phone number (`customer_lookup.py`).
* A crash leaves a broadcast "sending": it is never resumed and cannot be deleted. Two posts of
  the form send two broadcasts; it has no token.
* Somebody who left keeps username and account under the unique indexes: hired again in a new row,
  they cannot bind the account. PINs are not unique, and the first row wins. An open
  shift of somebody who was removed goes on selling.
* Two owners may remove each other, and an owner may make themselves a barista: nobody is left to
  log in. `edit_staff` keeps PINs away from owners (`staff.py:284`), but two edits at
  once can leave an owner with one, and a barista without.
* Of two posts of a form "only the first request takes effect" (`customers.py:433-436`): a replayed purchase or
  redemption is audited again and the customer told again (lines 639-661 and 856-888), a replayed sale
  of a package audited again (1043).
* A refund compensates the "authoritative effects" in the ledger. What a membership paid is not among them, and the
  deposit gets nothing back (`loyalty_engine.py:137`).
* The buttons under a message of the staff bot carry no customer and act on the one looked up
  last: the confirmation to cancel a deposit (`handlers/customer.py:204`) ends that of another customer.
  `customer_actions_kb` takes a `user_id` and puts it nowhere.
* The request id of a package sale is drawn at random in `on_amount`: the message delivered again opens
  a second package (`handlers/prepaid.py:70`).
* The payload of PurchaseRecorded lacks `stamps_total` and `stamps_required`, which its template
  needs: such a job fails five times and no message is sent. TransactionRefunded has
  a template and is never dispatched.
* A package that is exhausted, refilled by a refund and exhausted again emits the same payload: the
  second event is taken for a duplicate.
* Overlapping or interrupted runs of `send_due` send a message twice; of two
  decisions about one job the later commit wins, so a message that went out may
  be on record as failed or skipped.

## 5. Fairness

`Wallet!Fairness`: PostgreSQL queues lock requests, so a statement that can
proceed again and again proceeds (SF on the statements that may wait); everything
else of a running transaction goes on by itself (WF); the job is started every
night (WF on `SelectLapsed`). Nobody has to start a purchase. The run uses
`CalmNext`, without crashes and timeouts: overlapping inserters that fail over and over,
each holding the share lock for a while, can starve a FOR UPDATE for ever, and
nothing in the code prevents it.

The run found one circle of locks. A refund that has restored a payment holds
the wallet row by a plain UPDATE; another transaction can still insert an entry,
which shares the row's key; the refund then wants the row FOR UPDATE to claw back
(`refund.py:378`), and the other one wants to UPDATE it. PostgreSQL's deadlock
detector rolls one of them back after a second: `Victim`, with weak fairness.
`OnlyKnownCircles` says that there is no other circle, and `TransactionsEnd` that then every
transaction ends.

`Prepaid!Fairness`: the same lock queues, and a job that is started every night.
Workers may abort as they like; the job may not abort for ever, which is left
out of `CalmNext`.

`Delivery!Fairness`: cron starts a drain every two seconds and a sender every second, so runs start again and
again, by day too (WF on `StartDrain`, SF on `StartSend` by day), and go on until they end (WF). Runs may be cut
off, be slow, and fail without a cause as long as they like, but not for ever: `Calm` says from when on a
run takes less than an hour (arq's `job_timeout` is a minute), is not cut off, and only poisoned events fail.
Safety is checked without any of this.

## 6. Proofs

| module | theorems | obligations from |
|---|---|---|
| `SumsProofs` | totals of appended, concatenated and reordered sequences (`TotalConcat`, `TotalPlaced`); the allocation loop: `LeftDraws` (between 0 and what each row has), `LeftExhausts` (a row is left only when it is empty), `LeftTotal` (no more than was asked for) | none |
| `WalletProofs` | `CoreInvariant`, `WalletInvariant`, `TypesHold`, `BalanceFollowsLedger`, `NeverOverdrawn`, `NeverAllocatedTwice`, `OneKeyOneRow`, `OldestSpentFirst`, `BalanceBacked`, `CirclesKnown`, `LedgerAppendOnly`, `ImplementsAccount` | `PlansAssumption` |
| `PrepaidProofs` | `PrepaidInvariant`, `PrepaidTypes`, `QtyFollowsLedger`, `NeverMoreThanPaid`, `NothingTwice`, `TakesFromActive`, `ImplementsPool` | `PrepaidAssumption` |
| `LoyaltyCardsProofs` | `CardsInvariant`, `StampsInvariant`, `CardTypes`, `FullCards`, `OneCardEach`, `OneIsOpen`, `StampsBookedOnce`, `StampsAccounted`, `ClosedStays`, `ImplementsBook` | `CardsAssumption` |
| `MembershipProofs` | `MembershipInvariant`, `DepositFollows`, `ImplementsDeposit` | `MembershipAssumption` |
| `BroadcastsProofs` | `BroadcastsInvariant`, `LookupsFindOne`, `CodesAreTheirs`, `NobodyTwice`, `CountersTrue`, `RowOutlivesTask` | `CustomersAssumption`, `BroadcastsAssumption` |
| `PanelProofs` | `PanelInvariant`, `LoginsFindOne`, `AuthorsOnRecord`, `FormsOnce`, `LogsAreExact`; of the counter, `GoodsAreTheirs` | `CrewAssumption`, `PanelAssumption`; none for the counter |
| `DeliveryProofs` | `DeliveryInvariant`, `MarkedIsQueued`, `NobodyOversleeps`, `SettledForGood` | `DeliveryAssumption` |

They hold for any number of workers, purchases, packages, cards, deposits,
customers, forms, events and requests, any plans, prices and quiet hours, and any bound on the
clock. The assumptions say that the constants have their types, that the job is
not a worker, that kinds of requests do not overlap, and that the "no one" and "erased" values
are none of the others; `CrewAssumption` also that finitely many requests are handled at a time, so that those
under way for a form can be counted; `PrepaidAssumption` also that there are finitely many uses
and packages, so that units can be counted. Requests are sorted by what they ask:
the ids of purchases, bonuses and coffees carry different prefixes
(`add:`, `bonus:`, `free:`). Stamps and coffees as presents share one form; that
the same posted form comes again with the other choice is not modelled, its
second transaction would fail on the key.

**Wallet.** The properties are not inductive: what keeps `balance` equal to the
sum of the rows at a commit is what the transaction has written before. The
invariant `WalletInv` has a core of four parts (`CoreInv`), which is inductive by
itself, and four more that lean on it. The core: `TypeOK`; `ProgramOK`, an actor is inside
the call at the head of its program; `MoneyOK`, each transaction's rows sum to
its change of the balance plus what the current call has inserted and not yet
applied (`Outstanding`), only the holder of the wallet's row lock has changed the
balance, and the balance as it sees it is not negative; `LotsOK`, private
versions belong to earn rows, to one transaction each, between the committed
`spent` and the amount. The proof has one lemma per action; the lemmas about
commits rest on `TotalConcat`, the one about `Allocate` on `LeftDraws`.

On top of it, `KeysOK` is about idempotency keys: a purchase is worked on by one
session at a time, every key ahead of a session or in its new rows carries that
purchase (the job's carry the lot), and no key is in the wallet that a session has yet to
commit. `DebitsOK` says what the order of spending rests on: from the insertion of its row
to the update of the balance a debit is alone (`Alone`), because the foreign key
locks keep everybody from inserting, and whoever updates an earn row has inserted
something; so nobody commits anything between the SELECT of the lots and the UPDATEs, and
`LeftExhausts` does the rest. `FundsOK` is about what backs the balance: no
transaction has taken more from earn rows than the rows it has inserted withdraw
(`Takes`, `Debts`), and the job's remainder, read before the lock, is at least what
is left, since `spent` only grows. That a clawback takes money without touching the
earn rows, and that the job may burn too much (the finding), are both on the
safe side of `BalanceIsBacked`, which is why it holds and the equality does not.

`LocksOK` is about who holds what (`HoldsOK`): who has inserted an entry holds the wallet's row, but for
the moment before that entry's UPDATE; earn rows are updated by who holds the wallet's row, or by the job; and a
debit is the first call of its program, so who holds anything has no debit ahead. `CirclesKnown`
follows in two steps. The holder of the wallet's row waits for nobody, or is in the known circle
(`HolderWaits`). If nobody in the set holds the row, whoever waits does so for the one who creates the
wallet or for one who has inserted an entry (`OthersWait`), and those are about to update the balance
and find the row free (`AboutToUpdate`).

**Prepaid.** `PrepaidInv` adds to the three state properties that a session in
the middle of a request has exactly one row, in the version that the request
makes of the committed one (`SessionOK`), that the job's rows are committed as
active (`JobOK`), that row locks and the locks on transactions exclude one
another (`LocksOK`), and that transactions, packages and entries belong together
(`BooksOK`). Without the first, a commit could publish anything; without the
third, two sessions could have decremented one version of a row. The proof
separates statements, which change nothing that is committed, from commits; the
commit of a session is described once (`Committing`, `CommitRow`) and each part
of the invariant has a lemma about it.

**Cards.** Nearly everything goes wrong at commits, where a transaction
overwrites committed rows with what it holds. `CardsInv` therefore says what a
transaction knows at each label (`Local`): each row it holds is fit to be
committed (`Fine`: open and not full, or full, and redeemed by somebody or not)
and stands for a committed row that was not closed (`RowsOK`); a redemption that is
recorded holds exactly its one redeemed row (`Coffee`); what a refund still wants to
take from is held and live. `LocksOK` keeps the rows of two transactions apart,
and two transactions off one request unless one of them has not inserted it yet;
without it another commit could close a row under the holder's feet. A
statement that keeps to free rows and to its own variables is dealt with once
(`Statement`), and `CommitWrites` says what a commit does to the others.

**Stamps.** `StampsOnce` and `StampsFollowLedger` speak of the committed ledger, and need
to know what a transaction has done so far. `StampsInv` adds to `CardsInv` the books of
every transaction (`Books`): who gives stamps has put on its cards (`Gain`) exactly what it has booked, and
what it has booked plus the units left is what was asked for (`Giving`); who refunds has
taken no more than it has booked, and what it has yet to book is the rest of
the purchase (`Undo`), which no one else can change since it has the purchase
locked; who redeems or expires books nothing and leaves the stamps where they are. `HeldOK` says
what the held rows were before. `LedgerOK` has the two properties, and that a card
without a row has no stamps and a new request no entries. Statements change the books of
their own session (`Turn`); a refund reads its entries in any order, and that they
add up all the same is `EntriesAddUp`, by `TotalPlaced`. A commit is of one of three kinds
(`CommitKinds`), and `CommitLedger` goes through them.

**The open card.** `OneOpenCard` speaks of what each transaction sees; what it will see changes when
another one commits or when it rolls back itself. `OpenOK` adds both: of the committed cards one
is open, and no two transactions have written an open one each. A statement opens nothing that its
transaction did not see open (`OpensNone`), or opens one card under the unique index (`OpensOne`); a
free row that is seen open cannot have a rival in other hands, or these would see two. A commit
only shows the others what its transaction has seen (`CommitOpen`).

**The book of stamps.** In `ImplementsBook` the same kinds map to the steps of
`StampBook`: what gives adds (`LiveGain`), what takes back or expires subtracts
(`JobCommits`), a redemption closes one full card (`CoffeeCommits`); everything before the
commit is a stutter.

**Membership.** `MembershipInv` has `MembersOK` (at most one active row, and it has
money), `ChargesOK` (what was paid less what was charged is what is left, and only
recorded purchases are charged), `SessionOK` (what a transaction holds only ends
rows, draws from the row that is live, or sells a new one), `SellersOK` (at
most one transaction has passed the unique index with a new row, and it holds the row
that was live, ended) and `LocksOK`. Each commit is one of `Closes`, `PaysFrom` or
`Sells`, which map to the steps of `Deposit`; hence `ImplementsDeposit`.

**Customers and broadcasts.** The checks are stale by the time of the write, so the
invariant does not rest on them: `UsersOK` keeps live rows apart by the unique
indexes alone, `CodesOK` ties a code on a screen to the key it was issued under,
`RequestsOK` says what of a request's reading still holds (the row of a customer is
never removed, a broadcast that was not being sent never is again), and `PostsOK`
relates what is left of a snapshot, what was received and what was counted: a
message may have gone out that no counter knows, never the reverse.

**Crew and panel.** `StaffOK` (unique names and accounts, and whoever has sold has
a row), `RequestsOK` (what a replay or a message is about has taken effect and stays
so, and only forms that have one are replayed), and `FormsOK`. The log is an argument about counting: the row of
each form balances against the posts that are about to be recorded and the messages about to be sent (`Book`). A
step moves one request, which weighs one or nothing for each form (`Weight`), so the two counts change by what
the request weighed before and weighs now (`FormsMove`), and the row by what the step records (`OneForm`).

**Delivery.** `OutboxOK` and `DrainsOK`: whoever is marked, in the database or in a
run, has its job, and jobs do not vanish (`JobsStay`); `QueueOK` and `SendsOK`: a
job that is put off, in the row or in a decision not yet committed, is put off to the
end of the window counted from now (`Timely`), and what a run has loaded was queued,
so that a flush of changed columns cannot queue what another run has settled.

**The counter.** `GoodsAreTheirs` needs nothing beyond itself and the filters of the two selects, whatever the
handlers have read and written back: no fact about the conversation is used, and none would
hold. It stands in `PanelProofs`, which takes `Counter` as an instance beside the panel.

Every safety property of a run is proved. Only model-checked: the liveness properties (`TransactionsEnd`,
`LapsedPackagesExpire`, `EventsPublished`, `JobsLeaveQueue`), since fairness and ENABLED
are out of TLAPS's reach here. The recursive functions of `Sums` are proved about from
their defining equations, by inductions over the natural numbers made by hand: the
library's induction theorems take an operator as a parameter, which the provers cannot
instantiate, so the property is given as a set (`SetInduction`).

## 7. Not modelled, and what is left

* The dashboard row (`_refresh_user_dashboard_projection`): the last of two concurrent transactions may leave
  it without the other's effect until the next one recomputes it. Only the customer's page reads it.
* Campaign selection (`_resolve_stackable`, `_line_matches_trigger`, `_load_active_campaigns`): a query and pure
  functions, without state; the modules take the campaigns of a purchase as given.
* Pages and screens that only read; the forms for branches, products and campaigns, which write
  one row each; texts, languages, media.
* Passwords, sessions, cookies, row-level security: no concurrency of their own.
* HTTP plumbing and migrations; the constraints the migrations create are guards of the modules.
* One refund over all accounts of a purchase at once: `Wallet`, `Prepaid` and `LoyaltyCards` each take the entries
  of their own account, in any order. What the composition adds is that all of it commits or none, which is
  the transaction.

`CirclesKnown` is about the locks of the wallet. The same cannot be said of the others as they are modelled:
`Prepaid` drops the locks that PostgreSQL keeps on rows whose condition no longer holds, and in
`LoyaltyCards` the job and a refund lock cards in different orders, so that the deadlock detector has
to end one of them (`Abort`). Worth modelling next: the locks one purchase takes over all its accounts,
and who waits for whom there.

Runs are few on purpose: where a later module composes earlier ones, its run takes
over what the smaller run asks.
