---------------------------- MODULE LoyaltyCards ----------------------------
(***************************************************************************)
(* The punch cards of one customer in one campaign: stamps given by a      *)
(* purchase (app/domain/loyalty_engine.py) or by hand (app/domain/         *)
(* bonus.py), free coffees (app/domain/redeem.py), the stamp half of a     *)
(* refund (app/domain/refund.py) and the job that expires cards, statement *)
(* by statement, at READ COMMITTED.                                        *)
(***************************************************************************)
EXTENDS Integers, Sequences, FiniteSets, SequencesExt, Sums

CONSTANTS
  Sessions,     \* the bot and admin workers
  Job,          \* the arq worker that runs expire_loyalty_cards
  Purchases, StampGrants, FreeGrants, Redeems,  \* client_request_ids, by what they ask
  Units,        \* eligible units bought, stamps or free coffees granted
  MaxCards,     \* bound on the rows
  Required,     \* rules.stamps_required
  Life,         \* rules.expires_after_days, 0 never expires
  Cooldown,     \* rules.cooldown_minutes, 0 none
  NoOne,
  MaxNow        \* bound on the clock

Actors == Sessions \cup {Job}
Requests == Purchases \cup StampGrants \cup FreeGrants \cup Redeems
Cards == 1..MaxCards

ASSUME CardsAssumption ==
  /\ Units \in [Purchases \cup StampGrants \cup FreeGrants -> Nat \ {0}]
  /\ Job \notin Sessions /\ NoOne \notin Requests
  /\ Redeems \cap (Purchases \cup StampGrants \cup FreeGrants) = {}
  /\ Purchases \cap (StampGrants \cup FreeGrants) = {} /\ StampGrants \cap FreeGrants = {}
  /\ MaxCards \in Nat /\ Required \in Nat \ {0}
  /\ Life \in Nat /\ Cooldown \in Nat /\ MaxNow \in Nat

VARIABLES
  now,
  card,    \* loyalty_cards (committed); status "none": no such row
  status,  \* transactions, by the client_request_id they carry
  ledger,  \* ledger_entries of unit stamp on account card:<campaign id>
  pc,      \* the statement an actor is about to send
  req,     \* the request it serves, or the purchase it refunds
  born,    \* start of its database transaction: opened_at, created_at
  left,    \* units it has yet to stamp or to take back
  cands,   \* rows its SELECT or UPDATE found and has yet to deal with
  prog,    \* refund: entries of the purchase not yet compensated
  mine,    \* the rows it has locked, as it has written them
  booked   \* its ledger entries

db == <<card, status, ledger>>
private == <<born, left, cands, prog, mine, booked>>
vars == <<now, db, pc, req, private>>

-----------------------------------------------------------------------------
(* Rows *)

States == {"none", "open", "complete", "redeemed", "expired"}
Card == [status : States, stamps : Nat, opened : Nat, completed : Nat,
         expires : Nat, tx : Redeems \cup {NoOne}]

NoRow == [c \in {} |-> 0]
With(rows, c, v) == [d \in DOMAIN rows \cup {c} |-> IF d = c THEN v ELSE rows[d]]

NoCard == [status |-> "none", stamps |-> 0, opened |-> 0, completed |-> 0,
           expires |-> 0, tx |-> NoOne]

NewCard(s) == [NoCard EXCEPT !.status = "open", !.opened = born[s],
                             !.expires = IF Life = 0 THEN 0 ELSE now + Life]

\* The row as the statements of s see it.
Seen(s, c) == IF c \in DOMAIN mine[s] THEN mine[s][c] ELSE card[c]

Lapsed(k) == k.expires # 0 /\ k.expires < now
NotExpired(k) == k.status \in {"open", "complete", "redeemed"}  \* mutant
Live(k) == k.status \in {"open", "complete"}

\* Mutants: a full card stays open; a card is full one stamp early.
StampedOver(k, take) == [k EXCEPT !.stamps = @ + take]
StampedEarly(k, take) ==
  IF k.stamps + take >= Required - 1
  THEN [k EXCEPT !.stamps = @ + take, !.status = "complete", !.completed = now]
  ELSE [k EXCEPT !.stamps = @ + take]

\* A card with take more stamps.
Stamped(k, take) ==
  IF k.stamps + take >= Required
  THEN [k EXCEPT !.stamps = @ + take, !.status = "complete", !.completed = now]
  ELSE [k EXCEPT !.stamps = @ + take]

\* _refund_stamps: what a card can give back of n stamps; it is open again.
Taken(n, k) == Least(n, k.stamps)

Unstamped(k, take) ==
  [k EXCEPT !.stamps = @ - take, !.status = "open", !.completed = 0]

RedeemedBy(k, r) == [k EXCEPT !.status = "redeemed", !.tx = r]
Expired(k) == [k EXCEPT !.status = "expired"]

NeverWaits(s, c) == TRUE  \* mutant: no row locks
RowFree(s, c) == \A t \in Actors \ {s} : c \notin DOMAIN mine[t]

\* Unique index on the open card.  A row that s makes open collides at once with
\* an open one nobody is changing, and waits for whoever changes one.
Changes(t, c) == c \in DOMAIN mine[t] /\ mine[t][c] # card[c]

KeyTaken(s, c) ==
  \E d \in Cards \ {c} :
    Seen(s, d).status = "open" /\ \A t \in Actors \ {s} : ~Changes(t, d)

\* Mutant: no index; a card is opened when the SELECT sees no open one.
KeySeenFree(s, c) == \A d \in Cards \ {c} : Seen(s, d).status # "open"

KeyFree(s, c) ==
  \A d \in Cards \ {c} :
    /\ Seen(s, d).status # "open"
    /\ \A t \in Actors \ {s} : Changes(t, d) => mine[t][d].status # "open"

\* UNIQUE (tenant_id, client_request_id): an INSERT waits for another one of
\* the same key.  A refund locks the transaction it refunds FOR UPDATE.
TxUnlocked(s, r) == TRUE  \* mutant
TxFree(s, r) ==
  \A t \in Actors \ {s} : req[t] = r => pc[t] \in {"pick", "refuse", "record"}

Entry(s, delta) == [tx |-> req[s], delta |-> delta, at |-> born[s]]

-----------------------------------------------------------------------------
Init ==
  /\ now = 0
  /\ card = [c \in Cards |-> NoCard]
  /\ status = [r \in Requests |-> "new"]
  /\ ledger = <<>>
  /\ pc = [s \in Actors |-> "idle"]
  /\ req = [s \in Actors |-> NoOne]
  /\ born = [s \in Actors |-> 0]
  /\ left = [s \in Actors |-> 0]
  /\ cands = [s \in Actors |-> <<>>]
  /\ prog = [s \in Actors |-> <<>>]
  /\ mine = [s \in Actors |-> NoRow]
  /\ booked = [s \in Actors |-> <<>>]

Goto(s, label) == pc' = [pc EXCEPT ![s] = label]

Forget(s) ==
  /\ Goto(s, "idle")
  /\ req' = [req EXCEPT ![s] = NoOne]
  /\ born' = [born EXCEPT ![s] = 0]
  /\ left' = [left EXCEPT ![s] = 0]
  /\ cands' = [cands EXCEPT ![s] = <<>>]
  /\ prog' = [prog EXCEPT ![s] = <<>>]
  /\ mine' = [mine EXCEPT ![s] = NoRow]
  /\ booked' = [booked EXCEPT ![s] = <<>>]

RollBack(s) == Forget(s) /\ UNCHANGED <<now, db>>

Start(s, r, label) ==
  /\ pc[s] = "idle"
  /\ Goto(s, label)
  /\ req' = [req EXCEPT ![s] = r]
  /\ born' = [born EXCEPT ![s] = now]

-----------------------------------------------------------------------------
(* Stamps *)

\* record_purchase finds no replay; grant_stamps and grant_free_coffee do not look.
BeginGiving(s, r) ==
  /\ status[r] = "new"
  /\ Start(s, r, "record")
  /\ left' = [left EXCEPT ![s] = Units[r]]
  /\ UNCHANGED <<now, db, cands, prog, mine, booked>>

\* INSERT of the transaction ...
Record(s) ==
  /\ pc[s] = "record" /\ status[req[s]] = "new" /\ TxFree(s, req[s])
  /\ Goto(s, CASE req[s] \in Purchases -> "cooldown" [] req[s] \in StampGrants -> "find"
               [] req[s] \in FreeGrants -> "give" [] req[s] \in Redeems -> "commit")
  /\ UNCHANGED <<now, db, req, private>>

\* ... which fails on the key if a retry of the request has committed.
RecordFails(s) == pc[s] = "record" /\ status[req[s]] # "new" /\ RollBack(s)

\* _apply_punchcard gives nothing while the youngest committed entry, be it a
\* refund's, is fresh.
CoolDown(s) ==
  /\ pc[s] = "cooldown"
  /\ Goto(s, IF \E i \in DOMAIN ledger : now - ledger[i].at < Cooldown
             THEN "commit" ELSE "find")
  /\ UNCHANGED <<now, db, req, private>>

\* _get_or_create_active_card: the open card its SELECT finds, if any ...
FindCard(s) ==
  /\ pc[s] = "find"
  /\ \/ /\ \E c \in Cards : /\ Seen(s, c).status = "open"
                            /\ cands' = [cands EXCEPT ![s] = <<c>>]
        /\ Goto(s, "stamp")
     \/ /\ \A c \in Cards : Seen(s, c).status # "open"
        /\ Goto(s, "open") /\ UNCHANGED cands
  /\ UNCHANGED <<now, db, req, born, left, prog, mine, booked>>

\* As many stamps as card c has room for, and their ledger entry.
Give(s, c, k) ==
  LET take == Least(left[s], Required - k.stamps) IN
  /\ mine' = [mine EXCEPT ![s] = With(@, c, Stamped(k, take))]
  /\ booked' = [booked EXCEPT ![s] = Append(@, Entry(s, take))]
  /\ left' = [left EXCEPT ![s] = @ - take]
  /\ Goto(s, IF take = left[s] THEN "commit" ELSE "find")
  /\ cands' = [cands EXCEPT ![s] = <<>>]
  /\ UNCHANGED <<now, db, req, born, prog>>

\* ... is locked, looked at again and stamped, or no longer open.
StampCard(s) ==
  LET c == Head(cands[s]) IN
  /\ pc[s] = "stamp" /\ RowFree(s, c)
  /\ IF Seen(s, c).status = "open"
     THEN Give(s, c, Seen(s, c))
     ELSE /\ Goto(s, "open") /\ cands' = [cands EXCEPT ![s] = <<>>]
          /\ UNCHANGED <<now, db, req, born, left, prog, mine, booked>>

\* A new row gets an identity no other row has.
Unused(s, c) == Seen(s, c).status = "none" /\ RowFree(s, c)
Fresh(s, c) == Unused(s, c) /\ \A d \in 1..(c - 1) : ~Unused(s, d)

\* INSERT of a new open card, which the unique index may delay or refuse.
OpenCard(s) ==
  /\ pc[s] = "open"
  /\ \E c \in Cards : Fresh(s, c) /\ KeyFree(s, c) /\ Give(s, c, NewCard(s))

OpenFails(s) ==
  pc[s] = "open" /\ (\E c \in Cards : Fresh(s, c) /\ KeyTaken(s, c)) /\ RollBack(s)

\* grant_free_coffee: a complete card for each.
GiveFree(s) ==
  /\ pc[s] = "give"
  /\ \E c \in Cards :
       /\ Fresh(s, c)
       /\ mine' = [mine EXCEPT ![s] = With(@, c, Stamped(NewCard(s), Required))]
  /\ booked' = [booked EXCEPT ![s] = Append(@, Entry(s, Required))]
  /\ left' = [left EXCEPT ![s] = @ - 1]
  /\ Goto(s, IF left[s] = 1 THEN "commit" ELSE "give")
  /\ UNCHANGED <<now, db, req, born, cands, prog>>

-----------------------------------------------------------------------------
(* Free coffees *)

Orders(S) ==
  {o \in [1..Cardinality(S) -> S] :
     \A i, j \in 1..Cardinality(S) : i < j => o[i] # o[j]}

\* redeem_free_coffee finds no replay; the complete cards, first completed first,
\* of which it takes one, or the one the barista picked.
BeginRedeem(s, r, picked) ==
  /\ status[r] = "new"
  /\ Start(s, r, "pick")
  /\ \E o \in Orders({c \in picked : card[c].status = "complete"}) :
       /\ \A i, j \in DOMAIN o : i < j => card[o[i]].completed <= card[o[j]].completed
       /\ cands' = [cands EXCEPT ![s] = o]
  /\ UNCHANGED <<now, db, left, prog, mine, booked>>

\* The SELECT locks the next row and looks at it again.  A card that has lapsed
\* is marked, any other one redeemed.
PickCard(s) ==
  LET c == Head(cands[s]) IN
  /\ pc[s] = "pick" /\ cands[s] # <<>> /\ RowFree(s, c)
  /\ \/ /\ card[c].status # "complete"
        /\ cands' = [cands EXCEPT ![s] = Tail(@)]
        /\ UNCHANGED <<pc, mine>>
     \/ /\ card[c].status = "complete" /\ Lapsed(card[c])
        /\ mine' = [mine EXCEPT ![s] = With(@, c, Expired(card[c]))]
        /\ Goto(s, "refuse") /\ UNCHANGED cands
     \/ /\ card[c].status = "complete" /\ ~Lapsed(card[c])
        /\ mine' = [mine EXCEPT ![s] = With(@, c, RedeemedBy(card[c], req[s]))]
        /\ Goto(s, "record")
        /\ cands' = [cands EXCEPT ![s] = <<>>]
  /\ UNCHANGED <<now, db, req, born, left, prog, booked>>

\* raise FreeCoffeeExpired, FreeCoffeeNotAvailable: the caller rolls back.
Refuse(s) == pc[s] = "refuse" /\ RollBack(s)
NotAvailable(s) == pc[s] = "pick" /\ cands[s] = <<>> /\ RollBack(s)

-----------------------------------------------------------------------------
(* Refunds *)

\* The entries with the stamps that purchase r has booked.
EntriesOf(r) == {i \in DOMAIN ledger : ledger[i].tx = r /\ ledger[i].delta > 0}

\* ORDER BY opened_at DESC: cards of the same moment come in any order.
NewestFirst(s, cards) ==
  {o \in Orders(cards) :
     \A i, j \in DOMAIN o : i < j => Seen(s, o[i]).opened >= Seen(s, o[j]).opened}

\* refund_transaction locks the purchase, finds it committed and reads its
\* entries, in whatever order the database returns them.
BeginRefund(s, r) ==
  /\ status[r] = "committed" /\ TxFree(s, r)
  /\ Start(s, r, "take")
  /\ \E o \in Orders(EntriesOf(r)) :
       prog' = [prog EXCEPT ![s] = [i \in DOMAIN o |-> ledger[o[i]].delta]]
  /\ UNCHANGED <<now, db, left, cands, mine, booked>>

\* _compensate_ledger: the inverse entry; _refund_stamps SELECTs the live cards,
\* newest first.
NextEntry(s) ==
  /\ pc[s] = "take" /\ prog[s] # <<>>
  /\ left[s] = 0 \/ cands[s] = <<>>
  /\ booked' = [booked EXCEPT ![s] = Append(@, Entry(s, -Head(prog[s])))]
  /\ left' = [left EXCEPT ![s] = Head(prog[s])]
  /\ prog' = [prog EXCEPT ![s] = Tail(@)]
  /\ \E o \in NewestFirst(s, {c \in Cards : Live(Seen(s, c))}) :
       cands' = [cands EXCEPT ![s] = o]
  /\ Goto(s, "lock")
  /\ UNCHANGED <<now, db, req, born, mine>>

\* ... FOR UPDATE, each of which is looked at again once it is locked.
LockCards(s) ==
  LET live == {c \in ToSet(cands[s]) : Live(Seen(s, c))} IN
  /\ pc[s] = "lock" /\ \A i \in DOMAIN cands[s] : RowFree(s, cands[s][i])
  /\ \E o \in NewestFirst(s, live) : cands' = [cands EXCEPT ![s] = o]
  /\ mine' = [mine EXCEPT ![s] = [c \in DOMAIN @ \cup live |-> Seen(s, c)]]
  /\ Goto(s, "take")
  /\ UNCHANGED <<now, db, req, born, left, prog, booked>>

Taking(s) == pc[s] = "take" /\ left[s] > 0 /\ cands[s] # <<>>

\* A complete card that loses stamps is reopened ...
Reopens(s) ==
  LET k == mine[s][Head(cands[s])] IN k.stamps > 0 /\ k.status = "complete"

TakeBack(s) ==
  LET c == Head(cands[s])
      take == Taken(left[s], mine[s][c])
  IN
  /\ Taking(s)
  /\ Reopens(s) => KeyFree(s, c)
  /\ mine' = IF take = 0 THEN mine
             ELSE [mine EXCEPT ![s][c] = Unstamped(@, take)]
  /\ left' = [left EXCEPT ![s] = @ - take]
  /\ cands' = [cands EXCEPT ![s] = Tail(@)]
  /\ UNCHANGED <<now, db, pc, req, born, prog, booked>>

\* ... unless another card is open: the unique index refuses the UPDATE.
ReopenFails(s) ==
  /\ Taking(s) /\ Reopens(s) /\ KeyTaken(s, Head(cands[s]))
  /\ RollBack(s)

-----------------------------------------------------------------------------
(* The nightly job *)

\* expire_loyalty_cards: the rows its UPDATE finds ...
Expirable == {c \in Cards : Live(card[c]) /\ Lapsed(card[c])}

BeginExpire ==
  /\ pc[Job] = "idle" /\ Expirable # {}
  /\ \E o \in Orders(Expirable) : cands' = [cands EXCEPT ![Job] = o]
  /\ Goto(Job, "expire")
  /\ UNCHANGED <<now, db, req, born, left, prog, mine, booked>>

\* ... and updates one by one, if they are still live once locked.
ExpireCard ==
  LET c == Head(cands[Job]) IN
  /\ pc[Job] = "expire" /\ RowFree(Job, c)
  /\ mine' = IF Live(card[c]) THEN [mine EXCEPT ![Job] = With(@, c, Expired(card[c]))]
             ELSE mine
  /\ cands' = [cands EXCEPT ![Job] = Tail(@)]
  /\ Goto(Job, IF Len(cands[Job]) = 1 THEN "commit" ELSE "expire")
  /\ UNCHANGED <<now, db, req, born, left, prog, booked>>

-----------------------------------------------------------------------------
(* The end of a transaction, and time *)

Done(s) ==
  pc[s] = "commit" \/ (pc[s] = "take" /\ prog[s] = <<>> /\ (left[s] = 0 \/ cands[s] = <<>>))

Commit(s) ==
  /\ Done(s)
  /\ card' = [c \in Cards |-> Seen(s, c)]
  /\ status' = IF s = Job THEN status
               ELSE [status EXCEPT ![req[s]] =
                       IF pc[s] = "take" THEN "reversed" ELSE "committed"]
  /\ ledger' = ledger \o booked[s]
  /\ Forget(s)
  /\ UNCHANGED now

Abort(s) == pc[s] # "idle" /\ RollBack(s)

Tick == now < MaxNow /\ now' = now + 1 /\ UNCHANGED <<db, pc, req, private>>

Begin(s) ==
  \/ \E r \in Purchases \cup StampGrants \cup FreeGrants : BeginGiving(s, r)
  \/ \E r \in Redeems :
       BeginRedeem(s, r, Cards) \/ \E c \in Cards : BeginRedeem(s, r, {c})
  \/ \E r \in Purchases : BeginRefund(s, r)

Advance(s) ==
  \/ Record(s) \/ RecordFails(s) \/ CoolDown(s)
  \/ FindCard(s) \/ StampCard(s) \/ OpenCard(s) \/ OpenFails(s) \/ GiveFree(s)
  \/ PickCard(s) \/ Refuse(s) \/ NotAvailable(s)
  \/ NextEntry(s) \/ LockCards(s) \/ TakeBack(s) \/ ReopenFails(s)
  \/ Commit(s)

Next ==
  \/ \E s \in Sessions : Begin(s) \/ Advance(s) \/ Abort(s)
  \/ BeginExpire \/ ExpireCard \/ Commit(Job) \/ Abort(Job)
  \/ Tick

Spec == Init /\ [][Next]_vars

-----------------------------------------------------------------------------
(* Correctness *)

Labels == {"idle", "record", "cooldown", "find", "stamp", "open", "give", "pick",
           "refuse", "take", "lock", "expire", "commit"}

Entries == [tx : Requests, delta : Int, at : Nat]

\* Types of the committed state and of what each transaction holds privately.
TypeOK ==
  /\ now \in Nat
  /\ card \in [Cards -> Card]
  /\ status \in [Requests -> {"new", "committed", "reversed"}]
  /\ ledger \in Seq(Entries)
  /\ pc \in [Actors -> Labels]
  /\ req \in [Actors -> Requests \cup {NoOne}]
  /\ born \in [Actors -> Nat] /\ left \in [Actors -> Nat]
  /\ cands \in [Actors -> Seq(Cards)]
  /\ prog \in [Actors -> Seq(Nat \ {0})]
  /\ mine = [s \in Actors |-> mine[s]]
  /\ \A s \in Actors : \A c \in DOMAIN mine[s] : c \in Cards /\ mine[s][c] \in Card
  /\ booked \in [Actors -> Seq(Entries)]

\* models/loyalty.py:33-36: a card that waits for its coffee is full, and one
\* that collects stamps is not, whatever was taken back from it in between.
CompleteIsFull ==
  \A c \in Cards : /\ card[c].status = "open" => card[c].stamps < Required
                   /\ card[c].status \in {"complete", "redeemed"} => card[c].stamps = Required

\* loyalty_engine.py:551: no transaction finds two open cards, among the committed
\* ones or with those it has opened and reopened itself; scalar_one_or_none would
\* raise on each purchase and each manual stamp of that customer from then on.
OneOpenCard ==
  \A s \in Actors : \A c, d \in Cards :
    Seen(s, c).status = "open" /\ Seen(s, d).status = "open" => c = d

Stamps(S) == Total([c \in Cards |-> IF card[c].status \in S THEN card[c].stamps ELSE 0])

\* The part of the entries es that belongs to requests rs and has that sign.
Share(es, rs, sign) ==
  Total([i \in DOMAIN es |->
           IF es[i].tx \in rs /\ sign * es[i].delta > 0 THEN es[i].delta ELSE 0])

Booked(rs, sign) == Share(ledger, rs, sign)

\* models/ledger.py:3-5: no stamp is lost or made up.  Cards hold no stamp that
\* was not booked, and a refund takes no more from them than it books.
StampsFollowLedger ==
  /\ Stamps(States) <= Booked(Requests, 1)
  /\ Stamps(States) >= Booked(Requests, 1) + Booked(Requests, -1)

\* The stamps in n units of request r: a free coffee is a full card.
Due(r, n) == IF r \in FreeGrants THEN n * Required ELSE n

\* A request gives its stamps once, or none under the cooldown, and a refund
\* takes all of them back once, however often and by how many it is served.
StampsOnce ==
  \A r \in Purchases \cup StampGrants \cup FreeGrants :
    LET asked == Due(r, Units[r])
        given == Booked({r}, 1)
    IN  /\ given \in {0, asked} /\ (r \notin Purchases /\ status[r] # "new" => given = asked)
        /\ Booked({r}, -1) = IF status[r] = "reversed" THEN -given ELSE 0

\* A free coffee closes one card, and no card pays for two.
OneCardPerCoffee ==
  \A r \in Redeems :
    Cardinality({c \in Cards : card[c].status = "redeemed" /\ card[c].tx = r})
      = IF status[r] = "committed" THEN 1 ELSE 0

\* refund.py:269-272: a coffee that was drunk is not rolled back, and an expired
\* card stays expired.
ClosedForGood ==
  [][\A c \in Cards : card[c].status \in {"redeemed", "expired"} => card'[c] = card[c]]_card

\* The campaign implements a book of stamps in which a coffee costs Required.
Book == INSTANCE StampBook WITH
  stamps <- Stamps({"open", "complete"}),
  coffees <- Cardinality({c \in Cards : card[c].status = "redeemed"})
BookSpec == Book!Spec
=============================================================================
