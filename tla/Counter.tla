------------------------------ MODULE Counter ------------------------------
(***************************************************************************)
(* The counter: the chat of a barista with the staff bot (app/bots/staff). *)
(* The dispatcher runs the handlers of one chat concurrently, and each     *)
(* keeps what it read across its awaits: the state and the data of the     *)
(* conversation live in Redis, read and written by separate commands, the  *)
(* data as a whole.  What a handler does in the database is one            *)
(* transaction here; the other modules look inside.                        *)
(***************************************************************************)
EXTENDS Integers, Sequences, FiniteSets, Functions

CONSTANTS
  Tasks,       \* updates of the chat that are handled at the same time
  Staff,
  Branches,
  BranchesOf,  \* staff_branches
  Customers,
  Coffees,     \* complete loyalty cards
  Packages,    \* prepaid packages, of one unit
  OwnerOf,     \* of a card or a package
  Members,     \* customers with a deposit
  Bills,       \* purchases on record that could be refunded
  NoOne

Goods == Coffees \cup Packages

ASSUME CounterAssumption ==
  /\ BranchesOf \in [Staff -> SUBSET Branches]
  /\ OwnerOf \in [Goods -> Customers]
  /\ Coffees \cap Packages = {}
  /\ NoOne \notin Staff \cup Branches \cup Customers \cup Goods \cup Bills

VARIABLES
  state,     \* FSM state of the chat
  data,      \* FSM data of the chat
  shown,     \* the buttons that messages of the chat offer
  task,      \* the updates being handled
  vip,       \* customers with an active deposit
  usedBy,    \* the customer of the transaction that used a card or package
  reversed   \* bills that have been refunded

db == <<vip, usedBy, reversed>>
vars == <<state, data, shown, task, db>>

-----------------------------------------------------------------------------
(* The conversation *)

States == {"none", "pin", "branch", "idle", "finding", "active",
           "qty", "amount", "tx", "reason", "confirm"}

NoData == [staff |-> NoOne, branch |-> NoOne, customer |-> NoOne,
           card |-> NoOne, bill |-> NoOne]

\* The filters: the states in which an update reaches its handler.  on_pin
\* takes every text, also the button that ends the shift.
In ==
  [start |-> States, pin |-> {"pin"}, cancel_pin |-> {"pin"}, branch |-> {"branch"},
   logout |-> States \ {"pin"},
   find |-> {"idle"}, cancel_find |-> {"finding"}, lookup |-> {"finding"},
   add |-> {"active"}, vip_yes |-> {"active"}, free |-> {"active"}, free_card |-> {"active"},
   free_yes |-> {"active"}, free_no |-> {"active"}, prepaid |-> {"active"},
   prep_pkg |-> {"active"}, done |-> {"active"},
   open |-> {"active"}, qty |-> {"qty"}, cancel_qty |-> {"qty"},
   amount |-> {"amount"}, cancel_amount |-> {"amount"},
   refund |-> {"idle"}, tx |-> {"tx"}, cancel_tx |-> {"tx"}, reason |-> {"reason"},
   confirm |-> {"confirm"}, refund_no |-> {"confirm"}]

\* What a handler awaits, as far as it is settled when it starts: get_data,
\* the database, set_data, or set_state with the state it names.
Plan ==
  [start |-> <<"work">>, pin |-> <<"work">>, cancel_pin |-> <<"none", "wipe">>,
   branch |-> <<"get", "put", "idle">>, logout |-> <<"none", "wipe">>,
   find |-> <<"finding">>, cancel_find |-> <<"idle">>,
   lookup |-> <<"work">>,
   add |-> <<"get", "work">>, vip_yes |-> <<"get", "work">>, free |-> <<"get", "work">>,
   free_card |-> <<"get", "put">>, free_yes |-> <<"get", "work">>, free_no |-> <<"get">>,
   prepaid |-> <<"get", "work">>, prep_pkg |-> <<"get", "work">>, done |-> <<"idle">>,
   open |-> <<"qty">>, qty |-> <<"get", "put", "amount">>, cancel_qty |-> <<"active">>,
   amount |-> <<"get", "work">>, cancel_amount |-> <<"active">>,
   refund |-> <<"tx">>, tx |-> <<"work">>, cancel_tx |-> <<"idle">>,
   reason |-> <<"get", "put", "confirm">>,
   confirm |-> <<"get", "work">>, refund_no |-> <<"idle">>]

\* The data without which a handler ends in a KeyError.
Needs ==
  [h \in DOMAIN Plan |->
     CASE h \in {"add", "free_yes", "prep_pkg", "amount"} -> {"staff", "branch", "customer"}
       [] h = "vip_yes" -> {"staff", "customer"}
       [] h \in {"free", "prepaid"} -> {"customer"}
       [] h = "confirm" -> {"staff", "branch", "bill"}
       [] OTHER -> {}]

\* What can come with an update: a button that a message offers, or a text.
Arguments(h) ==
  CASE h = "pin" -> Staff
    [] h = "branch" -> shown \cap Branches
    [] h = "lookup" -> Customers \cup {NoOne}
    [] h = "vip_yes" -> shown \cap Members  \* the prompt follows a button of theirs
    [] h = "free_card" -> shown \cap Coffees
    [] h = "prep_pkg" -> shown \cap Packages
    [] h = "free_yes" -> shown \cap {"yes"}
    [] h = "tx" -> Bills
    [] OTHER -> {NoOne}

-----------------------------------------------------------------------------
(* What the transactions select *)

Unused(c, kind) == {g \in kind : OwnerOf[g] = c /\ usedBy[g] = NoOne}

\* redeem_free_coffee: the card that was picked, or one of the customer's;
\* consume_one: the package that was picked.
AnyonesCard(c, card) ==  \* mutant: no filter on user_id
  IF card = NoOne THEN Unused(c, Coffees) ELSE {g \in {card} : usedBy[g] = NoOne}
Redeemable(c, card) == Unused(c, Coffees) \cap (IF card = NoOne THEN Coffees ELSE {card})
Consumable(c, package) == Unused(c, Packages) \cap {package}

-----------------------------------------------------------------------------
\* A task: the handler, what came with the update, the awaits ahead, and the
\* data as the handler has read and edited them.
Idle == [handler |-> "start", arg |-> NoOne, todo |-> <<>>, copy |-> NoData]

Init ==
  /\ state = "none" /\ data = NoData /\ shown = {}
  /\ task = [t \in Tasks |-> Idle]
  /\ vip = Members
  /\ usedBy = [g \in Goods |-> NoOne]
  /\ reversed = {}

Awaits(t, step) == task[t].todo # <<>> /\ Head(task[t].todo) = step
Doing(t, h) == Awaits(t, "work") /\ task[t].handler = h
Rest(t) == Tail(task[t].todo)

\* The task goes on with these steps and these data.  Once it has but set_state
\* and clear ahead, nothing else of it matters; without any step it is over.
Job(h, a, steps, d) ==
  IF Range(steps) \cap {"get", "work", "put"} = {} THEN [Idle EXCEPT !.todo = steps]
  ELSE [handler |-> h, arg |-> a, todo |-> steps, copy |-> d]

Continue(t, steps, d) ==
  task' = [task EXCEPT ![t] = Job(task[t].handler, task[t].arg, steps, d)]

End(t) == Continue(t, <<>>, NoData)
Show(buttons) == shown' = shown \cup buttons

-----------------------------------------------------------------------------
(* The steps of a handler in Redis *)

Receive(t, h) ==
  /\ task[t].todo = <<>> /\ state \in In[h]
  /\ \E a \in Arguments(h) :
       task' = [task EXCEPT ![t] = Job(h, a, Plan[h], NoData)]
  /\ UNCHANGED <<state, data, shown, db>>

\* get_data, and the edit that a handler makes before it awaits again; of
\* those that write nothing back, what they use.
Edited(h, a) ==
  CASE h = "branch" -> [data EXCEPT !.branch = a]
    [] h = "lookup" -> [data EXCEPT !.customer = a]
    [] h = "free_card" -> [data EXCEPT !.card = a]
    [] h = "free_no" -> [data EXCEPT !.card = NoOne]
    [] h = "tx" -> [data EXCEPT !.bill = a]
    [] h \in {"free", "free_yes", "qty", "reason"} -> data
    [] h = "confirm" -> [NoData EXCEPT !.bill = data.bill]
    [] OTHER -> [NoData EXCEPT !.customer = data.customer]

KeyError(h) == \E field \in Needs[h] : data[field] = NoOne

Get(t) ==
  LET h == task[t].handler IN
  /\ Awaits(t, "get")
  /\ \/ KeyError(h) /\ End(t)
     \/ /\ ~KeyError(h)
        /\ Continue(t, IF h = "free_no" /\ data.card # NoOne THEN <<"put">> ELSE Rest(t),
                    Edited(h, task[t].arg))
  /\ UNCHANGED <<state, data, shown, db>>

\* set_data replaces the whole dictionary; the prompt to confirm follows, or the
\* buttons for the customer, with the deposit of a member.
Offered(h, c) ==
  CASE h \in {"free", "free_card"} -> {"yes"}
    [] h = "lookup" -> {c} \cap vip
    [] OTHER -> {}

Put(t) ==
  /\ Awaits(t, "put")
  /\ data' = task[t].copy
  /\ Continue(t, Rest(t), task[t].copy)
  /\ Show(Offered(task[t].handler, task[t].copy.customer))
  /\ UNCHANGED <<state, db>>

\* clear() is set_state(None), then set_data({}).
Wipe(t) ==
  /\ Awaits(t, "wipe")
  /\ data' = NoData
  /\ End(t)
  /\ UNCHANGED <<state, shown, db>>

Move(t) ==
  /\ task[t].todo # <<>> /\ Head(task[t].todo) \in States
  /\ state' = Head(task[t].todo)
  /\ Continue(t, Rest(t), task[t].copy)
  /\ UNCHANGED <<data, shown, db>>

-----------------------------------------------------------------------------
(* Shifts: auth.py and auth_service.py *)

\* Where a shift goes from here: without a branch nowhere, with one it opens,
\* with more the barista picks.
OpenShift(t, s, without) ==
  LET of == BranchesOf[s] IN
  /\ CASE of = {} -> Continue(t, without, NoData)
       [] Cardinality(of) = 1 ->
            Continue(t, <<"put", "idle">>, [NoData EXCEPT !.staff = s, !.branch = CHOOSE b \in of : TRUE])
       [] OTHER -> Continue(t, <<"put", "branch">>, [NoData EXCEPT !.staff = s])
  /\ Show(IF Cardinality(of) > 1 THEN of ELSE {})

\* on_start and on_pin.  Whether an active row of staff carries the account
\* already, and whose PIN it is, is left open here; the binding is in Crew.
OnStart(t) ==
  /\ Doing(t, "start")
  /\ \/ Continue(t, <<"pin">>, NoData) /\ UNCHANGED shown
     \/ \E s \in Staff : OpenShift(t, s, <<>>)
  /\ UNCHANGED <<state, data, db>>

OnPin(t) ==
  /\ Doing(t, "pin")
  /\ OpenShift(t, task[t].arg, <<"none", "wipe">>)
  /\ UNCHANGED <<state, data, db>>

-----------------------------------------------------------------------------
(* Customers: customer_lookup.py *)

\* on_find_input, once find_customer has come to a result.
OnFound(t) ==
  LET c == task[t].arg IN
  /\ Doing(t, "lookup")
  /\ IF c = NoOne THEN Continue(t, <<"idle">>, NoData)
     ELSE Continue(t, <<"get", "put", "active">>, NoData)
  /\ UNCHANGED <<state, data, shown, db>>

-----------------------------------------------------------------------------
(* Work at the counter: customer.py, prepaid.py and refund.py *)

\* What a handler still does once the transaction has failed.
AfterFailure(t) ==
  LET h == task[t].handler IN
  CASE h = "free_yes" -> IF task[t].copy.card = NoOne THEN {<<>>} ELSE {<<"put">>}
    [] h = "amount" -> {<<"active">>}
    [] h = "confirm" -> {<<"idle">>, <<>>}
    [] OTHER -> {<<>>}

WithoutCard(d) == [d EXCEPT !.card = NoOne]

\* A DomainError or any other exception; the transaction is rolled back.
Fail(t) ==
  /\ Awaits(t, "work")
  /\ \E steps \in AfterFailure(t) : Continue(t, steps, WithoutCard(task[t].copy))
  /\ UNCHANGED <<state, data, shown, db>>

\* A transaction is recorded for the customer of the data.
Sell(t, steps) ==
  /\ Continue(t, steps, WithoutCard(task[t].copy))
  /\ UNCHANGED <<state, data>>

Use(t, g) == usedBy' = [usedBy EXCEPT ![g] = task[t].copy.customer]

\* on_add_product, and on_amount, which sells a package.
OnAdd(t) == Doing(t, "add") /\ Sell(t, <<>>) /\ UNCHANGED <<shown, vip, usedBy, reversed>>
OnAmount(t) == Doing(t, "amount") /\ Sell(t, <<"active">>) /\ UNCHANGED <<shown, vip, usedBy, reversed>>

OnVipCancel(t) ==
  /\ Doing(t, "vip_yes")
  /\ vip' = vip \ {task[t].copy.customer}
  /\ End(t)
  /\ UNCHANGED <<state, data, shown, usedBy, reversed>>

\* on_free: no card, one that is confirmed next, or several to pick from.
OnFree(t) ==
  LET cards == Unused(task[t].copy.customer, Coffees) IN
  /\ Doing(t, "free")
  /\ IF Cardinality(cards) = 1
     THEN Continue(t, <<"put">>, [task[t].copy EXCEPT !.card = CHOOSE g \in cards : TRUE]) /\ UNCHANGED shown
     ELSE End(t) /\ Show(cards)
  /\ UNCHANGED <<state, data, db>>

\* on_free_confirm; the pending card is dropped in any case.
OnFreeYes(t) ==
  LET d == task[t].copy IN
  /\ Doing(t, "free_yes")
  /\ \E g \in Redeemable(d.customer, d.card) : Use(t, g)
  /\ Sell(t, IF d.card = NoOne THEN <<>> ELSE <<"put">>)
  /\ UNCHANGED <<shown, vip, reversed>>

\* on_prepaid: a single package is debited at once, the data read again.
OnPrepaid(t) ==
  LET packages == Unused(task[t].copy.customer, Packages) IN
  /\ Doing(t, "prepaid")
  /\ IF Cardinality(packages) = 1
     THEN /\ task' = [task EXCEPT ![t] =
                       Job("prep_pkg", CHOOSE g \in packages : TRUE, Plan["prep_pkg"], NoData)]
          /\ UNCHANGED shown
     ELSE End(t) /\ Show(packages)
  /\ UNCHANGED <<state, data, db>>

\* _consume_prepaid.
OnConsume(t) ==
  /\ Doing(t, "prep_pkg")
  /\ \E g \in Consumable(task[t].copy.customer, task[t].arg) : Use(t, g)
  /\ Sell(t, <<>>)
  /\ UNCHANGED <<shown, vip, reversed>>

\* on_tx_input, then on_confirm_yes.
OnExamine(t) ==
  LET b == task[t].arg IN
  /\ Doing(t, "tx")
  /\ Continue(t, IF b \in reversed THEN <<"idle">> ELSE <<"get", "put", "reason">>, NoData)
  /\ UNCHANGED <<state, data, shown, db>>

OnConfirm(t) ==
  /\ Doing(t, "confirm") /\ task[t].copy.bill \notin reversed
  /\ reversed' = reversed \cup {task[t].copy.bill}
  /\ Continue(t, <<"idle">>, task[t].copy)
  /\ UNCHANGED <<state, data, shown, vip, usedBy>>

-----------------------------------------------------------------------------
\* The bot process stops in the middle.
Crash ==
  /\ task' = [t \in Tasks |-> Idle]
  /\ UNCHANGED <<state, data, shown, db>>

Handle(t) ==
  \/ \E h \in DOMAIN Plan : Receive(t, h)
  \/ Get(t) \/ Put(t) \/ Wipe(t) \/ Move(t) \/ Fail(t)
  \/ OnStart(t) \/ OnPin(t) \/ OnFound(t) \/ OnAdd(t) \/ OnVipCancel(t) \/ OnFree(t)
  \/ OnFreeYes(t) \/ OnPrepaid(t) \/ OnConsume(t) \/ OnAmount(t) \/ OnExamine(t) \/ OnConfirm(t)

Next ==
  \/ \E t \in Tasks : Handle(t)
  \/ Crash

Spec == Init /\ [][Next]_vars

-----------------------------------------------------------------------------
(* What makes it correct *)

\* Buttons outlive the customer they were offered for, and the card to redeem
\* waits in data that another handler may write back: whatever is pressed and
\* in whatever order it arrives, a card or a package is used up only by a
\* transaction of the customer it belongs to.
OwnGoods == \A g \in Goods : usedBy[g] \in {NoOne, OwnerOf[g]}
=============================================================================
