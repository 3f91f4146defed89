---------------------------- MODULE PanelProofs ----------------------------
(***************************************************************************)
(* The safety of what staff work with, the panel with its forms and the    *)
(* rows of staff, and the counter, for any number of rows, requests,       *)
(* accounts and forms, of updates of the chat, customers and goods.        *)
(***************************************************************************)
EXTENDS Panel, FiniteSetTheorems, TLAPS

\* The counter is a program of its own: its parameters and its state.
CONSTANTS Tasks, Staff, Branches, BranchesOf, Customers, Coffees, Packages, OwnerOf,
          Members, Bills, NoOne
VARIABLES state, data, shown, task, vip, usedBy, reversed

Chat == INSTANCE Counter

There(k) == k \notin {None, Erased}

\* No two rows that are there share a username or an account.
Apart(rows) ==
  \A s, o \in Ids :
    /\ There(rows[s]) /\ There(rows[o])
    /\ rows[s].name = rows[o].name \/ (rows[s].chat # None /\ rows[s].chat = rows[o].chat)
    => s = o

StaffOK ==
  /\ staff \in [Ids -> StaffRows \cup {None, Erased}]
  /\ Apart(staff)
  /\ worked \subseteq Rows

\* What a request carries, and what has happened to its form.
Fits(k, forms) ==
  /\ k.todo = "create" => k.name \in Names /\ k.role \in DOMAIN Roles /\ k.pin \in Pins \cup {None}
  /\ k.todo = "edit" => k.name \subseteq Names /\ k.role \subseteq DOMAIN Roles /\ k.pin \subseteq Pins \cup {None}
  /\ k.todo = "bind" => k.chat \in Chats
  /\ k.todo \in {"apply", "replay", "tell"} => k.form \in Forms
  /\ k.todo \in {"replay", "tell"} => forms[k.form].effects > 0
  /\ k.todo = "replay" => k.form \in Replays
  /\ k.todo = "tell" => k.form \in Tells

RequestsOK ==
  /\ DOMAIN request = Requests
  /\ \A r \in Requests : Fits(request[r], form)

FormRows == [clicks : Nat, effects : Nat, audits : Nat, told : Nat]

\* The row of a form while that many posts are about to be recorded or audited, and
\* that many messages to be sent.
Book(f, k, posts, tells) ==
  /\ k.effects <= 1
  /\ k.effects > 0 <=> k.audits > 0
  /\ k.audits + posts <= k.clicks
  /\ f \notin Replays => k.audits = k.effects
  /\ k.told + tells <= IF f \in Tells THEN k.audits ELSE 0

FormsOK ==
  /\ form \in [Forms -> FormRows]
  /\ \A f \in Forms : Book(f, form[f], Cardinality(Doing(f, Posts)), Cardinality(Doing(f, {"tell"})))

PanelInv == StaffOK /\ RequestsOK /\ FormsOK

-----------------------------------------------------------------------------
(* Requests and forms *)

EffectsStay == \A f \in Forms : form[f].effects > 0 => form'[f].effects > 0

LEMMA NothingFits == \A forms : Fits(NoRequest, forms)
BY DEF NoRequest, Fits

LEMMA FitsStays ==
  ASSUME EffectsStay, NEW k, Fits(k, form)
  PROVE  Fits(k, form')
BY DEF EffectsStay, Fits

LEMMA OneRequest ==
  ASSUME RequestsOK, EffectsStay, NEW r \in Requests, NEW k, Fits(k, form'),
         request' = [request EXCEPT ![r] = k]
  PROVE  RequestsOK'
<1>1. DOMAIN request' = Requests
  BY DEF RequestsOK
<1>2. ASSUME NEW t \in Requests PROVE Fits(request'[t], form')
  <2>1. Fits(request[t], form')
    BY FitsStays DEF RequestsOK
  <2>2. request'[t] = k \/ request'[t] = request[t]
    BY DEF RequestsOK
  <2>3. QED
    BY <2>1, <2>2
<1>3. QED
  BY <1>1, <1>2 DEF RequestsOK

LEMMA RequestsKept ==
  ASSUME RequestsOK, EffectsStay, UNCHANGED request
  PROVE  RequestsOK'
<1>1. ASSUME NEW t \in Requests PROVE Fits(request[t], form')
  BY FitsStays DEF RequestsOK
<1>2. QED
  BY <1>1 DEF RequestsOK

-----------------------------------------------------------------------------
(* What is under way for each form *)

Busy(req, f, todo) == {r \in Requests : req[r].todo \in todo /\ req[r].form = f}
Weight(k, f, todo) == IF k.todo \in todo /\ k.form = f THEN 1 ELSE 0

\* A request that turns from i to j leaves the row of a form that turns from a to b as it
\* should be, whatever the other requests are about to do.
Carries(f, i, a, j, b) ==
  \A p, t \in Nat : Book(f, a, p + Weight(i, f, Posts), t + Weight(i, f, {"tell"}))
                    => Book(f, b, p + Weight(j, f, Posts), t + Weight(j, f, {"tell"}))

\* A request counts for one, or for none, among those that are busy with a form.
LEMMA OneOfThem ==
  ASSUME NEW req, NEW r \in Requests, NEW f, NEW todo
  PROVE  LET rest == Busy(req, f, todo) \ {r} IN
         /\ Cardinality(rest) \in Nat
         /\ Cardinality(Busy(req, f, todo)) = Cardinality(rest) + Weight(req[r], f, todo)
<1> DEFINE all == Busy(req, f, todo)  rest == all \ {r}
<1>1. IsFiniteSet(all) /\ all \subseteq Requests
  BY CrewAssumption, FS_Subset DEF Busy
<1>2. IsFiniteSet(rest)
  BY <1>1, FS_Subset
<1>3. Cardinality(all) \in Nat /\ Cardinality(rest) \in Nat
  BY <1>1, <1>2, FS_CardinalityType
<1>4. CASE r \in all
  <2>1. Cardinality(rest) = Cardinality(all) - 1
    BY <1>1, <1>4, FS_RemoveElement
  <2>2. Weight(req[r], f, todo) = 1
    BY <1>4 DEF Busy, Weight
  <2> HIDE DEF all, rest
  <2>3. QED
    BY <1>3, <2>1, <2>2 DEF all, rest
<1>5. CASE r \notin all
  <2>1. rest = all
    BY <1>5
  <2>2. Weight(req[r], f, todo) = 0
    BY <1>5 DEF Busy, Weight
  <2> HIDE DEF all, rest
  <2>3. QED
    BY <1>3, <2>1, <2>2 DEF all, rest
<1>6. QED
  BY <1>4, <1>5

\* A step of one request, seen from each form.
LEMMA FormsMove ==
  ASSUME FormsOK, DOMAIN request = Requests, NEW r \in Requests, NEW j,
         request' = [request EXCEPT ![r] = j],
         form' \in [Forms -> FormRows],
         \A f \in Forms : Carries(f, request[r], form[f], j, form'[f])
  PROVE  FormsOK'
<1>1. ASSUME NEW f \in Forms, NEW todo
      PROVE  \E n \in Nat : /\ Cardinality(Busy(request, f, todo)) = n + Weight(request[r], f, todo)
                            /\ Cardinality(Busy(request', f, todo)) = n + Weight(j, f, todo)
  <2>1. Busy(request, f, todo) \ {r} = Busy(request', f, todo) \ {r}
    BY DEF Busy
  <2>2. request'[r] = j
    OBVIOUS
  <2>3. /\ Cardinality(Busy(request, f, todo) \ {r}) \in Nat
        /\ Cardinality(Busy(request, f, todo))
           = Cardinality(Busy(request, f, todo) \ {r}) + Weight(request[r], f, todo)
    BY OneOfThem
  <2>4. Cardinality(Busy(request', f, todo))
        = Cardinality(Busy(request', f, todo) \ {r}) + Weight(request'[r], f, todo)
    <3>1. PICK after : after = request'
      OBVIOUS
    <3>2. Cardinality(Busy(after, f, todo))
          = Cardinality(Busy(after, f, todo) \ {r}) + Weight(after[r], f, todo)
      BY OneOfThem
    <3>3. QED
      BY <3>1, <3>2
  <2>5. QED
    BY <2>1, <2>2, <2>3, <2>4
<1>2. ASSUME NEW f \in Forms
      PROVE  Book(f, form'[f], Cardinality(Busy(request', f, Posts)), Cardinality(Busy(request', f, {"tell"})))
  <2>1. PICK p \in Nat : /\ Cardinality(Busy(request, f, Posts)) = p + Weight(request[r], f, Posts)
                         /\ Cardinality(Busy(request', f, Posts)) = p + Weight(j, f, Posts)
    BY <1>1
  <2>2. PICK t \in Nat : /\ Cardinality(Busy(request, f, {"tell"})) = t + Weight(request[r], f, {"tell"})
                         /\ Cardinality(Busy(request', f, {"tell"})) = t + Weight(j, f, {"tell"})
    BY <1>1
  <2>3. Book(f, form[f], Cardinality(Busy(request, f, Posts)), Cardinality(Busy(request, f, {"tell"})))
    BY DEF FormsOK, Doing, Busy
  <2>4. QED
    BY <2>1, <2>2, <2>3 DEF Carries
<1>3. QED
  BY <1>2 DEF FormsOK, Doing, Busy, Posts

LEMMA Weights ==
  ASSUME NEW k, NEW f, NEW todo
  PROVE  Weight(k, f, todo) \in {0, 1}
BY DEF Weight

LEMMA Weightless ==
  ASSUME NEW k, k.todo \notin {"apply", "replay", "tell"}, NEW f
  PROVE  Weight(k, f, Posts) = 0 /\ Weight(k, f, {"tell"}) = 0
BY DEF Weight, Posts

\* Less under way leaves a row as it should be.
LEMMA BookEases ==
  ASSUME NEW f, NEW k \in FormRows, NEW p \in Nat, NEW t \in Nat,
         NEW a \in {0, 1}, NEW b \in {0, 1}, Book(f, k, p + a, t + b)
  PROVE  Book(f, k, p, t)
BY DEF Book, FormRows

\* A request that turns to something else than a form.
LEMMA TurnsAway ==
  ASSUME FormsOK, RequestsOK, UNCHANGED form, NEW r \in Requests, NEW j,
         j.todo \notin {"apply", "replay", "tell"}, Fits(j, form),
         request' = [request EXCEPT ![r] = j]
  PROVE  FormsOK' /\ RequestsOK'
<1>1. ASSUME NEW f \in Forms, NEW p \in Nat, NEW t \in Nat,
             Book(f, form[f], p + Weight(request[r], f, Posts), t + Weight(request[r], f, {"tell"}))
      PROVE  Book(f, form'[f], p + Weight(j, f, Posts), t + Weight(j, f, {"tell"}))
  <2>1. Book(f, form[f], p, t)
    BY <1>1, Weights, BookEases DEF FormsOK
  <2>2. p + Weight(j, f, Posts) = p /\ t + Weight(j, f, {"tell"}) = t
    BY Weightless
  <2>3. QED
    BY <2>1, <2>2
<1>2. EffectsStay /\ Fits(j, form')
  BY DEF EffectsStay
<1>3. FormsOK'
  BY <1>1, FormsMove DEF FormsOK, RequestsOK, Carries
<1>4. QED
  BY <1>2, <1>3, OneRequest

LEMMA FinishKeeps ==
  ASSUME FormsOK, RequestsOK, UNCHANGED form, NEW r \in Requests, Finish(r)
  PROVE  FormsOK' /\ RequestsOK'
<1>1. NoRequest.todo \notin {"apply", "replay", "tell"}
  BY DEF NoRequest
<1>2. QED
  BY <1>1, TurnsAway, NothingFits DEF Finish

LEMMA NothingMoves ==
  ASSUME FormsOK, RequestsOK, UNCHANGED <<form, request>>
  PROVE  FormsOK' /\ RequestsOK'
<1>1. EffectsStay
  BY DEF EffectsStay
<1>2. ASSUME NEW f \in Forms, NEW todo PROVE Busy(request', f, todo) = Busy(request, f, todo)
  BY DEF Busy
<1>3. ASSUME NEW f \in Forms
      PROVE  Book(f, form'[f], Cardinality(Busy(request', f, Posts)), Cardinality(Busy(request', f, {"tell"})))
  BY <1>2 DEF FormsOK, Doing, Busy
<1>4. FormsOK'
  BY <1>3 DEF FormsOK, Doing, Busy, Posts
<1>5. QED
  BY <1>1, <1>4, RequestsKept

-----------------------------------------------------------------------------
(* Rows of staff *)

\* An UPDATE, or the DELETE of somebody who has sold nothing, that takes no name and
\* no account that another row has.
LEMMA OneUpdate ==
  ASSUME StaffOK, NEW s, NEW new, NEW legal,
         Update(s, new, legal), UNCHANGED worked,
         s \in Rows /\ legal =>
           \/ new = Erased /\ s \notin worked
           \/ /\ new \in StaffRows
              /\ new.name = staff[s].name \/ NameFree(s, new.name)
              /\ new.chat = staff[s].chat \/ ChatFree(s, new.chat)
  PROVE  StaffOK'
<1>1. CASE ~(s \in Rows /\ legal)
  BY <1>1 DEF Update, StaffOK, Rows
<1>2. CASE s \in Rows /\ legal
  <2>1. /\ s \in Ids /\ There(staff[s]) /\ new # None
        /\ staff' = [staff EXCEPT ![s] = new]
    BY <1>2, CrewAssumption DEF Update, Rows, There
  <2>2. staff' \in [Ids -> StaffRows \cup {None, Erased}]
    BY <1>2, <2>1 DEF StaffOK
  <2>3. staff'[s] = new /\ \A o \in Ids \ {s} : staff'[o] = staff[o]
    BY <2>1 DEF StaffOK
  <2>4. ASSUME NEW o \in Ids, o # s, There(staff[o]), There(new)
        PROVE  new.name # staff[o].name /\ (new.chat # None => new.chat # staff[o].chat)
    <3>1. o \in Rows \ {s}
      BY <2>4 DEF Rows, There
    <3>2. /\ staff[s].name # staff[o].name
          /\ staff[s].chat # None => staff[s].chat # staff[o].chat
      BY <2>1, <2>4 DEF StaffOK, Apart
    <3>3. new.name # staff[o].name
      BY <1>2, <2>4, <3>1, <3>2 DEF NameFree, There
    <3>4. new.chat # None => new.chat # staff[o].chat
      BY <1>2, <2>4, <3>1, <3>2 DEF ChatFree, There
    <3>5. QED
      BY <3>3, <3>4
  <2>5. Apart(staff')
    <3> SUFFICES ASSUME NEW v \in Ids, NEW w \in Ids, There(staff'[v]), There(staff'[w]),
                        \/ staff'[v].name = staff'[w].name
                        \/ staff'[v].chat # None /\ staff'[v].chat = staff'[w].chat
                 PROVE  v = w
      BY DEF Apart
    <3>1. CASE v = s
      BY <2>3, <2>4, <3>1
    <3>2. CASE w = s
      BY <2>3, <2>4, <3>2
    <3>3. CASE v # s /\ w # s
      BY <2>3, <3>3 DEF StaffOK, Apart
    <3>4. QED
      BY <3>1, <3>2, <3>3
  <2>6. worked \subseteq Rows'
    BY <1>2, <2>1, <2>3, CrewAssumption DEF StaffOK, Rows
  <2>7. QED
    BY <2>2, <2>5, <2>6 DEF StaffOK
<1>3. QED
  BY <1>1, <1>2

LEMMA CreateStep ==
  ASSUME PanelInv, NEW r \in Requests, Create(r)
  PROVE  StaffOK'
<1> DEFINE k == request[r]
           new == [name |-> k.name, role |-> k.role, status |-> "active", pin |-> k.pin, chat |-> None]
<1>1. new \in StaffRows
  BY DEF Create, Is, PanelInv, RequestsOK, Fits, Roles, StaffRows
<1>2. new \notin {None, Erased}
  BY <1>1, CrewAssumption
<1>3. CASE UNCHANGED staff
  BY <1>3 DEF Create, PanelInv, StaffOK, Rows
<1>4. CASE NameFree(0, k.name)
           /\ \E s \in Ids : staff[s] = None /\ staff' = [staff EXCEPT ![s] = new]
  <2>1. PICK s \in Ids : staff[s] = None /\ staff' = [staff EXCEPT ![s] = new]
    BY <1>4
  <2>2. staff'[s] = new /\ \A o \in Ids \ {s} : staff'[o] = staff[o]
    BY <2>1 DEF PanelInv, StaffOK
  <2>3. staff' \in [Ids -> StaffRows \cup {None, Erased}]
    BY <1>1, <2>1 DEF PanelInv, StaffOK
  <2>4. ASSUME NEW o \in Ids, There(staff[o]) PROVE staff[o].name # k.name
    <3>1. o \in Rows /\ o # 0
      BY <2>4, CrewAssumption DEF Rows, There, Ids
    <3>2. QED
      BY <1>4, <3>1 DEF NameFree
  <2>5. Apart(staff')
    <3> SUFFICES ASSUME NEW v \in Ids, NEW w \in Ids, There(staff'[v]), There(staff'[w]),
                        \/ staff'[v].name = staff'[w].name
                        \/ staff'[v].chat # None /\ staff'[v].chat = staff'[w].chat
                 PROVE  v = w
      BY DEF Apart
    <3>1. CASE v = s
      BY <2>2, <2>4, <3>1
    <3>2. CASE w = s
      BY <2>2, <2>4, <3>2
    <3>3. CASE v # s /\ w # s
      BY <2>2, <3>3 DEF PanelInv, StaffOK, Apart
    <3>4. QED
      BY <3>1, <3>2, <3>3
  <2>6. worked' \subseteq Rows'
    BY <1>2, <2>1, <2>2 DEF Create, PanelInv, StaffOK, Rows
  <2>7. QED
    BY <2>3, <2>5, <2>6 DEF StaffOK
<1>5. QED
  BY <1>3, <1>4 DEF Create

LEMMA WrittenIn ==
  ASSUME NEW S, NEW old \in S, NEW values, values \subseteq S
  PROVE  Written(old, values) \in S
BY DEF Written

LEMMA EditStep ==
  ASSUME PanelInv, NEW r \in Requests, Edit(r)
  PROVE  StaffOK'
<1> DEFINE k == request[r]  s == k.id
           legal == \A n \in k.name : NameFree(s, n)
           name == Written(staff[s].name, k.name)
           role == Written(staff[s].role, k.role)
           pin == Written(staff[s].pin, k.pin)
<1>1. Update(s, Edited(staff[s], k), legal) /\ UNCHANGED worked
  BY DEF Edit
<1>2. ASSUME s \in Rows, legal
      PROVE  /\ Edited(staff[s], k) \in StaffRows
             /\ Edited(staff[s], k).chat = staff[s].chat
             /\ Edited(staff[s], k).name = name
  <2>1. staff[s] \in StaffRows
    BY <1>2 DEF PanelInv, StaffOK, Rows
  <2>2. /\ staff[s].name \in Names /\ k.name \subseteq Names
        /\ staff[s].role \in {"owner", "barista"} /\ k.role \subseteq {"owner", "barista"}
        /\ staff[s].pin \in Pins \cup {None} /\ k.pin \subseteq Pins \cup {None}
    BY <2>1 DEF Edit, Is, PanelInv, RequestsOK, Fits, Roles, StaffRows
  <2>3. name \in Names
    BY <2>2, WrittenIn
  <2>4. role \in {"owner", "barista"}
    <3> HIDE DEF k, s
    <3>1. QED
      BY <2>2, WrittenIn
  <2>5. pin \in Pins \cup {None}
    <3> HIDE DEF k, s
    <3>1. QED
      BY <2>2, WrittenIn
  <2>6. Edited(staff[s], k) = [staff[s] EXCEPT !.name = name, !.role = role, !.pin = pin]
    BY <2>1 DEF Edited, StaffRows
  <2> HIDE DEF name, role, pin
  <2>7. [staff[s] EXCEPT !.name = name] \in StaffRows
    BY <2>1, <2>3 DEF StaffRows
  <2>8. QED
    BY <2>1, <2>3, <2>4, <2>5, <2>6 DEF StaffRows
<1>3. ASSUME s \in Rows, legal
      PROVE  name = staff[s].name \/ NameFree(s, name)
  BY <1>3 DEF Written
<1> HIDE DEF s, legal, name
<1>4. QED
  BY <1>1, <1>2, <1>3, OneUpdate DEF PanelInv

LEMMA RemovalSteps ==
  ASSUME PanelInv, NEW r \in Requests, Mark(r) \/ Remove(r)
  PROVE  StaffOK'
<1> DEFINE s == request[r].id
           new == [staff[s] EXCEPT !.status = "left"]
<1>1. CASE Mark(r)
  <2>1. Update(s, new, TRUE) /\ UNCHANGED worked
    BY <1>1 DEF Mark
  <2>2. ASSUME s \in Rows
        PROVE  new \in StaffRows /\ new.name = staff[s].name /\ new.chat = staff[s].chat
    BY <2>2 DEF PanelInv, StaffOK, Rows, StaffRows
  <2> HIDE DEF new, s
  <2>3. QED
    BY <2>1, <2>2, OneUpdate DEF PanelInv
<1>2. CASE Remove(r)
  <2>1. Update(s, Erased, ~Referenced(s)) /\ UNCHANGED worked
    BY <1>2 DEF Remove
  <2> HIDE DEF s
  <2>2. QED
    BY <2>1, OneUpdate DEF PanelInv, Referenced
<1>3. QED
  BY <1>1, <1>2

LEMMA BindStep ==
  ASSUME PanelInv, NEW r \in Requests, Bind(r)
  PROVE  StaffOK'
<1> DEFINE s == request[r].id  g == request[r].chat
           new == [staff[s] EXCEPT !.chat = g]
<1>1. Update(s, new, s \in Rows /\ ChatFree(s, g)) /\ UNCHANGED worked /\ g \in Chats
  BY DEF Bind, Is, PanelInv, RequestsOK, Fits
<1>2. ASSUME s \in Rows
      PROVE  new \in StaffRows /\ new.name = staff[s].name /\ new.chat = g
  BY <1>1, <1>2 DEF PanelInv, StaffOK, Rows, StaffRows
<1> HIDE DEF new, s, g
<1>3. QED
  BY <1>1, <1>2, OneUpdate DEF PanelInv

LEMMA StaffKept ==
  ASSUME StaffOK, UNCHANGED staff, worked' \subseteq worked \cup Rows
  PROVE  StaffOK'
BY DEF StaffOK, Rows

-----------------------------------------------------------------------------
(* The steps *)

LEMMA CrewSteps ==
  ASSUME PanelInv, CrewNext, UNCHANGED form
  PROVE  PanelInv'
<1>1. ASSUME NEW r \in Requests, NEW k, Begin(r, k), Fits(k, form), k.todo \notin {"apply", "replay", "tell"}
      PROVE  PanelInv'
  BY <1>1, TurnsAway, StaffKept DEF Begin, PanelInv
<1>2. ASSUME NEW r \in Requests, NEW n \in Names, AskNew(r, n) PROVE PanelInv'
  BY <1>1, <1>2 DEF AskNew, Fits, Roles
<1>3. ASSUME NEW r \in Requests, NEW s \in Rows, AskEdit(r, s) PROVE PanelInv'
  <2>1. PICK role \in DOMAIN Roles, p \in Pins \cup {None}, n \in Names :
          Begin(r, [todo |-> "edit", id |-> s,
                    name |-> {n} \ {staff[s].name}, role |-> {role} \ {staff[s].role},
                    pin |-> IF role = "owner" THEN {None} \ {staff[s].pin} ELSE {p} \ {None}])
    BY <1>3 DEF AskEdit
  <2>2. QED
    BY <1>1, <2>1 DEF Fits
<1>4. ASSUME NEW r \in Requests, NEW s \in Rows, AskRemove(r, s) PROVE PanelInv'
  BY <1>1, <1>4 DEF AskRemove, Fits
<1>5. ASSUME NEW r \in Requests, NEW g \in Chats, Pin(r, g) PROVE PanelInv'
  <2>1. CASE UNCHANGED <<staff, worked, request>>
    BY <2>1, NothingMoves, StaffKept DEF PanelInv
  <2>2. ASSUME NEW s, Begin(r, [todo |-> "bind", id |-> s, chat |-> g]) PROVE PanelInv'
    BY <1>1, <2>2 DEF Fits
  <2>3. QED
    BY <1>5, <2>1, <2>2 DEF Pin
<1>6. ASSUME NEW r \in Requests, Create(r) \/ Edit(r) \/ Mark(r) \/ Remove(r) \/ Bind(r) \/ Fail(r)
      PROVE  PanelInv'
  <2>1. Finish(r)
    BY <1>6 DEF Create, Edit, Mark, Remove, Bind, Fail
  <2>2. StaffOK'
    BY <1>6, CreateStep, EditStep, RemovalSteps, BindStep, StaffKept DEF Fail, PanelInv
  <2>3. QED
    BY <2>1, <2>2, FinishKeeps DEF PanelInv
<1>7. ASSUME NEW g \in Chats, Start(g) \/ Logout(g) \/ Sell(g) PROVE PanelInv'
  <2>1. UNCHANGED <<staff, request>> /\ worked' \subseteq worked \cup Rows
    BY <1>7 DEF Start, Logout, Sell
  <2>2. QED
    BY <2>1, NothingMoves, StaffKept DEF PanelInv
<1>8. QED
  BY <1>2, <1>3, <1>4, <1>5, <1>6, <1>7 DEF CrewNext

\* A step of a request of one form, which changes the row of that form.
LEMMA OneForm ==
  ASSUME FormsOK, RequestsOK, NEW r \in Requests, NEW f \in Forms, NEW j, NEW k \in FormRows,
         request[r] = NoRequest \/ request[r].form = f,
         j = NoRequest \/ j.form = f,
         request' = [request EXCEPT ![r] = j], form' = [form EXCEPT ![f] = k],
         form[f].effects > 0 => k.effects > 0, Fits(j, form'),
         Carries(f, request[r], form[f], j, k)
  PROVE  FormsOK' /\ RequestsOK'
<1>1. form' \in [Forms -> FormRows] /\ EffectsStay
  BY DEF FormsOK, EffectsStay
<1>2. ASSUME NEW g \in Forms PROVE Carries(g, request[r], form[g], j, form'[g])
  <2>1. CASE g = f
    <3>1. form'[g] = k
      BY <2>1 DEF FormsOK
    <3>2. QED
      BY <2>1, <3>1
  <2>2. CASE g # f
    <3>1. form'[g] = form[g]
      BY <2>2 DEF FormsOK
    <3>2. ASSUME NEW i, i = NoRequest \/ i.form = f
          PROVE  Weight(i, g, Posts) = 0 /\ Weight(i, g, {"tell"}) = 0
      BY <2>2, <3>2 DEF Weight, NoRequest, Posts
    <3>3. /\ Weight(request[r], g, Posts) = 0 /\ Weight(request[r], g, {"tell"}) = 0
          /\ Weight(j, g, Posts) = 0 /\ Weight(j, g, {"tell"}) = 0
      BY <3>2
    <3>4. QED
      BY <3>1, <3>3 DEF Carries
  <2>3. QED
    BY <2>1, <2>2
<1>3. FormsOK'
  BY <1>1, <1>2, FormsMove DEF RequestsOK
<1>4. QED
  BY <1>1, <1>3, OneRequest

LEMMA SubmitStep ==
  ASSUME PanelInv, NEW r \in Requests, NEW f \in Forms, NEW by \in Owners, Submit(r, by, f)
  PROVE  PanelInv'
<1> DEFINE k == [form[f] EXCEPT !.clicks = @ + 1]
           job == [todo |-> IF f \in Replays /\ ~KeyFree(f) THEN "replay" ELSE "apply",
                   by |-> by, form |-> f]
<1>1. form[f] \in FormRows
  BY DEF PanelInv, FormsOK
<1>2. /\ k \in FormRows /\ k.clicks = form[f].clicks + 1 /\ k.effects = form[f].effects
      /\ k.audits = form[f].audits /\ k.told = form[f].told
  BY <1>1 DEF FormRows
<1>3. /\ request' = [request EXCEPT ![r] = job] /\ request[r] = NoRequest
      /\ form' = [form EXCEPT ![f] = k] /\ UNCHANGED <<staff, worked>>
  BY DEF Submit, Begin
<1>4. /\ Weight(NoRequest, f, Posts) = 0 /\ Weight(NoRequest, f, {"tell"}) = 0
      /\ Weight(job, f, Posts) = 1 /\ Weight(job, f, {"tell"}) = 0
  BY DEF Weight, NoRequest, Posts
<1> HIDE DEF k
<1>5. form'[f] = k
  BY <1>3 DEF PanelInv, FormsOK
<1>6. Fits(job, form') /\ job.form = f
  BY <1>1, <1>2, <1>5 DEF Fits, KeyFree, FormRows
<1> HIDE DEF job
<1>7. ASSUME NEW p \in Nat, NEW t \in Nat, Book(f, form[f], p + 0, t + 0)
      PROVE  Book(f, k, p + 1, t + 0)
  BY <1>1, <1>2, <1>7 DEF Book, FormRows
<1>8. Carries(f, request[r], form[f], job, k)
  BY <1>3, <1>4, <1>7 DEF Carries
<1>9. form[f].effects > 0 => k.effects > 0
  BY <1>2
<1>10. FormsOK' /\ RequestsOK'
  BY <1>2, <1>3, <1>6, <1>8, <1>9, OneForm DEF PanelInv
<1>11. QED
  BY <1>3, <1>10, StaffKept DEF PanelInv

\* What follows a commit that is audited: a message, or nothing.
LEMMA Follows ==
  ASSUME FormsOK, RequestsOK, NEW r \in Requests, NEW f \in Forms, NEW k \in FormRows,
         request[r].todo \in Posts, request[r].form = f, Then(r, f),
         form' = [form EXCEPT ![f] = k], k.effects = 1,
         form[f].effects = 1 \/ (form[f].effects = 0 /\ form[f].audits = 0),
         form[f].effects = 1 => f \in Replays,
         k.audits = form[f].audits + 1, k.told = form[f].told, k.clicks = form[f].clicks
  PROVE  FormsOK' /\ RequestsOK'
<1> DEFINE j == IF f \in Tells THEN [todo |-> "tell", form |-> f] ELSE NoRequest
           m == IF f \in Tells THEN 1 ELSE 0
<1>1. request' = [request EXCEPT ![r] = j] /\ (j = NoRequest \/ j.form = f)
  BY DEF Then
<1>2. /\ Weight(request[r], f, Posts) = 1 /\ Weight(request[r], f, {"tell"}) = 0
      /\ Weight(j, f, Posts) = 0 /\ Weight(j, f, {"tell"}) = m
  BY DEF Weight, NoRequest, Posts
<1>3. form'[f] = k /\ form[f] \in FormRows
  BY DEF FormsOK
<1>4. Fits(j, form')
  BY <1>3, NothingFits DEF Fits
<1> HIDE DEF j
<1>5. ASSUME NEW p \in Nat, NEW t \in Nat, Book(f, form[f], p + 1, t + 0)
      PROVE  Book(f, k, p + 0, t + m)
  BY <1>3, <1>5 DEF Book, FormRows
<1> HIDE DEF m
<1>6. Carries(f, request[r], form[f], j, k)
  BY <1>2, <1>5 DEF Carries
<1>7. form[f].effects > 0 => k.effects > 0
  OBVIOUS
<1>8. QED
  BY <1>1, <1>4, <1>6, <1>7, OneForm

LEMMA ApplyStep ==
  ASSUME PanelInv, NEW r \in Requests, Apply(r)
  PROVE  PanelInv'
<1> DEFINE f == request[r].form  by == request[r].by
           k == [form[f] EXCEPT !.effects = @ + 1, !.audits = @ + 1]
<1>1. f \in Forms /\ form[f] \in FormRows /\ request[r].todo \in Posts
  BY DEF Apply, Is, PanelInv, RequestsOK, Fits, FormsOK, Posts
<1>2. CASE KeyFree(f) /\ by \in Rows
  <2>1. Record(f) /\ worked' = worked \cup {by} /\ Then(r, f) /\ UNCHANGED staff
    BY <1>2 DEF Apply
  <2>2. form' = [form EXCEPT ![f] = k]
    BY <1>1, <2>1 DEF Record, PanelInv, FormsOK
  <2>3. form[f].effects = 0 /\ form[f].audits = 0 /\ form[f].effects # 1
    <3>1. form[f].effects = 0 /\ ~(form[f].audits > 0)
      BY <1>1, <1>2 DEF KeyFree, PanelInv, FormsOK, Book, FormRows
    <3>2. QED
      BY <1>1, <3>1 DEF FormRows
  <2>4. k \in FormRows /\ k.effects = 1 /\ k.audits = form[f].audits + 1
        /\ k.told = form[f].told /\ k.clicks = form[f].clicks
    <3> DEFINE i == [form[f] EXCEPT !.effects = @ + 1]
    <3>1. i \in FormRows /\ i.effects = 1 /\ i.audits = form[f].audits
          /\ i.told = form[f].told /\ i.clicks = form[f].clicks
      BY <1>1, <2>3 DEF FormRows
    <3>2. k = [i EXCEPT !.audits = @ + 1]
      BY <1>1 DEF FormRows
    <3> HIDE DEF i, k
    <3>3. QED
      BY <3>1, <3>2 DEF FormRows
  <2> HIDE DEF k, f
  <2>5. f = request[r].form
    BY DEF f
  <2>6. FormsOK' /\ RequestsOK'
    BY <1>1, <2>1, <2>2, <2>3, <2>4, <2>5, Follows DEF PanelInv
  <2>7. StaffOK'
    BY <1>2, <2>1, StaffKept DEF PanelInv
  <2>8. QED
    BY <2>6, <2>7 DEF PanelInv
<1>3. CASE Finish(r) /\ UNCHANGED <<worked, form, staff>>
  BY <1>3, FinishKeeps, StaffKept DEF PanelInv
<1>4. QED
  BY <1>2, <1>3 DEF Apply

LEMMA ReplayStep ==
  ASSUME PanelInv, NEW r \in Requests, Replay(r)
  PROVE  PanelInv'
<1> DEFINE f == request[r].form
           k == [form[f] EXCEPT !.audits = @ + 1]
<1>1. f \in Forms /\ form[f] \in FormRows /\ request[r].todo \in Posts
      /\ form[f].effects > 0 /\ f \in Replays
  BY DEF Replay, Is, PanelInv, RequestsOK, Fits, FormsOK, Posts
<1>2. form' = [form EXCEPT ![f] = k] /\ Then(r, f) /\ UNCHANGED <<staff, worked>>
  BY <1>1 DEF Replay, PanelInv, FormsOK
<1>3. form[f].effects = 1
  BY <1>1 DEF PanelInv, FormsOK, Book, FormRows
<1>4. k \in FormRows /\ k.effects = 1 /\ k.audits = form[f].audits + 1
      /\ k.told = form[f].told /\ k.clicks = form[f].clicks
  BY <1>1, <1>3 DEF FormRows
<1> HIDE DEF k, f
<1>5. f = request[r].form
  BY DEF f
<1>6. FormsOK' /\ RequestsOK'
  BY <1>1, <1>2, <1>3, <1>4, <1>5, Follows DEF PanelInv
<1>7. QED
  BY <1>2, <1>6, StaffKept DEF PanelInv

LEMMA TellStep ==
  ASSUME PanelInv, NEW r \in Requests, Tell(r)
  PROVE  PanelInv'
<1> DEFINE f == request[r].form
           k == [form[f] EXCEPT !.told = @ + 1]
<1>1. f \in Forms /\ form[f] \in FormRows /\ request[r].todo = "tell" /\ f \in Tells
  BY DEF Tell, Is, PanelInv, RequestsOK, Fits, FormsOK
<1>2. /\ form' = [form EXCEPT ![f] = k] /\ request' = [request EXCEPT ![r] = NoRequest]
      /\ UNCHANGED <<staff, worked>>
  BY <1>1 DEF Tell, Finish, PanelInv, FormsOK
<1>3. k \in FormRows /\ k.effects = form[f].effects /\ k.audits = form[f].audits
      /\ k.told = form[f].told + 1 /\ k.clicks = form[f].clicks
  BY <1>1 DEF FormRows
<1>4. /\ Weight(request[r], f, Posts) = 0 /\ Weight(request[r], f, {"tell"}) = 1
      /\ Weight(NoRequest, f, Posts) = 0 /\ Weight(NoRequest, f, {"tell"}) = 0
  BY <1>1 DEF Weight, NoRequest, Posts
<1> HIDE DEF k, f
<1>5. f = request[r].form
  BY DEF f
<1>6. ASSUME NEW p \in Nat, NEW t \in Nat, Book(f, form[f], p + 0, t + 1)
      PROVE  Book(f, k, p + 0, t + 0)
  BY <1>1, <1>3, <1>6 DEF Book, FormRows
<1>7. Carries(f, request[r], form[f], NoRequest, k)
  BY <1>4, <1>6 DEF Carries
<1>8. (form[f].effects > 0 => k.effects > 0) /\ Fits(NoRequest, form')
  BY <1>3, NothingFits
<1>9. FormsOK' /\ RequestsOK'
  BY <1>1, <1>2, <1>3, <1>5, <1>7, <1>8, OneForm DEF PanelInv
<1>10. QED
  BY <1>2, <1>9, StaffKept DEF PanelInv

LEMMA CrashStep ==
  ASSUME PanelInv, Crash
  PROVE  PanelInv'
<1>1. RequestsOK'
  BY NothingFits DEF Crash, RequestsOK
<1>2. ASSUME NEW f \in Forms
      PROVE  Book(f, form[f], 0, 0)
  <2>1. Cardinality(Doing(f, Posts)) \in Nat /\ Cardinality(Doing(f, {"tell"})) \in Nat
    BY CrewAssumption, FS_Subset, FS_CardinalityType DEF Doing
  <2>2. Book(f, form[f], Cardinality(Doing(f, Posts)), Cardinality(Doing(f, {"tell"})))
        /\ form[f] \in FormRows
    BY DEF PanelInv, FormsOK
  <2>3. QED
    BY <2>1, <2>2 DEF Book, FormRows
<1>3. ASSUME NEW f \in Forms, NEW todo \in {Posts, {"tell"}}
      PROVE  Cardinality(Busy(request', f, todo)) = 0
  <2>1. Busy(request', f, todo) = {}
    BY DEF Crash, Busy, NoRequest, Posts
  <2>2. QED
    BY <2>1, FS_EmptySet
<1>4. FormsOK'
  BY <1>2, <1>3 DEF Crash, PanelInv, FormsOK, Doing, Busy, Posts
<1>5. QED
  BY <1>1, <1>4, StaffKept DEF Crash, PanelInv

-----------------------------------------------------------------------------
(* Theorems *)

\* The invariant holds in every reachable state, for any number of rows, requests,
\* accounts, forms and clicks.
THEOREM PanelInvariant == Spec => []PanelInv
<1>1. Init => PanelInv
  <2> SUFFICES ASSUME Init PROVE PanelInv
    OBVIOUS
  <2>1. PICK n \in Names :
          staff = [s \in Ids |-> IF s = 1 THEN [name |-> n, role |-> "owner", status |-> "active",
                                                pin |-> None, chat |-> None]
                                 ELSE None]
    BY DEF Init, CrewInit
  <2>2. [name |-> n, role |-> "owner", status |-> "active", pin |-> None, chat |-> None] \in StaffRows
    BY DEF StaffRows
  <2>3. StaffOK
    BY <2>1, <2>2 DEF Init, CrewInit, StaffOK, Apart, There
  <2>4. RequestsOK
    BY NothingFits DEF Init, CrewInit, RequestsOK
  <2>5. FormsOK
    <3>1. ASSUME NEW f \in Forms, NEW todo \in {Posts, {"tell"}} PROVE Cardinality(Doing(f, todo)) = 0
      <4>1. Doing(f, todo) = {}
        BY DEF Init, CrewInit, Doing, NoRequest, Posts
      <4>2. QED
        BY <4>1, FS_EmptySet
    <3>2. QED
      BY <3>1 DEF Init, FormsOK, Book, FormRows
  <2>6. QED
    BY <2>3, <2>4, <2>5 DEF PanelInv
<1>2. PanelInv /\ [Next]_vars => PanelInv'
  <2> SUFFICES ASSUME PanelInv, [Next]_vars PROVE PanelInv'
    OBVIOUS
  <2>1. CASE Next
    BY <2>1, CrewSteps, SubmitStep, ApplyStep, ReplayStep, TellStep, CrashStep DEF Next
  <2>2. CASE UNCHANGED vars
    <3>1. UNCHANGED <<staff, worked, request, form>>
      BY <2>2 DEF vars, crewVars
    <3>2. QED
      BY <3>1, NothingMoves, StaffKept DEF PanelInv
  <2>3. QED
    BY <2>1, <2>2
<1>3. QED
  BY <1>1, <1>2, PTL DEF Spec

\* Whatever posts and PINs overlap, a login finds one row at most.
THEOREM LoginsFindOne == Spec => []LoginFindsOne
<1>1. PanelInv => LoginFindsOne
  BY DEF PanelInv, StaffOK, Apart, There, Rows, LoginFindsOne
<1>2. QED
  BY <1>1, PanelInvariant, PTL

\* No row of staff that a transaction names is ever deleted.
THEOREM AuthorsOnRecord == Spec => []AuthorsStay
<1>1. PanelInv => AuthorsStay
  BY DEF PanelInv, StaffOK, AuthorsStay
<1>2. QED
  BY <1>1, PanelInvariant, PTL

\* A form takes effect once at most, however often and by whomever it is posted.
THEOREM FormsOnce == Spec => []OncePerForm
<1>1. PanelInv => OncePerForm
  BY DEF PanelInv, FormsOK, Book, OncePerForm
<1>2. QED
  BY <1>1, PanelInvariant, PTL

\* For any number of forms of any kind, of posts of them and of crashes: what took effect
\* is audited and nothing else, no more rows are written than forms were posted, one at
\* most for a form without a replay, and no more messages are due than rows.
THEOREM LogsAreExact == Spec => []LogsAddUp
<1>1. PanelInv => LogsAddUp
  BY DEF PanelInv, FormsOK, Book, LogsAddUp
<1>2. QED
  BY <1>1, PanelInvariant, PTL

-----------------------------------------------------------------------------
(* The counter *)

UsesOK == DOMAIN usedBy = Chat!Goods /\ Chat!OwnGoods

LEMMA UseKeeps ==
  ASSUME UsesOK, NEW t, NEW g \in Chat!Goods, OwnerOf[g] = task[t].copy.customer, Chat!Use(t, g)
  PROVE  UsesOK'
BY DEF UsesOK, Chat!OwnGoods, Chat!Use

LEMMA UnusedKeeps ==
  ASSUME UsesOK, usedBy' = usedBy
  PROVE  UsesOK'
BY DEF UsesOK, Chat!OwnGoods

LEMMA HandlersKeep ==
  ASSUME UsesOK, NEW t \in Tasks, Chat!Handle(t)
  PROVE  UsesOK'
<1>1. CASE Chat!OnFreeYes(t)
  <2>1. PICK g \in Chat!Redeemable(task[t].copy.customer, task[t].copy.card) : Chat!Use(t, g)
    BY <1>1 DEF Chat!OnFreeYes
  <2>2. g \in Chat!Goods /\ OwnerOf[g] = task[t].copy.customer
    BY DEF Chat!Redeemable, Chat!Unused, Chat!Goods
  <2>3. QED
    BY <2>1, <2>2, UseKeeps
<1>2. CASE Chat!OnConsume(t)
  <2>1. PICK g \in Chat!Consumable(task[t].copy.customer, task[t].arg) : Chat!Use(t, g)
    BY <1>2 DEF Chat!OnConsume
  <2>2. g \in Chat!Goods /\ OwnerOf[g] = task[t].copy.customer
    BY DEF Chat!Consumable, Chat!Unused, Chat!Goods
  <2>3. QED
    BY <2>1, <2>2, UseKeeps
<1>3. CASE \/ \E h \in DOMAIN Chat!Plan : Chat!Receive(t, h)
           \/ Chat!Get(t) \/ Chat!Put(t) \/ Chat!Wipe(t) \/ Chat!Move(t) \/ Chat!Fail(t)
  BY <1>3, UnusedKeeps DEF Chat!Receive, Chat!Get, Chat!Put, Chat!Wipe, Chat!Move, Chat!Fail, Chat!db
<1>4. CASE Chat!OnStart(t) \/ Chat!OnPin(t) \/ Chat!OnFound(t) \/ Chat!OnFree(t) \/ Chat!OnPrepaid(t) \/ Chat!OnExamine(t)
  BY <1>4, UnusedKeeps DEF Chat!OnStart, Chat!OnPin, Chat!OnFound, Chat!OnFree, Chat!OnPrepaid,
                           Chat!OnExamine, Chat!db
<1>5. CASE Chat!OnAdd(t) \/ Chat!OnVipCancel(t) \/ Chat!OnAmount(t) \/ Chat!OnConfirm(t)
  BY <1>5, UnusedKeeps DEF Chat!OnAdd, Chat!OnVipCancel, Chat!OnAmount, Chat!OnConfirm
<1>6. QED
  BY <1>1, <1>2, <1>3, <1>4, <1>5 DEF Chat!Handle

\* However many updates of the chat overlap, and whatever each writes back over the
\* others' data, a card or package is used up for the customer who owns it.
THEOREM GoodsAreTheirs == Chat!Spec => []Chat!OwnGoods
<1>1. Chat!Init => UsesOK
  BY DEF Chat!Init, UsesOK, Chat!OwnGoods
<1>2. UsesOK /\ [Chat!Next]_(Chat!vars) => UsesOK'
  BY HandlersKeep, UnusedKeeps DEF Chat!Next, Chat!Crash, Chat!vars, Chat!db
<1>3. UsesOK => Chat!OwnGoods
  BY DEF UsesOK
<1>4. QED
  BY <1>1, <1>2, <1>3, PTL DEF Chat!Spec
=============================================================================
