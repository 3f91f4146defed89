-------------------------------- MODULE Crew --------------------------------
(***************************************************************************)
(* The rows of staff: the panel writes them (app/admin/routes/staff.py),   *)
(* the staff bot binds telegram accounts to them by PIN                    *)
(* (app/bots/staff/auth_service.py and handlers/auth.py), and everything   *)
(* that is sold has one of them as its author.  A request is admitted and  *)
(* checks what it needs in one step, and writes in another; the ORM writes *)
(* the columns that differ from those it has loaded.                       *)
(***************************************************************************)
EXTENDS Integers, FiniteSets

CONSTANTS
  Names,     \* usernames
  Pins,
  Chats,     \* telegram accounts
  MaxStaff,  \* bound: rows that are ever inserted
  Requests,  \* posts and updates that are handled at the same time
  None,      \* for an id: before the INSERT
  Erased     \* after the DELETE

Ids == 1 .. MaxStaff

StaffRows ==
  [name : Names, role : {"owner", "barista"}, status : {"active", "left"},
   pin : Pins \cup {None}, chat : Chats \cup {None}]

ASSUME CrewAssumption ==
  /\ MaxStaff \in Nat \ {0}
  /\ IsFiniteSet(Requests)
  /\ None \notin Names \cup Pins \cup Chats \cup Ids \cup StaffRows \cup {Erased}
  /\ Erased \notin StaffRows

VARIABLES
  staff,   \* the rows by id
  worked,  \* staff_id of the transactions on record
  shift,   \* FSM data of each chat: the staff_id it works under
  request  \* what each request is about to do

crewVars == <<staff, worked, shift, request>>

-----------------------------------------------------------------------------
(* The table *)

Rows == {s \in Ids : staff[s] \notin {None, Erased}}
Active == {s \in Rows : staff[s].status = "active"}
Owners == {s \in Active : staff[s].role = "owner"}

\* uq_staff_tenant_username and uq_staff_tenant_telegram, of rows in any status.
NoConstraint(s, name) == TRUE  \* mutant
NameFree(s, name) == \A o \in Rows \ {s} : staff[o].name # name
ChatFree(s, g) == \A o \in Rows \ {s} : staff[o].chat # g

\* The foreign key of transactions.staff_id.
Unreferenced(s) == FALSE  \* mutant: ON DELETE without a check
Referenced(s) == s \in worked

-----------------------------------------------------------------------------
(* Requests *)

NoRequest == [todo |-> "nothing"]

\* current_admin: an active owner, loaded anew for each request of the panel.
Begin(r, job) ==
  /\ request[r] = NoRequest
  /\ request' = [request EXCEPT ![r] = job]
  /\ UNCHANGED <<staff, worked, shift>>

Is(r, todo) == request[r].todo = todo
Finish(r) == request' = [request EXCEPT ![r] = NoRequest]

\* The UPDATE of a row that is there; an IntegrityError changes nothing.
Update(s, row, legal) ==
  staff' = IF s \in Rows /\ legal THEN [staff EXCEPT ![s] = row] ELSE staff

CrewInit ==
  /\ \E n \in Names :
       staff = [s \in Ids |-> IF s = 1 THEN [name |-> n, role |-> "owner", status |-> "active",
                                             pin |-> None, chat |-> None]
                              ELSE None]
  /\ worked = {}
  /\ shift = [g \in Chats |-> None]
  /\ request = [r \in Requests |-> NoRequest]

-----------------------------------------------------------------------------
(* staff.py *)

Roles == [owner |-> {None}, barista |-> Pins]

\* create_staff: the username is not taken, also by those who have left.
AskNew(r, n) ==
  /\ Owners # {} /\ NameFree(0, n)
  /\ \E role \in DOMAIN Roles, p \in Pins \cup {None} :
       /\ p \in Roles[role]
       /\ Begin(r, [todo |-> "create", name |-> n, role |-> role, pin |-> p])

Create(r) ==
  /\ Is(r, "create")
  /\ LET new == {s \in Ids : staff[s] = None}  job == request[r]
     IN IF NameFree(0, job.name)
        THEN \E s \in new :
               /\ \A o \in new : s <= o
               /\ staff' = [staff EXCEPT ![s] =
                    [name |-> job.name, role |-> job.role, status |-> "active",
                     pin |-> job.pin, chat |-> None]]
        ELSE UNCHANGED staff
  /\ Finish(r)
  /\ UNCHANGED <<worked, shift>>

\* edit_staff: a PIN may be left empty if the row has one.  The request carries the
\* values of the columns that differ from the loaded ones; a new PIN has a new hash.
AskEdit(r, s) ==
  \E role \in DOMAIN Roles, p \in Pins \cup {None}, n \in Names :
    /\ Owners # {} /\ NameFree(s, n)
    /\ role = "barista" => p # None \/ staff[s].pin # None
    /\ role = "owner" => p = None
    /\ Begin(r, [todo |-> "edit", id |-> s,
                 name |-> {n} \ {staff[s].name}, role |-> {role} \ {staff[s].role},
                 pin |-> IF role = "owner" THEN {None} \ {staff[s].pin} ELSE {p} \ {None}])

Written(old, values) == IF values = {} THEN old ELSE CHOOSE v \in values : TRUE
Edited(row, job) ==
  [row EXCEPT !.name = Written(@, job.name), !.role = Written(@, job.role), !.pin = Written(@, job.pin)]

Edit(r) ==
  LET job == request[r] IN
  /\ Is(r, "edit")
  /\ Update(job.id, Edited(staff[job.id], job), \A n \in job.name : NameFree(job.id, n))
  /\ Finish(r)
  /\ UNCHANGED <<worked, shift>>

\* delete_staff: somebody else; who has sold anything is marked, not removed.
AskRemove(r, s) ==
  /\ Owners \ {s} # {}
  /\ Begin(r, [todo |-> IF s \in worked THEN "mark" ELSE "remove", id |-> s])

Mark(r) ==
  /\ Is(r, "mark")
  /\ Update(request[r].id, [staff[request[r].id] EXCEPT !.status = "left"], TRUE)
  /\ Finish(r)
  /\ UNCHANGED <<worked, shift>>

Remove(r) ==
  LET s == request[r].id IN
  /\ Is(r, "remove")
  /\ Update(s, Erased, ~Referenced(s))
  /\ Finish(r)
  /\ UNCHANGED <<worked, shift>>

-----------------------------------------------------------------------------
(* The staff bot *)

OpenShift(g, s) == shift' = [shift EXCEPT ![g] = s]

\* on_start: find_staff_by_telegram.
Start(g) ==
  /\ \E s \in Active : staff[s].chat = g /\ OpenShift(g, s)
  /\ UNCHANGED <<staff, worked, request>>

\* on_pin: find_staff_by_pin takes the first row whose PIN it is; one that has an
\* account is not bound again.
Pin(r, g) ==
  \E s \in Active :
    /\ staff[s].pin # None
    /\ \/ /\ staff[s].chat # None /\ OpenShift(g, s)
          /\ UNCHANGED <<staff, worked, request>>
       \/ staff[s].chat = None /\ Begin(r, [todo |-> "bind", id |-> s, chat |-> g])

Bind(r) ==
  LET s == request[r].id  g == request[r].chat
      bound == s \in Rows /\ ChatFree(s, g)
  IN
  /\ Is(r, "bind")
  /\ Update(s, [staff[s] EXCEPT !.chat = g], bound)
  /\ IF bound THEN OpenShift(g, s) ELSE UNCHANGED shift
  /\ Finish(r)
  /\ UNCHANGED worked

Logout(g) == shift' = [shift EXCEPT ![g] = None] /\ UNCHANGED <<staff, worked, request>>

\* A transaction of the shift; whether its author still works here is not asked.
Sell(g) ==
  /\ shift[g] \in Rows
  /\ worked' = worked \cup {shift[g]}
  /\ UNCHANGED <<staff, shift, request>>

-----------------------------------------------------------------------------
\* The transaction fails.
Fail(r) == request[r] # NoRequest /\ Finish(r) /\ UNCHANGED <<staff, worked, shift>>

CrewNext ==
  \/ \E r \in Requests :
       \/ \E n \in Names : AskNew(r, n)
       \/ \E s \in Rows : AskEdit(r, s) \/ AskRemove(r, s)
       \/ \E g \in Chats : Pin(r, g)
       \/ Create(r) \/ Edit(r) \/ Mark(r) \/ Remove(r) \/ Bind(r) \/ Fail(r)
  \/ \E g \in Chats : Start(g) \/ Logout(g) \/ Sell(g)

-----------------------------------------------------------------------------
(* What makes it correct *)

\* Two posts that both found a username free, or two accounts that enter one PIN,
\* leave one row each: login_submit and find_staff_by_telegram expect no more.
LoginFindsOne ==
  \A s, o \in Rows : s # o =>
    /\ staff[s].name # staff[o].name
    /\ staff[s].chat # None => staff[s].chat # staff[o].chat

\* Whoever has sold anything stays on record, though the count of their
\* transactions is taken before the row is deleted.
AuthorsStay == worked \subseteq Rows
=============================================================================
