----------------------------- MODULE Customers -----------------------------
(***************************************************************************)
(* The rows of users (app/domain/identity.py, the customer bot and the     *)
(* panel) and the codes that a customer shows at the counter               *)
(* (app/domain/redeem_code.py).  A transaction reads in one step and       *)
(* writes in another, with which it commits; nothing is locked in between, *)
(* and what keeps two rows apart is the pair of partial unique indexes.    *)
(* The row of user_dashboard and the event go with the INSERT.             *)
(***************************************************************************)
EXTENDS Integers, FiniteSets

CONSTANTS
  Phones,    \* numbers in E.164, as normalize_phone gives them
  Chats,     \* telegram accounts
  Codes,     \* what random_redeem_code may come up with
  MaxUsers,  \* bound: rows that are ever inserted
  Requests,  \* updates and posts that are handled at the same time
  None

Ids == 1 .. MaxUsers

UserRows ==
  [phone : Phones, telegram : Chats \cup {None}, status : {"active", "blocked"}, deleted : BOOLEAN]

ASSUME CustomersAssumption ==
  /\ MaxUsers \in Nat
  /\ None \notin Chats \cup Codes \cup Ids \cup UserRows

VARIABLES
  users,    \* the rows by id; None when there is none yet
  codes,    \* Redis: the customer that a code stands for
  screen,   \* the codes that customers have been shown and may still present
  request   \* what each request is about to write

accountVars == <<users, codes, screen, request>>

-----------------------------------------------------------------------------
(* The table and its indexes *)

Inserted == {u \in Ids : users[u] # None}
Live == {u \in Inserted : ~users[u].deleted}

WithPhone(p) == {u \in Live : users[u].phone = p}
WithChat(g) == {u \in Live : users[u].telegram = g}

\* uq_users_tenant_phone and uq_users_tenant_telegram.
PhoneFree(p) == WithPhone(p) = {}
UniqueByPhoneOnly(g) == TRUE  \* mutant: no index on telegram_id
ChatFree(g) == g = None \/ WithChat(g) = {}

-----------------------------------------------------------------------------
\* A request between its read and its write.
NoRequest == [todo |-> "nothing"]

Begin(r, job) ==
  /\ request[r] = NoRequest
  /\ request' = [request EXCEPT ![r] = job]
  /\ UNCHANGED <<users, codes, screen>>

Is(r, todo) == request[r].todo = todo
Finish(r) == request' = [request EXCEPT ![r] = NoRequest]

AccountsInit ==
  /\ users = [u \in Ids |-> None]
  /\ codes = [c \in Codes |-> None]
  /\ screen = {}
  /\ request = [r \in Requests |-> NoRequest]

-----------------------------------------------------------------------------
(* Customers *)

\* link_telegram, under on_contact: a phone nobody has is inserted with the
\* account, a phone without an account is linked.  A blocked customer, one that
\* has this account and one that has another (TelegramConflict) write nothing.
Contact(r, p, g) ==
  \/ /\ WithPhone(p) = {}
     /\ Begin(r, [todo |-> "insert", phone |-> p, chat |-> g])
  \/ \E u \in WithPhone(p) :
       /\ users[u].status # "blocked" /\ users[u].telegram = None
       /\ Begin(r, [todo |-> "link", user |-> u, chat |-> g])

\* find_or_create_by_phone, under create_customer.
FindOrCreate(r, p) ==
  /\ WithPhone(p) = {}
  /\ Begin(r, [todo |-> "insert", phone |-> p, chat |-> None])

\* INSERT; an IntegrityError rolls it back.
Insert(r) ==
  /\ Is(r, "insert")
  /\ LET p == request[r].phone  g == request[r].chat
         new == {u \in Ids : users[u] = None}
     IN IF PhoneFree(p) /\ ChatFree(g)
        THEN \E u \in new :
               /\ \A v \in new : u <= v
               /\ users' = [users EXCEPT ![u] =
                    [phone |-> p, telegram |-> g, status |-> "active", deleted |-> FALSE]]
        ELSE UNCHANGED users
  /\ Finish(r)
  /\ UNCHANGED <<codes, screen>>

\* UPDATE of telegram_id by primary key, whatever the row holds by now.
Link(r) ==
  /\ Is(r, "link")
  /\ LET u == request[r].user  g == request[r].chat
     IN IF users[u].deleted \/ users[u].telegram = g \/ ChatFree(g)
        THEN users' = [users EXCEPT ![u].telegram = g]
        ELSE UNCHANGED users
  /\ Finish(r)
  /\ UNCHANGED <<codes, screen>>

\* block_customer, unblock_customer and delete_customer write what does not
\* depend on what they read, also on a row that is deleted.
Panel(u) ==
  /\ \/ \E s \in {"active", "blocked"} : users' = [users EXCEPT ![u].status = s]
     \/ users' = [users EXCEPT ![u].deleted = TRUE]
  /\ UNCHANGED <<codes, screen, request>>

-----------------------------------------------------------------------------
(* Codes *)

\* on_redeem: the customer of the account, with a free coffee; then issue_code.
AskCode(r, g) ==
  \E u \in WithChat(g) : Begin(r, [todo |-> "issue", user |-> u, chat |-> g])

\* SET NX, up to five times.
Overwrite == Codes  \* mutant: SET without NX
FreeCodes == {c \in Codes : codes[c] = None}

Issue(r) ==
  /\ Is(r, "issue")
  /\ \/ \E c \in FreeCodes :
          /\ codes' = [codes EXCEPT ![c] = request[r].user]
          /\ screen' = screen \cup {[chat |-> request[r].chat, user |-> request[r].user, code |-> c]}
     \/ FreeCodes # Codes /\ UNCHANGED <<codes, screen>>
  /\ Finish(r)
  /\ UNCHANGED users

Gone(c) ==
  /\ codes' = [codes EXCEPT ![c] = None]
  /\ screen' = {s \in screen : s.code # c}

Lapse(c) == codes[c] # None /\ Gone(c) /\ UNCHANGED <<users, request>>

\* resolve_code is a GET, then a DELETE.  find_customer goes on to read the row
\* that the code stood for, or, of six digits that are no code, the row whose
\* phone ends with them.
Lookup(r, c) == codes[c] # None /\ Begin(r, [todo |-> "delete", code |-> c])

Resolve(r) == Is(r, "delete") /\ Gone(request[r].code) /\ Finish(r) /\ UNCHANGED users

-----------------------------------------------------------------------------
\* The transaction fails, or the process does.
Fail(r) == request[r] # NoRequest /\ Finish(r) /\ UNCHANGED <<users, codes, screen>>

AccountsNext ==
  \/ \E r \in Requests :
       \/ \E p \in Phones : FindOrCreate(r, p) \/ \E g \in Chats : Contact(r, p, g)
       \/ \E g \in Chats : AskCode(r, g)
       \/ \E c \in Codes : Lookup(r, c)
       \/ Insert(r) \/ Link(r) \/ Issue(r) \/ Resolve(r) \/ Fail(r)
  \/ \E u \in Inserted : Panel(u)
  \/ \E c \in Codes : Lapse(c)

-----------------------------------------------------------------------------
(* What makes it correct *)

\* However requests interleave, a lookup by phone or by account finds one row at
\* most; scalar_one_or_none would raise otherwise, for good.
OneRowEach ==
  /\ \A p \in Phones : Cardinality(WithPhone(p)) <= 1
  /\ \A g \in Chats : Cardinality(WithChat(g)) <= 1

\* A code on the screen of a customer stands for that customer, or for nobody.
CodesNameTheirCustomer == \A s \in screen : codes[s.code] \in {None, s.user}
=============================================================================
