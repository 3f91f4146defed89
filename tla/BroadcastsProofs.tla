-------------------------- MODULE BroadcastsProofs --------------------------
(***************************************************************************)
(* The safety of customers, codes and broadcasts for any number of phones, *)
(* accounts, codes, requests and broadcasts.                               *)
(***************************************************************************)
EXTENDS Broadcasts, FiniteSetTheorems, TLAPS

Pcs == {"none", "start", "send", "save"}
Targets == [user : Ids, chat : Chats]
Tasks == [pc : Pcs, left : SUBSET Targets, sent : Nat, failed : Nat]

\* No two live rows share a phone or an account.
Apart(rows) ==
  \A u, v \in Ids :
    /\ rows[u] # None /\ rows[v] # None /\ ~rows[u].deleted /\ ~rows[v].deleted
    /\ \/ rows[u].phone = rows[v].phone
       \/ rows[u].telegram # None /\ rows[u].telegram = rows[v].telegram
    => u = v

UsersOK == users \in [Ids -> UserRows \cup {None}] /\ Apart(users)

\* The code on a screen is the customer's, as long as it is there.
CodesOK ==
  /\ codes \in [Codes -> Ids \cup {None}]
  /\ \A s \in screen : s.code \in Codes /\ s.user \in Ids /\ codes[s.code] = s.user

\* What a request has read still holds in as far as it is not checked again.
Fits(k, rows, posts) ==
  /\ k.todo = "insert" => k.phone \in Phones /\ k.chat \in Chats \cup {None}
  /\ k.todo = "link" => k.user \in Ids /\ rows[k.user] # None /\ k.chat \in Chats
  /\ k.todo = "issue" => k.user \in Ids
  /\ k.todo = "delete" => k.code \in Codes
  /\ k.todo = "erase" =>
       k.post \in Posts /\ posts[k.post] # None /\ posts[k.post].status # "sending"

RequestsOK ==
  /\ DOMAIN request = Requests
  /\ \A r \in Requests : Fits(request[r], users, row)

\* A task, its row and the accounts that it has reached.
Distinct(to) == \A x, y \in to : x.chat = y.chat => x = y

Reaches(k, box) ==
  /\ \A g \in Chats : box[g] \in {0, 1}
  /\ IsFiniteSet({g \in Chats : box[g] > 0})
  /\ k.sent <= Cardinality({g \in Chats : box[g] > 0})
  /\ k.pc = "start" => \A g \in Chats : box[g] = 0
  /\ \A to \in k.left : box[to.chat] = 0

Adds(k, post, box) ==
  /\ post.sent <= Cardinality({g \in Chats : box[g] > 0})
  /\ post.status = "done" => post.sent + post.failed = post.total
  /\ k.pc # "none" => post.status = "sending"
  /\ k.pc \in {"send", "save"} => k.sent + k.failed + Cardinality(k.left) = post.total

PostOK(k, post, box) ==
  /\ IsFiniteSet(k.left) /\ Distinct(k.left)
  /\ Reaches(k, box)
  /\ post = None => k = NoTask /\ \A g \in Chats : box[g] = 0
  /\ post # None => Adds(k, post, box)

PostsOK ==
  /\ row \in [Posts -> BroadcastRows \cup {None}]
  /\ task \in [Posts -> Tasks]
  /\ inbox \in [Posts -> [Chats -> Nat]]
  /\ \A b \in Posts : PostOK(task[b], row[b], inbox[b])

BroadcastsInv == UsersOK /\ CodesOK /\ RequestsOK /\ PostsOK

-----------------------------------------------------------------------------
(* Requests *)

UsersStay == \A u \in Ids : users[u] # None => users'[u] # None
PostsStay ==
  \A b \in Posts : row[b] # None /\ row[b].status # "sending" =>
                     row'[b] # None /\ row'[b].status # "sending"

LEMMA FitsStays ==
  ASSUME UsersStay, PostsStay, NEW k, Fits(k, users, row)
  PROVE  Fits(k, users', row')
BY DEF UsersStay, PostsStay, Fits

LEMMA NothingFits == \A rows, posts : Fits(NoRequest, rows, posts)
BY DEF NoRequest, Fits

LEMMA Begun ==
  ASSUME RequestsOK, NEW r \in Requests, NEW k, Fits(k, users, row), Begin(r, k),
         UNCHANGED row
  PROVE  RequestsOK'
BY DEF RequestsOK, Begin

LEMMA Finished ==
  ASSUME RequestsOK, NEW r \in Requests, Finish(r), UsersStay, PostsStay
  PROVE  RequestsOK'
<1>1. DOMAIN request' = Requests
  BY DEF RequestsOK, Finish
<1>2. ASSUME NEW t \in Requests PROVE Fits(request'[t], users', row')
  <2>1. request'[t] = NoRequest \/ request'[t] = request[t]
    BY DEF RequestsOK, Finish
  <2>2. Fits(request[t], users, row)
    BY DEF RequestsOK
  <2>3. Fits(request[t], users', row')
    BY <2>2, FitsStays
  <2>4. QED
    BY <2>1, <2>3, NothingFits
<1>3. QED
  BY <1>1, <1>2 DEF RequestsOK

LEMMA RequestsKept ==
  ASSUME RequestsOK, UNCHANGED request, UsersStay, PostsStay
  PROVE  RequestsOK'
<1>1. ASSUME NEW t \in Requests PROVE Fits(request[t], users', row')
  <2>1. Fits(request[t], users, row)
    BY DEF RequestsOK
  <2>2. QED
    BY <2>1, FitsStays
<1>2. QED
  BY <1>1 DEF RequestsOK

-----------------------------------------------------------------------------
(* Customers and codes *)

LEMMA BeginSteps ==
  ASSUME BroadcastsInv, NEW r \in Requests, UNCHANGED row,
         \/ \E p \in Phones : FindOrCreate(r, p) \/ \E g \in Chats : Contact(r, p, g)
         \/ \E g \in Chats : AskCode(r, g)
         \/ \E c \in Codes : Lookup(r, c)
  PROVE  UsersOK' /\ CodesOK' /\ RequestsOK'
<1>1. PICK k : Begin(r, k) /\ Fits(k, users, row)
  <2>1. ASSUME NEW p \in Phones, FindOrCreate(r, p)
        PROVE  \E k : Begin(r, k) /\ Fits(k, users, row)
    BY <2>1 DEF FindOrCreate, Fits
  <2>2. ASSUME NEW p \in Phones, NEW g \in Chats, Contact(r, p, g)
        PROVE  \E k : Begin(r, k) /\ Fits(k, users, row)
    <3>1. CASE Begin(r, [todo |-> "insert", phone |-> p, chat |-> g])
      BY <3>1 DEF Fits
    <3>2. ASSUME NEW u \in WithPhone(p), Begin(r, [todo |-> "link", user |-> u, chat |-> g])
          PROVE  \E k : Begin(r, k) /\ Fits(k, users, row)
      BY <3>2 DEF Fits, WithPhone, Live, Inserted
    <3>3. QED
      BY <2>2, <3>1, <3>2 DEF Contact
  <2>3. ASSUME NEW g \in Chats, AskCode(r, g)
        PROVE  \E k : Begin(r, k) /\ Fits(k, users, row)
    BY <2>3 DEF AskCode, Fits, WithChat, Live, Inserted
  <2>4. ASSUME NEW c \in Codes, Lookup(r, c)
        PROVE  \E k : Begin(r, k) /\ Fits(k, users, row)
    BY <2>4 DEF Lookup, Fits
  <2>5. QED
    BY <2>1, <2>2, <2>3, <2>4
<1>2. UNCHANGED <<users, codes, screen>>
  BY <1>1 DEF Begin
<1>3. QED
  BY <1>1, <1>2, Begun DEF BroadcastsInv, UsersOK, CodesOK

LEMMA InsertStep ==
  ASSUME BroadcastsInv, NEW r \in Requests, Insert(r), UNCHANGED row
  PROVE  UsersOK' /\ CodesOK' /\ RequestsOK'
<1> DEFINE p == request[r].phone
           g == request[r].chat
           new == [phone |-> p, telegram |-> g, status |-> "active", deleted |-> FALSE]
<1>1. p \in Phones /\ g \in Chats \cup {None}
  BY DEF BroadcastsInv, RequestsOK, Fits, Insert, Is
<1>2. new \in UserRows /\ new # None
  <2>1. new \in UserRows
    BY <1>1 DEF UserRows
  <2>2. None \notin UserRows
    BY CustomersAssumption
  <2>3. QED
    BY <2>1, <2>2
<1>3. CASE UNCHANGED users
  <2>1. UsersStay /\ PostsStay /\ UNCHANGED <<codes, screen>>
    BY <1>3 DEF UsersStay, PostsStay, Insert
  <2>2. QED
    BY <1>3, <2>1, Finished DEF BroadcastsInv, UsersOK, CodesOK, Insert
<1>4. CASE PhoneFree(p) /\ ChatFree(g)
           /\ \E u \in Ids : users[u] = None /\ users' = [users EXCEPT ![u] = new]
  <2>1. PICK u \in Ids : users[u] = None /\ users' = [users EXCEPT ![u] = new]
    BY <1>4
  <2>2. ASSUME NEW v \in Ids, v # u, users[v] # None, ~users[v].deleted
        PROVE  users[v].phone # p /\ (g # None => users[v].telegram # g)
    BY <1>4, <2>2 DEF PhoneFree, ChatFree, WithPhone, WithChat, Live, Inserted
  <2>3. users' \in [Ids -> UserRows \cup {None}]
    BY <1>2, <2>1 DEF BroadcastsInv, UsersOK
  <2>4. users'[u] = new /\ \A v \in Ids \ {u} : users'[v] = users[v]
    BY <2>1 DEF BroadcastsInv, UsersOK
  <2>5. Apart(users')
    <3> SUFFICES ASSUME NEW v \in Ids, NEW w \in Ids,
                        users'[v] # None, users'[w] # None, ~users'[v].deleted, ~users'[w].deleted,
                        \/ users'[v].phone = users'[w].phone
                        \/ users'[v].telegram # None /\ users'[v].telegram = users'[w].telegram
                 PROVE  v = w
      BY DEF Apart
    <3>1. CASE v = u
      BY <2>2, <2>4, <3>1
    <3>2. CASE w = u
      BY <2>2, <2>4, <3>2
    <3>3. CASE v # u /\ w # u
      BY <2>4, <3>3 DEF BroadcastsInv, UsersOK, Apart
    <3>4. QED
      BY <3>1, <3>2, <3>3
  <2>6. UsersStay /\ PostsStay /\ UNCHANGED <<codes, screen>>
    BY <1>2, <2>4 DEF UsersStay, PostsStay, Insert
  <2>7. QED
    BY <2>3, <2>5, <2>6, Finished DEF BroadcastsInv, UsersOK, CodesOK, Insert
<1>5. QED
  BY <1>3, <1>4 DEF Insert

LEMMA LinkStep ==
  ASSUME BroadcastsInv, NEW r \in Requests, Link(r), UNCHANGED row
  PROVE  UsersOK' /\ CodesOK' /\ RequestsOK'
<1> DEFINE u == request[r].user
           g == request[r].chat
<1>1. u \in Ids /\ users[u] # None /\ users[u] \in UserRows /\ g \in Chats /\ g # None
  BY CustomersAssumption DEF BroadcastsInv, UsersOK, RequestsOK, Fits, Link, Is
<1>2. CASE UNCHANGED users
  <2>1. UsersStay /\ PostsStay /\ UNCHANGED <<codes, screen>>
    BY <1>2 DEF UsersStay, PostsStay, Link
  <2>2. QED
    BY <1>2, <2>1, Finished DEF BroadcastsInv, UsersOK, CodesOK, Link
<1>3. CASE /\ users[u].deleted \/ users[u].telegram = g \/ ChatFree(g)
           /\ users' = [users EXCEPT ![u].telegram = g]
  <2> DEFINE new == [users[u] EXCEPT !.telegram = g]
  <2>1. /\ new \in UserRows /\ new # None
        /\ new.phone = users[u].phone /\ new.deleted = users[u].deleted /\ new.telegram = g
    BY <1>1, CustomersAssumption DEF UserRows
  <2>2. users'[u] = new /\ \A v \in Ids \ {u} : users'[v] = users[v]
    BY <1>1, <1>3 DEF BroadcastsInv, UsersOK
  <2>3. users' \in [Ids -> UserRows \cup {None}]
    BY <1>1, <1>3, <2>1 DEF BroadcastsInv, UsersOK
  <2> HIDE DEF new
  <2>4. ASSUME NEW v \in Ids, v # u, users[v] # None, ~users[v].deleted, ~users[u].deleted
        PROVE  users[v].phone # users[u].phone /\ users[v].telegram # g
    <3>1. users[v].phone # users[u].phone
      BY <1>1, <2>4 DEF BroadcastsInv, UsersOK, Apart
    <3>2. CASE users[u].telegram = g
      BY <1>1, <2>4, <3>1, <3>2 DEF BroadcastsInv, UsersOK, Apart
    <3>3. CASE ChatFree(g)
      BY <1>1, <2>4, <3>1, <3>3 DEF ChatFree, WithChat, Live, Inserted
    <3>4. QED
      BY <1>3, <2>4, <3>1, <3>2, <3>3
  <2>5. Apart(users')
    <3> SUFFICES ASSUME NEW v \in Ids, NEW w \in Ids,
                        users'[v] # None, users'[w] # None, ~users'[v].deleted, ~users'[w].deleted,
                        \/ users'[v].phone = users'[w].phone
                        \/ users'[v].telegram # None /\ users'[v].telegram = users'[w].telegram
                 PROVE  v = w
      BY DEF Apart
    <3>1. CASE v = u
      BY <2>1, <2>2, <2>4, <3>1
    <3>2. CASE w = u
      BY <2>1, <2>2, <2>4, <3>2
    <3>3. CASE v # u /\ w # u
      BY <2>2, <3>3 DEF BroadcastsInv, UsersOK, Apart
    <3>4. QED
      BY <3>1, <3>2, <3>3
  <2>6. UsersStay /\ PostsStay /\ UNCHANGED <<codes, screen>>
    BY <2>1, <2>2 DEF UsersStay, PostsStay, Link
  <2>7. QED
    BY <2>3, <2>5, <2>6, Finished DEF BroadcastsInv, UsersOK, CodesOK, Link
<1>4. QED
  BY <1>2, <1>3 DEF Link

LEMMA PanelStep ==
  ASSUME BroadcastsInv, NEW u \in Inserted, Panel(u), UNCHANGED row
  PROVE  UsersOK' /\ CodesOK' /\ RequestsOK'
<1>1. u \in Ids /\ users[u] # None /\ users[u] \in UserRows /\ None \notin UserRows
  BY CustomersAssumption DEF Inserted, BroadcastsInv, UsersOK
<1>2. PICK new \in UserRows :
        /\ users' = [users EXCEPT ![u] = new]
        /\ new.phone = users[u].phone /\ new.telegram = users[u].telegram
        /\ users[u].deleted => new.deleted
  <2>1. ASSUME NEW s \in {"active", "blocked"}, users' = [users EXCEPT ![u].status = s]
        PROVE  \E new \in UserRows :
                 /\ users' = [users EXCEPT ![u] = new]
                 /\ new.phone = users[u].phone /\ new.telegram = users[u].telegram
                 /\ users[u].deleted => new.deleted
    <3>1. [users[u] EXCEPT !.status = s] \in UserRows
      BY <1>1 DEF UserRows
    <3>2. QED
      BY <1>1, <2>1, <3>1 DEF UserRows
  <2>2. ASSUME users' = [users EXCEPT ![u].deleted = TRUE]
        PROVE  \E new \in UserRows :
                 /\ users' = [users EXCEPT ![u] = new]
                 /\ new.phone = users[u].phone /\ new.telegram = users[u].telegram
                 /\ users[u].deleted => new.deleted
    <3>1. [users[u] EXCEPT !.deleted = TRUE] \in UserRows
      BY <1>1 DEF UserRows
    <3>2. QED
      BY <1>1, <2>2, <3>1 DEF UserRows
  <2>3. QED
    BY <2>1, <2>2 DEF Panel
<1>3. users'[u] = new /\ \A v \in Ids \ {u} : users'[v] = users[v]
  BY <1>1, <1>2 DEF BroadcastsInv, UsersOK
<1>4. users' \in [Ids -> UserRows \cup {None}]
  BY <1>2 DEF BroadcastsInv, UsersOK
<1>5. ASSUME NEW v \in Ids, users'[v] # None, ~users'[v].deleted
      PROVE  /\ users[v] # None /\ ~users[v].deleted
             /\ users'[v].phone = users[v].phone /\ users'[v].telegram = users[v].telegram
  BY <1>1, <1>2, <1>3, <1>5
<1>6. Apart(users')
  BY <1>5 DEF BroadcastsInv, UsersOK, Apart
<1>7. UsersStay /\ PostsStay /\ UNCHANGED <<codes, screen, request>>
  BY <1>1, <1>3 DEF UsersStay, PostsStay, Panel
<1>8. QED
  BY <1>4, <1>6, <1>7, RequestsKept DEF BroadcastsInv, UsersOK, CodesOK

\* A code that is free is on no screen, and one that goes leaves every screen.
LEMMA CodeSteps ==
  ASSUME BroadcastsInv, UNCHANGED row,
         \/ \E r \in Requests : Issue(r) \/ Resolve(r) \/ Fail(r)
         \/ \E c \in Codes : Lapse(c)
  PROVE  UsersOK' /\ CodesOK' /\ RequestsOK'
<1>1. UNCHANGED users /\ UsersStay /\ PostsStay
  BY DEF Issue, Resolve, Fail, Lapse, UsersStay, PostsStay
<1>2. UsersOK'
  BY <1>1 DEF BroadcastsInv, UsersOK
<1>3. ASSUME NEW c \in Codes, Gone(c) PROVE CodesOK'
  BY <1>3 DEF Gone, BroadcastsInv, CodesOK
<1>4. ASSUME NEW r \in Requests, Resolve(r) PROVE request[r].code \in Codes
  BY <1>4 DEF Resolve, Is, BroadcastsInv, RequestsOK, Fits
<1>5. ASSUME NEW r \in Requests, Issue(r) PROVE CodesOK'
  <2> DEFINE u == request[r].user
  <2>1. u \in Ids
    BY <1>5 DEF Issue, Is, BroadcastsInv, RequestsOK, Fits
  <2>2. ASSUME NEW c \in FreeCodes, codes' = [codes EXCEPT ![c] = u],
               screen' = screen \cup {[chat |-> request[r].chat, user |-> u, code |-> c]}
        PROVE  CodesOK'
    <3>1. c \in Codes /\ codes[c] = None /\ None \notin Ids
      BY CustomersAssumption DEF FreeCodes
    <3>2. \A s \in screen : s.code # c
      BY <3>1 DEF BroadcastsInv, CodesOK
    <3>3. QED
      BY <2>1, <2>2, <3>1, <3>2 DEF BroadcastsInv, CodesOK
  <2>3. QED
    BY <1>5, <2>2 DEF Issue, BroadcastsInv, CodesOK
<1>6. CodesOK'
  BY <1>3, <1>4, <1>5 DEF Resolve, Lapse, Fail, BroadcastsInv, CodesOK
<1>7. RequestsOK'
  BY <1>1, Finished, RequestsKept DEF Issue, Resolve, Fail, Lapse, BroadcastsInv
<1>8. QED
  BY <1>2, <1>6, <1>7

\* What customers and the counter do leaves the broadcasts alone.
LEMMA AccountSteps ==
  ASSUME BroadcastsInv, AccountsNext, UNCHANGED broadcastVars
  PROVE  BroadcastsInv'
<1>1. UNCHANGED <<row, task, inbox>>
  BY DEF broadcastVars
<1>2. PostsOK'
  BY <1>1 DEF BroadcastsInv, PostsOK
<1>3. UsersOK' /\ CodesOK' /\ RequestsOK'
  BY <1>1, BeginSteps, InsertStep, LinkStep, PanelStep, CodeSteps DEF AccountsNext
<1>4. QED
  BY <1>2, <1>3 DEF BroadcastsInv

-----------------------------------------------------------------------------
(* Broadcasts *)

\* What a step of one broadcast has to show.
LEMMA OnePost ==
  ASSUME BroadcastsInv, NEW b \in Posts, NEW k \in Tasks,
         NEW post \in BroadcastRows \cup {None}, NEW box \in [Chats -> Nat],
         task' = [task EXCEPT ![b] = k], row' = [row EXCEPT ![b] = post],
         inbox' = [inbox EXCEPT ![b] = box],
         PostOK(k, post, box)
  PROVE  PostsOK'
<1>1. /\ task'[b] = k /\ row'[b] = post /\ inbox'[b] = box
      /\ \A c \in Posts \ {b} : task'[c] = task[c] /\ row'[c] = row[c] /\ inbox'[c] = inbox[c]
  BY DEF BroadcastsInv, PostsOK
<1>2. /\ task' \in [Posts -> Tasks] /\ row' \in [Posts -> BroadcastRows \cup {None}]
      /\ inbox' \in [Posts -> [Chats -> Nat]]
  BY DEF BroadcastsInv, PostsOK
<1>3. \A c \in Posts : PostOK(task'[c], row'[c], inbox'[c])
  BY <1>1 DEF BroadcastsInv, PostsOK
<1>4. QED
  BY <1>2, <1>3 DEF PostsOK

\* A step of a broadcast that is sending, or not there yet.
LEMMA RestKept ==
  ASSUME BroadcastsInv, NEW b \in Posts, row[b] = None \/ row[b].status = "sending",
         UNCHANGED accountVars, \A c \in Posts \ {b} : row'[c] = row[c]
  PROVE  UsersOK' /\ CodesOK' /\ RequestsOK'
<1>1. UNCHANGED <<users, codes, screen, request>>
  BY DEF accountVars
<1>2. UsersStay /\ PostsStay
  BY <1>1 DEF UsersStay, PostsStay
<1>3. QED
  BY <1>1, <1>2, RequestsKept DEF BroadcastsInv, UsersOK, CodesOK

LEMMA Idle ==
  /\ NoTask \in Tasks /\ NoTask.pc = "none" /\ NoTask.left = {} /\ NoTask.sent = 0
  /\ IsFiniteSet({}) /\ Cardinality({}) = 0
BY FS_EmptySet DEF NoTask, Tasks, Pcs

\* What is known of a broadcast whose task runs, and of any.
LEMMA Running ==
  ASSUME BroadcastsInv, NEW b \in Posts, task[b].pc # "none"
  PROVE  /\ row[b] \in BroadcastRows /\ row[b] # None /\ row[b].status = "sending"
         /\ b \in OnRecord
<1>1. PostOK(task[b], row[b], inbox[b]) /\ row[b] \in BroadcastRows \cup {None}
  BY DEF BroadcastsInv, PostsOK
<1>2. row[b] # None
  BY <1>1, Idle DEF PostOK
<1>3. QED
  BY <1>1, <1>2 DEF PostOK, Adds, OnRecord

LEMMA Known ==
  ASSUME BroadcastsInv, NEW b \in Posts
  PROVE  /\ task[b] \in Tasks /\ inbox[b] \in [Chats -> Nat]
         /\ row[b] \in BroadcastRows \cup {None}
         /\ PostOK(task[b], row[b], inbox[b])
         /\ Cardinality({g \in Chats : inbox[b][g] > 0}) \in Nat
<1>1. PostOK(task[b], row[b], inbox[b])
  BY DEF BroadcastsInv, PostsOK
<1>2. Cardinality({g \in Chats : inbox[b][g] > 0}) \in Nat
  BY <1>1, FS_CardinalityType DEF PostOK, Reaches
<1>3. QED
  BY <1>1, <1>2 DEF BroadcastsInv, PostsOK

LEMMA AnnounceStep ==
  ASSUME BroadcastsInv, NEW b \in Posts, Announce(b)
  PROVE  BroadcastsInv'
<1> DEFINE k == [task[b] EXCEPT !.pc = "start"]
           post == [status |-> "sending", total |-> 0, sent |-> 0, failed |-> 0]
<1>1. task[b] = NoTask /\ (\A g \in Chats : inbox[b][g] = 0)
  BY Known DEF Announce, PostOK
<1>2. /\ k \in Tasks /\ k.pc = "start" /\ k.left = {} /\ k.sent = 0
  BY <1>1, Idle DEF NoTask, Tasks, Pcs
<1>3. post \in BroadcastRows /\ post # None
  <2>1. post \in BroadcastRows
    BY DEF BroadcastRows
  <2>2. QED
    BY <2>1, BroadcastsAssumption
<1>4. /\ task' = [task EXCEPT ![b] = k] /\ row' = [row EXCEPT ![b] = post]
      /\ inbox' = [inbox EXCEPT ![b] = inbox[b]]
  BY DEF Announce, Goto, BroadcastsInv, PostsOK
<1>5. Reaches(k, inbox[b]) /\ Distinct(k.left) /\ IsFiniteSet(k.left)
  BY <1>1, <1>2, Known, Idle DEF Reaches, Distinct, PostOK
<1>6. Adds(k, post, inbox[b])
  BY <1>2, Known DEF Adds
<1>7. PostOK(k, post, inbox[b])
  BY <1>3, <1>5, <1>6 DEF PostOK
<1>8. PostsOK'
  <2> HIDE DEF k, post
  <2> QED
    BY <1>2, <1>3, <1>4, <1>7, Known, OnePost
<1>9. UsersOK' /\ CodesOK' /\ RequestsOK'
  BY RestKept DEF Announce
<1>10. QED
  BY <1>8, <1>9 DEF BroadcastsInv

LEMMA SnapshotStep ==
  ASSUME BroadcastsInv, NEW b \in Posts, Snapshot(b)
  PROVE  BroadcastsInv'
<1> DEFINE to == {[user |-> u, chat |-> users[u].telegram] : u \in Recipients}
           k == [NoTask EXCEPT !.pc = "send", !.left = to]
           post == [row[b] EXCEPT !.total = Cardinality(to)]
<1>1. /\ row[b] \in BroadcastRows /\ row[b].status = "sending"
      /\ task[b].pc = "start" /\ \A g \in Chats : inbox[b][g] = 0
  BY Running, Known DEF Snapshot, At, PostOK, Reaches
<1>2. Recipients \subseteq Ids /\ \A u \in Recipients :
        /\ users[u] \in UserRows /\ users[u] # None /\ ~users[u].deleted
        /\ users[u].telegram \in Chats
  BY DEF Recipients, Live, Inserted, BroadcastsInv, UsersOK, UserRows
<1>3. to \subseteq Targets /\ Distinct(to)
  <2>1. to \subseteq Targets
    BY <1>2 DEF Targets
  <2>2. ASSUME NEW u \in Recipients, NEW v \in Recipients,
               users[u].telegram = users[v].telegram
        PROVE  u = v
    BY <1>2, <2>2, CustomersAssumption DEF BroadcastsInv, UsersOK, Apart
  <2>3. QED
    BY <2>1, <2>2 DEF Distinct
<1>4. IsFiniteSet(to) /\ Cardinality(to) \in Nat
  <2> DEFINE f == [u \in Recipients |-> [user |-> u, chat |-> users[u].telegram]]
  <2>1. IsFiniteSet(Ids)
    BY CustomersAssumption, FS_Interval DEF Ids
  <2>2. IsFiniteSet(Recipients)
    BY <1>2, <2>1, FS_Subset
  <2>3. f \in Surjection(Recipients, to)
    BY DEF Surjection
  <2>4. QED
    BY <2>2, <2>3, FS_Surjection, FS_CardinalityType
<1> HIDE DEF to
<1>5. /\ k \in Tasks /\ k.pc = "send" /\ k.left = to /\ k.sent = 0 /\ k.failed = 0
  BY <1>3 DEF NoTask, Tasks, Pcs
<1>6. /\ post \in BroadcastRows /\ post.total = Cardinality(to)
      /\ post.status = "sending" /\ post.sent = row[b].sent
  BY <1>1, <1>4 DEF BroadcastRows
<1>7. post # None
  BY <1>6, BroadcastsAssumption
<1>8. /\ task' = [task EXCEPT ![b] = k] /\ row' = [row EXCEPT ![b] = post]
      /\ inbox' = [inbox EXCEPT ![b] = inbox[b]]
  BY DEF Snapshot, BroadcastsInv, PostsOK, to
<1> HIDE DEF k, post
<1>9. PostOK(k, post, inbox[b])
  <2>1. Reaches(k, inbox[b])
    BY <1>1, <1>3, <1>5, Known DEF Reaches, PostOK, Targets
  <2>2. Adds(k, post, inbox[b])
    BY <1>1, <1>4, <1>5, <1>6, Running, Known DEF Adds, PostOK
  <2>3. QED
    BY <1>3, <1>4, <1>5, <1>7, <2>1, <2>2 DEF PostOK
<1>10. PostsOK'
  BY <1>5, <1>6, <1>8, <1>9, Known, OnePost
<1>11. UsersOK' /\ CodesOK' /\ RequestsOK'
  BY <1>1, RestKept DEF Snapshot
<1>12. QED
  BY <1>10, <1>11 DEF BroadcastsInv

\* A message goes to an account that has not had one, and that no other row of
\* the snapshot has.
LEMMA SendStep ==
  ASSUME BroadcastsInv, NEW b \in Posts, Send(b)
  PROVE  BroadcastsInv'
<1>1. PICK to \in task[b].left, ok \in BOOLEAN, out \in BOOLEAN :
        /\ ok => out
        /\ inbox' = [inbox EXCEPT ![b][to.chat] = @ + (IF out THEN 1 ELSE 0)]
        /\ task' = [task EXCEPT ![b] = [Counted(task[b], ok) EXCEPT
                      !.left = @ \ {to}, !.pc = Due(Counted(task[b], ok))]]
  BY DEF Send
<1> DEFINE old == task[b]
           k == [Counted(old, ok) EXCEPT !.left = @ \ {to}, !.pc = Due(Counted(old, ok))]
           box == [inbox[b] EXCEPT ![to.chat] = @ + (IF out THEN 1 ELSE 0)]
           before == {g \in Chats : inbox[b][g] > 0}
           after == {g \in Chats : box[g] > 0}
<1>2. /\ old \in Tasks /\ old.pc = "send" /\ to \in Targets /\ to.chat \in Chats
      /\ row[b] \in BroadcastRows /\ row[b] # None /\ row[b].status = "sending"
      /\ PostOK(old, row[b], inbox[b]) /\ inbox[b] \in [Chats -> Nat]
  BY <1>1, Known, Running DEF Send, At, Tasks, Targets
<1>3. inbox[b][to.chat] = 0
  BY <1>2 DEF PostOK, Reaches
<1>4. /\ box \in [Chats -> Nat] /\ box[to.chat] = (IF out THEN 1 ELSE 0)
      /\ \A g \in Chats \ {to.chat} : box[g] = inbox[b][g]
  BY <1>2, <1>3
<1>5. /\ k \in Tasks /\ k.left = old.left \ {to} /\ k.pc \in {"send", "save"}
      /\ k.sent = old.sent + (IF ok THEN 1 ELSE 0)
      /\ k.failed = old.failed + (IF ok THEN 0 ELSE 1)
  <2>1. Due(Counted(old, ok)) \in {"send", "save"}
    BY DEF Due
  <2>2. /\ Counted(old, ok) \in Tasks /\ Counted(old, ok).left = old.left
        /\ Counted(old, ok).sent = old.sent + (IF ok THEN 1 ELSE 0)
        /\ Counted(old, ok).failed = old.failed + (IF ok THEN 0 ELSE 1)
    <3>1. /\ old.sent + (IF ok THEN 1 ELSE 0) \in Nat
          /\ old.failed + (IF ok THEN 0 ELSE 1) \in Nat
      BY <1>2 DEF Tasks
    <3>2. QED
      BY <1>2, <3>1 DEF Counted, Tasks
  <2>3. QED
    BY <2>1, <2>2 DEF Tasks, Pcs
<1> HIDE DEF k, box
<1>6. /\ IsFiniteSet(before) /\ IsFiniteSet(old.left)
      /\ after = IF out THEN before \cup {to.chat} ELSE before
      /\ to.chat \notin before
  BY <1>2, <1>3, <1>4 DEF PostOK, Reaches
<1>7. /\ IsFiniteSet(after) /\ Cardinality(before) \in Nat
      /\ Cardinality(after) = Cardinality(before) + (IF out THEN 1 ELSE 0)
  <2> HIDE DEF before, after
  <2>1. IsFiniteSet(before) /\ Cardinality(before) \in Nat
    BY <1>6, FS_CardinalityType
  <2>2. /\ IsFiniteSet(before \cup {to.chat})
        /\ Cardinality(before \cup {to.chat}) = Cardinality(before) + 1
    BY <1>6, <2>1, FS_AddElement
  <2>3. QED
    BY <1>6, <2>1, <2>2
<1>8. /\ IsFiniteSet(k.left) /\ Cardinality(old.left) \in Nat
      /\ Cardinality(k.left) = Cardinality(old.left) - 1
  BY <1>1, <1>5, <1>6, FS_RemoveElement, FS_CardinalityType
<1> HIDE DEF before, after
<1>9. Reaches(k, box)
  <2>1. \A g \in Chats : box[g] \in {0, 1}
    BY <1>2, <1>4 DEF PostOK, Reaches
  <2>2. k.sent <= Cardinality(after)
    <3>1. old.sent <= Cardinality(before) /\ old.sent \in Nat
      BY <1>2 DEF PostOK, Reaches, Tasks, before
    <3>2. QED
      BY <1>1, <1>5, <1>7, <3>1
  <2>3. \A x \in k.left : box[x.chat] = 0
    <3> SUFFICES ASSUME NEW x \in k.left PROVE box[x.chat] = 0
      OBVIOUS
    <3>1. x \in old.left /\ x # to /\ x.chat \in Chats
      BY <1>2, <1>5 DEF Tasks, Targets
    <3>2. x.chat # to.chat /\ inbox[b][x.chat] = 0
      BY <1>2, <3>1 DEF PostOK, Distinct, Reaches
    <3>3. QED
      BY <1>4, <3>1, <3>2
  <2>4. QED
    BY <1>5, <1>7, <2>1, <2>2, <2>3 DEF Reaches, after
<1>10. Adds(k, row[b], box)
  <2>1. /\ row[b].sent <= Cardinality(before) /\ row[b].sent \in Nat
        /\ old.sent + old.failed + Cardinality(old.left) = row[b].total
        /\ old.sent \in Nat /\ old.failed \in Nat
    BY <1>2 DEF PostOK, Adds, BroadcastRows, Tasks, before
  <2>2. row[b].sent <= Cardinality(after)
    BY <1>7, <2>1
  <2>3. k.sent + k.failed + Cardinality(k.left) = row[b].total
    BY <1>5, <1>8, <2>1
  <2>4. QED
    BY <1>2, <1>5, <2>2, <2>3 DEF Adds, after
<1>11. PostOK(k, row[b], box)
  BY <1>2, <1>5, <1>8, <1>9, <1>10 DEF PostOK, Distinct
<1>12. /\ task' = [task EXCEPT ![b] = k] /\ row' = [row EXCEPT ![b] = row[b]]
       /\ inbox' = [inbox EXCEPT ![b] = box]
  BY <1>1 DEF Send, BroadcastsInv, PostsOK, k, box
<1>13. PostsOK'
  BY <1>2, <1>4, <1>5, <1>11, <1>12, OnePost
<1>14. UsersOK' /\ CodesOK' /\ RequestsOK'
  BY <1>2, RestKept DEF Send
<1>15. QED
  BY <1>13, <1>14 DEF BroadcastsInv

LEMMA SaveStep ==
  ASSUME BroadcastsInv, NEW b \in Posts, Save(b)
  PROVE  BroadcastsInv'
<1> DEFINE old == task[b]
           k == [old EXCEPT !.pc = "send"]
           post == [row[b] EXCEPT !.sent = old.sent, !.failed = old.failed]
<1>1. /\ old \in Tasks /\ old.pc = "save" /\ PostOK(old, row[b], inbox[b])
      /\ row[b] \in BroadcastRows /\ row[b] # None /\ row[b].status = "sending"
      /\ b \in OnRecord
  BY Known, Running DEF Save, At
<1>2. /\ k \in Tasks /\ k.pc = "send" /\ k.left = old.left
      /\ k.sent = old.sent /\ k.failed = old.failed
  BY <1>1 DEF Tasks, Pcs
<1>3. /\ post \in BroadcastRows /\ post.status = "sending" /\ post.sent = old.sent
      /\ post.total = row[b].total
  BY <1>1 DEF BroadcastRows, Tasks
<1>4. post # None
  BY <1>3, BroadcastsAssumption
<1>5. /\ task' = [task EXCEPT ![b] = k] /\ row' = [row EXCEPT ![b] = post]
      /\ inbox' = [inbox EXCEPT ![b] = inbox[b]]
  BY <1>1 DEF Save, Put, Goto, BroadcastsInv, PostsOK
<1> HIDE DEF k, post
<1>6. PostOK(k, post, inbox[b])
  BY <1>1, <1>2, <1>3, <1>4 DEF PostOK, Reaches, Adds, Distinct
<1>7. PostsOK'
  BY <1>2, <1>3, <1>5, <1>6, Known, OnePost
<1>8. UsersOK' /\ CodesOK' /\ RequestsOK'
  BY <1>1, <1>5, RestKept DEF Save, BroadcastsInv, PostsOK
<1>9. QED
  BY <1>7, <1>8 DEF BroadcastsInv

\* A task that ends leaves a row that is "done" with all answers, or "failed".
LEMMA EndSteps ==
  ASSUME BroadcastsInv, NEW b \in Posts, MarkDone(b) \/ MarkFailed(b)
  PROVE  BroadcastsInv'
<1> DEFINE old == task[b]
<1>1. /\ old \in Tasks /\ old.pc # "none" /\ PostOK(old, row[b], inbox[b])
      /\ row[b] \in BroadcastRows /\ row[b] # None /\ row[b].status = "sending"
      /\ b \in OnRecord
  BY Known, Running DEF MarkDone, MarkFailed, At
<1>2. PICK post \in BroadcastRows :
        /\ row' = [row EXCEPT ![b] = post]
        /\ Adds(NoTask, post, inbox[b])
  <2>1. CASE MarkDone(b)
    <3> DEFINE post == [row[b] EXCEPT !.status = "done", !.sent = old.sent, !.failed = old.failed]
    <3>1. /\ post \in BroadcastRows /\ post.sent = old.sent /\ post.failed = old.failed
          /\ post.total = row[b].total
      BY <1>1 DEF BroadcastRows, Tasks
    <3>2. old.pc = "send" /\ old.left = {} /\ row' = [row EXCEPT ![b] = post]
      BY <1>1, <2>1 DEF MarkDone, At, Put
    <3> HIDE DEF post
    <3>3. old.sent + old.failed = row[b].total /\ old.sent <= Cardinality({g \in Chats : inbox[b][g] > 0})
      BY <1>1, <3>2, Idle DEF PostOK, Reaches, Adds, Tasks
    <3>4. Adds(NoTask, post, inbox[b])
      BY <3>1, <3>3, Idle DEF Adds
    <3>5. QED
      BY <3>1, <3>2, <3>4
  <2>2. CASE MarkFailed(b)
    <3> DEFINE post == [row[b] EXCEPT !.status = "failed"]
    <3>1. post \in BroadcastRows /\ post.sent = row[b].sent /\ post.status = "failed"
      BY <1>1 DEF BroadcastRows
    <3>2. row' = [row EXCEPT ![b] = post]
      BY <1>1, <2>2 DEF MarkFailed, Put
    <3>3. Adds(NoTask, post, inbox[b])
      BY <1>1, <3>1, Idle DEF PostOK, Adds
    <3>4. QED
      BY <3>1, <3>2, <3>3
  <2>3. QED
    BY <2>1, <2>2
<1>3. post # None
  BY BroadcastsAssumption
<1>4. /\ task' = [task EXCEPT ![b] = NoTask] /\ inbox' = [inbox EXCEPT ![b] = inbox[b]]
      /\ UNCHANGED accountVars
  BY DEF MarkDone, MarkFailed, BroadcastsInv, PostsOK
<1>5. Reaches(NoTask, inbox[b])
  BY <1>1, Idle, Known DEF PostOK, Reaches
<1>6. PostOK(NoTask, post, inbox[b])
  BY <1>2, <1>3, <1>5, Idle DEF PostOK, Distinct
<1>7. PostsOK'
  BY <1>2, <1>4, <1>6, Idle, Known, OnePost
<1>8. UsersOK' /\ CodesOK' /\ RequestsOK'
  BY <1>1, <1>2, <1>4, RestKept DEF BroadcastsInv, PostsOK
<1>9. QED
  BY <1>7, <1>8 DEF BroadcastsInv

\* What the owner is about to delete was settled, and is: no task starts again.
LEMMA EraseSteps ==
  ASSUME BroadcastsInv, NEW r \in Requests, AskErase(r) \/ Erase(r)
  PROVE  BroadcastsInv'
<1>1. CASE AskErase(r)
  <2>1. PICK b \in Settled : Begin(r, [todo |-> "erase", post |-> b]) /\ UNCHANGED broadcastVars
    BY <1>1 DEF AskErase
  <2>2. Fits([todo |-> "erase", post |-> b], users, row)
    BY <2>1 DEF Settled, OnRecord, Fits
  <2>3. UNCHANGED <<users, codes, screen, row, task, inbox>>
    BY <2>1 DEF Begin, broadcastVars
  <2>4. RequestsOK'
    BY <2>1, <2>2, <2>3, Begun DEF BroadcastsInv
  <2>5. QED
    BY <2>3, <2>4 DEF BroadcastsInv, UsersOK, CodesOK, PostsOK
<1>2. CASE Erase(r)
  <2> DEFINE b == request[r].post
             post == [row[b] EXCEPT !.status = "deleted"]
  <2>1. b \in Posts /\ row[b] # None /\ row[b].status # "sending"
    BY <1>2 DEF Erase, Is, BroadcastsInv, RequestsOK, Fits
  <2>2. /\ row[b] \in BroadcastRows /\ PostOK(task[b], row[b], inbox[b])
        /\ task[b] \in Tasks /\ inbox[b] \in [Chats -> Nat]
    BY <2>1, Known
  <2>3. post \in BroadcastRows /\ post.status = "deleted" /\ post.sent = row[b].sent
    BY <2>2 DEF BroadcastRows
  <2>4. post # None
    BY <2>3, BroadcastsAssumption
  <2>5. /\ row' = [row EXCEPT ![b] = post] /\ task' = [task EXCEPT ![b] = task[b]]
        /\ inbox' = [inbox EXCEPT ![b] = inbox[b]]
        /\ UNCHANGED <<users, codes, screen>> /\ Finish(r)
    BY <1>2, <2>1 DEF Erase, BroadcastsInv, PostsOK
  <2>6. UsersStay /\ PostsStay
    BY <2>1, <2>3, <2>4, <2>5 DEF UsersStay, PostsStay, BroadcastsInv, PostsOK
  <2> HIDE DEF b, post
  <2>7. PostOK(task[b], post, inbox[b])
    BY <2>1, <2>2, <2>3, <2>4 DEF PostOK, Adds
  <2>8. PostsOK'
    BY <2>1, <2>2, <2>3, <2>5, <2>7, OnePost
  <2>9. QED
    BY <2>5, <2>6, <2>8, Finished DEF BroadcastsInv, UsersOK, CodesOK
<1>3. QED
  BY <1>1, <1>2

\* A crash ends every task and every request; rows and inboxes stay.
LEMMA CrashStep ==
  ASSUME BroadcastsInv, Crash
  PROVE  BroadcastsInv'
<1>1. UNCHANGED <<users, codes, screen, row, inbox>>
  BY DEF Crash
<1>2. RequestsOK'
  BY NothingFits DEF Crash, RequestsOK
<1>3. ASSUME NEW b \in Posts PROVE PostOK(NoTask, row[b], inbox[b])
  <2>1. Reaches(NoTask, inbox[b])
    <3>1. Reaches(task[b], inbox[b]) /\ Cardinality({g \in Chats : inbox[b][g] > 0}) \in Nat
      BY Known DEF PostOK
    <3>2. QED
      BY <3>1, Idle DEF Reaches
  <2>2. row[b] # None => Adds(NoTask, row[b], inbox[b])
    BY Idle, Known DEF PostOK, Adds
  <2>3. QED
    BY <2>1, <2>2, Idle, Known DEF PostOK, Distinct
<1>4. PostsOK'
  BY <1>1, <1>3, Idle DEF Crash, BroadcastsInv, PostsOK
<1>5. QED
  BY <1>1, <1>2, <1>4 DEF BroadcastsInv, UsersOK, CodesOK

-----------------------------------------------------------------------------
(* Theorems *)

\* The invariant holds in every reachable state, for any number of rows, requests
\* and broadcasts.
THEOREM BroadcastsInvariant == Spec => []BroadcastsInv
<1>1. Init => BroadcastsInv
  <2> SUFFICES ASSUME Init PROVE BroadcastsInv
    OBVIOUS
  <2>1. UsersOK /\ CodesOK
    BY DEF Init, AccountsInit, UsersOK, CodesOK, Apart
  <2>2. RequestsOK
    BY NothingFits DEF Init, AccountsInit, RequestsOK
  <2>3. ASSUME NEW b \in Posts
        PROVE  row[b] = None /\ task[b] = NoTask /\ \A g \in Chats : inbox[b][g] = 0
    BY DEF Init
  <2>4. ASSUME NEW b \in Posts PROVE PostOK(task[b], row[b], inbox[b])
    <3>1. {g \in Chats : inbox[b][g] > 0} = {}
      BY <2>3
    <3>2. Reaches(NoTask, inbox[b])
      BY <2>3, <3>1, Idle DEF Reaches
    <3>3. QED
      BY <2>3, <3>2, Idle DEF PostOK, Distinct
  <2>5. PostsOK
    BY <2>4, Idle DEF Init, PostsOK
  <2>6. QED
    BY <2>1, <2>2, <2>5 DEF BroadcastsInv
<1>2. BroadcastsInv /\ [Next]_vars => BroadcastsInv'
  <2> SUFFICES ASSUME BroadcastsInv, [Next]_vars PROVE BroadcastsInv'
    OBVIOUS
  <2>1. CASE Next
    BY <2>1, AccountSteps, AnnounceStep, SnapshotStep, SendStep, SaveStep, EndSteps,
       EraseSteps, CrashStep
    DEF Next, Dispatch
  <2>2. CASE UNCHANGED vars
    BY <2>2 DEF vars, accountVars, broadcastVars, BroadcastsInv, UsersOK, CodesOK, RequestsOK, PostsOK
  <2>3. QED
    BY <2>1, <2>2
<1>3. QED
  BY <1>1, <1>2, PTL DEF Spec

\* However many registrations, links and posts overlap, a lookup by phone or by
\* account finds one row at most: the indexes alone see to it.
THEOREM LookupsFindOne == Spec => []OneRowEach
<1>1. BroadcastsInv => OneRowEach
  <2> SUFFICES ASSUME BroadcastsInv PROVE OneRowEach
    OBVIOUS
  <2>1. ASSUME NEW S, \A u, v \in S : u = v PROVE Cardinality(S) <= 1
    <3>1. CASE S = {}
      BY <3>1, FS_EmptySet
    <3>2. CASE S # {}
      <4>1. PICK u : S = {u}
        BY <2>1, <3>2
      <4>2. QED
        BY <4>1, FS_Singleton
    <3>3. QED
      BY <3>1, <3>2
  <2>2. ASSUME NEW p \in Phones, NEW u \in WithPhone(p), NEW v \in WithPhone(p) PROVE u = v
    BY DEF WithPhone, Live, Inserted, BroadcastsInv, UsersOK, Apart
  <2>3. ASSUME NEW g \in Chats, NEW u \in WithChat(g), NEW v \in WithChat(g) PROVE u = v
    BY CustomersAssumption DEF WithChat, Live, Inserted, BroadcastsInv, UsersOK, Apart
  <2>4. QED
    BY <2>1, <2>2, <2>3 DEF OneRowEach
<1>2. QED
  BY <1>1, BroadcastsInvariant, PTL

\* No code on a screen ever stands for another customer, for any number of codes.
THEOREM CodesAreTheirs == Spec => []CodesNameTheirCustomer
<1>1. BroadcastsInv => CodesNameTheirCustomer
  BY DEF BroadcastsInv, CodesOK, CodesNameTheirCustomer
<1>2. QED
  BY <1>1, BroadcastsInvariant, PTL

\* A broadcast reaches an account once at most, whatever becomes of the rows of
\* users after its snapshot.
THEOREM NobodyTwice == Spec => []OncePerAccount
<1>1. BroadcastsInv => OncePerAccount
  <2> SUFFICES ASSUME BroadcastsInv, NEW b \in Posts, NEW g \in Chats PROVE inbox[b][g] <= 1
    BY DEF OncePerAccount
  <2>1. Reaches(task[b], inbox[b])
    BY Known DEF PostOK
  <2>2. inbox[b][g] \in {0, 1}
    BY <2>1 DEF Reaches
  <2>3. QED
    BY <2>2
<1>2. QED
  BY <1>1, BroadcastsInvariant, PTL

\* The counters of a broadcast that is done add up, and none claims more than
\* went out, for any number of recipients and any interval between two saves.
THEOREM CountersTrue == Spec => []CountsAddUp
<1>1. BroadcastsInv => CountsAddUp
  BY DEF BroadcastsInv, PostsOK, PostOK, Adds, OnRecord, CountsAddUp, Reached
<1>2. QED
  BY <1>1, BroadcastsInvariant, PTL

\* Nothing deletes or closes the row of a broadcast whose messages still go out.
THEOREM RowOutlivesTask == Spec => []SendingIsOnRecord
<1>1. BroadcastsInv => SendingIsOnRecord
  BY Running DEF SendingIsOnRecord, At
<1>2. QED
  BY <1>1, BroadcastsInvariant, PTL
=============================================================================
