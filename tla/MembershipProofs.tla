-------------------------- MODULE MembershipProofs --------------------------
(***************************************************************************)
(* The safety of VIP deposits for every number of sessions, purchases,     *)
(* sales and rows.  Statements change only what their own transaction      *)
(* holds; commits and the clock change what the others see.                *)
(***************************************************************************)
EXTENDS Membership, SumsProofs

Statuses == {"none", "active", "exhausted", "expired", "cancelled"}
Rows == [status : Statuses, balance : Nat, paid : Nat, expires : Nat]
Entries == [on : Cards, tx : Purchases, amount : Nat]

\* A row that is found is never "exhausted": an active one has money left.
Steps == {"idle", "look", "record", "expired", "refuse", "deduct", "insert", "commit",
          "cancel", "reverse"}
Writing == {"insert", "commit", "reverse"}

Held(s) == DOMAIN mine[s]

TypesOK ==
  /\ now \in Nat
  /\ member \in [Cards -> Rows]
  /\ status \in [Requests -> {"new", "committed", "reversed"}]
  /\ charges \in Seq(Entries)
  /\ pc \in [Sessions -> Steps]
  /\ req \in [Sessions -> Requests \cup {NoOne}]
  /\ found \in [Sessions -> SUBSET Cards]
  /\ DOMAIN mine = Sessions
  /\ \A s \in Sessions : \A c \in Held(s) : c \in Cards /\ mine[s][c] \in Rows

\* The committed rows: one is live, it has money, and there is no row before its
\* INSERT.
MembersOK ==
  /\ \A c \in Cards : Active(member[c]) => member[c].balance > 0
  /\ \A c \in Cards : member[c].status = "none" => member[c] = NoMember
  /\ \A c, d \in Cards : Active(member[c]) /\ Active(member[d]) => c = d

ChargesOK ==
  /\ DepositFollowsCharges
  /\ \A i \in DOMAIN charges : status[charges[i].tx] # "new"

-----------------------------------------------------------------------------
(* What a session has written *)

\* A row that is closed before its time is closed by a cancellation.
Retires(c, k, r) ==
  /\ member[c].status # "none"
  /\ k.balance = member[c].balance /\ k.paid = member[c].paid /\ k.expires = member[c].expires
  /\ \/ k.status = "expired" /\ Over(member[c])
     \/ k.status = "cancelled" /\ r = NoOne

OnlyRetires(s) == \A c \in Held(s) : Retires(c, mine[s][c], req[s])

Draws(s) ==
  \E c \in Cards :
    /\ found[s] = {c} /\ Held(s) = {c} /\ Active(member[c])
    /\ Cost[req[s]] \in 1..member[c].balance
    /\ mine[s][c] = Drained(member[c], Cost[req[s]])

Buys(s) ==
  \/ found[s] = {} /\ OnlyRetires(s)
  \/ Held(s) = {} /\ Cost[req[s]] = 0 /\ \E c \in Cards : found[s] = {c}
  \/ Draws(s)

Sells(s) ==
  \E c \in Held(s) :
    /\ member[c].status = "none"
    /\ Active(mine[s][c]) /\ mine[s][c].balance = Paid[req[s]] /\ mine[s][c].paid = Paid[req[s]]
    /\ \A d \in Held(s) \ {c} : Retires(d, mine[s][d], req[s])

SessionOK(s) ==
  /\ pc[s] = "idle" => req[s] = NoOne /\ found[s] = {}
  /\ pc[s] = "look" => found[s] = {}
  /\ pc[s] \in {"idle", "look", "expired", "refuse", "deduct", "cancel", "reverse"} => Held(s) = {}
  /\ pc[s] = "expired" =>
       \E c \in Cards : found[s] = {c} /\ member[c].status # "none" /\ Over(member[c])
  /\ pc[s] = "deduct" => req[s] \in Purchases /\ Cost[req[s]] > 0 /\ \E c \in Cards : found[s] = {c}
  /\ pc[s] = "cancel" => req[s] = NoOne /\ \E c \in Cards : found[s] = {c}
  /\ pc[s] = "record" => req[s] \in Requests
  /\ pc[s] = "insert" => req[s] \in Sales
  /\ pc[s] = "reverse" => req[s] \in Purchases /\ status[req[s]] = "committed"
  /\ pc[s] \in {"record", "commit"} /\ req[s] \in Purchases => Buys(s)
  /\ pc[s] \in {"record", "insert"} /\ req[s] \in Sales => found[s] = {} /\ OnlyRetires(s)
  /\ pc[s] = "commit" /\ req[s] \in Sales => Sells(s)
  /\ pc[s] = "commit" /\ req[s] = NoOne => OnlyRetires(s)
  /\ pc[s] \in {"insert", "commit"} /\ req[s] \in Requests => status[req[s]] = "new"

-----------------------------------------------------------------------------
(* What sessions keep from one another *)

Seller(s) == pc[s] = "commit" /\ req[s] \in Sales

\* One session sells at a time, and it holds the row that was live before.
SellersOK ==
  /\ \A s, t \in Sessions : Seller(s) /\ Seller(t) => s = t
  /\ \A s \in Sessions : Seller(s) => \A c \in Cards : Active(member[c]) => c \in Held(s)

LocksOK ==
  \A s, t \in Sessions : s # t =>
    /\ Held(s) \cap Held(t) = {}
    /\ pc[s] \in Writing /\ pc[t] \in Writing => req[s] # req[t] \/ req[s] = NoOne

MembershipInv ==
  /\ TypesOK /\ MembersOK /\ ChargesOK
  /\ \A s \in Sessions : SessionOK(s)
  /\ SellersOK /\ LocksOK

-----------------------------------------------------------------------------
(* Statements *)

Alone(s) ==
  \A t \in Sessions \ {s} :
    pc'[t] = pc[t] /\ req'[t] = req[t] /\ found'[t] = found[t] /\ mine'[t] = mine[t]

\* A statement of s: it takes free rows and free transactions only.
Statement(s) ==
  /\ UNCHANGED <<now, db>> /\ Alone(s)
  /\ TypesOK' /\ SessionOK(s)'
  /\ \A c \in Held(s)' : c \in Held(s) \/ RowFree(s, c)
  /\ pc'[s] \in Writing => req'[s] = NoOne \/ TxFree(s, req'[s])
  /\ Seller(s)' => /\ \A t \in Sessions \ {s} : ~Seller(t)
                   /\ \A c \in Cards : Active(member[c]) => c \in Held(s)'

LEMMA StatementStep ==
  ASSUME MembershipInv, NEW s \in Sessions, Statement(s)
  PROVE  MembershipInv'
<1>1. UNCHANGED <<now, member, status, charges>>
  BY DEF Statement, db
<1>2. \A t \in Sessions \ {s} :
        pc'[t] = pc[t] /\ req'[t] = req[t] /\ found'[t] = found[t] /\ mine'[t] = mine[t]
  BY DEF Statement, Alone
<1>3. MembersOK' /\ ChargesOK'
  BY <1>1 DEF MembershipInv, MembersOK, ChargesOK, DepositFollowsCharges, ChargedTo
<1>4. ASSUME NEW t \in Sessions PROVE SessionOK(t)'
  <2>1. CASE t = s
    BY <2>1 DEF Statement
  <2>2. CASE t # s
    <3>1. pc'[t] = pc[t] /\ req'[t] = req[t] /\ found'[t] = found[t] /\ mine'[t] = mine[t]
      BY <1>2, <2>2
    <3>2. SessionOK(t)
      BY DEF MembershipInv
    <3>3. QED
      BY <1>1, <3>1, <3>2
      DEF SessionOK, Held, Buys, Draws, Sells, OnlyRetires, Retires, Over
  <2>3. QED
    BY <2>1, <2>2
<1>5. SellersOK'
  <2>1. ASSUME NEW t \in Sessions, t # s PROVE Seller(t)' = Seller(t) /\ Held(t)' = Held(t)
    BY <1>2, <2>1 DEF Seller, Held
  <2>2. ASSUME NEW t \in Sessions, NEW u \in Sessions, Seller(t)', Seller(u)' PROVE t = u
    BY <2>1, <2>2 DEF Statement, MembershipInv, SellersOK
  <2>3. ASSUME NEW t \in Sessions, Seller(t)', NEW c \in Cards, Active(member'[c])
        PROVE  c \in Held(t)'
    BY <1>1, <2>1, <2>3 DEF Statement, MembershipInv, SellersOK
  <2>4. QED
    BY <2>2, <2>3 DEF SellersOK
<1>6. LocksOK'
  <2> SUFFICES ASSUME NEW t \in Sessions, NEW u \in Sessions, t # u
               PROVE  /\ Held(t)' \cap Held(u)' = {}
                      /\ pc'[t] \in Writing /\ pc'[u] \in Writing => req'[t] # req'[u] \/ req'[t] = NoOne
    BY DEF LocksOK
  <2>1. Held(t) \cap Held(u) = {}
    BY DEF MembershipInv, LocksOK
  <2>2. Held(t)' \cap Held(u)' = {}
    <3>1. CASE t = s
      BY <1>2, <2>1, <3>1 DEF Statement, RowFree, Held
    <3>2. CASE u = s
      BY <1>2, <2>1, <3>2 DEF Statement, RowFree, Held
    <3>3. QED
      BY <1>2, <2>1, <3>1, <3>2 DEF Held
  <2>3. ASSUME pc'[t] \in Writing, pc'[u] \in Writing PROVE req'[t] # req'[u] \/ req'[t] = NoOne
    <3>1. CASE t = s
      BY <1>2, <2>3, <3>1 DEF Statement, TxFree, Writing
    <3>2. CASE u = s
      BY <1>2, <2>3, <3>2 DEF Statement, TxFree, Writing
    <3>3. QED
      BY <1>2, <2>3, <3>1, <3>2 DEF MembershipInv, LocksOK
  <2>4. QED
    BY <2>2, <2>3
<1>7. QED
  BY <1>3, <1>4, <1>5, <1>6 DEF Statement, MembershipInv

\* What a step of s has to show that leaves its rows alone.
LEMMA Moved ==
  ASSUME MembershipInv, NEW s \in Sessions, UNCHANGED <<now, db, mine>>,
         NEW p \in Steps, pc' = [pc EXCEPT ![s] = p],
         NEW r \in Requests \cup {NoOne}, req' = [req EXCEPT ![s] = r],
         NEW f \in SUBSET Cards, found' = [found EXCEPT ![s] = f],
         p \in Writing => r = NoOne \/ TxFree(s, r),
         p = "commit" => r \notin Sales,
         SessionOK(s)'
  PROVE  MembershipInv'
<1>1. /\ pc'[s] = p /\ req'[s] = r /\ found'[s] = f
      /\ TypesOK' /\ Alone(s) /\ Held(s)' = Held(s)
  BY DEF MembershipInv, TypesOK, Alone, Held, db
<1>2. ~Seller(s)'
  BY <1>1 DEF Seller
<1>3. Statement(s)
  BY <1>1, <1>2 DEF Statement
<1>4. QED
  BY <1>3, StatementStep

\* RowFree says nothing else than that the lock may be taken.
LEMMA Wrote ==
  ASSUME MembershipInv, NEW s \in Sessions, UNCHANGED <<now, db>>,
         NEW p \in Steps, pc' = [pc EXCEPT ![s] = p], UNCHANGED req,
         NEW f \in SUBSET Cards, found' = [found EXCEPT ![s] = f],
         NEW c \in Cards, RowFree(s, c), NEW k \in Rows,
         mine' = [mine EXCEPT ![s] = With(@, c, k)],
         p \in Writing => req[s] = NoOne \/ TxFree(s, req[s]),
         Seller(s)' => /\ \A t \in Sessions \ {s} : ~Seller(t)
                       /\ \A d \in Cards : Active(member[d]) => d \in Held(s) \cup {c},
         SessionOK(s)'
  PROVE  MembershipInv'
<1>1. /\ Held(s)' = Held(s) \cup {c}
      /\ \A d \in Held(s)' : mine'[s][d] = IF d = c THEN k ELSE mine[s][d]
  BY DEF MembershipInv, TypesOK, Held, With
<1>2. /\ pc'[s] = p /\ found'[s] = f /\ Alone(s)
  BY DEF MembershipInv, TypesOK, Alone
<1>3. TypesOK'
  <2>1. /\ pc' \in [Sessions -> Steps] /\ req' \in [Sessions -> Requests \cup {NoOne}]
        /\ found' \in [Sessions -> SUBSET Cards] /\ DOMAIN mine' = Sessions
    BY DEF MembershipInv, TypesOK
  <2>2. ASSUME NEW t \in Sessions, NEW d \in Held(t)' PROVE d \in Cards /\ mine'[t][d] \in Rows
    <3>1. CASE t = s
      BY <1>1, <2>2, <3>1 DEF MembershipInv, TypesOK
    <3>2. CASE t # s
      BY <1>2, <2>2, <3>2 DEF MembershipInv, TypesOK, Alone, Held
    <3>3. QED
      BY <3>1, <3>2
  <2>3. QED
    BY <2>1, <2>2 DEF MembershipInv, TypesOK, db
<1>4. Statement(s)
  BY <1>1, <1>2, <1>3 DEF Statement
<1>5. QED
  BY <1>4, StatementStep

LEMMA NothingHeld == DOMAIN NoRow = {}
BY DEF NoRow

\* A transaction that ends without effect.
LEMMA Forgotten ==
  ASSUME MembershipInv, NEW s \in Sessions, RollBack(s)
  PROVE  MembershipInv'
<1>1. /\ pc'[s] = "idle" /\ req'[s] = NoOne /\ found'[s] = {} /\ mine'[s] = NoRow
      /\ UNCHANGED <<now, db>> /\ Alone(s)
  BY DEF RollBack, Forget, Goto, MembershipInv, TypesOK, Alone
<1>2. Held(s)' = {}
  BY <1>1, NothingHeld DEF Held
<1>3. TypesOK'
  <2>1. /\ pc' \in [Sessions -> Steps] /\ req' \in [Sessions -> Requests \cup {NoOne}]
        /\ found' \in [Sessions -> SUBSET Cards] /\ DOMAIN mine' = Sessions
    BY DEF RollBack, Forget, Goto, MembershipInv, TypesOK, Steps
  <2>2. ASSUME NEW t \in Sessions, NEW d \in Held(t)' PROVE d \in Cards /\ mine'[t][d] \in Rows
    BY <1>1, <1>2, <2>2 DEF MembershipInv, TypesOK, Alone, Held
  <2>3. QED
    BY <1>1, <2>1, <2>2 DEF MembershipInv, TypesOK, db
<1>4. SessionOK(s)'
  BY <1>1, <1>2, MembershipAssumption DEF SessionOK
<1>5. Statement(s)
  BY <1>1, <1>2, <1>3, <1>4 DEF Statement, Writing, Seller
<1>6. QED
  BY <1>5, StatementStep

LEMMA StartSteps ==
  ASSUME MembershipInv, NEW s \in Sessions,
         \/ \E r \in Requests : Begin(s, r)
         \/ \E c \in Cards : BeginCancel(s, c)
         \/ \E r \in Purchases : BeginRefund(s, r)
         \/ View(s)
  PROVE  MembershipInv'
<1>1. /\ pc[s] = "idle" /\ req[s] = NoOne /\ found[s] = {} /\ Held(s) = {}
      /\ req[s] \in Requests \cup {NoOne}
      /\ req = [req EXCEPT ![s] = req[s]] /\ found = [found EXCEPT ![s] = found[s]]
  BY DEF Begin, BeginCancel, BeginRefund, View, Start, MembershipInv, SessionOK, TypesOK
<1>2. UNCHANGED <<now, db, mine>> /\ Held(s)' = {}
  BY <1>1 DEF Begin, BeginCancel, BeginRefund, View, Start, Held
<1>3. ASSUME NEW p \in {"look", "record", "cancel", "reverse"},
             NEW r \in Requests \cup {NoOne}, NEW f \in SUBSET Cards,
             pc' = [pc EXCEPT ![s] = p], req' = [req EXCEPT ![s] = r],
             found' = [found EXCEPT ![s] = f],
             p # "cancel" => f = {},
             p = "record" => r \in Requests /\ status[r] = "new",
             p = "cancel" => r = NoOne /\ \E c \in Cards : f = {c},
             p = "reverse" => r \in Purchases /\ status[r] = "committed" /\ TxFree(s, r)
      PROVE  MembershipInv'
  <2>1. pc'[s] = p /\ req'[s] = r /\ found'[s] = f
    BY <1>3 DEF MembershipInv, TypesOK
  <2>2. SessionOK(s)'
    <3>1. UNCHANGED status
      BY <1>2 DEF db
    <3>2. p = "record" /\ r \in Purchases => Buys(s)'
      BY <1>2, <1>3, <2>1 DEF Buys, OnlyRetires
    <3>3. OnlyRetires(s)'
      BY <1>2 DEF OnlyRetires
    <3>4. QED
      BY <1>2, <1>3, <2>1, <3>1, <3>2, <3>3, MembershipAssumption DEF SessionOK
  <2>3. p \in Steps
    BY <1>3 DEF Steps
  <2>4. QED
    BY <1>2, <1>3, <2>2, <2>3, Moved DEF Writing
<1>4. ASSUME NEW r \in Requests, Begin(s, r) PROVE MembershipInv'
  <2>1. CASE r \in Forced
    BY <1>1, <1>3, <1>4, <2>1 DEF Begin, Start, Goto
  <2>2. CASE r \notin Forced
    BY <1>1, <1>3, <1>4, <2>2 DEF Begin, Start, Goto
  <2>3. QED
    BY <2>1, <2>2
<1>5. ASSUME NEW c \in Cards, BeginCancel(s, c) PROVE MembershipInv'
  <2>1. req' = [req EXCEPT ![s] = NoOne] /\ {c} \in SUBSET Cards
    BY <1>1, <1>5 DEF BeginCancel
  <2>2. QED
    BY <1>3, <1>5, <2>1 DEF BeginCancel, Goto
<1>6. ASSUME NEW r \in Purchases, BeginRefund(s, r) PROVE MembershipInv'
  BY <1>1, <1>3, <1>6 DEF BeginRefund, Start, Goto, Requests
<1>7. ASSUME View(s) PROVE MembershipInv'
  BY <1>1, <1>3, <1>7 DEF View, Start, Goto
<1>8. QED
  BY <1>4, <1>5, <1>6, <1>7

\* The SELECT: a row that is active and stale has passed its term.
LEMMA LookStep ==
  ASSUME MembershipInv, NEW s \in Sessions, Look(s)
  PROVE  MembershipInv'
<1>1. /\ pc[s] = "look" /\ found[s] = {} /\ Held(s) = {}
      /\ req[s] \in Requests \cup {NoOne}
      /\ req' = [req EXCEPT ![s] = req[s]] /\ UNCHANGED <<now, db, mine, req>>
      /\ found = [found EXCEPT ![s] = found[s]]
  BY DEF Look, MembershipInv, SessionOK, TypesOK
<1>2. UNCHANGED <<status, member>> /\ Held(s)' = {} /\ OnlyRetires(s)' /\ req'[s] = req[s]
  BY <1>1 DEF db, Held, OnlyRetires
<1>3. CASE pc' = [pc EXCEPT ![s] = Without(req[s])] /\ UNCHANGED found
  <2>1. pc'[s] = Without(req[s]) /\ found'[s] = {}
    BY <1>1, <1>3 DEF MembershipInv, TypesOK
  <2>2. Buys(s)'
    BY <1>2, <2>1 DEF Buys
  <2>3. /\ Without(req[s]) \in Steps /\ (Without(req[s]) \in Writing => req[s] = NoOne)
        /\ Without(req[s]) = "commit" => req[s] \notin Sales
        /\ \/ Without(req[s]) = "record" /\ req[s] \in Requests
           \/ Without(req[s]) = "commit" /\ req[s] = NoOne
    BY <1>1, MembershipAssumption DEF Without, Steps, Writing, Requests
  <2>4. SessionOK(s)'
    <3>1. CASE pc'[s] = "record" /\ req[s] \in Requests
      BY <1>2, <2>1, <2>2, <3>1, MembershipAssumption DEF SessionOK
    <3>2. CASE pc'[s] = "commit" /\ req[s] = NoOne
      BY <1>2, <2>1, <2>2, <3>2, MembershipAssumption DEF SessionOK, Requests
    <3>3. QED
      BY <2>1, <2>3, <3>1, <3>2
  <2>5. found' = [found EXCEPT ![s] = {}] /\ {} \in SUBSET Cards
    BY <1>1, <1>3
  <2>6. QED
    BY <1>1, <1>3, <2>3, <2>4, <2>5, Moved
<1>4. ASSUME NEW c \in Cards, Active(member[c]), found' = [found EXCEPT ![s] = {c}],
             NEW p \in Steps, pc' = [pc EXCEPT ![s] = p],
             p = Using(req[s]) \/ p \in Stale(member[c])
      PROVE  MembershipInv'
  <2>1. member[c].status # "none" /\ member[c].balance > 0
    BY <1>4 DEF Active, MembershipInv, MembersOK
  <2>2. p \in Stale(member[c]) => p = "expired" /\ Over(member[c])
    BY <2>1 DEF Stale
  <2>3. p = Using(req[s]) =>
          \/ p = "deduct" /\ req[s] \in Purchases /\ Cost[req[s]] > 0
          \/ p = "record" /\ req[s] \in Purchases /\ Cost[req[s]] = 0
          \/ p = "refuse"
          \/ p = "commit" /\ req[s] = NoOne
    BY <1>1, MembershipAssumption DEF Using, Requests
  <2>4. pc'[s] = p /\ found'[s] = {c} /\ {c} \in SUBSET Cards
    BY <1>4 DEF MembershipInv, TypesOK
  <2>5. p = "record" => Buys(s)'
    BY <1>2, <1>4, <2>2, <2>3, <2>4 DEF Buys
  <2>6. p = "expired" => Over(member[c])'
    BY <1>1, <1>2, <1>4, <2>2, <2>3 DEF Over
  <2>7. SessionOK(s)'
    BY <1>1, <1>2, <1>4, <2>1, <2>2, <2>3, <2>4, <2>5, <2>6, MembershipAssumption
    DEF SessionOK, Requests
  <2>8. (p \in Writing => req[s] = NoOne) /\ (p = "commit" => req[s] \notin Sales)
    BY <1>4, <2>2, <2>3, MembershipAssumption DEF Writing, Requests
  <2>9. QED
    BY <1>1, <1>4, <2>4, <2>7, <2>8, Moved
<1>5. ASSUME NEW c \in Cards, Active(member[c]), NEW p,
             p = Using(req[s]) \/ p \in Stale(member[c])
      PROVE  p \in Steps
  BY <1>5 DEF Active, MembershipInv, MembersOK, Stale, Using, Steps
<1>6. QED
  BY <1>3, <1>4, <1>5 DEF Look, Goto

LEMMA RetireStep ==
  ASSUME MembershipInv, NEW s \in Sessions, Retire(s)
  PROVE  MembershipInv'
<1>1. PICK c \in found[s] :
        /\ pc[s] \in {"exhausted", "expired"} /\ RowFree(s, c)
        /\ mine' = [mine EXCEPT ![s] = With(@, c, [member[c] EXCEPT !.status = pc[s]])]
        /\ found' = [found EXCEPT ![s] = {}]
        /\ Goto(s, Without(req[s]))
        /\ UNCHANGED <<now, db, req>>
  BY DEF Retire
<1> DEFINE k == [member[c] EXCEPT !.status = pc[s]]
           p == Without(req[s])
<1>2. /\ pc[s] = "expired" /\ Held(s) = {} /\ c \in Cards
      /\ member[c].status # "none" /\ Over(member[c])
  BY <1>1 DEF MembershipInv, TypesOK, Steps, SessionOK
<1>3. /\ k \in Rows /\ k.status = "expired" /\ k.balance = member[c].balance
      /\ k.paid = member[c].paid /\ k.expires = member[c].expires
  BY <1>2 DEF MembershipInv, TypesOK, Rows, Statuses
<1> HIDE DEF k
<1>4. /\ req'[s] = req[s] /\ req[s] \in Requests \cup {NoOne} /\ pc'[s] = p /\ found'[s] = {}
      /\ UNCHANGED <<status, member, now>>
  BY <1>1 DEF MembershipInv, TypesOK, Goto, db
<1>5. Held(s)' = {c} /\ mine'[s][c] = k
  BY <1>1, <1>2 DEF Held, With, MembershipInv, TypesOK, k
<1>6. OnlyRetires(s)'
  BY <1>2, <1>3, <1>4, <1>5 DEF OnlyRetires, Retires, Over
<1>7. Buys(s)'
  BY <1>4, <1>6 DEF Buys
<1>8. (p = "record" /\ req[s] \in Requests) \/ (p = "commit" /\ req[s] = NoOne)
  BY <1>4 DEF Without
<1>9. SessionOK(s)'
  <2>1. CASE p = "record" /\ req[s] \in Requests
    BY <1>4, <1>6, <1>7, <2>1, MembershipAssumption DEF SessionOK
  <2>2. CASE p = "commit" /\ req[s] = NoOne
    BY <1>4, <1>6, <1>7, <2>2, MembershipAssumption DEF SessionOK, Requests
  <2>3. QED
    BY <1>8, <2>1, <2>2
<1>10. ~Seller(s)'
  BY <1>4, <1>8, MembershipAssumption DEF Seller, Requests
<1>11. p \in Steps /\ (p \in Writing => req[s] = NoOne)
  BY <1>8 DEF Steps, Writing
<1>12. QED
  BY <1>1, <1>2, <1>3, <1>9, <1>10, <1>11, Wrote DEF Goto, k

LEMMA DrainedRow ==
  ASSUME NEW k \in Rows, NEW a \in 0..k.balance
  PROVE  /\ Drained(k, a) \in Rows
         /\ Drained(k, a).balance = k.balance - a
         /\ Drained(k, a).paid = k.paid /\ Drained(k, a).expires = k.expires
         /\ Drained(k, a).status = IF k.balance - a = 0 THEN "exhausted" ELSE k.status
<1>1. k.status \in Statuses /\ k.balance \in Nat /\ k.balance - a \in Nat
  BY DEF Rows
<1> DEFINE j == [k EXCEPT !.balance = @ - a]
           to == IF k.balance - a = 0 THEN "exhausted" ELSE k.status
<1>2. /\ j \in Rows /\ j.balance = k.balance - a
      /\ j.paid = k.paid /\ j.expires = k.expires /\ j.status = k.status
  BY <1>1 DEF Rows
<1>3. Drained(k, a) = [j EXCEPT !.status = to]
  BY DEF Drained
<1>4. to \in Statuses
  BY <1>1 DEF Statuses
<1> HIDE DEF j, to
<1>5. /\ [j EXCEPT !.status = to] \in Rows
      /\ [j EXCEPT !.status = to].status = to
      /\ [j EXCEPT !.status = to].balance = j.balance
      /\ [j EXCEPT !.status = to].paid = j.paid
      /\ [j EXCEPT !.status = to].expires = j.expires
  BY <1>2, <1>4 DEF Rows
<1>6. QED
  BY <1>2, <1>3, <1>5 DEF to

LEMMA DeductStep ==
  ASSUME MembershipInv, NEW s \in Sessions, Deduct(s)
  PROVE  MembershipInv'
<1>1. PICK c \in found[s] :
        /\ pc[s] = "deduct" /\ RowFree(s, c)
        /\ Covers(member[c], Cost[req[s]])
        /\ mine' = [mine EXCEPT ![s] = With(@, c, Drained(member[c], Cost[req[s]]))]
        /\ Goto(s, "record")
        /\ UNCHANGED <<now, db, req, found>>
  BY DEF Deduct
<1>2. /\ req[s] \in Purchases /\ Cost[req[s]] > 0 /\ Held(s) = {}
      /\ c \in Cards /\ found[s] = {c} /\ member[c] \in Rows
  BY <1>1 DEF MembershipInv, TypesOK, SessionOK
<1>3. Cost[req[s]] \in 1..member[c].balance /\ Active(member[c])
  BY <1>1, <1>2, MembershipAssumption DEF Covers, Rows
<1> DEFINE k == Drained(member[c], Cost[req[s]])
<1>4. k \in Rows
  BY <1>2, <1>3, DrainedRow
<1> HIDE DEF k
<1>5. /\ pc'[s] = "record" /\ found'[s] = {c} /\ req'[s] = req[s]
      /\ UNCHANGED <<member, status>>
  BY <1>1, <1>2 DEF Goto, MembershipInv, TypesOK, db
<1>6. Held(s)' = {c} /\ mine'[s][c] = k
  BY <1>1, <1>2 DEF Held, With, MembershipInv, TypesOK, k
<1>7. Draws(s)'
  BY <1>2, <1>3, <1>5, <1>6 DEF Draws, k
<1>8. SessionOK(s)' /\ ~Seller(s)'
  BY <1>2, <1>5, <1>7, MembershipAssumption DEF SessionOK, Buys, Requests, Seller
<1>9. /\ "record" \in Steps /\ "record" \notin Writing
      /\ found[s] \in SUBSET Cards /\ found' = [found EXCEPT ![s] = found[s]] /\ UNCHANGED <<now, db, req>>
  BY <1>1 DEF Steps, Writing, MembershipInv, TypesOK
<1>10. QED
  BY <1>1, <1>2, <1>4, <1>8, <1>9, Wrote DEF Goto, k

LEMMA RecordStep ==
  ASSUME MembershipInv, NEW s \in Sessions, Record(s)
  PROVE  MembershipInv'
<1> DEFINE p == IF req[s] \in Sales THEN "insert" ELSE "commit"
<1>1. /\ pc[s] = "record" /\ status[req[s]] = "new" /\ TxFree(s, req[s])
      /\ pc' = [pc EXCEPT ![s] = p] /\ UNCHANGED <<now, db, req, found, mine>>
  BY DEF Record, Goto
<1>2. /\ p \in Steps /\ (p = "commit" => req[s] \notin Sales) /\ req[s] \in Requests
      /\ p = "insert" => req[s] \in Sales
      /\ p \in {"insert", "commit"}
  BY <1>1 DEF Steps, MembershipInv, SessionOK
<1> HIDE DEF p
<1>3. /\ pc'[s] = p /\ req'[s] = req[s] /\ found'[s] = found[s] /\ UNCHANGED <<status, member, now>>
      /\ Held(s)' = Held(s) /\ mine'[s] = mine[s] /\ req[s] # NoOne
  BY <1>1, <1>2, MembershipAssumption DEF MembershipInv, TypesOK, db, Held
<1>4. /\ req[s] \in Purchases => Buys(s)
      /\ req[s] \in Sales => found[s] = {} /\ OnlyRetires(s)
  BY <1>1 DEF MembershipInv, SessionOK
<1>5. /\ req[s] \in Purchases => Buys(s)'
      /\ req[s] \in Sales => OnlyRetires(s)'
  BY <1>3, <1>4 DEF Buys, Draws, OnlyRetires, Retires, Over
<1>6. SessionOK(s)'
  BY <1>1, <1>2, <1>3, <1>4, <1>5 DEF SessionOK
<1>7. /\ found' = [found EXCEPT ![s] = found[s]] /\ req' = [req EXCEPT ![s] = req[s]]
      /\ found[s] \in SUBSET Cards /\ UNCHANGED <<now, db, mine>>
  BY <1>1 DEF MembershipInv, TypesOK
<1>8. QED
  BY <1>1, <1>2, <1>6, <1>7, Moved

\* The unique index: the row that was live is held by the seller itself, and a
\* seller that has not committed holds the index.
LEMMA InsertStep ==
  ASSUME MembershipInv, NEW s \in Sessions, Insert(s)
  PROVE  MembershipInv'
<1>1. pc[s] = "insert" /\ IndexFree(s) /\ Goto(s, "commit") /\ UNCHANGED <<now, db, req, found>>
  BY DEF Insert
<1>2. PICK c \in Cards :
        Unused(c) /\ mine' = [mine EXCEPT ![s] = With(@, c, NewMember(req[s]))]
  BY DEF Insert
<1>3. /\ req[s] \in Sales /\ req[s] \in Requests /\ req[s] # NoOne /\ found[s] = {}
      /\ OnlyRetires(s) /\ status[req[s]] = "new" /\ req[s] \notin Purchases
  BY <1>1, MembershipAssumption DEF MembershipInv, SessionOK, Requests
<1> DEFINE k == NewMember(req[s])
<1>4. k \in Rows /\ Active(k) /\ k.balance = Paid[req[s]] /\ k.paid = Paid[req[s]]
  BY <1>3, MembershipAssumption DEF NewMember, Rows, Statuses, Active, MembershipInv, TypesOK
<1> HIDE DEF k
<1>5. /\ pc'[s] = "commit" /\ found'[s] = {} /\ req'[s] = req[s]
      /\ UNCHANGED <<member, status, now>>
  BY <1>1, <1>3 DEF Goto, MembershipInv, TypesOK, db
<1>6. /\ c \notin Held(s) /\ RowFree(s, c) /\ member[c].status = "none"
      /\ Held(s)' = Held(s) \cup {c} /\ mine'[s][c] = k
      /\ \A d \in Held(s) : mine'[s][d] = mine[s][d]
  BY <1>2 DEF Unused, RowFree, Held, With, MembershipInv, TypesOK, k
<1>7. Sells(s)'
  <2>1. \A d \in Held(s) : Retires(d, mine[s][d], req[s])
    BY <1>3 DEF OnlyRetires
  <2>2. \A d \in Held(s) : Retires(d, mine[s][d], req[s])'
    BY <1>5, <1>6, <2>1 DEF Retires, Over
  <2>3. \A d \in Held(s)' \ {c} : Retires(d, mine[s][d], req[s])'
    BY <1>6, <2>2
  <2>4. c \in Held(s)'
    BY <1>6
  <2>5. (member[c].status = "none")' /\ Active(mine[s][c])'
    BY <1>4, <1>5, <1>6 DEF Active
  <2>6. (mine[s][c].balance = Paid[req[s]] /\ mine[s][c].paid = Paid[req[s]])'
    BY <1>4, <1>5, <1>6
  <2>7. QED
    BY <2>3, <2>4, <2>5, <2>6 DEF Sells
<1>8. SessionOK(s)'
  BY <1>3, <1>5, <1>7 DEF SessionOK
<1>9. TxFree(s, req[s])
  BY <1>1, <1>3 DEF TxFree, MembershipInv, LocksOK, Writing
<1>10. ASSUME NEW t \in Sessions \ {s}, Seller(t) PROVE FALSE
  <2>1. PICK d \in Held(t) : Active(mine[t][d]) /\ d \in Cards
    BY <1>10 DEF Seller, MembershipInv, TypesOK, SessionOK, Sells
  <2>2. ~RowFree(s, d) /\ Active(Seen(t, d))
    BY <2>1 DEF RowFree, Held, Seen
  <2>3. QED
    BY <1>1, <2>1, <2>2 DEF IndexFree
<1>11. ASSUME NEW d \in Cards, Active(member[d]) PROVE d \in Held(s) \cup {c}
  BY <1>1, <1>11 DEF IndexFree, Seen, Held
<1>12. /\ "commit" \in Steps /\ UNCHANGED <<now, db, req>>
       /\ {} \in SUBSET Cards /\ found' = [found EXCEPT ![s] = {}]
  BY <1>1, <1>3 DEF Steps, MembershipInv, TypesOK
<1>13. QED
  BY <1>1, <1>2, <1>4, <1>6, <1>8, <1>9, <1>10, <1>11, <1>12, Wrote DEF Goto, k

LEMMA CancelStep ==
  ASSUME MembershipInv, NEW s \in Sessions, Cancel(s)
  PROVE  MembershipInv'
<1>1. PICK c \in found[s] :
        /\ pc[s] = "cancel" /\ RowFree(s, c) /\ Active(member[c])
        /\ mine' = [mine EXCEPT ![s] = With(@, c, Cancelled(member[c]))]
        /\ Goto(s, "commit") /\ UNCHANGED <<now, db, req, found>>
  BY DEF Cancel
<1>2. /\ req[s] = NoOne /\ req[s] \notin Requests /\ Held(s) = {} /\ c \in Cards
      /\ member[c] \in Rows /\ member[c].status # "none"
  BY <1>1, MembershipAssumption DEF MembershipInv, TypesOK, SessionOK, Active
<1> DEFINE k == Cancelled(member[c])
<1>3. /\ k \in Rows /\ k.status = "cancelled" /\ k.balance = member[c].balance
      /\ k.paid = member[c].paid /\ k.expires = member[c].expires
  BY <1>2 DEF Cancelled, Rows, Statuses
<1> HIDE DEF k
<1>4. /\ pc'[s] = "commit" /\ req'[s] = NoOne /\ req'[s] \notin Requests /\ UNCHANGED <<member, status, now>>
  BY <1>1, <1>2 DEF Goto, MembershipInv, TypesOK, db
<1>5. Held(s)' = {c} /\ mine'[s][c] = k
  BY <1>1, <1>2 DEF Held, With, MembershipInv, TypesOK, k
<1>6. OnlyRetires(s)'
  BY <1>2, <1>3, <1>4, <1>5 DEF OnlyRetires, Retires
<1>7. SessionOK(s)' /\ ~Seller(s)'
  BY <1>4, <1>6 DEF SessionOK, Seller, Requests
<1>8. /\ "commit" \in Steps /\ UNCHANGED <<now, db, req>>
      /\ found[s] \in SUBSET Cards /\ found' = [found EXCEPT ![s] = found[s]]
  BY <1>1 DEF Steps, MembershipInv, TypesOK
<1>9. QED
  BY <1>1, <1>2, <1>3, <1>7, <1>8, Wrote DEF Goto, k

LEMMA RollBackSteps ==
  ASSUME MembershipInv, NEW s \in Sessions,
         \/ Refuse(s) \/ Short(s) \/ RecordFails(s) \/ InsertFails(s) \/ NoneToCancel(s) \/ Abort(s)
  PROVE  RollBack(s) /\ MembershipInv'
<1>1. RollBack(s)
  BY DEF Refuse, Short, RecordFails, InsertFails, NoneToCancel, Abort
<1>2. QED
  BY <1>1, Forgotten

-----------------------------------------------------------------------------
(* What has been charged *)

On(l, c) == [i \in DOMAIN l |-> IF l[i].on = c THEN l[i].amount ELSE 0]

LEMMA OnIsASeq ==
  ASSUME NEW l \in Seq(Entries), NEW c
  PROVE  /\ On(l, c) \in Seq(Int) /\ Len(On(l, c)) = Len(l)
         /\ \A i \in 1..Len(l) : On(l, c)[i] = IF l[i].on = c THEN l[i].amount ELSE 0
<1>1. DOMAIN l = 1..Len(l) /\ Len(l) \in Nat /\ \A i \in 1..Len(l) : l[i] \in Entries
  BY LenProperties, ElementOfSeq
<1>2. /\ On(l, c) \in [1..Len(l) -> Int]
      /\ \A i \in 1..Len(l) : On(l, c)[i] = IF l[i].on = c THEN l[i].amount ELSE 0
  BY <1>1 DEF On, Entries
<1> HIDE DEF On
<1>3. QED
  BY <1>1, <1>2, IsASeq, LenProperties

LEMMA OneMoreCharge ==
  ASSUME NEW l \in Seq(Entries), NEW e \in Entries, NEW c
  PROVE  /\ Total(On(l, c)) \in Int
         /\ Total(On(Append(l, e), c)) = Total(On(l, c)) + IF e.on = c THEN e.amount ELSE 0
<1> DEFINE m == Append(l, e)
           x == IF e.on = c THEN e.amount ELSE 0
<1>1. x \in Int
  BY DEF Entries
<1>2. /\ m \in Seq(Entries) /\ Len(m) = Len(l) + 1 /\ Len(l) \in Nat
      /\ m[Len(l) + 1] = e /\ \A i \in 1..Len(l) : m[i] = l[i]
  BY AppendProperties, LenProperties
<1> HIDE DEF m
<1>3. On(l, c) \in Seq(Int) /\ Len(On(l, c)) = Len(l)
  BY OnIsASeq
<1>4. /\ On(m, c) \in Seq(Int) /\ Len(On(m, c)) = Len(l) + 1
      /\ \A i \in 1..(Len(l) + 1) : On(m, c)[i] = IF m[i].on = c THEN m[i].amount ELSE 0
  BY <1>2, OnIsASeq
<1> HIDE DEF x
<1>5. /\ Append(On(l, c), x) \in Seq(Int) /\ Len(Append(On(l, c), x)) = Len(l) + 1
      /\ Append(On(l, c), x)[Len(l) + 1] = x
      /\ \A i \in 1..Len(l) : Append(On(l, c), x)[i] = On(l, c)[i]
  BY <1>1, <1>3, AppendProperties
<1>6. ASSUME NEW i \in 1..(Len(l) + 1) PROVE On(m, c)[i] = Append(On(l, c), x)[i]
  <2>1. On(m, c)[i] = IF m[i].on = c THEN m[i].amount ELSE 0
    BY <1>4
  <2>2. CASE i \in 1..Len(l)
    BY <1>2, <1>5, <2>1, <2>2, OnIsASeq
  <2>3. CASE i = Len(l) + 1
    <3>1. m[i] = e /\ Append(On(l, c), x)[i] = x
      BY <1>2, <1>5, <2>3
    <3>2. QED
      BY <2>1, <3>1 DEF x
  <2>4. i \in 1..Len(l) \/ i = Len(l) + 1
    BY LenProperties
  <2>5. QED
    BY <2>2, <2>3, <2>4
<1>7. On(m, c) = Append(On(l, c), x)
  BY <1>4, <1>5, <1>6, SeqEqual
<1>8. QED
  BY <1>1, <1>3, <1>7, TotalInt, TotalAppend DEF x, m

LEMMA OnIsInt ==
  ASSUME NEW l \in Seq(Entries), NEW c
  PROVE  Total(On(l, c)) \in Int
BY OnIsASeq, TotalInt

LEMMA ChargedToIsOn ==
  ASSUME NEW c
  PROVE  ChargedTo(c) = Total(On(charges, c)) /\ ChargedTo(c)' = Total(On(charges', c))
BY DEF ChargedTo, On

-----------------------------------------------------------------------------
(* A commit is one of three: it closes rows, pays from one, or sells one *)

LEMMA CommitBasics ==
  ASSUME MembershipInv, NEW s \in Sessions, Commit(s)
  PROVE  /\ pc[s] \in {"commit", "reverse"} /\ charges' = charges \o Charge(s)
         /\ pc'[s] = "idle" /\ req'[s] = NoOne /\ found'[s] = {} /\ Held(s)' = {}
         /\ UNCHANGED now /\ Alone(s)
         /\ pc' \in [Sessions -> Steps] /\ req' \in [Sessions -> Requests \cup {NoOne}]
         /\ found' \in [Sessions -> SUBSET Cards] /\ DOMAIN mine' = Sessions
         /\ member' \in [Cards -> Rows]
         /\ \A c \in Cards : member'[c] = IF c \in Held(s) THEN mine[s][c] ELSE member[c]
         /\ status' \in [Requests -> {"new", "committed", "reversed"}]
         /\ \A r \in Requests : r # req[s] => status'[r] = status[r]
         /\ req[s] \in Requests => status'[req[s]] # "new"
<1>1. /\ pc[s] \in {"commit", "reverse"} /\ charges' = charges \o Charge(s) /\ UNCHANGED now
      /\ pc' = [pc EXCEPT ![s] = "idle"] /\ req' = [req EXCEPT ![s] = NoOne]
      /\ found' = [found EXCEPT ![s] = {}] /\ mine' = [mine EXCEPT ![s] = NoRow]
      /\ member' = [c \in Cards |-> Seen(s, c)]
      /\ status' = [r \in Requests |->
                      IF r # req[s] THEN status[r]
                      ELSE IF pc[s] = "reverse" THEN "reversed" ELSE "committed"]
  BY DEF Commit, Forget, Goto
<1>2. /\ pc' \in [Sessions -> Steps] /\ req' \in [Sessions -> Requests \cup {NoOne}]
      /\ found' \in [Sessions -> SUBSET Cards] /\ DOMAIN mine' = Sessions
      /\ pc'[s] = "idle" /\ req'[s] = NoOne /\ found'[s] = {} /\ mine'[s] = NoRow /\ Alone(s)
  BY <1>1 DEF MembershipInv, TypesOK, Steps, Alone
<1>3. Held(s)' = {}
  BY <1>2, NothingHeld DEF Held
<1>4. \A c \in Cards : member'[c] = IF c \in Held(s) THEN mine[s][c] ELSE member[c]
  BY <1>1 DEF Seen, Held
<1>5. member' \in [Cards -> Rows]
  BY <1>1 DEF Seen, Held, MembershipInv, TypesOK
<1>6. /\ status' \in [Requests -> {"new", "committed", "reversed"}]
      /\ \A r \in Requests : r # req[s] => status'[r] = status[r]
      /\ req[s] \in Requests => status'[req[s]] # "new"
  BY <1>1 DEF MembershipInv, TypesOK
<1>7. QED
  BY <1>1, <1>2, <1>3, <1>4, <1>5, <1>6

Bill(s, c) == [on |-> c, tx |-> req[s], amount |-> Cost[req[s]]]

Closes(s) == OnlyRetires(s) /\ Charge(s) = <<>>

PaysFrom(s, c) ==
  /\ pc[s] = "commit" /\ req[s] \in Purchases /\ Charge(s) = <<Bill(s, c)>>
  /\ \/ Held(s) = {} /\ Cost[req[s]] = 0
     \/ /\ Held(s) = {c} /\ Active(member[c]) /\ Cost[req[s]] \in 1..member[c].balance
        /\ mine[s][c] = Drained(member[c], Cost[req[s]])

LEMMA CommitKinds ==
  ASSUME MembershipInv, NEW s \in Sessions, pc[s] \in {"commit", "reverse"}
  PROVE  \/ Closes(s)
         \/ \E c \in Cards : PaysFrom(s, c)
         \/ Seller(s) /\ Sells(s) /\ Charge(s) = <<>>
<1>1. SessionOK(s) /\ req[s] \in Requests \cup {NoOne}
  BY DEF MembershipInv, TypesOK
<1>2. CASE pc[s] = "reverse"
  BY <1>1, <1>2 DEF SessionOK, Closes, OnlyRetires, Charge
<1>3. CASE pc[s] = "commit" /\ req[s] = NoOne
  BY <1>1, <1>3, MembershipAssumption DEF SessionOK, Closes, Charge, Requests
<1>4. CASE pc[s] = "commit" /\ req[s] \in Sales
  BY <1>1, <1>4, MembershipAssumption DEF SessionOK, Seller, Charge
<1>5. CASE pc[s] = "commit" /\ req[s] \in Purchases
  <2>1. Buys(s)
    BY <1>1, <1>5 DEF SessionOK
  <2>2. CASE found[s] = {} /\ OnlyRetires(s)
    BY <2>2 DEF Closes, Charge
  <2>3. ASSUME NEW c \in Cards, found[s] = {c} PROVE Charge(s) = <<Bill(s, c)>>
    BY <1>5, <2>3 DEF Charge, Bill
  <2>4. QED
    BY <1>5, <2>1, <2>2, <2>3 DEF Buys, Draws, PaysFrom
<1>6. QED
  BY <1>1, <1>2, <1>3, <1>4, <1>5 DEF Requests

\* What every commit keeps of the rows.
RowsKept(s) ==
  \A c \in Cards : member[c].status # "none" =>
    /\ member'[c].status # "none"
    /\ member'[c].expires = member[c].expires /\ member'[c].paid = member[c].paid

LEMMA CloseCommit ==
  ASSUME MembershipInv, NEW s \in Sessions, Commit(s), Closes(s)
  PROVE  /\ MembersOK' /\ DepositFollowsCharges' /\ charges' = charges /\ RowsKept(s)
         /\ \A c \in Cards : /\ member'[c].balance = member[c].balance
                             /\ member'[c].expires = member[c].expires
                             /\ Active(member'[c]) => c \notin Held(s) /\ Active(member[c])
<1>1. \A c \in Cards : \/ member'[c] = member[c] /\ c \notin Held(s)
                       \/ Retires(c, member'[c], req[s])
  BY CommitBasics DEF Closes, OnlyRetires
<1>2. \A c \in Cards :
        /\ member'[c].balance = member[c].balance /\ member'[c].paid = member[c].paid
        /\ member'[c].expires = member[c].expires
        /\ Active(member'[c]) => c \notin Held(s) /\ member'[c] = member[c] /\ Active(member[c])
        /\ member'[c].status = "none" <=> member[c].status = "none"
        /\ member'[c].status = "none" => member'[c] = member[c]
  BY <1>1 DEF Retires, Active
<1>3. charges' = charges
  BY CommitBasics DEF Closes, MembershipInv, TypesOK
<1>4. MembersOK'
  BY <1>2 DEF MembershipInv, MembersOK
<1>5. DepositFollowsCharges'
  BY <1>2, <1>3 DEF MembershipInv, ChargesOK, DepositFollowsCharges, ChargedTo
<1>6. QED
  BY <1>2, <1>3, <1>4, <1>5 DEF RowsKept

LEMMA PayCommit ==
  ASSUME MembershipInv, NEW s \in Sessions, Commit(s), NEW c \in Cards, PaysFrom(s, c)
  PROVE  /\ MembersOK' /\ DepositFollowsCharges' /\ RowsKept(s)
         /\ charges' = Append(charges, Bill(s, c)) /\ Bill(s, c) \in Entries
         /\ status[req[s]] = "new"
         /\ \A d \in Cards : /\ member'[d].expires = member[d].expires
                             /\ Active(member'[d]) => Active(member[d])
         /\ \/ member' = member
            \/ /\ Active(member[c]) /\ Cost[req[s]] \in 1..member[c].balance
               /\ member'[c] = Drained(member[c], Cost[req[s]])
               /\ \A d \in Cards \ {c} : member'[d] = member[d]
<1>1. /\ pc[s] = "commit" /\ req[s] \in Purchases /\ Charge(s) = <<Bill(s, c)>>
      /\ Cost[req[s]] \in Nat /\ status[req[s]] = "new" /\ member[c] \in Rows
      /\ charges \in Seq(Entries)
  BY MembershipAssumption DEF PaysFrom, MembershipInv, TypesOK, SessionOK, Requests
<1>2. \/ member' = member /\ Cost[req[s]] = 0
      \/ /\ Active(member[c]) /\ Cost[req[s]] \in 1..member[c].balance
         /\ member'[c] = Drained(member[c], Cost[req[s]])
         /\ \A d \in Cards \ {c} : member'[d] = member[d]
  BY CommitBasics DEF PaysFrom, MembershipInv, TypesOK
<1> DEFINE a == Cost[req[s]]
<1>3. /\ \A d \in Cards \ {c} : member'[d] = member[d]
      /\ member'[c].balance = member[c].balance - a /\ member'[c].paid = member[c].paid
      /\ member'[c].expires = member[c].expires
      /\ Active(member'[c]) => Active(member[c]) /\ member'[c].balance > 0
      /\ member'[c].status = "none" => member'[c] = member[c]
      /\ member[c].status # "none" => member'[c].status # "none"
  <2>1. CASE member' = member /\ a = 0
    BY <1>1, <2>1 DEF MembershipInv, MembersOK, Rows
  <2>2. CASE /\ Active(member[c]) /\ a \in 1..member[c].balance
             /\ member'[c] = Drained(member[c], a)
             /\ \A d \in Cards \ {c} : member'[d] = member[d]
    <3>1. a \in 0..member[c].balance /\ member[c].balance \in Nat
      BY <1>1, <2>2 DEF Rows
    <3>2. /\ member'[c].balance = member[c].balance - a
          /\ member'[c].paid = member[c].paid /\ member'[c].expires = member[c].expires
          /\ member'[c].status = IF member[c].balance - a = 0 THEN "exhausted" ELSE member[c].status
      BY <1>1, <2>2, <3>1, DrainedRow
    <3>3. QED
      BY <1>1, <2>2, <3>1, <3>2 DEF Active
  <2>3. QED
    BY <1>2, <2>1, <2>2
<1>4. MembersOK'
  BY <1>3 DEF MembershipInv, MembersOK
<1>5. Bill(s, c) \in Entries
  BY <1>1 DEF Bill, Entries
<1>6. charges' = Append(charges, Bill(s, c))
  <2>1. charges' = charges \o <<Bill(s, c)>>
    BY <1>1, CommitBasics
  <2> HIDE DEF Bill
  <2>2. QED
    BY <1>1, <1>5, <2>1
<1>7. DepositFollowsCharges'
  <2>1. ASSUME NEW d \in Cards PROVE member'[d].balance = member'[d].paid - ChargedTo(d)'
    <3>1. /\ ChargedTo(d)' = ChargedTo(d) + IF d = c THEN a ELSE 0
          /\ ChargedTo(d) \in Int
      <4>1. Bill(s, c).on = c /\ Bill(s, c).amount = a
        BY DEF Bill
      <4>2. QED
        BY <1>1, <1>5, <1>6, <4>1, OneMoreCharge, ChargedToIsOn
    <3>2. member[d].balance = member[d].paid - ChargedTo(d) /\ member[d] \in Rows
      BY DEF MembershipInv, ChargesOK, DepositFollowsCharges, TypesOK
    <3>3. member'[d].balance = member[d].balance - (IF d = c THEN a ELSE 0)
          /\ member'[d].paid = member[d].paid
      BY <1>3, <3>2 DEF Rows
    <3>4. member[d].balance \in Int /\ member[d].paid \in Int /\ a \in Int
      BY <1>1, <3>2 DEF Rows
    <3> HIDE DEF a
    <3>5. CASE d = c
      BY <3>1, <3>2, <3>3, <3>4, <3>5
    <3>6. CASE d # c
      BY <3>1, <3>2, <3>3, <3>4, <3>6
    <3>7. QED
      BY <3>5, <3>6
  <2>2. ASSUME NEW i \in DOMAIN charges', NEW j \in DOMAIN charges', charges'[i].tx = charges'[j].tx
        PROVE  i = j
    <3>1. /\ Len(charges) \in Nat /\ DOMAIN charges = 1..Len(charges)
          /\ DOMAIN charges' = 1..(Len(charges) + 1)
          /\ charges'[Len(charges) + 1] = Bill(s, c)
          /\ \A n \in 1..Len(charges) : charges'[n] = charges[n]
      BY <1>1, <1>5, <1>6, AppendProperties, LenProperties
    <3>2. \A n \in 1..Len(charges) : charges[n].tx # req[s]
      BY <1>1, <3>1 DEF MembershipInv, ChargesOK
    <3>3. Bill(s, c).tx = req[s]
      BY DEF Bill
    <3>4. \A m, n \in 1..Len(charges) : charges[m].tx = charges[n].tx => m = n
      BY <3>1 DEF MembershipInv, ChargesOK, DepositFollowsCharges
    <3>5. QED
      BY <2>2, <3>1, <3>2, <3>3, <3>4
  <2>3. QED
    BY <2>1, <2>2 DEF DepositFollowsCharges
<1>8. RowsKept(s)
  BY <1>3 DEF RowsKept
<1>9. QED
  BY <1>1, <1>2, <1>3, <1>4, <1>5, <1>6, <1>7, <1>8

\* The row that was live, if any, has passed its term, and is closed by the same
\* commit.
LEMMA SellCommit ==
  ASSUME MembershipInv, NEW s \in Sessions, Commit(s), Seller(s), Sells(s), Charge(s) = <<>>
  PROVE  /\ MembersOK' /\ DepositFollowsCharges' /\ RowsKept(s) /\ charges' = charges
         /\ \E c \in Cards :
              /\ member[c] = NoMember /\ Active(member'[c]) /\ member'[c].balance > 0
              /\ \A d \in Cards \ {c} :
                   /\ member'[d].balance = member[d].balance /\ member'[d].expires = member[d].expires
                   /\ ~Active(member'[d]) /\ (Active(member[d]) => Over(member[d]))
<1>1. PICK c \in Held(s) :
        /\ member[c].status = "none"
        /\ Active(mine[s][c])
        /\ mine[s][c].balance = Paid[req[s]] /\ mine[s][c].paid = Paid[req[s]]
        /\ \A d \in Held(s) \ {c} : Retires(d, mine[s][d], req[s])
  BY DEF Sells
<1>2. /\ c \in Cards /\ member[c] = NoMember /\ member'[c] = mine[s][c]
      /\ Paid[req[s]] \in Nat \ {0} /\ req[s] # NoOne
  BY <1>1, CommitBasics, MembershipAssumption
  DEF MembershipInv, TypesOK, MembersOK, Seller, Requests
<1>3. charges' = charges
  <2>1. charges' = charges \o <<>>
    BY CommitBasics
  <2>2. charges \in Seq(Entries)
    BY DEF MembershipInv, TypesOK
  <2>3. charges \o <<>> = charges
    BY <2>2
  <2>4. QED
    BY <2>1, <2>3
<1>4. ASSUME NEW d \in Cards \ {c}
      PROVE  /\ member'[d].balance = member[d].balance /\ member'[d].paid = member[d].paid
             /\ member'[d].expires = member[d].expires
             /\ ~Active(member'[d]) /\ (Active(member[d]) => Over(member[d]))
             /\ member'[d].status = "none" <=> member[d].status = "none"
             /\ member'[d].status = "none" => member'[d] = member[d]
  <2>1. CASE d \in Held(s)
    <3>1. member'[d] = mine[s][d] /\ Retires(d, mine[s][d], req[s])
      BY <1>1, <2>1, CommitBasics
    <3>2. QED
      BY <1>2, <3>1 DEF Retires, Active
  <2>2. CASE d \notin Held(s)
    <3>1. member'[d] = member[d] /\ ~Active(member[d])
      BY <2>2, CommitBasics DEF MembershipInv, SellersOK
    <3>2. QED
      BY <3>1
  <2>3. QED
    BY <2>1, <2>2
<1>5. Active(member'[c]) /\ member'[c].balance = Paid[req[s]] /\ member'[c].paid = Paid[req[s]]
  BY <1>1, <1>2
<1>6. MembersOK'
  <2>1. member'[c].status # "none" /\ member'[c].balance > 0
    BY <1>2, <1>5 DEF Active
  <2>2. QED
    BY <1>4, <1>5, <2>1 DEF MembershipInv, MembersOK
<1>7. DepositFollowsCharges'
  <2>1. \A d \in Cards : ChargedTo(d)' = ChargedTo(d) /\ ChargedTo(d) \in Int
    BY <1>3, OnIsInt, ChargedToIsOn DEF MembershipInv, TypesOK
  <2>2. ChargedTo(c) = 0
    BY <1>2, <2>1 DEF MembershipInv, ChargesOK, DepositFollowsCharges, NoMember
  <2>3. ASSUME NEW d \in Cards PROVE member'[d].balance = member'[d].paid - ChargedTo(d)'
    <3>1. CASE d = c
      BY <1>2, <1>5, <2>1, <2>2, <3>1
    <3>2. CASE d # c
      BY <1>4, <2>1, <3>2 DEF MembershipInv, ChargesOK, DepositFollowsCharges
    <3>3. QED
      BY <3>1, <3>2
  <2>4. QED
    BY <1>3, <2>3 DEF MembershipInv, ChargesOK, DepositFollowsCharges
<1>8. RowsKept(s)
  BY <1>2, <1>4 DEF RowsKept, NoMember
<1>9. QED
  BY <1>2, <1>3, <1>4, <1>5, <1>6, <1>7, <1>8

CommitResult(s) ==
  /\ MembersOK' /\ DepositFollowsCharges' /\ RowsKept(s)
  /\ \/ charges' = charges
     \/ \E c \in Cards : /\ charges' = Append(charges, Bill(s, c)) /\ Bill(s, c) \in Entries
                         /\ req[s] \in Purchases
  /\ \A c \in Cards : Active(member'[c]) => c \notin Held(s) \/ Active(member[c]) \/ Seller(s)

LEMMA CommitHasResult ==
  ASSUME MembershipInv, NEW s \in Sessions, Commit(s)
  PROVE  CommitResult(s)
<1>1. CASE Closes(s)
  BY <1>1, CloseCommit DEF CommitResult
<1>2. ASSUME NEW c \in Cards, PaysFrom(s, c) PROVE CommitResult(s)
  BY <1>2, PayCommit DEF CommitResult, PaysFrom
<1>3. CASE Seller(s) /\ Sells(s) /\ Charge(s) = <<>>
  BY <1>3, SellCommit DEF CommitResult
<1>4. QED
  BY <1>1, <1>2, <1>3, CommitKinds, CommitBasics

LEMMA CommitStep ==
  ASSUME MembershipInv, NEW s \in Sessions, Commit(s)
  PROVE  MembershipInv'
<1>1. /\ pc[s] \in Writing /\ UNCHANGED now
      /\ pc'[s] = "idle" /\ req'[s] = NoOne /\ found'[s] = {} /\ Held(s)' = {} /\ Alone(s)
      /\ req[s] \in Requests \cup {NoOne}
  BY CommitBasics DEF Writing, MembershipInv, TypesOK
<1>2. CommitResult(s)
  BY CommitHasResult
<1>3. /\ \A r \in Requests : r # req[s] => status'[r] = status[r]
      /\ req[s] \in Requests => status'[req[s]] # "new"
  BY CommitBasics
<1>4. TypesOK'
  <2>1. charges' \in Seq(Entries)
    BY <1>2 DEF CommitResult, MembershipInv, TypesOK
  <2>2. ASSUME NEW t \in Sessions, NEW c \in Held(t)' PROVE c \in Cards /\ mine'[t][c] \in Rows
    BY <1>1, <2>2 DEF MembershipInv, TypesOK, Alone, Held
  <2>3. QED
    BY <1>1, <2>1, <2>2, CommitBasics DEF MembershipInv, TypesOK
<1>5. ChargesOK'
  <2>1. ASSUME NEW i \in DOMAIN charges' PROVE status'[charges'[i].tx] # "new"
    <3>1. \A n \in 1..Len(charges) : charges[n].tx \in Requests /\ status[charges[n].tx] # "new"
      <4>1. charges \in Seq(Entries) /\ DOMAIN charges = 1..Len(charges)
        BY LenProperties DEF MembershipInv, TypesOK
      <4>2. \A n \in 1..Len(charges) : charges[n] \in Entries
        BY <4>1, ElementOfSeq
      <4>3. QED
        BY <4>1, <4>2 DEF MembershipInv, ChargesOK, Entries, Requests
    <3>2. \A n \in 1..Len(charges) : status'[charges[n].tx] # "new"
      BY <1>3, <3>1
    <3>3. CASE charges' = charges
      BY <2>1, <3>2, <3>3, LenProperties DEF MembershipInv, TypesOK
    <3>4. ASSUME NEW c \in Cards, charges' = Append(charges, Bill(s, c)), Bill(s, c) \in Entries,
                 req[s] \in Purchases
          PROVE  status'[charges'[i].tx] # "new"
      <4>1. i \in 1..(Len(charges) + 1) /\ Len(charges) \in Nat /\ charges \in Seq(Entries)
        BY <2>1, <3>4, AppendProperties, LenProperties DEF MembershipInv, TypesOK
      <4>2. CASE i \in 1..Len(charges)
        BY <3>2, <3>4, <4>1, <4>2, AppendProperties
      <4>3. CASE i = Len(charges) + 1
        <5>1. charges'[i] = Bill(s, c)
          BY <3>4, <4>1, <4>3, AppendProperties
        <5>2. QED
          BY <1>3, <3>4, <5>1 DEF Bill, Requests
      <4>4. QED
        BY <4>1, <4>2, <4>3
    <3>5. QED
      BY <1>2, <3>3, <3>4 DEF CommitResult
  <2>2. QED
    BY <1>2, <2>1 DEF ChargesOK, CommitResult
<1>6. ASSUME NEW t \in Sessions, t # s
      PROVE  /\ pc'[t] = pc[t] /\ req'[t] = req[t] /\ found'[t] = found[t] /\ mine'[t] = mine[t]
             /\ Held(t)' = Held(t) /\ Held(t) \cap Held(s) = {}
             /\ \A c \in Held(t) : member'[c] = member[c] /\ c \in Cards
  <2>1. /\ pc'[t] = pc[t] /\ req'[t] = req[t] /\ found'[t] = found[t] /\ mine'[t] = mine[t]
        /\ Held(t)' = Held(t)
    BY <1>1, <1>6 DEF Alone, Held
  <2>2. Held(t) \cap Held(s) = {}
    BY <1>6 DEF MembershipInv, LocksOK
  <2>3. \A c \in Held(t) : c \in Cards
    BY DEF MembershipInv, TypesOK
  <2>4. QED
    BY <2>1, <2>2, <2>3, CommitBasics
<1>7. ASSUME NEW t \in Sessions PROVE SessionOK(t)'
  <2>1. CASE t = s
    BY <1>1, <2>1, MembershipAssumption DEF SessionOK
  <2>2. CASE t # s
    <3>1. /\ pc'[t] = pc[t] /\ req'[t] = req[t] /\ found'[t] = found[t] /\ mine'[t] = mine[t]
          /\ Held(t)' = Held(t) /\ \A c \in Held(t) : member'[c] = member[c] /\ c \in Cards
      BY <1>6, <2>2
    <3>2. SessionOK(t) /\ req[t] \in Requests \cup {NoOne}
      BY DEF MembershipInv, TypesOK
    <3>3. pc[t] \in Writing => req[t] # req[s] \/ req[s] = NoOne
      BY <1>1, <2>2 DEF MembershipInv, LocksOK
    <3>4. pc[t] \in Writing /\ req[t] \in Requests => status'[req[t]] = status[req[t]]
      BY <1>3, <3>3, MembershipAssumption
    <3>5. OnlyRetires(t)' <=> OnlyRetires(t)
      BY <1>1, <3>1 DEF OnlyRetires, Retires, Over
    <3>6. Draws(t) => Draws(t)'
      BY <3>1 DEF Draws
    <3>7. Buys(t) => Buys(t)'
      BY <3>1, <3>5, <3>6 DEF Buys
    <3>8. Sells(t) => Sells(t)'
      BY <1>1, <3>1 DEF Sells, Retires, Over
    <3>9. ASSUME NEW c \in Cards, member[c].status # "none", Over(member[c])
          PROVE  member'[c].status # "none" /\ Over(member[c])'
      BY <1>1, <1>2, <3>9 DEF CommitResult, RowsKept, Over
    <3>10. QED
      BY <3>1, <3>2, <3>4, <3>5, <3>7, <3>8, <3>9 DEF SessionOK, Writing, Requests
  <2>3. QED
    BY <2>1, <2>2
<1>8. SellersOK'
  <2>1. ~Seller(s)' /\ \A t \in Sessions \ {s} : Seller(t)' => Seller(t)
    BY <1>1, <1>6 DEF Seller
  <2>2. ASSUME NEW t \in Sessions, Seller(t)', NEW c \in Cards, Active(member'[c])
        PROVE  c \in Held(t)'
    <3>1. t # s /\ Seller(t) /\ ~Seller(s)
      BY <2>1, <2>2 DEF MembershipInv, SellersOK
    <3>2. Active(member[c])
      BY <1>2, <2>2, <3>1, CommitBasics DEF CommitResult
    <3>3. QED
      BY <1>6, <3>1, <3>2 DEF MembershipInv, SellersOK
  <2>3. QED
    BY <2>1, <2>2 DEF SellersOK, MembershipInv
<1>9. LocksOK'
  <2>1. pc'[s] \notin Writing
    BY <1>1 DEF Writing
  <2>2. QED
    BY <1>1, <1>6, <2>1 DEF MembershipInv, LocksOK
<1>10. QED
  BY <1>2, <1>4, <1>5, <1>7, <1>8, <1>9 DEF MembershipInv, CommitResult

LEMMA TickStep ==
  ASSUME MembershipInv, Tick
  PROVE  MembershipInv'
<1>1. now \in Nat /\ now' = now + 1 /\ UNCHANGED <<member, status, charges, pc, req, found, mine>>
  BY DEF Tick, db, MembershipInv, TypesOK
<1>2. \A c \in Cards : Over(member[c]) => Over(member[c])'
  BY <1>1 DEF Over, MembershipInv, TypesOK, Rows
<1>3. TypesOK' /\ MembersOK' /\ ChargesOK' /\ SellersOK' /\ LocksOK'
  BY <1>1
  DEF MembershipInv, TypesOK, MembersOK, ChargesOK, DepositFollowsCharges, ChargedTo, SellersOK,
      Seller, LocksOK, Held
<1>4. ASSUME NEW t \in Sessions PROVE SessionOK(t)'
  <2>1. \A c \in Held(t) : c \in Cards
    BY DEF MembershipInv, TypesOK
  <2>2. \A c \in Held(t) : Retires(c, mine[t][c], req[t]) => Retires(c, mine[t][c], req[t])'
    BY <1>1, <1>2, <2>1 DEF Retires
  <2>3. OnlyRetires(t) => OnlyRetires(t)'
    BY <1>1, <2>2 DEF OnlyRetires, Held
  <2>4. Buys(t) => Buys(t)'
    BY <1>1, <2>3 DEF Buys, Draws, Held
  <2>5. Sells(t) => Sells(t)'
    BY <1>1, <2>2 DEF Sells, Held
  <2>6. SessionOK(t)
    BY DEF MembershipInv
  <2>7. QED
    BY <1>1, <1>2, <2>3, <2>4, <2>5, <2>6 DEF SessionOK, Held
<1>5. QED
  BY <1>3, <1>4 DEF MembershipInv

-----------------------------------------------------------------------------
(* The theorems *)

LEMMA InitHolds ==
  ASSUME Init
  PROVE  MembershipInv
<1>1. /\ now = 0 /\ member = [c \in Cards |-> NoMember] /\ charges = <<>>
      /\ pc = [s \in Sessions |-> "idle"] /\ req = [s \in Sessions |-> NoOne]
      /\ found = [s \in Sessions |-> {}] /\ mine = [s \in Sessions |-> NoRow]
      /\ status = [r \in Requests |-> "new"]
  BY DEF Init
<1>2. NoMember \in Rows /\ NoMember.status = "none" /\ NoMember.balance = 0 /\ NoMember.paid = 0
  BY DEF NoMember, Rows, Statuses
<1>3. \A s \in Sessions : Held(s) = {}
  BY <1>1, NothingHeld DEF Held
<1>4. TypesOK /\ MembersOK
  BY <1>1, <1>2, <1>3 DEF TypesOK, MembersOK, Active, Steps, Held
<1>5. \A c \in Cards : ChargedTo(c) = 0
  <2>1. ASSUME NEW c \in Cards PROVE On(<<>>, c) = <<>>
    BY DEF On
  <2>2. QED
    BY <1>1, <2>1, ChargedToIsOn, TotalEmpty
<1>6. ChargesOK
  BY <1>1, <1>2, <1>5 DEF ChargesOK, DepositFollowsCharges
<1>7. \A s \in Sessions : SessionOK(s)
  BY <1>1, <1>3, MembershipAssumption DEF SessionOK
<1>8. SellersOK /\ LocksOK
  BY <1>1, <1>3 DEF SellersOK, LocksOK, Seller, Writing
<1>9. QED
  BY <1>4, <1>6, <1>7, <1>8 DEF MembershipInv

LEMMA NextKeeps ==
  ASSUME MembershipInv, [Next]_vars
  PROVE  MembershipInv'
<1>1. ASSUME NEW s \in Sessions, Serve(s) PROVE MembershipInv'
  BY <1>1, StartSteps DEF Serve
<1>2. ASSUME NEW s \in Sessions, Advance(s) PROVE MembershipInv'
  BY <1>2, LookStep, RetireStep, DeductStep, RecordStep, InsertStep, CancelStep, CommitStep,
     RollBackSteps
  DEF Advance
<1>3. ASSUME NEW s \in Sessions, Abort(s) PROVE MembershipInv'
  BY <1>3, RollBackSteps
<1>4. CASE UNCHANGED vars
  BY <1>4
  DEF vars, db, MembershipInv, TypesOK, MembersOK, ChargesOK, DepositFollowsCharges, ChargedTo,
      SessionOK, Buys, Draws, Sells, OnlyRetires, Retires, SellersOK, Seller, LocksOK, Held, Over
<1>5. QED
  BY <1>1, <1>2, <1>3, <1>4, TickStep DEF Next

\* The rows, the charges, what sessions hold and what they keep from one another
\* (row locks, the unique index, the key of transactions) stay as described.
THEOREM MembershipInvariant == Spec => []MembershipInv
<1>1. Init => MembershipInv
  BY InitHolds
<1>2. MembershipInv /\ [Next]_vars => MembershipInv'
  BY NextKeeps
<1>3. QED
  BY <1>1, <1>2, PTL DEF Spec

\* Whatever purchases, sales, cancellations and lazy expiries overlap, the
\* balance of a deposit is what was paid less what was charged, once a purchase.
THEOREM DepositFollows == Spec => []DepositFollowsCharges
<1>1. MembershipInv => DepositFollowsCharges
  BY DEF MembershipInv, ChargesOK
<1>2. QED
  BY <1>1, MembershipInvariant, PTL

Live == {c \in Cards : Active(member[c])}
Lapsed == {c \in Cards : Over(member[c])}
Balances == [c \in Cards |-> member[c].balance]

Promise == [AbstractDeposit!Next]_(AbstractDeposit!vars)

LEMMA CommitKeepsPromise ==
  ASSUME MembershipInv, NEW s \in Sessions, Commit(s)
  PROVE  Promise
<1>1. UNCHANGED now /\ \A c \in Cards : member[c] \in Rows /\ member'[c] \in Rows
  BY CommitBasics DEF MembershipInv, TypesOK
<1>2. CASE Closes(s)
  <2>1. \A c \in Cards : /\ member'[c].balance = member[c].balance
                         /\ member'[c].expires = member[c].expires
                         /\ Active(member'[c]) => Active(member[c])
    BY <1>2, CloseCommit
  <2>2. Balances' = Balances /\ Lapsed' = Lapsed /\ Live' \subseteq Live
    BY <1>1, <2>1 DEF Balances, Lapsed, Live, Over
  <2>3. \A c, d \in Live : c = d
    BY DEF Live, MembershipInv, MembersOK
  <2>4. Live' = Live \/ \E d \in Cards : Live' = Live \ {d}
    BY <2>2, <2>3 DEF Live
  <2>5. QED
    BY <2>2, <2>4
    DEF Promise, AbstractDeposit!Next, AbstractDeposit!Close, AbstractDeposit!vars, Balances,
        Lapsed, Live
<1>3. ASSUME NEW c \in Cards, PaysFrom(s, c) PROVE Promise
  <2>1. CASE member' = member
    BY <1>1, <2>1 DEF Promise, AbstractDeposit!vars, Over
  <2>2. CASE /\ Active(member[c]) /\ Cost[req[s]] \in 1..member[c].balance
             /\ member'[c] = Drained(member[c], Cost[req[s]])
             /\ \A d \in Cards \ {c} : member'[d] = member[d]
    <3> DEFINE rest == member[c].balance - Cost[req[s]]
    <3>1. /\ member'[c].balance = rest /\ member'[c].expires = member[c].expires
          /\ member'[c].status = IF rest = 0 THEN "exhausted" ELSE member[c].status
          /\ rest \in 0..(member[c].balance - 1)
      <4>1. Cost[req[s]] \in 0..member[c].balance /\ member[c].balance \in Nat
        BY <1>1, <2>2 DEF Rows
      <4>2. QED
        BY <1>1, <2>2, <4>1, DrainedRow
    <3> HIDE DEF rest
    <3>2. Balances' = [Balances EXCEPT ![c] = rest] /\ Lapsed' = Lapsed
      BY <1>1, <2>2, <3>1 DEF Balances, Lapsed, Over
    <3>3. Live' = IF rest = 0 THEN Live \ {c} ELSE Live
      BY <2>2, <3>1 DEF Live, Active
    <3>4. c \in Live /\ rest \in 0..(Balances[c] - 1)
      BY <2>2, <3>1 DEF Live, Balances
    <3>5. AbstractDeposit!Spend(c)
      BY <3>2, <3>3, <3>4 DEF AbstractDeposit!Spend, Balances, Lapsed, Live
    <3>6. QED
      BY <3>5 DEF Promise, AbstractDeposit!Next
  <2>3. QED
    BY <1>3, <2>1, <2>2, PayCommit
<1>4. CASE Seller(s) /\ Sells(s) /\ Charge(s) = <<>>
  <2>1. PICK c \in Cards :
          /\ member[c] = NoMember /\ Active(member'[c]) /\ member'[c].balance > 0
          /\ \A d \in Cards \ {c} :
               /\ member'[d].balance = member[d].balance /\ member'[d].expires = member[d].expires
               /\ ~Active(member'[d]) /\ (Active(member[d]) => Over(member[d]))
    BY <1>4, SellCommit
  <2>2. Balances[c] = 0 /\ c \notin Live /\ Live \subseteq Lapsed
    BY <2>1 DEF Balances, Live, Lapsed, NoMember, Active
  <2>3. /\ Balances' \in [Cards -> Nat] /\ Balances'[c] > 0
        /\ \A d \in Cards \ {c} : Balances'[d] = Balances[d]
    BY <1>1, <2>1 DEF Balances, Rows
  <2>4. Live' = {c} /\ Lapsed' \ {c} = Lapsed \ {c} /\ Lapsed' \subseteq Cards
    BY <1>1, <2>1 DEF Live, Lapsed, Over
  <2>5. AbstractDeposit!Sell(c)
    BY <2>2, <2>3, <2>4 DEF AbstractDeposit!Sell, Balances, Lapsed, Live
  <2>6. QED
    BY <2>5 DEF Promise, AbstractDeposit!Next
<1>5. QED
  BY <1>2, <1>3, <1>4, CommitKinds, CommitBasics

LEMMA NextKeepsPromise ==
  ASSUME MembershipInv, [Next]_vars
  PROVE  Promise
<1>1. CASE UNCHANGED <<now, member>>
  BY <1>1 DEF Promise, AbstractDeposit!vars, Over
<1>2. CASE Tick
  <2>1. now \in Nat /\ now' = now + 1 /\ member' = member /\ \A c \in Cards : member[c] \in Rows
    BY <1>2 DEF Tick, db, MembershipInv, TypesOK
  <2>2. Lapsed \subseteq Lapsed' /\ Lapsed' \subseteq Cards
    BY <2>1 DEF Lapsed, Over, Rows
  <2>3. QED
    BY <2>1, <2>2
    DEF Promise, AbstractDeposit!Next, AbstractDeposit!Pass, Lapsed
<1>3. ASSUME NEW s \in Sessions, Serve(s) PROVE UNCHANGED <<now, member>>
  BY <1>3 DEF Serve, Begin, BeginCancel, BeginRefund, View, Start, db
<1>4. ASSUME NEW s \in Sessions, Advance(s), ~Commit(s) PROVE UNCHANGED <<now, member>>
  BY <1>4, RollBackSteps
  DEF Advance, Look, Retire, Deduct, Record, Insert, Cancel, RollBack, db
<1>5. ASSUME NEW s \in Sessions, Abort(s) PROVE UNCHANGED <<now, member>>
  BY <1>5, RollBackSteps DEF RollBack, db
<1>6. QED
  BY <1>1, <1>2, <1>3, <1>4, <1>5, CommitKeepsPromise DEF Next, vars, db

\* The deposits implement the abstract deposit: one is live at a time, a live one
\* is replaced only after its term, and a closed one is neither spent nor revived.
THEOREM ImplementsDeposit == Spec => DepositSpec
<1>1. Init => AbstractDeposit!Init
  BY DEF Init, AbstractDeposit!Init, NoMember, Active, Over
<1>2. MembershipInv /\ [Next]_vars => [AbstractDeposit!Next]_(AbstractDeposit!vars)
  BY NextKeepsPromise DEF Promise
<1>3. QED
  BY <1>1, <1>2, MembershipInvariant, PTL DEF Spec, DepositSpec, AbstractDeposit!Spec
=============================================================================
