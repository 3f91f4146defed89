------------------------- MODULE LoyaltyCardsProofs -------------------------
(***************************************************************************)
(* The safety of punch cards for every number of sessions, requests, cards *)
(* and required stamps: what a session holds is fit to be committed, and   *)
(* nobody else holds it; what it does to the cards is what it books.       *)
(***************************************************************************)
EXTENDS LoyaltyCards, SumsProofs, FiniteSetTheorems, SequenceTheorems, TLAPS

Held(s) == DOMAIN mine[s]
Waiting == {"pick", "refuse", "record"}

-----------------------------------------------------------------------------
(* Orders *)

LEMMA OrdersOfFinite ==
  ASSUME NEW S, IsFiniteSet(S), NEW o \in Orders(S)
  PROVE  /\ o \in Seq(S) /\ DOMAIN o = 1..Cardinality(S) /\ Cardinality(S) \in Nat
         /\ \A i \in DOMAIN o : o[i] \in S
         /\ S # {} => o # <<>>
<1>1. Cardinality(S) \in Nat /\ (Cardinality(S) = 0 <=> S = {})
  BY FS_CardinalityType, FS_EmptySet
<1>2. o \in [1..Cardinality(S) -> S]
  BY DEF Orders
<1>3. o \in Seq(S) /\ Len(o) = Cardinality(S)
  BY <1>1, <1>2, IsASeq, LenProperties
<1>4. S # {} => o # <<>>
  BY <1>1, <1>3, LenProperties, EmptySeq
<1>5. QED
  BY <1>1, <1>2, <1>3, <1>4

-----------------------------------------------------------------------------
(* Rows *)

\* A row as it may be committed.
Fine(k) ==
  /\ k.status = "open" => k.stamps < Required
  /\ k.status \in {"complete", "redeemed"} => k.stamps = Required
  /\ k.status = "redeemed" <=> k.tx # NoOne

Closed(k) == k.status \in {"redeemed", "expired"}

Paying(r) == {c \in Cards : card[c].status = "redeemed" /\ card[c].tx = r}

\* A coffee on record has its card, one that is not has none.
CoffeesOK ==
  \A r \in Redeems : IF status[r] = "committed" THEN \E c \in Cards : Paying(r) = {c}
                     ELSE Paying(r) = {}

\* What a session knows at label p, for the request r, with l units left, the
\* rows q ahead and the rows m written.
Coffee(r, m) == \E c \in DOMAIN m : DOMAIN m = {c} /\ m[c].status = "redeemed" /\ m[c].tx = r

RowsOK(p, r, m) ==
  \A c \in DOMAIN m :
    /\ Fine(m[c]) /\ ~Closed(card[c])
    /\ m[c].status = "redeemed" => p \in {"record", "commit"} /\ r \in Redeems

Local(s, p, r, l, q, m) ==
  /\ p = "idle" => r = NoOne /\ q = <<>> /\ DOMAIN m = {}
  /\ s = Job => p \in {"idle", "expire", "commit"} /\ r = NoOne
  /\ s # Job /\ p # "idle" => r \in Requests
  /\ p = "expire" => s = Job
  /\ p \in {"expire", "stamp"} => q # <<>>
  /\ p \in {"pick", "refuse"} => r \in Redeems
  /\ p = "pick" => DOMAIN m = {}
  /\ p \in {"cooldown", "find", "stamp", "open", "give", "take", "lock"} => r \in Requests \ Redeems
  /\ p = "give" \/ (p = "record" /\ r \notin Redeems) => l > 0
  /\ p = "take" => \A i \in DOMAIN q : q[i] \in DOMAIN m /\ Live(m[q[i]])
  /\ p \in {"record", "commit"} /\ r \in Redeems => Coffee(r, m)
  /\ p = "commit" /\ r \in Redeems => status[r] = "new"
  /\ RowsOK(p, r, m)

SessionOK(s) == Local(s, pc[s], req[s], left[s], cands[s], mine[s])

LocksOK ==
  \A s, t \in Actors : s # t =>
    /\ Held(s) \cap Held(t) = {}
    /\ req[s] = req[t] /\ req[s] # NoOne => pc[s] \in Waiting \/ pc[t] \in Waiting

CardsInv ==
  /\ TypeOK /\ (\A c \in Cards : Fine(card[c])) /\ CoffeesOK
  /\ \A s \in Actors : SessionOK(s)
  /\ LocksOK

-----------------------------------------------------------------------------
(* Statements *)

LEMMA Same ==
  ASSUME TypeOK, NEW s \in Actors
  PROVE  /\ pc[s] \in Labels /\ req[s] \in Requests \cup {NoOne} /\ born[s] \in Nat
         /\ left[s] \in Nat /\ cands[s] \in Seq(Cards) /\ prog[s] \in Seq(Nat \ {0})
         /\ booked[s] \in Seq(Entries)
         /\ \A c \in Held(s) : c \in Cards /\ mine[s][c] \in Card
         /\ pc = [pc EXCEPT ![s] = pc[s]] /\ req = [req EXCEPT ![s] = req[s]]
         /\ born = [born EXCEPT ![s] = born[s]] /\ left = [left EXCEPT ![s] = left[s]]
         /\ cands = [cands EXCEPT ![s] = cands[s]] /\ prog = [prog EXCEPT ![s] = prog[s]]
         /\ mine = [mine EXCEPT ![s] = mine[s]] /\ booked = [booked EXCEPT ![s] = booked[s]]
BY DEF TypeOK, Held

\* A statement of s changes what is its own, and takes free rows only.
Becomes(s, p, r, b, l, q, g, m, e) ==
  /\ UNCHANGED <<now, db>>
  /\ p \in Labels /\ pc' = [pc EXCEPT ![s] = p]
  /\ r \in Requests \cup {NoOne} /\ req' = [req EXCEPT ![s] = r]
  /\ b \in Nat /\ born' = [born EXCEPT ![s] = b]
  /\ l \in Nat /\ left' = [left EXCEPT ![s] = l]
  /\ q \in Seq(Cards) /\ cands' = [cands EXCEPT ![s] = q]
  /\ g \in Seq(Nat \ {0}) /\ prog' = [prog EXCEPT ![s] = g]
  /\ mine' = [mine EXCEPT ![s] = m] /\ \A c \in DOMAIN m : c \in Cards /\ m[c] \in Card
  /\ e \in Seq(Entries) /\ booked' = [booked EXCEPT ![s] = e]

Allowed(s, p, r, m) ==
  /\ \A c \in DOMAIN m : c \in Held(s) \/ RowFree(s, c)
  /\ p \in Waiting \/ r = NoOne \/ (pc[s] \notin Waiting /\ r = req[s]) \/ TxFree(s, r)

LEMMA Statement ==
  ASSUME CardsInv, NEW s \in Actors, NEW p, NEW r, NEW b, NEW l, NEW q, NEW g, NEW m, NEW e,
         Becomes(s, p, r, b, l, q, g, m, e), Allowed(s, p, r, m), Local(s, p, r, l, q, m)
  PROVE  CardsInv'
<1>1. UNCHANGED <<now, card, status, ledger>>
  BY DEF Becomes, db
<1>2. /\ pc'[s] = p /\ req'[s] = r /\ left'[s] = l /\ cands'[s] = q /\ mine'[s] = m
      /\ \A t \in Actors \ {s} : /\ pc'[t] = pc[t] /\ req'[t] = req[t] /\ left'[t] = left[t]
                                 /\ cands'[t] = cands[t] /\ mine'[t] = mine[t]
  BY DEF CardsInv, TypeOK, Becomes
<1>3. TypeOK'
  <2>1. /\ now' \in Nat /\ card' \in [Cards -> Card]
        /\ status' \in [Requests -> {"new", "committed", "reversed"}] /\ ledger' \in Seq(Entries)
    BY <1>1 DEF CardsInv, TypeOK
  <2>2. /\ pc' \in [Actors -> Labels] /\ req' \in [Actors -> Requests \cup {NoOne}]
        /\ born' \in [Actors -> Nat] /\ left' \in [Actors -> Nat]
    BY DEF CardsInv, TypeOK, Becomes
  <2>3. /\ cands' \in [Actors -> Seq(Cards)] /\ prog' \in [Actors -> Seq(Nat \ {0})]
        /\ booked' \in [Actors -> Seq(Entries)]
    BY DEF CardsInv, TypeOK, Becomes
  <2>4. mine' = [t \in Actors |-> mine'[t]]
    BY DEF CardsInv, TypeOK, Becomes
  <2>5. ASSUME NEW t \in Actors PROVE \A c \in DOMAIN mine'[t] : c \in Cards /\ mine'[t][c] \in Card
    BY <1>2 DEF CardsInv, TypeOK, Becomes
  <2>6. QED
    BY <2>1, <2>2, <2>3, <2>4, <2>5 DEF TypeOK
<1>4. (\A c \in Cards : Fine(card'[c])) /\ CoffeesOK'
  BY <1>1 DEF CardsInv, CoffeesOK, Paying
<1>5. ASSUME NEW t \in Actors PROVE SessionOK(t)'
  <2>1. CASE t = s
    BY <1>1, <1>2, <2>1 DEF SessionOK, Local, RowsOK
  <2>2. CASE t # s
    <3>1. SessionOK(t)
      BY DEF CardsInv
    <3>2. QED
      BY <1>1, <1>2, <2>2, <3>1 DEF SessionOK, Local, RowsOK
  <2>3. QED
    BY <2>1, <2>2
<1>6. ASSUME NEW t \in Actors \ {s}
      PROVE  /\ DOMAIN m \cap Held(t) = {}
             /\ r = req[t] /\ r # NoOne => p \in Waiting \/ pc[t] \in Waiting
  <2>1. Held(s) \cap Held(t) = {} /\ (req[s] = req[t] /\ req[s] # NoOne => pc[s] \in Waiting \/ pc[t] \in Waiting)
    BY DEF CardsInv, LocksOK
  <2>2. QED
    BY <2>1 DEF RowFree, Held, TxFree, Waiting, Allowed
<1>7. LocksOK'
  <2> SUFFICES ASSUME NEW t \in Actors, NEW u \in Actors, t # u
               PROVE  /\ Held(t)' \cap Held(u)' = {}
                      /\ req'[t] = req'[u] /\ req'[t] # NoOne => pc'[t] \in Waiting \/ pc'[u] \in Waiting
    BY DEF LocksOK
  <2>1. CASE t = s
    BY <1>2, <1>6, <2>1 DEF Held
  <2>2. CASE u = s
    BY <1>2, <1>6, <2>2 DEF Held
  <2>3. CASE t # s /\ u # s
    BY <1>2, <2>3 DEF CardsInv, LocksOK, Held
  <2>4. QED
    BY <2>1, <2>2, <2>3
<1>8. QED
  BY <1>1, <1>3, <1>4, <1>5, <1>7 DEF CardsInv

LEMMA NothingHeld == DOMAIN NoRow = {}
BY DEF NoRow

LEMMA EntryTyped ==
  ASSUME TypeOK, NEW s \in Actors, req[s] \in Requests, NEW d \in Int
  PROVE  Append(booked[s], Entry(s, d)) \in Seq(Entries)
<1>1. Entry(s, d) \in Entries
  BY DEF Entry, Entries, TypeOK
<1>2. booked[s] \in Seq(Entries)
  BY DEF TypeOK
<1>3. QED
  BY <1>1, <1>2, AppendProperties

LEMMA RollBackStep ==
  ASSUME CardsInv, NEW s \in Actors, RollBack(s)
  PROVE  CardsInv'
<1>1. Becomes(s, "idle", NoOne, 0, 0, <<>>, <<>>, NoRow, <<>>)
  BY NothingHeld DEF RollBack, Forget, Goto, Becomes, Labels
<1>2. Allowed(s, "idle", NoOne, NoRow)
  BY NothingHeld DEF Allowed
<1>3. Local(s, "idle", NoOne, 0, <<>>, NoRow)
  BY NothingHeld, CardsAssumption DEF Local, RowsOK
<1>4. QED
  BY <1>1, <1>2, <1>3, Statement

LEMMA WithRow ==
  ASSUME TypeOK, NEW s \in Actors, NEW c \in Cards, NEW k \in Card
  PROVE  /\ DOMAIN With(mine[s], c, k) = Held(s) \cup {c}
         /\ \A d \in DOMAIN With(mine[s], c, k) :
              /\ d \in Cards /\ With(mine[s], c, k)[d] \in Card
              /\ With(mine[s], c, k)[d] = IF d = c THEN k ELSE mine[s][d]
BY DEF With, Held, TypeOK

LEMMA BeginGivingStep ==
  ASSUME CardsInv, NEW s \in Sessions, NEW r \in Purchases \cup StampGrants \cup FreeGrants,
         BeginGiving(s, r)
  PROVE  CardsInv'
<1>1. /\ s \in Actors /\ s # Job /\ r \in Requests /\ r \notin Redeems /\ now \in Nat
      /\ Units[r] \in Nat /\ Units[r] > 0
  BY CardsAssumption DEF Actors, Requests, CardsInv, TypeOK
<1>2. pc[s] = "idle" /\ Local(s, pc[s], req[s], left[s], cands[s], mine[s])
  BY <1>1 DEF BeginGiving, Start, CardsInv, SessionOK
<1>3. Becomes(s, "record", r, now, Units[r], cands[s], prog[s], mine[s], booked[s])
  BY <1>1, Same DEF BeginGiving, Start, Goto, Becomes, Labels, CardsInv, Held
<1>4. Allowed(s, "record", r, mine[s])
  BY DEF Allowed, Held, Waiting
<1>5. Local(s, "record", r, Units[r], cands[s], mine[s])
  BY <1>1, <1>2 DEF Local, RowsOK
<1>6. QED
  BY <1>1, <1>3, <1>4, <1>5, Statement

LEMMA RecordStep ==
  ASSUME CardsInv, NEW s \in Sessions, Record(s)
  PROVE  CardsInv'
<1>1. s \in Actors /\ s # Job
  BY CardsAssumption DEF Actors
<1>2. /\ pc[s] = "record" /\ status[req[s]] = "new" /\ TxFree(s, req[s])
      /\ Local(s, pc[s], req[s], left[s], cands[s], mine[s]) /\ req[s] \in Requests
  BY <1>1 DEF Record, CardsInv, SessionOK, Local
<1> DEFINE p == CASE req[s] \in Purchases -> "cooldown" [] req[s] \in StampGrants -> "find"
                  [] req[s] \in FreeGrants -> "give" [] req[s] \in Redeems -> "commit"
<1>3. /\ pc' = [pc EXCEPT ![s] = p]
      /\ p \in {"cooldown", "find", "give", "commit"}
      /\ p = "commit" <=> req[s] \in Redeems
  <2>1. CASE req[s] \in Redeems
    BY <2>1, CardsAssumption DEF Record, Goto
  <2>2. CASE req[s] \in Purchases
    BY <2>2, CardsAssumption DEF Record, Goto
  <2>3. CASE req[s] \in StampGrants \ Purchases
    BY <2>3, CardsAssumption DEF Record, Goto
  <2>4. CASE req[s] \in FreeGrants \ (Purchases \cup StampGrants)
    BY <2>4, CardsAssumption DEF Record, Goto
  <2>5. QED
    BY <1>2, <2>1, <2>2, <2>3, <2>4 DEF Requests
<1> HIDE DEF p
<1>4. Becomes(s, p, req[s], born[s], left[s], cands[s], prog[s], mine[s], booked[s])
  BY <1>1, <1>3, Same DEF Record, private, Becomes, Labels, CardsInv, Held
<1>5. Allowed(s, p, req[s], mine[s])
  BY <1>2 DEF Allowed, Held
<1>6. Local(s, p, req[s], left[s], cands[s], mine[s])
  BY <1>1, <1>2, <1>3 DEF Local, RowsOK
<1>7. QED
  BY <1>1, <1>4, <1>5, <1>6, Statement

LEMMA CoolDownStep ==
  ASSUME CardsInv, NEW s \in Sessions, CoolDown(s)
  PROVE  CardsInv'
<1>1. s \in Actors /\ s # Job
  BY CardsAssumption DEF Actors
<1>2. /\ pc[s] = "cooldown" /\ Local(s, pc[s], req[s], left[s], cands[s], mine[s])
  BY <1>1 DEF CoolDown, CardsInv, SessionOK
<1>3. PICK p \in {"commit", "find"} : pc' = [pc EXCEPT ![s] = p]
  BY DEF CoolDown, Goto
<1>4. Becomes(s, p, req[s], born[s], left[s], cands[s], prog[s], mine[s], booked[s])
  BY <1>1, <1>3, Same DEF CoolDown, private, Becomes, Labels, CardsInv, Held
<1>5. Allowed(s, p, req[s], mine[s])
  BY <1>2 DEF Allowed, Held, Waiting
<1>6. Local(s, p, req[s], left[s], cands[s], mine[s])
  BY <1>1, <1>2, <1>3 DEF Local, RowsOK
<1>7. QED
  BY <1>1, <1>4, <1>5, <1>6, Statement

Edited(k, n, st, x) == [k EXCEPT !.stamps = n, !.status = st, !.completed = x]

LEMMA EditedRow ==
  ASSUME NEW k \in Card, NEW n \in Nat, NEW st \in States, NEW x \in Nat
  PROVE  /\ Edited(k, n, st, x) \in Card
         /\ Edited(k, n, st, x).stamps = n /\ Edited(k, n, st, x).status = st
         /\ Edited(k, n, st, x).tx = k.tx
<1> DEFINE a == [k EXCEPT !.stamps = n]
           b == [a EXCEPT !.status = st]
           j == [b EXCEPT !.completed = x]
<1>1. /\ a \in Card /\ a.stamps = n /\ a.tx = k.tx
  BY DEF Card
<1>2. j = Edited(k, n, st, x)
  BY DEF Edited
<1> HIDE DEF a
<1>3. /\ b \in Card /\ b.stamps = n /\ b.status = st /\ b.tx = k.tx
  BY <1>1 DEF Card
<1> HIDE DEF b
<1>4. /\ j \in Card /\ j.stamps = n /\ j.status = st /\ j.tx = k.tx
  BY <1>3 DEF Card
<1>5. QED
  BY <1>2, <1>4

LEMMA StampedRow ==
  ASSUME TypeOK, NEW k \in Card, k.status = "open", k.tx = NoOne,
         NEW n \in Nat, k.stamps + n <= Required
  PROVE  Stamped(k, n) \in Card /\ Fine(Stamped(k, n)) /\ Live(Stamped(k, n))
<1>1. k.stamps \in Nat /\ k.stamps + n \in Nat /\ now \in Nat /\ Required \in Nat
  BY CardsAssumption DEF Card, TypeOK
<1>2. CASE k.stamps + n >= Required
  <2> DEFINE m == k.stamps + n
             j == Edited(k, m, "complete", now)
  <2>1. j \in Card /\ j.stamps = m /\ j.status = "complete" /\ j.tx = NoOne
    <3>1. "complete" \in States
      BY DEF States
    <3>2. m \in Nat /\ now \in Nat
      BY <1>1
    <3> HIDE DEF m
    <3>3. QED
      BY <3>1, <3>2, EditedRow
  <2>2. Stamped(k, n) = j
    BY <1>2 DEF Stamped, Edited
  <2> HIDE DEF j
  <2>3. QED
    BY <1>1, <1>2, <2>1, <2>2 DEF Fine, Live
<1>3. CASE ~(k.stamps + n >= Required)
  <2>1. Stamped(k, n) = [k EXCEPT !.stamps = k.stamps + n]
    BY <1>3 DEF Stamped
  <2>2. /\ Stamped(k, n) \in Card /\ Stamped(k, n).stamps = k.stamps + n
        /\ Stamped(k, n).status = "open" /\ Stamped(k, n).tx = NoOne
    BY <1>1, <2>1 DEF Card
  <2>3. QED
    BY <1>1, <1>3, <2>2 DEF Fine, Live
<1>4. QED
  BY <1>2, <1>3

LEMMA NewRow ==
  ASSUME TypeOK, NEW s \in Actors
  PROVE  /\ NewCard(s) \in Card /\ NewCard(s).status = "open" /\ NewCard(s).stamps = 0
         /\ NewCard(s).tx = NoOne
<1> DEFINE x == IF Life = 0 THEN 0 ELSE now + Life
<1>1. x \in Nat /\ born[s] \in Nat
  BY CardsAssumption DEF TypeOK
<1>2. NoCard \in Card
  BY DEF NoCard, Card, States
<1> DEFINE a == [NoCard EXCEPT !.status = "open"]
           b == [a EXCEPT !.opened = born[s]]
           j == [b EXCEPT !.expires = x]
<1>3. a \in Card /\ a.status = "open" /\ a.stamps = 0 /\ a.tx = NoOne
  BY <1>2 DEF NoCard, Card, States
<1>4. j = NewCard(s)
  BY DEF NewCard
<1> HIDE DEF a, x
<1>5. b \in Card /\ b.status = "open" /\ b.stamps = 0 /\ b.tx = NoOne
  BY <1>1, <1>3 DEF Card
<1> HIDE DEF b
<1>6. j \in Card /\ j.status = "open" /\ j.stamps = 0 /\ j.tx = NoOne
  BY <1>1, <1>5 DEF Card
<1>7. QED
  BY <1>4, <1>6

\* A session at work on stamps takes a row.
LEMMA MoreRows ==
  ASSUME CardsInv, NEW s \in Actors, req[s] \notin Redeems, NEW p,
         NEW c \in Cards, ~Closed(card[c]), NEW k \in Card, Fine(k), k.status # "redeemed"
  PROVE  RowsOK(p, req[s], With(mine[s], c, k))
<1>1. RowsOK(pc[s], req[s], mine[s])
  BY DEF CardsInv, SessionOK, Local
<1>2. QED
  <2> DEFINE m == With(mine[s], c, k)
  <2>1. /\ DOMAIN m = Held(s) \cup {c}
        /\ \A d \in DOMAIN m : m[d] = IF d = c THEN k ELSE mine[s][d]
    BY WithRow DEF CardsInv
  <2> HIDE DEF m
  <2>2. RowsOK(p, req[s], m)
    BY <1>1, <2>1 DEF RowsOK, Held
  <2>3. QED
    BY <2>2 DEF m

LEMMA GiveStep ==
  ASSUME CardsInv, NEW s \in Sessions, pc[s] \in {"stamp", "open"},
         NEW c \in Cards, RowFree(s, c), ~Closed(card[c]),
         NEW k \in Card, k.status = "open", k.tx = NoOne, Fine(k), Give(s, c, k)
  PROVE  CardsInv'
<1>1. s \in Actors /\ s # Job /\ TypeOK
  BY CardsAssumption DEF Actors, CardsInv
<1>2. /\ Local(s, pc[s], req[s], left[s], cands[s], mine[s])
      /\ req[s] \in Requests /\ req[s] \notin Redeems /\ pc[s] \notin Waiting
  BY <1>1 DEF CardsInv, SessionOK, Local, Waiting
<1> DEFINE n == Least(left[s], Required - k.stamps)
           j == Stamped(k, n)
           m == With(mine[s], c, j)
           e == Append(booked[s], Entry(s, n))
<1>3. n \in Nat /\ n <= left[s] /\ k.stamps + n <= Required /\ left[s] - n \in Nat
  <2>1. k.stamps \in Nat /\ left[s] \in Nat /\ Required \in Nat
    BY <1>1, CardsAssumption DEF Card, TypeOK
  <2>2. QED
    BY <2>1 DEF Least, Fine
<1>4. PICK p \in {"commit", "find"} : pc' = [pc EXCEPT ![s] = p]
  BY DEF Give, Goto
<1>5. /\ mine' = [mine EXCEPT ![s] = m] /\ booked' = [booked EXCEPT ![s] = e]
      /\ left' = [left EXCEPT ![s] = left[s] - n] /\ cands' = [cands EXCEPT ![s] = <<>>]
      /\ UNCHANGED <<now, db, req, born, prog>>
  BY <1>1 DEF Give, TypeOK
<1> HIDE DEF n
<1>6. j \in Card /\ Fine(j) /\ j.status # "redeemed"
  BY <1>1, <1>3, StampedRow DEF Live
<1> HIDE DEF j
<1>7. e \in Seq(Entries)
  BY <1>1, <1>2, <1>3, EntryTyped
<1>8. /\ DOMAIN m = Held(s) \cup {c} /\ \A d \in DOMAIN m : d \in Cards /\ m[d] \in Card
      /\ RowsOK(p, req[s], m)
  <2>1. DOMAIN m = Held(s) \cup {c} /\ \A d \in DOMAIN m : d \in Cards /\ m[d] \in Card
    <3>1. DOMAIN m = Held(s) \cup {c}
      BY DEF With, Held
    <3>2. \A d \in DOMAIN m : d \in Cards /\ m[d] \in Card
      BY <1>1, <1>6, WithRow
    <3>3. QED
      BY <3>1, <3>2
  <2>2. RowsOK(p, req[s], m)
    BY <1>1, <1>2, <1>6, MoreRows
  <2>3. QED
    BY <2>1, <2>2
<1> HIDE DEF m, e
<1>9. Becomes(s, p, req[s], born[s], left[s] - n, <<>>, prog[s], m, e)
  BY <1>1, <1>3, <1>4, <1>5, <1>7, <1>8, Same DEF Becomes, Labels
<1>10. Allowed(s, p, req[s], m)
  BY <1>2, <1>8 DEF Allowed
<1>11. Local(s, p, req[s], left[s] - n, <<>>, m)
  BY <1>1, <1>2, <1>4, <1>8 DEF Local
<1>12. QED
  BY <1>1, <1>9, <1>10, <1>11, Statement

LEMMA Here ==
  ASSUME CardsInv, NEW s \in Sessions
  PROVE  /\ s \in Actors /\ s # Job /\ TypeOK
         /\ Local(s, pc[s], req[s], left[s], cands[s], mine[s])
         /\ pc[s] # "idle" => req[s] \in Requests
<1>1. s \in Actors /\ s # Job /\ TypeOK
  BY CardsAssumption DEF Actors, CardsInv
<1>2. Local(s, pc[s], req[s], left[s], cands[s], mine[s])
  BY <1>1 DEF CardsInv, SessionOK
<1>3. QED
  BY <1>1, <1>2 DEF Local

LEMMA SeenFine ==
  ASSUME CardsInv, NEW s \in Actors, NEW c \in Cards
  PROVE  /\ Seen(s, c) \in Card /\ Fine(Seen(s, c))
         /\ Seen(s, c).status \in {"none", "open", "complete"} => ~Closed(card[c])
<1>1. RowsOK(pc[s], req[s], mine[s])
  BY DEF CardsInv, SessionOK, Local
<1>2. CASE c \in Held(s)
  BY <1>1, <1>2 DEF RowsOK, Seen, Held, CardsInv, TypeOK
<1>3. CASE c \notin Held(s)
  BY <1>3 DEF Seen, Held, CardsInv, TypeOK, Closed
<1>4. QED
  BY <1>2, <1>3

LEMMA NewFine ==
  ASSUME TypeOK, NEW s \in Actors
  PROVE  Fine(NewCard(s))
<1>1. NewCard(s).status = "open" /\ NewCard(s).stamps = 0 /\ NewCard(s).tx = NoOne
  BY NewRow
<1>2. Required > 0
  BY CardsAssumption
<1>3. QED
  BY <1>1, <1>2 DEF Fine

LEMMA FindCardStep ==
  ASSUME CardsInv, NEW s \in Sessions, FindCard(s)
  PROVE  CardsInv'
<1>1. /\ s \in Actors /\ s # Job /\ TypeOK /\ pc[s] = "find" /\ pc[s] \notin Waiting
      /\ Local(s, pc[s], req[s], left[s], cands[s], mine[s]) /\ req[s] \in Requests
  BY Here DEF FindCard, Waiting
<1>2. ASSUME NEW p \in {"stamp", "open"}, pc' = [pc EXCEPT ![s] = p],
             NEW q \in Seq(Cards), cands' = [cands EXCEPT ![s] = q], p = "stamp" => q # <<>>
      PROVE  CardsInv'
  <2>1. Becomes(s, p, req[s], born[s], left[s], q, prog[s], mine[s], booked[s])
    BY <1>1, <1>2, Same DEF FindCard, Becomes, Labels, Held
  <2>2. Allowed(s, p, req[s], mine[s])
    BY <1>1 DEF Allowed, Held
  <2>3. Local(s, p, req[s], left[s], q, mine[s])
    BY <1>1, <1>2 DEF Local, RowsOK
  <2>4. QED
    BY <1>1, <2>1, <2>2, <2>3, Statement
<1>3. CASE (\E c \in Cards : cands' = [cands EXCEPT ![s] = <<c>>]) /\ Goto(s, "stamp")
  <2>1. PICK c \in Cards : cands' = [cands EXCEPT ![s] = <<c>>]
    BY <1>3
  <2>2. <<c>> \in Seq(Cards) /\ <<c>> # <<>>
    OBVIOUS
  <2>3. QED
    BY <1>2, <1>3, <2>1, <2>2 DEF Goto
<1>4. CASE Goto(s, "open") /\ UNCHANGED cands
  <2>1. cands' = [cands EXCEPT ![s] = cands[s]] /\ cands[s] \in Seq(Cards)
    BY <1>1, <1>4, Same
  <2>2. QED
    BY <1>2, <1>4, <2>1 DEF Goto
<1>5. QED
  BY <1>3, <1>4 DEF FindCard

LEMMA StampCardStep ==
  ASSUME CardsInv, NEW s \in Sessions, StampCard(s)
  PROVE  CardsInv'
<1> DEFINE c == Head(cands[s])
<1>1. /\ s \in Actors /\ s # Job /\ TypeOK /\ pc[s] = "stamp" /\ pc[s] \notin Waiting
      /\ Local(s, pc[s], req[s], left[s], cands[s], mine[s]) /\ req[s] \in Requests
  BY Here DEF StampCard, Waiting
<1>2. RowFree(s, c) /\ c \in Cards
  <2>1. cands[s] \in Seq(Cards) /\ cands[s] # <<>>
    BY <1>1 DEF TypeOK, Local
  <2>2. QED
    BY <2>1, HeadTailProperties DEF StampCard
<1> HIDE DEF c
<1>3. CASE Seen(s, c).status = "open"
  <2>1. Give(s, c, Seen(s, c))
    BY <1>3 DEF StampCard, c
  <2>2. Seen(s, c) \in Card /\ Fine(Seen(s, c)) /\ ~Closed(card[c])
    BY <1>1, <1>2, <1>3, SeenFine
  <2>3. Seen(s, c).tx = NoOne
    BY <1>3, <2>2 DEF Fine
  <2>4. QED
    BY <1>1, <1>2, <1>3, <2>1, <2>2, <2>3, GiveStep
<1>4. CASE Seen(s, c).status # "open"
  <2>1. Becomes(s, "open", req[s], born[s], left[s], <<>>, prog[s], mine[s], booked[s])
    BY <1>1, <1>4, Same DEF StampCard, Goto, Becomes, Labels, Held, c
  <2>2. Allowed(s, "open", req[s], mine[s])
    BY <1>1 DEF Allowed, Held
  <2>3. Local(s, "open", req[s], left[s], <<>>, mine[s])
    BY <1>1 DEF Local, RowsOK
  <2>4. QED
    BY <1>1, <2>1, <2>2, <2>3, Statement
<1>5. QED
  BY <1>3, <1>4

LEMMA OpenCardStep ==
  ASSUME CardsInv, NEW s \in Sessions, OpenCard(s)
  PROVE  CardsInv'
<1>1. s \in Actors /\ TypeOK /\ pc[s] = "open"
  BY Here DEF OpenCard
<1>2. PICK c \in Cards : Fresh(s, c) /\ Give(s, c, NewCard(s))
  BY DEF OpenCard
<1>3. RowFree(s, c) /\ ~Closed(card[c])
  BY <1>1, <1>2, SeenFine DEF Fresh, Unused
<1>4. NewCard(s) \in Card /\ NewCard(s).status = "open" /\ NewCard(s).tx = NoOne
  BY <1>1, NewRow
<1>5. QED
  BY <1>1, <1>2, <1>3, <1>4, NewFine, GiveStep

LEMMA GiveFreeStep ==
  ASSUME CardsInv, NEW s \in Sessions, GiveFree(s)
  PROVE  CardsInv'
<1>1. /\ s \in Actors /\ s # Job /\ TypeOK /\ pc[s] = "give" /\ pc[s] \notin Waiting
      /\ Local(s, pc[s], req[s], left[s], cands[s], mine[s]) /\ req[s] \in Requests
      /\ req[s] \notin Redeems /\ left[s] \in Nat /\ left[s] > 0
  <2>1. pc[s] = "give" /\ pc[s] \notin Waiting
    BY DEF GiveFree, Waiting
  <2>2. QED
    BY <2>1, Here DEF Local, TypeOK
<1> DEFINE j == Stamped(NewCard(s), Required)
           e == Append(booked[s], Entry(s, Required))
<1>2. PICK c \in Cards : Fresh(s, c) /\ mine' = [mine EXCEPT ![s] = With(mine[s], c, j)]
  BY <1>1 DEF GiveFree, TypeOK
<1>3. RowFree(s, c) /\ ~Closed(card[c])
  BY <1>1, <1>2, SeenFine DEF Fresh, Unused
<1>4. j \in Card /\ Fine(j) /\ j.status # "redeemed"
  <2>1. Required \in Nat /\ NewCard(s).stamps + Required <= Required
    BY <1>1, NewRow, CardsAssumption
  <2>2. QED
    BY <1>1, <2>1, NewRow, StampedRow DEF Live
<1>5. e \in Seq(Entries)
  <2>1. Required \in Int
    BY CardsAssumption
  <2>2. QED
    BY <1>1, <2>1, EntryTyped
<1>6. /\ booked' = [booked EXCEPT ![s] = e]
      /\ left' = [left EXCEPT ![s] = left[s] - 1]
      /\ UNCHANGED <<now, db, req, born, cands, prog>>
  BY <1>1 DEF GiveFree, TypeOK
<1>7. PICK p \in {"commit", "give"} : /\ pc' = [pc EXCEPT ![s] = p]
                                      /\ p = "give" => left[s] # 1
  BY DEF GiveFree, Goto
<1>8. left[s] - 1 \in Nat /\ (p = "give" => left[s] - 1 > 0)
  BY <1>1, <1>7
<1> HIDE DEF j, e
<1> DEFINE m == With(mine[s], c, j)
           l == left[s] - 1
<1>9. /\ DOMAIN m = Held(s) \cup {c} /\ \A d \in DOMAIN m : d \in Cards /\ m[d] \in Card
      /\ RowsOK(p, req[s], m)
  <2>1. DOMAIN m = Held(s) \cup {c}
    BY DEF With, Held
  <2>2. \A d \in DOMAIN m : d \in Cards /\ m[d] \in Card
    BY <1>1, <1>4, WithRow
  <2>3. RowsOK(p, req[s], m)
    BY <1>1, <1>3, <1>4, MoreRows
  <2>4. QED
    BY <2>1, <2>2, <2>3
<1>10. l \in Nat /\ left' = [left EXCEPT ![s] = l] /\ (p = "give" => l > 0)
  BY <1>6, <1>8
<1> HIDE DEF l
<1>11. Becomes(s, p, req[s], born[s], l, cands[s], prog[s], m, e)
  <2>1. mine' = [mine EXCEPT ![s] = m]
    BY <1>2
  <2> HIDE DEF m
  <2>2. QED
    BY <1>1, <1>5, <1>6, <1>7, <1>9, <1>10, <2>1, Same DEF Becomes, Labels
<1> HIDE DEF m
<1>12. Allowed(s, p, req[s], m)
  BY <1>1, <1>3, <1>9 DEF Allowed
<1>13. Local(s, p, req[s], l, cands[s], m)
  BY <1>1, <1>7, <1>9, <1>10 DEF Local
<1>14. QED
  BY <1>1, <1>11, <1>12, <1>13, Statement

LEMMA RollBackSteps ==
  ASSUME CardsInv, NEW s \in Sessions,
         \/ RecordFails(s) \/ OpenFails(s) \/ Refuse(s) \/ NotAvailable(s) \/ ReopenFails(s)
         \/ Abort(s)
  PROVE  RollBack(s) /\ CardsInv'
<1>1. RollBack(s)
  BY DEF RecordFails, OpenFails, Refuse, NotAvailable, ReopenFails, Abort
<1>2. QED
  BY <1>1, Here, RollBackStep

-----------------------------------------------------------------------------
(* Free coffees *)

LEMMA CardsFinite ==
  ASSUME NEW S \in SUBSET Cards
  PROVE  IsFiniteSet(S)
<1>1. IsFiniteSet(Cards)
  BY CardsAssumption, FS_Interval DEF Cards
<1>2. QED
  BY <1>1, FS_Subset

LEMMA OrdersOfCards ==
  ASSUME NEW S \in SUBSET Cards, NEW o \in Orders(S)
  PROVE  /\ o \in Seq(Cards) /\ (S # {} => o # <<>>)
         /\ \A i \in DOMAIN o : o[i] \in S
<1>1. /\ o \in Seq(S) /\ (S # {} => o # <<>>)
      /\ \A i \in DOMAIN o : o[i] \in S
  BY CardsFinite, OrdersOfFinite
<1>2. o \in Seq(Cards)
  BY <1>1, LenProperties
<1>3. QED
  BY <1>1, <1>2

LEMMA BeginRedeemStep ==
  ASSUME CardsInv, NEW s \in Sessions, NEW r \in Redeems, NEW picked \in SUBSET Cards,
         BeginRedeem(s, r, picked)
  PROVE  CardsInv'
<1>1. /\ s \in Actors /\ s # Job /\ TypeOK /\ pc[s] = "idle"
      /\ Local(s, pc[s], req[s], left[s], cands[s], mine[s])
      /\ r \in Requests /\ now \in Nat
  BY Here DEF BeginRedeem, Start, Requests, TypeOK
<1>2. PICK q \in Orders({c \in picked : card[c].status = "complete"}) :
        cands' = [cands EXCEPT ![s] = q]
  BY DEF BeginRedeem
<1>3. q \in Seq(Cards)
  BY OrdersOfCards
<1>4. Becomes(s, "pick", r, now, left[s], q, prog[s], mine[s], booked[s])
  BY <1>1, <1>2, <1>3, Same DEF BeginRedeem, Start, Goto, Becomes, Labels, Held
<1>5. Allowed(s, "pick", r, mine[s])
  BY <1>1 DEF Allowed, Held, Waiting
<1>6. Local(s, "pick", r, left[s], q, mine[s])
  BY <1>1 DEF Local, RowsOK
<1>7. QED
  BY <1>1, <1>4, <1>5, <1>6, Statement

LEMMA PickCardStep ==
  ASSUME CardsInv, NEW s \in Sessions, PickCard(s)
  PROVE  CardsInv'
<1> DEFINE c == Head(cands[s])
<1>1. /\ s \in Actors /\ s # Job /\ TypeOK /\ pc[s] = "pick"
      /\ Local(s, pc[s], req[s], left[s], cands[s], mine[s])
      /\ req[s] \in Requests /\ req[s] \in Redeems /\ Held(s) = {}
  <2>1. pc[s] = "pick"
    BY DEF PickCard
  <2>2. QED
    BY <2>1, Here DEF Local, Held
<1>2. RowFree(s, c) /\ c \in Cards /\ Tail(cands[s]) \in Seq(Cards)
  <2>1. cands[s] \in Seq(Cards) /\ cands[s] # <<>>
    BY <1>1 DEF TypeOK, PickCard
  <2>2. QED
    BY <2>1, HeadTailProperties DEF PickCard
<1>3. card[c] \in Card /\ Fine(card[c]) /\ req[s] # NoOne
  BY <1>1, <1>2, CardsAssumption DEF CardsInv, TypeOK
<1>4. UNCHANGED <<now, db, req, born, left, prog, booked>>
  BY DEF PickCard
<1> HIDE DEF c
<1>5. ASSUME card[c].status # "complete", cands' = [cands EXCEPT ![s] = Tail(cands[s])],
             UNCHANGED <<pc, mine>>
      PROVE  CardsInv'
  <2>1. Becomes(s, "pick", req[s], born[s], left[s], Tail(cands[s]), prog[s], mine[s], booked[s])
    BY <1>1, <1>2, <1>4, <1>5, Same DEF Becomes, Labels, Held
  <2>2. Allowed(s, "pick", req[s], mine[s])
    BY DEF Allowed, Held, Waiting
  <2>3. Local(s, "pick", req[s], left[s], Tail(cands[s]), mine[s])
    BY <1>1 DEF Local, RowsOK
  <2>4. QED
    BY <1>1, <2>1, <2>2, <2>3, Statement
<1>6. ASSUME card[c].status = "complete", NEW p \in {"refuse", "record"}, NEW k \in Card,
             pc' = [pc EXCEPT ![s] = p], NEW q \in Seq(Cards), cands' = [cands EXCEPT ![s] = q],
             mine' = [mine EXCEPT ![s] = With(mine[s], c, k)], Fine(k),
             IF p = "record" THEN k.status = "redeemed" /\ k.tx = req[s] ELSE k.status = "expired"
      PROVE  CardsInv'
  <2> DEFINE m == With(mine[s], c, k)
  <2>1. DOMAIN m = {c}
    BY <1>1 DEF With, Held
  <2>2. m[c] = k
    BY <1>1 DEF With, Held
  <2>3. mine' = [mine EXCEPT ![s] = m]
    BY <1>6
  <2> HIDE DEF m
  <2>4. \A d \in DOMAIN m : d \in Cards /\ m[d] \in Card
    BY <1>2, <1>6, <2>1, <2>2
  <2>5. Becomes(s, p, req[s], born[s], left[s], q, prog[s], m, booked[s])
    BY <1>1, <1>4, <1>6, <2>3, <2>4, Same DEF Becomes, Labels
  <2>6. Allowed(s, p, req[s], m)
    BY <1>2, <1>6, <2>1 DEF Allowed, Waiting
  <2>7. RowsOK(p, req[s], m)
    BY <1>1, <1>6, <2>1, <2>2 DEF RowsOK, Closed
  <2>8. p = "record" => Coffee(req[s], m)
    BY <1>6, <2>1, <2>2 DEF Coffee
  <2>9. Local(s, p, req[s], left[s], q, m)
    BY <1>1, <1>6, <2>7, <2>8 DEF Local
  <2>10. QED
    BY <1>1, <2>5, <2>6, <2>9, Statement
<1>7. CASE card[c].status = "complete" /\ Lapsed(card[c])
  <2> DEFINE k == Expired(card[c])
  <2>1. k \in Card /\ k.status = "expired" /\ k.tx = card[c].tx
    BY <1>3 DEF Expired, Card, States
  <2>2. Fine(k)
    BY <1>3, <1>7, <2>1 DEF Fine
  <2>3. mine' = [mine EXCEPT ![s] = With(mine[s], c, k)]
    BY <1>1, <1>7 DEF PickCard, c, TypeOK
  <2>4. /\ pc' = [pc EXCEPT ![s] = "refuse"]
        /\ cands' = [cands EXCEPT ![s] = cands[s]] /\ cands[s] \in Seq(Cards)
    BY <1>1, <1>7, Same DEF PickCard, Goto, c
  <2> HIDE DEF k
  <2>5. QED
    BY <1>6, <1>7, <2>1, <2>2, <2>3, <2>4
<1>8. CASE card[c].status = "complete" /\ ~Lapsed(card[c])
  <2> DEFINE k == RedeemedBy(card[c], req[s])
  <2>1. /\ k \in Card /\ k.status = "redeemed" /\ k.tx = req[s] /\ k.stamps = card[c].stamps
    <3> DEFINE a == [card[c] EXCEPT !.status = "redeemed"]
               b == [a EXCEPT !.tx = req[s]]
    <3>1. a \in Card /\ a.status = "redeemed" /\ a.stamps = card[c].stamps
      BY <1>3 DEF Card, States
    <3>2. k = b
      BY DEF RedeemedBy
    <3> HIDE DEF a
    <3>3. b \in Card /\ b.status = "redeemed" /\ b.stamps = card[c].stamps /\ b.tx = req[s]
      BY <1>1, <3>1 DEF Card
    <3>4. QED
      BY <3>2, <3>3
  <2>2. Fine(k)
    BY <1>3, <1>8, <2>1 DEF Fine
  <2>3. mine' = [mine EXCEPT ![s] = With(mine[s], c, k)]
    BY <1>1, <1>8 DEF PickCard, c, TypeOK
  <2>4. /\ pc' = [pc EXCEPT ![s] = "record"]
        /\ cands' = [cands EXCEPT ![s] = <<>>] /\ <<>> \in Seq(Cards)
    BY <1>8 DEF PickCard, Goto, c
  <2> HIDE DEF k
  <2>5. QED
    BY <1>6, <1>8, <2>1, <2>2, <2>3, <2>4
<1>9. QED
  BY <1>1, <1>5, <1>7, <1>8 DEF PickCard, c, TypeOK

-----------------------------------------------------------------------------
(* Refunds *)

LEMMA BeginRefundStep ==
  ASSUME CardsInv, NEW s \in Sessions, NEW r \in Purchases, BeginRefund(s, r)
  PROVE  CardsInv'
<1>1. /\ s \in Actors /\ s # Job /\ TypeOK /\ pc[s] = "idle"
      /\ Local(s, pc[s], req[s], left[s], cands[s], mine[s])
      /\ r \in Requests /\ r \notin Redeems /\ now \in Nat /\ TxFree(s, r)
  BY Here, CardsAssumption DEF BeginRefund, Start, Requests, TypeOK
<1>2. PICK o \in Orders(EntriesOf(r)) :
        prog' = [prog EXCEPT ![s] = [i \in DOMAIN o |-> ledger[o[i]].delta]]
  BY DEF BeginRefund
<1> DEFINE g == [i \in DOMAIN o |-> ledger[o[i]].delta]
<1>3. g \in Seq(Nat \ {0})
  <2>1. ledger \in Seq(Entries) /\ Len(ledger) \in Nat /\ DOMAIN ledger = 1..Len(ledger)
    BY <1>1, LenProperties DEF TypeOK
  <2>2. EntriesOf(r) \subseteq 1..Len(ledger)
    BY <2>1 DEF EntriesOf
  <2>3. IsFiniteSet(EntriesOf(r))
    <3> DEFINE I == 1..Len(ledger)
    <3>1. IsFiniteSet(I)
      BY <2>1, FS_Interval
    <3>2. EntriesOf(r) \subseteq I
      BY <2>2
    <3> HIDE DEF I
    <3>3. QED
      BY <3>1, <3>2, FS_Subset
  <2>4. /\ Cardinality(EntriesOf(r)) \in Nat /\ DOMAIN o = 1..Cardinality(EntriesOf(r))
        /\ \A i \in DOMAIN o : o[i] \in EntriesOf(r)
    BY <2>3, OrdersOfFinite
  <2>5. \A i \in EntriesOf(r) : ledger[i].delta \in Nat \ {0}
    <3>1. \A i \in 1..Len(ledger) : ledger[i] \in Entries
      BY <2>1, ElementOfSeq
    <3>2. QED
      BY <2>2, <3>1 DEF EntriesOf, Entries
  <2>6. \A i \in 1..Cardinality(EntriesOf(r)) : ledger[o[i]].delta \in Nat \ {0}
    BY <2>4, <2>5
  <2>7. QED
    BY <2>4, <2>6, IsASeq
<1>4. prog' = [prog EXCEPT ![s] = g]
  BY <1>2
<1> HIDE DEF g
<1>5. Becomes(s, "take", r, now, left[s], cands[s], g, mine[s], booked[s])
  BY <1>1, <1>3, <1>4, Same DEF BeginRefund, Start, Goto, Becomes, Labels, Held
<1>6. Allowed(s, "take", r, mine[s])
  BY <1>1 DEF Allowed, Held
<1>7. Local(s, "take", r, left[s], cands[s], mine[s])
  BY <1>1 DEF Local, RowsOK
<1>8. QED
  BY <1>1, <1>5, <1>6, <1>7, Statement

LEMMA NextEntryStep ==
  ASSUME CardsInv, NEW s \in Sessions, NextEntry(s)
  PROVE  CardsInv'
<1>1. /\ s \in Actors /\ s # Job /\ TypeOK /\ pc[s] = "take" /\ pc[s] \notin Waiting
      /\ Local(s, pc[s], req[s], left[s], cands[s], mine[s])
      /\ req[s] \in Requests /\ req[s] \notin Redeems
  <2>1. pc[s] = "take" /\ pc[s] \notin Waiting
    BY DEF NextEntry, Waiting
  <2>2. QED
    BY <2>1, Here DEF Local
<1> DEFINE h == Head(prog[s])
           g == Tail(prog[s])
           e == Append(booked[s], Entry(s, -h))
<1>2. h \in Nat /\ g \in Seq(Nat \ {0})
  <2>1. prog[s] \in Seq(Nat \ {0}) /\ prog[s] # <<>>
    BY <1>1 DEF TypeOK, NextEntry
  <2>2. QED
    BY <2>1, HeadTailProperties
<1>3. e \in Seq(Entries)
  <2>1. -h \in Int
    BY <1>2
  <2> HIDE DEF h
  <2>2. QED
    BY <1>1, <2>1, EntryTyped
<1>4. PICK q \in NewestFirst(s, {c \in Cards : Live(Seen(s, c))}) :
        cands' = [cands EXCEPT ![s] = q]
  BY DEF NextEntry
<1>5. q \in Seq(Cards)
  BY OrdersOfCards DEF NewestFirst
<1>6. /\ booked' = [booked EXCEPT ![s] = e] /\ left' = [left EXCEPT ![s] = h]
      /\ prog' = [prog EXCEPT ![s] = g] /\ pc' = [pc EXCEPT ![s] = "lock"]
      /\ UNCHANGED <<now, db, req, born, mine>>
  BY <1>1 DEF NextEntry, Goto, TypeOK
<1> HIDE DEF h, g, e
<1>7. Becomes(s, "lock", req[s], born[s], h, q, g, mine[s], e)
  BY <1>1, <1>2, <1>3, <1>4, <1>5, <1>6, Same DEF Becomes, Labels, Held
<1>8. Allowed(s, "lock", req[s], mine[s])
  BY <1>1 DEF Allowed, Held
<1>9. Local(s, "lock", req[s], h, q, mine[s])
  BY <1>1 DEF Local, RowsOK
<1>10. QED
  BY <1>1, <1>7, <1>8, <1>9, Statement

LEMMA LockCardsStep ==
  ASSUME CardsInv, NEW s \in Sessions, LockCards(s)
  PROVE  CardsInv'
<1> DEFINE live == {c \in ToSet(cands[s]) : Live(Seen(s, c))}
           m == [c \in DOMAIN mine[s] \cup live |-> Seen(s, c)]
<1>1. /\ s \in Actors /\ s # Job /\ TypeOK /\ pc[s] = "lock" /\ pc[s] \notin Waiting
      /\ Local(s, pc[s], req[s], left[s], cands[s], mine[s])
      /\ req[s] \in Requests /\ req[s] \notin Redeems
  <2>1. pc[s] = "lock" /\ pc[s] \notin Waiting
    BY DEF LockCards, Waiting
  <2>2. QED
    BY <2>1, Here DEF Local
<1>2. /\ live \in SUBSET Cards
      /\ \A c \in live : RowFree(s, c) /\ Live(Seen(s, c))
  <2>1. \A i \in DOMAIN cands[s] : cands[s][i] \in Cards
    BY <1>1, ElementOfSeq, LenProperties DEF TypeOK
  <2>2. \A i \in DOMAIN cands[s] : RowFree(s, cands[s][i])
    BY DEF LockCards
  <2>3. QED
    BY <2>1, <2>2 DEF ToSet
<1>3. PICK q \in NewestFirst(s, live) : cands' = [cands EXCEPT ![s] = q]
  BY DEF LockCards
<1>4. mine' = [mine EXCEPT ![s] = m]
  BY <1>1 DEF LockCards, TypeOK
<1> HIDE DEF live
<1>5. q \in Seq(Cards) /\ \A i \in DOMAIN q : q[i] \in live
  BY <1>2, <1>3, OrdersOfCards DEF NewestFirst
<1>6. /\ DOMAIN m = Held(s) \cup live
      /\ \A c \in DOMAIN m : c \in Cards /\ m[c] = Seen(s, c)
  BY <1>1, <1>2 DEF Held, TypeOK
<1> HIDE DEF m
<1>7. \A c \in DOMAIN m : m[c] \in Card /\ Fine(m[c])
  BY <1>1, <1>6, SeenFine
<1>8. RowsOK("take", req[s], m)
  <2>1. ASSUME NEW c \in DOMAIN m PROVE ~Closed(card[c]) /\ m[c].status # "redeemed"
    <3>1. CASE c \in Held(s)
      <4>1. m[c] = mine[s][c]
        BY <1>6, <2>1, <3>1 DEF Seen, Held
      <4>2. QED
        BY <1>1, <3>1, <4>1 DEF Local, RowsOK, Held
    <3>2. CASE c \in live
      BY <1>1, <1>2, <1>6, <2>1, <3>2, SeenFine DEF Live
    <3>3. QED
      BY <1>6, <2>1, <3>1, <3>2
  <2>2. QED
    BY <1>7, <2>1 DEF RowsOK
<1>9. \A i \in DOMAIN q : q[i] \in DOMAIN m /\ Live(m[q[i]])
  BY <1>2, <1>5, <1>6
<1>10. Becomes(s, "take", req[s], born[s], left[s], q, prog[s], m, booked[s])
  BY <1>1, <1>3, <1>4, <1>5, <1>6, <1>7, Same DEF LockCards, Goto, Becomes, Labels
<1>11. Allowed(s, "take", req[s], m)
  BY <1>1, <1>2, <1>6 DEF Allowed
<1>12. Local(s, "take", req[s], left[s], q, m)
  BY <1>1, <1>8, <1>9 DEF Local
<1>13. QED
  BY <1>1, <1>10, <1>11, <1>12, Statement

LEMMA UnstampedRow ==
  ASSUME NEW k \in Card, Fine(k), Live(k), NEW n \in Nat, n > 0, n <= k.stamps
  PROVE  Unstamped(k, n) \in Card /\ Fine(Unstamped(k, n)) /\ Unstamped(k, n).status = "open"
<1>1. k.stamps \in Nat /\ k.stamps <= Required /\ k.tx = NoOne /\ Required \in Nat
  BY CardsAssumption DEF Card, Fine, Live
<1> DEFINE m == k.stamps - n
           j == Edited(k, m, "open", 0)
<1>2. m \in Nat /\ m < Required
  BY <1>1
<1>3. j = Unstamped(k, n)
  BY DEF Unstamped, Edited
<1> HIDE DEF m
<1>4. j \in Card /\ j.stamps = m /\ j.status = "open" /\ j.tx = k.tx
  <2>1. "open" \in States /\ 0 \in Nat /\ m \in Nat
    BY <1>2 DEF States
  <2>2. QED
    BY <2>1, EditedRow
<1> HIDE DEF j
<1>5. Fine(j)
  BY <1>1, <1>2, <1>4 DEF Fine
<1>6. QED
  BY <1>3, <1>4, <1>5

LEMMA TakeBackStep ==
  ASSUME CardsInv, NEW s \in Sessions, TakeBack(s)
  PROVE  CardsInv'
<1> DEFINE c == Head(cands[s])
           q == Tail(cands[s])
           n == Taken(left[s], mine[s][c])
<1>1. /\ s \in Actors /\ s # Job /\ TypeOK /\ pc[s] = "take" /\ pc[s] \notin Waiting
      /\ Local(s, pc[s], req[s], left[s], cands[s], mine[s])
      /\ req[s] \in Requests /\ req[s] \notin Redeems
      /\ cands[s] \in Seq(Cards) /\ cands[s] # <<>>
  <2>1. pc[s] = "take" /\ pc[s] \notin Waiting /\ cands[s] # <<>>
    BY DEF TakeBack, Taking, Waiting
  <2>2. QED
    BY <2>1, Here DEF Local, TypeOK
<1>2. /\ c \in Held(s) /\ Live(mine[s][c]) /\ c \in Cards /\ q \in Seq(Cards)
      /\ \A i \in DOMAIN q : q[i] \in Held(s) /\ Live(mine[s][q[i]])
  <2>1. \A i \in DOMAIN cands[s] : cands[s][i] \in Held(s) /\ Live(mine[s][cands[s][i]])
    BY <1>1 DEF Local, Held
  <2>2. /\ Len(cands[s]) \in Nat \ {0} /\ DOMAIN cands[s] = 1..Len(cands[s]) /\ c = cands[s][1]
    BY <1>1, EmptySeq, LenProperties
  <2>3. /\ q \in Seq(Cards) /\ c \in Cards /\ DOMAIN q = 1..(Len(cands[s]) - 1)
        /\ \A i \in 1..(Len(cands[s]) - 1) : q[i] = cands[s][i + 1]
    BY <1>1, HeadTailProperties, LenProperties
  <2>4. \A i \in 1..(Len(cands[s]) - 1) : i + 1 \in 1..Len(cands[s])
    BY <2>2
  <2>5. QED
    BY <2>1, <2>2, <2>3, <2>4
<1>3. mine[s][c] \in Card /\ Fine(mine[s][c]) /\ ~Closed(card[c]) /\ RowsOK("take", req[s], mine[s])
  BY <1>1, <1>2 DEF Local, RowsOK, Held, TypeOK
<1>4. n \in Nat /\ n <= left[s] /\ n <= mine[s][c].stamps /\ left[s] - n \in Nat
  <2>1. left[s] \in Nat /\ mine[s][c].stamps \in Nat
    BY <1>1, <1>3 DEF Card, TypeOK
  <2>2. QED
    BY <2>1 DEF Taken, Least
<1> DEFINE m == IF n = 0 THEN mine[s] ELSE [mine[s] EXCEPT ![c] = Unstamped(mine[s][c], n)]
           l == left[s] - n
<1>5. mine' = [mine EXCEPT ![s] = m] /\ left' = [left EXCEPT ![s] = l]
      /\ cands' = [cands EXCEPT ![s] = q]
      /\ UNCHANGED <<now, db, pc, req, born, prog, booked>>
  BY <1>1, Same DEF TakeBack, TypeOK
<1> HIDE DEF n, c, q
<1>6. /\ DOMAIN m = Held(s)
      /\ \A d \in DOMAIN m : /\ m[d] = mine[s][d] \/ (d = c /\ n > 0 /\ m[d] = Unstamped(mine[s][c], n))
                             /\ d \in Cards /\ mine[s][d] \in Card
  <2>1. \A d \in Held(s) : d \in Cards /\ mine[s][d] \in Card
    BY <1>1, Same
  <2>2. n # 0 => n > 0
    BY <1>4
  <2>3. QED
    BY <1>2, <2>1, <2>2 DEF Held
<1> HIDE DEF m
<1>7. n > 0 => /\ Unstamped(mine[s][c], n) \in Card /\ Fine(Unstamped(mine[s][c], n))
               /\ Unstamped(mine[s][c], n).status = "open"
  BY <1>2, <1>3, <1>4, UnstampedRow
<1>8. \A d \in DOMAIN m : d \in Cards /\ m[d] \in Card
  BY <1>6, <1>7
<1>9. RowsOK("take", req[s], m)
  BY <1>1, <1>3, <1>6, <1>7 DEF RowsOK, Held
<1>10. \A i \in DOMAIN q : q[i] \in DOMAIN m /\ Live(m[q[i]])
  BY <1>2, <1>6, <1>7 DEF Live
<1>11. l \in Nat
  BY <1>4
<1> HIDE DEF l
<1>12. Becomes(s, "take", req[s], born[s], l, q, prog[s], m, booked[s])
  BY <1>1, <1>2, <1>5, <1>8, <1>11, Same DEF Becomes, Labels
<1>13. Allowed(s, "take", req[s], m)
  BY <1>1, <1>6 DEF Allowed
<1>14. Local(s, "take", req[s], l, q, m)
  BY <1>1, <1>9, <1>10 DEF Local
<1>15. QED
  BY <1>1, <1>12, <1>13, <1>14, Statement

-----------------------------------------------------------------------------
(* The job *)

LEMMA JobHere ==
  ASSUME CardsInv
  PROVE  Job \in Actors /\ TypeOK /\ Local(Job, pc[Job], req[Job], left[Job], cands[Job], mine[Job])
BY DEF Actors, CardsInv, SessionOK

LEMMA BeginExpireStep ==
  ASSUME CardsInv, BeginExpire
  PROVE  CardsInv'
<1>1. /\ Job \in Actors /\ TypeOK /\ pc[Job] = "idle" /\ req[Job] = NoOne
      /\ Local(Job, pc[Job], req[Job], left[Job], cands[Job], mine[Job])
  BY JobHere DEF BeginExpire, Local
<1>2. PICK q \in Orders(Expirable) : cands' = [cands EXCEPT ![Job] = q]
  BY DEF BeginExpire
<1>3. q \in Seq(Cards) /\ q # <<>>
  BY OrdersOfCards DEF BeginExpire, Expirable
<1>4. Becomes(Job, "expire", req[Job], born[Job], left[Job], q, prog[Job], mine[Job], booked[Job])
  BY <1>1, <1>2, <1>3, Same DEF BeginExpire, Goto, Becomes, Labels, Held
<1>5. Allowed(Job, "expire", req[Job], mine[Job])
  BY <1>1 DEF Allowed, Held
<1>6. Local(Job, "expire", req[Job], left[Job], q, mine[Job])
  BY <1>1, <1>3 DEF Local, RowsOK
<1>7. QED
  BY <1>1, <1>4, <1>5, <1>6, Statement

LEMMA ExpireCardStep ==
  ASSUME CardsInv, ExpireCard
  PROVE  CardsInv'
<1> DEFINE c == Head(cands[Job])
           q == Tail(cands[Job])
           m == IF Live(card[c]) THEN With(mine[Job], c, Expired(card[c])) ELSE mine[Job]
<1>1. /\ Job \in Actors /\ TypeOK /\ pc[Job] = "expire" /\ req[Job] = NoOne
      /\ Local(Job, pc[Job], req[Job], left[Job], cands[Job], mine[Job])
      /\ req[Job] \notin Redeems
  BY JobHere, CardsAssumption DEF ExpireCard, Local, Requests
<1>2. RowFree(Job, c) /\ c \in Cards /\ q \in Seq(Cards) /\ Len(cands[Job]) \in Nat
      /\ (Len(cands[Job]) # 1 => q # <<>>)
  <2>1. cands[Job] \in Seq(Cards) /\ cands[Job] # <<>>
    BY <1>1 DEF TypeOK, Local
  <2>2. /\ c \in Cards /\ q \in Seq(Cards) /\ Len(q) = Len(cands[Job]) - 1
        /\ Len(cands[Job]) \in Nat \ {0}
    BY <2>1, HeadTailProperties, EmptySeq
  <2>3. Len(cands[Job]) # 1 => Len(q) # 0
    BY <2>2
  <2>4. QED
    BY <2>2, <2>3, EmptySeq DEF ExpireCard
<1>3. card[c] \in Card /\ Fine(card[c])
  BY <1>2 DEF CardsInv, TypeOK
<1>4. PICK p \in {"commit", "expire"} : /\ pc' = [pc EXCEPT ![Job] = p]
                                        /\ p = "expire" => Len(cands[Job]) # 1
  BY DEF ExpireCard, Goto
<1>5. /\ mine' = [mine EXCEPT ![Job] = m] /\ cands' = [cands EXCEPT ![Job] = q]
      /\ UNCHANGED <<now, db, req, born, left, prog, booked>>
  BY <1>1, Same DEF ExpireCard, TypeOK
<1>6. /\ \A d \in DOMAIN m : d \in Cards /\ m[d] \in Card
      /\ \A d \in DOMAIN m : d \in Held(Job) \/ RowFree(Job, d)
      /\ RowsOK(p, req[Job], m)
  <2>1. CASE ~Live(card[c])
    BY <1>1, <2>1, Same DEF Local, RowsOK, Held
  <2>2. CASE Live(card[c])
    <3> DEFINE k == Expired(card[c])
    <3>1. k \in Card /\ k.status = "expired" /\ k.tx = card[c].tx
      BY <1>3 DEF Expired, Card, States
    <3>2. Fine(k) /\ ~Closed(card[c]) /\ k.status # "redeemed"
      BY <1>3, <2>2, <3>1 DEF Fine, Live, Closed
    <3>3. m = With(mine[Job], c, k)
      BY <2>2
    <3> HIDE DEF m, k, c
    <3>4. \A d \in DOMAIN m : d \in Cards /\ m[d] \in Card
      BY <1>1, <1>2, <3>1, <3>3, WithRow
    <3>5. DOMAIN m = Held(Job) \cup {c}
      BY <3>3 DEF With, Held
    <3>6. RowsOK(p, req[Job], m)
      BY <1>1, <1>2, <3>1, <3>2, <3>3, MoreRows
    <3>7. QED
      BY <1>2, <3>4, <3>5, <3>6
  <2>3. QED
    BY <2>1, <2>2
<1> HIDE DEF c, q, m
<1>7. Becomes(Job, p, req[Job], born[Job], left[Job], q, prog[Job], m, booked[Job])
  BY <1>1, <1>2, <1>4, <1>5, <1>6, Same DEF Becomes, Labels
<1>8. Allowed(Job, p, req[Job], m)
  BY <1>1, <1>6 DEF Allowed
<1>9. Local(Job, p, req[Job], left[Job], q, m)
  BY <1>1, <1>2, <1>4, <1>6 DEF Local
<1>10. QED
  BY <1>1, <1>7, <1>8, <1>9, Statement

-----------------------------------------------------------------------------
(* The end of a transaction *)

LEMMA CommitHere ==
  ASSUME CardsInv, NEW s \in Actors, Done(s)
  PROVE  /\ TypeOK /\ Local(s, pc[s], req[s], left[s], cands[s], mine[s])
         /\ pc[s] \in {"commit", "take"} /\ pc[s] \notin Waiting
         /\ s = Job => req[s] = NoOne
         /\ s # Job => req[s] \in Requests
         /\ req[s] \in Redeems =>
              s # Job /\ pc[s] = "commit" /\ status[req[s]] = "new" /\ Coffee(req[s], mine[s])
         /\ \A t \in Actors \ {s} :
              /\ Held(s) \cap Held(t) = {}
              /\ req[t] = req[s] /\ req[s] # NoOne => pc[t] \in Waiting
<1>1. TypeOK /\ Local(s, pc[s], req[s], left[s], cands[s], mine[s])
  BY DEF CardsInv, SessionOK
<1>2. pc[s] \in {"commit", "take"} /\ pc[s] \notin Waiting
  BY DEF Done, Waiting
<1>3. NoOne \notin Redeems
  BY CardsAssumption DEF Requests
<1>4. /\ s = Job => req[s] = NoOne
      /\ s # Job => req[s] \in Requests
      /\ req[s] \in Redeems =>
           s # Job /\ pc[s] = "commit" /\ status[req[s]] = "new" /\ Coffee(req[s], mine[s])
  BY <1>1, <1>2, <1>3 DEF Local
<1>5. QED
  BY <1>1, <1>2, <1>4 DEF CardsInv, LocksOK

\* A commit writes the rows of s over cards that were not closed, and closes the
\* request it was made for.
LEMMA CommitWrites ==
  ASSUME CardsInv, NEW s \in Actors, Commit(s)
  PROVE  /\ \A c \in Cards :
              /\ card'[c] \in Card /\ Fine(card'[c])
              /\ c \notin Held(s) => card'[c] = card[c]
              /\ c \in Held(s) => card'[c] = mine[s][c] /\ ~Closed(card[c])
         /\ card' \in [Cards -> Card]
         /\ status' \in [Requests -> {"new", "committed", "reversed"}]
         /\ \A r \in Requests \ {req[s]} : status'[r] = status[r]
         /\ req[s] \in Redeems => status'[req[s]] = "committed"
<1>1. /\ TypeOK /\ Local(s, pc[s], req[s], left[s], cands[s], mine[s]) /\ Done(s)
      /\ s = Job => req[s] = NoOne
      /\ s # Job => req[s] \in Requests
      /\ req[s] \in Redeems => s # Job /\ pc[s] = "commit"
  BY CommitHere DEF Commit
<1>2. card' = [c \in Cards |-> Seen(s, c)]
  BY DEF Commit
<1>3. ASSUME NEW c \in Cards
      PROVE  /\ card'[c] \in Card /\ Fine(card'[c])
             /\ c \notin Held(s) => card'[c] = card[c]
             /\ c \in Held(s) => card'[c] = mine[s][c] /\ ~Closed(card[c])
  <2>1. card'[c] = Seen(s, c)
    BY <1>2
  <2>2. Seen(s, c) \in Card /\ Fine(Seen(s, c))
    BY SeenFine
  <2>3. c \in Held(s) => ~Closed(card[c])
    BY <1>1 DEF Local, RowsOK, Held
  <2>4. QED
    BY <2>1, <2>2, <2>3 DEF Seen, Held
<1>4. card' \in [Cards -> Card]
  BY <1>2, <1>3
<1>5. /\ status' \in [Requests -> {"new", "committed", "reversed"}]
      /\ \A r \in Requests \ {req[s]} : status'[r] = status[r]
      /\ req[s] \in Redeems => status'[req[s]] = "committed"
  <2>1. CASE s = Job
    BY <1>1, <2>1 DEF Commit, TypeOK
  <2>2. CASE s # Job
    BY <1>1, <2>2 DEF Commit, TypeOK, Requests
  <2>3. QED
    BY <2>1, <2>2
<1>6. QED
  BY <1>3, <1>4, <1>5

LEMMA Forgotten ==
  ASSUME TypeOK, NEW s \in Actors, Forget(s)
  PROVE  /\ pc'[s] = "idle" /\ req'[s] = NoOne /\ left'[s] = 0 /\ cands'[s] = <<>>
         /\ mine'[s] = NoRow
         /\ \A t \in Actors \ {s} : /\ pc'[t] = pc[t] /\ req'[t] = req[t] /\ left'[t] = left[t]
                                    /\ cands'[t] = cands[t] /\ mine'[t] = mine[t]
         /\ pc' \in [Actors -> Labels] /\ req' \in [Actors -> Requests \cup {NoOne}]
         /\ born' \in [Actors -> Nat] /\ left' \in [Actors -> Nat]
         /\ cands' \in [Actors -> Seq(Cards)] /\ prog' \in [Actors -> Seq(Nat \ {0})]
         /\ booked' \in [Actors -> Seq(Entries)]
         /\ mine' = [t \in Actors |-> mine'[t]]
<1>1. /\ pc'[s] = "idle" /\ req'[s] = NoOne /\ left'[s] = 0 /\ cands'[s] = <<>>
      /\ mine'[s] = NoRow
      /\ \A t \in Actors \ {s} : /\ pc'[t] = pc[t] /\ req'[t] = req[t] /\ left'[t] = left[t]
                                 /\ cands'[t] = cands[t] /\ mine'[t] = mine[t]
      /\ mine' = [t \in Actors |-> mine'[t]]
  BY DEF Forget, Goto, TypeOK
<1>2. /\ pc' \in [Actors -> Labels] /\ req' \in [Actors -> Requests \cup {NoOne}]
      /\ born' \in [Actors -> Nat] /\ left' \in [Actors -> Nat]
  BY DEF Forget, Goto, TypeOK, Labels
<1>3. /\ cands' \in [Actors -> Seq(Cards)] /\ prog' \in [Actors -> Seq(Nat \ {0})]
      /\ booked' \in [Actors -> Seq(Entries)]
  BY DEF Forget, TypeOK
<1>4. QED
  BY <1>1, <1>2, <1>3

LEMMA CommitCoffees ==
  ASSUME CardsInv, NEW s \in Actors, Commit(s)
  PROVE  CoffeesOK'
<1> SUFFICES ASSUME NEW r \in Redeems
             PROVE  IF status'[r] = "committed" THEN \E c \in Cards : Paying(r)' = {c}
                    ELSE Paying(r)' = {}
  BY DEF CoffeesOK
<1>1. /\ \A c \in Cards : /\ c \notin Held(s) => card'[c] = card[c]
                          /\ c \in Held(s) => card'[c] = mine[s][c] /\ ~Closed(card[c])
      /\ \A q \in Requests \ {req[s]} : status'[q] = status[q]
      /\ req[s] \in Redeems => status'[req[s]] = "committed"
  BY CommitWrites
<1>2. /\ RowsOK(pc[s], req[s], mine[s])
      /\ req[s] \in Redeems => status[req[s]] = "new" /\ Coffee(req[s], mine[s])
  BY CommitHere DEF Commit, Local
<1>3. IF status[r] = "committed" THEN \E c \in Cards : Paying(r) = {c} ELSE Paying(r) = {}
  BY DEF CardsInv, CoffeesOK
<1>4. \A c \in Held(s) : c \in Cards
  BY DEF CardsInv, TypeOK, Held
<1>5. CASE r = req[s]
  <2>1. PICK c \in Held(s) : Held(s) = {c} /\ mine[s][c].status = "redeemed" /\ mine[s][c].tx = r
    BY <1>2, <1>5 DEF Coffee, Held
  <2>2. Paying(r) = {}
    BY <1>2, <1>3, <1>5
  <2>3. c \in Cards /\ c \in Paying(r)'
    BY <1>1, <1>4, <2>1 DEF Paying
  <2>4. \A d \in Cards \ {c} : d \notin Paying(r)'
    BY <1>1, <2>1, <2>2 DEF Paying
  <2>5. Paying(r)' = {c}
    BY <2>3, <2>4 DEF Paying
  <2>6. QED
    BY <1>1, <1>5, <2>3, <2>5
<1>6. CASE r # req[s]
  <2>1. ASSUME NEW d \in Cards PROVE d \in Paying(r)' <=> d \in Paying(r)
    <3>1. CASE d \notin Held(s)
      BY <1>1, <3>1 DEF Paying
    <3>2. CASE d \in Held(s)
      <4>1. d \notin Paying(r)
        BY <1>1, <3>2 DEF Paying, Closed
      <4>2. mine[s][d].status = "redeemed" => mine[s][d].tx = req[s]
        BY <1>2, <3>2 DEF RowsOK, Coffee, Held
      <4>3. d \notin Paying(r)'
        BY <1>1, <1>6, <3>2, <4>2 DEF Paying
      <4>4. QED
        BY <4>1, <4>3
    <3>3. QED
      BY <3>1, <3>2
  <2>2. Paying(r)' = Paying(r)
    BY <2>1 DEF Paying
  <2>3. status'[r] = status[r]
    BY <1>1, <1>6 DEF Requests
  <2>4. QED
    BY <1>3, <2>2, <2>3
<1>7. QED
  BY <1>5, <1>6

LEMMA CommitStep ==
  ASSUME CardsInv, NEW s \in Actors, Commit(s)
  PROVE  CardsInv'
<1>1. TypeOK /\ Forget(s) /\ now' = now /\ ledger' = ledger \o booked[s]
  BY DEF CardsInv, Commit
<1>2. /\ pc'[s] = "idle" /\ req'[s] = NoOne /\ left'[s] = 0 /\ cands'[s] = <<>>
      /\ mine'[s] = NoRow /\ DOMAIN mine'[s] = {}
      /\ \A t \in Actors \ {s} : /\ pc'[t] = pc[t] /\ req'[t] = req[t] /\ left'[t] = left[t]
                                 /\ cands'[t] = cands[t] /\ mine'[t] = mine[t]
  BY <1>1, Forgotten, NothingHeld
<1>3. /\ \A t \in Actors \ {s} : /\ Held(s) \cap Held(t) = {}
                                 /\ req[t] = req[s] /\ req[s] # NoOne => pc[t] \in Waiting
  BY CommitHere DEF Commit
<1>4. /\ \A c \in Cards : /\ Fine(card'[c])
                          /\ c \notin Held(s) => card'[c] = card[c]
      /\ \A r \in Requests \ {req[s]} : status'[r] = status[r]
  BY CommitWrites
<1>5. TypeOK'
  <2>1. /\ card' \in [Cards -> Card]
        /\ status' \in [Requests -> {"new", "committed", "reversed"}]
    BY CommitWrites
  <2>2. ledger' \in Seq(Entries)
    BY <1>1, ConcatProperties DEF TypeOK
  <2>3. \A t \in Actors : \A c \in DOMAIN mine'[t] : c \in Cards /\ mine'[t][c] \in Card
    BY <1>1, <1>2 DEF TypeOK
  <2>4. now' \in Nat
    BY <1>1 DEF TypeOK
  <2>5. /\ pc' \in [Actors -> Labels] /\ req' \in [Actors -> Requests \cup {NoOne}]
        /\ born' \in [Actors -> Nat] /\ left' \in [Actors -> Nat]
        /\ cands' \in [Actors -> Seq(Cards)] /\ prog' \in [Actors -> Seq(Nat \ {0})]
        /\ booked' \in [Actors -> Seq(Entries)] /\ mine' = [t \in Actors |-> mine'[t]]
    BY <1>1, Forgotten
  <2>6. QED
    BY <2>1, <2>2, <2>3, <2>4, <2>5 DEF TypeOK
<1>6. ASSUME NEW t \in Actors PROVE SessionOK(t)'
  <2>1. CASE t = s
    BY <1>2, <2>1, CardsAssumption DEF SessionOK, Local, RowsOK
  <2>2. CASE t # s
    <3>1. Local(t, pc[t], req[t], left[t], cands[t], mine[t])
      BY DEF CardsInv, SessionOK
    <3>2. \A c \in DOMAIN mine[t] : card'[c] = card[c]
      BY <1>1, <1>3, <1>4, <2>2 DEF TypeOK, Held
    <3>3. pc[t] = "commit" /\ req[t] \in Redeems => status'[req[t]] = status[req[t]]
      <4>1. ASSUME pc[t] = "commit", req[t] \in Redeems PROVE req[t] \in Requests \ {req[s]}
        <5>1. req[t] \in Requests /\ req[t] # NoOne /\ pc[t] \notin Waiting
          BY <4>1, CardsAssumption DEF Requests, Waiting
        <5>2. QED
          BY <1>3, <2>2, <5>1
      <4>2. QED
        BY <1>4, <4>1
    <3>4. QED
      BY <1>2, <2>2, <3>1, <3>2, <3>3 DEF SessionOK, Local, RowsOK
  <2>3. QED
    BY <2>1, <2>2
<1>7. LocksOK'
  <2> SUFFICES ASSUME NEW t \in Actors, NEW u \in Actors, t # u
               PROVE  /\ Held(t)' \cap Held(u)' = {}
                      /\ req'[t] = req'[u] /\ req'[t] # NoOne => pc'[t] \in Waiting \/ pc'[u] \in Waiting
    BY DEF LocksOK
  <2>1. CASE t = s \/ u = s
    BY <1>2, <2>1 DEF Held
  <2>2. CASE t # s /\ u # s
    BY <1>2, <2>2 DEF CardsInv, LocksOK, Held
  <2>3. QED
    BY <2>1, <2>2
<1>8. QED
  BY <1>4, <1>5, <1>6, <1>7, CommitCoffees DEF CardsInv

LEMMA TickStep ==
  ASSUME CardsInv, Tick
  PROVE  CardsInv'
<1>1. now' \in Nat /\ UNCHANGED <<card, status, ledger, pc, req, born, left, cands, prog, mine, booked>>
  BY DEF CardsInv, TypeOK, Tick, db, private
<1>2. TypeOK'
  BY <1>1 DEF CardsInv, TypeOK
<1>3. (\A c \in Cards : Fine(card'[c])) /\ CoffeesOK'
  BY <1>1 DEF CardsInv, CoffeesOK, Paying
<1>4. \A s \in Actors : SessionOK(s)'
  BY <1>1 DEF CardsInv, SessionOK, Local, RowsOK
<1>5. LocksOK'
  BY <1>1 DEF CardsInv, LocksOK, Held
<1>6. QED
  BY <1>2, <1>3, <1>4, <1>5 DEF CardsInv

-----------------------------------------------------------------------------
(* The invariant, and what follows from it *)

LEMMA InitHolds ==
  ASSUME Init
  PROVE  CardsInv
<1>1. NoCard \in Card /\ Fine(NoCard) /\ NoCard.status = "none"
  BY DEF NoCard, Card, States, Fine
<1>2. TypeOK
  BY <1>1, NothingHeld DEF Init, TypeOK, Labels
<1>3. (\A c \in Cards : Fine(card[c])) /\ CoffeesOK
  BY <1>1 DEF Init, CoffeesOK, Paying, Requests
<1>4. \A s \in Actors : SessionOK(s)
  BY NothingHeld, CardsAssumption DEF Init, SessionOK, Local, RowsOK
<1>5. LocksOK
  BY NothingHeld DEF Init, LocksOK, Held
<1>6. QED
  BY <1>2, <1>3, <1>4, <1>5 DEF CardsInv

LEMMA SessionStep ==
  ASSUME CardsInv, NEW s \in Sessions, Begin(s) \/ Advance(s) \/ Abort(s)
  PROVE  CardsInv'
<1>1. s \in Actors
  BY DEF Actors
<1>2. CASE Begin(s)
  <2>1. ASSUME NEW r \in Purchases \cup StampGrants \cup FreeGrants, BeginGiving(s, r)
        PROVE  CardsInv'
    BY <2>1, BeginGivingStep
  <2>2. ASSUME NEW r \in Redeems, BeginRedeem(s, r, Cards) PROVE CardsInv'
    BY <2>2, BeginRedeemStep
  <2>3. ASSUME NEW r \in Redeems, NEW c \in Cards, BeginRedeem(s, r, {c}) PROVE CardsInv'
    BY <2>3, BeginRedeemStep
  <2>4. ASSUME NEW r \in Purchases, BeginRefund(s, r) PROVE CardsInv'
    BY <2>4, BeginRefundStep
  <2>5. QED
    BY <1>2, <2>1, <2>2, <2>3, <2>4 DEF Begin
<1>3. CASE Advance(s)
  <2>1. CASE Record(s)
    BY <2>1, RecordStep
  <2>2. CASE CoolDown(s)
    BY <2>2, CoolDownStep
  <2>3. CASE FindCard(s)
    BY <2>3, FindCardStep
  <2>4. CASE StampCard(s)
    BY <2>4, StampCardStep
  <2>5. CASE OpenCard(s)
    BY <2>5, OpenCardStep
  <2>6. CASE GiveFree(s)
    BY <2>6, GiveFreeStep
  <2>7. CASE PickCard(s)
    BY <2>7, PickCardStep
  <2>8. CASE NextEntry(s)
    BY <2>8, NextEntryStep
  <2>9. CASE LockCards(s)
    BY <2>9, LockCardsStep
  <2>10. CASE TakeBack(s)
    BY <2>10, TakeBackStep
  <2>11. CASE RecordFails(s) \/ OpenFails(s) \/ Refuse(s) \/ NotAvailable(s) \/ ReopenFails(s)
    BY <1>1, <2>11, RollBackStep DEF RecordFails, OpenFails, Refuse, NotAvailable, ReopenFails
  <2>12. CASE Commit(s)
    BY <1>1, <2>12, CommitStep
  <2>13. QED
    BY <1>3, <2>1, <2>2, <2>3, <2>4, <2>5, <2>6, <2>7, <2>8, <2>9, <2>10, <2>11, <2>12 DEF Advance
<1>4. CASE Abort(s)
  BY <1>1, <1>4, RollBackStep DEF Abort
<1>5. QED
  BY <1>2, <1>3, <1>4

LEMMA NextKeeps ==
  ASSUME CardsInv, [Next]_vars
  PROVE  CardsInv'
<1>1. Job \in Actors
  BY DEF Actors
<1>2. ASSUME NEW s \in Sessions, Begin(s) \/ Advance(s) \/ Abort(s) PROVE CardsInv'
  BY <1>2, SessionStep
<1>3. CASE BeginExpire
  BY <1>3, BeginExpireStep
<1>4. CASE ExpireCard
  BY <1>4, ExpireCardStep
<1>5. CASE Commit(Job)
  BY <1>1, <1>5, CommitStep
<1>6. CASE Abort(Job)
  BY <1>1, <1>6, RollBackStep DEF Abort
<1>7. CASE Tick
  BY <1>7, TickStep
<1>8. CASE UNCHANGED vars
  <2>1. UNCHANGED <<now, card, status, ledger, pc, req, born, left, cands, prog, mine, booked>>
    BY <1>8 DEF vars, db, private
  <2>2. TypeOK'
    BY <2>1 DEF CardsInv, TypeOK
  <2>3. (\A c \in Cards : Fine(card'[c])) /\ CoffeesOK'
    BY <2>1 DEF CardsInv, CoffeesOK, Paying
  <2>4. \A s \in Actors : SessionOK(s)'
    BY <2>1 DEF CardsInv, SessionOK, Local, RowsOK
  <2>5. LocksOK'
    BY <2>1 DEF CardsInv, LocksOK, Held
  <2>6. QED
    BY <2>2, <2>3, <2>4, <2>5 DEF CardsInv
<1>9. QED
  BY <1>2, <1>3, <1>4, <1>5, <1>6, <1>7, <1>8 DEF Next

\* Every reachable state is typed, its rows and the rows its transactions hold
\* are fit to be committed, each committed coffee has its one card, and no row is
\* held by two transactions.
THEOREM CardsInvariant == Spec => []CardsInv
<1>1. Init => CardsInv
  BY InitHolds
<1>2. CardsInv /\ [Next]_vars => CardsInv'
  BY NextKeeps
<1>3. QED
  BY <1>1, <1>2, PTL DEF Spec

\* The committed rows, the ledger and what each transaction holds keep their types.
THEOREM CardTypes == Spec => []TypeOK
<1>1. CardsInv => TypeOK
  BY DEF CardsInv
<1>2. QED
  BY <1>1, CardsInvariant, PTL

\* A card that waits for its coffee, or has paid for one, is full and an open one
\* is not, through purchases, grants, refunds that reopen cards and the nightly job.
THEOREM FullCards == Spec => []CompleteIsFull
<1>1. CardsInv => CompleteIsFull
  BY DEF CardsInv, Fine, CompleteIsFull
<1>2. QED
  BY <1>1, CardsInvariant, PTL

\* A committed redemption has closed exactly one card and a redemption that is not
\* committed none, however many sessions serve it and whatever they retry.
THEOREM OneCardEach == Spec => []OneCardPerCoffee
<1>1. ASSUME CardsInv PROVE OneCardPerCoffee
  <2> SUFFICES ASSUME NEW r \in Redeems
               PROVE  Cardinality({c \in Cards : card[c].status = "redeemed" /\ card[c].tx = r})
                        = IF status[r] = "committed" THEN 1 ELSE 0
    BY DEF OneCardPerCoffee
  <2>1. Cardinality(Paying(r)) = IF status[r] = "committed" THEN 1 ELSE 0
    <3>1. IF status[r] = "committed" THEN \E c \in Cards : Paying(r) = {c} ELSE Paying(r) = {}
      BY <1>1 DEF CardsInv, CoffeesOK
    <3>2. CASE status[r] = "committed"
      BY <3>1, <3>2, FS_Singleton
    <3>3. CASE status[r] # "committed"
      BY <3>1, <3>3, FS_EmptySet
    <3>4. QED
      BY <3>2, <3>3
  <2>2. QED
    BY <2>1 DEF Paying
<1>2. QED
  BY <1>1, CardsInvariant, PTL

\* No step changes a card that is redeemed or expired: not a refund that looks for
\* cards to take stamps from, not a stamp that was on its way, not the job.
THEOREM ClosedStays == Spec => ClosedForGood
<1> DEFINE Kept == \A c \in Cards : card[c].status \in {"redeemed", "expired"} => card'[c] = card[c]
<1>1. ASSUME CardsInv, [Next]_vars PROVE [Kept]_card
  <2>1. ASSUME NEW s \in Actors, Commit(s) PROVE Kept
    BY <1>1, <2>1, CommitWrites DEF Closed
  <2>2. ASSUME NEW s \in Sessions, Begin(s) \/ Advance(s) \/ Abort(s) PROVE Kept \/ card' = card
    <3>1. s \in Actors
      BY DEF Actors
    <3>2. CASE Begin(s)
      BY <3>2 DEF Begin, BeginGiving, BeginRedeem, BeginRefund, db
    <3>3. CASE Abort(s)
      BY <3>3 DEF Abort, RollBack, db
    <3>4. CASE Advance(s) /\ ~Commit(s)
      BY <3>4 DEF Advance, Record, RecordFails, CoolDown, FindCard, StampCard, OpenCard, OpenFails,
                  GiveFree, Give, PickCard, Refuse, NotAvailable, NextEntry, LockCards, TakeBack,
                  ReopenFails, RollBack, db
    <3>5. CASE Commit(s)
      BY <2>1, <3>1, <3>5
    <3>6. QED
      BY <2>2, <3>2, <3>3, <3>4, <3>5
  <2>3. CASE BeginExpire \/ ExpireCard \/ Abort(Job) \/ Tick \/ UNCHANGED vars
    BY <2>3 DEF BeginExpire, ExpireCard, Abort, RollBack, Tick, vars, db
  <2>4. Job \in Actors
    BY DEF Actors
  <2>5. QED
    BY <1>1, <2>1, <2>2, <2>3, <2>4 DEF Next
<1>2. QED
  BY <1>1, CardsInvariant, PTL DEF Spec, ClosedForGood

-----------------------------------------------------------------------------
(* The open card *)

IsOpen(k) == k.status = "open"

\* OneOpenCard is inductive with the rows as they are committed, which is what
\* a transaction sees that has rolled back, and with the rows that two
\* transactions have written and that one will see when the other commits.
OpenOK ==
  /\ \A c, d \in Cards : IsOpen(card[c]) /\ IsOpen(card[d]) => c = d
  /\ OneOpenCard
  /\ \A s, t \in Actors : s # t =>
       \A c \in Held(s), d \in Held(t) : ~(IsOpen(mine[s][c]) /\ IsOpen(mine[t][d]))

\* A statement of s writes the rows m.
Writes(s, m) == card' = card /\ mine' = [mine EXCEPT ![s] = m]

View(m, c) == IF c \in DOMAIN m THEN m[c] ELSE card[c]

LEMMA Viewed ==
  ASSUME OpenOK, TypeOK, NEW s \in Actors, NEW m, Writes(s, m),
         \A c, d \in Cards : IsOpen(View(m, c)) /\ IsOpen(View(m, d)) => c = d,
         \A c \in DOMAIN m : IsOpen(m[c]) =>
           \A t \in Actors \ {s} : \A d \in Held(t) : ~IsOpen(mine[t][d])
  PROVE  OpenOK'
<1>1. /\ card' = card /\ mine'[s] = m
      /\ \A t \in Actors \ {s} : mine'[t] = mine[t]
  BY DEF TypeOK, Writes
<1>2. (\A c, d \in Cards : IsOpen(card[c]) /\ IsOpen(card[d]) => c = d)'
  BY <1>1 DEF OpenOK
<1>3. ASSUME NEW t \in Actors, NEW c \in Cards, NEW d \in Cards,
             IsOpen(Seen(t, c)'), IsOpen(Seen(t, d)')
      PROVE  c = d
  <2>1. CASE t = s
    BY <1>1, <1>3, <2>1 DEF Seen, View
  <2>2. CASE t # s
    <3>1. Seen(t, c)' = Seen(t, c) /\ Seen(t, d)' = Seen(t, d)
      BY <1>1, <2>2 DEF Seen
    <3>2. QED
      BY <1>3, <3>1 DEF OpenOK, OneOpenCard, IsOpen
  <2>3. QED
    BY <2>1, <2>2
<1>4. OneOpenCard'
  BY <1>3 DEF OneOpenCard, IsOpen
<1>5. ASSUME NEW t \in Actors, NEW u \in Actors, t # u, NEW c \in Held(t)', NEW d \in Held(u)'
      PROVE  ~(IsOpen(mine'[t][c]) /\ IsOpen(mine'[u][d]))
  <2>1. CASE t = s
    BY <1>1, <1>5, <2>1 DEF Held
  <2>2. CASE u = s
    BY <1>1, <1>5, <2>2 DEF Held
  <2>3. CASE t # s /\ u # s
    BY <1>1, <1>5, <2>3 DEF OpenOK, Held
  <2>4. QED
    BY <2>1, <2>2, <2>3
<1>6. QED
  BY <1>2, <1>4, <1>5 DEF OpenOK

\* Rows that s saw open before may stay so, and others close: a free row that it
\* saw open can be open in no other transaction's hands.
LEMMA OpensNone ==
  ASSUME OpenOK, TypeOK, NEW s \in Actors, NEW m, Writes(s, m), Held(s) \subseteq DOMAIN m,
         \A c \in DOMAIN m : c \in Cards /\
           (IsOpen(m[c]) => IsOpen(Seen(s, c)) /\ (c \in Held(s) \/ RowFree(s, c)))
  PROVE  OpenOK'
<1>1. ASSUME NEW c \in Cards, IsOpen(View(m, c)) PROVE IsOpen(Seen(s, c))
  BY <1>1 DEF View, Seen, Held
<1>2. \A c, d \in Cards : IsOpen(View(m, c)) /\ IsOpen(View(m, d)) => c = d
  BY <1>1 DEF OpenOK, OneOpenCard, IsOpen
<1>3. ASSUME NEW c \in DOMAIN m, IsOpen(m[c]), NEW t \in Actors \ {s}, NEW d \in Held(t)
      PROVE  ~IsOpen(mine[t][d])
  <2>1. CASE c \in Held(s)
    <3>1. IsOpen(mine[s][c])
      BY <1>3, <2>1 DEF Seen, Held
    <3>2. QED
      BY <2>1, <3>1 DEF OpenOK
  <2>2. CASE c \notin Held(s)
    <3>1. c \notin Held(t) /\ IsOpen(card[c]) /\ c \in Cards
      BY <1>3, <2>2 DEF RowFree, Held, Seen
    <3>2. IsOpen(Seen(t, c))
      BY <3>1 DEF Seen, Held
    <3>3. d \in Cards /\ Seen(t, d) = mine[t][d] /\ d # c
      BY <3>1 DEF Seen, Held, TypeOK
    <3>4. QED
      BY <3>1, <3>2, <3>3 DEF OpenOK, OneOpenCard, IsOpen
  <2>3. QED
    BY <2>1, <2>2
<1>4. QED
  BY <1>2, <1>3, Viewed

\* The unique index: s opens or reopens c once nobody has another open card, or
\* is about to have one.
LEMMA OpensOne ==
  ASSUME OpenOK, CardsInv, NEW s \in Actors, NEW c \in Cards, KeyFree(s, c),
         c \in Held(s) \/ RowFree(s, c), NEW m, Writes(s, m), DOMAIN m = Held(s) \cup {c},
         \A d \in DOMAIN m \ {c} : m[d] = mine[s][d]
  PROVE  OpenOK'
<1>1. ASSUME NEW d \in Cards \ {c} PROVE ~IsOpen(View(m, d))
  <2>1. View(m, d) = Seen(s, d)
    BY DEF View, Seen, Held
  <2>2. QED
    BY <2>1 DEF KeyFree, IsOpen
<1>2. ASSUME NEW t \in Actors \ {s}, NEW d \in Held(t) PROVE ~IsOpen(mine[t][d])
  <2>1. d \in Cards /\ d \notin Held(s)
    BY DEF CardsInv, TypeOK, LocksOK, Held
  <2>2. d # c
    BY <2>1 DEF RowFree, Held
  <2>3. Seen(s, d) = card[d] /\ ~IsOpen(card[d])
    BY <2>1, <2>2 DEF KeyFree, Seen, Held, IsOpen
  <2>4. CASE Changes(t, d)
    BY <2>1, <2>2, <2>4 DEF KeyFree, IsOpen
  <2>5. CASE ~Changes(t, d)
    BY <2>3, <2>5 DEF Changes, Held
  <2>6. QED
    BY <2>4, <2>5
<1>3. TypeOK
  BY DEF CardsInv
<1>4. QED
  BY <1>1, <1>2, <1>3, Viewed

LEMMA OpensNothing ==
  ASSUME OpenOK, UNCHANGED <<card, mine>>
  PROVE  OpenOK'
BY DEF OpenOK, OneOpenCard, Seen, Held

LEMMA RollBackOpen ==
  ASSUME OpenOK, TypeOK, NEW s \in Actors, RollBack(s)
  PROVE  OpenOK'
<1>1. Writes(s, NoRow)
  BY DEF RollBack, Forget, Writes, db
<1>2. \A c \in Cards : View(NoRow, c) = card[c]
  BY NothingHeld DEF View
<1>3. \A c, d \in Cards : IsOpen(View(NoRow, c)) /\ IsOpen(View(NoRow, d)) => c = d
  BY <1>2 DEF OpenOK
<1>4. QED
  BY <1>1, <1>3, NothingHeld, Viewed

\* A commit shows everyone what s has seen all along.
LEMMA CommitOpen ==
  ASSUME OpenOK, CardsInv, NEW s \in Actors, Commit(s)
  PROVE  OpenOK'
<1>1. /\ \A c \in Cards : card'[c] = Seen(s, c)
      /\ DOMAIN mine'[s] = {}
      /\ \A t \in Actors \ {s} : mine'[t] = mine[t]
  BY Forgotten, NothingHeld DEF Commit, CardsInv
<1>2. (\A c, d \in Cards : IsOpen(card[c]) /\ IsOpen(card[d]) => c = d)'
  BY <1>1 DEF OpenOK, OneOpenCard, IsOpen
<1>3. ASSUME NEW t \in Actors \ {s}, NEW c \in Held(t), IsOpen(mine[t][c]), NEW d \in Cards \ {c}
      PROVE  ~IsOpen(Seen(t, d)')
  <2>1. c \in Cards /\ IsOpen(Seen(t, c))
    BY <1>3 DEF CardsInv, TypeOK, Held, Seen
  <2>2. ~IsOpen(Seen(t, d))
    BY <2>1 DEF OpenOK, OneOpenCard, IsOpen
  <2>3. CASE d \in Held(t)
    BY <1>1, <2>2, <2>3 DEF Seen, Held
  <2>4. CASE d \notin Held(t) /\ d \in Held(s)
    <3>1. ~IsOpen(mine[s][d])
      BY <1>3, <2>4 DEF OpenOK
    <3>2. QED
      BY <1>1, <2>4, <3>1 DEF Seen, Held
  <2>5. CASE d \notin Held(t) /\ d \notin Held(s)
    BY <1>1, <2>2, <2>5 DEF Seen, Held
  <2>6. QED
    BY <2>3, <2>4, <2>5
<1>4. ASSUME NEW t \in Actors, NEW c \in Cards, NEW d \in Cards,
             IsOpen(Seen(t, c)'), IsOpen(Seen(t, d)')
      PROVE  c = d
  <2>1. CASE t = s
    BY <1>1, <1>2, <1>4, <2>1 DEF Seen
  <2>2. CASE t # s /\ c \in Held(t)
    BY <1>1, <1>3, <1>4, <2>2 DEF Seen, Held
  <2>3. CASE t # s /\ d \in Held(t)
    BY <1>1, <1>3, <1>4, <2>3 DEF Seen, Held
  <2>4. CASE t # s /\ c \notin Held(t) /\ d \notin Held(t)
    BY <1>1, <1>2, <1>4, <2>4 DEF Seen, Held
  <2>5. QED
    BY <2>1, <2>2, <2>3, <2>4
<1>5. OneOpenCard'
  BY <1>4 DEF OneOpenCard, IsOpen
<1>6. ASSUME NEW t \in Actors, NEW u \in Actors, t # u, NEW c \in Held(t)', NEW d \in Held(u)'
      PROVE  ~(IsOpen(mine'[t][c]) /\ IsOpen(mine'[u][d]))
  <2>1. t # s /\ u # s
    BY <1>1, <1>6 DEF Held
  <2>2. QED
    BY <1>1, <1>6, <2>1 DEF OpenOK, Held
<1>7. QED
  BY <1>2, <1>5, <1>6 DEF OpenOK

\* The row that a purchase stamps: the open one it saw, or one that it opens.
LEMMA GiveWrites ==
  ASSUME TypeOK, NEW s \in Actors, NEW c \in Cards, NEW k \in Card, Give(s, c, k)
  PROVE  \E m : /\ Writes(s, m) /\ DOMAIN m = Held(s) \cup {c}
                /\ \A d \in DOMAIN m \ {c} : m[d] = mine[s][d]
<1> DEFINE j == Stamped(k, Least(left[s], Required - k.stamps))
           m == With(mine[s], c, j)
<1>1. Writes(s, m)
  BY DEF Give, TypeOK, Writes, db
<1>2. DOMAIN m = Held(s) \cup {c} /\ \A d \in DOMAIN m \ {c} : m[d] = mine[s][d]
  BY DEF With, Held
<1>3. QED
  BY <1>1, <1>2

LEMMA StampCardOpen ==
  ASSUME OpenOK, CardsInv, NEW s \in Sessions, StampCard(s)
  PROVE  OpenOK'
<1> DEFINE c == Head(cands[s])
<1>1. s \in Actors /\ TypeOK /\ cands[s] \in Seq(Cards) /\ cands[s] # <<>>
  BY Here DEF StampCard, TypeOK, Local
<1>2. c \in Cards /\ RowFree(s, c)
  BY <1>1, HeadTailProperties DEF StampCard
<1> HIDE DEF c
<1>3. CASE IsOpen(Seen(s, c))
  <2>1. Give(s, c, Seen(s, c)) /\ Seen(s, c) \in Card
    BY <1>1, <1>2, <1>3, SeenFine DEF StampCard, c, IsOpen
  <2>2. PICK m : /\ Writes(s, m) /\ DOMAIN m = Held(s) \cup {c}
                 /\ \A d \in DOMAIN m \ {c} : m[d] = mine[s][d]
    BY <1>1, <1>2, <2>1, GiveWrites
  <2>3. ASSUME NEW d \in DOMAIN m, IsOpen(m[d])
        PROVE  d \in Cards /\ IsOpen(Seen(s, d)) /\ (d \in Held(s) \/ RowFree(s, d))
    <3>1. CASE d = c
      BY <1>2, <1>3, <3>1
    <3>2. CASE d # c
      BY <1>1, <2>2, <2>3, <3>2 DEF Seen, Held, TypeOK
    <3>3. QED
      BY <3>1, <3>2
  <2>4. \A d \in DOMAIN m : d \in Cards
    BY <1>1, <1>2, <2>2, Same
  <2>5. QED
    BY <1>1, <2>2, <2>3, <2>4, OpensNone
<1>4. CASE ~IsOpen(Seen(s, c))
  BY <1>4, OpensNothing DEF StampCard, c, IsOpen, db
<1>5. QED
  BY <1>3, <1>4

LEMMA OpenCardOpen ==
  ASSUME OpenOK, CardsInv, NEW s \in Sessions, OpenCard(s)
  PROVE  OpenOK'
<1>1. s \in Actors /\ TypeOK
  BY Here
<1>2. PICK c \in Cards : Fresh(s, c) /\ KeyFree(s, c) /\ Give(s, c, NewCard(s))
  BY DEF OpenCard
<1>3. RowFree(s, c) /\ NewCard(s) \in Card
  BY <1>1, <1>2, NewRow DEF Fresh, Unused
<1>4. PICK m : /\ Writes(s, m) /\ DOMAIN m = Held(s) \cup {c}
               /\ \A d \in DOMAIN m \ {c} : m[d] = mine[s][d]
  BY <1>1, <1>2, <1>3, GiveWrites
<1>5. QED
  BY <1>1, <1>2, <1>3, <1>4, OpensOne

\* A row that s has written and closed: a coffee given, drunk or lapsed.
LEMMA ClosesOne ==
  ASSUME OpenOK, CardsInv, NEW s \in Actors, NEW c \in Cards, NEW k, ~IsOpen(k),
         Writes(s, With(mine[s], c, k))
  PROVE  OpenOK'
<1> DEFINE m == With(mine[s], c, k)
<1>1. TypeOK /\ \A d \in Held(s) : d \in Cards
  BY Same DEF CardsInv
<1>2. /\ DOMAIN m = Held(s) \cup {c}
      /\ \A d \in DOMAIN m : m[d] = IF d = c THEN k ELSE mine[s][d]
  BY DEF With, Held
<1>3. Writes(s, m)
  OBVIOUS
<1> HIDE DEF m
<1>4. ASSUME NEW d \in DOMAIN m
      PROVE  d \in Cards /\ (IsOpen(m[d]) => IsOpen(Seen(s, d)) /\ (d \in Held(s) \/ RowFree(s, d)))
  BY <1>1, <1>2 DEF Seen, Held
<1>5. QED
  BY <1>1, <1>2, <1>3, <1>4, OpensNone

LEMMA GiveFreeOpen ==
  ASSUME OpenOK, CardsInv, NEW s \in Sessions, GiveFree(s)
  PROVE  OpenOK'
<1>1. s \in Actors /\ TypeOK
  BY Here
<1> DEFINE j == Stamped(NewCard(s), Required)
<1>2. PICK c \in Cards : Writes(s, With(mine[s], c, j))
  BY <1>1 DEF GiveFree, TypeOK, Writes, db
<1>3. NewCard(s).stamps + Required >= Required
  BY <1>1, NewRow, CardsAssumption
<1>4. j.status = "complete"
  <2>1. NewCard(s) \in Card
    BY <1>1, NewRow
  <2>2. QED
    BY <1>3, <2>1 DEF Stamped, Card
<1>5. ~IsOpen(j)
  BY <1>4 DEF IsOpen
<1> HIDE DEF j
<1>6. QED
  BY <1>1, <1>2, <1>5, ClosesOne

LEMMA PickCardOpen ==
  ASSUME OpenOK, CardsInv, NEW s \in Sessions, PickCard(s)
  PROVE  OpenOK'
<1> DEFINE c == Head(cands[s])
<1>1. s \in Actors /\ TypeOK /\ c \in Cards
  BY Here, HeadTailProperties DEF PickCard, TypeOK
<1>2. card[c] \in Card
  BY <1>1 DEF TypeOK
<1> HIDE DEF c
<1>3. CASE card[c].status # "complete"
  BY <1>3, OpensNothing DEF PickCard, c, db
<1>4. CASE card[c].status = "complete" /\ Lapsed(card[c])
  <2>1. Writes(s, With(mine[s], c, Expired(card[c])))
    BY <1>1, <1>4 DEF PickCard, c, db, Writes, TypeOK
  <2>2. ~IsOpen(Expired(card[c]))
    BY <1>2 DEF IsOpen, Expired, Card
  <2>3. QED
    BY <1>1, <2>1, <2>2, ClosesOne
<1>5. CASE card[c].status = "complete" /\ ~Lapsed(card[c])
  <2>1. Writes(s, With(mine[s], c, RedeemedBy(card[c], req[s])))
    BY <1>1, <1>5 DEF PickCard, c, db, Writes, TypeOK
  <2>2. ~IsOpen(RedeemedBy(card[c], req[s]))
    BY <1>2 DEF IsOpen, RedeemedBy, Card
  <2>3. QED
    BY <1>1, <2>1, <2>2, ClosesOne
<1>6. QED
  BY <1>3, <1>4, <1>5

LEMMA LockCardsOpen ==
  ASSUME OpenOK, CardsInv, NEW s \in Sessions, LockCards(s)
  PROVE  OpenOK'
<1> DEFINE live == {c \in ToSet(cands[s]) : Live(Seen(s, c))}
           m == [c \in Held(s) \cup live |-> Seen(s, c)]
<1>1. s \in Actors /\ TypeOK
  BY Here
<1>2. \A c \in live : c \in Cards /\ RowFree(s, c)
  <2>1. \A i \in DOMAIN cands[s] : cands[s][i] \in Cards
    BY <1>1, ElementOfSeq, LenProperties DEF TypeOK
  <2>2. QED
    BY <2>1 DEF LockCards, ToSet
<1>3. Writes(s, m)
  BY <1>1 DEF LockCards, Writes, TypeOK, db, Held
<1> HIDE DEF live
<1>4. \A c \in Held(s) : c \in Cards
  BY <1>1, Same
<1>5. DOMAIN m = Held(s) \cup live /\ \A c \in DOMAIN m : m[c] = Seen(s, c)
  OBVIOUS
<1> HIDE DEF m
<1>6. QED
  BY <1>1, <1>2, <1>3, <1>4, <1>5, OpensNone

LEMMA TakeBackOpen ==
  ASSUME OpenOK, CardsInv, NEW s \in Sessions, TakeBack(s)
  PROVE  OpenOK'
<1> DEFINE c == Head(cands[s])
           n == Taken(left[s], mine[s][c])
           m == [mine[s] EXCEPT ![c] = Unstamped(mine[s][c], n)]
<1>1. s \in Actors /\ TypeOK /\ cands[s] \in Seq(Cards) /\ cands[s] # <<>>
  BY Here DEF TakeBack, Taking, TypeOK
<1>2. c \in Held(s) /\ Live(mine[s][c]) /\ c \in Cards
  <2>1. \A i \in DOMAIN cands[s] : cands[s][i] \in Held(s) /\ Live(mine[s][cands[s][i]])
    BY Here DEF TakeBack, Taking, Local, Held
  <2>2. 1 \in DOMAIN cands[s] /\ c = cands[s][1] /\ c \in Cards
    BY <1>1, EmptySeq, LenProperties, HeadTailProperties
  <2>3. QED
    BY <2>1, <2>2
<1>3. CASE n = 0
  BY <1>3, OpensNothing DEF TakeBack, db
<1>4. CASE n # 0
  <2>1. Writes(s, m)
    BY <1>1, <1>4 DEF TakeBack, Writes, TypeOK, db
  <2>2. mine[s][c].stamps > 0
    <3>1. left[s] \in Nat /\ mine[s][c].stamps \in Nat
      BY <1>1, <1>2, Same DEF Card
    <3>2. QED
      BY <1>4, <3>1 DEF Taken, Least
  <2>3. Reopens(s) => KeyFree(s, c)
    BY DEF TakeBack
  <2>4. IsOpen(mine[s][c]) \/ Reopens(s)
    BY <1>2, <2>2 DEF Live, Reopens, IsOpen
  <2> HIDE DEF c, n
  <2>5. /\ DOMAIN m = Held(s) /\ DOMAIN m = Held(s) \cup {c}
        /\ \A d \in DOMAIN m \ {c} : m[d] = mine[s][d]
    BY <1>2 DEF Held
  <2> HIDE DEF m
  <2>6. CASE IsOpen(mine[s][c])
    <3>1. \A d \in DOMAIN m : d \in Cards /\ Seen(s, d) = mine[s][d]
      BY <1>1, <2>5, Same DEF Seen, Held
    <3>2. ASSUME NEW d \in DOMAIN m, IsOpen(m[d]) PROVE IsOpen(Seen(s, d)) /\ d \in Held(s)
      BY <2>5, <2>6, <3>1, <3>2
    <3>3. QED
      BY <1>1, <2>1, <2>5, <3>1, <3>2, OpensNone
  <2>7. CASE Reopens(s)
    BY <1>1, <1>2, <2>1, <2>3, <2>5, <2>7, OpensOne
  <2>8. QED
    BY <2>4, <2>6, <2>7
<1>5. QED
  BY <1>3, <1>4

LEMMA ExpireCardOpen ==
  ASSUME OpenOK, CardsInv, ExpireCard
  PROVE  OpenOK'
<1> DEFINE c == Head(cands[Job])
<1>1. Job \in Actors /\ TypeOK /\ cands[Job] \in Seq(Cards) /\ cands[Job] # <<>>
  BY JobHere DEF ExpireCard, TypeOK, Local
<1>2. c \in Cards /\ card[c] \in Card
  BY <1>1, HeadTailProperties DEF TypeOK
<1> HIDE DEF c
<1>3. CASE ~Live(card[c])
  BY <1>3, OpensNothing DEF ExpireCard, c, db
<1>4. CASE Live(card[c])
  <2>1. Writes(Job, With(mine[Job], c, Expired(card[c])))
    BY <1>1, <1>4 DEF ExpireCard, c, db, Writes, TypeOK
  <2>2. ~IsOpen(Expired(card[c]))
    BY <1>2 DEF IsOpen, Expired, Card
  <2>3. QED
    BY <1>1, <1>2, <2>1, <2>2, ClosesOne
<1>5. QED
  BY <1>3, <1>4

LEMMA SessionOpen ==
  ASSUME OpenOK, CardsInv, NEW s \in Sessions, Begin(s) \/ Advance(s) \/ Abort(s)
  PROVE  OpenOK'
<1>1. s \in Actors /\ TypeOK
  BY Here
<1>2. CASE Begin(s)
  BY <1>2, OpensNothing DEF Begin, BeginGiving, BeginRedeem, BeginRefund, db
<1>3. CASE Record(s) \/ CoolDown(s) \/ FindCard(s) \/ NextEntry(s)
  BY <1>3, OpensNothing DEF Record, CoolDown, FindCard, NextEntry, db, private
<1>4. CASE RecordFails(s) \/ OpenFails(s) \/ Refuse(s) \/ NotAvailable(s) \/ ReopenFails(s) \/ Abort(s)
  BY <1>1, <1>4, RollBackOpen DEF RecordFails, OpenFails, Refuse, NotAvailable, ReopenFails, Abort
<1>5. CASE StampCard(s) \/ OpenCard(s) \/ GiveFree(s)
  BY <1>5, StampCardOpen, OpenCardOpen, GiveFreeOpen
<1>6. CASE PickCard(s) \/ LockCards(s) \/ TakeBack(s)
  BY <1>6, PickCardOpen, LockCardsOpen, TakeBackOpen
<1>7. CASE Commit(s)
  BY <1>1, <1>7, CommitOpen
<1>8. QED
  BY <1>2, <1>3, <1>4, <1>5, <1>6, <1>7 DEF Advance

\* No transaction ever finds two open cards, whoever stamps, gives, reopens or
\* expires cards at the same time.
THEOREM OneIsOpen == Spec => []OneOpenCard
<1>1. Init => OpenOK
  <2>1. ASSUME Init PROVE \A s \in Actors : Held(s) = {} /\ \A c \in Cards : ~IsOpen(Seen(s, c)) /\ ~IsOpen(card[c])
    BY <2>1, NothingHeld DEF Init, Held, Seen, NoCard, IsOpen
  <2>2. Job \in Actors
    BY DEF Actors
  <2>3. QED
    BY <2>1, <2>2 DEF OpenOK, OneOpenCard, IsOpen
<1>2. OpenOK /\ CardsInv /\ [Next]_vars => OpenOK'
  <2> SUFFICES ASSUME OpenOK, CardsInv, [Next]_vars PROVE OpenOK'
    OBVIOUS
  <2>1. Job \in Actors /\ TypeOK
    BY JobHere
  <2>2. ASSUME NEW s \in Sessions, Begin(s) \/ Advance(s) \/ Abort(s) PROVE OpenOK'
    BY <2>2, SessionOpen
  <2>3. CASE ExpireCard
    BY <2>3, ExpireCardOpen
  <2>4. CASE Commit(Job) \/ Abort(Job)
    BY <2>1, <2>4, CommitOpen, RollBackOpen DEF Abort
  <2>5. CASE BeginExpire \/ Tick \/ UNCHANGED vars
    BY <2>5, OpensNothing DEF BeginExpire, Tick, vars, db, private
  <2>6. QED
    BY <2>2, <2>3, <2>4, <2>5 DEF Next
<1>3. OpenOK => OneOpenCard
  BY DEF OpenOK
<1>4. QED
  BY <1>1, <1>2, <1>3, CardsInvariant, PTL DEF Spec

-----------------------------------------------------------------------------
(* Books *)

Undoing == {"take", "lock"}
Givings == Purchases \cup StampGrants \cup FreeGrants

Deltas(e) == [i \in DOMAIN e |-> e[i].delta]

\* What committing the rows m would add to each card, and to all of them.
Change(m) == [c \in Cards |-> IF c \in DOMAIN m THEN m[c].stamps - card[c].stamps ELSE 0]
Gain(m) == Total(Change(m))

\* The entries of a session are all for its request, and of one sign.
EntriesOK(p, r, e) ==
  \A i \in DOMAIN e : e[i].tx = r /\ IF p \in Undoing THEN e[i].delta < 0 ELSE e[i].delta > 0

\* What the rows were and what they become, by the work they are held for.
HeldOK(p, r, m) ==
  \A c \in DOMAIN m :
    /\ m[c].status # "none"
    /\ r = NoOne => m[c].status = "expired" /\ Live(card[c])
    /\ r \in Redeems => card[c].status = "complete"
    /\ r \notin Givings => m[c].stamps = card[c].stamps
    /\ r \in Givings => /\ Live(m[c])
                        /\ IF p \in Undoing THEN Live(card[c])
                           ELSE card[c].status \in {"none", "open"}

\* A refund has taken from the cards no more than it booked, and has the rest of
\* the purchase ahead of it.
Undo(r, l, g, m, e) ==
  /\ r \in Purchases /\ status[r] = "committed"
  /\ Total(Deltas(e)) + l <= Gain(m) /\ Gain(m) <= 0
  /\ Total(g) = Booked({r}, 1) + Total(Deltas(e))

\* Who gives has put on cards what it booked, and the units left are the rest.
Giving(p, r, l, m, e) ==
  /\ Total(Deltas(e)) + Due(r, l) = Due(r, Units[r])
  /\ Gain(m) = Total(Deltas(e))
  /\ p \in {"record", "cooldown"} => e = <<>>
  /\ p = "cooldown" => r \in Purchases
  /\ p \in {"cooldown", "find", "stamp", "open"} => r \notin FreeGrants /\ l > 0
  /\ p = "give" => r \in FreeGrants
  /\ p = "commit" => l = 0 \/ (r \in Purchases /\ e = <<>>)
  /\ p \notin Waiting => status[r] = "new"

Books(p, r, l, g, m, e) ==
  /\ EntriesOK(p, r, e) /\ HeldOK(p, r, m)
  /\ IF p \in Undoing THEN Undo(r, l, g, m, e)
     ELSE IF r \in Givings THEN Giving(p, r, l, m, e)
     ELSE e = <<>> /\ l = 0

BooksOK == \A s \in Actors : Books(pc[s], req[s], left[s], prog[s], mine[s], booked[s])

LedgerOK ==
  /\ StampsOnce /\ StampsFollowLedger
  /\ \A c \in Cards : card[c].status = "none" => card[c].stamps = 0
  /\ \A r \in Requests : status[r] = "new" => Booked({r}, 1) = 0

-----------------------------------------------------------------------------
(* Totals of entries *)

LEMMA DeltasType ==
  ASSUME NEW e \in Seq(Entries)
  PROVE  /\ Deltas(e) \in Seq(Int) /\ Len(Deltas(e)) = Len(e) /\ Len(e) \in Nat
         /\ \A i \in 1..Len(e) : Deltas(e)[i] = e[i].delta /\ e[i] \in Entries
<1>1. Len(e) \in Nat /\ DOMAIN e = 1..Len(e) /\ \A i \in 1..Len(e) : e[i] \in Entries
  BY LenProperties, ElementOfSeq
<1>2. \A i \in 1..Len(e) : e[i].delta \in Int
  BY <1>1 DEF Entries
<1>3. QED
  BY <1>1, <1>2 DEF Deltas

LEMMA DeltasEmpty == Total(Deltas(<<>>)) = 0
<1>1. Deltas(<<>>) = <<>>
  BY DEF Deltas
<1>2. <<>> \in Seq(Int) /\ \A i \in 1..Len(<<>>) : <<>>[i] = 0
  OBVIOUS
<1>3. QED
  BY <1>1, <1>2, TotalZeros

LEMMA DeltasAppend ==
  ASSUME NEW e \in Seq(Entries), NEW x \in Entries
  PROVE  Total(Deltas(Append(e, x))) = Total(Deltas(e)) + x.delta
<1>1. /\ Deltas(e) \in Seq(Int) /\ Len(Deltas(e)) = Len(e) /\ Len(e) \in Nat
      /\ \A i \in 1..Len(e) : Deltas(e)[i] = e[i].delta
  BY DeltasType
<1>2. x.delta \in Int
  BY DEF Entries
<1>3. /\ Append(e, x) \in Seq(Entries) /\ Len(Append(e, x)) = Len(e) + 1
      /\ \A i \in 1..Len(e) : Append(e, x)[i] = e[i]
      /\ Append(e, x)[Len(e) + 1] = x
  BY AppendProperties
<1>4. /\ Deltas(Append(e, x)) \in Seq(Int) /\ Len(Deltas(Append(e, x))) = Len(e) + 1
      /\ \A i \in 1..(Len(e) + 1) : Deltas(Append(e, x))[i] = Append(e, x)[i].delta
  BY <1>3, DeltasType
<1>5. /\ Append(Deltas(e), x.delta) \in Seq(Int)
      /\ Len(Append(Deltas(e), x.delta)) = Len(e) + 1
      /\ \A i \in 1..Len(e) : Append(Deltas(e), x.delta)[i] = e[i].delta
      /\ Append(Deltas(e), x.delta)[Len(e) + 1] = x.delta
  BY <1>1, <1>2, AppendProperties
<1>6. \A i \in 1..(Len(e) + 1) : Deltas(Append(e, x))[i] = Append(Deltas(e), x.delta)[i]
  <2>1. ASSUME NEW i \in 1..(Len(e) + 1)
        PROVE  Deltas(Append(e, x))[i] = Append(Deltas(e), x.delta)[i]
    <3>1. i \in 1..Len(e) \/ i = Len(e) + 1
      BY <1>1
    <3>2. QED
      BY <1>3, <1>4, <1>5, <3>1
  <2>2. QED
    BY <2>1
<1>7. Deltas(Append(e, x)) = Append(Deltas(e), x.delta)
  BY <1>4, <1>5, <1>6, SeqEqual
<1>8. QED
  BY <1>1, <1>2, <1>7, TotalAppend

\* Entries of one sign add up to that sign.
LEMMA DeltasSign ==
  ASSUME NEW e \in Seq(Entries), \A i \in DOMAIN e : e[i].delta > 0
  PROVE  Total(Deltas(e)) >= 0
<1>1. /\ Deltas(e) \in Seq(Int) /\ Len(Deltas(e)) = Len(e) /\ Len(e) \in Nat
      /\ \A i \in 1..Len(e) : Deltas(e)[i] = e[i].delta /\ e[i] \in Entries
  BY DeltasType
<1>2. DOMAIN e = 1..Len(e)
  BY LenProperties
<1> DEFINE z == [i \in 1..Len(e) |-> 0]
<1>3. z \in Seq(Int) /\ Len(z) = Len(e) /\ \A i \in 1..Len(e) : z[i] = 0
  BY <1>1
<1> HIDE DEF z
<1>4. Total(z) = 0
  BY <1>3, TotalZeros
<1>5. \A i \in 1..Len(e) : z[i] <= Deltas(e)[i]
  <2>1. \A i \in 1..Len(e) : e[i].delta \in Int
    BY <1>1 DEF Entries
  <2>2. ASSUME NEW i \in 1..Len(e) PROVE z[i] <= Deltas(e)[i]
    <3>1. Deltas(e)[i] = e[i].delta /\ z[i] = 0
      BY <1>1, <1>3
    <3>2. e[i].delta > 0 /\ e[i].delta \in Int
      BY <1>2, <2>1
    <3>3. QED
      BY <3>1, <3>2
  <2>3. QED
    BY <2>2
<1>6. Total(z) <= Total(Deltas(e))
  BY <1>1, <1>3, <1>5, TotalMonotone
<1>7. QED
  BY <1>1, <1>4, <1>6, TotalInt

Signs == {1, -1}
Counts(x, rs, sign) == x.tx \in rs /\ sign * x.delta > 0
Parts(es, rs, sign) == [i \in DOMAIN es |-> IF Counts(es[i], rs, sign) THEN es[i].delta ELSE 0]

LEMMA PartsType ==
  ASSUME NEW es \in Seq(Entries), NEW rs, NEW sign \in Signs
  PROVE  /\ Share(es, rs, sign) = Total(Parts(es, rs, sign)) /\ Share(es, rs, sign) \in Int
         /\ Parts(es, rs, sign) \in Seq(Int) /\ Len(Parts(es, rs, sign)) = Len(es)
         /\ \A i \in 1..Len(es) : Parts(es, rs, sign)[i]
                                    = IF Counts(es[i], rs, sign) THEN es[i].delta ELSE 0
<1>1. Len(es) \in Nat /\ DOMAIN es = 1..Len(es) /\ \A i \in 1..Len(es) : es[i] \in Entries
  BY LenProperties, ElementOfSeq
<1>2. \A i \in 1..Len(es) : (IF Counts(es[i], rs, sign) THEN es[i].delta ELSE 0) \in Int
  BY <1>1 DEF Entries
<1>3. /\ Parts(es, rs, sign) \in Seq(Int) /\ Len(Parts(es, rs, sign)) = Len(es)
      /\ \A i \in 1..Len(es) : Parts(es, rs, sign)[i]
                                    = IF Counts(es[i], rs, sign) THEN es[i].delta ELSE 0
  BY <1>1, <1>2 DEF Parts
<1>4. Share(es, rs, sign) = Total(Parts(es, rs, sign))
  BY DEF Share, Parts, Counts
<1>5. QED
  BY <1>3, <1>4, TotalInt

LEMMA ShareConcat ==
  ASSUME NEW es \in Seq(Entries), NEW fs \in Seq(Entries), NEW rs, NEW sign \in Signs
  PROVE  Share(es \o fs, rs, sign) = Share(es, rs, sign) + Share(fs, rs, sign)
<1>1. /\ es \o fs \in Seq(Entries) /\ Len(es \o fs) = Len(es) + Len(fs)
      /\ Len(es) \in Nat /\ Len(fs) \in Nat
  BY ConcatProperties, LenProperties
<1>2. /\ \A i \in 1..Len(es) : (es \o fs)[i] = es[i]
      /\ \A k \in 1..Len(fs) : (es \o fs)[Len(es) + k] = fs[k]
  <2>1. \A i \in 1..Len(es) : (es \o fs)[i] = es[i]
    BY <1>1
  <2>2. \A k \in 1..Len(fs) : (es \o fs)[Len(es) + k] = fs[k]
    BY <1>1, SMTT(60)
  <2>3. QED
    BY <2>1, <2>2
<1> DEFINE q == Parts(es \o fs, rs, sign)
           a == Parts(es, rs, sign)
           b == Parts(fs, rs, sign)
<1>3. /\ q \in Seq(Int) /\ a \in Seq(Int) /\ b \in Seq(Int)
      /\ Len(q) = Len(es) + Len(fs) /\ Len(a) = Len(es) /\ Len(b) = Len(fs)
  BY <1>1, PartsType
<1> DEFINE v(x) == IF Counts(x, rs, sign) THEN x.delta ELSE 0
<1>4. /\ \A i \in 1..Len(es \o fs) : q[i] = v((es \o fs)[i])
      /\ \A i \in 1..Len(es) : a[i] = v(es[i])
      /\ \A i \in 1..Len(fs) : b[i] = v(fs[i])
  BY <1>1, PartsType
<1>6. Share(es \o fs, rs, sign) = Total(q) /\ Share(es, rs, sign) = Total(a)
      /\ Share(fs, rs, sign) = Total(b)
  BY <1>1, PartsType
<1> HIDE DEF q, a, b, v
<1>7. \A i \in 1..Len(a) : q[i] = a[i]
  <2>1. \A i \in 1..Len(es) : i \in 1..Len(es \o fs)
    BY <1>1
  <2>2. QED
    BY <1>2, <1>3, <1>4, <2>1
<1>8. \A k \in 1..Len(b) : q[Len(a) + k] = b[k]
  <2>1. \A k \in 1..Len(fs) : Len(es) + k \in 1..Len(es \o fs)
    BY <1>1
  <2>2. \A k \in 1..Len(fs) : q[Len(es) + k] = v((es \o fs)[Len(es) + k])
    BY <1>4, <2>1
  <2>3. QED
    BY <1>2, <1>3, <1>4, <2>2
<1>9. Len(q) = Len(a) + Len(b)
  BY <1>3
<1>10. Total(q) = Total(a) + Total(b)
  BY <1>3, <1>7, <1>8, <1>9, TotalParts
<1>11. QED
  BY <1>6, <1>10

LEMMA ShareAll ==
  ASSUME NEW e \in Seq(Entries), NEW rs, NEW sign \in Signs,
         \A i \in DOMAIN e : Counts(e[i], rs, sign)
  PROVE  Share(e, rs, sign) = Total(Deltas(e))
<1>1. Parts(e, rs, sign) = Deltas(e)
  BY DEF Parts, Deltas
<1>2. QED
  BY <1>1, PartsType

LEMMA ShareNone ==
  ASSUME NEW e \in Seq(Entries), NEW rs, NEW sign \in Signs,
         \A i \in DOMAIN e : ~Counts(e[i], rs, sign)
  PROVE  Share(e, rs, sign) = 0
<1>1. DOMAIN e = 1..Len(e)
  BY LenProperties
<1>2. Parts(e, rs, sign) \in Seq(Int) /\ Len(Parts(e, rs, sign)) = Len(e)
  BY PartsType
<1>3. \A i \in 1..Len(Parts(e, rs, sign)) : Parts(e, rs, sign)[i] = 0
  BY <1>1, <1>2 DEF Parts
<1>4. QED
  BY <1>2, <1>3, PartsType, TotalZeros

-----------------------------------------------------------------------------
(* What rows gain *)

Rows(m) == \A c \in DOMAIN m : c \in Cards /\ m[c] \in Card

LEMMA ChangeType ==
  ASSUME TypeOK, NEW m, Rows(m)
  PROVE  /\ Change(m) \in Seq(Int) /\ Len(Change(m)) = MaxCards /\ Gain(m) \in Int
         /\ Cards = 1..MaxCards /\ MaxCards \in Nat
<1>1. Cards = 1..MaxCards /\ MaxCards \in Nat
  BY CardsAssumption DEF Cards
<1>2. \A c \in Cards : card[c].stamps \in Nat /\ (c \in DOMAIN m => m[c].stamps \in Nat)
  BY DEF TypeOK, Card, Rows
<1>3. \A c \in Cards : (IF c \in DOMAIN m THEN m[c].stamps - card[c].stamps ELSE 0) \in Int
  BY <1>2
<1>4. Change(m) \in Seq(Int) /\ Len(Change(m)) = MaxCards
  BY <1>1, <1>3 DEF Change
<1>5. QED
  BY <1>1, <1>4, TotalInt DEF Gain

LEMMA GainNothing ==
  ASSUME TypeOK, NEW m, Rows(m), \A c \in DOMAIN m : m[c].stamps = card[c].stamps
  PROVE  Gain(m) = 0
<1>1. Change(m) \in Seq(Int) /\ Len(Change(m)) = MaxCards /\ Cards = 1..MaxCards
  BY ChangeType
<1>2. \A c \in Cards : card[c].stamps \in Int
  BY DEF TypeOK, Card
<1>3. \A c \in Cards : Change(m)[c] = 0
  <2>1. \A c \in Cards : card[c].stamps - card[c].stamps = 0
    BY <1>2
  <2>2. QED
    BY <2>1 DEF Change
<1>4. QED
  <2>1. \A i \in 1..Len(Change(m)) : Change(m)[i] = 0
    BY <1>1, <1>3
  <2>2. QED
    BY <1>1, <2>1, TotalZeros DEF Gain

\* Rows that are taken as they are change nothing.
LEMMA GainSame ==
  ASSUME NEW m, NEW n,
         \A c \in Cards : Change(m)[c] = Change(n)[c]
  PROVE  Gain(m) = Gain(n)
<1>1. Change(m) = Change(n)
  BY DEF Change
<1>2. QED
  BY <1>1 DEF Gain

\* One row more, or one row written again.
LEMMA GainRow ==
  ASSUME TypeOK, NEW m, Rows(m), NEW n, Rows(n), NEW c \in Cards,
         c \in DOMAIN n, \A d \in Cards \ {c} : Change(n)[d] = Change(m)[d]
  PROVE  Gain(n) = Gain(m) + (n[c].stamps - (IF c \in DOMAIN m THEN m[c].stamps
                                             ELSE card[c].stamps))
<1>1. /\ Change(m) \in Seq(Int) /\ Len(Change(m)) = MaxCards
      /\ Change(n) \in Seq(Int) /\ Len(Change(n)) = MaxCards
      /\ Cards = 1..MaxCards /\ Gain(m) \in Int
  BY ChangeType
<1>2. Total(Change(n)) = Total(Change(m)) + (Change(n)[c] - Change(m)[c])
  <2>1. c \in 1..Len(Change(m))
    BY <1>1
  <2>2. \A i \in 1..Len(Change(m)) : i # c => Change(n)[i] = Change(m)[i]
    BY <1>1
  <2>3. QED
    BY <1>1, <2>1, <2>2, TotalChange
<1>3. /\ n[c].stamps \in Int /\ card[c].stamps \in Int
      /\ c \in DOMAIN m => m[c].stamps \in Int
  BY DEF TypeOK, Rows, Card
<1>4. Change(n)[c] - Change(m)[c] = n[c].stamps - (IF c \in DOMAIN m THEN m[c].stamps
                                                   ELSE card[c].stamps)
  BY <1>3 DEF Change
<1>5. QED
  BY <1>2, <1>4 DEF Gain

-----------------------------------------------------------------------------
(* A statement *)

Turns(s, p, r, l, g, m, e) ==
  /\ UNCHANGED <<card, status, ledger>>
  /\ pc' = [pc EXCEPT ![s] = p] /\ req' = [req EXCEPT ![s] = r]
  /\ left' = [left EXCEPT ![s] = l] /\ prog' = [prog EXCEPT ![s] = g]
  /\ mine' = [mine EXCEPT ![s] = m] /\ booked' = [booked EXCEPT ![s] = e]

LEMMA Turn ==
  ASSUME TypeOK, BooksOK, NEW s \in Actors, NEW p, NEW r, NEW l, NEW g, NEW m, NEW e,
         Turns(s, p, r, l, g, m, e), Books(p, r, l, g, m, e)
  PROVE  BooksOK'
<1>1. UNCHANGED <<card, status, ledger>>
  BY DEF Turns
<1>2. /\ pc'[s] = p /\ req'[s] = r /\ left'[s] = l /\ prog'[s] = g /\ mine'[s] = m
      /\ booked'[s] = e
      /\ \A t \in Actors \ {s} : /\ pc'[t] = pc[t] /\ req'[t] = req[t] /\ left'[t] = left[t]
                                 /\ prog'[t] = prog[t] /\ mine'[t] = mine[t]
                                 /\ booked'[t] = booked[t]
  BY DEF TypeOK, Turns
<1>3. ASSUME NEW t \in Actors
      PROVE  Books(pc[t], req[t], left[t], prog[t], mine[t], booked[t])'
  <2>1. CASE t = s
    BY <1>1, <1>2, <2>1 DEF Books, EntriesOK, HeldOK, Undo, Giving, Gain, Change, Booked, Live
  <2>2. CASE t # s
    <3>1. Books(pc[t], req[t], left[t], prog[t], mine[t], booked[t])
      BY DEF BooksOK
    <3>2. EntriesOK(pc[t], req[t], booked[t])' /\ HeldOK(pc[t], req[t], mine[t])'
      BY <1>1, <1>2, <2>2, <3>1 DEF Books, EntriesOK, HeldOK, Live
    <3>3. Gain(mine[t])' = Gain(mine[t]) /\ Booked({req[t]}, 1)' = Booked({req[t]}, 1)
      BY <1>1, <1>2, <2>2 DEF Gain, Change, Booked
    <3>4. pc[t] \in Undoing => Undo(req[t], left[t], prog[t], mine[t], booked[t])'
      BY <1>1, <1>2, <2>2, <3>1, <3>3 DEF Books, Undo
    <3>5. pc[t] \notin Undoing /\ req[t] \in Givings
            => Giving(pc[t], req[t], left[t], mine[t], booked[t])'
      BY <1>1, <1>2, <2>2, <3>1, <3>3 DEF Books, Giving
    <3>6. pc[t] \notin Undoing /\ req[t] \notin Givings
            => (booked[t] = <<>> /\ left[t] = 0)'
      BY <1>2, <2>2, <3>1 DEF Books
    <3>7. pc'[t] = pc[t] /\ req'[t] = req[t]
      BY <1>2, <2>2
    <3>8. QED
      BY <3>2, <3>4, <3>5, <3>6, <3>7 DEF Books
  <2>3. QED
    BY <2>1, <2>2
<1>4. QED
  BY <1>3 DEF BooksOK

LEMMA AtWork ==
  ASSUME CardsInv, BooksOK, NEW s \in Actors
  PROVE  /\ TypeOK /\ Rows(mine[s]) /\ booked[s] \in Seq(Entries) /\ left[s] \in Nat
         /\ Books(pc[s], req[s], left[s], prog[s], mine[s], booked[s])
         /\ NoOne \notin Givings /\ Givings \cap Redeems = {} /\ Givings \subseteq Requests
BY Same, CardsAssumption DEF CardsInv, BooksOK, Rows, Held, Givings, Requests

\* Whoever has nothing to give is at the start of its books.
LEMMA BooksIdle ==
  ASSUME TypeOK, NEW p, p \notin Undoing, NEW r, r \notin Givings, NEW g,
         NEW m, DOMAIN m = {}
  PROVE  Books(p, r, 0, g, m, <<>>)
<1>1. DOMAIN <<>> = {}
  OBVIOUS
<1>2. QED
  BY <1>1 DEF Books, EntriesOK, HeldOK

LEMMA RollBackBooks ==
  ASSUME CardsInv, BooksOK, NEW s \in Actors, RollBack(s)
  PROVE  BooksOK'
<1>1. TypeOK /\ NoOne \notin Givings
  BY AtWork
<1>2. Turns(s, "idle", NoOne, 0, <<>>, NoRow, <<>>)
  BY DEF RollBack, Forget, Goto, Turns, db
<1>3. Books("idle", NoOne, 0, <<>>, NoRow, <<>>)
  BY <1>1, BooksIdle, NothingHeld DEF Undoing
<1>4. QED
  BY <1>1, <1>2, <1>3, Turn

LEMMA Idle ==
  ASSUME CardsInv, BooksOK, NEW s \in Actors, pc[s] = "idle"
  PROVE  /\ TypeOK /\ req[s] = NoOne /\ booked[s] = <<>> /\ left[s] = 0 /\ DOMAIN mine[s] = {}
<1>1. req[s] = NoOne /\ DOMAIN mine[s] = {}
  BY DEF CardsInv, SessionOK, Local
<1>2. pc[s] \notin Undoing
  BY DEF Undoing
<1>3. QED
  BY <1>1, <1>2, AtWork DEF Books

LEMMA DueType ==
  ASSUME NEW r, NEW n \in Nat
  PROVE  /\ Due(r, n) \in Nat /\ Due(r, 0) = 0
         /\ r \notin FreeGrants => Due(r, n) = n
<1>1. Required \in Nat
  BY CardsAssumption
<1>2. n * Required \in Nat /\ 0 * Required = 0
  BY <1>1
<1>3. QED
  BY <1>2 DEF Due

LEMMA BeginGivingBooks ==
  ASSUME CardsInv, BooksOK, NEW s \in Sessions, NEW r \in Givings, BeginGiving(s, r)
  PROVE  BooksOK'
<1>1. s \in Actors /\ pc[s] = "idle"
  BY DEF Actors, BeginGiving, Start
<1>2. TypeOK /\ booked[s] = <<>> /\ DOMAIN mine[s] = {}
  BY <1>1, Idle
<1>3. Turns(s, "record", r, Units[r], prog[s], mine[s], booked[s])
  BY <1>1, <1>2, Same DEF BeginGiving, Start, Goto, Turns, db
<1>4. Gain(mine[s]) = 0
  <2>1. Rows(mine[s]) /\ \A c \in DOMAIN mine[s] : mine[s][c].stamps = card[c].stamps
    BY <1>2 DEF Rows
  <2>2. QED
    BY <1>2, <2>1, GainNothing
<1>5. Due(r, Units[r]) \in Nat
  <2>1. Units[r] \in Nat
    BY CardsAssumption DEF Givings
  <2>2. QED
    BY <2>1, DueType
<1>6. Giving("record", r, Units[r], mine[s], booked[s])
  <2>1. Total(Deltas(booked[s])) = 0
    BY <1>2, DeltasEmpty
  <2>2. QED
    BY <1>2, <1>4, <1>5, <2>1 DEF Giving, Waiting
<1>7. EntriesOK("record", r, booked[s]) /\ HeldOK("record", r, mine[s])
  <2>1. DOMAIN booked[s] = {}
    BY <1>2
  <2>2. QED
    BY <1>2, <2>1 DEF EntriesOK, HeldOK
<1>8. Books("record", r, Units[r], prog[s], mine[s], booked[s])
  BY <1>6, <1>7 DEF Books, Undoing
<1>9. QED
  BY <1>1, <1>2, <1>3, <1>8, Turn

\* A step that only moves on, with the same rows, entries and units.
LEMMA MovesOn ==
  ASSUME CardsInv, BooksOK, NEW s \in Actors, pc[s] \notin Undoing, NEW p, p \notin Undoing,
         Turns(s, p, req[s], left[s], prog[s], mine[s], booked[s]),
         req[s] \in Givings => Giving(p, req[s], left[s], mine[s], booked[s])
  PROVE  BooksOK'
<1>1. TypeOK /\ Books(pc[s], req[s], left[s], prog[s], mine[s], booked[s])
  BY AtWork
<1>2. EntriesOK(p, req[s], booked[s]) /\ HeldOK(p, req[s], mine[s])
  BY <1>1 DEF Books, EntriesOK, HeldOK
<1>3. Books(p, req[s], left[s], prog[s], mine[s], booked[s])
  BY <1>1, <1>2 DEF Books
<1>4. QED
  BY <1>1, <1>3, Turn

LEMMA RecordBooks ==
  ASSUME CardsInv, BooksOK, NEW s \in Sessions, Record(s)
  PROVE  BooksOK'
<1> DEFINE p == CASE req[s] \in Purchases -> "cooldown" [] req[s] \in StampGrants -> "find"
                  [] req[s] \in FreeGrants -> "give" [] req[s] \in Redeems -> "commit"
<1>1. s \in Actors /\ pc[s] = "record" /\ pc[s] \notin Undoing /\ status[req[s]] = "new"
  BY DEF Actors, Record, Undoing
<1>2. /\ TypeOK /\ req[s] \in Requests /\ (req[s] \notin Redeems => left[s] > 0)
      /\ Books(pc[s], req[s], left[s], prog[s], mine[s], booked[s])
  BY <1>1, Here, AtWork DEF Local
<1>3. /\ pc' = [pc EXCEPT ![s] = p]
      /\ req[s] \in Purchases => p = "cooldown"
      /\ req[s] \in StampGrants => p = "find"
      /\ req[s] \in FreeGrants => p = "give"
      /\ req[s] \in Redeems => p = "commit"
  BY CardsAssumption DEF Record, Goto
<1> HIDE DEF p
<1>4. p \in {"cooldown", "find", "give", "commit"}
  BY <1>2, <1>3 DEF Requests
<1>5. Turns(s, p, req[s], left[s], prog[s], mine[s], booked[s])
  BY <1>1, <1>2, <1>3, Same DEF Record, Turns, db, private
<1>6. req[s] \in Givings => Giving(p, req[s], left[s], mine[s], booked[s])
  <2>1. ASSUME req[s] \in Givings
        PROVE  Giving(p, req[s], left[s], mine[s], booked[s])
    <3>1. Giving(pc[s], req[s], left[s], mine[s], booked[s])
      BY <1>1, <1>2, <2>1 DEF Books
    <3>2. /\ p = "cooldown" => req[s] \in Purchases
          /\ p \in {"cooldown", "find"} => req[s] \notin FreeGrants
          /\ p = "give" => req[s] \in FreeGrants
          /\ p # "commit" /\ req[s] \notin Redeems
      BY <1>3, <2>1, CardsAssumption DEF Givings
    <3>3. p \notin {"stamp", "open"}
      BY <1>4
    <3>4. QED
      BY <1>1, <1>2, <3>1, <3>2, <3>3 DEF Giving
  <2>2. QED
    BY <2>1
<1>7. p \notin Undoing
  BY <1>4 DEF Undoing
<1>8. QED
  BY <1>1, <1>5, <1>6, <1>7, MovesOn

LEMMA CoolDownBooks ==
  ASSUME CardsInv, BooksOK, NEW s \in Sessions, CoolDown(s)
  PROVE  BooksOK'
<1>1. /\ s \in Actors /\ pc[s] = "cooldown" /\ pc[s] \notin Undoing /\ pc[s] \notin Waiting
  BY DEF Actors, CoolDown, Undoing, Waiting
<1>2. /\ TypeOK /\ Books(pc[s], req[s], left[s], prog[s], mine[s], booked[s])
  BY <1>1, AtWork
<1>3. PICK p \in {"commit", "find"} : pc' = [pc EXCEPT ![s] = p]
  BY DEF CoolDown, Goto
<1>4. Turns(s, p, req[s], left[s], prog[s], mine[s], booked[s])
  BY <1>1, <1>2, <1>3, Same DEF CoolDown, Turns, db, private
<1>5. req[s] \in Givings => Giving(p, req[s], left[s], mine[s], booked[s])
  BY <1>1, <1>2 DEF Books, Giving
<1>6. p \notin Undoing
  BY DEF Undoing
<1>7. QED
  BY <1>1, <1>4, <1>5, <1>6, MovesOn

LEMMA FindCardBooks ==
  ASSUME CardsInv, BooksOK, NEW s \in Sessions, FindCard(s)
  PROVE  BooksOK'
<1>1. /\ s \in Actors /\ pc[s] = "find" /\ pc[s] \notin Undoing /\ pc[s] \notin Waiting
  BY DEF Actors, FindCard, Undoing, Waiting
<1>2. /\ TypeOK /\ Books(pc[s], req[s], left[s], prog[s], mine[s], booked[s])
  BY <1>1, AtWork
<1>3. PICK p \in {"stamp", "open"} : pc' = [pc EXCEPT ![s] = p]
  BY DEF FindCard, Goto
<1>4. Turns(s, p, req[s], left[s], prog[s], mine[s], booked[s])
  BY <1>1, <1>2, <1>3, Same DEF FindCard, Turns, db
<1>5. req[s] \in Givings => Giving(p, req[s], left[s], mine[s], booked[s])
  BY <1>1, <1>2 DEF Books, Giving
<1>6. p \notin Undoing
  BY DEF Undoing
<1>7. QED
  BY <1>1, <1>4, <1>5, <1>6, MovesOn

LEMMA StampsAdded ==
  ASSUME NEW k \in Card, NEW n \in Nat
  PROVE  Stamped(k, n).stamps = k.stamps + n
<1>1. k.stamps \in Nat
  BY DEF Card
<1>2. CASE k.stamps + n >= Required
  BY <1>1, <1>2 DEF Stamped, Card
<1>3. CASE ~(k.stamps + n >= Required)
  BY <1>1, <1>3 DEF Stamped, Card
<1>4. QED
  BY <1>2, <1>3

\* Rows with one more row, or one row written again.
LEMMA GainWith ==
  ASSUME TypeOK, NEW s \in Actors, NEW c \in Cards, NEW k \in Card
  PROVE  /\ Rows(With(mine[s], c, k))
         /\ Gain(With(mine[s], c, k)) = Gain(mine[s]) + (k.stamps - Seen(s, c).stamps)
<1> DEFINE m == With(mine[s], c, k)
<1>1. /\ DOMAIN m = Held(s) \cup {c}
      /\ \A d \in DOMAIN m : /\ d \in Cards /\ m[d] \in Card
                             /\ m[d] = IF d = c THEN k ELSE mine[s][d]
  <2>1. DOMAIN m = Held(s) \cup {c} /\ \A d \in DOMAIN m : m[d] = IF d = c THEN k ELSE mine[s][d]
    BY DEF With, Held
  <2> HIDE DEF m
  <2>2. \A d \in Held(s) : d \in Cards /\ mine[s][d] \in Card
    BY Same
  <2>3. QED
    BY <2>1, <2>2
<1> HIDE DEF m
<1>2. Rows(m) /\ Rows(mine[s])
  BY <1>1, Same DEF Rows, Held
<1>3. \A d \in Cards \ {c} : Change(m)[d] = Change(mine[s])[d]
  BY <1>1 DEF Change, Held
<1>4. m[c] = k /\ c \in DOMAIN m
  BY <1>1
<1>5. Gain(m) = Gain(mine[s]) + (m[c].stamps - (IF c \in DOMAIN mine[s] THEN mine[s][c].stamps
                                                ELSE card[c].stamps))
  BY <1>2, <1>3, <1>4, GainRow
<1>6. Seen(s, c).stamps = IF c \in DOMAIN mine[s] THEN mine[s][c].stamps ELSE card[c].stamps
  BY DEF Seen
<1>7. QED
  BY <1>2, <1>4, <1>5, <1>6 DEF m

\* Stamps that go on a card and into an entry together keep the books.
LEMMA OneMore ==
  ASSUME CardsInv, BooksOK, NEW s \in Sessions, req[s] \in Givings, pc[s] \notin Undoing,
         pc[s] \notin Waiting, NEW p, p \notin Undoing,
         NEW c \in Cards, card[c].status \in {"none", "open"}, NEW k \in Card, Live(k),
         NEW n \in Nat, n > 0, k.stamps = Seen(s, c).stamps + n, NEW l \in Nat,
         Due(req[s], l) = Due(req[s], left[s]) - n, p \in {"commit", "find", "give"},
         p = "commit" => l = 0, p = "find" => req[s] \notin FreeGrants /\ l > 0,
         p = "give" => req[s] \in FreeGrants
  PROVE  Books(p, req[s], l, prog[s], With(mine[s], c, k), Append(booked[s], Entry(s, n)))
<1> DEFINE m == With(mine[s], c, k)
           x == Entry(s, n)
           e == Append(booked[s], x)
<1>1. /\ s \in Actors /\ TypeOK /\ Rows(mine[s]) /\ booked[s] \in Seq(Entries) /\ left[s] \in Nat
      /\ Books(pc[s], req[s], left[s], prog[s], mine[s], booked[s])
      /\ NoOne \notin Givings /\ Givings \cap Redeems = {} /\ req[s] \in Requests
  BY AtWork DEF Actors
<1>2. /\ EntriesOK(pc[s], req[s], booked[s]) /\ HeldOK(pc[s], req[s], mine[s])
      /\ Giving(pc[s], req[s], left[s], mine[s], booked[s])
  BY <1>1 DEF Books
<1>3. x \in Entries /\ x.tx = req[s] /\ x.delta = n
  BY <1>1 DEF Entry, Entries, TypeOK
<1> HIDE DEF x
<1>4. /\ Len(booked[s]) \in Nat /\ DOMAIN e = 1..(Len(booked[s]) + 1)
      /\ DOMAIN booked[s] = 1..Len(booked[s])
      /\ \A i \in 1..Len(booked[s]) : e[i] = booked[s][i]
      /\ e[Len(booked[s]) + 1] = x
  BY <1>1, <1>3, AppendProperties, LenProperties
<1>5. Total(Deltas(e)) = Total(Deltas(booked[s])) + n
  BY <1>1, <1>3, DeltasAppend
<1> HIDE DEF e
<1>6. EntriesOK(p, req[s], e)
  <2>1. ASSUME NEW i \in DOMAIN e
        PROVE  e[i].tx = req[s] /\ e[i].delta > 0
    <3>1. i \in 1..Len(booked[s]) \/ i = Len(booked[s]) + 1
      BY <1>4
    <3>2. QED
      BY <1>2, <1>3, <1>4, <3>1 DEF EntriesOK
  <2>2. QED
    BY <2>1 DEF EntriesOK
<1>7. Gain(m) = Gain(mine[s]) + n
  <2>1. Gain(m) = Gain(mine[s]) + (k.stamps - Seen(s, c).stamps)
    BY <1>1, GainWith
  <2>2. Seen(s, c).stamps \in Int
    BY <1>1, SeenFine DEF Card
  <2>3. k.stamps - Seen(s, c).stamps = n
    BY <2>2
  <2>4. QED
    BY <2>1, <2>3
<1>8. HeldOK(p, req[s], m)
  <2>1. DOMAIN m = Held(s) \cup {c} /\ \A d \in DOMAIN m : m[d] = IF d = c THEN k ELSE mine[s][d]
    BY DEF With, Held
  <2> HIDE DEF m
  <2>2. k.status # "none"
    BY DEF Live
  <2>3. QED
    BY <1>1, <1>2, <2>1, <2>2 DEF HeldOK, Held
<1> HIDE DEF m
<1>9. Giving(p, req[s], l, m, e)
  <2>1. Total(Deltas(e)) + Due(req[s], l) = Due(req[s], Units[req[s]])
    <3>1. Total(Deltas(booked[s])) \in Int /\ Due(req[s], left[s]) \in Int
      BY <1>1, DeltasType, TotalInt, DueType
    <3>2. Total(Deltas(booked[s])) + Due(req[s], left[s]) = Due(req[s], Units[req[s]])
      BY <1>2 DEF Giving
    <3>3. QED
      BY <1>5, <3>1, <3>2
  <2>2. Gain(m) = Total(Deltas(e))
    BY <1>2, <1>5, <1>7 DEF Giving
  <2>3. p \notin {"record", "cooldown", "stamp", "open"}
    OBVIOUS
  <2>4. status[req[s]] = "new"
    BY <1>2 DEF Giving
  <2>5. QED
    BY <2>1, <2>2, <2>3, <2>4 DEF Giving
<1>10. QED
  BY <1>6, <1>8, <1>9 DEF Books, m, e, x

LEMMA GiveBooks ==
  ASSUME CardsInv, BooksOK, NEW s \in Sessions, pc[s] \in {"stamp", "open"},
         NEW c \in Cards, card[c].status \in {"none", "open"},
         NEW k \in Card, k.status = "open", k.tx = NoOne, Fine(k),
         k.stamps = Seen(s, c).stamps, Give(s, c, k)
  PROVE  BooksOK'
<1> DEFINE n == Least(left[s], Required - k.stamps)
           j == Stamped(k, n)
           l == left[s] - n
<1>1. /\ s \in Actors /\ TypeOK /\ req[s] \in Givings /\ pc[s] \notin Undoing
      /\ pc[s] \notin Waiting /\ left[s] \in Nat
      /\ Books(pc[s], req[s], left[s], prog[s], mine[s], booked[s])
  BY Here, AtWork DEF Local, Undoing, Waiting, Givings, Requests
<1>2. req[s] \notin FreeGrants /\ left[s] > 0
  BY <1>1 DEF Books, Giving
<1>3. k.stamps \in Nat /\ Required \in Nat /\ k.stamps < Required
  BY CardsAssumption DEF Card, Fine
<1>4. /\ n \in Nat /\ n > 0 /\ l \in Nat /\ k.stamps + n <= Required
      /\ n = left[s] => l = 0
      /\ n # left[s] => l > 0
  BY <1>1, <1>2, <1>3 DEF Least
<1>5. PICK p \in {"commit", "find"} : /\ pc' = [pc EXCEPT ![s] = p]
                                      /\ p = "commit" <=> n = left[s]
  BY DEF Give, Goto
<1>6. /\ mine' = [mine EXCEPT ![s] = With(mine[s], c, j)]
      /\ booked' = [booked EXCEPT ![s] = Append(booked[s], Entry(s, n))]
      /\ left' = [left EXCEPT ![s] = l]
      /\ UNCHANGED <<now, db, req, prog>>
  BY <1>1 DEF Give, TypeOK
<1> HIDE DEF n
<1>7. j \in Card /\ Live(j) /\ j.stamps = Seen(s, c).stamps + n
  BY <1>1, <1>4, StampedRow, StampsAdded
<1> HIDE DEF j
<1>8. Due(req[s], l) = Due(req[s], left[s]) - n
  BY <1>1, <1>2, <1>4, DueType
<1> HIDE DEF l
<1>9. p \notin Undoing
  BY DEF Undoing
<1>10. Books(p, req[s], l, prog[s], With(mine[s], c, j), Append(booked[s], Entry(s, n)))
  BY <1>1, <1>2, <1>4, <1>5, <1>7, <1>8, <1>9, OneMore
<1>11. Turns(s, p, req[s], l, prog[s], With(mine[s], c, j), Append(booked[s], Entry(s, n)))
  BY <1>1, <1>5, <1>6, Same DEF Turns, db
<1>12. QED
  BY <1>1, <1>10, <1>11, Turn

LEMMA StampCardBooks ==
  ASSUME CardsInv, BooksOK, NEW s \in Sessions, StampCard(s)
  PROVE  BooksOK'
<1> DEFINE c == Head(cands[s])
<1>1. /\ s \in Actors /\ TypeOK /\ pc[s] = "stamp" /\ pc[s] \notin Undoing /\ pc[s] \notin Waiting
      /\ Local(s, pc[s], req[s], left[s], cands[s], mine[s])
      /\ Books(pc[s], req[s], left[s], prog[s], mine[s], booked[s])
  BY Here, AtWork DEF StampCard, Undoing, Waiting
<1>2. c \in Cards
  <2>1. cands[s] \in Seq(Cards) /\ cands[s] # <<>>
    BY <1>1 DEF TypeOK, Local
  <2>2. QED
    BY <2>1, HeadTailProperties
<1> HIDE DEF c
<1>3. CASE Seen(s, c).status = "open"
  <2>1. Give(s, c, Seen(s, c))
    BY <1>3 DEF StampCard, c
  <2>2. Seen(s, c) \in Card /\ Fine(Seen(s, c))
    BY <1>1, <1>2, <1>3, SeenFine
  <2>3. Seen(s, c).tx = NoOne
    BY <1>3, <2>2 DEF Fine
  <2>4. card[c].status \in {"none", "open"}
    <3>1. req[s] \in Givings
      BY <1>1 DEF Local, Givings, Requests
    <3>2. QED
      BY <1>1, <1>3, <3>1 DEF Seen, Books, HeldOK
  <2>5. QED
    BY <1>1, <1>2, <1>3, <2>1, <2>2, <2>3, <2>4, GiveBooks
<1>4. CASE Seen(s, c).status # "open"
  <2>1. Turns(s, "open", req[s], left[s], prog[s], mine[s], booked[s])
    BY <1>1, <1>4, Same DEF StampCard, Goto, Turns, db, c
  <2>2. req[s] \in Givings => Giving("open", req[s], left[s], mine[s], booked[s])
    BY <1>1 DEF Books, Giving
  <2>3. "open" \notin Undoing
    BY DEF Undoing
  <2>4. QED
    BY <1>1, <2>1, <2>2, <2>3, MovesOn
<1>5. QED
  BY <1>3, <1>4

\* The new row of a card that did not exist.
LEMMA Blank ==
  ASSUME CardsInv, BooksOK, LedgerOK, NEW s \in Sessions, NEW c \in Cards, Fresh(s, c)
  PROVE  card[c].status = "none" /\ Seen(s, c).stamps = 0
<1>1. Seen(s, c).status = "none"
  BY DEF Fresh, Unused
<1>2. HeldOK(pc[s], req[s], mine[s])
  BY AtWork DEF Actors, Books
<1>3. c \notin DOMAIN mine[s]
  BY <1>1, <1>2 DEF HeldOK, Seen
<1>4. QED
  BY <1>1, <1>3 DEF Seen, LedgerOK

LEMMA OpenCardBooks ==
  ASSUME CardsInv, BooksOK, LedgerOK, NEW s \in Sessions, OpenCard(s)
  PROVE  BooksOK'
<1>1. s \in Actors /\ TypeOK /\ pc[s] = "open"
  BY Here DEF OpenCard
<1>2. PICK c \in Cards : Fresh(s, c) /\ Give(s, c, NewCard(s))
  BY DEF OpenCard
<1>3. /\ NewCard(s) \in Card /\ NewCard(s).status = "open" /\ NewCard(s).tx = NoOne
      /\ NewCard(s).stamps = Seen(s, c).stamps /\ card[c].status = "none"
  BY <1>1, <1>2, NewRow, Blank
<1>4. QED
  BY <1>1, <1>2, <1>3, NewFine, GiveBooks

LEMMA GiveFreeBooks ==
  ASSUME CardsInv, BooksOK, LedgerOK, NEW s \in Sessions, GiveFree(s)
  PROVE  BooksOK'
<1> DEFINE j == Stamped(NewCard(s), Required)
           l == left[s] - 1
<1>1. /\ s \in Actors /\ TypeOK /\ pc[s] = "give" /\ pc[s] \notin Undoing /\ pc[s] \notin Waiting
      /\ Local(s, pc[s], req[s], left[s], cands[s], mine[s]) /\ left[s] \in Nat /\ left[s] > 0
      /\ Books(pc[s], req[s], left[s], prog[s], mine[s], booked[s])
  <2>1. pc[s] = "give" /\ pc[s] \notin Undoing /\ pc[s] \notin Waiting
    BY DEF GiveFree, Undoing, Waiting
  <2>2. QED
    BY <2>1, Here, AtWork DEF Local
<1>2. req[s] \in Givings /\ req[s] \in FreeGrants
  <2>1. req[s] \in Givings
    BY <1>1 DEF Local, Givings, Requests
  <2>2. QED
    BY <1>1, <2>1 DEF Books, Giving
<1>3. PICK c \in Cards : Fresh(s, c) /\ mine' = [mine EXCEPT ![s] = With(mine[s], c, j)]
  BY <1>1 DEF GiveFree, TypeOK
<1>4. card[c].status = "none" /\ Seen(s, c).stamps = 0
  BY <1>3, Blank
<1>5. Required \in Nat /\ Required > 0
  BY CardsAssumption
<1>6. j \in Card /\ Live(j) /\ j.stamps = Seen(s, c).stamps + Required
  <2>1. /\ NewCard(s) \in Card /\ NewCard(s).status = "open" /\ NewCard(s).tx = NoOne
        /\ NewCard(s).stamps = 0
    BY <1>1, NewRow
  <2>2. NewCard(s).stamps + Required <= Required
    BY <1>5, <2>1
  <2>3. QED
    BY <1>1, <1>4, <1>5, <2>1, <2>2, StampedRow, StampsAdded
<1> HIDE DEF j
<1>7. PICK p \in {"commit", "give"} : /\ pc' = [pc EXCEPT ![s] = p]
                                      /\ p = "commit" => left[s] = 1
  BY DEF GiveFree, Goto
<1>8. /\ booked' = [booked EXCEPT ![s] = Append(booked[s], Entry(s, Required))]
      /\ left' = [left EXCEPT ![s] = l]
      /\ UNCHANGED <<now, db, req, prog>>
  BY <1>1 DEF GiveFree, TypeOK
<1>9. l \in Nat /\ (p = "commit" => l = 0)
  BY <1>1, <1>7
<1>10. Due(req[s], l) = Due(req[s], left[s]) - Required
  <2>1. (left[s] - 1) * Required = left[s] * Required - Required
    BY <1>1, <1>5
  <2>2. QED
    BY <1>2, <2>1 DEF Due
<1> HIDE DEF l
<1>11. p \notin Undoing
  BY DEF Undoing
<1>12. Books(p, req[s], l, prog[s], With(mine[s], c, j), Append(booked[s], Entry(s, Required)))
  BY <1>1, <1>2, <1>4, <1>5, <1>6, <1>9, <1>10, <1>11, OneMore
<1>13. Turns(s, p, req[s], l, prog[s], With(mine[s], c, j), Append(booked[s], Entry(s, Required)))
  BY <1>1, <1>3, <1>7, <1>8, Same DEF Turns, db
<1>14. QED
  BY <1>1, <1>12, <1>13, Turn

LEMMA BeginRedeemBooks ==
  ASSUME CardsInv, BooksOK, NEW s \in Sessions, NEW r \in Redeems, NEW picked \in SUBSET Cards,
         BeginRedeem(s, r, picked)
  PROVE  BooksOK'
<1>1. s \in Actors /\ pc[s] = "idle" /\ r \notin Givings
  BY AtWork DEF Actors, BeginRedeem, Start
<1>2. TypeOK /\ booked[s] = <<>> /\ left[s] = 0 /\ DOMAIN mine[s] = {}
  BY <1>1, Idle
<1>3. Turns(s, "pick", r, left[s], prog[s], mine[s], booked[s])
  BY <1>1, <1>2, Same DEF BeginRedeem, Start, Goto, Turns, db
<1>4. Books("pick", r, left[s], prog[s], mine[s], booked[s])
  BY <1>1, <1>2, BooksIdle DEF Undoing
<1>5. QED
  BY <1>1, <1>2, <1>3, <1>4, Turn

\* Rows held for a coffee or by the job keep their stamps.
LEMMA KeptStamps ==
  ASSUME TypeOK, NEW s \in Actors, NEW p, NEW q, p \notin Undoing, q \notin Undoing,
         NEW r, r \notin Givings, NEW g, Books(p, r, 0, g, mine[s], <<>>),
         NEW c \in Cards, NEW k \in Card, k.status # "none", k.stamps = card[c].stamps,
         r = NoOne => k.status = "expired" /\ Live(card[c]),
         r \in Redeems => card[c].status = "complete"
  PROVE  Books(q, r, 0, g, With(mine[s], c, k), <<>>)
<1> DEFINE m == With(mine[s], c, k)
<1>1. DOMAIN m = Held(s) \cup {c} /\ \A d \in DOMAIN m : m[d] = IF d = c THEN k ELSE mine[s][d]
  BY DEF With, Held
<1>2. HeldOK(p, r, mine[s])
  BY DEF Books
<1> HIDE DEF m
<1>3. HeldOK(q, r, m)
  BY <1>1, <1>2 DEF HeldOK, Held
<1>4. EntriesOK(q, r, <<>>)
  BY DEF EntriesOK
<1>5. Books(q, r, 0, g, m, <<>>)
  BY <1>3, <1>4 DEF Books
<1>6. QED
  BY <1>5 DEF m

LEMMA PickCardBooks ==
  ASSUME CardsInv, BooksOK, NEW s \in Sessions, PickCard(s)
  PROVE  BooksOK'
<1> DEFINE c == Head(cands[s])
<1>1. /\ s \in Actors /\ TypeOK /\ pc[s] = "pick" /\ pc[s] \notin Undoing
      /\ req[s] \in Redeems /\ req[s] \notin Givings /\ req[s] # NoOne
      /\ Books(pc[s], req[s], left[s], prog[s], mine[s], booked[s])
  <2>1. pc[s] = "pick" /\ pc[s] \notin Undoing
    BY DEF PickCard, Undoing
  <2>2. QED
    BY <2>1, Here, AtWork, CardsAssumption DEF Local, Requests
<1>2. left[s] = 0 /\ booked[s] = <<>>
  BY <1>1 DEF Books
<1>3. c \in Cards
  <2>1. cands[s] \in Seq(Cards) /\ cands[s] # <<>>
    BY <1>1 DEF TypeOK, PickCard
  <2>2. QED
    BY <2>1, HeadTailProperties
<1>4. card[c] \in Card
  BY <1>1, <1>3 DEF TypeOK
<1>5. /\ UNCHANGED <<card, status, ledger>> /\ req' = [req EXCEPT ![s] = req[s]]
      /\ left' = [left EXCEPT ![s] = left[s]] /\ prog' = [prog EXCEPT ![s] = prog[s]]
      /\ booked' = [booked EXCEPT ![s] = booked[s]]
  BY <1>1, Same DEF PickCard, db
<1> HIDE DEF c
<1>6. CASE UNCHANGED <<pc, mine>>
  <2>1. Turns(s, pc[s], req[s], left[s], prog[s], mine[s], booked[s])
    BY <1>1, <1>5, <1>6, Same DEF Turns
  <2>2. QED
    BY <1>1, <2>1, MovesOn
<1>7. ASSUME card[c].status = "complete", NEW p \in {"refuse", "record"}, NEW k \in Card,
             pc' = [pc EXCEPT ![s] = p], mine' = [mine EXCEPT ![s] = With(mine[s], c, k)],
             k.status # "none", k.stamps = card[c].stamps
      PROVE  BooksOK'
  <2>1. p \notin Undoing
    BY DEF Undoing
  <2>2. Books(p, req[s], 0, prog[s], With(mine[s], c, k), <<>>)
    BY <1>1, <1>2, <1>3, <1>7, <2>1, KeptStamps
  <2>3. Turns(s, p, req[s], 0, prog[s], With(mine[s], c, k), <<>>)
    BY <1>2, <1>5, <1>7 DEF Turns
  <2>4. QED
    BY <1>1, <2>2, <2>3, Turn
<1>8. CASE card[c].status = "complete" /\ Lapsed(card[c])
  <2> DEFINE k == Expired(card[c])
  <2>1. k \in Card /\ k.status = "expired" /\ k.stamps = card[c].stamps
    BY <1>4 DEF Expired, Card, States
  <2>2. mine' = [mine EXCEPT ![s] = With(mine[s], c, k)] /\ pc' = [pc EXCEPT ![s] = "refuse"]
    BY <1>1, <1>8 DEF PickCard, Goto, c, TypeOK
  <2> HIDE DEF k
  <2>3. k.status # "none"
    BY <2>1
  <2>4. QED
    BY <1>7, <1>8, <2>1, <2>2, <2>3
<1>9. CASE card[c].status = "complete" /\ ~Lapsed(card[c])
  <2> DEFINE k == RedeemedBy(card[c], req[s])
  <2>1. k \in Card /\ k.status = "redeemed" /\ k.stamps = card[c].stamps
    <3> DEFINE a == [card[c] EXCEPT !.status = "redeemed"]
               b == [a EXCEPT !.tx = req[s]]
    <3>1. a \in Card /\ a.status = "redeemed" /\ a.stamps = card[c].stamps
      BY <1>4 DEF Card, States
    <3>2. k = b
      BY DEF RedeemedBy
    <3> HIDE DEF a
    <3>3. b \in Card /\ b.status = "redeemed" /\ b.stamps = card[c].stamps
      BY <1>1, <3>1 DEF Card
    <3>4. QED
      BY <3>2, <3>3
  <2>2. mine' = [mine EXCEPT ![s] = With(mine[s], c, k)] /\ pc' = [pc EXCEPT ![s] = "record"]
    BY <1>1, <1>9 DEF PickCard, Goto, c, TypeOK
  <2> HIDE DEF k
  <2>3. k.status # "none"
    BY <2>1
  <2>4. QED
    BY <1>7, <1>9, <2>1, <2>2, <2>3
<1>10. QED
  BY <1>1, <1>6, <1>8, <1>9 DEF PickCard, c

-----------------------------------------------------------------------------
(* Books: refunds *)

\* An order of a finite set names each of its elements once.
LEMMA OrdersCover ==
  ASSUME NEW S, IsFiniteSet(S), NEW o \in Orders(S)
  PROVE  /\ \A i, j \in DOMAIN o : o[i] = o[j] => i = j
         /\ \A x \in S : \E i \in DOMAIN o : o[i] = x
<1> DEFINE I == 1..Cardinality(S)
<1>1. Cardinality(S) \in Nat
  BY FS_CardinalityType
<1>2. IsFiniteSet(I) /\ Cardinality(I) = Cardinality(S)
  BY <1>1, FS_Interval
<1>3. o \in [I -> S] /\ \A i, j \in I : i < j => o[i] # o[j]
  BY DEF Orders
<1>4. \A i, j \in I : o[i] = o[j] => i = j
  BY <1>1, <1>3
<1>5. DOMAIN o = I
  BY <1>3
<1> HIDE DEF I
<1>6. o \in Injection(I, S)
  BY <1>3, <1>4 DEF Injection, IsInjective
<1>7. o \in Surjection(I, S)
  BY <1>2, <1>6, FS_Injection
<1>8. QED
  BY <1>4, <1>5, <1>7 DEF Surjection

\* The entries a refund reads add up to what the purchase has booked.
LEMMA EntriesAddUp ==
  ASSUME TypeOK, NEW r, NEW o \in Orders(EntriesOf(r))
  PROVE  Total([i \in DOMAIN o |-> ledger[o[i]].delta]) = Booked({r}, 1)
<1> DEFINE g == [i \in DOMAIN o |-> ledger[o[i]].delta]
           u == Parts(ledger, {r}, 1)
<1>1. /\ ledger \in Seq(Entries) /\ Len(ledger) \in Nat /\ DOMAIN ledger = 1..Len(ledger)
      /\ \A i \in 1..Len(ledger) : ledger[i] \in Entries /\ ledger[i].delta \in Int
  <2>1. ledger \in Seq(Entries)
    BY DEF TypeOK
  <2>2. Len(ledger) \in Nat /\ DOMAIN ledger = 1..Len(ledger)
    BY <2>1, LenProperties
  <2>3. \A i \in 1..Len(ledger) : ledger[i] \in Entries
    BY <2>1, ElementOfSeq
  <2>4. \A i \in 1..Len(ledger) : ledger[i].delta \in Int
    BY <2>3 DEF Entries
  <2>5. QED
    BY <2>1, <2>2, <2>3, <2>4
<1>2. EntriesOf(r) \subseteq 1..Len(ledger)
  BY <1>1 DEF EntriesOf
<1>3. IsFiniteSet(EntriesOf(r))
  <2> DEFINE I == 1..Len(ledger)
  <2>1. IsFiniteSet(I)
    BY <1>1, FS_Interval
  <2>2. EntriesOf(r) \subseteq I
    BY <1>2
  <2> HIDE DEF I
  <2>3. QED
    BY <2>1, <2>2, FS_Subset
<1> DEFINE n == Cardinality(EntriesOf(r))
<1>4. /\ n \in Nat /\ DOMAIN o = 1..n /\ \A i \in 1..n : o[i] \in EntriesOf(r)
  BY <1>3, OrdersOfFinite
<1>5. /\ \A i, j \in DOMAIN o : o[i] = o[j] => i = j
      /\ \A x \in EntriesOf(r) : \E i \in DOMAIN o : o[i] = x
  BY <1>3, OrdersCover
<1> HIDE DEF n
<1>6. \A x \in 1..Len(ledger) : Counts(ledger[x], {r}, 1) <=> x \in EntriesOf(r)
  BY <1>1 DEF Counts, EntriesOf
<1>7. /\ Booked({r}, 1) = Total(u) /\ u \in Seq(Int) /\ Len(u) = Len(ledger)
      /\ \A x \in 1..Len(ledger) : u[x] = IF x \in EntriesOf(r) THEN ledger[x].delta ELSE 0
  <2>1. 1 \in Signs
    BY DEF Signs
  <2>2. QED
    BY <1>1, <1>6, <2>1, PartsType DEF Booked
<1>8. g \in Seq(Int) /\ Len(g) = n /\ \A j \in 1..n : g[j] = ledger[o[j]].delta
  <2>1. \A j \in 1..n : ledger[o[j]].delta \in Int
    BY <1>1, <1>2, <1>4
  <2>2. QED
    BY <1>4, <2>1
<1> HIDE DEF u, g
<1>9. o \in [1..Len(g) -> 1..Len(u)]
  <2>1. o \in [1..n -> EntriesOf(r)]
    BY <1>4 DEF Orders, n
  <2>2. QED
    BY <1>2, <1>7, <1>8, <2>1
<1>10. \A i, j \in 1..Len(g) : o[i] = o[j] => i = j
  BY <1>4, <1>5, <1>8
<1>11. \A j \in 1..Len(g) : u[o[j]] = g[j]
  BY <1>2, <1>4, <1>7, <1>8
<1>12. \A i \in 1..Len(u) : (\A j \in 1..Len(g) : o[j] # i) => u[i] = 0
  BY <1>4, <1>5, <1>7, <1>8
<1>13. Total(u) = Total(g)
  BY <1>7, <1>8, <1>9, <1>10, <1>11, <1>12, TotalPlaced
<1>14. QED
  BY <1>7, <1>13 DEF g

LEMMA BeginRefundBooks ==
  ASSUME CardsInv, BooksOK, NEW s \in Sessions, NEW r \in Purchases, BeginRefund(s, r)
  PROVE  BooksOK'
<1>1. s \in Actors /\ pc[s] = "idle" /\ status[r] = "committed"
  BY DEF Actors, BeginRefund, Start
<1>2. TypeOK /\ booked[s] = <<>> /\ left[s] = 0 /\ DOMAIN mine[s] = {}
  BY <1>1, Idle
<1>3. PICK o \in Orders(EntriesOf(r)) :
        prog' = [prog EXCEPT ![s] = [i \in DOMAIN o |-> ledger[o[i]].delta]]
  BY DEF BeginRefund
<1> DEFINE g == [i \in DOMAIN o |-> ledger[o[i]].delta]
<1>4. Total(g) = Booked({r}, 1)
  BY <1>2, EntriesAddUp
<1>5. prog' = [prog EXCEPT ![s] = g]
  BY <1>3
<1> HIDE DEF g
<1>6. Turns(s, "take", r, left[s], g, mine[s], booked[s])
  BY <1>1, <1>2, <1>5, Same DEF BeginRefund, Start, Goto, Turns, db
<1>7. EntriesOK("take", r, booked[s]) /\ HeldOK("take", r, mine[s])
  <2>1. DOMAIN booked[s] = {}
    BY <1>2
  <2>2. QED
    BY <1>2, <2>1 DEF EntriesOK, HeldOK
<1>8. Undo(r, left[s], g, mine[s], booked[s])
  <2>1. Rows(mine[s]) /\ \A c \in DOMAIN mine[s] : mine[s][c].stamps = card[c].stamps
    BY <1>2 DEF Rows
  <2>2. Gain(mine[s]) = 0 /\ Total(Deltas(booked[s])) = 0
    BY <1>2, <2>1, GainNothing, DeltasEmpty
  <2>3. Booked({r}, 1) \in Int
    <3>1. ledger \in Seq(Entries) /\ 1 \in Signs
      BY <1>2 DEF TypeOK, Signs
    <3>2. QED
      BY <3>1, PartsType DEF Booked
  <2>4. QED
    BY <1>1, <1>2, <1>4, <2>2, <2>3 DEF Undo
<1>9. Books("take", r, left[s], g, mine[s], booked[s])
  BY <1>7, <1>8 DEF Books, Undoing
<1>10. QED
  BY <1>1, <1>2, <1>6, <1>9, Turn

\* What a session in the middle of a refund knows.
LEMMA Refunding ==
  ASSUME CardsInv, BooksOK, NEW s \in Sessions, pc[s] \in Undoing
  PROVE  /\ s \in Actors /\ TypeOK /\ req[s] \in Requests /\ Rows(mine[s])
         /\ booked[s] \in Seq(Entries) /\ left[s] \in Nat /\ prog[s] \in Seq(Nat \ {0})
         /\ Local(s, pc[s], req[s], left[s], cands[s], mine[s])
         /\ EntriesOK(pc[s], req[s], booked[s]) /\ HeldOK(pc[s], req[s], mine[s])
         /\ Undo(req[s], left[s], prog[s], mine[s], booked[s]) /\ req[s] \in Givings
         /\ Total(Deltas(booked[s])) \in Int /\ Gain(mine[s]) \in Int
         /\ Booked({req[s]}, 1) \in Int
<1>1. /\ s \in Actors /\ TypeOK /\ Rows(mine[s]) /\ booked[s] \in Seq(Entries) /\ left[s] \in Nat
      /\ Books(pc[s], req[s], left[s], prog[s], mine[s], booked[s])
      /\ Local(s, pc[s], req[s], left[s], cands[s], mine[s])
  BY Here, AtWork
<1>2. /\ EntriesOK(pc[s], req[s], booked[s]) /\ HeldOK(pc[s], req[s], mine[s])
      /\ Undo(req[s], left[s], prog[s], mine[s], booked[s])
  BY <1>1 DEF Books
<1>3. req[s] \in Givings /\ req[s] \in Requests
  BY <1>2 DEF Undo, Givings, Requests
<1>4. Total(Deltas(booked[s])) \in Int /\ Gain(mine[s]) \in Int
  BY <1>1, DeltasType, TotalInt, ChangeType
<1>5. Booked({req[s]}, 1) \in Int
  <2>1. ledger \in Seq(Entries) /\ 1 \in Signs
    BY <1>1 DEF TypeOK, Signs
  <2>2. QED
    BY <2>1, PartsType DEF Booked
<1>6. QED
  BY <1>1, <1>2, <1>3, <1>4, <1>5 DEF TypeOK

LEMMA NextEntryBooks ==
  ASSUME CardsInv, BooksOK, NEW s \in Sessions, NextEntry(s)
  PROVE  BooksOK'
<1> DEFINE h == Head(prog[s])
           g == Tail(prog[s])
           x == Entry(s, -h)
           e == Append(booked[s], x)
<1>1. pc[s] = "take" /\ pc[s] \in Undoing /\ prog[s] # <<>>
  BY DEF NextEntry, Undoing
<1>2. /\ s \in Actors /\ TypeOK /\ req[s] \in Requests /\ req[s] \in Givings
      /\ booked[s] \in Seq(Entries) /\ left[s] \in Nat /\ prog[s] \in Seq(Nat \ {0})
      /\ EntriesOK(pc[s], req[s], booked[s]) /\ HeldOK(pc[s], req[s], mine[s])
      /\ Undo(req[s], left[s], prog[s], mine[s], booked[s])
      /\ Total(Deltas(booked[s])) \in Int /\ Gain(mine[s]) \in Int
      /\ Booked({req[s]}, 1) \in Int
  BY <1>1, Refunding
<1>3. h \in Nat /\ h > 0 /\ g \in Seq(Nat \ {0}) /\ g \in Seq(Int) /\ prog[s] \in Seq(Int)
  <2>1. h \in Nat \ {0} /\ g \in Seq(Nat \ {0})
    BY <1>1, <1>2, HeadTailProperties
  <2>2. \A q \in Seq(Nat \ {0}) : q \in Seq(Int)
    OBVIOUS
  <2> HIDE DEF h, g
  <2>3. h \in Nat /\ h > 0
    BY <2>1
  <2>4. QED
    BY <1>2, <2>1, <2>2, <2>3
<1>4. Total(prog[s]) = h + Total(g)
  BY <1>1, <1>3, TotalTail
<1>5. /\ booked' = [booked EXCEPT ![s] = e] /\ left' = [left EXCEPT ![s] = h]
      /\ prog' = [prog EXCEPT ![s] = g] /\ pc' = [pc EXCEPT ![s] = "lock"]
      /\ UNCHANGED <<now, db, req, born, mine>>
  BY <1>2 DEF NextEntry, Goto, TypeOK
<1> HIDE DEF h, g
<1>6. x \in Entries /\ x.tx = req[s] /\ x.delta = -h /\ x.delta < 0
  <2>1. -h \in Int /\ -h < 0
    BY <1>3
  <2>2. QED
    BY <1>2, <2>1 DEF Entry, Entries, TypeOK
<1> HIDE DEF x
<1>7. /\ Len(booked[s]) \in Nat /\ DOMAIN e = 1..(Len(booked[s]) + 1)
      /\ DOMAIN booked[s] = 1..Len(booked[s])
      /\ \A i \in 1..Len(booked[s]) : e[i] = booked[s][i]
      /\ e[Len(booked[s]) + 1] = x
  BY <1>2, <1>6, AppendProperties, LenProperties
<1>8. Total(Deltas(e)) = Total(Deltas(booked[s])) - h
  <2>1. Total(Deltas(e)) = Total(Deltas(booked[s])) + x.delta
    BY <1>2, <1>6, DeltasAppend
  <2>2. QED
    BY <1>2, <1>3, <1>6, <2>1
<1> HIDE DEF e
<1>9. EntriesOK("lock", req[s], e)
  <2>1. ASSUME NEW i \in DOMAIN e
        PROVE  e[i].tx = req[s] /\ e[i].delta < 0
    <3>1. i \in 1..Len(booked[s]) \/ i = Len(booked[s]) + 1
      BY <1>7
    <3>2. QED
      BY <1>1, <1>2, <1>6, <1>7, <3>1 DEF EntriesOK
  <2>2. QED
    BY <2>1 DEF EntriesOK, Undoing
<1>10. HeldOK("lock", req[s], mine[s])
  BY <1>1, <1>2 DEF HeldOK, Undoing
<1>11. Undo(req[s], h, g, mine[s], e)
  <2> DEFINE d == Total(Deltas(booked[s]))
             y == Gain(mine[s])
             b == Booked({req[s]}, 1)
             u == Total(g)
  <2>1. d + left[s] <= y /\ y <= 0 /\ Total(prog[s]) = b + d
    BY <1>2 DEF Undo
  <2>2. d \in Int /\ y \in Int /\ b \in Int /\ u \in Int
    BY <1>2, <1>3, TotalInt
  <2>3. Total(Deltas(e)) = d - h /\ h + u = b + d
    BY <1>4, <1>8, <2>1
  <2>4. req[s] \in Purchases /\ status[req[s]] = "committed"
    BY <1>2 DEF Undo
  <2> HIDE DEF d, y, b, u
  <2>5. (d - h) + h <= y
    BY <1>2, <1>3, <2>1, <2>2
  <2>6. u = b + (d - h)
    BY <1>3, <2>2, <2>3
  <2>7. QED
    BY <2>1, <2>3, <2>4, <2>5, <2>6 DEF Undo, d, y, b, u
<1>12. Books("lock", req[s], h, g, mine[s], e)
  BY <1>9, <1>10, <1>11 DEF Books, Undoing
<1>13. Turns(s, "lock", req[s], h, g, mine[s], e)
  BY <1>2, <1>5, Same DEF Turns, db
<1>14. QED
  BY <1>2, <1>12, <1>13, Turn

LEMMA LockCardsBooks ==
  ASSUME CardsInv, BooksOK, NEW s \in Sessions, LockCards(s)
  PROVE  BooksOK'
<1> DEFINE live == {c \in ToSet(cands[s]) : Live(Seen(s, c))}
           m == [c \in DOMAIN mine[s] \cup live |-> Seen(s, c)]
<1>1. pc[s] = "lock" /\ pc[s] \in Undoing
  BY DEF LockCards, Undoing
<1>2. /\ s \in Actors /\ TypeOK /\ req[s] \in Givings /\ Rows(mine[s]) /\ cands[s] \in Seq(Cards)
      /\ EntriesOK(pc[s], req[s], booked[s]) /\ HeldOK(pc[s], req[s], mine[s])
      /\ Undo(req[s], left[s], prog[s], mine[s], booked[s])
  BY <1>1, Refunding DEF TypeOK
<1>3. live \in SUBSET Cards
  <2>1. \A i \in DOMAIN cands[s] : cands[s][i] \in Cards
    BY <1>2, ElementOfSeq, LenProperties
  <2>2. QED
    BY <2>1 DEF ToSet
<1>4. mine' = [mine EXCEPT ![s] = m]
  BY <1>2 DEF LockCards, TypeOK
<1>5. \A c \in live : Live(Seen(s, c))
  OBVIOUS
<1> HIDE DEF live
<1>6. /\ DOMAIN m = DOMAIN mine[s] \cup live
      /\ \A c \in DOMAIN m : m[c] = Seen(s, c)
  OBVIOUS
<1> HIDE DEF m
<1>7. \A c \in DOMAIN m : c \in DOMAIN mine[s] \/ (Live(m[c]) /\ m[c] = card[c])
  BY <1>5, <1>6 DEF Seen
<1>8. \A c \in DOMAIN mine[s] : c \in DOMAIN m /\ m[c] = mine[s][c]
  BY <1>6 DEF Seen
<1>9. HeldOK("take", req[s], m)
  <2>1. ASSUME NEW c \in DOMAIN m
        PROVE  m[c].status # "none" /\ Live(m[c]) /\ Live(card[c])
    BY <1>1, <1>2, <1>7, <1>8, <2>1 DEF HeldOK, Live
  <2>2. req[s] # NoOne /\ req[s] \notin Redeems
    BY <1>2, AtWork
  <2>3. QED
    BY <1>2, <2>1, <2>2 DEF HeldOK, Undoing
<1>10. Gain(m) = Gain(mine[s])
  <2>1. ASSUME NEW c \in Cards
        PROVE  Change(m)[c] = Change(mine[s])[c]
    <3>1. CASE c \in DOMAIN mine[s]
      BY <1>8, <3>1 DEF Change
    <3>2. CASE c \in DOMAIN m /\ c \notin DOMAIN mine[s]
      <4>1. m[c] = card[c] /\ card[c].stamps \in Int
        BY <1>2, <1>7, <3>2 DEF TypeOK, Card
      <4>2. m[c].stamps - card[c].stamps = 0
        BY <4>1
      <4>3. QED
        BY <3>2, <4>2 DEF Change
    <3>3. CASE c \notin DOMAIN m
      BY <1>8, <3>3 DEF Change
    <3>4. QED
      BY <3>1, <3>2, <3>3
  <2>2. QED
    BY <2>1, GainSame
<1>11. EntriesOK("take", req[s], booked[s])
  BY <1>1, <1>2 DEF EntriesOK, Undoing
<1>12. Undo(req[s], left[s], prog[s], m, booked[s])
  BY <1>2, <1>10 DEF Undo
<1>13. Books("take", req[s], left[s], prog[s], m, booked[s])
  BY <1>9, <1>11, <1>12 DEF Books, Undoing
<1>14. Turns(s, "take", req[s], left[s], prog[s], m, booked[s])
  BY <1>2, <1>4, Same DEF LockCards, Goto, Turns, db
<1>15. QED
  BY <1>2, <1>13, <1>14, Turn

LEMMA StampsTaken ==
  ASSUME NEW k \in Card, NEW n \in Nat
  PROVE  Unstamped(k, n).stamps = k.stamps - n
BY DEF Unstamped, Card

LEMMA TakeBackBooks ==
  ASSUME CardsInv, BooksOK, NEW s \in Sessions, TakeBack(s)
  PROVE  BooksOK'
<1> DEFINE c == Head(cands[s])
           n == Taken(left[s], mine[s][c])
           m == IF n = 0 THEN mine[s] ELSE [mine[s] EXCEPT ![c] = Unstamped(mine[s][c], n)]
           l == left[s] - n
<1>1. pc[s] = "take" /\ pc[s] \in Undoing /\ cands[s] # <<>>
  BY DEF TakeBack, Taking, Undoing
<1>2. /\ s \in Actors /\ TypeOK /\ req[s] \in Givings /\ Rows(mine[s]) /\ cands[s] \in Seq(Cards)
      /\ left[s] \in Nat /\ Local(s, pc[s], req[s], left[s], cands[s], mine[s])
      /\ EntriesOK(pc[s], req[s], booked[s]) /\ HeldOK(pc[s], req[s], mine[s])
      /\ Undo(req[s], left[s], prog[s], mine[s], booked[s])
      /\ Total(Deltas(booked[s])) \in Int /\ Gain(mine[s]) \in Int
  BY <1>1, Refunding DEF TypeOK
<1>3. c \in DOMAIN mine[s] /\ Live(mine[s][c]) /\ c \in Cards /\ mine[s][c] \in Card
      /\ Fine(mine[s][c])
  <2>1. 1 \in DOMAIN cands[s] /\ c = cands[s][1] /\ c \in Cards
    BY <1>1, <1>2, EmptySeq, LenProperties, HeadTailProperties
  <2>2. c \in DOMAIN mine[s] /\ Live(mine[s][c])
    BY <1>1, <1>2, <2>1 DEF Local
  <2>3. QED
    BY <1>2, <2>1, <2>2 DEF Local, RowsOK, Rows
<1>4. mine[s][c].stamps \in Nat /\ n \in Nat /\ n <= left[s] /\ n <= mine[s][c].stamps /\ l \in Nat
  <2>1. mine[s][c].stamps \in Nat
    BY <1>3 DEF Card
  <2>2. QED
    BY <1>2, <2>1 DEF Taken, Least
<1>5. /\ mine' = [mine EXCEPT ![s] = m] /\ left' = [left EXCEPT ![s] = l]
      /\ UNCHANGED <<now, db, pc, req, prog, booked>>
  BY <1>2, Same DEF TakeBack, TypeOK
<1> HIDE DEF n, c
<1>6. CASE n = 0
  <2>1. m = mine[s] /\ l = left[s]
    BY <1>2, <1>6
  <2>2. Turns(s, pc[s], req[s], left[s], prog[s], mine[s], booked[s])
    BY <1>2, <1>5, <2>1, Same DEF Turns, db
  <2>3. Books(pc[s], req[s], left[s], prog[s], mine[s], booked[s])
    BY <1>2, AtWork
  <2>4. QED
    BY <1>2, <2>2, <2>3, Turn
<1>7. CASE n # 0
  <2> DEFINE k == Unstamped(mine[s][c], n)
  <2>1. k \in Card /\ k.status = "open" /\ k.stamps = mine[s][c].stamps - n
    <3>1. n > 0
      BY <1>4, <1>7
    <3>2. QED
      BY <1>3, <1>4, <3>1, UnstampedRow, StampsTaken
  <2> HIDE DEF k
  <2>2. /\ DOMAIN m = DOMAIN mine[s] /\ m[c] = k
        /\ \A d \in DOMAIN mine[s] : d # c => m[d] = mine[s][d]
    BY <1>3, <1>7 DEF k
  <2> HIDE DEF m
  <2>3. Rows(m)
    BY <1>2, <2>1, <2>2 DEF Rows
  <2>4. Gain(m) = Gain(mine[s]) - n
    <3>1. \A d \in Cards \ {c} : Change(m)[d] = Change(mine[s])[d]
      BY <2>2 DEF Change
    <3>2. Gain(m) = Gain(mine[s]) + (m[c].stamps - mine[s][c].stamps)
      BY <1>2, <1>3, <2>2, <2>3, <3>1, GainRow
    <3>3. QED
      BY <1>2, <1>4, <2>1, <2>2, <3>2
  <2>5. HeldOK("take", req[s], m)
    <3>1. req[s] # NoOne /\ req[s] \notin Redeems
      BY <1>2, AtWork
    <3>2. ASSUME NEW d \in DOMAIN m
          PROVE  m[d].status # "none" /\ Live(m[d]) /\ Live(card[d])
      BY <1>1, <1>2, <2>1, <2>2, <3>2 DEF HeldOK, Live
    <3>3. QED
      BY <1>2, <3>1, <3>2 DEF HeldOK, Undoing
  <2>6. Undo(req[s], l, prog[s], m, booked[s])
    <3> DEFINE d == Total(Deltas(booked[s]))
               y == Gain(mine[s])
    <3>1. d + left[s] <= y /\ y <= 0 /\ d \in Int /\ y \in Int
      BY <1>2 DEF Undo
    <3>2. Gain(m) = y - n
      BY <2>4
    <3> HIDE DEF d, y
    <3>3. d + (left[s] - n) <= y - n /\ y - n <= 0
      BY <1>2, <1>4, <3>1
    <3>4. QED
      BY <1>2, <3>2, <3>3 DEF Undo, d
  <2>7. Books(pc[s], req[s], l, prog[s], m, booked[s])
    BY <1>1, <1>2, <2>5, <2>6 DEF Books
  <2> HIDE DEF l
  <2>8. Turns(s, pc[s], req[s], l, prog[s], m, booked[s])
    BY <1>2, <1>5, Same DEF Turns, db
  <2>9. QED
    BY <1>2, <2>7, <2>8, Turn
<1>8. QED
  BY <1>6, <1>7

-----------------------------------------------------------------------------
(* Books: the job *)

LEMMA JobBooks ==
  ASSUME CardsInv, BooksOK
  PROVE  /\ Job \in Actors /\ TypeOK /\ req[Job] = NoOne /\ req[Job] \notin Givings
         /\ req[Job] \notin Redeems
         /\ pc[Job] \notin Undoing /\ left[Job] = 0 /\ booked[Job] = <<>>
         /\ Books(pc[Job], req[Job], 0, prog[Job], mine[Job], <<>>)
<1>1. /\ Job \in Actors /\ TypeOK /\ req[Job] = NoOne /\ pc[Job] \notin Undoing
  BY JobHere DEF Local, Undoing
<1>2. Books(pc[Job], req[Job], left[Job], prog[Job], mine[Job], booked[Job])
      /\ req[Job] \notin Givings
  BY <1>1, AtWork
<1>3. req[Job] \notin Redeems
  BY <1>1, CardsAssumption DEF Requests
<1>4. left[Job] = 0 /\ booked[Job] = <<>>
  BY <1>1, <1>2 DEF Books
<1>5. QED
  BY <1>1, <1>2, <1>3, <1>4

LEMMA BeginExpireBooks ==
  ASSUME CardsInv, BooksOK, BeginExpire
  PROVE  BooksOK'
<1>1. /\ Job \in Actors /\ TypeOK /\ req[Job] \notin Givings /\ pc[Job] \notin Undoing
  BY JobBooks
<1>2. Turns(Job, "expire", req[Job], left[Job], prog[Job], mine[Job], booked[Job])
  BY <1>1, Same DEF BeginExpire, Goto, Turns, db
<1>3. "expire" \notin Undoing
  BY DEF Undoing
<1>4. QED
  BY <1>1, <1>2, <1>3, MovesOn

LEMMA ExpireCardBooks ==
  ASSUME CardsInv, BooksOK, ExpireCard
  PROVE  BooksOK'
<1> DEFINE c == Head(cands[Job])
<1>1. /\ Job \in Actors /\ TypeOK /\ req[Job] = NoOne /\ req[Job] \notin Givings
      /\ req[Job] \notin Redeems /\ pc[Job] \notin Undoing /\ left[Job] = 0 /\ booked[Job] = <<>>
      /\ Books(pc[Job], req[Job], 0, prog[Job], mine[Job], <<>>)
  BY JobBooks
<1>2. c \in Cards
  <2>1. cands[Job] \in Seq(Cards) /\ cands[Job] # <<>>
    BY <1>1, JobHere DEF TypeOK, Local, ExpireCard
  <2>2. QED
    BY <2>1, HeadTailProperties
<1>3. card[c] \in Card
  BY <1>1, <1>2 DEF TypeOK
<1>4. PICK p \in {"commit", "expire"} : pc' = [pc EXCEPT ![Job] = p]
  BY DEF ExpireCard, Goto
<1>5. p \notin Undoing
  BY DEF Undoing
<1>6. /\ UNCHANGED <<card, status, ledger>> /\ req' = [req EXCEPT ![Job] = req[Job]]
      /\ left' = [left EXCEPT ![Job] = left[Job]] /\ prog' = [prog EXCEPT ![Job] = prog[Job]]
      /\ booked' = [booked EXCEPT ![Job] = booked[Job]]
  BY <1>1, Same DEF ExpireCard, db
<1>7. mine' = IF Live(card[c]) THEN [mine EXCEPT ![Job] = With(mine[Job], c, Expired(card[c]))]
              ELSE mine
  BY <1>1 DEF ExpireCard, TypeOK
<1> HIDE DEF c
<1>8. CASE ~Live(card[c])
  <2>1. Turns(Job, p, req[Job], left[Job], prog[Job], mine[Job], booked[Job])
    BY <1>1, <1>4, <1>6, <1>7, <1>8, Same DEF Turns
  <2>2. QED
    BY <1>1, <1>5, <2>1, MovesOn
<1>9. CASE Live(card[c])
  <2> DEFINE k == Expired(card[c])
  <2>1. k \in Card /\ k.status = "expired" /\ k.stamps = card[c].stamps
    BY <1>3 DEF Expired, Card, States
  <2>2. mine' = [mine EXCEPT ![Job] = With(mine[Job], c, k)]
    BY <1>7, <1>9
  <2> HIDE DEF k
  <2>3. k.status # "none"
    BY <2>1
  <2>4. Books(p, req[Job], 0, prog[Job], With(mine[Job], c, k), <<>>)
    BY <1>1, <1>2, <1>5, <1>9, <2>1, <2>3, KeptStamps
  <2>5. Turns(Job, p, req[Job], 0, prog[Job], With(mine[Job], c, k), <<>>)
    BY <1>1, <1>4, <1>6, <2>2 DEF Turns
  <2>6. QED
    BY <1>1, <2>4, <2>5, Turn
<1>10. QED
  BY <1>8, <1>9

-----------------------------------------------------------------------------
(* Books: the end of a transaction *)

Worth(k, S) == IF k.status \in S THEN k.stamps ELSE 0

LEMMA WorthType ==
  ASSUME TypeOK, NEW S
  PROVE  /\ [c \in Cards |-> Worth(card[c], S)] \in Seq(Int)
         /\ Len([c \in Cards |-> Worth(card[c], S)]) = MaxCards
         /\ Stamps(S) = Total([c \in Cards |-> Worth(card[c], S)])
         /\ Cards = 1..MaxCards /\ MaxCards \in Nat
<1>1. Cards = 1..MaxCards /\ MaxCards \in Nat
  BY CardsAssumption DEF Cards
<1>2. \A c \in Cards : Worth(card[c], S) \in Int
  BY DEF TypeOK, Card, Worth
<1>3. Stamps(S) = Total([c \in Cards |-> Worth(card[c], S)])
  BY DEF Stamps, Worth
<1>4. QED
  BY <1>1, <1>2, <1>3

\* The stamps on the cards change by what the single cards change by.
LEMMA StampsChange ==
  ASSUME TypeOK, TypeOK', NEW S, NEW d \in Seq(Int), Len(d) = MaxCards,
         \A c \in Cards : Worth(card'[c], S) = Worth(card[c], S) + d[c]
  PROVE  Stamps(S)' = Stamps(S) + Total(d) /\ Stamps(S) \in Int
<1> DEFINE a == [c \in Cards |-> Worth(card[c], S)]
           b == [c \in Cards |-> Worth(card'[c], S)]
<1>1. /\ a \in Seq(Int) /\ Len(a) = MaxCards /\ Stamps(S) = Total(a)
      /\ Cards = 1..MaxCards
  BY WorthType
<1>2. b \in Seq(Int) /\ Len(b) = MaxCards /\ Stamps(S)' = Total(b)
  <2>1. \A c \in Cards : Worth(card'[c], S) \in Int
    BY DEF TypeOK, Card, Worth
  <2>2. Stamps(S)' = Total(b)
    BY DEF Stamps, Worth
  <2>3. QED
    BY <1>1, <2>1, <2>2, CardsAssumption
<1>3. \A i \in 1..Len(b) : b[i] = a[i] + d[i]
  BY <1>1, <1>2
<1> HIDE DEF a, b
<1>4. Total(b) = Total(a) + Total(d)
  <2>1. Len(a) = Len(b) /\ Len(d) = Len(b)
    BY <1>1, <1>2
  <2>2. QED
    BY <1>1, <1>2, <1>3, <2>1, TotalSum
<1>5. QED
  BY <1>1, <1>2, <1>4, TotalInt

\* What a commit does to what others rely on.
LEMMA CommitAround ==
  ASSUME CardsInv, BooksOK, NEW s \in Actors, Commit(s)
  PROVE  /\ TypeOK /\ TypeOK'
         /\ \A c \in Cards : /\ c \notin Held(s) => card'[c] = card[c]
                             /\ c \in Held(s) => card'[c] = mine[s][c]
         /\ ledger' = ledger \o booked[s]
         /\ \A r \in Requests \ {req[s]} : status'[r] = status[r]
         /\ \A t \in Actors \ {s} :
              /\ \A c \in DOMAIN mine[t] : card'[c] = card[c]
              /\ req[t] \in Requests /\ pc[t] \notin Waiting =>
                   req[t] # req[s] /\ status'[req[t]] = status[req[t]]
         /\ \A rs : \A sign \in Signs :
              /\ Booked(rs, sign)' = Booked(rs, sign) + Share(booked[s], rs, sign)
              /\ Booked(rs, sign) \in Int /\ Share(booked[s], rs, sign) \in Int
         /\ \A sign \in Signs : \A r \in Requests \ {req[s]} : Share(booked[s], {r}, sign) = 0
<1>1. TypeOK /\ TypeOK'
  BY CommitStep DEF CardsInv
<1>2. \A c \in Cards : /\ c \notin Held(s) => card'[c] = card[c]
                       /\ c \in Held(s) => card'[c] = mine[s][c]
  BY CommitWrites
<1>3. ledger' = ledger \o booked[s]
  BY DEF Commit
<1>4. \A r \in Requests \ {req[s]} : status'[r] = status[r]
  BY CommitWrites
<1>5. ASSUME NEW t \in Actors \ {s}
      PROVE  /\ \A c \in DOMAIN mine[t] : card'[c] = card[c]
             /\ req[t] \in Requests /\ pc[t] \notin Waiting =>
                  req[t] # req[s] /\ status'[req[t]] = status[req[t]]
  <2>1. /\ Held(s) \cap Held(t) = {}
        /\ req[t] = req[s] /\ req[s] # NoOne => pc[t] \in Waiting
    BY CommitHere DEF Commit
  <2>2. \A c \in DOMAIN mine[t] : c \in Cards
    BY <1>1, Same DEF Held
  <2>3. NoOne \notin Requests
    BY CardsAssumption
  <2>4. QED
    BY <1>2, <1>4, <2>1, <2>2, <2>3 DEF Held
<1>6. ledger \in Seq(Entries) /\ booked[s] \in Seq(Entries)
  BY <1>1 DEF TypeOK
<1>7. ASSUME NEW rs, NEW sign \in Signs
      PROVE  /\ Booked(rs, sign)' = Booked(rs, sign) + Share(booked[s], rs, sign)
             /\ Booked(rs, sign) \in Int /\ Share(booked[s], rs, sign) \in Int
  <2>1. Booked(rs, sign)' = Share(ledger \o booked[s], rs, sign)
    BY <1>3 DEF Booked
  <2>2. QED
    BY <1>6, <2>1, ShareConcat, PartsType DEF Booked
<1>8. ASSUME NEW sign \in Signs, NEW r \in Requests \ {req[s]}
      PROVE  Share(booked[s], {r}, sign) = 0
  <2>1. EntriesOK(pc[s], req[s], booked[s])
    BY DEF BooksOK, Books
  <2>2. \A i \in DOMAIN booked[s] : ~Counts(booked[s][i], {r}, sign)
    BY <1>8, <2>1 DEF EntriesOK, Counts
  <2>3. QED
    BY <1>6, <2>2, ShareNone
<1>9. QED
  BY <1>1, <1>2, <1>3, <1>4, <1>5, <1>7, <1>8

LEMMA CommitBooks ==
  ASSUME CardsInv, BooksOK, NEW s \in Actors, Commit(s)
  PROVE  BooksOK'
<1>1. TypeOK /\ Forget(s)
  BY DEF CardsInv, Commit
<1>2. /\ pc'[s] = "idle" /\ req'[s] = NoOne /\ left'[s] = 0 /\ mine'[s] = NoRow
      /\ booked'[s] = <<>>
      /\ \A t \in Actors \ {s} : /\ pc'[t] = pc[t] /\ req'[t] = req[t] /\ left'[t] = left[t]
                                 /\ prog'[t] = prog[t] /\ mine'[t] = mine[t]
                                 /\ booked'[t] = booked[t]
  BY <1>1 DEF Forget, Goto, TypeOK
<1>3. ASSUME NEW t \in Actors
      PROVE  Books(pc[t], req[t], left[t], prog[t], mine[t], booked[t])'
  <2>1. CASE t = s
    <3>1. DOMAIN booked'[t] = {} /\ DOMAIN mine'[t] = {}
      BY <1>2, <2>1, NothingHeld
    <3>2. req'[t] \notin Givings /\ pc'[t] \notin Undoing
      BY <1>2, <2>1, AtWork DEF Undoing
    <3>3. QED
      BY <1>2, <2>1, <3>1, <3>2 DEF Books, EntriesOK, HeldOK
  <2>2. CASE t # s
    <3>1. /\ Books(pc[t], req[t], left[t], prog[t], mine[t], booked[t])
          /\ Givings \subseteq Requests
      BY AtWork DEF BooksOK
    <3>2. /\ \A c \in DOMAIN mine[t] : card'[c] = card[c]
          /\ req[t] \in Requests /\ pc[t] \notin Waiting =>
               req[t] # req[s] /\ status'[req[t]] = status[req[t]]
      BY <2>2, CommitAround
    <3>3. EntriesOK(pc[t], req[t], booked[t])' /\ HeldOK(pc[t], req[t], mine[t])'
      BY <1>2, <2>2, <3>1, <3>2 DEF Books, EntriesOK, HeldOK, Live
    <3>4. Gain(mine[t])' = Gain(mine[t])
      BY <1>2, <2>2, <3>2 DEF Gain, Change
    <3>5. ASSUME pc[t] \in Undoing
          PROVE  Undo(req[t], left[t], prog[t], mine[t], booked[t])'
      <4>1. Undo(req[t], left[t], prog[t], mine[t], booked[t])
        BY <3>1, <3>5 DEF Books
      <4>2. req[t] \in Requests /\ pc[t] \notin Waiting
        BY <3>5, <4>1 DEF Undo, Requests, Undoing, Waiting
      <4>3. Booked({req[t]}, 1)' = Booked({req[t]}, 1)
        <5>1. 1 \in Signs /\ req[t] \in Requests \ {req[s]} /\ req'[t] = req[t]
          BY <1>2, <2>2, <3>2, <4>2 DEF Signs
        <5>2. \A r \in Requests \ {req[s]} : Booked({r}, 1)' = Booked({r}, 1)
          <6>1. ASSUME NEW r \in Requests \ {req[s]} PROVE Booked({r}, 1)' = Booked({r}, 1)
            <7>1. /\ Booked({r}, 1)' = Booked({r}, 1) + Share(booked[s], {r}, 1)
                  /\ Booked({r}, 1) \in Int
              BY <5>1, CommitAround
            <7>2. Share(booked[s], {r}, 1) = 0
              BY <5>1, <6>1, CommitAround
            <7>3. QED
              BY <7>1, <7>2
          <6>2. QED
            BY <6>1
        <5>3. QED
          BY <5>1, <5>2
      <4>4. QED
        BY <1>2, <2>2, <3>2, <3>4, <4>1, <4>2, <4>3 DEF Undo
    <3>6. ASSUME pc[t] \notin Undoing, req[t] \in Givings
          PROVE  Giving(pc[t], req[t], left[t], mine[t], booked[t])'
      <4>1. Giving(pc[t], req[t], left[t], mine[t], booked[t]) /\ req[t] \in Requests
        BY <3>1, <3>6 DEF Books
      <4>2. QED
        BY <1>2, <2>2, <3>2, <3>4, <4>1 DEF Giving
    <3>7. pc[t] \notin Undoing /\ req[t] \notin Givings => (booked[t] = <<>> /\ left[t] = 0)'
      BY <1>2, <2>2, <3>1 DEF Books
    <3>8. pc'[t] = pc[t] /\ req'[t] = req[t]
      BY <1>2, <2>2
    <3>9. QED
      BY <3>3, <3>5, <3>6, <3>7, <3>8 DEF Books
  <2>3. QED
    BY <2>1, <2>2
<1>4. QED
  BY <1>3 DEF BooksOK

\* What a commit that gives, takes back or does neither adds to the cards and to
\* the ledger.
LEMMA CommitKinds ==
  ASSUME CardsInv, BooksOK, LedgerOK, NEW s \in Actors, Commit(s)
  PROVE  \/ /\ req[s] \in Givings /\ pc[s] = "commit" /\ status[req[s]] = "new"
            /\ \/ Total(Deltas(booked[s])) = Due(req[s], Units[req[s]])
               \/ Total(Deltas(booked[s])) = 0 /\ req[s] \in Purchases
            /\ Gain(mine[s]) = Total(Deltas(booked[s])) /\ Total(Deltas(booked[s])) >= 0
            /\ \A rs : req[s] \in rs =>
                 /\ Share(booked[s], rs, 1) = Total(Deltas(booked[s]))
                 /\ Share(booked[s], rs, -1) = 0
         \/ /\ req[s] \in Purchases /\ pc[s] = "take" /\ status[req[s]] = "committed"
            /\ Total(Deltas(booked[s])) = -Booked({req[s]}, 1)
            /\ Total(Deltas(booked[s])) <= Gain(mine[s]) /\ Gain(mine[s]) <= 0
            /\ \A rs : req[s] \in rs =>
                 /\ Share(booked[s], rs, 1) = 0
                 /\ Share(booked[s], rs, -1) = Total(Deltas(booked[s]))
         \/ /\ req[s] \notin Givings /\ pc[s] = "commit" /\ booked[s] = <<>> /\ Gain(mine[s]) = 0
<1> DEFINE e == booked[s]
           d == Total(Deltas(e))
<1>1. /\ TypeOK /\ Rows(mine[s]) /\ e \in Seq(Entries) /\ left[s] \in Nat /\ Done(s)
      /\ Books(pc[s], req[s], left[s], prog[s], mine[s], e)
      /\ EntriesOK(pc[s], req[s], e) /\ HeldOK(pc[s], req[s], mine[s])
      /\ 1 \in Signs /\ -1 \in Signs
  BY AtWork DEF Books, Commit, Signs
<1>2. /\ d \in Int /\ \A i \in DOMAIN e : e[i].delta \in Int
      /\ \A r : Due(r, 0) = 0
  <2>1. \A i \in DOMAIN e : e[i].delta \in Int
    BY <1>1, DeltasType, LenProperties DEF Entries
  <2>2. QED
    BY <1>1, <2>1, DeltasType, TotalInt, DueType
<1> HIDE DEF e, d
<1>3. CASE pc[s] = "commit" /\ req[s] \in Givings
  <2>1. Giving(pc[s], req[s], left[s], mine[s], e) /\ pc[s] \notin Undoing /\ pc[s] \notin Waiting
    BY <1>1, <1>3 DEF Books, Undoing, Waiting
  <2>2. \A i \in DOMAIN e : e[i].tx = req[s] /\ e[i].delta > 0
    BY <1>1, <2>1 DEF EntriesOK
  <2>3. d >= 0
    BY <1>1, <2>2, DeltasSign DEF d
  <2>4. ASSUME NEW rs, req[s] \in rs
        PROVE  Share(e, rs, 1) = d /\ Share(e, rs, -1) = 0
    <3>1. \A i \in DOMAIN e : Counts(e[i], rs, 1) /\ ~Counts(e[i], rs, -1)
      BY <1>2, <2>2, <2>4 DEF Counts
    <3>2. QED
      BY <1>1, <3>1, ShareAll, ShareNone DEF d
  <2>5. d = Due(req[s], Units[req[s]]) \/ (d = 0 /\ req[s] \in Purchases)
    <3>1. d + Due(req[s], left[s]) = Due(req[s], Units[req[s]])
      BY <2>1 DEF Giving, d
    <3>2. left[s] = 0 \/ (req[s] \in Purchases /\ e = <<>>)
      BY <1>3, <2>1 DEF Giving
    <3>3. CASE left[s] = 0
      BY <1>2, <3>1, <3>3
    <3>4. CASE req[s] \in Purchases /\ e = <<>>
      BY <3>4, DeltasEmpty DEF d
    <3>5. QED
      BY <3>2, <3>3, <3>4
  <2>6. Gain(mine[s]) = d /\ status[req[s]] = "new"
    BY <2>1 DEF Giving, d
  <2>7. QED
    BY <1>3, <2>3, <2>4, <2>5, <2>6 DEF e, d
<1>4. CASE pc[s] = "take"
  <2>1. pc[s] \in Undoing /\ prog[s] = <<>>
    BY <1>1, <1>4 DEF Done, Undoing
  <2>2. Undo(req[s], left[s], prog[s], mine[s], e)
    BY <1>1, <2>1 DEF Books
  <2>3. \A i \in DOMAIN e : e[i].tx = req[s] /\ e[i].delta < 0
    BY <1>1, <2>1 DEF EntriesOK
  <2>4. ASSUME NEW rs, req[s] \in rs
        PROVE  Share(e, rs, 1) = 0 /\ Share(e, rs, -1) = d
    <3>1. \A i \in DOMAIN e : Counts(e[i], rs, -1) /\ ~Counts(e[i], rs, 1)
      BY <1>2, <2>3, <2>4 DEF Counts
    <3>2. QED
      BY <1>1, <3>1, ShareAll, ShareNone DEF d
  <2>5. d = -Booked({req[s]}, 1)
    <3>1. Total(prog[s]) = Booked({req[s]}, 1) + d
      BY <2>2 DEF Undo, d
    <3>2. Total(prog[s]) = 0
      BY <2>1, TotalEmpty
    <3>3. Booked({req[s]}, 1) \in Int
      BY <1>1, PartsType DEF Booked, TypeOK
    <3>4. QED
      BY <1>2, <3>1, <3>2, <3>3
  <2>6. d <= Gain(mine[s]) /\ Gain(mine[s]) <= 0
    <3>1. d + left[s] <= Gain(mine[s]) /\ Gain(mine[s]) <= 0
      BY <2>2 DEF Undo, d
    <3>2. Gain(mine[s]) \in Int
      BY <1>1, ChangeType
    <3>3. QED
      BY <1>1, <1>2, <3>1, <3>2
  <2>7. req[s] \in Purchases /\ status[req[s]] = "committed"
    BY <2>2 DEF Undo
  <2>8. QED
    BY <1>4, <2>4, <2>5, <2>6, <2>7 DEF e, d
<1>5. CASE pc[s] = "commit" /\ req[s] \notin Givings
  <2>1. e = <<>>
    BY <1>1, <1>5 DEF Books, Undoing
  <2>2. Gain(mine[s]) = 0
    BY <1>1, <1>5, GainNothing DEF HeldOK
  <2>3. QED
    BY <1>5, <2>1, <2>2 DEF e
<1>6. pc[s] \in {"commit", "take"}
  BY <1>1 DEF Done
<1>7. QED
  BY <1>3, <1>4, <1>5, <1>6

-----------------------------------------------------------------------------
(* The ledger *)

LEMMA StampsMove ==
  ASSUME CardsInv, BooksOK, NEW s \in Actors, Commit(s)
  PROVE  /\ Stamps(States)' = Stamps(States) + Gain(mine[s])
         /\ Stamps(States) \in Int /\ Gain(mine[s]) \in Int
<1> DEFINE d == Change(mine[s])
<1>1. /\ TypeOK /\ TypeOK' /\ Rows(mine[s])
      /\ \A c \in Cards : /\ c \notin Held(s) => card'[c] = card[c]
                          /\ c \in Held(s) => card'[c] = mine[s][c]
  BY AtWork, CommitAround
<1>2. d \in Seq(Int) /\ Len(d) = MaxCards /\ Gain(mine[s]) \in Int
  BY <1>1, ChangeType
<1>3. ASSUME NEW c \in Cards PROVE Worth(card'[c], States) = Worth(card[c], States) + d[c]
  <2>1. card[c] \in Card /\ card'[c] \in Card
    BY <1>1 DEF TypeOK
  <2>2. Worth(card'[c], States) = card'[c].stamps /\ Worth(card[c], States) = card[c].stamps
    BY <2>1 DEF Worth, Card
  <2>3. card[c].stamps \in Int /\ card'[c].stamps \in Int
    BY <2>1 DEF Card
  <2>4. d[c] = IF c \in Held(s) THEN card'[c].stamps - card[c].stamps ELSE 0
    BY <1>1 DEF Change, Held
  <2>5. c \notin Held(s) => card'[c].stamps = card[c].stamps
    BY <1>1
  <2> HIDE DEF d
  <2>6. QED
    BY <2>2, <2>3, <2>4, <2>5
<1>4. Stamps(States)' = Stamps(States) + Total(d) /\ Stamps(States) \in Int
  <2> HIDE DEF d
  <2>1. QED
    BY <1>1, <1>2, <1>3, StampsChange
<1>5. QED
  BY <1>2, <1>4 DEF Gain

LEMMA CommitLedger ==
  ASSUME CardsInv, BooksOK, LedgerOK, NEW s \in Actors, Commit(s)
  PROVE  LedgerOK'
<1> DEFINE e == booked[s]
           d == Total(Deltas(e))
<1>1. /\ \A c \in Cards : /\ c \notin Held(s) => card'[c] = card[c]
                          /\ c \in Held(s) => card'[c] = mine[s][c]
      /\ \A r \in Requests \ {req[s]} : status'[r] = status[r]
      /\ \A rs : \A sign \in Signs :
              /\ Booked(rs, sign)' = Booked(rs, sign) + Share(e, rs, sign)
              /\ Booked(rs, sign) \in Int /\ Share(e, rs, sign) \in Int
      /\ \A sign \in Signs : \A r \in Requests \ {req[s]} : Share(e, {r}, sign) = 0
      /\ TypeOK
  BY CommitAround
<1>2. /\ 1 \in Signs /\ -1 \in Signs /\ Givings \subseteq Requests /\ NoOne \notin Requests
      /\ HeldOK(pc[s], req[s], mine[s])
      /\ d \in Int
  <2>1. /\ Givings \subseteq Requests /\ HeldOK(pc[s], req[s], mine[s]) /\ e \in Seq(Entries)
    BY AtWork DEF Books
  <2>2. d \in Int
    BY <2>1, DeltasType, TotalInt
  <2>3. QED
    BY <2>1, <2>2, CardsAssumption DEF Signs
<1>3. /\ s = Job => req[s] = NoOne
      /\ s # Job => req[s] \in Requests
  BY CommitHere DEF Commit
<1>4. s # Job => status'[req[s]] = IF pc[s] = "take" THEN "reversed" ELSE "committed"
  BY <1>1, <1>3 DEF Commit, TypeOK
<1>5. \A r \in Requests \ {req[s]} : \A sign \in Signs : Booked({r}, sign)' = Booked({r}, sign)
  <2>1. ASSUME NEW r \in Requests \ {req[s]}, NEW sign \in Signs
        PROVE  Booked({r}, sign)' = Booked({r}, sign)
    <3>1. /\ Booked({r}, sign)' = Booked({r}, sign) + Share(e, {r}, sign)
          /\ Booked({r}, sign) \in Int
      BY <1>1
    <3>2. Share(e, {r}, sign) = 0
      BY <1>1
    <3> HIDE DEF e
    <3>3. QED
      BY <3>1, <3>2
  <2>2. QED
    BY <2>1
<1> DEFINE Gives ==
             /\ req[s] \in Givings /\ pc[s] = "commit" /\ status[req[s]] = "new"
             /\ d = Due(req[s], Units[req[s]]) \/ (d = 0 /\ req[s] \in Purchases)
             /\ Gain(mine[s]) = d /\ d >= 0
             /\ \A rs : req[s] \in rs => Share(e, rs, 1) = d /\ Share(e, rs, -1) = 0
           Undoes ==
             /\ req[s] \in Purchases /\ pc[s] = "take" /\ status[req[s]] = "committed"
             /\ d = -Booked({req[s]}, 1)
             /\ d <= Gain(mine[s]) /\ Gain(mine[s]) <= 0
             /\ \A rs : req[s] \in rs => Share(e, rs, 1) = 0 /\ Share(e, rs, -1) = d
           Keeps == req[s] \notin Givings /\ e = <<>> /\ Gain(mine[s]) = 0
<1>6. Gives \/ Undoes \/ Keeps
  BY CommitKinds
<1> HIDE DEF e, d
<1>7. StampsOnce'
  <2> SUFFICES ASSUME NEW r \in Givings
               PROVE  /\ Booked({r}, 1)' \in {0, Due(r, Units[r])}
                      /\ r \notin Purchases /\ status'[r] # "new" =>
                           Booked({r}, 1)' = Due(r, Units[r])
                      /\ Booked({r}, -1)' = IF status'[r] = "reversed"
                                            THEN -(Booked({r}, 1)') ELSE 0
    BY DEF StampsOnce, Givings, Due
  <2>1. /\ Booked({r}, 1) \in {0, Due(r, Units[r])}
        /\ r \notin Purchases /\ status[r] # "new" => Booked({r}, 1) = Due(r, Units[r])
        /\ Booked({r}, -1) = IF status[r] = "reversed" THEN -Booked({r}, 1) ELSE 0
        /\ status[r] = "new" => Booked({r}, 1) = 0
    BY <1>2 DEF LedgerOK, StampsOnce, Givings
  <2>2. CASE r # req[s]
    <3>1. /\ Booked({r}, 1)' = Booked({r}, 1) /\ Booked({r}, -1)' = Booked({r}, -1)
          /\ status'[r] = status[r]
      BY <1>1, <1>2, <1>5, <2>2
    <3>2. QED
      BY <2>1, <3>1
  <2>3. CASE r = req[s]
    <3>1. s # Job /\ r \in {r}
      BY <1>2, <1>3, <2>3
    <3>2. /\ Booked({r}, 1)' = Booked({r}, 1) + Share(e, {r}, 1)
          /\ Booked({r}, -1)' = Booked({r}, -1) + Share(e, {r}, -1)
          /\ Booked({r}, 1) \in Int
      BY <1>1, <1>2
    <3>3. CASE Gives
      <4>1. Share(e, {r}, 1) = d /\ Share(e, {r}, -1) = 0 /\ status'[r] = "committed"
        BY <1>4, <2>3, <3>1, <3>3
      <4>2. Booked({r}, 1) = 0 /\ Booked({r}, -1) = 0
        BY <2>1, <2>3, <3>3
      <4>3. Booked({r}, 1)' = d /\ Booked({r}, -1)' = 0
        BY <1>2, <3>2, <4>1, <4>2
      <4>4. QED
        BY <2>3, <3>3, <4>1, <4>3
    <3>4. CASE Undoes
      <4>1. Share(e, {r}, 1) = 0 /\ Share(e, {r}, -1) = d /\ status'[r] = "reversed"
        BY <1>4, <2>3, <3>1, <3>4
      <4>2. Booked({r}, -1) = 0 /\ d = -Booked({r}, 1) /\ r \in Purchases
        BY <2>1, <2>3, <3>4
      <4>3. Booked({r}, 1)' = Booked({r}, 1) /\ Booked({r}, -1)' = -Booked({r}, 1)
        BY <1>2, <3>2, <4>1, <4>2
      <4>4. QED
        BY <2>1, <4>1, <4>2, <4>3
    <3>5. ~Keeps
      BY <2>3
    <3>6. QED
      BY <1>6, <3>3, <3>4, <3>5
  <2>4. QED
    BY <2>2, <2>3
<1>8. StampsFollowLedger'
  <2>1. /\ Stamps(States)' = Stamps(States) + Gain(mine[s])
        /\ Stamps(States) \in Int /\ Gain(mine[s]) \in Int
    BY StampsMove
  <2>2. /\ Booked(Requests, 1)' = Booked(Requests, 1) + Share(e, Requests, 1)
        /\ Booked(Requests, -1)' = Booked(Requests, -1) + Share(e, Requests, -1)
        /\ Booked(Requests, 1) \in Int /\ Booked(Requests, -1) \in Int
    BY <1>1, <1>2
  <2>3. /\ Stamps(States) <= Booked(Requests, 1)
        /\ Stamps(States) >= Booked(Requests, 1) + Booked(Requests, -1)
    BY DEF LedgerOK, StampsFollowLedger
  <2>4. CASE Gives
    <3>1. Share(e, Requests, 1) = d /\ Share(e, Requests, -1) = 0 /\ Gain(mine[s]) = d
      BY <1>2, <2>4
    <3>2. QED
      BY <1>2, <2>1, <2>2, <2>3, <3>1 DEF StampsFollowLedger
  <2>5. CASE Undoes
    <3>1. /\ Share(e, Requests, 1) = 0 /\ Share(e, Requests, -1) = d
          /\ d <= Gain(mine[s]) /\ Gain(mine[s]) <= 0
      BY <1>2, <2>5 DEF Givings
    <3>2. QED
      BY <1>2, <2>1, <2>2, <2>3, <3>1 DEF StampsFollowLedger
  <2>6. CASE Keeps
    <3>1. Share(e, Requests, 1) = 0 /\ Share(e, Requests, -1) = 0
      <4>1. e \in Seq(Entries) /\ DOMAIN e = {}
        BY <2>6
      <4>2. QED
        BY <1>2, <4>1, ShareNone
    <3>2. QED
      BY <2>1, <2>2, <2>3, <2>6, <3>1 DEF StampsFollowLedger
  <2>7. QED
    BY <1>6, <2>4, <2>5, <2>6
<1>9. \A c \in Cards : card'[c].status = "none" => card'[c].stamps = 0
  <2>1. \A c \in Held(s) : mine[s][c].status # "none"
    BY <1>2 DEF HeldOK, Held
  <2>2. QED
    BY <1>1, <2>1 DEF LedgerOK
<1>10. \A r \in Requests : status'[r] = "new" => Booked({r}, 1)' = 0
  <2>1. ASSUME NEW r \in Requests, status'[r] = "new" PROVE Booked({r}, 1)' = 0
    <3>1. r # req[s]
      BY <1>2, <1>3, <1>4, <2>1
    <3>2. QED
      BY <1>1, <1>2, <1>5, <2>1, <3>1 DEF LedgerOK
  <2>2. QED
    BY <2>1
<1>11. QED
  BY <1>7, <1>8, <1>9, <1>10 DEF LedgerOK

-----------------------------------------------------------------------------
(* The ledger and the cards of every reachable state *)

StampsInv == CardsInv /\ BooksOK /\ LedgerOK

\* Only a commit writes what others see.
LEMMA OnlyCommits ==
  ASSUME [Next]_vars
  PROVE  (\E s \in Actors : Commit(s)) \/ UNCHANGED <<card, status, ledger>>
<1>1. ASSUME NEW s \in Sessions, Begin(s) \/ Advance(s) \/ Abort(s), ~Commit(s)
      PROVE  UNCHANGED <<card, status, ledger>>
  <2>1. CASE Begin(s)
    BY <2>1 DEF Begin, BeginGiving, BeginRedeem, BeginRefund, db
  <2>2. CASE Abort(s)
    BY <2>2 DEF Abort, RollBack, db
  <2>3. CASE Advance(s)
    BY <1>1, <2>3 DEF Advance, Record, RecordFails, CoolDown, FindCard, StampCard, OpenCard, OpenFails,
                  GiveFree, Give, PickCard, Refuse, NotAvailable, NextEntry, LockCards, TakeBack,
                  ReopenFails, RollBack, db
  <2>4. QED
    BY <1>1, <2>1, <2>2, <2>3
<1>2. CASE BeginExpire \/ ExpireCard \/ Abort(Job) \/ Tick \/ UNCHANGED vars
  BY <1>2 DEF BeginExpire, ExpireCard, Abort, RollBack, Tick, vars, db
<1>3. QED
  BY <1>1, <1>2 DEF Next, Actors

LEMMA LedgerInit ==
  ASSUME Init
  PROVE  StampsInv
<1>1. CardsInv /\ TypeOK
  BY InitHolds DEF CardsInv
<1>2. BooksOK
  <2>1. ASSUME NEW s \in Actors PROVE Books(pc[s], req[s], left[s], prog[s], mine[s], booked[s])
    <3>1. pc[s] = "idle" /\ req[s] = NoOne /\ left[s] = 0 /\ mine[s] = NoRow /\ booked[s] = <<>>
      BY DEF Init
    <3>2. "idle" \notin Undoing /\ NoOne \notin Givings /\ DOMAIN NoRow = {}
      BY NothingHeld, CardsAssumption DEF Undoing, Givings, Requests
    <3>3. QED
      BY <1>1, <3>1, <3>2, BooksIdle
  <2>2. QED
    BY <2>1 DEF BooksOK
<1>3. \A rs : \A sign \in Signs : Booked(rs, sign) = 0
  <2>1. ledger = <<>> /\ ledger \in Seq(Entries) /\ DOMAIN ledger = {}
    BY <1>1 DEF Init, TypeOK
  <2>2. QED
    BY <2>1, ShareNone DEF Booked
<1>4. 1 \in Signs /\ -1 \in Signs
  BY DEF Signs
<1>5. \A c \in Cards : card[c].status = "none" /\ card[c].stamps = 0
  BY DEF Init, NoCard
<1>6. \A r \in Requests : status[r] = "new"
  BY DEF Init
<1>7. StampsOnce
  BY <1>3, <1>4, <1>6 DEF StampsOnce, Requests
<1>8. Stamps(States) = 0
  <2> DEFINE a == [c \in Cards |-> Worth(card[c], States)]
  <2>1. a \in Seq(Int) /\ Len(a) = MaxCards /\ Stamps(States) = Total(a) /\ Cards = 1..MaxCards
    BY <1>1, WorthType
  <2>2. \A i \in 1..Len(a) : a[i] = 0
    BY <1>5, <2>1 DEF Worth
  <2> HIDE DEF a
  <2>3. QED
    BY <2>1, <2>2, TotalZeros
<1>9. StampsFollowLedger
  BY <1>3, <1>4, <1>8 DEF StampsFollowLedger
<1>10. QED
  BY <1>1, <1>2, <1>3, <1>4, <1>5, <1>7, <1>9 DEF StampsInv, LedgerOK

LEMMA SessionBooks ==
  ASSUME StampsInv, NEW s \in Sessions, Begin(s) \/ Advance(s) \/ Abort(s)
  PROVE  BooksOK'
<1>1. s \in Actors /\ CardsInv /\ BooksOK /\ LedgerOK
  BY DEF Actors, StampsInv
<1>2. CASE Begin(s)
  <2>1. ASSUME NEW r \in Givings, BeginGiving(s, r) PROVE BooksOK'
    BY <1>1, <2>1, BeginGivingBooks
  <2>2. ASSUME NEW r \in Redeems, BeginRedeem(s, r, Cards) PROVE BooksOK'
    BY <1>1, <2>2, BeginRedeemBooks
  <2>3. ASSUME NEW r \in Redeems, NEW c \in Cards, BeginRedeem(s, r, {c}) PROVE BooksOK'
    BY <1>1, <2>3, BeginRedeemBooks
  <2>4. ASSUME NEW r \in Purchases, BeginRefund(s, r) PROVE BooksOK'
    BY <1>1, <2>4, BeginRefundBooks
  <2>5. QED
    BY <1>2, <2>1, <2>2, <2>3, <2>4 DEF Begin, Givings
<1>3. CASE Advance(s)
  <2>1. CASE Record(s)
    BY <1>1, <2>1, RecordBooks
  <2>2. CASE CoolDown(s)
    BY <1>1, <2>2, CoolDownBooks
  <2>3. CASE FindCard(s)
    BY <1>1, <2>3, FindCardBooks
  <2>4. CASE StampCard(s)
    BY <1>1, <2>4, StampCardBooks
  <2>5. CASE OpenCard(s)
    BY <1>1, <2>5, OpenCardBooks
  <2>6. CASE GiveFree(s)
    BY <1>1, <2>6, GiveFreeBooks
  <2>7. CASE PickCard(s)
    BY <1>1, <2>7, PickCardBooks
  <2>8. CASE NextEntry(s)
    BY <1>1, <2>8, NextEntryBooks
  <2>9. CASE LockCards(s)
    BY <1>1, <2>9, LockCardsBooks
  <2>10. CASE TakeBack(s)
    BY <1>1, <2>10, TakeBackBooks
  <2>11. CASE RecordFails(s) \/ OpenFails(s) \/ Refuse(s) \/ NotAvailable(s) \/ ReopenFails(s)
    BY <1>1, <2>11, RollBackBooks DEF RecordFails, OpenFails, Refuse, NotAvailable, ReopenFails
  <2>12. CASE Commit(s)
    BY <1>1, <2>12, CommitBooks
  <2>13. QED
    BY <1>3, <2>1, <2>2, <2>3, <2>4, <2>5, <2>6, <2>7, <2>8, <2>9, <2>10, <2>11, <2>12 DEF Advance
<1>4. CASE Abort(s)
  BY <1>1, <1>4, RollBackBooks DEF Abort
<1>5. QED
  BY <1>2, <1>3, <1>4

LEMMA BooksStay ==
  ASSUME BooksOK, UNCHANGED <<card, status, ledger, pc, req, left, prog, mine, booked>>
  PROVE  BooksOK'
<1>1. ASSUME NEW s \in Actors
      PROVE  Books(pc[s], req[s], left[s], prog[s], mine[s], booked[s])'
  <2>1. Books(pc[s], req[s], left[s], prog[s], mine[s], booked[s])
    BY DEF BooksOK
  <2>2. /\ pc'[s] = pc[s] /\ req'[s] = req[s] /\ left'[s] = left[s] /\ prog'[s] = prog[s]
        /\ mine'[s] = mine[s] /\ booked'[s] = booked[s]
    OBVIOUS
  <2>3. Gain(mine[s])' = Gain(mine[s]) /\ \A r : Booked({r}, 1)' = Booked({r}, 1)
    BY <2>2 DEF Gain, Change, Booked
  <2>4. EntriesOK(pc[s], req[s], booked[s])' /\ HeldOK(pc[s], req[s], mine[s])'
    BY <2>1, <2>2 DEF Books, EntriesOK, HeldOK, Live
  <2>5. pc[s] \in Undoing => Undo(req[s], left[s], prog[s], mine[s], booked[s])'
    BY <2>1, <2>2, <2>3 DEF Books, Undo
  <2>6. pc[s] \notin Undoing /\ req[s] \in Givings
          => Giving(pc[s], req[s], left[s], mine[s], booked[s])'
    BY <2>1, <2>2, <2>3 DEF Books, Giving
  <2>7. pc[s] \notin Undoing /\ req[s] \notin Givings => (booked[s] = <<>> /\ left[s] = 0)'
    BY <2>1, <2>2 DEF Books
  <2>8. QED
    BY <2>2, <2>4, <2>5, <2>6, <2>7 DEF Books
<1>2. QED
  BY <1>1 DEF BooksOK

LEMMA LedgerStays ==
  ASSUME LedgerOK, UNCHANGED <<card, status, ledger>>
  PROVE  LedgerOK'
BY DEF LedgerOK, StampsOnce, StampsFollowLedger, Stamps, Booked

LEMMA StampsKeep ==
  ASSUME StampsInv, [Next]_vars
  PROVE  StampsInv'
<1>1. CardsInv /\ BooksOK /\ LedgerOK /\ Job \in Actors
  BY DEF StampsInv, Actors
<1>2. CardsInv'
  BY <1>1, NextKeeps
<1>3. BooksOK'
  <2>1. ASSUME NEW s \in Sessions, Begin(s) \/ Advance(s) \/ Abort(s) PROVE BooksOK'
    BY <2>1, SessionBooks
  <2>2. CASE BeginExpire
    BY <1>1, <2>2, BeginExpireBooks
  <2>3. CASE ExpireCard
    BY <1>1, <2>3, ExpireCardBooks
  <2>4. CASE Commit(Job)
    BY <1>1, <2>4, CommitBooks
  <2>5. CASE Abort(Job)
    BY <1>1, <2>5, RollBackBooks DEF Abort
  <2>6. CASE Tick \/ UNCHANGED vars
    <3>1. UNCHANGED <<card, status, ledger, pc, req, left, prog, mine, booked>>
      BY <2>6 DEF Tick, vars, db, private
    <3>2. QED
      BY <1>1, <3>1, BooksStay
  <2>7. QED
    BY <2>1, <2>2, <2>3, <2>4, <2>5, <2>6 DEF Next
<1>4. LedgerOK'
  BY <1>1, OnlyCommits, CommitLedger, LedgerStays
<1>5. QED
  BY <1>2, <1>3, <1>4 DEF StampsInv

\* Every reachable state has its rows fit to be committed, and its transactions
\* have booked what they did to the cards, or at least that much when they undo.
THEOREM StampsInvariant == Spec => []StampsInv
<1>1. Init => StampsInv
  BY LedgerInit
<1>2. StampsInv /\ [Next]_vars => StampsInv'
  BY StampsKeep
<1>3. QED
  BY <1>1, <1>2, PTL DEF Spec

\* A purchase or a grant books its stamps once, and its refund takes all of them
\* back once, whoever retries what and in whichever order they commit.
THEOREM StampsBookedOnce == Spec => []StampsOnce
<1>1. StampsInv => StampsOnce
  BY DEF StampsInv, LedgerOK
<1>2. QED
  BY <1>1, StampsInvariant, PTL

\* The cards hold no stamp that the ledger has not given, and refunds have taken
\* from them no more than the ledger says.
THEOREM StampsAccounted == Spec => []StampsFollowLedger
<1>1. StampsInv => StampsFollowLedger
  BY DEF StampsInv, LedgerOK
<1>2. QED
  BY <1>1, StampsInvariant, PTL

-----------------------------------------------------------------------------
(* The book of stamps *)

Unspent == {"open", "complete"}
Drunk == {c \in Cards : card[c].status = "redeemed"}

LEMMA StampsNatural ==
  ASSUME TypeOK, NEW S
  PROVE  Stamps(S) \in Nat
<1> DEFINE a == [c \in Cards |-> Worth(card[c], S)]
           z == [c \in 1..MaxCards |-> 0]
<1>1. a \in Seq(Int) /\ Len(a) = MaxCards /\ Stamps(S) = Total(a) /\ Cards = 1..MaxCards
      /\ MaxCards \in Nat
  BY WorthType
<1>2. \A i \in 1..MaxCards : a[i] >= 0
  BY <1>1 DEF TypeOK, Card, Worth
<1>3. z \in Seq(Int) /\ Len(z) = MaxCards /\ \A i \in 1..MaxCards : z[i] = 0
  BY <1>1
<1> HIDE DEF a, z
<1>4. Total(z) = 0
  BY <1>3, TotalZeros
<1>5. \A i \in 1..Len(z) : z[i] <= a[i]
  BY <1>2, <1>3
<1>6. Total(z) <= Total(a)
  BY <1>1, <1>3, <1>5, TotalMonotone
<1>7. QED
  BY <1>1, <1>4, <1>6, TotalInt

LEMMA StampsStayNatural == (TypeOK => Stamps(Unspent) \in Nat)'
<1>1. TypeOK => Stamps(Unspent) \in Nat
  BY StampsNatural
<1>2. QED
  BY <1>1, PTL

\* Cards that lose stamps lose them in all.
LEMMA StampsFall ==
  ASSUME TypeOK, TypeOK', NEW S, \A c \in Cards : Worth(card'[c], S) <= Worth(card[c], S)
  PROVE  Stamps(S)' <= Stamps(S)
<1> DEFINE a == [c \in Cards |-> Worth(card[c], S)]
           b == [c \in Cards |-> Worth(card'[c], S)]
<1>1. a \in Seq(Int) /\ Len(a) = MaxCards /\ Stamps(S) = Total(a) /\ Cards = 1..MaxCards
  BY WorthType
<1>2. b \in Seq(Int) /\ Len(b) = MaxCards /\ Stamps(S)' = Total(b)
  <2>1. \A c \in Cards : Worth(card'[c], S) \in Int
    BY DEF TypeOK, Card, Worth
  <2>2. Stamps(S)' = Total(b)
    BY DEF Stamps, Worth
  <2>3. QED
    BY <1>1, <2>1, <2>2, CardsAssumption
<1>3. \A i \in 1..Len(b) : b[i] <= a[i]
  BY <1>1, <1>2
<1> HIDE DEF a, b
<1>4. QED
  BY <1>1, <1>2, <1>3, TotalMonotone

LEMMA DrunkSame ==
  ASSUME \A c \in Cards : card'[c].status = "redeemed" <=> card[c].status = "redeemed"
  PROVE  Drunk' = Drunk
BY DEF Drunk

\* A commit of rows that are live and were live or blank moves what they gain.
LEMMA LiveGain ==
  ASSUME StampsInv, NEW s \in Actors, Commit(s),
         \A c \in Held(s) : Live(mine[s][c]) /\ card[c].status \in {"none", "open", "complete"}
  PROVE  /\ Stamps(Unspent)' = Stamps(Unspent) + Gain(mine[s])
         /\ Drunk' = Drunk
<1> DEFINE d == Change(mine[s])
<1>1. /\ TypeOK /\ TypeOK' /\ Rows(mine[s]) /\ CardsInv /\ BooksOK /\ LedgerOK
      /\ \A c \in Cards : /\ c \notin Held(s) => card'[c] = card[c]
                          /\ c \in Held(s) => card'[c] = mine[s][c]
  BY AtWork, CommitAround DEF StampsInv
<1>2. d \in Seq(Int) /\ Len(d) = MaxCards
  BY <1>1, ChangeType
<1>3. ASSUME NEW c \in Cards PROVE Worth(card'[c], Unspent) = Worth(card[c], Unspent) + d[c]
  <2>1. card[c].stamps \in Int /\ card'[c].stamps \in Int
    <3>1. card[c] \in Card /\ card'[c] \in Card
      BY <1>1 DEF TypeOK
    <3>2. QED
      BY <3>1 DEF Card
  <2>2. d[c] = IF c \in Held(s) THEN card'[c].stamps - card[c].stamps ELSE 0
    BY <1>1 DEF Change, Held
  <2>3. CASE c \in Held(s)
    <3>1. card[c].status = "none" => card[c].stamps = 0
      BY <1>1 DEF LedgerOK
    <3>2. Worth(card'[c], Unspent) = card'[c].stamps
      BY <1>1, <2>3 DEF Worth, Unspent, Live
    <3>3. Worth(card[c], Unspent) = card[c].stamps
      BY <2>3, <3>1 DEF Worth, Unspent
    <3> HIDE DEF d
    <3>4. QED
      BY <2>1, <2>2, <2>3, <3>2, <3>3
  <2>4. CASE c \notin Held(s)
    <3>1. card'[c] = card[c] /\ d[c] = 0
      BY <1>1, <2>2, <2>4
    <3>2. Worth(card[c], Unspent) \in Int
      BY <2>1 DEF Worth
    <3> HIDE DEF d
    <3>3. QED
      BY <3>1, <3>2
  <2>5. QED
    BY <2>3, <2>4
<1>4. Stamps(Unspent)' = Stamps(Unspent) + Total(d)
  <2> HIDE DEF d
  <2>1. QED
    BY <1>1, <1>2, <1>3, StampsChange
<1>5. Drunk' = Drunk
  <2>1. \A c \in Cards : card'[c].status = "redeemed" <=> card[c].status = "redeemed"
    BY <1>1 DEF Live
  <2>2. QED
    BY <2>1, DrunkSame
<1>6. QED
  BY <1>4, <1>5 DEF Gain

\* The job's commit closes cards that were live.
LEMMA JobCommits ==
  ASSUME StampsInv, NEW s \in Actors, Commit(s), req[s] = NoOne
  PROVE  Stamps(Unspent)' <= Stamps(Unspent) /\ Drunk' = Drunk
<1>1. /\ TypeOK /\ TypeOK' /\ HeldOK(pc[s], req[s], mine[s])
      /\ \A c \in Cards : /\ c \notin Held(s) => card'[c] = card[c]
                          /\ c \in Held(s) => card'[c] = mine[s][c]
  BY AtWork, CommitAround DEF StampsInv, Books
<1>2. \A c \in Cards : \/ card'[c] = card[c]
                       \/ card'[c].status = "expired" /\ Live(card[c])
  BY <1>1 DEF HeldOK, Held
<1>3. \A c \in Cards : Worth(card'[c], Unspent) <= Worth(card[c], Unspent)
  <2>1. \A c \in Cards : card[c].stamps \in Nat
    BY <1>1 DEF TypeOK, Card
  <2>2. QED
    BY <1>2, <2>1 DEF Worth, Unspent
<1>4. \A c \in Cards : card'[c].status = "redeemed" <=> card[c].status = "redeemed"
  BY <1>2 DEF Live
<1>5. QED
  BY <1>1, <1>3, <1>4, StampsFall, DrunkSame

\* The commit of a coffee closes one full card.
LEMMA CoffeeCommits ==
  ASSUME StampsInv, NEW s \in Actors, Commit(s), req[s] \in Redeems
  PROVE  /\ Stamps(Unspent)' = Stamps(Unspent) - Required
         /\ Cardinality(Drunk') = Cardinality(Drunk) + 1
<1>1. /\ TypeOK /\ TypeOK' /\ HeldOK(pc[s], req[s], mine[s]) /\ CardsInv
      /\ \A c \in Cards : /\ c \notin Held(s) => card'[c] = card[c]
                          /\ c \in Held(s) => card'[c] = mine[s][c]
  BY AtWork, CommitAround DEF StampsInv, Books
<1>2. Coffee(req[s], mine[s])
  BY <1>1, CommitHere DEF Commit
<1>3. PICK c \in Held(s) : Held(s) = {c} /\ mine[s][c].status = "redeemed"
  BY <1>2 DEF Coffee, Held
<1>4. c \in Cards
  BY <1>1, <1>3, Same DEF Held
<1>5. card[c].status = "complete" /\ card[c].stamps = Required /\ card'[c].status = "redeemed"
  <2>1. card[c].status = "complete"
    BY <1>1, <1>3 DEF HeldOK, Held
  <2>2. Fine(card[c])
    BY <1>1, <1>4 DEF CardsInv
  <2>3. QED
    BY <1>1, <1>3, <1>4, <2>1, <2>2 DEF Fine
<1>6. \A b \in Cards \ {c} : card'[b] = card[b]
  BY <1>1, <1>3
<1>7. Stamps(Unspent)' = Stamps(Unspent) - Required
  <2> DEFINE d == [i \in Cards |-> IF i = c THEN -Required ELSE 0]
             z == [i \in Cards |-> 0]
  <2>1. Cards = 1..MaxCards /\ MaxCards \in Nat /\ Required \in Nat
    BY CardsAssumption DEF Cards
  <2>2. d \in Seq(Int) /\ Len(d) = MaxCards /\ d[c] = -Required
    BY <1>4, <2>1
  <2>3. z \in Seq(Int) /\ Len(z) = MaxCards /\ z[c] = 0 /\ \A i \in 1..Len(z) : z[i] = 0
    BY <1>4, <2>1
  <2>4. \A i \in Cards : i # c => d[i] = 0 /\ z[i] = 0
    OBVIOUS
  <2>5. \A i \in Cards : Worth(card'[i], Unspent) = Worth(card[i], Unspent) + d[i]
    <3>1. Worth(card'[c], Unspent) = 0 /\ Worth(card[c], Unspent) = Required
      BY <1>5 DEF Worth, Unspent
    <3>2. \A i \in Cards \ {c} : /\ Worth(card'[i], Unspent) = Worth(card[i], Unspent)
                                 /\ Worth(card[i], Unspent) \in Int
      BY <1>1, <1>6 DEF Worth, TypeOK, Card
    <3> HIDE DEF d
    <3>3. QED
      BY <1>4, <2>1, <2>2, <2>4, <3>1, <3>2
  <2> HIDE DEF d, z
  <2>6. Total(z) = 0
    BY <2>3, TotalZeros
  <2>7. Total(d) = Total(z) + (d[c] - z[c])
    <3>1. c \in 1..Len(z) /\ Len(d) = Len(z) /\ \A i \in 1..Len(z) : i # c => d[i] = z[i]
      BY <1>4, <2>1, <2>2, <2>3, <2>4
    <3>2. QED
      BY <2>2, <2>3, <3>1, TotalChange
  <2>8. Stamps(Unspent)' = Stamps(Unspent) + Total(d) /\ Stamps(Unspent) \in Int
    BY <1>1, <2>2, <2>5, StampsChange
  <2>9. QED
    BY <2>1, <2>2, <2>3, <2>6, <2>7, <2>8
<1>8. Cardinality(Drunk') = Cardinality(Drunk) + 1
  <2>1. Drunk' = Drunk \cup {c} /\ c \notin Drunk
    BY <1>4, <1>5, <1>6 DEF Drunk
  <2>2. Drunk \in SUBSET Cards
    BY DEF Drunk
  <2>3. IsFiniteSet(Drunk)
    BY <2>2, CardsFinite
  <2>4. QED
    BY <2>1, <2>3, FS_AddElement
<1>9. QED
  BY <1>7, <1>8

\* Cards implement the book: a commit of a purchase or a grant adds stamps, of a
\* refund or of the job takes some away, of a redemption takes a full card's for
\* one coffee; nothing else, and no step before the commit, changes either.
THEOREM ImplementsBook == Spec => BookSpec
<1> DEFINE n == Stamps({"open", "complete"})
           k == Cardinality({c \in Cards : card[c].status = "redeemed"})
<1>1. n = Stamps(Unspent) /\ k = Cardinality(Drunk)
  BY DEF Unspent, Drunk
<1>2. Init => Book!Init
  <2> SUFFICES ASSUME Init PROVE n = 0 /\ k = 0
    BY DEF Book!Init
  <2>1. TypeOK
    BY InitHolds DEF CardsInv
  <2>2. \A c \in Cards : card[c].status = "none"
    BY DEF Init, NoCard
  <2>3. k = 0
    BY <2>2, FS_EmptySet
  <2>4. n = 0
    <3> DEFINE a == [c \in Cards |-> Worth(card[c], Unspent)]
    <3>1. a \in Seq(Int) /\ Len(a) = MaxCards /\ Stamps(Unspent) = Total(a) /\ Cards = 1..MaxCards
      BY <2>1, WorthType
    <3>2. \A i \in 1..Len(a) : a[i] = 0
      BY <2>2, <3>1 DEF Worth, Unspent
    <3> HIDE DEF a
    <3>3. QED
      BY <1>1, <3>1, <3>2, TotalZeros
  <2>5. QED
    BY <2>3, <2>4
<1>3. ASSUME StampsInv, NEW s \in Actors, Commit(s)
      PROVE  Book!Next \/ UNCHANGED <<n, k>>
  <2>1. /\ CardsInv /\ BooksOK /\ LedgerOK /\ TypeOK /\ TypeOK'
        /\ Rows(mine[s]) /\ HeldOK(pc[s], req[s], mine[s])
    BY <1>3, AtWork, CommitAround DEF StampsInv, Books
  <2>2. n \in Nat /\ n' \in Nat /\ Gain(mine[s]) \in Int
    <3>1. \A S : Stamps(S) \in Nat
      BY <2>1, StampsNatural
    <3>2. Stamps(Unspent)' \in Nat
      BY <2>1, StampsStayNatural
    <3>3. QED
      BY <1>1, <2>1, <3>1, <3>2, ChangeType DEF Unspent
  <2>3. /\ n' = Stamps(Unspent)' /\ k' = Cardinality(Drunk')
    BY DEF Unspent, Drunk
  <2>4. CASE req[s] \in Givings
    <3>1. \A c \in Held(s) : Live(mine[s][c]) /\ card[c].status \in {"none", "open", "complete"}
      BY <2>1, <2>4 DEF HeldOK, Held, Live
    <3>2. n' = n + Gain(mine[s]) /\ k' = k
      BY <1>1, <1>3, <2>3, <3>1, LiveGain
    <3>3. Gain(mine[s]) <= 0 \/ Gain(mine[s]) > 0
      BY <2>2
    <3> HIDE DEF n, k
    <3>4. CASE Gain(mine[s]) > 0
      <4>1. n' > n
        BY <2>2, <3>2, <3>4
      <4>2. QED
        BY <3>2, <4>1 DEF Book!Next, Book!Stamp, n, k
    <3>5. CASE Gain(mine[s]) <= 0
      <4>1. n' \in 0..n
        BY <2>2, <3>2, <3>5
      <4>2. QED
        BY <3>2, <4>1 DEF Book!Next, Book!TakeBack, n, k
    <3>6. QED
      BY <3>3, <3>4, <3>5
  <2>5. CASE req[s] = NoOne
    <3>1. n' <= n /\ k' = k
      BY <1>1, <1>3, <2>3, <2>5, JobCommits
    <3> HIDE DEF n, k
    <3>2. n' \in 0..n
      BY <2>2, <3>1
    <3>3. QED
      BY <3>1, <3>2 DEF Book!Next, Book!TakeBack, n, k
  <2>6. CASE req[s] \in Redeems
    <3>1. n' = n - Required /\ k' = k + 1
      BY <1>1, <1>3, <2>3, <2>6, CoffeeCommits
    <3> HIDE DEF n, k
    <3>2. n >= Required
      BY <2>2, <3>1, CardsAssumption
    <3>3. QED
      BY <3>1, <3>2 DEF Book!Next, Book!Redeem, n, k
  <2>7. req[s] \in Requests \cup {NoOne}
    BY <2>1, Same
  <2>8. QED
    BY <2>4, <2>5, <2>6, <2>7 DEF Requests, Givings
<1>4. StampsInv /\ [Next]_vars => [Book!Next]_<<n, k>>
  <2>1. UNCHANGED card => UNCHANGED <<n, k>>
    BY DEF Stamps
  <2> HIDE DEF n, k
  <2>2. QED
    BY <1>3, <2>1, OnlyCommits
<1>5. QED
  BY <1>2, <1>4, StampsInvariant, PTL DEF Spec, BookSpec, Book!Spec
=============================================================================
