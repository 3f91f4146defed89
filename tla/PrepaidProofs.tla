---------------------------- MODULE PrepaidProofs ----------------------------
(***************************************************************************)
(* The safety of prepaid packages for every number of workers, requests    *)
(* and packages.  Statements change only what their own transaction holds; *)
(* the two kinds of commits change the tables.                             *)
(***************************************************************************)
EXTENDS Prepaid, SumsProofs, FiniteSetTheorems

TypesOK == TypeOK /\ JobOK /\ (\A s \in Sessions : SessionOK(s))
TablesOK == BooksOK /\ QtyIsLedgerSum /\ UnitsPaidFor /\ EffectOnce

LEMMA InvParts == PrepaidInv <=> TypesOK /\ LocksOK /\ TablesOK
BY DEF PrepaidInv, TypesOK, TablesOK

LEMMA JobIsNoSession ==
  Job \notin Sessions /\ \A s \in Sessions : s # Job /\ s \in Actors
BY PrepaidAssumption DEF Actors

\* What the work of one actor leaves alone.
Alone(s) ==
  \A t \in Actors \ {s} :
    pc'[t] = pc[t] /\ req'[t] = req[t] /\ mine'[t] = mine[t] /\ cands'[t] = cands[t]

\* A statement of s: it keeps the tables, locks free rows and transactions only.
Statement(s) ==
  /\ UNCHANGED db /\ Alone(s)
  /\ TypeOK'
  /\ s = Job => JobOK'
  /\ s # Job => SessionOK(s)'
  /\ \A p \in DOMAIN mine'[s] : p \in DOMAIN mine[s] \/ RowFree(s, p)
  /\ s # Job /\ pc'[s] \in {"restore", "commit"} => TxFree(s, req'[s])

LEMMA OthersSession ==
  ASSUME UNCHANGED db, NEW s \in Actors, Alone(s), NEW t \in Sessions, t # s, SessionOK(t)
  PROVE  SessionOK(t)'
<1>1. pc'[t] = pc[t] /\ req'[t] = req[t] /\ mine'[t] = mine[t]
  BY DEF Alone, Actors
<1>2. pkg' = pkg /\ status' = status /\ package' = package
  BY DEF db
<1>3. QED
  BY <1>1, <1>2 DEF SessionOK, RecordedAs, RefundedAs

LEMMA OthersJob ==
  ASSUME UNCHANGED db, NEW s \in Sessions, Alone(s), JobOK
  PROVE  JobOK'
<1>1. pc'[Job] = pc[Job] /\ req'[Job] = req[Job] /\ mine'[Job] = mine[Job] /\ cands'[Job] = cands[Job]
  BY JobIsNoSession DEF Alone, Actors
<1>2. pkg' = pkg
  BY DEF db
<1>3. QED
  BY <1>1, <1>2 DEF JobOK

LEMMA StatementLocks ==
  ASSUME NEW s \in Actors, Statement(s), TypesOK, LocksOK
  PROVE  LocksOK'
<1>1. SUFFICES ASSUME NEW a \in Actors, NEW b \in Actors, a # b
               PROVE  /\ DOMAIN mine'[a] \cap DOMAIN mine'[b] = {}
                      /\ a # Job /\ pc'[a] \in {"restore", "commit"} => TxFree(a, req[a])'
  BY DEF LocksOK
<1>2. \A t \in Actors \ {s} : pc'[t] = pc[t] /\ req'[t] = req[t] /\ mine'[t] = mine[t]
  BY DEF Statement, Alone
<1>3. DOMAIN mine[a] \cap DOMAIN mine[b] = {}
  BY <1>1 DEF LocksOK
<1>4. DOMAIN mine'[a] \cap DOMAIN mine'[b] = {}
  <2>1. CASE a = s
    BY <1>1, <1>2, <1>3, <2>1 DEF Statement, RowFree
  <2>2. CASE b = s
    BY <1>1, <1>2, <1>3, <2>2 DEF Statement, RowFree
  <2>3. QED
    BY <1>2, <1>3, <2>1, <2>2
<1>5. ASSUME a # Job, pc'[a] \in {"restore", "commit"}, NEW t \in Actors \ {a},
             req'[t] = req'[a]
      PROVE  pc'[t] \notin {"restore", "commit"}
  <2>1. CASE a = s
    BY <1>2, <1>5, <2>1 DEF Statement, TxFree
  <2>2. CASE t = s
    <3>1. pc[a] = pc'[a] /\ req[a] = req'[a] /\ a # s
      BY <1>2, <1>5, <2>2
    <3>2. s # Job
      <4>1. a \in Sessions
        BY <1>5 DEF Actors
      <4>2. req[a] \in Requests
        BY <1>5, <3>1, <4>1 DEF TypesOK, SessionOK
      <4>3. s = Job => req'[s] = NoOne
        BY DEF Statement, JobOK
      <4>4. QED
        BY <1>5, <2>2, <3>1, <4>2, <4>3, PrepaidAssumption
    <3>3. TxFree(a, req[a])
      BY <1>1, <1>5, <3>1 DEF LocksOK
    <3>4. QED
      BY <1>5, <2>2, <3>1, <3>2 DEF Statement, TxFree
  <2>3. CASE a # s /\ t # s
    BY <1>1, <1>2, <1>5, <2>3 DEF LocksOK, TxFree
  <2>4. QED
    BY <2>1, <2>2, <2>3
<1>6. QED
  BY <1>1, <1>4, <1>5 DEF TxFree

LEMMA StatementTypes ==
  ASSUME NEW s \in Actors, Statement(s), TypesOK
  PROVE  TypesOK'
<1>1. JobOK'
  BY OthersJob DEF Statement, TypesOK, Actors
<1>2. ASSUME NEW t \in Sessions
      PROVE  SessionOK(t)'
  BY OthersSession, JobIsNoSession DEF Statement, TypesOK
<1>3. QED
  BY <1>1, <1>2 DEF Statement, TypesOK

LEMMA TablesKept ==
  ASSUME UNCHANGED db, TablesOK
  PROVE  TablesOK'
<1>1. pkg' = pkg /\ status' = status /\ package' = package /\ ledger' = ledger
  BY DEF db
<1>2. BooksOK'
  BY <1>1 DEF TablesOK, BooksOK
<1>3. QtyIsLedgerSum'
  BY <1>1 DEF TablesOK, QtyIsLedgerSum, Booked, IsCancelled
<1>4. UnitsPaidFor'
  BY <1>1 DEF TablesOK, UnitsPaidFor, Used, UsedBy
<1>5. EffectOnce'
  BY <1>1 DEF TablesOK, EffectOnce
<1>6. QED
  BY <1>2, <1>3, <1>4, <1>5 DEF TablesOK

LEMMA StatementInv ==
  ASSUME NEW s \in Actors, Statement(s), PrepaidInv
  PROVE  PrepaidInv'
<1>1. TypesOK' /\ LocksOK' /\ TablesOK'
  BY StatementTypes, StatementLocks, TablesKept, InvParts DEF Statement
<1>2. QED
  BY <1>1 DEF PrepaidInv, TypesOK, TablesOK

-----------------------------------------------------------------------------
(* The statements *)

\* Rows are packages, also after the updates.
LEMMA RowTypes ==
  ASSUME NEW k \in Package
  PROVE  /\ Usable(k) => Decremented(k) \in Package
         /\ Restored(k) \in Package /\ Cancelled(k) \in Package /\ Expired(k) \in Package
<1>1. k.qty \in Nat /\ k.total \in Nat /\ k.expires \in Nat /\ k.status \in States
  BY DEF Package
<1>2. Restored(k) \in Package
  <2>1. k.qty + 1 \in Nat
    BY <1>1
  <2>2. Restored(k) = [k EXCEPT !.qty = k.qty + 1, !.status = "active"]
    BY DEF Restored
  <2>3. QED
    BY <1>1, <2>1, <2>2 DEF Package, States
<1>3. Cancelled(k) \in Package
  BY <1>1 DEF Package, States, Cancelled
<1>4. Expired(k) \in Package
  BY <1>1 DEF Package, States, Expired
<1>5. ASSUME Usable(k)
      PROVE  Decremented(k) \in Package
  <2>1. k.qty - 1 \in Nat
    BY <1>1, <1>5 DEF Usable
  <2> DEFINE st == IF (k.qty - 1) - 1 = 0 THEN "exhausted" ELSE k.status
  <2>2. st \in States
    BY <1>1 DEF States
  <2>3. Decremented(k) = [k EXCEPT !.qty = k.qty - 1, !.status = st]
    BY DEF Decremented
  <2> HIDE DEF st
  <2>4. QED
    BY <1>1, <2>1, <2>2, <2>3 DEF Package
<1>6. QED
  BY <1>2, <1>3, <1>4, <1>5

LEMMA RowDomain ==
  ASSUME NEW p, NEW k
  PROVE  DOMAIN Row(p, k) = {p} /\ Row(p, k)[p] = k
BY DEF Row

LEMMA RowIsRows ==
  ASSUME NEW p \in Packages, NEW k \in Package
  PROVE  \A q \in DOMAIN Row(p, k) : q \in Packages /\ Row(p, k)[q] \in Package
BY DEF Row

LEMMA EmptyRow == DOMAIN NoRow = {} /\ <<>> \in Seq(Packages)
BY DEF NoRow

\* Versions of package rows.
Versions(m) == \A p \in DOMAIN m : p \in Packages /\ m[p] \in Package

\* s alone moves, and the tables stay.
Moved(s, label, r, m, c) ==
  /\ UNCHANGED db /\ now' \in Nat
  /\ label \in {"idle", "pick", "record", "restore", "expire", "commit"}
  /\ r \in Requests \cup {NoOne} /\ c \in Seq(Packages) /\ Versions(m)
  /\ pc' = [pc EXCEPT ![s] = label] /\ req' = [req EXCEPT ![s] = r]
  /\ mine' = [mine EXCEPT ![s] = m] /\ cands' = [cands EXCEPT ![s] = c]

LEMMA TypesMoved ==
  ASSUME TypesOK, NEW s \in Actors, NEW label, NEW r, NEW m, NEW c, Moved(s, label, r, m, c)
  PROVE  /\ TypeOK' /\ Alone(s)
         /\ pc'[s] = label /\ req'[s] = r /\ mine'[s] = m /\ cands'[s] = c
<1> USE DEF Moved
<1>1. /\ pc \in [Actors -> {"idle", "pick", "record", "restore", "expire", "commit"}]
      /\ req \in [Actors -> Requests \cup {NoOne}]
      /\ cands \in [Actors -> Seq(Packages)]
      /\ mine = [t \in Actors |-> mine[t]]
  BY DEF TypesOK, TypeOK
<1>2. /\ pc'[s] = label /\ req'[s] = r /\ mine'[s] = m /\ cands'[s] = c
      /\ Alone(s)
  BY <1>1 DEF Alone
<1>3. mine' = [t \in Actors |-> mine'[t]]
  BY <1>1
<1>4. \A t \in Actors : \A p \in DOMAIN mine'[t] : p \in Packages /\ mine'[t][p] \in Package
  <2>1. SUFFICES ASSUME NEW t \in Actors, NEW p \in DOMAIN mine'[t]
                 PROVE  p \in Packages /\ mine'[t][p] \in Package
    OBVIOUS
  <2>2. CASE t = s
    BY <1>2, <2>1, <2>2 DEF Versions
  <2>3. CASE t # s
    BY <1>2, <2>1, <2>3 DEF TypesOK, TypeOK, Alone
  <2>4. QED
    BY <2>2, <2>3
<1>5. /\ pc' \in [Actors -> {"idle", "pick", "record", "restore", "expire", "commit"}]
      /\ req' \in [Actors -> Requests \cup {NoOne}]
      /\ cands' \in [Actors -> Seq(Packages)]
  BY <1>1
<1>6. /\ pkg' \in [Packages -> Package]
      /\ status' \in [Requests -> {"new", "committed", "reversed"}]
      /\ package' \in [Requests -> Packages \cup {NoOne}]
      /\ ledger' \in Seq(Entry)
  BY DEF TypesOK, TypeOK, db
<1>7. QED
  BY <1>2, <1>3, <1>4, <1>5, <1>6 DEF TypeOK

LEMMA RollBackStep ==
  ASSUME TypesOK, NEW s \in Actors, RollBack(s)
  PROVE  Statement(s)
<1>1. <<>> \in Seq(Packages) /\ DOMAIN NoRow = {}
  BY EmptyRow
<1>2. UNCHANGED db /\ now' \in Nat
  BY DEF RollBack, TypesOK, TypeOK
<1>3. /\ TypeOK' /\ Alone(s)
      /\ pc'[s] = "idle" /\ req'[s] = NoOne /\ mine'[s] = NoRow /\ cands'[s] = <<>>
  <2>1. Versions(NoRow)
    BY <1>1 DEF Versions
  <2>2. QED
    <3>1. Moved(s, "idle", NoOne, NoRow, <<>>)
      BY <1>1, <1>2, <2>1 DEF Moved, RollBack, Forget, Goto
    <3>2. QED
      BY <3>1, TypesMoved
<1>4. s = Job => JobOK'
  BY <1>1, <1>3 DEF JobOK
<1>5. s # Job => SessionOK(s)'
  BY <1>1, <1>3 DEF SessionOK
<1>6. QED
  BY <1>1, <1>2, <1>3, <1>4, <1>5 DEF Statement

LEMMA BeginOpenStep ==
  ASSUME TypesOK, NEW s \in Sessions, NEW r \in Opens, NEW p \in Packages,
         NEW b \in Bundles, BeginOpen(s, r, p, b)
  PROVE  Statement(s)
<1> DEFINE k == NewPackage(b)
<1>1. s \in Actors /\ s # Job /\ r \in Requests
  BY JobIsNoSession DEF Requests
<1>2. k \in Package /\ k.status = "active" /\ k.qty = k.total /\ k.qty > 0
  <2>1. b.qty \in Nat \ {0} /\ b.life \in Nat /\ now \in Nat
    BY PrepaidAssumption DEF TypesOK, TypeOK
  <2>2. QED
    BY <2>1 DEF NewPackage, Package, States
<1> HIDE DEF k
<1>3. /\ DOMAIN Row(p, k) = {p} /\ Row(p, k)[p] = k
      /\ \A q \in DOMAIN Row(p, k) : q \in Packages /\ Row(p, k)[q] \in Package
  BY <1>2, RowDomain, RowIsRows
<1>4. /\ UNCHANGED <<now, db, cands>> /\ pc[s] = "idle" /\ status[r] = "new"
      /\ pkg[p] = Unopened /\ RowFree(s, p)
      /\ pc' = [pc EXCEPT ![s] = "record"]
      /\ req' = [req EXCEPT ![s] = r] /\ mine' = [mine EXCEPT ![s] = Row(p, k)]
  BY DEF BeginOpen, Goto, k
<1>5. cands \in [Actors -> Seq(Packages)] /\ now \in Nat
  BY DEF TypesOK, TypeOK
<1>6. cands' = [cands EXCEPT ![s] = cands[s]] /\ cands[s] \in Seq(Packages)
  BY <1>1, <1>4, <1>5
<1>7. /\ TypeOK' /\ Alone(s)
      /\ pc'[s] = "record" /\ req'[s] = r /\ mine'[s] = Row(p, k)
  <2> DEFINE m == Row(p, k)
  <2>1. /\ Versions(m)
        /\ mine' = [mine EXCEPT ![s] = m]
        /\ UNCHANGED db /\ now' \in Nat
    BY <1>3, <1>4, <1>5 DEF Versions
  <2> HIDE DEF m
  <2>2. TypeOK' /\ Alone(s) /\ pc'[s] = "record" /\ req'[s] = r /\ mine'[s] = m
    <3>1. Moved(s, "record", r, m, cands[s])
      BY <1>1, <1>4, <1>6, <2>1 DEF Moved
    <3>2. QED
      BY <1>1, <3>1, TypesMoved
  <2>3. QED
    BY <2>2 DEF m
<1>8. SessionOK(s)'
  <2>1. pkg' = pkg /\ status' = status /\ package' = package
    BY <1>4 DEF db
  <2>2. RecordedAs(r, p, k)
    BY <1>2, <1>4 DEF RecordedAs
  <2>3. DOMAIN mine'[s] = {p} /\ mine'[s][p] = k
    BY <1>3, <1>7
  <2>4. QED
    BY <1>1, <1>7, <2>1, <2>2, <2>3 DEF SessionOK, RecordedAs
<1>9. QED
  BY <1>1, <1>3, <1>4, <1>7, <1>8 DEF Statement

LEMMA OrderType ==
  ASSUME NEW S \in SUBSET Packages, NEW o \in Orders(S)
  PROVE  o \in Seq(Packages) /\ (S # {} => o # <<>>)
<1>1. IsFiniteSet(S)
  BY PrepaidAssumption, FS_Subset
<1>2. Cardinality(S) \in Nat /\ (Cardinality(S) = 0 <=> S = {})
  BY <1>1, FS_CardinalityType, FS_EmptySet
<1>3. o \in [1..Cardinality(S) -> S]
  BY DEF Orders
<1>4. o \in Seq(Packages)
  BY <1>2, <1>3, IsASeq
<1>5. Len(o) = Cardinality(S)
  BY <1>2, <1>3, <1>4, LenProperties
<1>6. QED
  BY <1>2, <1>4, <1>5

LEMMA BeginConsumeStep ==
  ASSUME TypesOK, NEW s \in Sessions, NEW r \in Uses, NEW picked \in SUBSET Packages,
         BeginConsume(s, r, picked)
  PROVE  Statement(s)
<1>1. s \in Actors /\ s # Job /\ r \in Requests
  BY JobIsNoSession DEF Requests
<1>2. PICK o \in Fifo({p \in picked : Usable(pkg[p])}) : cands' = [cands EXCEPT ![s] = o]
  BY DEF BeginConsume
<1>3. o \in Seq(Packages)
  <2> DEFINE S == {p \in picked : Usable(pkg[p])}
  <2>1. o \in Orders(S)
    BY <1>2 DEF Fifo
  <2>2. S \in SUBSET Packages
    OBVIOUS
  <2> HIDE DEF S
  <2>3. QED
    BY <2>1, <2>2, OrderType
<1>4. /\ UNCHANGED <<now, db, mine>> /\ pc[s] = "idle"
      /\ pc' = [pc EXCEPT ![s] = "pick"] /\ req' = [req EXCEPT ![s] = r]
  BY DEF BeginConsume, Goto
<1>5. mine' = [mine EXCEPT ![s] = mine[s]] /\ now \in Nat
  BY <1>1, <1>4 DEF TypesOK, TypeOK
<1>6. DOMAIN mine[s] = {} /\ Versions(mine[s])
  BY <1>4 DEF TypesOK, SessionOK, Versions
<1>7. /\ TypeOK' /\ Alone(s)
      /\ pc'[s] = "pick" /\ req'[s] = r /\ mine'[s] = mine[s]
  <2>1. Moved(s, "pick", r, mine[s], o)
    BY <1>1, <1>2, <1>3, <1>4, <1>5, <1>6 DEF Moved
  <2>2. QED
    BY <1>1, <2>1, TypesMoved
<1>8. SessionOK(s)'
  BY <1>1, <1>6, <1>7 DEF SessionOK
<1>9. QED
  BY <1>1, <1>4, <1>6, <1>7, <1>8 DEF Statement

LEMMA PickStep ==
  ASSUME TypesOK, NEW s \in Sessions, PickPackage(s)
  PROVE  Statement(s)
<1> DEFINE p == Head(cands[s])
           k == Decremented(pkg[p])
<1>1. s \in Actors /\ s # Job
  BY JobIsNoSession
<1>2. /\ pc[s] = "pick" /\ cands[s] # <<>> /\ RowFree(s, p) /\ UNCHANGED <<now, db, req>>
      /\ req[s] \in Uses /\ DOMAIN mine[s] = {}
  BY DEF PickPackage, TypesOK, SessionOK
<1>3. /\ cands[s] \in Seq(Packages) /\ p \in Packages /\ Tail(cands[s]) \in Seq(Packages)
      /\ pkg[p] \in Package /\ now \in Nat /\ req[s] \in Requests
  BY <1>1, <1>2, HeadTailProperties DEF TypesOK, TypeOK, Requests
<1>4. req' = [req EXCEPT ![s] = req[s]] /\ pkg' = pkg /\ status' = status /\ package' = package
  BY <1>1, <1>2 DEF TypesOK, TypeOK, db
<1>5. CASE Usable(pkg[p])
  <2>1. k \in Package
    BY <1>3, <1>5, RowTypes
  <2>2. /\ mine' = [mine EXCEPT ![s] = Row(p, k)] /\ cands' = [cands EXCEPT ![s] = <<>>]
        /\ pc' = [pc EXCEPT ![s] = "record"]
    BY <1>5 DEF PickPackage, Goto
  <2>3. RecordedAs(req[s], p, k)
    BY <1>2, <1>4, <1>5, PrepaidAssumption DEF RecordedAs
  <2> HIDE DEF p, k
  <2>4. /\ DOMAIN Row(p, k) = {p} /\ Row(p, k)[p] = k /\ <<>> \in Seq(Packages)
        /\ \A q \in DOMAIN Row(p, k) : q \in Packages /\ Row(p, k)[q] \in Package
    BY <1>3, <2>1, RowDomain, RowIsRows, EmptyRow
  <2>5. /\ TypeOK' /\ Alone(s)
        /\ pc'[s] = "record" /\ req'[s] = req[s] /\ mine'[s] = Row(p, k)
    <3> DEFINE m == Row(p, k)
    <3>1. /\ Versions(m)
          /\ mine' = [mine EXCEPT ![s] = m]
          /\ UNCHANGED db /\ now' \in Nat
      BY <1>2, <1>3, <2>2, <2>4 DEF Versions
    <3> HIDE DEF m
    <3>2. TypeOK' /\ Alone(s) /\ pc'[s] = "record" /\ req'[s] = req[s] /\ mine'[s] = m
      <4>1. Moved(s, "record", req[s], m, <<>>)
        BY <1>1, <1>3, <1>4, <2>2, <2>4, <3>1 DEF Moved
      <4>2. QED
        BY <1>1, <4>1, TypesMoved
    <3>3. QED
      BY <3>2 DEF m
  <2>6. SessionOK(s)'
    <3>1. DOMAIN mine'[s] = {p} /\ mine'[s][p] = k
      BY <2>4, <2>5
    <3>2. QED
      BY <1>3, <1>4, <2>3, <2>5, <3>1 DEF SessionOK, RecordedAs
  <2>7. QED
    BY <1>1, <1>2, <2>4, <2>5, <2>6 DEF Statement
<1>6. CASE ~Usable(pkg[p])
  <2>1. mine' = mine /\ cands' = [cands EXCEPT ![s] = Tail(cands[s])] /\ pc' = pc
    BY <1>1, <1>6 DEF PickPackage, TypesOK, TypeOK
  <2>2. /\ mine' = [mine EXCEPT ![s] = mine[s]] /\ pc' = [pc EXCEPT ![s] = pc[s]]
        /\ pc[s] \in {"idle", "pick", "record", "restore", "expire", "commit"}
        /\ Versions(mine[s])
    BY <1>1, <2>1 DEF TypesOK, TypeOK, Versions
  <2> HIDE DEF p, k
  <2>3. TypeOK' /\ Alone(s) /\ pc'[s] = pc[s] /\ req'[s] = req[s] /\ mine'[s] = mine[s]
    <3>1. Moved(s, pc[s], req[s], mine[s], Tail(cands[s]))
      BY <1>1, <1>2, <1>3, <1>4, <2>1, <2>2 DEF Moved
    <3>2. QED
      BY <1>1, <3>1, TypesMoved
  <2>4. SessionOK(s)'
    BY <1>2, <1>3, <2>3 DEF SessionOK
  <2>5. QED
    BY <1>1, <1>2, <2>3, <2>4 DEF Statement
<1>7. QED
  BY <1>5, <1>6

\* The current values of s, for the statements that keep some of them.
LEMMA Current ==
  ASSUME TypesOK, NEW s \in Actors
  PROVE  /\ pc = [pc EXCEPT ![s] = pc[s]] /\ req = [req EXCEPT ![s] = req[s]]
         /\ mine = [mine EXCEPT ![s] = mine[s]] /\ cands = [cands EXCEPT ![s] = cands[s]]
         /\ pc[s] \in {"idle", "pick", "record", "restore", "expire", "commit"}
         /\ req[s] \in Requests \cup {NoOne} /\ cands[s] \in Seq(Packages)
         /\ Versions(mine[s]) /\ now \in Nat
BY DEF TypesOK, TypeOK, Versions

LEMMA RecordStep ==
  ASSUME TypesOK, NEW s \in Sessions, Record(s)
  PROVE  Statement(s)
<1>1. s \in Actors /\ s # Job
  BY JobIsNoSession
<1>2. /\ pc[s] = "record" /\ status[req[s]] = "new" /\ TxFree(s, req[s])
      /\ UNCHANGED <<now, db, req, mine, cands>> /\ pc' = [pc EXCEPT ![s] = "commit"]
  BY DEF Record, Goto
<1>3. Moved(s, "commit", req[s], mine[s], cands[s])
  BY <1>1, <1>2, Current DEF Moved
<1>4. TypeOK' /\ Alone(s) /\ pc'[s] = "commit" /\ req'[s] = req[s] /\ mine'[s] = mine[s]
  BY <1>1, <1>3, TypesMoved
<1>5. pkg' = pkg /\ status' = status /\ package' = package
  BY <1>2 DEF db
<1>6. SessionOK(s)'
  <2>1. PICK p \in Packages :
          DOMAIN mine[s] = {p} /\ RecordedAs(req[s], p, mine[s][p])
    BY <1>2 DEF TypesOK, SessionOK
  <2>2. req[s] \in Requests
    BY <1>2 DEF TypesOK, SessionOK
  <2>3. QED
    BY <1>2, <1>4, <1>5, <2>1, <2>2 DEF SessionOK, RecordedAs
<1>7. QED
  BY <1>1, <1>2, <1>4, <1>6 DEF Statement

LEMMA BeginRefundStep ==
  ASSUME TypesOK, NEW s \in Sessions, NEW r \in Requests, BeginRefund(s, r)
  PROVE  Statement(s)
<1>1. s \in Actors /\ s # Job
  BY JobIsNoSession
<1>2. /\ pc[s] = "idle" /\ status[r] = "committed" /\ TxFree(s, r)
      /\ UNCHANGED <<now, db, mine, cands>>
      /\ pc' = [pc EXCEPT ![s] = "restore"] /\ req' = [req EXCEPT ![s] = r]
  BY DEF BeginRefund, Goto
<1>3. Moved(s, "restore", r, mine[s], cands[s])
  BY <1>1, <1>2, Current DEF Moved
<1>4. TypeOK' /\ Alone(s) /\ pc'[s] = "restore" /\ req'[s] = r /\ mine'[s] = mine[s]
  BY <1>1, <1>3, TypesMoved
<1>5. status' = status /\ DOMAIN mine[s] = {}
  BY <1>2 DEF db, TypesOK, SessionOK
<1>6. SessionOK(s)'
  BY <1>2, <1>4, <1>5 DEF SessionOK
<1>7. QED
  BY <1>1, <1>2, <1>4, <1>6 DEF Statement

LEMMA RestoreStep ==
  ASSUME TypesOK, LocksOK, BooksOK, NEW s \in Sessions, Restore(s)
  PROVE  Statement(s)
<1> DEFINE r == req[s]
           p == package[r]
           k == IF r \in Opens THEN Cancelled(pkg[p]) ELSE Restored(pkg[p])
           m == Row(p, k)
<1>1. s \in Actors /\ s # Job
  BY JobIsNoSession
<1>2. /\ pc[s] = "restore" /\ RowFree(s, p) /\ UNCHANGED <<now, db, req, cands>>
      /\ mine' = [mine EXCEPT ![s] = m] /\ pc' = [pc EXCEPT ![s] = "commit"]
  BY DEF Restore, Goto
<1>3. r \in Requests /\ status[r] = "committed" /\ DOMAIN mine[s] = {}
  BY <1>2 DEF TypesOK, SessionOK
<1>4. p \in Packages /\ pkg[p] \in Package
  BY <1>3 DEF BooksOK, TypesOK, TypeOK
<1>5. k \in Package
  BY <1>4, RowTypes
<1>6. RefundedAs(r, p, k)
  BY DEF RefundedAs
<1>7. TxFree(s, r)
  <2>1. PICK t \in Actors : t # s
    BY <1>1 DEF Actors
  <2>2. QED
    BY <1>1, <1>2, <2>1 DEF LocksOK
<1> HIDE DEF k
<1>8. DOMAIN m = {p} /\ m[p] = k /\ Versions(m)
  BY <1>4, <1>5, RowDomain, RowIsRows DEF Versions
<1> HIDE DEF r, p, m
<1>9. Moved(s, "commit", r, m, cands[s])
  BY <1>1, <1>2, <1>3, <1>8, Current DEF Moved, r
<1>10. TypeOK' /\ Alone(s) /\ pc'[s] = "commit" /\ req'[s] = r /\ mine'[s] = m
  BY <1>1, <1>9, TypesMoved
<1>11. SessionOK(s)'
  <2>1. pkg' = pkg /\ status' = status /\ package' = package
    BY <1>2 DEF db
  <2>2. DOMAIN mine'[s] = {p} /\ mine'[s][p] = k
    BY <1>8, <1>10
  <2>3. QED
    BY <1>3, <1>4, <1>6, <1>10, <2>1, <2>2 DEF SessionOK, RefundedAs
<1>12. QED
  BY <1>1, <1>2, <1>7, <1>8, <1>10, <1>11 DEF Statement

LEMMA BeginExpireStep ==
  ASSUME TypesOK, BeginExpire
  PROVE  Statement(Job)
<1>1. Job \in Actors
  BY DEF Actors
<1>2. PICK o \in Orders(Expirable) : cands' = [cands EXCEPT ![Job] = o]
  BY DEF BeginExpire
<1>3. /\ pc[Job] = "idle" /\ Expirable # {} /\ UNCHANGED <<now, db, req, mine>>
      /\ pc' = [pc EXCEPT ![Job] = "expire"] /\ Expirable \in SUBSET Packages
  BY DEF BeginExpire, Goto, Expirable
<1>4. o \in Seq(Packages) /\ o # <<>>
  BY <1>2, <1>3, OrderType
<1>5. Moved(Job, "expire", req[Job], mine[Job], o)
  BY <1>1, <1>2, <1>3, <1>4, Current DEF Moved
<1>6. /\ TypeOK' /\ Alone(Job) /\ pc'[Job] = "expire" /\ req'[Job] = req[Job]
      /\ mine'[Job] = mine[Job] /\ cands'[Job] = o
  BY <1>1, <1>5, TypesMoved
<1>7. DOMAIN mine[Job] = {} /\ req[Job] = NoOne
  BY <1>3 DEF TypesOK, JobOK
<1>8. JobOK'
  BY <1>4, <1>6, <1>7 DEF JobOK
<1>9. QED
  BY <1>3, <1>6, <1>8 DEF Statement

LEMMA ExpirePackageStep ==
  ASSUME TypesOK, ExpirePackage
  PROVE  Statement(Job)
<1> DEFINE c == cands[Job]
           p == Head(c)
           m == IF Lapsed(pkg[p])
                THEN [q \in DOMAIN mine[Job] \cup {p} |->
                        IF q = p THEN Expired(pkg[p]) ELSE mine[Job][q]]
                ELSE mine[Job]
           label == IF Len(c) = 1 THEN "commit" ELSE "expire"
<1>1. Job \in Actors
  BY DEF Actors
<1>2. /\ pc[Job] = "expire" /\ c # <<>> /\ c \in Seq(Packages) /\ req[Job] = NoOne
      /\ \A q \in DOMAIN mine[Job] :
           pkg[q].status = "active" /\ mine[Job][q] = Expired(pkg[q])
  BY <1>1 DEF ExpirePackage, TypesOK, TypeOK, JobOK
<1>3. p \in Packages /\ Tail(c) \in Seq(Packages) /\ pkg[p] \in Package
  BY <1>2, HeadTailProperties DEF TypesOK, TypeOK
<1>4. /\ RowFree(Job, p) /\ UNCHANGED <<now, db, req>>
      /\ cands' = [cands EXCEPT ![Job] = Tail(c)] /\ pc' = [pc EXCEPT ![Job] = label]
  BY DEF ExpirePackage, Goto
<1>5. mine' = [mine EXCEPT ![Job] = m]
  BY <1>1, Current DEF ExpirePackage
<1>6. /\ DOMAIN m \subseteq DOMAIN mine[Job] \cup {p}
      /\ \A q \in DOMAIN m : pkg[q].status = "active" /\ m[q] = Expired(pkg[q])
  BY <1>2 DEF Lapsed
<1>7. Versions(m)
  <2>1. Versions(mine[Job])
    BY <1>1, Current
  <2>2. Expired(pkg[p]) \in Package
    BY <1>3, RowTypes
  <2>3. QED
    BY <1>3, <2>1, <2>2 DEF Versions
<1>8. label \in {"idle", "expire", "commit"} /\ (label = "expire" => Tail(c) # <<>>)
  <2>1. Len(Tail(c)) = Len(c) - 1 /\ Len(c) \in Nat
    BY <1>2, HeadTailProperties, LenProperties
  <2>2. Len(<<>>) = 0
    OBVIOUS
  <2> HIDE DEF c
  <2>4. Len(c) # 1 => Len(Tail(c)) # 0
    BY <2>1
  <2>3. QED
    BY <2>2, <2>4
<1> HIDE DEF p, m, label
<1>9. Moved(Job, label, req[Job], m, Tail(c))
  BY <1>1, <1>2, <1>3, <1>4, <1>5, <1>7, <1>8, Current DEF Moved
<1>10. /\ TypeOK' /\ Alone(Job) /\ pc'[Job] = label /\ req'[Job] = req[Job]
       /\ mine'[Job] = m /\ cands'[Job] = Tail(c)
  BY <1>1, <1>9, TypesMoved
<1>11. JobOK'
  <2>1. pkg' = pkg
    BY <1>4 DEF db
  <2>2. label # "idle"
    BY DEF label
  <2>3. QED
    BY <1>2, <1>6, <1>8, <1>10, <2>1, <2>2 DEF JobOK
<1>12. QED
  BY <1>4, <1>6, <1>10, <1>11 DEF Statement

LEMMA TickStep ==
  ASSUME PrepaidInv, Tick
  PROVE  PrepaidInv'
<1>1. UNCHANGED db /\ pc' = pc /\ req' = req /\ mine' = mine /\ cands' = cands /\ now' \in Nat
  BY DEF Tick, PrepaidInv, TypeOK
<1>2. pkg' = pkg /\ status' = status /\ package' = package /\ ledger' = ledger
  BY <1>1 DEF db
<1>3. TypeOK'
  BY <1>1, <1>2 DEF PrepaidInv, TypeOK
<1>4. JobOK' /\ \A s \in Sessions : SessionOK(s)'
  BY <1>1, <1>2 DEF PrepaidInv, JobOK, SessionOK, RecordedAs, RefundedAs
<1>5. LocksOK'
  BY <1>1 DEF PrepaidInv, LocksOK, TxFree
<1>6. TablesOK'
  BY <1>1, TablesKept DEF PrepaidInv, TablesOK
<1>7. QED
  BY <1>3, <1>4, <1>5, <1>6 DEF PrepaidInv, TablesOK

LEMMA StutterStep ==
  ASSUME PrepaidInv, UNCHANGED vars
  PROVE  PrepaidInv'
<1>1. UNCHANGED db /\ pc' = pc /\ req' = req /\ mine' = mine /\ cands' = cands /\ now' = now
  BY DEF vars, db
<1>2. pkg' = pkg /\ status' = status /\ package' = package /\ ledger' = ledger
  BY <1>1 DEF db
<1>3. TypeOK'
  BY <1>1, <1>2 DEF PrepaidInv, TypeOK
<1>4. JobOK' /\ \A s \in Sessions : SessionOK(s)'
  BY <1>1, <1>2 DEF PrepaidInv, JobOK, SessionOK, RecordedAs, RefundedAs
<1>5. LocksOK'
  BY <1>1 DEF PrepaidInv, LocksOK, TxFree
<1>6. TablesOK'
  BY <1>1, TablesKept DEF PrepaidInv, TablesOK
<1>7. QED
  BY <1>3, <1>4, <1>5, <1>6 DEF PrepaidInv, TablesOK

-----------------------------------------------------------------------------
(* Commits: what they leave of the transactions under way *)

\* s publishes its rows, records at most the transaction it holds, and ends.
Published(s) ==
  /\ Publish(s) /\ Forget(s) /\ now' = now
  /\ s # Job => \A r \in Requests : r # req[s] => status'[r] = status[r] /\ package'[r] = package[r]
  /\ s = Job => status' = status /\ package' = package

LEMMA PublishedRest ==
  ASSUME TypesOK, NEW s \in Actors, Published(s)
  PROVE  /\ Alone(s) /\ pc'[s] = "idle" /\ req'[s] = NoOne
         /\ DOMAIN mine'[s] = {} /\ cands'[s] = <<>>
         /\ mine' = [t \in Actors |-> mine'[t]]
         /\ pc' \in [Actors -> {"idle", "pick", "record", "restore", "expire", "commit"}]
         /\ req' \in [Actors -> Requests \cup {NoOne}]
         /\ cands' \in [Actors -> Seq(Packages)]
         /\ \A t \in Actors : Versions(mine'[t])
         /\ pkg' \in [Packages -> Package]
<1>1. /\ pc' = [pc EXCEPT ![s] = "idle"] /\ req' = [req EXCEPT ![s] = NoOne]
      /\ mine' = [mine EXCEPT ![s] = NoRow] /\ cands' = [cands EXCEPT ![s] = <<>>]
      /\ pkg' = [p \in Packages |-> IF p \in DOMAIN mine[s] THEN mine[s][p] ELSE pkg[p]]
  BY DEF Published, Forget, Goto, Publish
<1>2. /\ pc \in [Actors -> {"idle", "pick", "record", "restore", "expire", "commit"}]
      /\ req \in [Actors -> Requests \cup {NoOne}]
      /\ cands \in [Actors -> Seq(Packages)] /\ pkg \in [Packages -> Package]
      /\ mine = [t \in Actors |-> mine[t]]
      /\ \A t \in Actors : Versions(mine[t])
  BY DEF TypesOK, TypeOK, Versions
<1>3. DOMAIN NoRow = {} /\ <<>> \in Seq(Packages)
  BY EmptyRow
<1>4. /\ Alone(s) /\ pc'[s] = "idle" /\ req'[s] = NoOne /\ mine'[s] = NoRow
      /\ cands'[s] = <<>> /\ mine' = [t \in Actors |-> mine'[t]]
  BY <1>1, <1>2 DEF Alone
<1>5. /\ pc' \in [Actors -> {"idle", "pick", "record", "restore", "expire", "commit"}]
      /\ req' \in [Actors -> Requests \cup {NoOne}]
      /\ cands' \in [Actors -> Seq(Packages)]
  BY <1>1, <1>2, <1>3
<1>6. \A t \in Actors : Versions(mine'[t])
  BY <1>2, <1>3, <1>4 DEF Versions, Alone
<1>7. pkg' \in [Packages -> Package]
  BY <1>1, <1>2 DEF Versions
<1>8. QED
  BY <1>3, <1>4, <1>5, <1>6, <1>7

\* Nobody's rows are changed by the commit of another.
LEMMA PublishedKeeps ==
  ASSUME TypesOK, LocksOK, NEW s \in Actors, Published(s), NEW t \in Actors \ {s},
         NEW p \in DOMAIN mine[t]
  PROVE  pkg'[p] = pkg[p] /\ p \in Packages
<1>1. p \in Packages
  BY DEF TypesOK, TypeOK
<1>2. p \notin DOMAIN mine[s]
  BY DEF LocksOK
<1>3. QED
  BY <1>1, <1>2 DEF Published, Publish

LEMMA PublishedWork ==
  ASSUME TypesOK, LocksOK, NEW s \in Actors, Published(s),
         s # Job => pc[s] = "commit",
         status' \in [Requests -> {"new", "committed", "reversed"}]
  PROVE  JobOK' /\ (\A t \in Sessions : SessionOK(t)') /\ LocksOK'
<1>1. /\ \A t \in Actors \ {s} :
           pc'[t] = pc[t] /\ req'[t] = req[t] /\ mine'[t] = mine[t] /\ cands'[t] = cands[t]
      /\ pc'[s] = "idle" /\ req'[s] = NoOne /\ DOMAIN mine'[s] = {}
  BY PublishedRest DEF Alone
<1>2. JobOK'
  <2>1. CASE s = Job
    BY <1>1, <2>1 DEF JobOK
  <2>2. CASE s # Job
    <3>1. Job \in Actors \ {s}
      BY <2>2 DEF Actors
    <3>2. \A p \in DOMAIN mine[Job] : pkg'[p] = pkg[p]
      BY <3>1, PublishedKeeps
    <3>3. QED
      BY <1>1, <3>1, <3>2 DEF JobOK, TypesOK
  <2>3. QED
    BY <2>1, <2>2
<1>3. ASSUME NEW t \in Sessions
      PROVE  SessionOK(t)'
  <2>1. t \in Actors /\ t # Job /\ SessionOK(t)
    BY JobIsNoSession DEF TypesOK
  <2>2. CASE t = s
    BY <1>1, <2>2 DEF SessionOK
  <2>3. CASE t # s
    <3>1. pc'[t] = pc[t] /\ req'[t] = req[t] /\ mine'[t] = mine[t]
      BY <1>1, <2>1, <2>3
    <3>2. ASSUME pc[t] \in {"restore", "commit"}
          PROVE  status'[req[t]] = status[req[t]] /\ package'[req[t]] = package[req[t]]
      <4>1. req[t] \in Requests
        BY <2>1, <3>2 DEF SessionOK
      <4>2. CASE s = Job
        BY <4>2 DEF Published
      <4>3. CASE s # Job
        <5>1. TxFree(t, req[t])
          BY <2>1, <2>3, <3>2 DEF LocksOK
        <5>2. req[t] # req[s]
          BY <2>1, <2>3, <4>3, <5>1 DEF TxFree
        <5>3. QED
          BY <4>1, <4>3, <5>2 DEF Published
      <4>4. QED
        BY <4>2, <4>3
    <3>3. \A p \in DOMAIN mine[t] : pkg'[p] = pkg[p]
      BY <2>1, <2>3, PublishedKeeps
    <3>4. CASE pc[t] \notin {"record", "commit"}
      BY <2>1, <3>1, <3>2, <3>4 DEF SessionOK
    <3>5. CASE pc[t] \in {"record", "commit"}
      <4>1. PICK p \in Packages :
              /\ DOMAIN mine[t] = {p}
              /\ IF pc[t] = "commit" /\ status[req[t]] = "committed"
                 THEN RefundedAs(req[t], p, mine[t][p])
                 ELSE RecordedAs(req[t], p, mine[t][p])
        BY <2>1, <3>5 DEF SessionOK
      <4>2. pkg'[p] = pkg[p]
        BY <3>3, <4>1
      <4>3. RecordedAs(req[t], p, mine[t][p]) =>
              RecordedAs(req[t], p, mine[t][p])'
        BY <3>1, <4>2 DEF RecordedAs
      <4>4. CASE pc[t] = "record"
        BY <2>1, <3>1, <4>1, <4>3, <4>4 DEF SessionOK
      <4>5. CASE pc[t] = "commit"
        <5>1. status'[req[t]] = status[req[t]] /\ package'[req[t]] = package[req[t]]
          BY <3>2, <4>5
        <5>2. RefundedAs(req[t], p, mine[t][p]) =>
                RefundedAs(req[t], p, mine[t][p])'
          BY <3>1, <4>2, <5>1 DEF RefundedAs
        <5>3. QED
          BY <2>1, <3>1, <4>1, <4>3, <4>5, <5>1, <5>2 DEF SessionOK
      <4>6. QED
        BY <3>5, <4>4, <4>5
    <3>6. QED
      BY <3>4, <3>5
  <2>4. QED
    BY <2>2, <2>3
<1>4. LocksOK'
  <2>1. SUFFICES ASSUME NEW a \in Actors, NEW b \in Actors, a # b
                 PROVE  /\ DOMAIN mine'[a] \cap DOMAIN mine'[b] = {}
                        /\ a # Job /\ pc'[a] \in {"restore", "commit"} => TxFree(a, req[a])'
    BY DEF LocksOK
  <2>2. DOMAIN mine'[a] \cap DOMAIN mine'[b] = {}
    BY <1>1, <2>1 DEF LocksOK
  <2>3. ASSUME a # Job, pc'[a] \in {"restore", "commit"}, NEW t \in Actors \ {a},
               req'[t] = req'[a]
        PROVE  pc'[t] \notin {"restore", "commit"}
    BY <1>1, <2>1, <2>3 DEF LocksOK, TxFree
  <2>4. QED
    BY <2>2, <2>3 DEF TxFree
<1>5. QED
  BY <1>2, <1>3, <1>4

-----------------------------------------------------------------------------
(* Commits: the tables *)

LEMMA BookedAppend ==
  ASSUME ledger \in Seq(Entry), NEW e \in Entry, ledger' = Append(ledger, e),
         NEW q \in Packages
  PROVE  /\ Booked(q) \in Int
         /\ Booked(q)' = Booked(q) + (IF e.package = q THEN e.delta ELSE 0)
<1> DEFINE D(l) == [i \in DOMAIN l |-> IF l[i].package = q THEN l[i].delta ELSE 0]
           x == IF e.package = q THEN e.delta ELSE 0
<1>1. /\ Len(ledger) \in Nat /\ DOMAIN ledger = 1..Len(ledger)
      /\ \A i \in 1..Len(ledger) : ledger[i] \in Entry
  BY LenProperties, ElementOfSeq
<1>2. /\ Len(ledger') = Len(ledger) + 1 /\ DOMAIN ledger' = 1..(Len(ledger) + 1)
      /\ ledger'[Len(ledger) + 1] = e
      /\ \A i \in 1..Len(ledger) : ledger'[i] = ledger[i]
  BY AppendProperties, <1>1
<1>3. x \in Int
  BY DEF Entry
<1>4. D(ledger) \in Seq(Int) /\ Len(D(ledger)) = Len(ledger)
  <2>1. D(ledger) \in [1..Len(ledger) -> Int]
    BY <1>1 DEF Entry
  <2>2. D(ledger) \in Seq(Int)
    BY <1>1, <2>1, IsASeq
  <2>3. QED
    BY <1>1, <2>1, <2>2, LenProperties
<1>5. D(ledger') = Append(D(ledger), x)
  <2>1. D(ledger') \in [1..(Len(ledger) + 1) -> Int]
    <3>1. \A i \in 1..(Len(ledger) + 1) : ledger'[i] \in Entry
      BY <1>1, <1>2
    <3>2. QED
      BY <1>2, <3>1 DEF Entry
  <2>2. D(ledger') \in Seq(Int) /\ Len(D(ledger')) = Len(ledger) + 1
    BY <1>1, <2>1, IsASeq, LenProperties
  <2>3. /\ Append(D(ledger), x) \in Seq(Int)
        /\ Len(Append(D(ledger), x)) = Len(ledger) + 1
        /\ Append(D(ledger), x)[Len(ledger) + 1] = x
        /\ \A i \in 1..Len(ledger) : Append(D(ledger), x)[i] = D(ledger)[i]
    <3> HIDE DEF D, x
    <3>1. QED
      BY <1>3, <1>4, AppendProperties
  <2>4. ASSUME NEW i \in 1..(Len(ledger) + 1)
        PROVE  D(ledger')[i] = Append(D(ledger), x)[i]
    <3>1. CASE i \in 1..Len(ledger)
      BY <1>1, <1>2, <2>3, <3>1
    <3>2. CASE i = Len(ledger) + 1
      BY <1>1, <1>2, <2>3, <3>2
    <3>3. QED
      BY <1>1, <3>1, <3>2
  <2>5. QED
    <3> HIDE DEF D, x
    <3>1. QED
      BY <2>2, <2>3, <2>4, SeqEqual
<1>6. Booked(q) = Total(D(ledger)) /\ Booked(q)' = Total(D(ledger'))
  BY DEF Booked
<1> HIDE DEF D, x
<1>7. Total(D(ledger)) \in Int /\ Total(Append(D(ledger), x)) = Total(D(ledger)) + x
  BY <1>3, <1>4, TotalInt, TotalAppend
<1>8. QED
  BY <1>5, <1>6, <1>7 DEF x

\* What a session commits: one package, one transaction, one entry.
Committed(s, p) ==
  LET r == req[s]
      refund == status[r] = "committed"
      d == Delta(r, mine[s][p])
  IN
  /\ pkg' = [pkg EXCEPT ![p] = mine[s][p]]
  /\ status' = [status EXCEPT ![r] = IF refund THEN "reversed" ELSE "committed"]
  /\ package' = [package EXCEPT ![r] = p]
  /\ ledger' = Append(ledger, Effect(p, IF refund THEN -d ELSE d, r, refund))

LEMMA CommitShape ==
  ASSUME TypesOK, NEW s \in Sessions, Commit(s)
  PROVE  /\ Published(s) /\ pc[s] = "commit" /\ s \in Actors
         /\ req[s] \in Requests /\ status[req[s]] \in {"new", "committed"}
         /\ \E p \in Packages :
              /\ Committed(s, p) /\ mine[s][p] \in Package
              /\ IF status[req[s]] = "committed"
                 THEN RefundedAs(req[s], p, mine[s][p])
                 ELSE RecordedAs(req[s], p, mine[s][p])
<1>1. s \in Actors /\ s # Job /\ pc[s] = "commit"
  BY JobIsNoSession DEF Commit
<1>2. req[s] \in Requests /\ status[req[s]] \in {"new", "committed"}
  BY <1>1 DEF TypesOK, SessionOK
<1>3. PICK p \in Packages :
        /\ DOMAIN mine[s] = {p}
        /\ IF status[req[s]] = "committed"
           THEN RefundedAs(req[s], p, mine[s][p])
           ELSE RecordedAs(req[s], p, mine[s][p])
  BY <1>1 DEF TypesOK, SessionOK
<1>4. mine[s][p] \in Package
  BY <1>1, <1>3 DEF TypesOK, TypeOK
<1>5. pkg' = [pkg EXCEPT ![p] = mine[s][p]]
  BY <1>3 DEF Commit, Publish, TypesOK, TypeOK
<1>6. Committed(s, p)
  BY <1>3, <1>5 DEF Commit, Committed
<1>7. Published(s)
  BY <1>1, <1>2, <1>6 DEF Commit, Published, Committed, TypesOK, TypeOK
<1>8. QED
  BY <1>1, <1>2, <1>3, <1>4, <1>6, <1>7

LEMMA CommitTypes ==
  ASSUME TypesOK, NEW s \in Sessions, Commit(s)
  PROVE  /\ TypeOK'
         /\ \A p \in Packages : Committed(s, p) /\ mine[s][p] \in Package =>
              LET refund == status[req[s]] = "committed"
                  d == Delta(req[s], mine[s][p])
              IN  Effect(p, IF refund THEN -d ELSE d, req[s], refund) \in Entry
<1>1. /\ Published(s) /\ s \in Actors /\ req[s] \in Requests
  BY CommitShape
<1>2. PICK p \in Packages : Committed(s, p) /\ mine[s][p] \in Package
  BY CommitShape
<1>3. ASSUME NEW q \in Packages, mine[s][q] \in Package
      PROVE  LET refund == status[req[s]] = "committed"
                 d == Delta(req[s], mine[s][q])
             IN  Effect(q, IF refund THEN -d ELSE d, req[s], refund) \in Entry
  <2>1. Delta(req[s], mine[s][q]) \in Int
    BY <1>3 DEF Delta, Package
  <2>2. QED
    BY <1>1, <2>1 DEF Effect, Entry
<1>4. ledger' \in Seq(Entry)
  <2>1. ledger \in Seq(Entry)
    BY DEF TypesOK, TypeOK
  <2>2. QED
    BY <1>2, <1>3, <2>1, AppendProperties DEF Committed
<1>5. /\ status' \in [Requests -> {"new", "committed", "reversed"}]
      /\ package' \in [Requests -> Packages \cup {NoOne}]
  BY <1>1, <1>2 DEF Committed, TypesOK, TypeOK
<1>6. now' \in Nat
  BY <1>1 DEF Published, TypesOK, TypeOK
<1>7. TypeOK'
  BY <1>1, <1>4, <1>5, <1>6, PublishedRest DEF TypeOK, Versions
<1>8. QED
  BY <1>3, <1>7

\* What is known when s commits its version of p.
Committing(s, p) ==
  /\ TypesOK /\ TablesOK
  /\ s \in Sessions /\ p \in Packages /\ req[s] \in Requests
  /\ status[req[s]] \in {"new", "committed"}
  /\ Committed(s, p) /\ mine[s][p] \in Package
  /\ IF status[req[s]] = "committed"
     THEN RefundedAs(req[s], p, mine[s][p])
     ELSE RecordedAs(req[s], p, mine[s][p])

\* The other transactions and packages stay.
LEMMA CommitOthers ==
  ASSUME NEW s, NEW p, Committing(s, p)
  PROVE  /\ \A q \in Packages : pkg'[q] = IF q = p THEN mine[s][p] ELSE pkg[q]
         /\ \A r \in Requests : r # req[s] => status'[r] = status[r] /\ package'[r] = package[r]
         /\ package'[req[s]] = p
         /\ status'[req[s]] = IF status[req[s]] = "committed" THEN "reversed" ELSE "committed"
         /\ mine[s][p].status # "none"
<1>1. /\ pkg \in [Packages -> Package] /\ status \in [Requests -> {"new", "committed", "reversed"}]
      /\ package \in [Requests -> Packages \cup {NoOne}]
  BY DEF Committing, TypesOK, TypeOK
<1>2. mine[s][p].status # "none"
  <2>1. pkg[p] \in Package
    BY <1>1 DEF Committing
  <2>2. CASE status[req[s]] = "committed"
    <3>1. Cancelled(pkg[p]).status = "refunded" /\ Restored(pkg[p]).status = "active"
      BY <2>1 DEF Cancelled, Restored, Package
    <3>2. QED
      BY <2>2, <3>1 DEF Committing, RefundedAs
  <2>3. CASE status[req[s]] # "committed"
    <3>1. Usable(pkg[p]) => Decremented(pkg[p]).status \in {"active", "exhausted"}
      BY <2>1 DEF Usable, Decremented, Package
    <3>2. QED
      BY <2>3, <3>1 DEF Committing, RecordedAs
  <2>4. QED
    BY <2>2, <2>3
<1>3. QED
  BY <1>1, <1>2 DEF Committing, Committed

LEMMA CommitBooks ==
  ASSUME NEW s, NEW p, Committing(s, p)
  PROVE  BooksOK' /\ EffectOnce'
<1> DEFINE r == req[s]
           refund == status[r] = "committed"
           d == Delta(r, mine[s][p])
           e == Effect(p, IF refund THEN -d ELSE d, r, refund)
<1>1. /\ BooksOK /\ EffectOnce /\ r \in Requests /\ p \in Packages
      /\ status[r] \in {"new", "committed"} /\ ledger \in Seq(Entry)
      /\ pkg \in [Packages -> Package]
  BY DEF Committing, TablesOK, TypesOK, TypeOK
<1>2. /\ \A q \in Packages : pkg'[q] = IF q = p THEN mine[s][p] ELSE pkg[q]
      /\ \A x \in Requests : x # r => status'[x] = status[x] /\ package'[x] = package[x]
      /\ package'[r] = p /\ status'[r] = IF refund THEN "reversed" ELSE "committed"
      /\ mine[s][p].status # "none"
  BY CommitOthers
<1>3. e.tx = r /\ (e.refund <=> refund) /\ e.refund \in BOOLEAN
  BY DEF Effect
<1>4. ledger' = Append(ledger, e)
  BY DEF Committing, Committed
<1> HIDE DEF e, refund, r
<1>5. /\ Len(ledger) \in Nat /\ DOMAIN ledger = 1..Len(ledger)
      /\ \A i \in 1..Len(ledger) : ledger[i] \in Entry
  BY <1>1, LenProperties, ElementOfSeq
<1>6. /\ DOMAIN ledger' = 1..(Len(ledger) + 1)
      /\ ledger'[Len(ledger) + 1] = e
      /\ \A i \in 1..Len(ledger) : ledger'[i] = ledger[i]
  BY <1>4, <1>5
<1>7. \A i \in 1..Len(ledger) :
        /\ ledger[i].tx \in Requests /\ ledger[i].refund \in BOOLEAN
        /\ status[ledger[i].tx] # "new"
        /\ ledger[i].refund => status[ledger[i].tx] = "reversed"
  BY <1>1, <1>5 DEF BooksOK, Entry
<1>8. BooksOK'
  <2>1. \A q \in Packages : pkg'[q].status = "none" => pkg'[q] = Unopened
    BY <1>1, <1>2 DEF BooksOK
  <2>2. \A x \in Requests :
          IF status'[x] = "new" THEN package'[x] = NoOne
          ELSE package'[x] \in Packages /\ pkg'[package'[x]].status # "none"
    <3>1. SUFFICES ASSUME NEW x \in Requests
                   PROVE  IF status'[x] = "new" THEN package'[x] = NoOne
                          ELSE package'[x] \in Packages /\ pkg'[package'[x]].status # "none"
      OBVIOUS
    <3>2. CASE x = r
      BY <1>1, <1>2, <3>2
    <3>3. CASE x # r
      BY <1>1, <1>2, <3>3 DEF BooksOK
    <3>4. QED
      BY <3>2, <3>3
  <2>3. ASSUME NEW i \in DOMAIN ledger'
        PROVE  /\ status'[ledger'[i].tx] # "new"
               /\ ledger'[i].refund => status'[ledger'[i].tx] = "reversed"
    <3>1. CASE i = Len(ledger) + 1
      BY <1>2, <1>3, <1>6, <3>1
    <3>2. CASE i \in 1..Len(ledger)
      <4>1. ledger'[i] = ledger[i]
        BY <1>6, <3>2
      <4>2. CASE ledger[i].tx = r
        <5>1. status[r] = "committed" /\ ~ledger[i].refund
          BY <1>1, <1>7, <3>2, <4>2
        <5>2. QED
          BY <1>2, <4>1, <4>2, <5>1
      <4>3. CASE ledger[i].tx # r
        BY <1>2, <1>7, <3>2, <4>1, <4>3
      <4>4. QED
        BY <4>2, <4>3
    <3>3. QED
      BY <1>5, <1>6, <2>3, <3>1, <3>2
  <2>4. QED
    BY <2>1, <2>2, <2>3 DEF BooksOK
<1>9. EffectOnce'
  <2>1. \A i \in 1..Len(ledger) : ~(ledger[i].tx = e.tx /\ ledger[i].refund = e.refund)
    <3>1. SUFFICES ASSUME NEW i \in 1..Len(ledger), ledger[i].tx = r, ledger[i].refund = e.refund
                   PROVE  FALSE
      BY <1>3
    <3>2. status[r] = "committed"
      BY <1>1, <1>7, <3>1
    <3>3. e.refund
      BY <1>3, <3>2 DEF refund
    <3>4. QED
      BY <1>7, <3>1, <3>2, <3>3
  <2>2. ASSUME NEW i \in DOMAIN ledger', NEW j \in DOMAIN ledger',
               ledger'[i].tx = ledger'[j].tx, ledger'[i].refund = ledger'[j].refund
        PROVE  i = j
    <3>1. \A x \in DOMAIN ledger' : x = Len(ledger) + 1 \/ x \in 1..Len(ledger)
      BY <1>5, <1>6
    <3>2. CASE i \in 1..Len(ledger) /\ j \in 1..Len(ledger)
      BY <1>1, <1>5, <1>6, <2>2, <3>2 DEF EffectOnce
    <3>3. CASE i = Len(ledger) + 1 /\ j \in 1..Len(ledger)
      BY <1>6, <2>1, <2>2, <3>3
    <3>4. CASE j = Len(ledger) + 1 /\ i \in 1..Len(ledger)
      BY <1>6, <2>1, <2>2, <3>4
    <3>5. QED
      BY <3>1, <3>2, <3>3, <3>4
  <2>3. QED
    BY <2>2 DEF EffectOnce
<1>10. QED
  BY <1>8, <1>9

\* Consumed units after a commit.
LEMMA CommitUsed ==
  ASSUME NEW s, NEW p, Committing(s, p), NEW q \in Packages
  PROVE  /\ Used(q) \in Nat /\ Used(q)' \in Nat
         /\ Used(q)' = IF q # p \/ req[s] \in Opens THEN Used(q)
                       ELSE IF status[req[s]] = "committed" THEN Used(q) - 1
                       ELSE Used(q) + 1
<1> DEFINE r == req[s]
<1>1. /\ BooksOK /\ r \in Requests /\ p \in Packages /\ status[r] \in {"new", "committed"}
      /\ status[r] = "committed" => package[r] = p
      /\ status[r] = "new" => package[r] = NoOne
  BY DEF Committing, TablesOK, BooksOK, RefundedAs
<1>2. /\ \A x \in Requests : x # r => status'[x] = status[x] /\ package'[x] = package[x]
      /\ package'[r] = p /\ status'[r] = IF status[r] = "committed" THEN "reversed" ELSE "committed"
  BY CommitOthers
<1>3. Uses \subseteq Requests /\ Opens \cap Uses = {} /\ Requests = Opens \cup Uses
      /\ NoOne \notin Packages
  BY PrepaidAssumption DEF Requests
<1>4. UsedBy(q) \subseteq Uses /\ IsFiniteSet(UsedBy(q)) /\ Used(q) \in Nat
  <2>1. UsedBy(q) \in SUBSET Uses
    BY DEF UsedBy
  <2>2. QED
    BY <2>1, PrepaidAssumption, FS_Subset, FS_CardinalityType DEF Used
<1>5. UsedBy(q)' = {x \in Uses : package'[x] = q /\ status'[x] = "committed"}
  BY DEF UsedBy
<1>10. Used(q)' \in Nat
  <2>1. {x \in Uses : package'[x] = q /\ status'[x] = "committed"} \in SUBSET Uses
    OBVIOUS
  <2>2. QED
    BY <1>5, <2>1, PrepaidAssumption, FS_Subset, FS_CardinalityType DEF Used
<1> HIDE DEF r
<1>6. CASE q # p \/ r \in Opens
  <2>1. UsedBy(q)' = UsedBy(q)
    BY <1>1, <1>2, <1>3, <1>5, <1>6 DEF UsedBy
  <2>2. QED
    BY <1>4, <1>6, <1>10, <2>1 DEF Used, r
<1>7. CASE q = p /\ r \notin Opens /\ status[r] = "committed"
  <2>1. r \in UsedBy(q) /\ UsedBy(q)' = UsedBy(q) \ {r}
    BY <1>1, <1>2, <1>3, <1>5, <1>7 DEF UsedBy
  <2>2. Cardinality(UsedBy(q) \ {r}) = Cardinality(UsedBy(q)) - 1
    BY <1>4, <2>1, FS_RemoveElement
  <2>3. QED
    BY <1>4, <1>7, <1>10, <2>1, <2>2 DEF Used, r
<1>8. CASE q = p /\ r \notin Opens /\ status[r] # "committed"
  <2>1. r \notin UsedBy(q) /\ UsedBy(q)' = UsedBy(q) \cup {r}
    BY <1>1, <1>2, <1>3, <1>5, <1>8 DEF UsedBy
  <2>2. Cardinality(UsedBy(q) \cup {r}) = Cardinality(UsedBy(q)) + 1
    BY <1>4, <2>1, FS_AddElement
  <2>3. QED
    BY <1>4, <1>8, <1>10, <2>1, <2>2 DEF Used, r
<1>9. QED
  BY <1>4, <1>6, <1>7, <1>8, <1>10 DEF r

\* How a commit changes the row it publishes.
LEMMA CommitRow ==
  ASSUME NEW s, NEW p, Committing(s, p)
  PROVE  LET r == req[s]
             k == mine[s][p]
         IN  /\ pkg[p].qty \in Nat /\ pkg[p].total \in Nat /\ k.qty \in Nat /\ k.total \in Nat
             /\ r \in Opens /\ status[r] = "new" =>
                  pkg[p] = Unopened /\ k.qty = k.total /\ k.qty > 0
             /\ r \in Opens /\ status[r] = "committed" => k.qty = 0 /\ k.total = pkg[p].total
             /\ r \notin Opens /\ status[r] = "new" =>
                  Usable(pkg[p]) /\ k.qty = pkg[p].qty - 1 /\ k.total = pkg[p].total
             /\ r \notin Opens /\ status[r] = "committed" =>
                  k.qty = pkg[p].qty + 1 /\ k.total = pkg[p].total
<1>1. pkg[p] \in Package /\ mine[s][p] \in Package /\ status[req[s]] \in {"new", "committed"}
  BY DEF Committing, TypesOK, TypeOK
<1>2. /\ pkg[p].qty \in Nat /\ pkg[p].total \in Nat
      /\ mine[s][p].qty \in Nat /\ mine[s][p].total \in Nat
  BY <1>1 DEF Package
<1>3. /\ Cancelled(pkg[p]).qty = 0 /\ Cancelled(pkg[p]).total = pkg[p].total
      /\ Restored(pkg[p]).qty = pkg[p].qty + 1 /\ Restored(pkg[p]).total = pkg[p].total
      /\ Decremented(pkg[p]).qty = pkg[p].qty - 1 /\ Decremented(pkg[p]).total = pkg[p].total
  BY <1>1 DEF Package, Cancelled, Restored, Decremented
<1>4. CASE status[req[s]] = "committed"
  <2>1. mine[s][p] = IF req[s] \in Opens THEN Cancelled(pkg[p]) ELSE Restored(pkg[p])
    BY <1>4 DEF Committing, RefundedAs
  <2>2. QED
    BY <1>2, <1>3, <1>4, <2>1
<1>5. CASE status[req[s]] = "new"
  <2>1. IF req[s] \in Opens
        THEN pkg[p] = Unopened /\ mine[s][p].qty = mine[s][p].total /\ mine[s][p].qty > 0
        ELSE Usable(pkg[p]) /\ mine[s][p] = Decremented(pkg[p])
    BY <1>5 DEF Committing, RecordedAs
  <2>2. QED
    BY <1>2, <1>3, <1>5, <2>1
<1>6. QED
  BY <1>1, <1>4, <1>5

\* An unopened package has no transactions.
LEMMA UnopenedUnused ==
  ASSUME BooksOK, NEW p \in Packages, pkg[p] = Unopened
  PROVE  UsedBy(p) = {} /\ Used(p) = 0 /\ ~IsCancelled(p)
<1>1. pkg[p].status = "none"
  BY DEF Unopened
<1>2. \A r \in Requests : package[r] = p => status[r] = "new"
  BY <1>1 DEF BooksOK
<1>3. \A r \in Requests : package[r] # p
  BY <1>2, PrepaidAssumption DEF BooksOK
<1>4. UsedBy(p) = {} /\ ~IsCancelled(p)
  BY <1>3 DEF UsedBy, IsCancelled, Requests
<1>5. QED
  BY <1>4, FS_EmptySet DEF Used

LEMMA CommitUnits ==
  ASSUME NEW s, NEW p, Committing(s, p)
  PROVE  UnitsPaidFor'
<1> DEFINE r == req[s]
           k == mine[s][p]
<1>1. SUFFICES ASSUME NEW q \in Packages
               PROVE  pkg'[q].qty + Used(q)' <= pkg'[q].total
  BY DEF UnitsPaidFor
<1>2. pkg'[q] = IF q = p THEN k ELSE pkg[q]
  BY CommitOthers
<1>3. /\ Used(q) \in Nat
      /\ Used(q)' = IF q # p \/ r \in Opens THEN Used(q)
                    ELSE IF status[r] = "committed" THEN Used(q) - 1 ELSE Used(q) + 1
  BY CommitUsed
<1>4. /\ pkg[q].qty + Used(q) <= pkg[q].total /\ status[r] \in {"new", "committed"} /\ BooksOK
      /\ pkg[q].qty \in Nat /\ pkg[q].total \in Nat
  BY DEF Committing, TablesOK, UnitsPaidFor, TypesOK, TypeOK, Package
<1>5. CASE q # p
  BY <1>2, <1>3, <1>4, <1>5
<1>6. CASE q = p
  <2>1. /\ k.qty \in Nat /\ k.total \in Nat
        /\ r \in Opens /\ status[r] = "new" =>
             pkg[p] = Unopened /\ k.qty = k.total /\ k.qty > 0
        /\ r \in Opens /\ status[r] = "committed" => k.qty = 0 /\ k.total = pkg[p].total
        /\ r \notin Opens /\ status[r] = "new" =>
             k.qty = pkg[p].qty - 1 /\ k.total = pkg[p].total
        /\ r \notin Opens /\ status[r] = "committed" =>
             k.qty = pkg[p].qty + 1 /\ k.total = pkg[p].total
    BY CommitRow
  <2>2. pkg[p] = Unopened => Used(q) = 0
    BY <1>4, <1>6, UnopenedUnused
  <2> HIDE DEF r, k
  <2>3. QED
    BY <1>2, <1>3, <1>4, <1>6, <2>1, <2>2
<1>7. QED
  BY <1>5, <1>6

LEMMA CommitQty ==
  ASSUME NEW s, NEW p, Committing(s, p)
  PROVE  QtyIsLedgerSum'
<1> DEFINE r == req[s]
           k == mine[s][p]
           refund == status[r] = "committed"
           d == Delta(r, k)
           e == Effect(p, IF refund THEN -d ELSE d, r, refund)
<1>1. SUFFICES ASSUME NEW q \in Packages, ~IsCancelled(q)'
               PROVE  pkg'[q].qty = Booked(q)'
  BY DEF QtyIsLedgerSum
<1>2. /\ \A x \in Packages : pkg'[x] = IF x = p THEN k ELSE pkg[x]
      /\ \A x \in Requests : x # r => status'[x] = status[x] /\ package'[x] = package[x]
      /\ package'[r] = p /\ status'[r] = IF refund THEN "reversed" ELSE "committed"
  BY CommitOthers
<1>3. /\ r \in Requests /\ p \in Packages /\ status[r] \in {"new", "committed"} /\ BooksOK
      /\ ledger \in Seq(Entry) /\ ledger' = Append(ledger, e) /\ k \in Package
      /\ ~IsCancelled(q) => pkg[q].qty = Booked(q)
      /\ pkg[q].qty \in Nat
  BY DEF Committing, Committed, TablesOK, TypesOK, TypeOK, QtyIsLedgerSum, Package
<1>4. d \in Int /\ e \in Entry /\ e.package = p /\ e.delta = IF refund THEN -d ELSE d
  <2>1. d \in Int
    BY <1>3 DEF Delta, Package
  <2>2. QED
    BY <1>3, <2>1 DEF Effect, Entry
<1>5. /\ Booked(q) \in Int
      /\ Booked(q)' = Booked(q) + (IF e.package = q THEN e.delta ELSE 0)
  <2> HIDE DEF e
  <2>1. QED
    BY <1>3, <1>4, BookedAppend
<1>6. ~IsCancelled(q)
  <2>1. SUFFICES ASSUME NEW o \in Opens, package[o] = q, status[o] = "reversed"
                 PROVE  FALSE
    BY DEF IsCancelled
  <2>2. o \in Requests /\ o # r
    BY <1>3, <2>1 DEF Requests
  <2>3. package'[o] = q /\ status'[o] = "reversed"
    BY <1>2, <2>1, <2>2
  <2>4. QED
    BY <1>1, <2>1, <2>3 DEF IsCancelled
<1>7. CASE q # p
  BY <1>2, <1>3, <1>4, <1>5, <1>6, <1>7
<1>8. CASE q = p
  <2>1. ~(r \in Opens /\ refund)
    BY <1>1, <1>2, <1>8 DEF IsCancelled
  <2>2. /\ k.qty \in Nat
        /\ r \in Opens /\ status[r] = "new" => pkg[p] = Unopened /\ k.qty = k.total
        /\ r \notin Opens /\ status[r] = "new" => k.qty = pkg[p].qty - 1
        /\ r \notin Opens /\ status[r] = "committed" => k.qty = pkg[p].qty + 1
    BY CommitRow
  <2>3. d = IF r \in Opens THEN k.total ELSE -1
    BY DEF Delta
  <2>4. Unopened.qty = 0
    BY DEF Unopened
  <2> HIDE DEF r, k, d, e
  <2>5. QED
    BY <1>2, <1>3, <1>4, <1>5, <1>6, <1>8, <2>1, <2>2, <2>3, <2>4 DEF refund
<1>9. QED
  BY <1>7, <1>8

LEMMA CommitStep ==
  ASSUME PrepaidInv, NEW s \in Sessions, Commit(s)
  PROVE  PrepaidInv'
<1>1. TypesOK /\ LocksOK /\ TablesOK
  BY InvParts
<1>2. Published(s) /\ pc[s] = "commit" /\ s \in Actors
  BY <1>1, CommitShape
<1>3. PICK p \in Packages : Committing(s, p)
  BY <1>1, CommitShape DEF Committing
<1>4. TypeOK'
  BY <1>1, CommitTypes
<1>5. JobOK' /\ (\A t \in Sessions : SessionOK(t)') /\ LocksOK'
  BY <1>1, <1>2, <1>4, PublishedWork DEF TypeOK
<1>6. TablesOK'
  BY <1>3, CommitBooks, CommitUnits, CommitQty DEF TablesOK
<1>7. QED
  BY <1>4, <1>5, <1>6 DEF PrepaidInv, TablesOK

\* The job changes no quantities.
LEMMA CommitJobRows ==
  ASSUME TypesOK, CommitJob
  PROVE  /\ \A p \in Packages :
              pkg'[p] = pkg[p] \/ (pkg[p].status = "active" /\ pkg'[p] = Expired(pkg[p]))
         /\ \A p \in Packages : /\ pkg'[p].qty = pkg[p].qty /\ pkg'[p].total = pkg[p].total
                                /\ pkg'[p].status = "none" <=> pkg[p].status = "none"
                                /\ pkg'[p].status = "none" => pkg'[p] = pkg[p]
<1>1. \A p \in Packages :
        pkg'[p] = pkg[p] \/ (pkg[p].status = "active" /\ pkg'[p] = Expired(pkg[p]))
  BY DEF CommitJob, Publish, TypesOK, JobOK
<1>2. \A p \in Packages : pkg[p] \in Package
  BY DEF TypesOK, TypeOK
<1>3. \A p \in Packages : /\ Expired(pkg[p]).qty = pkg[p].qty
                          /\ Expired(pkg[p]).total = pkg[p].total
                          /\ Expired(pkg[p]).status = "expired"
  BY <1>2 DEF Package, Expired
<1>4. QED
  BY <1>1, <1>3

LEMMA CommitJobStep ==
  ASSUME PrepaidInv, CommitJob
  PROVE  PrepaidInv'
<1>1. TypesOK /\ LocksOK /\ TablesOK
  BY InvParts
<1>2. Published(Job) /\ Job \in Actors
  BY DEF CommitJob, Published, Actors
<1>3. status' = status /\ package' = package /\ ledger' = ledger /\ now' = now
  BY DEF CommitJob
<1>4. TypeOK'
  BY <1>1, <1>2, <1>3, PublishedRest DEF TypesOK, TypeOK, Versions
<1>5. JobOK' /\ (\A t \in Sessions : SessionOK(t)') /\ LocksOK'
  BY <1>1, <1>2, <1>4, PublishedWork DEF TypeOK
<1>6. \A p \in Packages : /\ pkg'[p].qty = pkg[p].qty /\ pkg'[p].total = pkg[p].total
                          /\ pkg'[p].status = "none" <=> pkg[p].status = "none"
                          /\ pkg'[p].status = "none" => pkg'[p] = pkg[p]
  BY <1>1, CommitJobRows
<1>7. BooksOK'
  BY <1>1, <1>3, <1>6 DEF TablesOK, BooksOK
<1>8. QtyIsLedgerSum'
  BY <1>1, <1>3, <1>6 DEF TablesOK, QtyIsLedgerSum, Booked, IsCancelled
<1>9. UnitsPaidFor'
  BY <1>1, <1>3, <1>6 DEF TablesOK, UnitsPaidFor, Used, UsedBy
<1>10. EffectOnce'
  BY <1>1, <1>3 DEF TablesOK, EffectOnce
<1>11. QED
  BY <1>4, <1>5, <1>7, <1>8, <1>9, <1>10 DEF PrepaidInv

-----------------------------------------------------------------------------
(* Every step *)

LEMMA InitInv ==
  ASSUME Init
  PROVE  PrepaidInv
<1>1. DOMAIN NoRow = {} /\ <<>> \in Seq(Packages) /\ <<>> \in Seq(Entry) /\ Unopened \in Package
  BY EmptyRow DEF Unopened, Package, States
<1>2. TypeOK
  BY <1>1 DEF Init, TypeOK
<1>3. JobOK /\ (\A s \in Sessions : SessionOK(s)) /\ LocksOK
  BY <1>1, PrepaidAssumption DEF Init, JobOK, SessionOK, LocksOK, TxFree, Actors
<1>4. BooksOK /\ EffectOnce
  BY DEF Init, BooksOK, EffectOnce, Unopened
<1>5. ASSUME NEW p \in Packages
      PROVE  Used(p) = 0 /\ Booked(p) = 0 /\ pkg[p] = Unopened
  <2>1. UsedBy(p) = {}
    BY DEF Init, UsedBy, Requests
  <2>2. [i \in DOMAIN ledger |-> IF ledger[i].package = p THEN ledger[i].delta ELSE 0] = <<>>
    BY DEF Init
  <2>3. QED
    BY <2>1, <2>2, FS_EmptySet, TotalEmpty DEF Init, Used, Booked
<1>6. QtyIsLedgerSum /\ UnitsPaidFor
  BY <1>5 DEF QtyIsLedgerSum, UnitsPaidFor, Unopened
<1>7. QED
  BY <1>2, <1>3, <1>4, <1>6 DEF PrepaidInv

\* A statement, or one of the two commits.
LEMMA StepKinds ==
  ASSUME PrepaidInv, Next
  PROVE  \/ \E s \in Actors : Statement(s)
         \/ \E s \in Sessions : Commit(s)
         \/ CommitJob
         \/ Tick
<1>1. TypesOK /\ LocksOK /\ BooksOK
  BY InvParts DEF TablesOK
<1>2. Sessions \subseteq Actors /\ Job \in Actors
  BY DEF Actors
<1>3. ASSUME NEW s \in Sessions, Begin(s)
      PROVE  Statement(s)
  <2>1. CASE \E r \in Opens, p \in Packages, b \in Bundles : BeginOpen(s, r, p, b)
    BY <1>1, <2>1, BeginOpenStep
  <2>2. CASE \E r \in Uses : BeginConsume(s, r, Packages)
    BY <1>1, <2>2, BeginConsumeStep
  <2>3. CASE \E r \in Uses, p \in Packages : BeginConsume(s, r, {p})
    <3>1. PICK r \in Uses, p \in Packages : BeginConsume(s, r, {p})
      BY <2>3
    <3>2. {p} \in SUBSET Packages
      OBVIOUS
    <3>3. QED
      BY <1>1, <3>1, <3>2, BeginConsumeStep
  <2>4. CASE \E r \in Requests : BeginRefund(s, r)
    BY <1>1, <2>4, BeginRefundStep
  <2>5. QED
    BY <1>3, <2>1, <2>2, <2>3, <2>4 DEF Begin
<1>4. ASSUME NEW s \in Sessions, Advance(s), ~Commit(s)
      PROVE  Statement(s)
  <2>1. CASE PickPackage(s)
    BY <1>1, <2>1, PickStep
  <2>2. CASE NotFound(s) \/ RecordFails(s)
    BY <1>1, <1>2, <2>2, RollBackStep DEF NotFound, RecordFails
  <2>3. CASE Record(s)
    BY <1>1, <2>3, RecordStep
  <2>4. CASE Restore(s)
    BY <1>1, <2>4, RestoreStep
  <2>5. QED
    BY <1>4, <2>1, <2>2, <2>3, <2>4 DEF Advance
<1>5. ASSUME NEW s \in Actors, Abort(s)
      PROVE  Statement(s)
  BY <1>1, <1>5, RollBackStep DEF Abort
<1>6. ASSUME JobStep
      PROVE  Statement(Job) \/ CommitJob
  BY <1>1, <1>6, BeginExpireStep, ExpirePackageStep DEF JobStep
<1>7. QED
  BY <1>2, <1>3, <1>4, <1>5, <1>6 DEF Next

LEMMA StepInv ==
  ASSUME PrepaidInv, [Next]_vars
  PROVE  PrepaidInv'
<1>1. CASE Next
  BY <1>1, StepKinds, StatementInv, CommitStep, CommitJobStep, TickStep
<1>2. CASE UNCHANGED vars
  BY <1>2, StutterStep
<1>3. QED
  BY <1>1, <1>2

\* Everything that PrepaidInv says of packages, transactions, the ledger and
\* the locks holds in every reachable state.
THEOREM PrepaidInvariant == Spec => []PrepaidInv
<1>1. Init => PrepaidInv
  BY InitInv
<1>2. PrepaidInv /\ [Next]_vars => PrepaidInv'
  BY StepInv
<1>3. QED
  BY <1>1, <1>2, PTL DEF Spec

\* Rows satisfy their CHECKs at all times (models/loyalty.py:99-105).
THEOREM PrepaidTypes == Spec => []TypeOK
<1>1. PrepaidInv => TypeOK
  BY DEF PrepaidInv
<1>2. QED
  BY <1>1, PrepaidInvariant, PTL

\* What is left of a package is what its ledger entries add up to, unless its
\* sale has been refunded (models/ledger.py:3-5).
THEOREM QtyFollowsLedger == Spec => []QtyIsLedgerSum
<1>1. PrepaidInv => QtyIsLedgerSum
  BY DEF PrepaidInv
<1>2. QED
  BY <1>1, PrepaidInvariant, PTL

\* No order of sales, uses, refunds, retries and expirations gives a customer
\* more units than were paid for (prepaid.py:166-167, refund.py:329-341).
THEOREM NeverMoreThanPaid == Spec => []UnitsPaidFor
<1>1. PrepaidInv => UnitsPaidFor
  BY DEF PrepaidInv
<1>2. QED
  BY <1>1, PrepaidInvariant, PTL

\* A request and its refund each take effect at most once (idempotency.py:1,
\* refund.py:75-94).
THEOREM NothingTwice == Spec => []EffectOnce
<1>1. PrepaidInv => EffectOnce
  BY DEF PrepaidInv
<1>2. QED
  BY <1>1, PrepaidInvariant, PTL

\* What a step does to the tables.
LEMMA TableChange ==
  ASSUME PrepaidInv, [Next]_vars
  PROVE  \/ UNCHANGED db
         \/ \E s, p : Committing(s, p)
         \/ TypesOK /\ CommitJob
<1>1. TypesOK /\ TablesOK
  BY InvParts
<1>2. CASE \E s \in Actors : Statement(s)
  BY <1>2 DEF Statement
<1>3. ASSUME NEW s \in Sessions, Commit(s)
      PROVE  \E p : Committing(s, p)
  BY <1>1, <1>3, CommitShape DEF Committing
<1>4. CASE Tick
  BY <1>4 DEF Tick
<1>5. CASE UNCHANGED vars
  BY <1>5 DEF vars, db
<1>6. QED
  BY <1>1, <1>2, <1>3, <1>4, <1>5, StepKinds

\* Units are only taken from packages that are active at that moment, whatever
\* expires or cancels them at the same time (prepaid.py:160-167).
THEOREM TakesFromActive == Spec => UsesOnlyActive
<1> DEFINE A == \A r \in Uses : status[r] = "new" /\ status'[r] = "committed"
                                  => pkg[package'[r]].status = "active"
<1>1. ASSUME PrepaidInv, [Next]_vars, NEW r \in Uses, status[r] = "new", status'[r] = "committed"
      PROVE  pkg[package'[r]].status = "active"
  <2>1. status' # status
    BY <1>1
  <2>2. PICK s, p : Committing(s, p)
    BY <1>1, <2>1, TableChange DEF db, CommitJob
  <2>3. r \in Requests /\ r = req[s] /\ package'[r] = p
    BY <1>1, <2>2, CommitOthers DEF Requests
  <2>4. r \notin Opens
    BY PrepaidAssumption
  <2>5. QED
    BY <1>1, <2>2, <2>3, <2>4, CommitRow DEF Usable
<1>2. PrepaidInv /\ [Next]_vars => [A]_vars
  BY <1>1
<1>3. QED
  BY <1>2, PrepaidInvariant, PTL DEF Spec, UsesOnlyActive

\* The packages implement pools of paid units.
THEOREM ImplementsPool == Spec => PoolSpec
<1> DEFINE l == [p \in Packages |-> pkg[p].qty]
           u == [p \in Packages |-> Used(p)]
<1>1. ASSUME Init
      PROVE  Pool!Init
  <2>1. PrepaidInv
    BY <1>1, InitInv
  <2>2. \A p \in Packages : pkg[p] = Unopened /\ Unopened.qty = 0
    BY <1>1 DEF Init, Unopened
  <2>3. \A p \in Packages : Used(p) = 0
    BY <2>1, <2>2, UnopenedUnused DEF PrepaidInv
  <2>4. QED
    BY <2>2, <2>3 DEF Pool!Init
<1>2. ASSUME NEW s, NEW p, Committing(s, p)
      PROVE  Pool!Next
  <2> DEFINE k == mine[s][p]
             r == req[s]
  <2>1. p \in Packages /\ BooksOK /\ status[r] \in {"new", "committed"}
    BY <1>2 DEF Committing, TablesOK
  <2>2. \A q \in Packages : pkg'[q] = IF q = p THEN k ELSE pkg[q]
    BY <1>2, CommitOthers
  <2>3. \A q \in Packages :
          /\ Used(q) \in Nat /\ Used(q)' \in Nat
          /\ Used(q)' = IF q # p \/ r \in Opens THEN Used(q)
                        ELSE IF status[r] = "committed" THEN Used(q) - 1 ELSE Used(q) + 1
    BY <1>2, CommitUsed
  <2>4. l' = [l EXCEPT ![p] = k.qty]
    BY <2>1, <2>2
  <2>5. u' = [u EXCEPT ![p] = Used(p)']
    BY <2>1, <2>3
  <2>6. /\ pkg[p].qty \in Nat /\ k.qty \in Nat
        /\ r \in Opens /\ status[r] = "new" => pkg[p] = Unopened /\ k.qty > 0
        /\ r \in Opens /\ status[r] = "committed" => k.qty = 0
        /\ r \notin Opens /\ status[r] = "new" =>
             Usable(pkg[p]) /\ k.qty = pkg[p].qty - 1
        /\ r \notin Opens /\ status[r] = "committed" => k.qty = pkg[p].qty + 1
    BY <1>2, CommitRow
  <2>7. l[p] = pkg[p].qty /\ u[p] = Used(p) /\ l'[p] = k.qty
    BY <2>1, <2>2
  <2>8. pkg[p] = Unopened => pkg[p].qty = 0 /\ Used(p) = 0
    BY <2>1, UnopenedUnused DEF Unopened
  <2> HIDE DEF k, r, l, u
  <2>9. CASE r \in Opens /\ status[r] = "new"
    <3>1. Used(p)' = 0 /\ l'[p] \in Nat \ {0}
      BY <2>1, <2>3, <2>6, <2>7, <2>8, <2>9
    <3>2. Pool!Sell(p)
      BY <2>4, <2>5, <2>6, <2>7, <2>8, <2>9, <3>1 DEF Pool!Sell, Pool!Move, l, u
    <3>3. QED
      BY <2>1, <3>2 DEF Pool!Next
  <2>10. CASE r \in Opens /\ status[r] = "committed"
    <3>1. Pool!Cancel(p)
      BY <2>1, <2>3, <2>4, <2>5, <2>6, <2>7, <2>10 DEF Pool!Cancel, Pool!Move, l, u
    <3>2. QED
      BY <2>1, <3>1 DEF Pool!Next
  <2>11. CASE r \notin Opens /\ status[r] = "new"
    <3>1. pkg[p].qty > 0
      BY <2>6, <2>11 DEF Usable
    <3>2. Pool!Use(p)
      BY <2>1, <2>3, <2>4, <2>5, <2>6, <2>7, <2>11, <3>1 DEF Pool!Use, Pool!Move, l, u
    <3>3. QED
      BY <2>1, <3>2 DEF Pool!Next
  <2>12. CASE r \notin Opens /\ status[r] = "committed"
    <3>1. Used(p) > 0
      <4>1. Used(p)' \in Nat /\ Used(p)' = Used(p) - 1
        BY <2>1, <2>3, <2>12
      <4>2. QED
        BY <2>1, <2>3, <4>1
    <3>2. Pool!GiveBack(p)
      BY <2>1, <2>3, <2>4, <2>5, <2>6, <2>7, <2>12, <3>1 DEF Pool!GiveBack, Pool!Move, l, u
    <3>3. QED
      BY <2>1, <3>2 DEF Pool!Next
  <2>13. QED
    BY <2>1, <2>9, <2>10, <2>11, <2>12
<1>3. ASSUME TypesOK, CommitJob
      PROVE  UNCHANGED <<l, u>>
  BY <1>3, CommitJobRows DEF CommitJob, Used, UsedBy
<1>4. ASSUME UNCHANGED db
      PROVE  UNCHANGED <<l, u>>
  BY <1>4 DEF db, Used, UsedBy
<1>5. PrepaidInv /\ [Next]_vars => [Pool!Next]_<<l, u>>
  BY <1>2, <1>3, <1>4, TableChange
<1>6. QED
  BY <1>1, <1>5, PrepaidInvariant, PTL DEF Spec, PoolSpec, Pool!Spec
=============================================================================
