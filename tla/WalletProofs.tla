---------------------------- MODULE WalletProofs ----------------------------
(***************************************************************************)
(* The wallet's safety for every number of workers, purchases and rows.    *)
(***************************************************************************)
EXTENDS Wallet, SumsProofs, FiniteSetTheorems

Typed == TypeOK /\ ProgramOK

LEMMA JobIsNoSession == Job \notin Sessions /\ NoOne \notin Actors /\ NoOne \notin Sales
BY PlansAssumption DEF Actors

LEMMA KeyTypes ==
  ASSUME NEW p \in Sales
  PROVE  /\ <<"earn", p>> \in Keys /\ <<"spend", p>> \in Keys
         /\ <<"refund", p>> \in Keys /\ <<"refund_spend", p>> \in Keys
BY DEF Keys

LEMMA CallTypes ==
  ASSUME NEW p \in Sales, NEW a \in Nat \ {0}, NEW l \in Nat
  PROVE  /\ Debit(a, <<"spend", p>>) \in Call
         /\ Clawback(a, <<"refund", p>>) \in Call
         /\ Credit("refund", a, <<"refund_spend", p>>, 0) \in Call
         /\ Credit("earn", a, <<"earn", p>>, l) \in Call
BY KeyTypes DEF Debit, Clawback, Credit, Call

\* A purchase asks for well-formed calls ...
LEMMA SaleCallsType ==
  ASSUME NEW p \in Sales, NEW plan \in Plans[p]
  PROVE  SaleCalls(p, plan) \in Seq(Call) /\ SaleLedger(plan) \in Seq(Int \ {0})
<1>1. plan.spend \in Nat /\ plan.earn \in Seq(Earnings)
  BY PlansAssumption
<1>2. \A i \in 1..Len(plan.earn) : plan.earn[i].amount \in Nat \ {0} /\ plan.earn[i].life \in Nat
  <2>1. \A i \in 1..Len(plan.earn) : plan.earn[i] \in Earnings
    BY <1>1, ElementOfSeq
  <2>2. QED
    BY <2>1 DEF Earnings
<1> DEFINE spends == IF plan.spend > 0 THEN <<Debit(plan.spend, <<"spend", p>>)>> ELSE <<>>
           earns == [i \in DOMAIN plan.earn |->
                       Credit("earn", plan.earn[i].amount, <<"earn", p>>, plan.earn[i].life)]
           paid == IF plan.spend > 0 THEN <<-plan.spend>> ELSE <<>>
           got == [i \in DOMAIN plan.earn |-> plan.earn[i].amount]
<1>3. DOMAIN plan.earn = 1..Len(plan.earn) /\ Len(plan.earn) \in Nat
  BY <1>1, LenProperties
<1>4. spends \in Seq(Call)
  <2>1. ASSUME plan.spend > 0
        PROVE  Debit(plan.spend, <<"spend", p>>) \in Call
    <3>1. plan.spend \in Nat \ {0} /\ 0 \in Nat
      BY <2>1, <1>1
    <3>2. QED
      BY <3>1, CallTypes
  <2>2. QED
    BY <2>1
<1>5. earns \in Seq(Call)
  <2>1. \A i \in 1..Len(plan.earn) :
          Credit("earn", plan.earn[i].amount, <<"earn", p>>, plan.earn[i].life) \in Call
    BY <1>2, CallTypes
  <2>2. QED
    BY <1>3, <2>1
<1>6. paid \in Seq(Int \ {0}) /\ got \in Seq(Int \ {0})
  <2>1. paid \in Seq(Int \ {0})
    <3>1. CASE plan.spend > 0
      <4>1. \A x \in Int \ {0} : <<x>> \in Seq(Int \ {0})
        OBVIOUS
      <4>2. -plan.spend \in Int \ {0}
        BY <1>1, <3>1
      <4>3. <<-plan.spend>> \in Seq(Int \ {0})
        BY <4>1, <4>2
      <4>4. QED
        BY <3>1, <4>3
    <3>2. CASE ~(plan.spend > 0)
      BY <3>2
    <3>3. QED
      BY <3>1, <3>2
  <2>2. got \in Seq(Int \ {0})
    <3>1. \A i \in 1..Len(plan.earn) : plan.earn[i].amount \in Int \ {0}
      BY <1>2
    <3>2. QED
      BY <1>3, <3>1
  <2>3. QED
    BY <2>1, <2>2
<1>7. spends \o earns \in Seq(Call) /\ paid \o got \in Seq(Int \ {0})
  <2> HIDE DEF spends, earns, paid, got
  <2>1. QED
    BY <1>4, <1>5, <1>6, ConcatProperties
<1>8. QED
  BY <1>7 DEF SaleCalls, SaleLedger

\* ... and so does a refund.
LEMMA RefundCallsType ==
  ASSUME TypeOK, NEW p \in Sales, NEW order \in Orders(Len(ledger[p]))
  PROVE  [i \in DOMAIN order |-> Compensation(p, ledger[p][order[i]])] \in Seq(Call)
<1>1. ledger[p] \in Seq(Int \ {0})
  BY DEF TypeOK
<1>2. Len(ledger[p]) \in Nat /\ order \in [1..Len(ledger[p]) -> 1..Len(ledger[p])]
  BY <1>1, LenProperties DEF Orders
<1>3. ASSUME NEW i \in 1..Len(ledger[p])
      PROVE  Compensation(p, ledger[p][order[i]]) \in Call
  <2>1. ledger[p][order[i]] \in Int \ {0}
    BY <1>1, <1>2, ElementOfSeq
  <2> DEFINE change == ledger[p][order[i]]
  <2> HIDE DEF change
  <2>2. change \in Int \ {0}
    BY <2>1 DEF change
  <2>3. Compensation(p, change) \in Call
    <3>1. CASE change > 0
      <4>1. change \in Nat \ {0}
        BY <2>2, <3>1
      <4>2. QED
        BY <3>1, <4>1, CallTypes DEF Compensation
    <3>2. CASE ~(change > 0)
      <4>1. -change \in Nat \ {0}
        BY <2>2, <3>2
      <4>2. QED
        BY <3>2, <4>1, CallTypes DEF Compensation
    <3>3. QED
      BY <3>1, <3>2
  <2>4. QED
    BY <2>3 DEF change
<1>4. QED
  BY <1>2, <1>3

\* Rows inserted by any transaction are rows.
LEMMA EntryType ==
  ASSUME TypeOK, NEW s \in Actors, NEW amount \in Int,
         NEW kind \in {"earn", "spend", "refund", "expire"}, NEW key \in Keys,
         NEW expires \in Nat
  PROVE  Entry(s, amount, kind, key, expires) \in Row
BY DEF TypeOK, Entry, Row

LEMMA ProgramParts ==
  ASSUME Typed
  PROVE  /\ \A s \in Sessions : prog[s] # <<>> =>
              Head(prog[s]) \in Call /\ Tail(prog[s]) \in Seq(Call)
         /\ prog[Job] # <<>> =>
              Head(prog[Job]) \in Selected /\ Tail(prog[Job]) \in Seq(Selected)
BY HeadTailProperties DEF Typed, ProgramOK, SessionOK, JobOK

-----------------------------------------------------------------------------
(* Types *)

LEMMA TypedInit ==
  ASSUME Init
  PROVE  Typed
<1>1. TypeOK
  <2>1. <<>> \in Seq(Row) /\ <<>> \in Seq(Int \ {0})
    OBVIOUS
  <2>2. now \in Nat /\ balance \in Int
    BY DEF Init
  <2>2a. made \in BOOLEAN
    BY DEF Init
  <2>2b. rows \in Seq(Row)
    BY <2>1 DEF Init
  <2>3. ledger \in [Sales -> Seq(Int \ {0})] /\ new \in [Actors -> Seq(Row)]
    BY <2>1 DEF Init
  <2>4. creates \in [Actors -> BOOLEAN]
    BY DEF Init
  <2>5. QED
    BY <2>2, <2>2a, <2>2b, <2>3, <2>4 DEF Init, TypeOK, Labels
<1>2. ProgramOK
  <2>1. <<>> \in Seq(Call) /\ <<>> \in Seq(Selected)
    OBVIOUS
  <2>2. QED
    BY <2>1 DEF Init, ProgramOK, SessionOK, JobOK, Actors
<1>3. QED
  BY <1>1, <1>2 DEF Typed

LEMMA TypedRollBack ==
  ASSUME Typed, NEW s \in Actors, pc[s] # "idle", RollBack(s)
  PROVE  Typed'
<1>1. TypeOK'
  <2>1. /\ (now \in Nat /\ made \in BOOLEAN /\ balance \in Int /\ rows \in Seq(Row))'
        /\ (holder \in Actors \cup {NoOne})'
    BY DEF Typed, TypeOK, RollBack
  <2>2. (sale \in [Sales -> {"new", "recording", "committed", "refunding", "reversed"}])'
    BY DEF Typed, TypeOK, RollBack
  <2>3. (ledger \in [Sales -> Seq(Int \ {0})])'
    <3>1. <<>> \in Seq(Int \ {0})
      OBVIOUS
    <3>2. QED
      BY <3>1 DEF Typed, TypeOK, RollBack
  <2>4. /\ (pc \in [Actors -> Labels])' /\ (work \in [Actors -> Sales \cup {NoOne}])'
        /\ (seen \in [Actors -> Int] /\ born \in [Actors -> Nat])'
    BY DEF Typed, TypeOK, RollBack, Goto, Labels
  <2>5. (new \in [Actors -> Seq(Row)] /\ delta \in [Actors -> Int])'
    BY DEF Typed, TypeOK, RollBack
  <2>6. (creates \in [Actors -> BOOLEAN])'
    BY DEF Typed, TypeOK, RollBack
  <2>7. (ver = [t \in Actors |-> ver[t]] /\ prog = [t \in Actors |-> prog[t]])'
    BY DEF Typed, TypeOK, RollBack
  <2>8. QED
    BY <2>1, <2>2, <2>3, <2>4, <2>5, <2>6, <2>7 DEF TypeOK
<1>2. ProgramOK'
  BY JobIsNoSession DEF Typed, TypeOK, ProgramOK, SessionOK, JobOK, RollBack, Goto, Actors
<1>3. QED
  BY <1>1, <1>2 DEF Typed

LEMMA TypedBeginSale ==
  ASSUME Typed, NEW s \in Sessions, NEW p \in Sales, NEW plan \in Plans[p],
         BeginSale(s, p, plan)
  PROVE  Typed'
<1>1. SaleCalls(p, plan) \in Seq(Call) /\ SaleLedger(plan) \in Seq(Int \ {0})
  BY SaleCallsType
<1>2. TypeOK'
  BY <1>1, JobIsNoSession DEF Typed, TypeOK, BeginSale, private, Goto, Actors, Labels
<1>3. ProgramOK'
  BY <1>1, JobIsNoSession DEF Typed, TypeOK, ProgramOK, SessionOK, JobOK, BeginSale, private, Goto, Actors
<1>4. QED
  BY <1>2, <1>3 DEF Typed

LEMMA TypedBeginRefund ==
  ASSUME Typed, NEW s \in Sessions, NEW p \in Sales,
         NEW order \in Orders(Len(ledger[p])), BeginRefund(s, p, order)
  PROVE  Typed'
<1> DEFINE calls == [i \in DOMAIN order |-> Compensation(p, ledger[p][order[i]])]
<1>1. calls \in Seq(Call)
  BY RefundCallsType DEF Typed
<1> HIDE DEF calls
<1>2. prog' = [prog EXCEPT ![s] = calls]
  BY DEF BeginRefund, calls
<1>3. TypeOK'
  BY <1>1, <1>2, JobIsNoSession DEF Typed, TypeOK, BeginRefund, private, Goto, Actors, Labels
<1>4. ProgramOK'
  BY <1>1, <1>2, JobIsNoSession DEF Typed, TypeOK, ProgramOK, SessionOK, JobOK, BeginRefund, private, Goto, Actors
<1>5. QED
  BY <1>3, <1>4 DEF Typed

\* The rows a commit publishes.
LEMMA CommitRows ==
  ASSUME Typed, LotsOK, NEW s \in Actors, Commit(s)
  PROVE  /\ rows' \in Seq(Row) /\ Len(rows') = Len(rows) + Len(new[s])
         /\ \A i \in 1..Len(rows) :
              rows'[i] = IF i \in DOMAIN ver[s] THEN [rows[i] EXCEPT !.spent = ver[s][i]]
                                               ELSE rows[i]
         /\ \A k \in 1..Len(new[s]) : rows'[Len(rows) + k] = new[s][k]
<1> DEFINE old == [i \in DOMAIN rows |->
                     IF i \in DOMAIN ver[s] THEN [rows[i] EXCEPT !.spent = ver[s][i]]
                                            ELSE rows[i]]
<1>1. rows \in Seq(Row) /\ new[s] \in Seq(Row)
  BY DEF Typed, TypeOK
<1>2. DOMAIN rows = 1..Len(rows) /\ Len(rows) \in Nat /\ \A i \in 1..Len(rows) : rows[i] \in Row
  BY <1>1, LenProperties, ElementOfSeq
<1>3. ASSUME NEW i \in 1..Len(rows)
      PROVE  (IF i \in DOMAIN ver[s] THEN [rows[i] EXCEPT !.spent = ver[s][i]] ELSE rows[i]) \in Row
  <2>1. CASE i \in DOMAIN ver[s]
    <3>1. rows[i] \in Row /\ ver[s][i] \in rows[i].spent..rows[i].amount
      BY <1>2, <2>1 DEF LotsOK, VersionsOK
    <3>2. ver[s][i] \in Nat
      BY <3>1 DEF Row
    <3>3. QED
      BY <2>1, <3>1, <3>2 DEF Row
  <2>2. QED
    BY <1>2, <2>1
<1>4. old \in Seq(Row) /\ Len(old) = Len(rows)
  BY <1>2, <1>3
<1>5. rows' = old \o new[s]
  BY DEF Commit
<1>6. \A i \in 1..Len(rows) :
        old[i] = IF i \in DOMAIN ver[s] THEN [rows[i] EXCEPT !.spent = ver[s][i]] ELSE rows[i]
  BY <1>2
<1> HIDE DEF old
<1>7. /\ old \o new[s] \in Seq(Row) /\ Len(old \o new[s]) = Len(old) + Len(new[s])
      /\ \A i \in 1..Len(old) : (old \o new[s])[i] = old[i]
      /\ \A k \in 1..Len(new[s]) : (old \o new[s])[Len(old) + k] = new[s][k]
  BY <1>1, <1>4
<1>8. QED
  BY <1>4, <1>5, <1>6, <1>7

LEMMA TypedCommit ==
  ASSUME Typed, LotsOK, NEW s \in Actors, Commit(s)
  PROVE  Typed'
<1>1. rows' \in Seq(Row)
  BY CommitRows
<1>2. TypeOK'
  <2>1. /\ (now \in Nat /\ made \in BOOLEAN /\ balance \in Int /\ rows \in Seq(Row))'
        /\ (holder \in Actors \cup {NoOne})'
    BY <1>1 DEF Typed, TypeOK, Commit, BalanceFor
  <2>2. (sale \in [Sales -> {"new", "recording", "committed", "refunding", "reversed"}])'
    BY DEF Typed, TypeOK, Commit
  <2>3. (ledger \in [Sales -> Seq(Int \ {0})])'
    BY DEF Typed, TypeOK, Commit
  <2>4. /\ (pc \in [Actors -> Labels])' /\ (work \in [Actors -> Sales \cup {NoOne}])'
        /\ (seen \in [Actors -> Int] /\ born \in [Actors -> Nat])'
    BY DEF Typed, TypeOK, Commit, Goto, Labels
  <2>5. (new \in [Actors -> Seq(Row)] /\ delta \in [Actors -> Int])'
    BY DEF Typed, TypeOK, Commit
  <2>6. (creates \in [Actors -> BOOLEAN])'
    BY DEF Typed, TypeOK, Commit
  <2>7. (ver = [t \in Actors |-> ver[t]] /\ prog = [t \in Actors |-> prog[t]])'
    BY DEF Typed, TypeOK, Commit
  <2>8. QED
    BY <2>1, <2>2, <2>3, <2>4, <2>5, <2>6, <2>7 DEF TypeOK
<1>3. ProgramOK'
  BY JobIsNoSession DEF Typed, TypeOK, ProgramOK, SessionOK, JobOK, Commit, Goto, Actors
<1>4. QED
  BY <1>2, <1>3 DEF Typed

\* A statement moves one session to label l with the calls q left.
LEMMA Moved ==
  ASSUME Typed, NEW s \in Sessions, NEW l, NEW q \in Seq(Call),
         pc' = [pc EXCEPT ![s] = l], prog' = [prog EXCEPT ![s] = q], work' = work,
         pc[s] # "idle", l \notin {"idle", "mark", "burn"},
         l # "call" => q # <<>>,
         l = "make" => Head(q).op \in {"credit", "debit"},
         l \in {"insert", "bump"} => Head(q).op = "credit",
         l \in {"lock", "allocate", "charge"} => Head(q).op = "debit"
  PROVE  ProgramOK'
<1>1. s \in Actors /\ s # Job /\ Job \in Actors
  BY JobIsNoSession DEF Actors
<1>2. JobOK'
  BY <1>1 DEF Typed, TypeOK, ProgramOK, JobOK
<1>3. ASSUME NEW t \in Sessions
      PROVE  SessionOK(t)'
  <2>1. CASE t = s
    BY <2>1, <1>1 DEF Typed, TypeOK, ProgramOK, SessionOK
  <2>2. CASE t # s
    BY <2>2, <1>1 DEF Typed, TypeOK, ProgramOK, SessionOK, Actors
  <2>3. QED
    BY <2>1, <2>2
<1>4. QED
  BY <1>2, <1>3 DEF ProgramOK

\* What the session is about to do, for the statements inside a call.
LEMMA InCall ==
  ASSUME Typed, NEW s \in Sessions, pc[s] \notin {"idle", "call"} \/ prog[s] # <<>>
  PROVE  /\ prog[s] \in Seq(Call) /\ prog[s] # <<>>
         /\ Tail(prog[s]) \in Seq(Call)
         /\ Head(prog[s]).amount \in Nat \ {0} /\ Head(prog[s]).life \in Nat
         /\ Head(prog[s]).key \in Keys /\ Head(prog[s]).kind \in {"earn", "spend", "refund"}
         /\ Head(prog[s]).kind = "earn" => Head(prog[s]).op = "credit"
         /\ prog = [prog EXCEPT ![s] = prog[s]]
         /\ pc[s] = "make" => Head(prog[s]).op \in {"credit", "debit"}
         /\ pc[s] \in {"insert", "bump"} => Head(prog[s]).op = "credit"
         /\ pc[s] \in {"lock", "allocate", "charge"} => Head(prog[s]).op = "debit"
<1>1. prog[s] # <<>> /\ SessionOK(s)
  BY DEF Typed, ProgramOK, SessionOK
<1>2. Head(prog[s]) \in Call /\ Tail(prog[s]) \in Seq(Call)
  BY <1>1, ProgramParts
<1>3. prog = [prog EXCEPT ![s] = prog[s]]
  BY DEF Typed, TypeOK
<1>4. QED
  BY <1>1, <1>2, <1>3 DEF SessionOK, Call

\* Return leaves a session between two calls.
LEMMA Returned ==
  ASSUME Typed, NEW s \in Sessions, pc[s] # "idle", prog[s] # <<>>, Return(s), work' = work
  PROVE  ProgramOK'
<1>1. Tail(prog[s]) \in Seq(Call)
  BY InCall
<1>2. pc' = [pc EXCEPT ![s] = "call"] /\ prog' = [prog EXCEPT ![s] = Tail(prog[s])]
  BY DEF Return, Goto
<1>3. QED
  BY <1>1, <1>2, Moved

\* A statement that does not return stays in the same call.
LEMMA Stepped ==
  ASSUME Typed, NEW s \in Sessions, pc[s] # "idle", prog[s] # <<>>, NEW l,
         l \in {"make", "insert", "bump", "lock", "allocate", "charge"},
         pc' = [pc EXCEPT ![s] = l], prog' = prog, work' = work,
         l = "make" => Head(prog[s]).op \in {"credit", "debit"},
         l \in {"insert", "bump"} => Head(prog[s]).op = "credit",
         l \in {"lock", "allocate", "charge"} => Head(prog[s]).op = "debit"
  PROVE  ProgramOK'
<1>1. prog[s] \in Seq(Call) /\ prog = [prog EXCEPT ![s] = prog[s]]
  BY InCall
<1>2. prog' = [prog EXCEPT ![s] = prog[s]]
  BY <1>1
<1>3. QED
  BY <1>1, <1>2, Moved

LEMMA TypedGetOrCreate ==
  ASSUME Typed, NEW s \in Sessions, GetOrCreate(s)
  PROVE  Typed'
<1>1. pc[s] = "call" /\ prog[s] # <<>> /\ Head(prog[s]).op \in {"credit", "debit"}
  BY DEF GetOrCreate, Calling
<1>2. TypeOK'
  <2>1. (IF made THEN BalanceFor(s) ELSE 0) \in Int
    BY DEF Typed, TypeOK, BalanceFor, Actors
  <2>2. seen' \in [Actors -> Int]
    BY <2>1 DEF Typed, TypeOK, GetOrCreate
  <2>3. pc' \in [Actors -> Labels]
    BY DEF Typed, TypeOK, GetOrCreate, Goto, Labels
  <2>4. QED
    BY <2>2, <2>3 DEF Typed, TypeOK, GetOrCreate, db, private
<1>3. ProgramOK'
  <2>1. PICK l \in {"make", "insert", "lock"} :
          /\ pc' = [pc EXCEPT ![s] = l]
          /\ l = "insert" => Head(prog[s]).op = "credit"
          /\ l = "lock" => Head(prog[s]).op = "debit"
    BY <1>1 DEF GetOrCreate, Goto
  <2>2. prog' = prog /\ work' = work
    BY DEF GetOrCreate
  <2>3. QED
    BY <1>1, <2>1, <2>2, Stepped
<1>4. QED
  BY <1>2, <1>3 DEF Typed

LEMMA TypedMakeWallet ==
  ASSUME Typed, NEW s \in Sessions, MakeWallet(s)
  PROVE  Typed'
<1>1. pc[s] = "make"
  BY DEF MakeWallet
<1>2. prog[s] # <<>> /\ Head(prog[s]) \in Call
  BY <1>1, InCall, ProgramParts
<1>3. TypeOK'
  <2>1. creates' \in [Actors -> BOOLEAN]
    BY DEF Typed, TypeOK, MakeWallet
  <2>2. pc' \in [Actors -> Labels]
    BY DEF Typed, TypeOK, MakeWallet, Goto, Labels
  <2>3. QED
    BY <2>1, <2>2 DEF Typed, TypeOK, MakeWallet, db
<1>4. ProgramOK'
  <2>1. Head(prog[s]).op \in {"credit", "debit"}
    BY <1>1, <1>2, InCall
  <2>2. PICK l \in {"insert", "lock"} :
          /\ pc' = [pc EXCEPT ![s] = l]
          /\ l = "insert" => Head(prog[s]).op = "credit"
          /\ l = "lock" => Head(prog[s]).op = "debit"
    BY <2>1 DEF MakeWallet, Goto
  <2>3. prog' = prog /\ work' = work
    BY DEF MakeWallet
  <2>4. QED
    BY <1>1, <1>2, <2>2, <2>3, Stepped
<1>5. QED
  BY <1>3, <1>4 DEF Typed

\* A row joins the rows s has inserted.
LEMMA TypedInsert ==
  ASSUME Typed, NEW s \in Actors, NEW e \in Row, new' = [new EXCEPT ![s] = Append(@, e)]
  PROVE  new' \in [Actors -> Seq(Row)]
<1>1. new[s] \in Seq(Row)
  BY DEF Typed, TypeOK
<1>2. Append(new[s], e) \in Seq(Row)
  BY <1>1, AppendProperties
<1>3. QED
  BY <1>2 DEF Typed, TypeOK

LEMMA TypedInsertCredit ==
  ASSUME Typed, NEW s \in Sessions, InsertCredit(s)
  PROVE  Typed'
<1> DEFINE c == Head(prog[s])
           expires == IF c.life = 0 THEN 0 ELSE now + c.life
           e == Entry(s, c.amount, c.kind, c.key, expires)
<1>1. pc[s] = "insert" /\ s \in Actors
  BY DEF InsertCredit, Actors
<1>2. /\ prog[s] # <<>> /\ c.amount \in Nat \ {0} /\ c.life \in Nat /\ c.key \in Keys
      /\ c.kind \in {"earn", "spend", "refund"} /\ c.op = "credit"
  BY <1>1, InCall
<1>3. e \in Row
  <2>1. expires \in Nat
    BY <1>2 DEF Typed, TypeOK
  <2> HIDE DEF expires
  <2>2. QED
    BY <1>1, <1>2, <2>1, EntryType DEF Typed
<1>4. \/ /\ Return(s) /\ new' = new
      \/ /\ new' = [new EXCEPT ![s] = Append(@, e)]
         /\ pc' = [pc EXCEPT ![s] = "bump"] /\ prog' = prog
  BY DEF InsertCredit, Goto
<1>5. /\ work' = work
      /\ UNCHANGED <<now, db, holder, seen, born, ver, delta, creates>>
  BY DEF InsertCredit
<1> HIDE DEF e, c
<1>6. TypeOK'
  <2>1. new' \in [Actors -> Seq(Row)]
    BY <1>1, <1>3, <1>4, TypedInsert DEF Typed, TypeOK
  <2>2. pc' \in [Actors -> Labels] /\ prog' = [t \in Actors |-> prog'[t]]
    BY <1>1, <1>4 DEF Typed, TypeOK, Return, Goto, Labels
  <2>3. QED
    BY <1>5, <2>1, <2>2 DEF Typed, TypeOK, db
<1>7. ProgramOK'
  <2>1. CASE Return(s)
    BY <1>1, <1>2, <1>5, <2>1, Returned
  <2>2. CASE pc' = [pc EXCEPT ![s] = "bump"] /\ prog' = prog
    BY <1>1, <1>2, <1>5, <2>2, Stepped DEF c
  <2>3. QED
    BY <1>4, <2>1, <2>2
<1>8. QED
  BY <1>6, <1>7 DEF Typed

\* The statements that update the balance and return.
LEMMA TypedUpdate ==
  ASSUME Typed, NEW s \in Sessions, pc[s] # "idle", prog[s] # <<>>, NEW d \in Int,
         UpdateBalance(s, d), Return(s), new' \in [Actors -> Seq(Row)],
         UNCHANGED <<now, db, work, seen, born, ver, creates>>
  PROVE  Typed'
<1>1. s \in Actors
  BY DEF Actors
<1>2. TypeOK'
  <2>1. delta' \in [Actors -> Int]
    BY <1>1 DEF Typed, TypeOK, UpdateBalance
  <2>2. holder' \in Actors \cup {NoOne}
    BY <1>1 DEF UpdateBalance, Acquire
  <2>3. pc' \in [Actors -> Labels] /\ prog' = [t \in Actors |-> prog'[t]]
    BY <1>1 DEF Typed, TypeOK, Return, Goto, Labels
  <2>4. QED
    BY <2>1, <2>2, <2>3 DEF Typed, TypeOK, db
<1>3. ProgramOK'
  BY Returned
<1>4. QED
  BY <1>2, <1>3 DEF Typed

LEMMA TypedBumpBalance ==
  ASSUME Typed, NEW s \in Sessions, BumpBalance(s)
  PROVE  Typed'
<1>1. pc[s] = "bump" /\ UpdateBalance(s, Head(prog[s]).amount) /\ Return(s)
  BY DEF BumpBalance
<1>2. prog[s] # <<>> /\ Head(prog[s]).amount \in Int
  BY <1>1, InCall
<1>3. new' \in [Actors -> Seq(Row)] /\ UNCHANGED <<now, db, work, seen, born, ver, creates>>
  BY DEF Typed, TypeOK, BumpBalance
<1>4. QED
  BY <1>1, <1>2, <1>3, TypedUpdate

LEMMA TypedCharge ==
  ASSUME Typed, NEW s \in Sessions, Charge(s)
  PROVE  Typed'
<1>1. pc[s] = "charge" /\ UpdateBalance(s, -Head(prog[s]).amount) /\ Return(s)
  BY DEF Charge
<1>2. prog[s] # <<>> /\ -Head(prog[s]).amount \in Int
  BY <1>1, InCall
<1>3. new' \in [Actors -> Seq(Row)] /\ UNCHANGED <<now, db, work, seen, born, ver, creates>>
  BY DEF Typed, TypeOK, Charge
<1>4. QED
  BY <1>1, <1>2, <1>3, TypedUpdate

LEMMA TypedLockForDebit ==
  ASSUME Typed, NEW s \in Sessions, LockForDebit(s)
  PROVE  Typed'
<1> DEFINE c == Head(prog[s])
           e == Entry(s, -c.amount, c.kind, c.key, 0)
<1>1. pc[s] = "lock" /\ s \in Actors
  BY DEF LockForDebit, Actors
<1>2. /\ prog[s] # <<>> /\ c.amount \in Nat \ {0} /\ c.key \in Keys
      /\ c.kind \in {"earn", "spend", "refund"} /\ c.op = "debit"
  BY <1>1, InCall
<1>3. e \in Row
  <2>1. -c.amount \in Int /\ 0 \in Nat
    BY <1>2
  <2>2. QED
    BY <1>1, <1>2, <2>1, EntryType DEF Typed
<1>4. \/ /\ Return(s) /\ new' = new
      \/ /\ new' = [new EXCEPT ![s] = Append(@, e)]
         /\ pc' = [pc EXCEPT ![s] = "allocate"] /\ prog' = prog
  BY DEF LockForDebit, Goto
<1>5. /\ work' = work /\ holder' = s /\ seen' = [seen EXCEPT ![s] = 0]
      /\ UNCHANGED <<now, db, born, ver, delta, creates>>
  BY DEF LockForDebit, Acquire
<1> HIDE DEF e, c
<1>6. TypeOK'
  <2>1. new' \in [Actors -> Seq(Row)]
    BY <1>1, <1>3, <1>4, TypedInsert DEF Typed, TypeOK
  <2>2. pc' \in [Actors -> Labels] /\ prog' = [t \in Actors |-> prog'[t]]
    BY <1>1, <1>4 DEF Typed, TypeOK, Return, Goto, Labels
  <2>3. seen' \in [Actors -> Int] /\ holder' \in Actors \cup {NoOne}
    BY <1>1, <1>5 DEF Typed, TypeOK
  <2>4. QED
    BY <1>5, <2>1, <2>2, <2>3 DEF Typed, TypeOK, db
<1>7. ProgramOK'
  <2>1. CASE Return(s)
    BY <1>1, <1>2, <1>5, <2>1, Returned
  <2>2. CASE pc' = [pc EXCEPT ![s] = "allocate"] /\ prog' = prog
    BY <1>1, <1>2, <1>5, <2>2, Stepped DEF c
  <2>3. QED
    BY <1>4, <2>1, <2>2
<1>8. QED
  BY <1>6, <1>7 DEF Typed

LEMMA TypedAllocate ==
  ASSUME Typed, NEW s \in Sessions, Allocate(s)
  PROVE  Typed'
<1>1. pc[s] = "allocate" /\ s \in Actors
  BY DEF Allocate, Actors
<1>2. prog[s] # <<>> /\ Head(prog[s]).op = "debit"
  BY <1>1, InCall
<1>3. \E v : ver' = [ver EXCEPT ![s] = v]
  BY DEF Allocate
<1>4. /\ pc' = [pc EXCEPT ![s] = "charge"] /\ prog' = prog /\ work' = work
      /\ UNCHANGED <<now, db, holder, seen, born, new, delta, creates>>
  BY DEF Allocate, Goto
<1>5. TypeOK'
  <2>1. ver' = [t \in Actors |-> ver'[t]]
    BY <1>1, <1>3 DEF Typed, TypeOK
  <2>2. pc' \in [Actors -> Labels]
    BY <1>1, <1>4 DEF Typed, TypeOK, Labels
  <2>3. QED
    BY <1>4, <2>1, <2>2 DEF Typed, TypeOK, db
<1>6. ProgramOK'
  BY <1>1, <1>2, <1>4, Stepped
<1>7. QED
  BY <1>5, <1>6 DEF Typed

LEMMA TypedClawBack ==
  ASSUME Typed, NEW s \in Sessions, ClawBack(s)
  PROVE  Typed'
<1> DEFINE c == Head(prog[s])
           cap == Least(c.amount, BalanceFor(s))
           e == Entry(s, -cap, c.kind, c.key, 0)
<1>1. pc[s] = "call" /\ prog[s] # <<>> /\ s \in Actors
  BY DEF ClawBack, Calling, Actors
<1>2. /\ c.amount \in Nat \ {0} /\ c.key \in Keys /\ c.kind \in {"earn", "spend", "refund"}
  BY <1>1, InCall
<1>3. -cap \in Int /\ cap \in Int
  <2>1. balance \in Int /\ delta[s] \in Int
    BY <1>1 DEF Typed, TypeOK
  <2>2. c.amount \in Int /\ BalanceFor(s) \in Int
    BY <1>2, <2>1 DEF BalanceFor
  <2> HIDE DEF c
  <2>3. cap \in Int
    BY <2>2 DEF Least
  <2> HIDE DEF cap
  <2>4. QED
    BY <2>3
<1>4. e \in Row
  <2> HIDE DEF cap, c
  <2>1. 0 \in Nat
    OBVIOUS
  <2>2. QED
    BY <1>1, <1>2, <1>3, <2>1, EntryType DEF Typed
<1>5. /\ Return(s) /\ work' = work
      /\ UNCHANGED <<now, db, seen, born, ver, creates>>
  BY DEF ClawBack
<1>6. /\ \/ new' = new
         \/ new' = [new EXCEPT ![s] = Append(@, e)]
      /\ \/ delta' = delta
         \/ delta' = [delta EXCEPT ![s] = @ + -cap]
      /\ holder' = holder \/ holder' = s
  BY DEF ClawBack, UpdateBalance, Acquire
<1> HIDE DEF e, cap, c
<1>7. TypeOK'
  <2>1. new' \in [Actors -> Seq(Row)]
    BY <1>1, <1>4, <1>6, TypedInsert DEF Typed, TypeOK
  <2>2. delta' \in [Actors -> Int]
    BY <1>1, <1>3, <1>6 DEF Typed, TypeOK
  <2>3. holder' \in Actors \cup {NoOne}
    BY <1>1, <1>6 DEF Typed, TypeOK
  <2>4. pc' \in [Actors -> Labels] /\ prog' = [t \in Actors |-> prog'[t]]
    BY <1>1, <1>5 DEF Typed, TypeOK, Return, Goto, Labels
  <2>5. QED
    BY <1>5, <2>1, <2>2, <2>3, <2>4 DEF Typed, TypeOK, db
<1>8. ProgramOK'
  BY <1>1, <1>5, Returned
<1>9. QED
  BY <1>7, <1>8 DEF Typed

\* The job moves to label l with the selected rows q left.
LEMMA JobMoved ==
  ASSUME Typed, NEW l \in {"call", "mark", "burn"}, NEW q \in Seq(Selected),
         pc' = [pc EXCEPT ![Job] = l], prog' = [prog EXCEPT ![Job] = q], work' = work,
         l # "call" => q # <<>>
  PROVE  ProgramOK'
<1>1. Job \in Actors /\ Job \notin Sessions /\ Sessions \subseteq Actors
  BY JobIsNoSession DEF Actors
<1>2. JobOK'
  BY <1>1 DEF Typed, TypeOK, ProgramOK, JobOK
<1>3. \A t \in Sessions : SessionOK(t)'
  BY <1>1 DEF Typed, TypeOK, ProgramOK, SessionOK
<1>4. QED
  BY <1>2, <1>3 DEF ProgramOK

\* What the SELECT of the job returns.
LEMMA BurnableType ==
  ASSUME Typed, NEW i \in Burnable
  PROVE  /\ i \in DOMAIN rows /\ i \in Nat \ {0} /\ rows[i] \in Row
         /\ Available(i) \in Nat /\ rows[i].kind = "earn"
<1>1. rows \in Seq(Row) /\ i \in DOMAIN rows /\ IsLot(rows[i])
  BY DEF Typed, TypeOK, Burnable
<1>2. i \in 1..Len(rows) /\ Len(rows) \in Nat /\ rows[i] \in Row
  BY <1>1, LenProperties, ElementOfSeq
<1>3. QED
  BY <1>1, <1>2 DEF IsLot, Available, Row

LEMMA TypedSelectLapsed ==
  ASSUME Typed, SelectLapsed
  PROVE  Typed'
<1>1. Job \in Actors
  BY DEF Actors
<1> DEFINE n == Least(JobLimit, Cardinality(Burnable))
           picked(o) == [k \in 1..n |-> [lot |-> o[k], remainder |-> Available(o[k])]]
<1>2. n \in Nat /\ n # 0
  <2>1. IsFiniteSet(DOMAIN rows) /\ Burnable \subseteq DOMAIN rows
    <3>1. DOMAIN rows = 1..Len(rows) /\ Len(rows) \in Nat
      BY LenProperties DEF Typed, TypeOK
    <3>2. QED
      BY <3>1, FS_Interval DEF Burnable
  <2>2. IsFiniteSet(Burnable) /\ Burnable # {}
    BY <2>1, FS_Subset DEF SelectLapsed
  <2>3. Cardinality(Burnable) \in Nat /\ Cardinality(Burnable) # 0
    BY <2>2, FS_CardinalityType, FS_EmptySet
  <2>4. QED
    BY <2>3, PlansAssumption DEF Least
<1>3. PICK o \in [1..n -> Burnable] : prog' = [prog EXCEPT ![Job] = picked(o)]
  BY DEF SelectLapsed
<1>4. picked(o) \in Seq(Selected) /\ picked(o) # <<>>
  <2>1. \A k \in 1..n : [lot |-> o[k], remainder |-> Available(o[k])] \in Selected
    BY <1>3, BurnableType DEF Selected
  <2>2. picked(o) \in [1..n -> Selected]
    BY <2>1
  <2> HIDE DEF picked, n
  <2>3. Len(picked(o)) = n /\ picked(o) \in Seq(Selected)
    BY <1>2, <2>2
  <2>4. QED
    BY <1>2, <2>3
<1>5. /\ born' = [born EXCEPT ![Job] = now] /\ pc' = [pc EXCEPT ![Job] = "mark"]
      /\ UNCHANGED <<now, db, holder, work, seen, private>>
  BY DEF SelectLapsed, Goto
<1> HIDE DEF picked, n
<1>6. TypeOK'
  <2>1. pc' \in [Actors -> Labels] /\ born' \in [Actors -> Nat]
    BY <1>1, <1>5 DEF Typed, TypeOK, Labels
  <2>2. prog' = [t \in Actors |-> prog'[t]]
    BY <1>3 DEF Typed, TypeOK
  <2>3. QED
    BY <1>5, <2>1, <2>2 DEF Typed, TypeOK, db, private
<1>7. ProgramOK'
  BY <1>3, <1>4, <1>5, JobMoved
<1>8. QED
  BY <1>6, <1>7 DEF Typed

\* The row the job is burning.
LEMMA Burning ==
  ASSUME Typed, pc[Job] \in {"mark", "burn"}
  PROVE  /\ prog[Job] \in Seq(Selected) /\ prog[Job] # <<>>
         /\ Head(prog[Job]).lot \in Nat \ {0} /\ Head(prog[Job]).remainder \in Nat
         /\ Tail(prog[Job]) \in Seq(Selected)
         /\ prog = [prog EXCEPT ![Job] = prog[Job]]
         /\ Job \in Actors
<1>1. prog[Job] # <<>> /\ prog[Job] \in Seq(Selected)
  BY DEF Typed, ProgramOK, JobOK
<1>2. Head(prog[Job]) \in Selected /\ Tail(prog[Job]) \in Seq(Selected)
  BY <1>1, ProgramParts
<1>3. QED
  BY <1>1, <1>2 DEF Selected, Typed, TypeOK, Actors

LEMMA TypedMarkSpent ==
  ASSUME Typed, MarkSpent
  PROVE  Typed'
<1> DEFINE b == Head(prog[Job])
           e == Entry(Job, -b.remainder, "expire", <<"expire", b.lot>>, 0)
<1>1. pc[Job] = "mark"
  BY DEF MarkSpent
<1>2. /\ prog[Job] \in Seq(Selected) /\ prog[Job] # <<>> /\ Job \in Actors
      /\ b.lot \in Nat \ {0} /\ b.remainder \in Nat
      /\ prog = [prog EXCEPT ![Job] = prog[Job]]
  BY <1>1, Burning
<1>3. e \in Row
  <2> HIDE DEF b
  <2>1. <<"expire", b.lot>> \in Keys /\ -b.remainder \in Int /\ 0 \in Nat
    BY <1>2 DEF Keys
  <2>2. QED
    BY <1>2, <2>1, EntryType DEF Typed
<1>4. /\ new' = [new EXCEPT ![Job] = Append(@, e)]
      /\ \E v : ver' = [ver EXCEPT ![Job] = v]
      /\ pc' = [pc EXCEPT ![Job] = "burn"] /\ prog' = prog /\ work' = work
      /\ UNCHANGED <<now, db, holder, seen, born, delta, creates>>
  BY DEF MarkSpent, Goto
<1> HIDE DEF e, b
<1>5. TypeOK'
  <2>1. new' \in [Actors -> Seq(Row)]
    BY <1>2, <1>3, <1>4, TypedInsert
  <2>2. ver' = [t \in Actors |-> ver'[t]] /\ pc' \in [Actors -> Labels]
    BY <1>4 DEF Typed, TypeOK, Labels
  <2>3. QED
    BY <1>4, <2>1, <2>2 DEF Typed, TypeOK, db
<1>6. ProgramOK'
  <2>1. prog' = [prog EXCEPT ![Job] = prog[Job]]
    BY <1>2, <1>4
  <2>2. QED
    BY <1>2, <1>4, <2>1, JobMoved
<1>7. QED
  BY <1>5, <1>6 DEF Typed

LEMMA TypedBurnBalance ==
  ASSUME Typed, BurnBalance
  PROVE  Typed'
<1> DEFINE d == -Head(prog[Job]).remainder
<1>1. pc[Job] = "burn"
  BY DEF BurnBalance
<1>2. /\ prog[Job] \in Seq(Selected) /\ prog[Job] # <<>> /\ Job \in Actors
      /\ d \in Int /\ Tail(prog[Job]) \in Seq(Selected)
  BY <1>1, Burning
<1>3. /\ holder' = Job /\ delta' = [delta EXCEPT ![Job] = @ + d]
      /\ prog' = [prog EXCEPT ![Job] = Tail(prog[Job])] /\ work' = work
      /\ UNCHANGED <<now, db, seen, born, new, ver, creates>>
  BY DEF BurnBalance, UpdateBalance, Acquire
<1>4. PICK l \in {"call", "mark"} :
        pc' = [pc EXCEPT ![Job] = l] /\ (l = "mark" => Len(prog[Job]) # 1)
  BY DEF BurnBalance, Goto
<1> HIDE DEF d
<1>5. TypeOK'
  <2>1. delta' \in [Actors -> Int] /\ holder' \in Actors \cup {NoOne}
    BY <1>2, <1>3 DEF Typed, TypeOK
  <2>2. pc' \in [Actors -> Labels] /\ prog' = [t \in Actors |-> prog'[t]]
    BY <1>3, <1>4 DEF Typed, TypeOK, Labels
  <2>3. QED
    BY <1>3, <2>1, <2>2 DEF Typed, TypeOK, db
<1>6. ProgramOK'
  <2>1. l # "call" => Tail(prog[Job]) # <<>>
    <3>1. Len(Tail(prog[Job])) = Len(prog[Job]) - 1
      BY <1>2
    <3>2. Len(<<>>) = 0 /\ Len(prog[Job]) \in Nat
      BY <1>2, LenProperties
    <3>3. ASSUME l = "mark", Tail(prog[Job]) = <<>>
          PROVE  FALSE
      <4>1. Len(Tail(prog[Job])) = Len(<<>>)
        BY <3>3, Zenon
      <4>2. Len(prog[Job]) - 1 = 0
        BY <3>1, <3>2, <4>1
      <4>3. Len(prog[Job]) # 1
        BY <1>4, <3>3
      <4>4. QED
        BY <3>2, <4>2, <4>3
    <3>4. QED
      BY <1>4, <3>3
  <2>2. QED
    BY <1>2, <1>3, <1>4, <2>1, JobMoved
<1>7. QED
  BY <1>5, <1>6 DEF Typed

LEMMA TypedTick ==
  ASSUME Typed, Tick
  PROVE  Typed'
<1>1. now' \in Nat /\ UNCHANGED <<db, holder, pc, work, prog, seen, born, private>>
  BY PlansAssumption DEF Tick, Typed, TypeOK
<1>2. TypeOK'
  BY <1>1 DEF Typed, TypeOK, db, private
<1>3. ProgramOK'
  BY <1>1 DEF Typed, ProgramOK, JobOK, SessionOK
<1>4. QED
  BY <1>2, <1>3 DEF Typed

LEMMA TypedStutter ==
  ASSUME Typed, UNCHANGED vars
  PROVE  Typed'
<1>1. TypeOK'
  BY DEF Typed, TypeOK, vars
<1>2. ProgramOK'
  BY DEF Typed, ProgramOK, JobOK, SessionOK, vars
<1>3. QED
  BY <1>1, <1>2 DEF Typed

-----------------------------------------------------------------------------
(* The cases of Next *)

\* A transaction that is rolled back was running.
RolledBack == \E s \in Actors : pc[s] # "idle" /\ RollBack(s)

\* Every step is one of these.
LEMMA StepCases ==
  ASSUME Typed, [Next]_vars
  PROVE  \/ \E s \in Sessions, p \in Sales : \E plan \in Plans[p] : BeginSale(s, p, plan)
         \/ \E s \in Sessions, p \in Sales :
              \E order \in Orders(Len(ledger[p])) : BeginRefund(s, p, order)
         \/ \E s \in Sessions : \/ GetOrCreate(s) \/ MakeWallet(s) \/ InsertCredit(s)
                               \/ BumpBalance(s) \/ LockForDebit(s) \/ Allocate(s)
                               \/ Charge(s) \/ ClawBack(s)
         \/ SelectLapsed \/ MarkSpent \/ BurnBalance
         \/ RolledBack
         \/ \E s \in Actors : Commit(s)
         \/ Tick
         \/ UNCHANGED vars
<1>1. Sessions \subseteq Actors /\ Job \in Actors
  BY DEF Actors
<1>2. ASSUME NEW s \in Sessions,
             MakeWalletFails(s) \/ Insufficient(s) \/ ChargeFails(s) \/ Abort(s)
      PROVE  RolledBack
  BY <1>1, <1>2 DEF RolledBack, MakeWalletFails, Insufficient, ChargeFails, Abort
<1>3. ASSUME BurnFails \/ Abort(Job)
      PROVE  RolledBack
  BY <1>1, <1>3 DEF RolledBack, BurnFails, Abort
<1>4. CASE \E s \in Sessions : Begin(s) \/ Advance(s) \/ Abort(s)
  <2>1. PICK s \in Sessions : Begin(s) \/ Advance(s) \/ Abort(s)
    BY <1>4
  <2>2. CASE Begin(s)
    BY <2>2 DEF Begin
  <2>3. CASE Advance(s)
    BY <1>1, <1>2, <2>3 DEF Advance, Waiting
  <2>4. CASE Abort(s)
    BY <1>2, <2>4
  <2>5. QED
    BY <2>1, <2>2, <2>3, <2>4
<1>5. CASE SelectLapsed \/ JobStep \/ Abort(Job)
  BY <1>1, <1>3, <1>5 DEF JobStep
<1>6. QED
  BY <1>4, <1>5 DEF Next

\* Types are kept by every step.
LEMMA TypedStep ==
  ASSUME Typed, LotsOK, [Next]_vars
  PROVE  Typed'
<1>1. CASE RolledBack
  BY <1>1, TypedRollBack DEF RolledBack
<1>2. QED
  BY <1>1, StepCases, TypedBeginSale, TypedBeginRefund, TypedGetOrCreate, TypedMakeWallet,
     TypedInsertCredit, TypedBumpBalance, TypedLockForDebit, TypedAllocate, TypedCharge,
     TypedClawBack, TypedSelectLapsed, TypedMarkSpent, TypedBurnBalance, TypedCommit,
     TypedTick, TypedStutter

-----------------------------------------------------------------------------
(* Earn rows *)

LotsInv == Typed /\ LotsOK

LEMMA LotsInit ==
  ASSUME Init
  PROVE  LotsOK
<1>1. DOMAIN <<>> = {} /\ DOMAIN NoLot = {}
  BY DEF NoLot
<1>2. SpentWithinAmount
  BY <1>1 DEF Init, SpentWithinAmount
<1>3. \A s \in Actors : InsertsOK(s)
  BY <1>1 DEF Init, InsertsOK
<1>4. \A s \in Actors : VersionsOK(s)
  BY <1>1 DEF Init, VersionsOK
<1>5. VersionsApart
  BY <1>1 DEF Init, VersionsApart
<1>6. SelectionOK
  BY <1>1 DEF Init, SelectionOK, Actors
<1>7. QED
  BY <1>2, <1>3, <1>4, <1>5, <1>6 DEF LotsOK

\* Steps that publish nothing and update no earn row.
LEMMA LotsKept ==
  ASSUME LotsInv, rows' = rows, \A t \in Actors : InsertsOK(t)',
         \A t \in Actors : ver'[t] = ver[t] \/ ver'[t] = NoLot,
         SelectionOK'
  PROVE  LotsOK'
<1>1. DOMAIN NoLot = {}
  BY DEF NoLot
<1>2. SpentWithinAmount'
  BY DEF LotsInv, LotsOK, SpentWithinAmount
<1>3. \A t \in Actors : VersionsOK(t)'
  BY <1>1 DEF LotsInv, LotsOK, VersionsOK, EarnRow
<1>4. VersionsApart'
  BY <1>1 DEF LotsInv, LotsOK, VersionsApart
<1>5. QED
  BY <1>2, <1>3, <1>4 DEF LotsOK

\* Inserted rows have nothing spent, and earn rows are positive.
LEMMA InsertsKept ==
  ASSUME LotsInv, \A t \in Actors : new'[t] = new[t] \/ new'[t] = <<>>
  PROVE  \A t \in Actors : InsertsOK(t)'
<1>1. DOMAIN <<>> = {}
  OBVIOUS
<1>2. QED
  BY <1>1 DEF LotsInv, LotsOK, InsertsOK

LEMMA InsertsMade ==
  ASSUME LotsInv, NEW s \in Actors, NEW e \in Row, new' = [new EXCEPT ![s] = Append(@, e)],
         e.spent = 0, e.kind = "earn" => e.amount > 0
  PROVE  \A t \in Actors : InsertsOK(t)'
<1>1. ASSUME NEW t \in Actors, NEW i \in DOMAIN new'[t]
      PROVE  new'[t][i].spent = 0 /\ (new'[t][i].kind = "earn" => new'[t][i].amount > 0)
  <2>1. CASE t # s
    BY <1>1, <2>1 DEF LotsInv, Typed, TypeOK, LotsOK, InsertsOK
  <2>2. CASE t = s
    <3>1. new[s] \in Seq(Row) /\ new'[s] = Append(new[s], e)
      BY DEF LotsInv, Typed, TypeOK
    <3>2. DOMAIN new[s] = 1..Len(new[s]) /\ Len(new[s]) \in Nat
      BY <3>1, LenProperties
    <3>3. i \in 1..(Len(new[s]) + 1)
      BY <1>1, <2>2, <3>1
    <3>4. CASE i \in 1..Len(new[s])
      <4>1. new'[s][i] = new[s][i]
        BY <3>1, <3>4
      <4>2. QED
        BY <2>2, <3>2, <3>4, <4>1 DEF LotsInv, LotsOK, InsertsOK
    <3>5. CASE i = Len(new[s]) + 1
      <4>1. new'[s][i] = e
        BY <3>1, <3>5
      <4>2. QED
        BY <2>2, <4>1
    <3>6. QED
      BY <3>2, <3>3, <3>4, <3>5
  <2>3. QED
    BY <2>1, <2>2
<1>2. QED
  BY <1>1 DEF InsertsOK

\* Statements of a session leave the selection of the job alone.
LEMMA SelectionKept ==
  ASSUME LotsInv, rows' = rows, prog'[Job] = prog[Job] \/ prog'[Job] = <<>>
  PROVE  SelectionOK'
<1>1. DOMAIN <<>> = {}
  OBVIOUS
<1>2. QED
  BY <1>1 DEF LotsInv, LotsOK, SelectionOK, EarnRow

\* Statements that insert nothing.
LEMMA LotsQuiet ==
  ASSUME LotsInv, rows' = rows,
         \A t \in Actors : new'[t] = new[t] \/ new'[t] = <<>>,
         \A t \in Actors : ver'[t] = ver[t] \/ ver'[t] = NoLot,
         prog'[Job] = prog[Job] \/ prog'[Job] = <<>>
  PROVE  LotsOK'
BY LotsKept, InsertsKept, SelectionKept

\* A statement of session s that inserts the row e.
LEMMA LotsInsert ==
  ASSUME LotsInv, NEW s \in Sessions, NEW e \in Row, rows' = rows, ver' = ver,
         prog'[Job] = prog[Job],
         new' = new \/ new' = [new EXCEPT ![s] = Append(@, e)],
         e.spent = 0, e.kind = "earn" => e.amount > 0
  PROVE  LotsOK'
<1>1. s \in Actors
  BY DEF Actors
<1>2. \A t \in Actors : InsertsOK(t)'
  <2>1. CASE new' = new
    BY <2>1, InsertsKept
  <2>2. CASE new' = [new EXCEPT ![s] = Append(@, e)]
    BY <1>1, <2>2, InsertsMade
  <2>3. QED
    BY <2>1, <2>2
<1>3. QED
  BY <1>2, LotsKept, SelectionKept

LEMMA ReturnKeepsJob ==
  ASSUME Typed, NEW s \in Sessions, Return(s) \/ prog' = prog
  PROVE  prog'[Job] = prog[Job]
BY JobIsNoSession DEF Typed, TypeOK, Return, Actors

LEMMA LotsInsertCredit ==
  ASSUME LotsInv, NEW s \in Sessions, InsertCredit(s)
  PROVE  LotsOK'
<1> DEFINE c == Head(prog[s])
           expires == IF c.life = 0 THEN 0 ELSE now + c.life
           e == Entry(s, c.amount, c.kind, c.key, expires)
<1>1. pc[s] = "insert" /\ s \in Actors /\ Typed
  BY DEF InsertCredit, Actors, LotsInv
<1>2. /\ c.amount \in Nat \ {0} /\ c.life \in Nat /\ c.key \in Keys
      /\ c.kind \in {"earn", "spend", "refund"}
  BY <1>1, InCall
<1>3. e \in Row /\ e.spent = 0 /\ e.amount > 0
  <2>1. expires \in Nat
    BY <1>1, <1>2 DEF Typed, TypeOK
  <2> HIDE DEF expires, c
  <2>2. e \in Row
    BY <1>1, <1>2, <2>1, EntryType DEF Typed
  <2>3. QED
    BY <1>2, <2>2 DEF Entry
<1>4. /\ new' = new \/ new' = [new EXCEPT ![s] = Append(@, e)]
      /\ Return(s) \/ prog' = prog
      /\ rows' = rows /\ ver' = ver
  BY DEF InsertCredit, db
<1> HIDE DEF e
<1>5. QED
  BY <1>1, <1>3, <1>4, ReturnKeepsJob, LotsInsert

LEMMA LotsLockForDebit ==
  ASSUME LotsInv, NEW s \in Sessions, LockForDebit(s)
  PROVE  LotsOK'
<1> DEFINE c == Head(prog[s])
           e == Entry(s, -c.amount, c.kind, c.key, 0)
<1>1. pc[s] = "lock" /\ s \in Actors /\ Typed
  BY DEF LockForDebit, Actors, LotsInv
<1>2. /\ c.amount \in Nat \ {0} /\ c.key \in Keys
      /\ c.kind \in {"earn", "spend", "refund"} /\ c.kind # "earn"
  BY <1>1, InCall
<1>3. e \in Row /\ e.spent = 0 /\ e.kind # "earn"
  <2>1. -c.amount \in Int /\ 0 \in Nat
    BY <1>2
  <2> HIDE DEF c
  <2>2. e \in Row
    BY <1>1, <1>2, <2>1, EntryType DEF Typed
  <2>3. QED
    BY <1>2, <2>2 DEF Entry
<1>4. /\ new' = new \/ new' = [new EXCEPT ![s] = Append(@, e)]
      /\ Return(s) \/ prog' = prog
      /\ rows' = rows /\ ver' = ver
  BY DEF LockForDebit, db
<1> HIDE DEF e
<1>5. QED
  BY <1>1, <1>3, <1>4, ReturnKeepsJob, LotsInsert

LEMMA LotsClawBack ==
  ASSUME LotsInv, NEW s \in Sessions, ClawBack(s)
  PROVE  LotsOK'
<1> DEFINE c == Head(prog[s])
           cap == Least(c.amount, BalanceFor(s))
           e == Entry(s, -cap, c.kind, c.key, 0)
<1>1. pc[s] = "call" /\ prog[s] # <<>> /\ s \in Actors /\ Typed /\ c.op = "clawback"
  BY DEF ClawBack, Calling, Actors, LotsInv
<1>2. /\ c.amount \in Nat \ {0} /\ c.key \in Keys
      /\ c.kind \in {"earn", "spend", "refund"} /\ c.kind # "earn"
  BY <1>1, InCall
<1>3. e \in Row /\ e.spent = 0 /\ e.kind # "earn"
  <2>1. -cap \in Int /\ 0 \in Nat
    BY <1>1, <1>2 DEF Typed, TypeOK, Least, BalanceFor
  <2> HIDE DEF cap, c
  <2>2. e \in Row
    BY <1>1, <1>2, <2>1, EntryType DEF Typed
  <2>3. QED
    BY <1>2, <2>2 DEF Entry
<1>4. /\ new' = new \/ new' = [new EXCEPT ![s] = Append(@, e)]
      /\ Return(s) \/ prog' = prog
      /\ rows' = rows /\ ver' = ver
  BY DEF ClawBack, db
<1> HIDE DEF e
<1>5. QED
  BY <1>1, <1>3, <1>4, ReturnKeepsJob, LotsInsert

\* debit visits every lot, so each has a place in the order it walks them.
LEMMA LotPlace ==
  ASSUME LotsInv, NEW o \in FifoOrders, NEW i \in Lots
  PROVE  /\ (CHOOSE k \in DOMAIN o : o[k] = i) \in 1..Cardinality(Lots)
         /\ o[CHOOSE k \in DOMAIN o : o[k] = i] = i
         /\ o \in [1..Cardinality(Lots) -> Lots] /\ Cardinality(Lots) \in Nat
<1>1. IsFiniteSet(Lots)
  <2>1. DOMAIN rows = 1..Len(rows) /\ Len(rows) \in Nat
    BY LenProperties DEF LotsInv, Typed, TypeOK
  <2>2. IsFiniteSet(DOMAIN rows) /\ Lots \subseteq DOMAIN rows
    BY <2>1, FS_Interval DEF Lots
  <2>3. QED
    BY <2>2, FS_Subset
<1>2. Cardinality(Lots) \in Nat
  BY <1>1, FS_CardinalityType
<1> DEFINE S == 1..Cardinality(Lots)
<1>3. IsFiniteSet(S) /\ Cardinality(S) = Cardinality(Lots)
  BY <1>2, FS_Interval
<1>4. o \in [S -> Lots] /\ \A a, b \in S : a < b => o[a] # o[b]
  BY DEF FifoOrders
<1>5. \A a, b \in S : o[a] = o[b] => a = b
  BY <1>2, <1>4
<1>6. o \in Injection(S, Lots)
  BY <1>4, <1>5 DEF Injection, IsInjective
<1>7. o \in Surjection(S, Lots)
  BY <1>1, <1>3, <1>6, FS_Injection
<1>8. \E k \in S : o[k] = i
  BY <1>7 DEF Surjection
<1> HIDE DEF S
<1>9. DOMAIN o = S
  BY <1>4
<1>10. QED
  BY <1>2, <1>4, <1>8, <1>9 DEF S

\* The lots debit may use.
LEMMA LotType ==
  ASSUME LotsInv, NEW i \in Lots
  PROVE  /\ EarnRow(i) /\ rows[i].amount \in Int /\ rows[i].spent \in Nat
         /\ Available(i) = rows[i].amount - rows[i].spent /\ Available(i) \in Nat
<1>1. rows \in Seq(Row) /\ i \in DOMAIN rows /\ IsLot(rows[i])
  BY DEF LotsInv, Typed, TypeOK, Lots
<1>2. i \in 1..Len(rows) /\ rows[i] \in Row
  BY <1>1, LenProperties, ElementOfSeq
<1>3. QED
  BY <1>1, <1>2 DEF IsLot, Available, Row, EarnRow

LEMMA LotsAllocate ==
  ASSUME LotsInv, NEW s \in Sessions, Allocate(s)
  PROVE  LotsOK'
<1> DEFINE amount == Head(prog[s]).amount
<1>1. s \in Actors /\ Typed /\ pc[s] = "allocate"
  BY DEF Actors, LotsInv, Allocate
<1>2. amount \in Nat
  BY <1>1, InCall
<1>3. \A i \in Lots, t \in Actors \ {s} : i \notin DOMAIN ver[t]
  BY DEF Allocate, RowLocked
<1>4. PICK o \in FifoOrders :
        ver' = [ver EXCEPT ![s] =
                  [i \in Lots |->
                     LET k == CHOOSE k \in DOMAIN o : o[k] = i
                     IN  Drawn(i, Remaining(o, amount)[k - 1] - Remaining(o, amount)[k])]]
  BY DEF Allocate
<1> HIDE DEF amount
<1>5. /\ rows' = rows /\ new' = new /\ prog' = prog
      /\ \A t \in Actors \ {s} : ver'[t] = ver[t]
      /\ DOMAIN ver'[s] = Lots
  BY <1>1, <1>4 DEF Allocate, db, Typed, TypeOK
<1>6. ASSUME NEW i \in Lots
      PROVE  ver'[s][i] \in rows[i].spent..rows[i].amount
  <2> DEFINE k == CHOOSE k \in DOMAIN o : o[k] = i
             stocks == [j \in DOMAIN o |-> Available(o[j])]
             left == Left(stocks, amount)
  <2>1. ver'[s][i] = rows[i].spent + (left[k - 1] - left[k])
    BY <1>1, <1>4 DEF Typed, TypeOK, Remaining, Drawn
  <2>2. /\ k \in 1..Cardinality(Lots) /\ o[k] = i /\ Cardinality(Lots) \in Nat
        /\ o \in [1..Cardinality(Lots) -> Lots]
    BY LotPlace
  <2>3. stocks \in Seq(Nat) /\ Len(stocks) = Cardinality(Lots) /\ stocks[k] = Available(i)
    <3>1. \A j \in 1..Cardinality(Lots) : Available(o[j]) \in Nat
      BY <2>2, LotType
    <3> HIDE DEF k
    <3>2. QED
      BY <2>2, <3>1
  <2> HIDE DEF k, stocks
  <2>4. left[k - 1] - left[k] \in 0..Available(i)
    BY <1>2, <2>2, <2>3, LeftDraws
  <2>5. rows[i].amount \in Int /\ rows[i].spent \in Nat
        /\ Available(i) = rows[i].amount - rows[i].spent
    BY LotType
  <2>6. left[k - 1] \in Int /\ left[k] \in Int
    BY <1>2, <2>2, <2>3, LeftType
  <2> HIDE DEF left
  <2>7. QED
    BY <2>1, <2>4, <2>5, <2>6
<1>7. SpentWithinAmount'
  BY <1>5 DEF LotsInv, LotsOK, SpentWithinAmount
<1>8. \A t \in Actors : InsertsOK(t)'
  BY <1>5, InsertsKept
<1>9. \A t \in Actors : VersionsOK(t)'
  <2>1. ASSUME NEW t \in Actors, t # s
        PROVE  VersionsOK(t)'
    BY <1>5, <2>1 DEF LotsInv, LotsOK, VersionsOK, EarnRow
  <2>2. VersionsOK(s)'
    BY <1>5, <1>6, LotType DEF VersionsOK, EarnRow
  <2>3. QED
    BY <2>1, <2>2
<1>10. VersionsApart'
  <2>1. ASSUME NEW t \in Actors, NEW u \in Actors, t # u
        PROVE  DOMAIN ver'[t] \cap DOMAIN ver'[u] = {}
    <3>1. CASE t # s /\ u # s
      BY <1>5, <2>1, <3>1 DEF LotsInv, LotsOK, VersionsApart
    <3>2. CASE t = s
      BY <1>3, <1>5, <2>1, <3>2
    <3>3. CASE u = s
      BY <1>3, <1>5, <2>1, <3>3
    <3>4. QED
      BY <3>1, <3>2, <3>3
  <2>2. QED
    BY <2>1 DEF VersionsApart
<1>11. SelectionOK'
  BY <1>5, SelectionKept
<1>12. QED
  BY <1>7, <1>8, <1>9, <1>10, <1>11 DEF LotsOK

LEMMA LotsSelectLapsed ==
  ASSUME LotsInv, SelectLapsed
  PROVE  LotsOK'
<1> DEFINE n == Least(JobLimit, Cardinality(Burnable))
<1>1. Job \in Actors
  BY DEF Actors
<1>2. PICK o \in [1..n -> Burnable] :
        prog' = [prog EXCEPT ![Job] =
                   [k \in 1..n |-> [lot |-> o[k], remainder |-> Available(o[k])]]]
  BY DEF SelectLapsed
<1>3. rows' = rows /\ new' = new /\ ver' = ver
  BY DEF SelectLapsed, db, private
<1>4. SelectionOK'
  <2>1. DOMAIN prog'[Job] = 1..n /\ \A k \in 1..n : prog'[Job][k].lot = o[k]
    BY <1>1, <1>2 DEF LotsInv, Typed, TypeOK
  <2>2. \A k \in 1..n : o[k] \in DOMAIN rows /\ rows[o[k]].kind = "earn"
    BY <1>2, BurnableType DEF LotsInv
  <2> HIDE DEF n
  <2>3. QED
    BY <1>3, <2>1, <2>2 DEF SelectionOK, EarnRow
<1>5. \A t \in Actors : InsertsOK(t)'
  BY <1>3, InsertsKept
<1>6. QED
  BY <1>3, <1>4, <1>5, LotsKept

LEMMA LotsMarkSpent ==
  ASSUME LotsInv, MarkSpent
  PROVE  LotsOK'
<1> DEFINE b == Head(prog[Job])
           e == Entry(Job, -b.remainder, "expire", <<"expire", b.lot>>, 0)
<1>1. pc[Job] = "mark" /\ Typed
  BY DEF MarkSpent, LotsInv
<1>2. /\ prog[Job] \in Seq(Selected) /\ prog[Job] # <<>> /\ Job \in Actors
      /\ b.lot \in Nat \ {0} /\ b.remainder \in Nat
  BY <1>1, Burning
<1>3. e \in Row /\ e.spent = 0 /\ e.kind # "earn"
  <2> HIDE DEF b
  <2>1. <<"expire", b.lot>> \in Keys /\ -b.remainder \in Int /\ 0 \in Nat
    BY <1>2 DEF Keys
  <2>2. e \in Row
    BY <1>1, <1>2, <2>1, EntryType DEF Typed
  <2>3. QED
    BY <2>2 DEF Entry
<1>4. EarnRow(b.lot)
  <2>1. 1 \in DOMAIN prog[Job] /\ prog[Job][1] = b
    BY <1>2
  <2>2. QED
    BY <2>1 DEF LotsInv, LotsOK, SelectionOK
<1>5. rows[b.lot].amount \in rows[b.lot].spent..rows[b.lot].amount
  <2>1. rows[b.lot] \in Row /\ rows[b.lot].spent \in 0..rows[b.lot].amount
    BY <1>1, <1>4, ElementOfSeq, LenProperties
    DEF LotsInv, LotsOK, SpentWithinAmount, EarnRow, Typed, TypeOK
  <2>2. QED
    BY <2>1 DEF Row
<1>6. /\ rows' = rows /\ prog' = prog
      /\ new' = [new EXCEPT ![Job] = Append(@, e)]
      /\ ver' = [ver EXCEPT ![Job] = [i \in DOMAIN @ \cup {b.lot} |->
                                       IF i = b.lot THEN rows[b.lot].amount ELSE @[i]]]
      /\ \A t \in Actors \ {Job} : b.lot \notin DOMAIN ver[t]
  BY DEF MarkSpent, db, RowLocked
<1> HIDE DEF e, b
<1>7. /\ \A t \in Actors \ {Job} : ver'[t] = ver[t]
      /\ DOMAIN ver'[Job] = DOMAIN ver[Job] \cup {b.lot}
      /\ \A i \in DOMAIN ver[Job] : i # b.lot => ver'[Job][i] = ver[Job][i]
      /\ ver'[Job][b.lot] = rows[b.lot].amount
  BY <1>2, <1>6 DEF Typed, TypeOK, LotsInv
<1>8. SpentWithinAmount'
  BY <1>6 DEF LotsInv, LotsOK, SpentWithinAmount
<1>9. \A t \in Actors : InsertsOK(t)'
  BY <1>2, <1>3, <1>6, InsertsMade
<1>10. \A t \in Actors : VersionsOK(t)'
  <2>1. ASSUME NEW t \in Actors, t # Job
        PROVE  VersionsOK(t)'
    BY <1>6, <1>7, <2>1 DEF LotsInv, LotsOK, VersionsOK, EarnRow
  <2>2. VersionsOK(Job)'
    BY <1>2, <1>4, <1>5, <1>6, <1>7 DEF LotsInv, LotsOK, VersionsOK, EarnRow
  <2>3. QED
    BY <2>1, <2>2
<1>11. VersionsApart'
  BY <1>2, <1>6, <1>7 DEF LotsInv, LotsOK, VersionsApart
<1>12. SelectionOK'
  BY <1>6, SelectionKept
<1>13. QED
  BY <1>8, <1>9, <1>10, <1>11, <1>12 DEF LotsOK

LEMMA LotsBurnBalance ==
  ASSUME LotsInv, BurnBalance
  PROVE  LotsOK'
<1>1. pc[Job] = "burn" /\ Typed
  BY DEF BurnBalance, LotsInv
<1>2. prog[Job] \in Seq(Selected) /\ prog[Job] # <<>> /\ Job \in Actors
  BY <1>1, Burning
<1>3. rows' = rows /\ new' = new /\ ver' = ver /\ prog'[Job] = Tail(prog[Job])
  BY <1>2 DEF BurnBalance, db, LotsInv, Typed, TypeOK
<1>4. SelectionOK'
  <2>1. \A k \in DOMAIN Tail(prog[Job]) :
          k + 1 \in DOMAIN prog[Job] /\ Tail(prog[Job])[k] = prog[Job][k + 1]
    BY <1>2
  <2>2. QED
    BY <1>3, <2>1 DEF LotsInv, LotsOK, SelectionOK, EarnRow
<1>5. \A t \in Actors : InsertsOK(t)'
  BY <1>3, InsertsKept
<1>6. QED
  BY <1>3, <1>4, <1>5, LotsKept

LEMMA LotsCommit ==
  ASSUME LotsInv, NEW s \in Actors, Commit(s)
  PROVE  LotsOK'
<1>1. Typed /\ LotsOK
  BY DEF LotsInv
<1>2. /\ rows' \in Seq(Row) /\ Len(rows') = Len(rows) + Len(new[s])
      /\ \A i \in 1..Len(rows) :
           rows'[i] = IF i \in DOMAIN ver[s] THEN [rows[i] EXCEPT !.spent = ver[s][i]]
                                            ELSE rows[i]
      /\ \A k \in 1..Len(new[s]) : rows'[Len(rows) + k] = new[s][k]
  BY <1>1, CommitRows
<1>3. /\ DOMAIN rows = 1..Len(rows) /\ Len(rows) \in Nat
      /\ \A i \in 1..Len(rows) : rows[i] \in Row
      /\ DOMAIN new[s] = 1..Len(new[s]) /\ Len(new[s]) \in Nat
      /\ \A i \in 1..Len(new[s]) : new[s][i] \in Row
      /\ DOMAIN rows' = 1..Len(rows')
  BY <1>1, <1>2, LenProperties, ElementOfSeq DEF Typed, TypeOK
<1>4. \A i \in DOMAIN rows :
        /\ i \in DOMAIN rows' /\ rows'[i].kind = rows[i].kind
        /\ rows'[i].amount = rows[i].amount
        /\ rows'[i].spent = IF i \in DOMAIN ver[s] THEN ver[s][i] ELSE rows[i].spent
  <2>1. ASSUME NEW i \in DOMAIN rows
        PROVE  /\ i \in DOMAIN rows' /\ rows'[i].kind = rows[i].kind
               /\ rows'[i].amount = rows[i].amount
               /\ rows'[i].spent = IF i \in DOMAIN ver[s] THEN ver[s][i] ELSE rows[i].spent
    <3>1. i \in 1..Len(rows) /\ i \in DOMAIN rows' /\ rows[i] \in Row
      BY <1>2, <1>3, <2>1
    <3>2. CASE i \in DOMAIN ver[s]
      <4>1. rows'[i] = [rows[i] EXCEPT !.spent = ver[s][i]]
        BY <1>2, <3>1, <3>2
      <4>2. QED
        BY <3>1, <3>2, <4>1 DEF Row
    <3>3. CASE i \notin DOMAIN ver[s]
      BY <1>2, <3>1, <3>3
    <3>4. QED
      BY <3>2, <3>3
  <2>2. QED
    BY <2>1
<1>5. /\ new' = [new EXCEPT ![s] = <<>>] /\ ver' = [ver EXCEPT ![s] = NoLot]
      /\ prog' = [prog EXCEPT ![s] = <<>>]
  BY DEF Commit
<1>6. SpentWithinAmount'
  <2>1. ASSUME NEW i \in DOMAIN rows', rows'[i].kind = "earn"
        PROVE  rows'[i].spent \in 0..rows'[i].amount
    <3>1. CASE i \in DOMAIN rows
      <4>1. rows[i].spent \in 0..rows[i].amount /\ rows[i] \in Row
        BY <1>1, <1>3, <1>4, <2>1, <3>1 DEF LotsOK, SpentWithinAmount
      <4>2. i \in DOMAIN ver[s] => ver[s][i] \in rows[i].spent..rows[i].amount
        BY <1>1 DEF LotsOK, VersionsOK
      <4>3. QED
        BY <1>4, <3>1, <4>1, <4>2 DEF Row
    <3>2. CASE i \notin DOMAIN rows
      <4>1. i - Len(rows) \in 1..Len(new[s]) /\ i = Len(rows) + (i - Len(rows))
        BY <1>2, <1>3, <2>1, <3>2
      <4>2. rows'[i] = new[s][i - Len(rows)] /\ rows'[i] \in Row
        BY <1>2, <1>3, <4>1
      <4>3. rows'[i].spent = 0 /\ rows'[i].amount > 0
        BY <1>1, <1>3, <2>1, <4>1, <4>2 DEF LotsOK, InsertsOK
      <4>4. QED
        BY <4>2, <4>3 DEF Row
    <3>3. QED
      BY <3>1, <3>2
  <2>2. QED
    BY <2>1 DEF SpentWithinAmount
<1>7. \A t \in Actors : InsertsOK(t)'
  <2>1. \A t \in Actors : new'[t] = new[t] \/ new'[t] = <<>>
    BY <1>1, <1>5 DEF Typed, TypeOK
  <2>2. QED
    BY <2>1, InsertsKept
<1>8. DOMAIN NoLot = {} /\ DOMAIN <<>> = {}
  BY DEF NoLot
<1>9. ASSUME NEW t \in Actors
      PROVE  VersionsOK(t)'
  <2>1. CASE t = s
    <3>1. ver'[t] = NoLot
      BY <1>1, <1>5, <2>1 DEF Typed, TypeOK
    <3>2. QED
      BY <1>8, <3>1 DEF VersionsOK
  <2>2. CASE t # s
    <3>1. ver'[t] = ver[t] /\ DOMAIN ver[t] \cap DOMAIN ver[s] = {}
      BY <1>1, <1>5, <2>2 DEF Typed, TypeOK, LotsOK, VersionsApart
    <3>2. \A i \in DOMAIN ver[t] :
            EarnRow(i) /\ i \notin DOMAIN ver[s] /\ ver[t][i] \in rows[i].spent..rows[i].amount
      BY <1>1, <3>1 DEF LotsOK, VersionsOK
    <3>3. QED
      BY <1>4, <3>1, <3>2 DEF VersionsOK, EarnRow
  <2>3. QED
    BY <2>1, <2>2
<1>10. VersionsApart'
  BY <1>1, <1>5, <1>8 DEF Typed, TypeOK, LotsOK, VersionsApart
<1>11. SelectionOK'
  <2>1. prog'[Job] = prog[Job] \/ prog'[Job] = <<>>
    BY <1>1, <1>5 DEF Typed, TypeOK, Actors
  <2>2. QED
    BY <1>1, <1>4, <1>8, <2>1 DEF LotsOK, SelectionOK, EarnRow
<1>12. QED
  BY <1>6, <1>7, <1>9, <1>10, <1>11 DEF LotsOK

LEMMA LotsRollBack ==
  ASSUME LotsInv, NEW s \in Actors, RollBack(s)
  PROVE  LotsOK'
<1>1. /\ rows' = rows
      /\ \A t \in Actors : new'[t] = new[t] \/ new'[t] = <<>>
      /\ \A t \in Actors : ver'[t] = ver[t] \/ ver'[t] = NoLot
  BY DEF RollBack, LotsInv, Typed, TypeOK
<1>2. prog'[Job] = prog[Job] \/ prog'[Job] = <<>>
  BY DEF RollBack, LotsInv, Typed, TypeOK, Actors
<1>3. QED
  BY <1>1, <1>2, LotsQuiet

\* Earn rows stay in order in every step.
LEMMA LotsStep ==
  ASSUME LotsInv, [Next]_vars
  PROVE  LotsOK'
<1>1. Typed
  BY DEF LotsInv
<1>2. ASSUME NEW s \in Sessions, NEW p \in Sales, NEW plan, BeginSale(s, p, plan)
      PROVE  LotsOK'
  BY <1>1, <1>2, LotsQuiet, JobIsNoSession DEF BeginSale, private, Typed, TypeOK, Actors
<1>3. ASSUME NEW s \in Sessions, NEW p \in Sales, NEW order, BeginRefund(s, p, order)
      PROVE  LotsOK'
  <2>1. prog'[Job] = prog[Job]
    BY <1>1, <1>3, JobIsNoSession DEF BeginRefund, Typed, TypeOK, Actors
  <2>2. QED
    BY <1>3, <2>1, LotsQuiet DEF BeginRefund, private
<1>4. ASSUME NEW s \in Sessions, GetOrCreate(s) \/ MakeWallet(s)
      PROVE  LotsOK'
  BY <1>4, LotsQuiet DEF GetOrCreate, MakeWallet, private, db
<1>5. ASSUME NEW s \in Sessions, BumpBalance(s) \/ Charge(s)
      PROVE  LotsOK'
  <2>1. rows' = rows /\ new' = new /\ ver' = ver /\ Return(s)
    BY <1>5 DEF BumpBalance, Charge, db
  <2>2. QED
    BY <1>1, <2>1, ReturnKeepsJob, LotsQuiet
<1>6. CASE Tick \/ UNCHANGED vars
  BY <1>6, LotsQuiet DEF Tick, vars, private, db
<1>7. CASE RolledBack
  BY <1>7, LotsRollBack DEF RolledBack
<1>8. QED
  BY <1>1, <1>2, <1>3, <1>4, <1>5, <1>6, <1>7, StepCases, LotsInsertCredit, LotsLockForDebit,
     LotsAllocate, LotsClawBack, LotsSelectLapsed, LotsMarkSpent, LotsBurnBalance, LotsCommit

-----------------------------------------------------------------------------
(* Money *)

MoneyInv == Typed /\ LotsOK /\ MoneyOK

LEMMA AmountsType ==
  ASSUME NEW rs \in Seq(Row)
  PROVE  Amounts(rs) \in Seq(Int) /\ Len(Amounts(rs)) = Len(rs)
<1>1. DOMAIN rs = 1..Len(rs) /\ Len(rs) \in Nat
  BY LenProperties
<1>2. \A i \in 1..Len(rs) : rs[i].amount \in Int
  <2>1. \A i \in 1..Len(rs) : rs[i] \in Row
    BY ElementOfSeq
  <2>2. QED
    BY <2>1 DEF Row
<1>3. QED
  BY <1>1, <1>2 DEF Amounts

LEMMA AmountsEmpty == Amounts(<<>>) = <<>> /\ Total(Amounts(<<>>)) = 0
<1>1. <<>> \in Seq(Row) /\ Len(<<>>) = 0
  OBVIOUS
<1>2. Amounts(<<>>) \in Seq(Int) /\ Len(Amounts(<<>>)) = 0
  BY <1>1, AmountsType
<1>3. Amounts(<<>>) = <<>>
  BY <1>2
<1>4. QED
  BY <1>3, TotalEmpty

LEMMA AmountsAppend ==
  ASSUME NEW rs \in Seq(Row), NEW e \in Row
  PROVE  Total(Amounts(Append(rs, e))) = Total(Amounts(rs)) + e.amount
<1>1. /\ Append(rs, e) \in Seq(Row) /\ Len(Append(rs, e)) = Len(rs) + 1
      /\ Len(rs) \in Nat /\ e.amount \in Int
  BY LenProperties DEF Row
<1>2. /\ Amounts(rs) \in Seq(Int) /\ Len(Amounts(rs)) = Len(rs)
      /\ Amounts(Append(rs, e)) \in Seq(Int) /\ Len(Amounts(Append(rs, e))) = Len(rs) + 1
  BY <1>1, AmountsType
<1>3. \A i \in 1..(Len(rs) + 1) :
        Amounts(Append(rs, e))[i] = Append(Amounts(rs), e.amount)[i]
  <2>1. ASSUME NEW i \in 1..(Len(rs) + 1)
        PROVE  Amounts(Append(rs, e))[i] = Append(Amounts(rs), e.amount)[i]
    <3>1. Amounts(Append(rs, e))[i] = Append(rs, e)[i].amount
      BY <1>1 DEF Amounts
    <3>2. CASE i \in 1..Len(rs)
      <4>1. Append(rs, e)[i] = rs[i] /\ Amounts(rs)[i] = rs[i].amount
        BY <3>2 DEF Amounts
      <4>2. Append(Amounts(rs), e.amount)[i] = Amounts(rs)[i]
        BY <1>2, <3>2
      <4>3. QED
        BY <3>1, <4>1, <4>2
    <3>3. CASE i = Len(rs) + 1
      <4>1. Append(rs, e)[i] = e
        BY <3>3
      <4>2. Append(Amounts(rs), e.amount)[i] = e.amount
        BY <1>2, <3>3
      <4>3. QED
        BY <3>1, <4>1, <4>2
    <3>4. i \in 1..Len(rs) \/ i = Len(rs) + 1
      BY <1>1
    <3>5. QED
      BY <3>2, <3>3, <3>4
  <2>2. QED
    BY <2>1
<1>4. Amounts(Append(rs, e)) = Append(Amounts(rs), e.amount)
  <2>1. /\ Append(Amounts(rs), e.amount) \in Seq(Int)
        /\ Len(Append(Amounts(rs), e.amount)) = Len(rs) + 1
    BY <1>1, <1>2
  <2>2. QED
    BY <1>2, <1>3, <2>1, SeqEqual
<1>5. QED
  BY <1>1, <1>2, <1>4, TotalAppend

\* What a commit publishes: the amounts of the old rows, then of the new ones.
LEMMA CommitAmounts ==
  ASSUME Typed, LotsOK, NEW s \in Actors, Commit(s)
  PROVE  Amounts(rows') = Amounts(rows) \o Amounts(new[s])
<1>1. /\ rows' \in Seq(Row) /\ Len(rows') = Len(rows) + Len(new[s])
      /\ \A i \in 1..Len(rows) :
           rows'[i] = IF i \in DOMAIN ver[s] THEN [rows[i] EXCEPT !.spent = ver[s][i]]
                                            ELSE rows[i]
      /\ \A k \in 1..Len(new[s]) : rows'[Len(rows) + k] = new[s][k]
  BY CommitRows
<1>2. rows \in Seq(Row) /\ new[s] \in Seq(Row) /\ Len(rows) \in Nat /\ Len(new[s]) \in Nat
  BY LenProperties DEF Typed, TypeOK
<1> DEFINE a == Amounts(rows)
           b == Amounts(new[s])
<1>3. /\ a \in Seq(Int) /\ Len(a) = Len(rows) /\ b \in Seq(Int) /\ Len(b) = Len(new[s])
      /\ Amounts(rows') \in Seq(Int) /\ Len(Amounts(rows')) = Len(rows) + Len(new[s])
  BY <1>1, <1>2, AmountsType
<1>4. a \o b \in Seq(Int) /\ Len(a \o b) = Len(rows) + Len(new[s])
  <2> HIDE DEF a, b
  <2>1. a \in Seq(Int) /\ b \in Seq(Int) /\ Len(a) = Len(rows) /\ Len(b) = Len(new[s])
    BY <1>3
  <2>2. a \o b \in Seq(Int) /\ Len(a \o b) = Len(a) + Len(b)
    BY <2>1, ConcatInts
  <2>3. QED
    BY <2>1, <2>2
<1>5. ASSUME NEW i \in 1..(Len(rows) + Len(new[s]))
      PROVE  Amounts(rows')[i] = (a \o b)[i]
  <2>1. Amounts(rows')[i] = rows'[i].amount
    BY <1>1, LenProperties DEF Amounts
  <2>2. CASE i \in 1..Len(rows)
    <3>1. rows'[i].amount = rows[i].amount
      <4>1. rows[i] \in Row
        BY <1>2, <2>2, ElementOfSeq
      <4>2. CASE i \in DOMAIN ver[s]
        <5>1. rows'[i] = [rows[i] EXCEPT !.spent = ver[s][i]]
          BY <1>1, <2>2, <4>2
        <5>2. QED
          BY <4>1, <5>1 DEF Row
      <4>3. CASE i \notin DOMAIN ver[s]
        BY <1>1, <2>2, <4>3
      <4>4. QED
        BY <4>2, <4>3
    <3>2. a[i] = rows[i].amount
      BY <1>2, <2>2, LenProperties DEF Amounts
    <3> HIDE DEF a, b
    <3>3. (a \o b)[i] = a[i]
      BY <1>3, <2>2
    <3>4. QED
      BY <2>1, <3>1, <3>2, <3>3
  <2>3. CASE i \notin 1..Len(rows)
    <3>1. PICK k \in 1..Len(new[s]) : i = Len(rows) + k
      <4>1. i - Len(rows) \in 1..Len(new[s]) /\ i = Len(rows) + (i - Len(rows))
        BY <1>2, <2>3
      <4>2. QED
        BY <4>1
    <3>2. rows'[i] = new[s][k]
      BY <1>1, <3>1
    <3>3. b[k] = new[s][k].amount
      BY <1>2, LenProperties DEF Amounts
    <3> HIDE DEF a, b
    <3>4. (a \o b)[i] = b[k]
      BY <1>2, <1>3, <3>1, SMTT(60)
    <3>5. QED
      BY <2>1, <3>2, <3>3, <3>4
  <2>4. QED
    BY <2>2, <2>3
<1> HIDE DEF a, b
<1>6. Amounts(rows') = a \o b
  BY <1>3, <1>4, <1>5, SeqEqual
<1>7. QED
  BY <1>6 DEF a, b

LEMMA MoneyInit ==
  ASSUME Init
  PROVE  MoneyOK
<1>1. BalanceIsLedgerSum /\ BalanceNonNegative
  BY AmountsEmpty DEF Init, BalanceIsLedgerSum, BalanceNonNegative
<1>2. ASSUME NEW s \in Actors
      PROVE  PurseOK(s)
  BY AmountsEmpty DEF Init, PurseOK, Outstanding, BalanceFor
<1>3. QED
  BY <1>1, <1>2 DEF MoneyOK

\* A statement of s changes what s has inserted and what it owes together,
\* and touches the balance only under the row lock.
LEMMA MoneyStatement ==
  ASSUME MoneyInv, NEW s \in Actors, rows' = rows, balance' = balance,
         \A t \in Actors \ {s} : /\ new'[t] = new[t] /\ delta'[t] = delta[t]
                                /\ pc'[t] = pc[t] /\ prog'[t] = prog[t],
         holder' = holder \/ WalletFree(s),
         PurseOK(s)'
  PROVE  MoneyOK'
<1>1. BalanceIsLedgerSum' /\ BalanceNonNegative'
  BY DEF MoneyInv, MoneyOK, BalanceIsLedgerSum, BalanceNonNegative
<1>2. ASSUME NEW t \in Actors, t # s
      PROVE  PurseOK(t)'
  <2>1. Outstanding(t)' = Outstanding(t)
    BY <1>2 DEF Outstanding
  <2>2. new'[t] = new[t] /\ delta'[t] = delta[t]
    BY <1>2
  <2>3. PurseOK(t) /\ t # NoOne
    BY JobIsNoSession DEF MoneyInv, MoneyOK
  <2>4. delta[t] # 0 => holder' = t
    BY <1>2, <2>3 DEF PurseOK, WalletFree
  <2>5. QED
    BY <2>1, <2>2, <2>3, <2>4 DEF PurseOK, BalanceFor
<1>3. QED
  BY <1>1, <1>2 DEF MoneyOK

\* A step of one actor leaves the place of the others.
LEMMA OthersStay ==
  ASSUME Typed, NEW s \in Actors, NEW l, NEW q, pc' = [pc EXCEPT ![s] = l],
         prog' = prog \/ prog' = [prog EXCEPT ![s] = q]
  PROVE  /\ \A t \in Actors \ {s} : pc'[t] = pc[t] /\ prog'[t] = prog[t]
         /\ pc'[s] = l
BY DEF Typed, TypeOK

\* Statements that touch neither rows nor money.
LEMMA MoneyQuiet ==
  ASSUME MoneyInv, NEW s \in Actors, NEW l, NEW q,
         rows' = rows, balance' = balance, new' = new, delta' = delta, holder' = holder,
         pc' = [pc EXCEPT ![s] = l],
         prog' = prog \/ prog' = [prog EXCEPT ![s] = q],
         Outstanding(s)' = Outstanding(s)
  PROVE  MoneyOK'
<1>1. PurseOK(s)'
  BY DEF MoneyInv, MoneyOK, PurseOK, BalanceFor
<1>2. \A t \in Actors \ {s} : pc'[t] = pc[t] /\ prog'[t] = prog[t]
  BY OthersStay DEF MoneyInv
<1>3. QED
  BY <1>1, <1>2, MoneyStatement

LEMMA MoneyPlaces ==
  ASSUME MoneyInv, NEW s \in Sessions, NEW l, NEW q,
         rows' = rows, balance' = balance, new' = new, delta' = delta, holder' = holder,
         pc' = [pc EXCEPT ![s] = l], prog' = [prog EXCEPT ![s] = q] \/ prog' = prog,
         pc[s] \notin {"bump", "allocate", "charge", "burn"},
         l \notin {"bump", "allocate", "charge", "burn"}
  PROVE  MoneyOK'
<1>1. s \in Actors
  BY DEF Actors
<1>2. Outstanding(s) = 0 /\ Outstanding(s)' = 0
  BY <1>1 DEF Outstanding, MoneyInv, Typed, TypeOK
<1>3. QED
  BY <1>1, <1>2, MoneyQuiet

\* Statements of a session that insert the row e and leave its amount to be
\* applied to the balance.
LEMMA MoneyInsert ==
  ASSUME MoneyInv, NEW s \in Actors, NEW e \in Row, NEW l,
         rows' = rows, balance' = balance, delta' = delta,
         holder' = holder \/ (WalletFree(s) /\ holder' = s),
         new' = [new EXCEPT ![s] = Append(@, e)],
         pc' = [pc EXCEPT ![s] = l], prog' = prog,
         Outstanding(s) = 0, Outstanding(s)' = e.amount
  PROVE  MoneyOK'
<1>1. new[s] \in Seq(Row) /\ delta[s] \in Int /\ e.amount \in Int
  BY DEF MoneyInv, Typed, TypeOK, Row
<1>2. new'[s] = Append(new[s], e) /\ \A t \in Actors \ {s} : new'[t] = new[t]
  BY DEF MoneyInv, Typed, TypeOK
<1>3. Total(Amounts(new'[s])) = Total(Amounts(new[s])) + e.amount
  BY <1>1, <1>2, AmountsAppend
<1>4. PurseOK(s)
  BY DEF MoneyInv, MoneyOK
<1>5. PurseOK(s)'
  BY <1>1, <1>3, <1>4 DEF PurseOK, BalanceFor, WalletFree
<1>6. \A t \in Actors \ {s} : pc'[t] = pc[t] /\ prog'[t] = prog[t]
  BY OthersStay DEF MoneyInv
<1>7. QED
  BY <1>2, <1>5, <1>6, MoneyStatement

\* The UPDATE of the balance settles what is outstanding.
LEMMA MoneyUpdate ==
  ASSUME MoneyInv, NEW s \in Actors, NEW d \in Int, NEW l, NEW q,
         UpdateBalance(s, d), rows' = rows, balance' = balance, new' = new,
         pc' = [pc EXCEPT ![s] = l], prog' = [prog EXCEPT ![s] = q],
         Outstanding(s) = d, Outstanding(s)' = 0
  PROVE  MoneyOK'
<1>1. /\ delta'[s] = delta[s] + d /\ delta[s] \in Int /\ balance \in Int
      /\ \A t \in Actors \ {s} : delta'[t] = delta[t]
  BY DEF MoneyInv, Typed, TypeOK, UpdateBalance
<1>2. WalletFree(s) /\ holder' = s /\ balance + delta[s] + d >= 0
  BY DEF UpdateBalance, Acquire, BalanceFor
<1>3. PurseOK(s)
  BY DEF MoneyInv, MoneyOK
<1>4. PurseOK(s)'
  BY <1>1, <1>2, <1>3 DEF PurseOK, BalanceFor
<1>5. \A t \in Actors \ {s} : pc'[t] = pc[t] /\ prog'[t] = prog[t]
  BY OthersStay DEF MoneyInv
<1>6. QED
  BY <1>1, <1>2, <1>4, <1>5, MoneyStatement

LEMMA MoneyInsertCredit ==
  ASSUME MoneyInv, NEW s \in Sessions, InsertCredit(s)
  PROVE  MoneyOK'
<1> DEFINE c == Head(prog[s])
           expires == IF c.life = 0 THEN 0 ELSE now + c.life
           e == Entry(s, c.amount, c.kind, c.key, expires)
<1>1. pc[s] = "insert" /\ s \in Actors /\ Typed
  BY DEF InsertCredit, Actors, MoneyInv
<1>2. /\ c.amount \in Nat \ {0} /\ c.life \in Nat /\ c.key \in Keys
      /\ c.kind \in {"earn", "spend", "refund"}
  BY <1>1, InCall
<1>3. e \in Row /\ e.amount = c.amount
  <2>1. expires \in Nat
    BY <1>1, <1>2 DEF Typed, TypeOK
  <2> HIDE DEF expires, c
  <2>2. e \in Row
    BY <1>1, <1>2, <2>1, EntryType DEF Typed
  <2>3. QED
    BY <1>2, <2>2 DEF Entry
<1>4. \/ /\ pc' = [pc EXCEPT ![s] = "call"] /\ prog' = [prog EXCEPT ![s] = Tail(prog[s])]
         /\ new' = new
      \/ /\ new' = [new EXCEPT ![s] = Append(@, e)]
         /\ pc' = [pc EXCEPT ![s] = "bump"] /\ prog' = prog
  BY DEF InsertCredit, Return, Goto
<1>5. rows' = rows /\ balance' = balance /\ delta' = delta /\ holder' = holder
  BY DEF InsertCredit, db
<1>6. Outstanding(s) = 0
  BY <1>1 DEF Outstanding
<1> HIDE DEF e
<1>7. CASE pc' = [pc EXCEPT ![s] = "call"] /\ new' = new
  BY <1>1, <1>4, <1>5, <1>7, MoneyPlaces
<1>8. CASE /\ new' = [new EXCEPT ![s] = Append(@, e)]
           /\ pc' = [pc EXCEPT ![s] = "bump"] /\ prog' = prog
  <2>1. pc'[s] = "bump"
    BY <1>1, <1>8 DEF Typed, TypeOK
  <2>2. Outstanding(s)' = e.amount
    BY <1>3, <1>8, <2>1 DEF Outstanding
  <2>3. QED
    BY <1>1, <1>3, <1>5, <1>6, <1>8, <2>2, MoneyInsert
<1>9. QED
  BY <1>4, <1>7, <1>8

LEMMA MoneyLockForDebit ==
  ASSUME MoneyInv, NEW s \in Sessions, LockForDebit(s)
  PROVE  MoneyOK'
<1> DEFINE c == Head(prog[s])
           e == Entry(s, -c.amount, c.kind, c.key, 0)
<1>1. pc[s] = "lock" /\ s \in Actors /\ Typed
  BY DEF LockForDebit, Actors, MoneyInv
<1>2. /\ c.amount \in Nat \ {0} /\ c.key \in Keys
      /\ c.kind \in {"earn", "spend", "refund"}
  BY <1>1, InCall
<1>3. e \in Row /\ e.amount = -c.amount
  <2>1. -c.amount \in Int /\ 0 \in Nat
    BY <1>2
  <2> HIDE DEF c
  <2>2. e \in Row
    BY <1>1, <1>2, <2>1, EntryType DEF Typed
  <2>3. QED
    BY <2>2 DEF Entry
<1>4. \/ /\ pc' = [pc EXCEPT ![s] = "call"] /\ prog' = [prog EXCEPT ![s] = Tail(prog[s])]
         /\ new' = new
      \/ /\ new' = [new EXCEPT ![s] = Append(@, e)]
         /\ pc' = [pc EXCEPT ![s] = "allocate"] /\ prog' = prog
  BY DEF LockForDebit, Return, Goto
<1>5. /\ rows' = rows /\ balance' = balance /\ delta' = delta
      /\ WalletFree(s) /\ holder' = s
  BY DEF LockForDebit, db, Acquire
<1>6. Outstanding(s) = 0
  BY <1>1 DEF Outstanding
<1> HIDE DEF e
<1>7. CASE pc' = [pc EXCEPT ![s] = "call"] /\ new' = new
  <2>1. PICK q : prog' = prog \/ prog' = [prog EXCEPT ![s] = q]
    BY <1>4
  <2>2. pc'[s] = "call" /\ \A t \in Actors \ {s} : pc'[t] = pc[t] /\ prog'[t] = prog[t]
    BY <1>1, <1>7, <2>1, OthersStay
  <2>3. Outstanding(s)' = 0
    BY <2>2 DEF Outstanding
  <2>4. PurseOK(s)'
    BY <1>1, <1>5, <1>6, <1>7, <2>3 DEF MoneyInv, MoneyOK, PurseOK, BalanceFor
  <2>5. QED
    BY <1>1, <1>5, <1>7, <2>2, <2>4, MoneyStatement
<1>8. CASE /\ new' = [new EXCEPT ![s] = Append(@, e)]
           /\ pc' = [pc EXCEPT ![s] = "allocate"] /\ prog' = prog
  <2>1. pc'[s] = "allocate"
    BY <1>1, <1>8 DEF Typed, TypeOK
  <2>2. Outstanding(s)' = e.amount
    BY <1>3, <1>8, <2>1 DEF Outstanding
  <2>3. QED
    BY <1>1, <1>3, <1>5, <1>6, <1>8, <2>2, MoneyInsert
<1>9. QED
  BY <1>4, <1>7, <1>8

LEMMA MoneyMarkSpent ==
  ASSUME MoneyInv, MarkSpent
  PROVE  MoneyOK'
<1> DEFINE b == Head(prog[Job])
           e == Entry(Job, -b.remainder, "expire", <<"expire", b.lot>>, 0)
<1>1. pc[Job] = "mark" /\ Typed
  BY DEF MarkSpent, MoneyInv
<1>2. Job \in Actors /\ b.lot \in Nat \ {0} /\ b.remainder \in Nat
  BY <1>1, Burning
<1>3. e \in Row /\ e.amount = -b.remainder
  <2> HIDE DEF b
  <2>1. <<"expire", b.lot>> \in Keys /\ -b.remainder \in Int /\ 0 \in Nat
    BY <1>2 DEF Keys
  <2>2. e \in Row
    BY <1>1, <1>2, <2>1, EntryType DEF Typed
  <2>3. QED
    BY <2>2 DEF Entry
<1>4. /\ new' = [new EXCEPT ![Job] = Append(@, e)]
      /\ pc' = [pc EXCEPT ![Job] = "burn"] /\ prog' = prog
      /\ rows' = rows /\ balance' = balance /\ delta' = delta /\ holder' = holder
  BY DEF MarkSpent, Goto, db
<1>5. Outstanding(Job) = 0
  BY <1>1 DEF Outstanding
<1> HIDE DEF e
<1>6. pc'[Job] = "burn"
  BY <1>1, <1>2, <1>4 DEF Typed, TypeOK
<1>7. Outstanding(Job)' = e.amount
  BY <1>3, <1>4, <1>6 DEF Outstanding
<1>8. QED
  BY <1>2, <1>3, <1>4, <1>5, <1>7, MoneyInsert

LEMMA MoneyBumpBalance ==
  ASSUME MoneyInv, NEW s \in Sessions, BumpBalance(s) \/ Charge(s)
  PROVE  MoneyOK'
<1> DEFINE d == IF pc[s] = "bump" THEN Head(prog[s]).amount ELSE -Head(prog[s]).amount
<1>1. s \in Actors /\ Typed /\ pc[s] \in {"bump", "charge"} /\ UpdateBalance(s, d)
  BY DEF BumpBalance, Charge, Actors, MoneyInv
<1>2. d \in Int
  BY <1>1, InCall
<1>3. /\ rows' = rows /\ balance' = balance /\ new' = new
      /\ pc' = [pc EXCEPT ![s] = "call"] /\ prog' = [prog EXCEPT ![s] = Tail(prog[s])]
  BY DEF BumpBalance, Charge, Return, Goto, db
<1>4. Outstanding(s) = d
  BY <1>1 DEF Outstanding
<1>5. Outstanding(s)' = 0
  <2>1. pc'[s] = "call"
    BY <1>1, <1>3 DEF Typed, TypeOK
  <2>2. QED
    BY <2>1 DEF Outstanding
<1> HIDE DEF d
<1>6. QED
  BY <1>1, <1>2, <1>3, <1>4, <1>5, MoneyUpdate

LEMMA MoneyBurnBalance ==
  ASSUME MoneyInv, BurnBalance
  PROVE  MoneyOK'
<1> DEFINE d == -Head(prog[Job]).remainder
<1>1. pc[Job] = "burn" /\ Typed /\ UpdateBalance(Job, d)
  BY DEF BurnBalance, MoneyInv
<1>2. Job \in Actors /\ d \in Int
  BY <1>1, Burning
<1>3. /\ rows' = rows /\ balance' = balance /\ new' = new
      /\ prog' = [prog EXCEPT ![Job] = Tail(prog[Job])]
  BY DEF BurnBalance, db
<1>4. PICK l \in {"call", "mark"} : pc' = [pc EXCEPT ![Job] = l]
  BY DEF BurnBalance, Goto
<1>5. Outstanding(Job) = d
  BY <1>1 DEF Outstanding
<1>6. Outstanding(Job)' = 0
  <2>1. pc'[Job] \in {"call", "mark"}
    BY <1>1, <1>2, <1>4 DEF Typed, TypeOK
  <2>2. QED
    BY <2>1 DEF Outstanding
<1> HIDE DEF d
<1>7. QED
  BY <1>1, <1>2, <1>3, <1>4, <1>5, <1>6, MoneyUpdate

LEMMA MoneyClawBack ==
  ASSUME MoneyInv, NEW s \in Sessions, ClawBack(s)
  PROVE  MoneyOK'
<1> DEFINE c == Head(prog[s])
           cap == Least(c.amount, BalanceFor(s))
           e == Entry(s, -cap, c.kind, c.key, 0)
<1>1. pc[s] = "call" /\ prog[s] # <<>> /\ s \in Actors /\ Typed
  BY DEF ClawBack, Calling, Actors, MoneyInv
<1>2. /\ c.amount \in Nat \ {0} /\ c.key \in Keys /\ c.kind \in {"earn", "spend", "refund"}
  BY <1>1, InCall
<1>3. -cap \in Int /\ cap \in Int
  <2>1. balance \in Int /\ delta[s] \in Int
    BY <1>1 DEF Typed, TypeOK
  <2>2. c.amount \in Int /\ BalanceFor(s) \in Int
    BY <1>2, <2>1 DEF BalanceFor
  <2> HIDE DEF c
  <2>3. cap \in Int
    BY <2>2 DEF Least
  <2> HIDE DEF cap
  <2>4. QED
    BY <2>3
<1>4. e \in Row /\ e.amount = -cap
  <2> HIDE DEF cap, c
  <2>1. 0 \in Nat
    OBVIOUS
  <2>2. e \in Row
    BY <1>1, <1>2, <1>3, <2>1, EntryType DEF Typed
  <2>3. QED
    BY <2>2 DEF Entry
<1>5. /\ rows' = rows /\ balance' = balance
      /\ pc' = [pc EXCEPT ![s] = "call"] /\ prog' = [prog EXCEPT ![s] = Tail(prog[s])]
  BY DEF ClawBack, Return, Goto, db
<1>6. \/ /\ new' = new /\ delta' = delta
         /\ holder' = holder \/ (WalletFree(s) /\ holder' = s)
      \/ new' = [new EXCEPT ![s] = Append(@, e)] /\ UpdateBalance(s, -cap)
  BY DEF ClawBack, Acquire
<1>7. /\ pc'[s] = "call"
      /\ \A t \in Actors \ {s} : pc'[t] = pc[t] /\ prog'[t] = prog[t]
  BY <1>1, <1>5, OthersStay
<1>8. Outstanding(s) = 0 /\ Outstanding(s)' = 0
  BY <1>1, <1>7 DEF Outstanding
<1>9. PurseOK(s)
  BY <1>1 DEF MoneyInv, MoneyOK
<1> HIDE DEF e, cap, c
<1>10. CASE /\ new' = new /\ delta' = delta
            /\ holder' = holder \/ (WalletFree(s) /\ holder' = s)
  <2>1. PurseOK(s)'
    BY <1>5, <1>8, <1>9, <1>10 DEF PurseOK, BalanceFor
  <2>2. QED
    BY <1>1, <1>5, <1>7, <1>10, <2>1, MoneyStatement
<1>11. CASE new' = [new EXCEPT ![s] = Append(@, e)] /\ UpdateBalance(s, -cap)
  <2>1. new[s] \in Seq(Row) /\ delta[s] \in Int /\ balance \in Int
    BY <1>1 DEF Typed, TypeOK
  <2>2. /\ new'[s] = Append(new[s], e) /\ delta'[s] = delta[s] + -cap
        /\ \A t \in Actors \ {s} : new'[t] = new[t] /\ delta'[t] = delta[t]
    BY <1>1, <1>11 DEF Typed, TypeOK, UpdateBalance
  <2>3. WalletFree(s) /\ holder' = s /\ balance + delta[s] + -cap >= 0
    BY <1>11 DEF UpdateBalance, Acquire, BalanceFor
  <2>4. Total(Amounts(new'[s])) = Total(Amounts(new[s])) + -cap
    BY <1>4, <2>1, <2>2, AmountsAppend
  <2>5. PurseOK(s)'
    BY <1>3, <1>5, <1>8, <1>9, <2>1, <2>2, <2>3, <2>4 DEF PurseOK, BalanceFor
  <2>6. QED
    BY <1>1, <1>5, <1>7, <2>2, <2>3, <2>5, MoneyStatement
<1>12. QED
  BY <1>6, <1>10, <1>11

LEMMA MoneyRollBack ==
  ASSUME MoneyInv, NEW s \in Actors, RollBack(s)
  PROVE  MoneyOK'
<1>1. /\ rows' = rows /\ balance' = balance /\ pc'[s] = "idle"
      /\ \A t \in Actors \ {s} : /\ new'[t] = new[t] /\ delta'[t] = delta[t]
                                /\ pc'[t] = pc[t] /\ prog'[t] = prog[t]
      /\ new'[s] = <<>> /\ delta'[s] = 0
      /\ holder' = holder \/ holder = s
  BY DEF RollBack, Goto, MoneyInv, Typed, TypeOK
<1>2. Outstanding(s)' = 0
  BY <1>1 DEF Outstanding
<1>3. balance \in Int /\ balance >= 0
  BY DEF MoneyInv, Typed, TypeOK, MoneyOK, BalanceNonNegative
<1>4. PurseOK(s)'
  BY <1>1, <1>2, <1>3, AmountsEmpty DEF PurseOK, BalanceFor
<1>5. QED
  BY <1>1, <1>4, MoneyStatement DEF WalletFree

LEMMA AddZero ==
  ASSUME NEW b \in Int, NEW d, d = 0, b >= 0
  PROVE  b + d >= 0
OBVIOUS

LEMMA MoneyCommit ==
  ASSUME MoneyInv, NEW s \in Actors, Commit(s)
  PROVE  MoneyOK'
<1>1. Typed /\ LotsOK /\ MoneyOK
  BY DEF MoneyInv
<1>2. /\ pc[s] = "call" /\ balance' = balance + delta[s]
      /\ balance \in Int /\ delta \in [Actors -> Int]
      /\ rows \in Seq(Row) /\ new[s] \in Seq(Row)
  BY <1>1 DEF Commit, BalanceFor, Typed, TypeOK
<1>3. PurseOK(s) /\ Outstanding(s) = 0
  BY <1>1, <1>2 DEF MoneyOK, Outstanding
<1>4. /\ pc'[s] = "idle" /\ new'[s] = <<>> /\ delta'[s] = 0
      /\ holder' = IF holder = s THEN NoOne ELSE holder
      /\ \A t \in Actors \ {s} : /\ new'[t] = new[t] /\ delta'[t] = delta[t]
                                /\ pc'[t] = pc[t] /\ prog'[t] = prog[t]
  BY <1>1 DEF Commit, Goto, Typed, TypeOK
<1>5. BalanceIsLedgerSum'
  <2>1. Amounts(rows') = Amounts(rows) \o Amounts(new[s])
    BY <1>1, CommitAmounts
  <2>2. Total(Amounts(rows')) = Total(Amounts(rows)) + Total(Amounts(new[s]))
    <3>1. Amounts(rows) \in Seq(Int) /\ Amounts(new[s]) \in Seq(Int)
      BY <1>2, AmountsType
    <3>2. Total(Amounts(rows) \o Amounts(new[s])) = Total(Amounts(rows)) + Total(Amounts(new[s]))
      BY <3>1, TotalConcat
    <3>3. QED
      BY <2>1, <3>2
  <2>3. Total(Amounts(new[s])) = delta[s] /\ Total(Amounts(rows)) = balance
    BY <1>1, <1>2, <1>3 DEF PurseOK, MoneyOK, BalanceIsLedgerSum
  <2>4. QED
    BY <1>2, <2>2, <2>3 DEF BalanceIsLedgerSum
<1>6. BalanceNonNegative'
  BY <1>2, <1>3 DEF PurseOK, BalanceFor, BalanceNonNegative
<1>7. PurseOK(s)'
  <2>1. Outstanding(s)' = 0
    BY <1>4 DEF Outstanding
  <2>2. balance' + delta'[s] >= 0
    <3>1. balance' \in Int /\ delta'[s] = 0
      BY <1>2, <1>4
    <3>2. balance' >= 0
      BY <1>6 DEF BalanceNonNegative
    <3>3. QED
      BY <3>1, <3>2, AddZero, Zenon
  <2>3. Total(Amounts(new'[s])) = 0
    BY <1>4, AmountsEmpty
  <2>4. QED
    BY <1>4, <2>1, <2>2, <2>3 DEF PurseOK, BalanceFor
<1>8. ASSUME NEW t \in Actors, t # s
      PROVE  PurseOK(t)'
  <2>1. Outstanding(t)' = Outstanding(t)
    BY <1>4, <1>8 DEF Outstanding
  <2>2. PurseOK(t) /\ t # NoOne /\ s # NoOne
    BY <1>1, JobIsNoSession DEF MoneyOK
  <2>3. delta[t] # 0 => holder' = t
    BY <1>4, <1>8, <2>2 DEF PurseOK
  <2>4. delta[s] # 0 => delta[t] = 0
    BY <1>3, <1>8, <2>2 DEF PurseOK
  <2>5. balance' + delta'[t] >= 0
    BY <1>2, <1>3, <1>4, <1>8, <2>2, <2>4 DEF PurseOK, BalanceFor
  <2>6. QED
    BY <1>4, <1>8, <2>1, <2>2, <2>3, <2>5 DEF PurseOK, BalanceFor
<1>9. QED
  BY <1>5, <1>6, <1>7, <1>8 DEF MoneyOK

\* The balance follows the rows in every step.
LEMMA MoneyStep ==
  ASSUME MoneyInv, [Next]_vars
  PROVE  MoneyOK'
<1>1. Typed
  BY DEF MoneyInv
<1>2. ASSUME NEW s \in Sessions, NEW p \in Sales, NEW plan, BeginSale(s, p, plan)
      PROVE  MoneyOK'
  <2>1. /\ pc[s] = "idle" /\ pc' = [pc EXCEPT ![s] = "call"]
        /\ prog' = [prog EXCEPT ![s] = SaleCalls(p, plan)]
        /\ UNCHANGED <<rows, balance, new, delta, holder>>
    BY <1>2 DEF BeginSale, Goto, private
  <2>2. QED
    BY <2>1, MoneyPlaces
<1>3. ASSUME NEW s \in Sessions, NEW p \in Sales, NEW order, BeginRefund(s, p, order)
      PROVE  MoneyOK'
  <2>1. PICK q : /\ pc[s] = "idle" /\ pc' = [pc EXCEPT ![s] = "call"]
                 /\ prog' = [prog EXCEPT ![s] = q]
                 /\ UNCHANGED <<rows, balance, new, delta, holder>>
    BY <1>3 DEF BeginRefund, Goto, private
  <2>2. QED
    BY <2>1, MoneyPlaces
<1>4. ASSUME NEW s \in Sessions, GetOrCreate(s) \/ MakeWallet(s)
      PROVE  MoneyOK'
  <2>1. PICK l \in {"make", "insert", "lock"} : pc' = [pc EXCEPT ![s] = l]
    BY <1>4 DEF GetOrCreate, MakeWallet, Goto
  <2>2. pc[s] \in {"call", "make"} /\ prog' = prog
        /\ UNCHANGED <<rows, balance, new, delta, holder>>
    BY <1>4 DEF GetOrCreate, MakeWallet, Calling, private, db
  <2>3. QED
    BY <2>1, <2>2, MoneyPlaces
<1>5. ASSUME NEW s \in Sessions, Allocate(s)
      PROVE  MoneyOK'
  <2>1. /\ pc[s] = "allocate" /\ pc' = [pc EXCEPT ![s] = "charge"] /\ prog' = prog
        /\ UNCHANGED <<rows, balance, new, delta, holder>> /\ s \in Actors
    BY <1>5 DEF Allocate, Goto, db, Actors
  <2>2. pc'[s] = "charge"
    BY <1>1, <2>1 DEF Typed, TypeOK
  <2>3. Outstanding(s)' = Outstanding(s)
    BY <2>1, <2>2 DEF Outstanding
  <2>4. QED
    BY <2>1, <2>3, MoneyQuiet
<1>6. CASE SelectLapsed
  <2>1. Job \in Actors
    BY DEF Actors
  <2>2. PICK q : /\ pc[Job] = "idle" /\ pc' = [pc EXCEPT ![Job] = "mark"]
                 /\ prog' = [prog EXCEPT ![Job] = q]
                 /\ UNCHANGED <<rows, balance, new, delta, holder>>
    BY <1>6 DEF SelectLapsed, Goto, db, private
  <2>3. pc'[Job] = "mark"
    BY <1>1, <2>1, <2>2 DEF Typed, TypeOK
  <2>4. Outstanding(Job)' = 0 /\ Outstanding(Job) = 0
    BY <2>2, <2>3 DEF Outstanding
  <2>5. QED
    BY <2>1, <2>2, <2>4, MoneyQuiet
<1>7. CASE Tick \/ UNCHANGED vars
  BY <1>7 DEF Tick, vars, private, db, MoneyInv, MoneyOK, PurseOK, Outstanding, BalanceFor,
              BalanceIsLedgerSum, BalanceNonNegative
<1>8. CASE RolledBack
  BY <1>8, MoneyRollBack DEF RolledBack
<1>9. QED
  BY <1>1, <1>2, <1>3, <1>4, <1>5, <1>6, <1>7, <1>8, StepCases, MoneyInsertCredit,
     MoneyBumpBalance, MoneyLockForDebit, MoneyClawBack, MoneyMarkSpent, MoneyBurnBalance,
     MoneyCommit

-----------------------------------------------------------------------------
(* Idempotency keys *)

\* A purchase has its keys to itself.
LEMMA SaleKeys ==
  ASSUME NEW p \in Sales, NEW plan \in Plans[p], NEW k \in DOMAIN SaleCalls(p, plan)
  PROVE  SaleCalls(p, plan)[k].key[1] # "expire" /\ SaleCalls(p, plan)[k].key[2] = p
<1>1. plan.spend \in Nat /\ plan.earn \in Seq(Earnings)
  BY PlansAssumption
<1> DEFINE spends == IF plan.spend > 0 THEN <<Debit(plan.spend, <<"spend", p>>)>> ELSE <<>>
           earns == [i \in DOMAIN plan.earn |->
                       Credit("earn", plan.earn[i].amount, <<"earn", p>>, plan.earn[i].life)]
           All == {Debit(plan.spend, <<"spend", p>>)}
                  \cup {Credit("earn", plan.earn[i].amount, <<"earn", p>>, plan.earn[i].life)
                          : i \in DOMAIN plan.earn}
<1>2. DOMAIN plan.earn = 1..Len(plan.earn) /\ Len(plan.earn) \in Nat
  BY <1>1, LenProperties
<1>3. spends \in Seq(All)
  <2> DEFINE d == Debit(plan.spend, <<"spend", p>>)
  <2>1. d \in All
    OBVIOUS
  <2> HIDE DEF d, All
  <2>2. <<d>> \in Seq(All) /\ <<>> \in Seq(All)
    BY <2>1
  <2>3. QED
    BY <2>2 DEF d
<1>4. earns \in Seq(All)
  BY <1>2
<1>5. \A c \in All : c.key[1] # "expire" /\ c.key[2] = p
  BY DEF Debit, Credit
<1>6. SaleCalls(p, plan) = spends \o earns
  BY DEF SaleCalls
<1> HIDE DEF spends, earns, All
<1>7. spends \o earns \in Seq(All)
  BY <1>3, <1>4, ConcatProperties
<1>8. (spends \o earns)[k] \in All
  BY <1>6, <1>7, LenProperties, ElementOfSeq
<1>9. QED
  BY <1>5, <1>6, <1>8

LEMMA RefundKeys ==
  ASSUME NEW p \in Sales, NEW change
  PROVE  Compensation(p, change).key[1] # "expire" /\ Compensation(p, change).key[2] = p
BY DEF Compensation, Clawback, Credit

\* The keys of what is left to do, of what is inserted, and who works on what.
KeyRules ==
  /\ WorkOK
  /\ \A s \in Sessions : \A k \in DOMAIN prog[s] : OwnKey(s, prog[s][k].key)
  /\ \A s \in Actors : \A k \in DOMAIN new[s] : OwnKey(s, new[s][k].key)

LEMMA KeysInit ==
  ASSUME Init
  PROVE  KeysOK
<1>1. DOMAIN <<>> = {}
  OBVIOUS
<1>2. WorkOK
  BY DEF Init, WorkOK, Actors
<1>3. QED
  BY <1>1, <1>2 DEF Init, KeysOK, FreshKeys, OneRowPerKey, Actors

\* Session s starts on purchase p, which nobody works on.
LEMMA KeysBegin ==
  ASSUME Typed, KeysOK, NEW s \in Sessions, NEW p \in Sales, NEW q, NEW st,
         pc[s] = "idle", sale[p] \notin {"recording", "refunding"},
         st \in {"recording", "refunding"}, sale' = [sale EXCEPT ![p] = st],
         work' = [work EXCEPT ![s] = p], prog' = [prog EXCEPT ![s] = q],
         pc' = [pc EXCEPT ![s] = "call"], new' = new, rows' = rows,
         \A k \in DOMAIN q : q[k].key[1] # "expire" /\ q[k].key[2] = p
  PROVE  KeysOK'
<1>1. s \in Actors /\ s # Job /\ Job \in Actors /\ Sessions \subseteq Actors /\ NoOne # p
  BY JobIsNoSession DEF Actors
<1>2. \A t \in Sessions : work[t] # p
  BY <1>1 DEF KeysOK, WorkOK
<1>3. /\ work'[s] = p /\ prog'[s] = q /\ pc'[s] = "call"
      /\ \A t \in Actors \ {s} : work'[t] = work[t] /\ prog'[t] = prog[t] /\ pc'[t] = pc[t]
  BY <1>1 DEF Typed, TypeOK
<1>4. WorkOK'
  <2>1. ASSUME NEW t \in Actors, pc'[t] = "idle"
        PROVE  new'[t] = <<>>
    BY <2>1, <1>3 DEF KeysOK, WorkOK
  <2>2. ASSUME NEW t \in Sessions
        PROVE  /\ pc'[t] = "idle" => work'[t] = NoOne
               /\ work'[t] # NoOne => sale'[work'[t]] \in {"recording", "refunding"}
    <3>1. CASE t = s
      BY <3>1, <1>3 DEF Typed, TypeOK
    <3>2. CASE t # s
      BY <3>2, <1>1, <1>2, <1>3 DEF Typed, TypeOK, KeysOK, WorkOK
    <3>3. QED
      BY <3>1, <3>2
  <2>3. ASSUME NEW t \in Sessions, NEW u \in Sessions, work'[t] = work'[u], work'[t] # NoOne
        PROVE  t = u
    BY <2>3, <1>1, <1>2, <1>3 DEF KeysOK, WorkOK
  <2>4. QED
    BY <2>1, <2>2, <2>3 DEF WorkOK
<1>5. ASSUME NEW t \in Sessions, NEW k \in DOMAIN prog'[t]
      PROVE  OwnKey(t, prog[t][k].key)'
  <2>1. CASE t = s
    BY <2>1, <1>1, <1>3, <1>5 DEF OwnKey
  <2>2. CASE t # s
    BY <2>2, <1>1, <1>3, <1>5 DEF KeysOK, OwnKey
  <2>3. QED
    BY <2>1, <2>2
<1>6. ASSUME NEW t \in Actors, NEW k \in DOMAIN new'[t]
      PROVE  OwnKey(t, new[t][k].key)'
  <2>1. CASE t = s
    <3>1. new[s] = <<>>
      BY <1>1 DEF KeysOK, WorkOK
    <3>2. QED
      BY <2>1, <1>6, <3>1
  <2>2. CASE t # s
    BY <2>2, <1>3, <1>6 DEF KeysOK, OwnKey
  <2>3. QED
    BY <2>1, <2>2
<1>7. QED
  BY <1>4, <1>5, <1>6 DEF KeysOK, FreshKeys, OneRowPerKey

\* A statement of s that publishes nothing, starts nothing and inserts at most
\* one row, whose key is its own and not taken.
LEMMA KeysStatement ==
  ASSUME Typed, KeysOK, NEW s \in Actors, pc[s] # "idle" \/ (s = Job /\ new' = new),
         sale' = sale, work' = work, rows' = rows,
         \A t \in Actors \ {s} : pc'[t] = pc[t] /\ prog'[t] = prog[t],
         pc'[s] # "idle",
         s # Job => prog'[s] = prog[s] \/ (prog[s] # <<>> /\ prog'[s] = Tail(prog[s])),
         \/ new' = new
         \/ \E e \in Row : /\ new' = [new EXCEPT ![s] = Append(@, e)]
                           /\ OwnKey(s, e.key) /\ ~KeyTaken(s, e.key)
  PROVE  KeysOK'
<1>1. s \in Actors /\ Job \in Actors /\ Sessions \subseteq Actors
  BY DEF Actors
<1>2. \A t \in Actors : pc'[t] = "idle" => pc[t] = "idle" /\ t # s
  OBVIOUS
<1>3. /\ \A t \in Actors \ {s} : new'[t] = new[t]
      /\ \/ new'[s] = new[s]
         \/ \E e \in Row : /\ new'[s] = Append(new[s], e)
                           /\ OwnKey(s, e.key) /\ ~KeyTaken(s, e.key)
  BY <1>1 DEF Typed, TypeOK
<1>4. WorkOK'
  BY <1>1, <1>2, <1>3 DEF KeysOK, WorkOK
<1>5. ASSUME NEW t \in Sessions, NEW k \in DOMAIN prog'[t]
      PROVE  OwnKey(t, prog[t][k].key)'
  <2>0. t # Job /\ t \in Actors
    BY <1>1, JobIsNoSession
  <2>1. CASE prog'[t] = prog[t]
    BY <2>1, <1>5 DEF KeysOK, OwnKey
  <2>2. CASE prog'[t] # prog[t]
    <3>1. t = s /\ prog[t] # <<>> /\ prog'[t] = Tail(prog[t])
      BY <2>0, <2>2
    <3>2. prog[t] \in Seq(Call)
      BY DEF Typed, ProgramOK, SessionOK
    <3>3. k + 1 \in DOMAIN prog[t] /\ prog'[t][k] = prog[t][k + 1]
      BY <3>1, <3>2, <1>5
    <3>4. OwnKey(t, prog[t][k + 1].key)
      BY <3>3 DEF KeysOK
    <3>5. QED
      BY <3>3, <3>4 DEF OwnKey
  <2>3. QED
    BY <2>1, <2>2
<1>6. CASE new'[s] = new[s]
  <2>1. \A t \in Actors : new'[t] = new[t]
    BY <1>3, <1>6
  <2>2. \A t \in Actors : \A k \in DOMAIN new'[t] : OwnKey(t, new[t][k].key)'
    BY <2>1 DEF KeysOK, OwnKey
  <2>3. \A t \in Actors : FreshKeys(t)'
    BY <2>1 DEF KeysOK, FreshKeys
  <2>4. OneRowPerKey'
    BY DEF KeysOK, OneRowPerKey
  <2>5. QED
    BY <1>4, <1>5, <2>2, <2>3, <2>4 DEF KeysOK
<1>7. ASSUME NEW e \in Row, new'[s] = Append(new[s], e), OwnKey(s, e.key), ~KeyTaken(s, e.key)
      PROVE  KeysOK'
  <2>1. new[s] \in Seq(Row) /\ DOMAIN new[s] = 1..Len(new[s]) /\ Len(new[s]) \in Nat
    BY LenProperties DEF Typed, TypeOK
  <2>2. /\ DOMAIN new'[s] = 1..(Len(new[s]) + 1) /\ new'[s][Len(new[s]) + 1] = e
        /\ \A k \in 1..Len(new[s]) : new'[s][k] = new[s][k]
    BY <1>7, <2>1
  <2>3. /\ \A k \in DOMAIN rows : rows[k].key # e.key
        /\ \A k \in 1..Len(new[s]) : new[s][k].key # e.key
    BY <1>7, <2>1 DEF KeyTaken
  <2>4. ASSUME NEW t \in Actors, NEW k \in DOMAIN new'[t]
        PROVE  OwnKey(t, new[t][k].key)'
    <3>1. CASE t # s
      BY <3>1, <1>3, <2>4 DEF KeysOK, OwnKey
    <3>2. CASE t = s /\ k \in 1..Len(new[s])
      BY <3>2, <2>1, <2>2 DEF KeysOK, OwnKey
    <3>3. CASE t = s /\ k = Len(new[s]) + 1
      BY <3>3, <2>2, <1>7 DEF OwnKey
    <3>4. QED
      BY <3>1, <3>2, <3>3, <2>1, <2>2, <2>4
  <2>5. ASSUME NEW t \in Actors
        PROVE  FreshKeys(t)'
    <3>1. CASE t # s
      BY <3>1, <1>3 DEF KeysOK, FreshKeys
    <3>2. CASE t = s
      <4>1. FreshKeys(s)
        BY DEF KeysOK
      <4>2. ASSUME NEW i \in DOMAIN new'[s], NEW j \in DOMAIN new'[s],
                   new'[s][i].key = new'[s][j].key
            PROVE  i = j
        <5>1. i \in 1..Len(new[s]) \/ i = Len(new[s]) + 1
          BY <2>1, <2>2
        <5>2. j \in 1..Len(new[s]) \/ j = Len(new[s]) + 1
          BY <2>1, <2>2
        <5>3. QED
          BY <4>1, <4>2, <5>1, <5>2, <2>1, <2>2, <2>3 DEF FreshKeys
      <4>3. ASSUME NEW i \in DOMAIN rows, NEW j \in DOMAIN new'[s]
            PROVE  rows[i].key # new'[s][j].key
        <5>1. j \in 1..Len(new[s]) \/ j = Len(new[s]) + 1
          BY <2>1, <2>2
        <5>2. QED
          BY <4>1, <5>1, <2>1, <2>2, <2>3 DEF FreshKeys
      <4>4. QED
        BY <3>2, <4>2, <4>3 DEF FreshKeys
    <3>3. QED
      BY <3>1, <3>2
  <2>6. OneRowPerKey'
    BY DEF KeysOK, OneRowPerKey
  <2>7. QED
    BY <1>4, <1>5, <2>4, <2>5, <2>6 DEF KeysOK
<1>8. QED
  BY <1>3, <1>6, <1>7

LEMMA Apart ==
  ASSUME Typed, KeysOK, NEW s \in Actors, NEW t \in Actors, s # t,
         NEW i \in DOMAIN new[s], NEW j \in DOMAIN new[t]
  PROVE  new[s][i].key # new[t][j].key
<1>1. OwnKey(s, new[s][i].key) /\ OwnKey(t, new[t][j].key)
  BY DEF KeysOK
<1>2. CASE s = Job \/ t = Job
  BY <1>1, <1>2 DEF OwnKey
<1>3. CASE s # Job /\ t # Job
  <2>1. s \in Sessions /\ t \in Sessions
    BY <1>3 DEF Actors
  <2>2. new[s] # <<>> /\ new[t] # <<>>
    OBVIOUS
  <2>3. pc[s] # "idle" /\ pc[t] # "idle"
    BY <2>2 DEF KeysOK, WorkOK
  <2>4. work[s] \in Sales /\ work[t] \in Sales
    BY <2>1, <2>3 DEF Typed, ProgramOK, SessionOK
  <2>5. work[s] # work[t]
    BY <2>1, <2>4, JobIsNoSession DEF KeysOK, WorkOK
  <2>6. QED
    BY <1>1, <1>3, <2>5 DEF OwnKey
<1>4. QED
  BY <1>2, <1>3

\* The end of a transaction: who works on what, and the keys of the others.
LEMMA KeysEnd ==
  ASSUME Typed, KeysOK, NEW s \in Actors,
         pc' = [pc EXCEPT ![s] = "idle"], prog' = [prog EXCEPT ![s] = <<>>],
         new' = [new EXCEPT ![s] = <<>>], work' = [work EXCEPT ![s] = NoOne],
         s = Job => sale' = sale,
         s # Job => \E x : sale' = [sale EXCEPT ![work[s]] = x]
  PROVE  KeyRules'
<1>1. Job \in Actors /\ Sessions \subseteq Actors /\ NoOne \notin Sales /\ DOMAIN <<>> = {}
      /\ Job \notin Sessions
  BY JobIsNoSession DEF Actors
<1>2. /\ pc'[s] = "idle" /\ prog'[s] = <<>> /\ new'[s] = <<>> /\ work'[s] = NoOne
      /\ \A t \in Actors \ {s} : /\ pc'[t] = pc[t] /\ prog'[t] = prog[t]
                                 /\ new'[t] = new[t] /\ work'[t] = work[t]
  BY DEF Typed, TypeOK
<1>3. ASSUME NEW t \in Sessions
      PROVE  /\ pc'[t] = "idle" => work'[t] = NoOne
             /\ work'[t] # NoOne => sale'[work'[t]] \in {"recording", "refunding"}
  <2>1. CASE t = s
    BY <2>1, <1>2
  <2>2. CASE t # s
    <3>1. /\ pc[t] = "idle" => work[t] = NoOne
          /\ work[t] # NoOne => sale[work[t]] \in {"recording", "refunding"}
      BY DEF KeysOK, WorkOK
    <3>2. work'[t] = work[t] /\ pc'[t] = pc[t] /\ work[t] \in Sales \cup {NoOne}
      BY <1>1, <1>2, <2>2 DEF Typed, TypeOK
    <3>3. ASSUME work[t] # NoOne
          PROVE  sale'[work[t]] = sale[work[t]]
      <4>1. CASE s = Job
        BY <4>1
      <4>2. CASE s # Job
        <5>1. s \in Sessions
          BY <4>2 DEF Actors
        <5>2. work[t] # work[s]
          BY <2>2, <3>3, <5>1 DEF KeysOK, WorkOK
        <5>3. QED
          BY <4>2, <5>2, <3>2, <3>3 DEF Typed, TypeOK
      <4>3. QED
        BY <4>1, <4>2
    <3>4. QED
      BY <3>1, <3>2, <3>3
  <2>3. QED
    BY <2>1, <2>2
<1>4. ASSUME NEW t \in Sessions, NEW u \in Sessions, work'[t] = work'[u], work'[t] # NoOne
      PROVE  t = u
  BY <1>1, <1>2, <1>4 DEF KeysOK, WorkOK
<1>5. \A t \in Actors : pc'[t] = "idle" => new'[t] = <<>>
  BY <1>2 DEF KeysOK, WorkOK
<1>6. WorkOK'
  BY <1>3, <1>4, <1>5 DEF WorkOK
<1>7. ASSUME NEW t \in Sessions, NEW k \in DOMAIN prog'[t]
      PROVE  OwnKey(t, prog[t][k].key)'
  BY <1>1, <1>2, <1>7 DEF KeysOK, OwnKey
<1>8. ASSUME NEW t \in Actors, NEW k \in DOMAIN new'[t]
      PROVE  OwnKey(t, new[t][k].key)'
  BY <1>1, <1>2, <1>8 DEF KeysOK, OwnKey
<1>9. QED
  BY <1>6, <1>7, <1>8 DEF KeyRules

LEMMA KeysRollBack ==
  ASSUME Typed, KeysOK, NEW s \in Actors, RollBack(s)
  PROVE  KeysOK'
<1>1. /\ pc' = [pc EXCEPT ![s] = "idle"] /\ prog' = [prog EXCEPT ![s] = <<>>]
      /\ new' = [new EXCEPT ![s] = <<>>] /\ work' = [work EXCEPT ![s] = NoOne]
      /\ s = Job => sale' = sale
      /\ s # Job => \E x : sale' = [sale EXCEPT ![work[s]] = x]
      /\ rows' = rows
  BY DEF RollBack, Goto
<1>2. KeyRules'
  BY <1>1, KeysEnd
<1>3. \A t \in Actors : FreshKeys(t)'
  <2>1. DOMAIN <<>> = {}
    OBVIOUS
  <2>2. \A t \in Actors : new'[t] = new[t] \/ new'[t] = <<>>
    BY <1>1 DEF Typed, TypeOK
  <2>3. QED
    BY <1>1, <2>1, <2>2 DEF KeysOK, FreshKeys
<1>4. OneRowPerKey'
  BY <1>1 DEF KeysOK, OneRowPerKey
<1>5. QED
  BY <1>2, <1>3, <1>4 DEF KeysOK, KeyRules

\* The keys that are in the wallet after a commit.
LEMMA CommitKeys ==
  ASSUME Typed, LotsOK, NEW s \in Actors, Commit(s), NEW i \in DOMAIN rows'
  PROVE  \/ i \in DOMAIN rows /\ rows'[i].key = rows[i].key
         \/ /\ i \notin DOMAIN rows /\ i - Len(rows) \in DOMAIN new[s]
            /\ rows'[i].key = new[s][i - Len(rows)].key
<1>1. /\ rows' \in Seq(Row) /\ Len(rows') = Len(rows) + Len(new[s])
      /\ \A j \in 1..Len(rows) :
           rows'[j] = IF j \in DOMAIN ver[s] THEN [rows[j] EXCEPT !.spent = ver[s][j]]
                                            ELSE rows[j]
      /\ \A k \in 1..Len(new[s]) : rows'[Len(rows) + k] = new[s][k]
  BY CommitRows
<1>2. /\ Len(rows) \in Nat /\ Len(new[s]) \in Nat
      /\ DOMAIN rows = 1..Len(rows) /\ DOMAIN new[s] = 1..Len(new[s])
      /\ \A j \in 1..Len(rows) : rows[j] \in Row
  BY LenProperties, ElementOfSeq DEF Typed, TypeOK
<1>3. i \in 1..(Len(rows) + Len(new[s]))
  BY <1>1, LenProperties
<1>4. CASE i \in 1..Len(rows)
  <2>1. rows[i] \in Row
    BY <1>2, <1>4
  <2>2. CASE i \in DOMAIN ver[s]
    <3> DEFINE e == rows[i]
               v == ver[s][i]
    <3>1. rows'[i] = [e EXCEPT !.spent = v]
      BY <1>1, <1>4, <2>2
    <3>2. e \in Row
      BY <2>1
    <3> HIDE DEF e, v
    <3>3. [e EXCEPT !.spent = v].key = e.key
      BY <3>2 DEF Row
    <3>4. rows'[i].key = e.key
      BY <3>1, <3>3
    <3>5. QED
      BY <1>2, <1>4, <3>4 DEF e
  <2>3. CASE i \notin DOMAIN ver[s]
    BY <1>1, <1>2, <1>4, <2>3
  <2>4. QED
    BY <2>2, <2>3
<1>5. CASE i \notin 1..Len(rows)
  <2>1. i - Len(rows) \in 1..Len(new[s]) /\ Len(rows) + (i - Len(rows)) = i
    BY <1>2, <1>3, <1>5
  <2>2. rows'[Len(rows) + (i - Len(rows))] = new[s][i - Len(rows)]
    BY <1>1, <2>1
  <2>3. QED
    BY <1>2, <1>5, <2>1, <2>2
<1>6. QED
  BY <1>4, <1>5

LEMMA KeysCommit ==
  ASSUME Typed, LotsOK, KeysOK, NEW s \in Actors, Commit(s)
  PROVE  KeysOK'
<1>1. /\ pc' = [pc EXCEPT ![s] = "idle"] /\ prog' = [prog EXCEPT ![s] = <<>>]
      /\ new' = [new EXCEPT ![s] = <<>>] /\ work' = [work EXCEPT ![s] = NoOne]
      /\ s = Job => sale' = sale
      /\ s # Job => \E x : sale' = [sale EXCEPT ![work[s]] = x]
  BY DEF Commit, Goto
<1>2. KeyRules'
  BY <1>1, KeysEnd
<1>3. DOMAIN <<>> = {} /\ Len(rows) \in Nat /\ DOMAIN rows = 1..Len(rows)
      /\ DOMAIN new[s] = 1..Len(new[s]) /\ Len(new[s]) \in Nat
      /\ \A i \in DOMAIN rows' : i \in Int
  <2>1. rows' \in Seq(Row)
    BY CommitRows
  <2>2. QED
    BY <2>1, LenProperties DEF Typed, TypeOK
<1>4. ASSUME NEW t \in Actors
      PROVE  FreshKeys(t)'
  <2>1. CASE t = s
    <3>1. new'[t] = <<>>
      BY <2>1, <1>1 DEF Typed, TypeOK
    <3>2. QED
      BY <1>3, <3>1 DEF FreshKeys
  <2>2. CASE t # s
    <3>1. new'[t] = new[t]
      BY <2>2, <1>1 DEF Typed, TypeOK
    <3>2. ASSUME NEW i \in DOMAIN rows', NEW j \in DOMAIN new[t]
          PROVE  rows'[i].key # new[t][j].key
      <4>1. CASE i \in DOMAIN rows /\ rows'[i].key = rows[i].key
        BY <4>1 DEF KeysOK, FreshKeys
      <4>2. CASE i - Len(rows) \in DOMAIN new[s] /\ rows'[i].key = new[s][i - Len(rows)].key
        BY <2>2, <4>2, Apart
      <4>3. QED
        BY <4>1, <4>2, CommitKeys
    <3>3. QED
      BY <3>1, <3>2 DEF KeysOK, FreshKeys
  <2>3. QED
    BY <2>1, <2>2
<1>5. ASSUME NEW i \in DOMAIN rows', NEW j \in DOMAIN rows', rows'[i].key = rows'[j].key
      PROVE  i = j
  <2>1. FreshKeys(s) /\ OneRowPerKey
    BY DEF KeysOK
  <2>2. \/ i \in DOMAIN rows /\ rows'[i].key = rows[i].key
        \/ /\ i \notin DOMAIN rows /\ i - Len(rows) \in DOMAIN new[s]
           /\ rows'[i].key = new[s][i - Len(rows)].key
    BY CommitKeys
  <2>3. \/ j \in DOMAIN rows /\ rows'[j].key = rows[j].key
        \/ /\ j \notin DOMAIN rows /\ j - Len(rows) \in DOMAIN new[s]
           /\ rows'[j].key = new[s][j - Len(rows)].key
    BY CommitKeys
  <2>4. CASE i \in DOMAIN rows
    <3>1. j \in DOMAIN rows
      BY <1>5, <2>1, <2>2, <2>3, <2>4 DEF FreshKeys
    <3>2. QED
      BY <1>5, <2>1, <2>2, <2>3, <2>4, <3>1 DEF OneRowPerKey
  <2>5. CASE i \notin DOMAIN rows
    <3>1. j \notin DOMAIN rows
      BY <1>5, <2>1, <2>2, <2>3, <2>5 DEF FreshKeys
    <3>2. i - Len(rows) = j - Len(rows)
      BY <1>5, <2>1, <2>2, <2>3, <2>5, <3>1 DEF FreshKeys
    <3>3. QED
      BY <1>3, <3>2
  <2>6. QED
    BY <2>4, <2>5
<1>6. QED
  BY <1>2, <1>4, <1>5 DEF KeysOK, KeyRules, OneRowPerKey

\* What a call inserts has the key of the call.
LEMMA CallKey ==
  ASSUME Typed, KeysOK, NEW s \in Sessions, prog[s] # <<>>
  PROVE  OwnKey(s, Head(prog[s]).key)
<1>1. prog[s] \in Seq(Call)
  BY DEF Typed, ProgramOK, SessionOK
<1>2. 1 \in DOMAIN prog[s] /\ Head(prog[s]) = prog[s][1]
  BY <1>1
<1>3. QED
  BY <1>2 DEF KeysOK

LEMMA KeysInsertCredit ==
  ASSUME Typed, KeysOK, NEW s \in Sessions, InsertCredit(s)
  PROVE  KeysOK'
<1> DEFINE c == Head(prog[s])
           expires == IF c.life = 0 THEN 0 ELSE now + c.life
           e == Entry(s, c.amount, c.kind, c.key, expires)
<1>1. pc[s] = "insert" /\ s \in Actors
  BY DEF InsertCredit, Actors
<1>2. /\ c.amount \in Nat \ {0} /\ c.life \in Nat /\ c.key \in Keys /\ prog[s] # <<>>
      /\ c.kind \in {"earn", "spend", "refund"}
  BY <1>1, InCall
<1>3. e \in Row /\ e.key = c.key /\ OwnKey(s, c.key)
  <2>1. expires \in Nat
    BY <1>1, <1>2 DEF Typed, TypeOK
  <2>2. OwnKey(s, c.key)
    BY <1>2, CallKey
  <2> HIDE DEF expires, c
  <2>3. e \in Row
    BY <1>1, <1>2, <2>1, EntryType DEF Typed
  <2>4. QED
    BY <2>2, <2>3 DEF Entry
<1>4. /\ \/ new' = new
         \/ ~KeyTaken(s, c.key) /\ new' = [new EXCEPT ![s] = Append(@, e)]
      /\ Return(s) \/ (prog' = prog /\ Goto(s, "bump"))
      /\ sale' = sale /\ work' = work /\ rows' = rows
  BY DEF InsertCredit, db
<1> HIDE DEF e, c
<1>5. /\ \A t \in Actors \ {s} : pc'[t] = pc[t] /\ prog'[t] = prog[t]
      /\ pc'[s] # "idle" /\ (prog'[s] = prog[s] \/ prog'[s] = Tail(prog[s]))
  BY <1>1, <1>4 DEF Return, Goto, Typed, TypeOK
<1>6. \/ new' = new
      \/ \E r \in Row : /\ new' = [new EXCEPT ![s] = Append(@, r)]
                        /\ OwnKey(s, r.key) /\ ~KeyTaken(s, r.key)
  BY <1>3, <1>4
<1>7. QED
  BY <1>1, <1>2, <1>4, <1>5, <1>6, KeysStatement

LEMMA KeysLockForDebit ==
  ASSUME Typed, KeysOK, NEW s \in Sessions, LockForDebit(s)
  PROVE  KeysOK'
<1> DEFINE c == Head(prog[s])
           e == Entry(s, -c.amount, c.kind, c.key, 0)
<1>1. pc[s] = "lock" /\ s \in Actors
  BY DEF LockForDebit, Actors
<1>2. /\ c.amount \in Nat \ {0} /\ c.key \in Keys /\ prog[s] # <<>>
      /\ c.kind \in {"earn", "spend", "refund"}
  BY <1>1, InCall
<1>3. e \in Row /\ e.key = c.key /\ OwnKey(s, c.key)
  <2>1. -c.amount \in Int /\ 0 \in Nat
    BY <1>2
  <2>2. OwnKey(s, c.key)
    BY <1>2, CallKey
  <2> HIDE DEF c
  <2>3. e \in Row
    BY <1>1, <1>2, <2>1, EntryType DEF Typed
  <2>4. QED
    BY <2>2, <2>3 DEF Entry
<1>4. /\ \/ new' = new
         \/ ~KeyTaken(s, c.key) /\ new' = [new EXCEPT ![s] = Append(@, e)]
      /\ Return(s) \/ (prog' = prog /\ Goto(s, "allocate"))
      /\ sale' = sale /\ work' = work /\ rows' = rows
  BY DEF LockForDebit, db
<1> HIDE DEF e, c
<1>5. /\ \A t \in Actors \ {s} : pc'[t] = pc[t] /\ prog'[t] = prog[t]
      /\ pc'[s] # "idle" /\ (prog'[s] = prog[s] \/ prog'[s] = Tail(prog[s]))
  BY <1>1, <1>4 DEF Return, Goto, Typed, TypeOK
<1>6. \/ new' = new
      \/ \E r \in Row : /\ new' = [new EXCEPT ![s] = Append(@, r)]
                        /\ OwnKey(s, r.key) /\ ~KeyTaken(s, r.key)
  BY <1>3, <1>4
<1>7. QED
  BY <1>1, <1>2, <1>4, <1>5, <1>6, KeysStatement

LEMMA KeysClawBack ==
  ASSUME Typed, KeysOK, NEW s \in Sessions, ClawBack(s)
  PROVE  KeysOK'
<1> DEFINE c == Head(prog[s])
           cap == Least(c.amount, BalanceFor(s))
           e == Entry(s, -cap, c.kind, c.key, 0)
<1>1. pc[s] = "call" /\ prog[s] # <<>> /\ s \in Actors
  BY DEF ClawBack, Calling, Actors
<1>2. /\ c.amount \in Nat \ {0} /\ c.key \in Keys
      /\ c.kind \in {"earn", "spend", "refund"}
  BY <1>1, InCall
<1>3. e \in Row /\ e.key = c.key /\ OwnKey(s, c.key)
  <2>1. -cap \in Int /\ 0 \in Nat
    BY <1>1, <1>2 DEF Typed, TypeOK, Least, BalanceFor
  <2>2. OwnKey(s, c.key)
    BY <1>1, CallKey
  <2> HIDE DEF cap, c
  <2>3. e \in Row
    BY <1>1, <1>2, <2>1, EntryType DEF Typed
  <2>4. QED
    BY <2>2, <2>3 DEF Entry
<1>4. /\ \/ new' = new
         \/ ~KeyTaken(s, c.key) /\ new' = [new EXCEPT ![s] = Append(@, e)]
      /\ Return(s)
      /\ sale' = sale /\ work' = work /\ rows' = rows
  BY DEF ClawBack, db
<1> HIDE DEF e, c
<1>5. /\ \A t \in Actors \ {s} : pc'[t] = pc[t] /\ prog'[t] = prog[t]
      /\ pc'[s] # "idle" /\ prog'[s] = Tail(prog[s])
  BY <1>1, <1>4 DEF Return, Goto, Typed, TypeOK
<1>6. \/ new' = new
      \/ \E r \in Row : /\ new' = [new EXCEPT ![s] = Append(@, r)]
                        /\ OwnKey(s, r.key) /\ ~KeyTaken(s, r.key)
  BY <1>3, <1>4
<1>7. QED
  BY <1>1, <1>4, <1>5, <1>6, KeysStatement

\* Statements of a session that insert nothing.
LEMMA KeysQuiet ==
  ASSUME Typed, KeysOK, NEW s \in Sessions,
         \/ GetOrCreate(s) \/ MakeWallet(s) \/ BumpBalance(s) \/ Allocate(s) \/ Charge(s)
  PROVE  KeysOK'
<1>1. s \in Actors /\ pc[s] # "idle" /\ prog[s] # <<>>
  <2>1. pc[s] \notin {"idle", "call"} \/ (pc[s] = "call" /\ prog[s] # <<>>)
    BY DEF GetOrCreate, MakeWallet, BumpBalance, Allocate, Charge, Calling
  <2>2. QED
    BY <2>1, InCall DEF Actors
<1>2. PICK l \in {"call", "make", "insert", "lock", "charge"} : pc' = [pc EXCEPT ![s] = l]
  BY DEF GetOrCreate, MakeWallet, BumpBalance, Allocate, Charge, Goto, Return
<1>3. /\ prog' = prog \/ prog' = [prog EXCEPT ![s] = Tail(@)]
      /\ sale' = sale /\ work' = work /\ rows' = rows /\ new' = new
  BY DEF GetOrCreate, MakeWallet, BumpBalance, Allocate, Charge, Return, db, private
<1>4. /\ \A t \in Actors \ {s} : pc'[t] = pc[t] /\ prog'[t] = prog[t]
      /\ pc'[s] # "idle" /\ (prog'[s] = prog[s] \/ prog'[s] = Tail(prog[s]))
  BY <1>1, <1>2, <1>3 DEF Typed, TypeOK
<1>5. QED
  BY <1>1, <1>3, <1>4, KeysStatement

\* Statements of the job.
LEMMA KeysJob ==
  ASSUME Typed, LotsOK, KeysOK, SelectLapsed \/ MarkSpent \/ BurnBalance
  PROVE  KeysOK'
<1>1. Job \in Actors /\ Job \notin Sessions
  BY JobIsNoSession DEF Actors
<1>2. /\ sale' = sale /\ work' = work /\ rows' = rows
      /\ \E l \in {"call", "mark", "burn"} : pc' = [pc EXCEPT ![Job] = l]
      /\ prog' = prog \/ \E q : prog' = [prog EXCEPT ![Job] = q]
  BY DEF SelectLapsed, MarkSpent, BurnBalance, Goto, db
<1>3. /\ \A t \in Actors \ {Job} : pc'[t] = pc[t] /\ prog'[t] = prog[t]
      /\ pc'[Job] # "idle"
  BY <1>1, <1>2 DEF Typed, TypeOK
<1>4. CASE SelectLapsed \/ BurnBalance
  <2>1. new' = new
    BY <1>4 DEF SelectLapsed, BurnBalance, private
  <2>2. QED
    BY <1>1, <1>2, <1>3, <2>1, KeysStatement
<1>5. CASE MarkSpent
  <2> DEFINE b == Head(prog[Job])
             e == Entry(Job, -b.remainder, "expire", <<"expire", b.lot>>, 0)
  <2>1. pc[Job] = "mark" /\ prog[Job] # <<>>
    BY <1>5 DEF MarkSpent, Typed, ProgramOK, JobOK
  <2>2. b.lot \in Nat \ {0} /\ b.remainder \in Nat
    BY <2>1, ProgramParts DEF Selected
  <2>3. new' = [new EXCEPT ![Job] = Append(@, e)] /\ ~KeyTaken(Job, <<"expire", b.lot>>)
    BY <1>5 DEF MarkSpent
  <2>4. e \in Row /\ e.key = <<"expire", b.lot>> /\ OwnKey(Job, <<"expire", b.lot>>)
    <3> HIDE DEF b
    <3>1. <<"expire", b.lot>> \in Keys /\ -b.remainder \in Int /\ 0 \in Nat
      BY <2>2 DEF Keys
    <3>2. e \in Row
      BY <1>1, <3>1, EntryType DEF Typed
    <3>3. QED
      BY <3>2 DEF Entry, OwnKey
  <2> HIDE DEF b, e
  <2>5. \E r \in Row : /\ new' = [new EXCEPT ![Job] = Append(@, r)]
                       /\ OwnKey(Job, r.key) /\ ~KeyTaken(Job, r.key)
    BY <2>3, <2>4
  <2>6. pc[Job] # "idle"
    BY <2>1
  <2>7. QED
    BY <1>1, <1>2, <1>3, <2>5, <2>6, KeysStatement
<1>6. QED
  BY <1>4, <1>5

LEMMA KeysStep ==
  ASSUME Typed, LotsOK, KeysOK, [Next]_vars
  PROVE  KeysOK'
<1>1. ASSUME NEW s \in Sessions, NEW p \in Sales, NEW plan \in Plans[p], BeginSale(s, p, plan)
      PROVE  KeysOK'
  <2> DEFINE q == SaleCalls(p, plan)
  <2>1. /\ pc[s] = "idle" /\ sale[p] = "new" /\ sale' = [sale EXCEPT ![p] = "recording"]
        /\ work' = [work EXCEPT ![s] = p] /\ prog' = [prog EXCEPT ![s] = q]
        /\ pc' = [pc EXCEPT ![s] = "call"] /\ new' = new /\ rows' = rows
    BY <1>1 DEF BeginSale, Goto, private
  <2>2. \A k \in DOMAIN q : q[k].key[1] # "expire" /\ q[k].key[2] = p
    BY SaleKeys
  <2> HIDE DEF q
  <2>3. sale[p] \notin {"recording", "refunding"}
    BY <2>1
  <2>4. QED
    BY <2>1, <2>2, <2>3, KeysBegin
<1>2. ASSUME NEW s \in Sessions, NEW p \in Sales, NEW order \in Orders(Len(ledger[p])),
             BeginRefund(s, p, order)
      PROVE  KeysOK'
  <2> DEFINE q == [i \in DOMAIN order |-> Compensation(p, ledger[p][order[i]])]
  <2>1. /\ pc[s] = "idle" /\ sale[p] = "committed" /\ sale' = [sale EXCEPT ![p] = "refunding"]
        /\ work' = [work EXCEPT ![s] = p] /\ prog' = [prog EXCEPT ![s] = q]
        /\ pc' = [pc EXCEPT ![s] = "call"] /\ new' = new /\ rows' = rows
    BY <1>2 DEF BeginRefund, Goto, private
  <2>2. \A k \in DOMAIN q : q[k].key[1] # "expire" /\ q[k].key[2] = p
    BY RefundKeys
  <2> HIDE DEF q
  <2>3. sale[p] \notin {"recording", "refunding"}
    BY <2>1
  <2>4. QED
    BY <2>1, <2>2, <2>3, KeysBegin
<1>3. CASE Tick \/ UNCHANGED vars
  <2>1. /\ pc' = pc /\ new' = new /\ work' = work /\ sale' = sale /\ prog' = prog
        /\ rows' = rows
    BY <1>3 DEF Tick, vars, private, db
  <2>2. WorkOK'
    BY <2>1 DEF KeysOK, WorkOK
  <2>3. \A t \in Actors : FreshKeys(t)'
    BY <2>1 DEF KeysOK, FreshKeys
  <2>4. QED
    BY <2>1, <2>2, <2>3 DEF KeysOK, OwnKey, OneRowPerKey
<1>4. CASE RolledBack
  BY <1>4, KeysRollBack DEF RolledBack
<1>5. QED
  BY <1>1, <1>2, <1>3, <1>4, StepCases, KeysInsertCredit, KeysLockForDebit, KeysClawBack,
     KeysQuiet, KeysJob, KeysCommit

-----------------------------------------------------------------------------
(* Debits *)

LEMMA DebitsInit ==
  ASSUME Init
  PROVE  DebitsOK
<1>1. Sessions \subseteq Actors
  BY DEF Actors
<1>2. QED
  BY <1>1 DEF Init, DebitsOK, SpendsOldestFirst

Debiting(t) == pc[t] \in {"allocate", "charge"}

\* A step of s at which nobody else is in the middle of a debit, or that leaves
\* the row lock, the rows and the entries of s alone.
LEMMA DebitsKept ==
  ASSUME Typed, DebitsOK, NEW s \in Actors, now' = now,
         \A t \in Actors \ {s} : pc'[t] = pc[t] /\ new'[t] = new[t] /\ ver'[t] = ver[t],
         \A t \in Sessions \ {s} :
           Debiting(t) => holder' = holder /\ new'[s] = <<>> /\ rows' = rows,
         ver'[s] = NoLot \/ new'[s] # <<>>,
         s \in Sessions /\ pc'[s] \in {"allocate", "charge"} => Alone(s)',
         s \in Sessions /\ pc'[s] = "charge" => OldestFirst(s)'
  PROVE  DebitsOK'
<1>1. Sessions \subseteq Actors
  BY DEF Actors
<1>2. \A t \in Actors : ver'[t] = NoLot \/ new'[t] # <<>>
  BY DEF DebitsOK
<1>3. ASSUME NEW t \in Sessions, pc'[t] \in {"allocate", "charge"}, t # s
      PROVE  /\ Debiting(t) /\ Alone(t) /\ t \in Actors /\ new'[s] = <<>>
             /\ rows' = rows /\ holder' = holder /\ pc'[t] = pc[t]
             /\ new'[t] = new[t] /\ ver'[t] = ver[t]
  BY <1>1, <1>3 DEF DebitsOK, Debiting
<1>4. ASSUME NEW t \in Sessions, pc'[t] \in {"allocate", "charge"}, t # s
      PROVE  Alone(t)'
  <2>1. holder' = t /\ \E i \in DOMAIN new'[t] : new'[t][i].amount < 0
    BY <1>3, <1>4 DEF Alone
  <2>2. \A u \in Actors \ {t} : new'[u] = <<>>
    BY <1>3, <1>4 DEF Alone
  <2>3. QED
    BY <2>1, <2>2 DEF Alone
<1>5. ASSUME NEW t \in Sessions, pc'[t] = "charge", t # s
      PROVE  OldestFirst(t)'
  <2>1. rows' = rows /\ ver'[t] = ver[t] /\ OldestFirst(t)
    BY <1>3, <1>5 DEF DebitsOK, SpendsOldestFirst
  <2>2. Lots' = Lots
    BY <2>1 DEF Lots, IsLot, Live
  <2>3. \A i, j : Before(i, j)' <=> Before(i, j)
    BY <2>1 DEF Before
  <2>4. QED
    BY <2>1, <2>2, <2>3 DEF OldestFirst
<1>6. QED
  BY <1>2, <1>4, <1>5 DEF DebitsOK, SpendsOldestFirst

\* Who may insert a row, or take the row lock, meets nobody in a debit.
LEMMA NobodyDebits ==
  ASSUME Typed, DebitsOK, NEW s \in Actors, MayInsert(s) \/ KeyFree(s) \/ WalletFree(s)
  PROVE  \A t \in Sessions \ {s} : ~Debiting(t)
<1>1. SUFFICES ASSUME NEW t \in Sessions \ {s}, Debiting(t)
               PROVE  FALSE
  OBVIOUS
<1>2. t \in Actors /\ t # Job /\ t # NoOne
  BY JobIsNoSession DEF Actors
<1>3. Alone(t)
  BY <1>1 DEF DebitsOK, Debiting
<1>4. ForUpdate(t) /\ SharesKey(t)
  <2>1. PICK i \in DOMAIN new[t] : new[t][i].amount < 0
    BY <1>3 DEF Alone
  <2>2. new[t] # <<>>
    BY <2>1
  <2>3. QED
    BY <1>2, <1>3, <2>2 DEF Alone, ForUpdate, SharesKey
<1>5. QED
  BY <1>2, <1>3, <1>4 DEF Alone, MayInsert, KeyFree, WalletFree

\* Statements of actor s that leave it outside of a debit.
LEMMA DebitsStatement ==
  ASSUME Typed, DebitsOK, NEW s \in Actors, now' = now, NEW l,
         pc' = [pc EXCEPT ![s] = l], l \notin {"allocate", "charge"},
         rows' = rows,
         \A t \in Actors \ {s} : new'[t] = new[t] /\ ver'[t] = ver[t],
         \/ new'[s] = new[s] /\ holder' = holder
         \/ MayInsert(s) \/ KeyFree(s) \/ WalletFree(s),
         ver'[s] = NoLot \/ new'[s] # <<>>
  PROVE  DebitsOK'
<1>1. /\ \A t \in Actors \ {s} : pc'[t] = pc[t]
      /\ pc'[s] = l
  BY DEF Typed, TypeOK
<1>2. \A t \in Sessions \ {s} : Debiting(t) => holder' = holder /\ new'[s] = <<>>
  <2>1. CASE new'[s] = new[s] /\ holder' = holder
    BY <2>1 DEF DebitsOK, Debiting, Alone
  <2>2. CASE MayInsert(s) \/ KeyFree(s) \/ WalletFree(s)
    BY <2>2, NobodyDebits
  <2>3. QED
    BY <2>1, <2>2
<1>3. QED
  BY <1>1, <1>2, DebitsKept

LEMMA AppendNotEmpty ==
  ASSUME Typed, NEW s \in Actors, NEW e
  PROVE  Append(new[s], e) # <<>>
<1> DEFINE S == Row \cup {e}
           n == new[s]
<1>1. n \in Seq(Row)
  BY DEF Typed, TypeOK
<1> HIDE DEF n
<1>2. n \in Seq(S) /\ e \in S
  BY <1>1, ElementOfSeq
<1> HIDE DEF S
<1>3. Append(n, e) # <<>>
  BY <1>2, AppendProperties
<1>4. QED
  BY <1>3 DEF n

LEMMA DebitsInsertCredit ==
  ASSUME Typed, DebitsOK, NEW s \in Sessions, InsertCredit(s)
  PROVE  DebitsOK'
<1>1. s \in Actors /\ MayInsert(s)
  BY DEF InsertCredit, Actors
<1>2. PICK l \in {"call", "bump"} : pc' = [pc EXCEPT ![s] = l]
  BY DEF InsertCredit, Return, Goto
<1>3. PICK e : new' = new \/ new' = [new EXCEPT ![s] = Append(@, e)]
  BY DEF InsertCredit
<1>4. rows' = rows /\ ver' = ver /\ now' = now
  BY DEF InsertCredit, db
<1>5. /\ \A t \in Actors \ {s} : new'[t] = new[t]
      /\ new'[s] = new[s] \/ new'[s] = Append(new[s], e)
  BY <1>1, <1>3 DEF Typed, TypeOK
<1>6. ver'[s] = NoLot \/ new'[s] # <<>>
  BY <1>1, <1>4, <1>5, AppendNotEmpty DEF DebitsOK
<1>7. l \notin {"allocate", "charge"}
  OBVIOUS
<1>8. QED
  BY <1>1, <1>2, <1>4, <1>5, <1>6, <1>7, DebitsStatement

LEMMA DebitsClawBack ==
  ASSUME Typed, DebitsOK, NEW s \in Sessions, ClawBack(s)
  PROVE  DebitsOK'
<1>1. s \in Actors
  BY DEF Actors
<1>2. pc' = [pc EXCEPT ![s] = "call"]
  BY DEF ClawBack, Return, Goto
<1>3. PICK e : /\ new' = new \/ new' = [new EXCEPT ![s] = Append(@, e)]
               /\ (new' = new /\ holder' = holder) \/ KeyFree(s)
  BY DEF ClawBack
<1>4. rows' = rows /\ ver' = ver /\ now' = now
  BY DEF ClawBack, db
<1>5. /\ \A t \in Actors \ {s} : new'[t] = new[t]
      /\ new'[s] = new[s] \/ new'[s] = Append(new[s], e)
  BY <1>1, <1>3 DEF Typed, TypeOK
<1>6. ver'[s] = NoLot \/ new'[s] # <<>>
  BY <1>1, <1>4, <1>5, AppendNotEmpty DEF DebitsOK
<1>7. "call" \notin {"allocate", "charge"}
  OBVIOUS
<1>8. (new'[s] = new[s] /\ holder' = holder) \/ KeyFree(s)
  BY <1>3
<1>9. QED
  BY <1>1, <1>2, <1>4, <1>5, <1>6, <1>7, <1>8, DebitsStatement

LEMMA DebitsMarkSpent ==
  ASSUME Typed, DebitsOK, MarkSpent
  PROVE  DebitsOK'
<1>1. Job \in Actors /\ MayInsert(Job)
  BY DEF MarkSpent, Actors
<1>2. pc' = [pc EXCEPT ![Job] = "burn"] /\ "burn" \notin {"allocate", "charge"}
  BY DEF MarkSpent, Goto
<1>3. PICK e, v : /\ new' = [new EXCEPT ![Job] = Append(@, e)]
                  /\ ver' = [ver EXCEPT ![Job] = v]
  BY DEF MarkSpent
<1>4. rows' = rows /\ now' = now
  BY DEF MarkSpent, db
<1>5. /\ \A t \in Actors \ {Job} : new'[t] = new[t] /\ ver'[t] = ver[t]
      /\ new'[Job] = Append(new[Job], e)
  BY <1>1, <1>3 DEF Typed, TypeOK
<1>6. new'[Job] # <<>>
  BY <1>1, <1>5, AppendNotEmpty
<1>7. QED
  BY <1>1, <1>2, <1>4, <1>5, <1>6, DebitsStatement

LEMMA DebitsQuiet ==
  ASSUME Typed, DebitsOK, NEW s \in Actors, now' = now, NEW l,
         pc' = [pc EXCEPT ![s] = l], l \notin {"allocate", "charge"},
         rows' = rows, new' = new, ver' = ver, holder' = holder \/ WalletFree(s)
  PROVE  DebitsOK'
<1>1. ver'[s] = NoLot \/ new'[s] # <<>>
  BY DEF DebitsOK
<1>2. QED
  BY <1>1, DebitsStatement

LEMMA DebitsLockForDebit ==
  ASSUME Typed, DebitsOK, NEW s \in Sessions, LockForDebit(s)
  PROVE  DebitsOK'
<1> DEFINE c == Head(prog[s])
           e == Entry(s, -c.amount, c.kind, c.key, 0)
<1>1. s \in Actors /\ KeyFree(s) /\ pc[s] = "lock"
  BY DEF LockForDebit, Actors
<1>2. rows' = rows /\ ver' = ver /\ now' = now /\ holder' = s
  BY DEF LockForDebit, Acquire, db
<1>3. CASE Return(s) /\ new' = new
  <2>1. pc' = [pc EXCEPT ![s] = "call"] /\ "call" \notin {"allocate", "charge"}
    BY <1>3 DEF Return, Goto
  <2>2. ver'[s] = NoLot \/ new'[s] # <<>>
    BY <1>1, <1>2, <1>3 DEF DebitsOK
  <2>3. QED
    BY <1>1, <1>2, <1>3, <2>1, <2>2, DebitsStatement
<1>4. CASE new' = [new EXCEPT ![s] = Append(@, e)] /\ Goto(s, "allocate")
  <2>1. /\ \A t \in Actors \ {s} : new'[t] = new[t] /\ pc'[t] = pc[t]
        /\ new'[s] = Append(new[s], e) /\ pc'[s] = "allocate"
    BY <1>1, <1>4 DEF Typed, TypeOK, Goto
  <2>2. c.amount \in Nat \ {0} /\ e.amount = -c.amount
    BY <1>1, InCall DEF Entry
  <2>3. e.amount < 0
    BY <2>2
  <2> HIDE DEF c, e
  <2>4. new[s] \in Seq(Row)
    BY <1>1 DEF Typed, TypeOK
  <2>5. Len(new[s]) + 1 \in DOMAIN Append(new[s], e) /\ Append(new[s], e)[Len(new[s]) + 1] = e
    BY <2>4
  <2>6. \E i \in DOMAIN new'[s] : new'[s][i].amount < 0
    BY <2>1, <2>3, <2>5
  <2>7. \A t \in Actors \ {s} : new'[t] = <<>>
    BY <1>1, <2>1 DEF KeyFree, SharesKey
  <2>8. Alone(s)'
    BY <1>2, <2>6, <2>7 DEF Alone
  <2>9. \A t \in Sessions \ {s} : ~Debiting(t)
    BY <1>1, NobodyDebits
  <2>10. new'[s] # <<>>
    BY <1>1, <2>1, AppendNotEmpty
  <2>11. QED
    BY <1>1, <1>2, <2>1, <2>8, <2>9, <2>10, DebitsKept
<1>5. QED
  BY <1>3, <1>4 DEF LockForDebit

\* debit's loop takes from a lot only when every older one is used up.
LEMMA DrawsOldestFirst ==
  ASSUME LotsInv, NEW o \in FifoOrders, NEW amount \in Nat, NEW i \in Lots, NEW j \in Lots,
         Before(i, j),
         LET k == CHOOSE k \in DOMAIN o : o[k] = j
         IN  Remaining(o, amount)[k - 1] - Remaining(o, amount)[k] > 0
  PROVE  LET k == CHOOSE k \in DOMAIN o : o[k] = i
         IN  Remaining(o, amount)[k - 1] - Remaining(o, amount)[k] = Available(i)
<1> DEFINE a == CHOOSE k \in DOMAIN o : o[k] = i
           b == CHOOSE k \in DOMAIN o : o[k] = j
           n == Cardinality(Lots)
           stocks == [k \in DOMAIN o |-> Available(o[k])]
           left == Left(stocks, amount)
<1>1. a \in 1..n /\ b \in 1..n /\ o[a] = i /\ o[b] = j /\ n \in Nat /\ o \in [1..n -> Lots]
  BY LotPlace
<1>2. stocks \in Seq(Nat) /\ Len(stocks) = n /\ stocks[a] = Available(i)
  <2>1. \A k \in 1..n : Available(o[k]) \in Nat
    BY <1>1, LotType
  <2> HIDE DEF a, n
  <2>2. QED
    BY <1>1, <2>1
<1>3. Remaining(o, amount) = left
  BY DEF Remaining
<1>4. left[b - 1] - left[b] > 0
  BY <1>3
<1>5. a < b
  <2>1. a # b
    <3>1. ASSUME i = j
          PROVE  FALSE
      <4>1. rows[i] \in Row
        <5>1. rows \in Seq(Row) /\ i \in 1..Len(rows)
          BY LenProperties DEF LotsInv, Typed, TypeOK, Lots
        <5>2. QED
          BY <5>1, ElementOfSeq
      <4>2. rows[i].expires \in Nat /\ rows[i].born \in Nat
        BY <4>1 DEF Row
      <4>3. QED
        BY <3>1, <4>2 DEF Before
    <3> HIDE DEF a, b
    <3>2. QED
      BY <1>1, <3>1
  <2>2. ~(b < a)
    <3>1. ASSUME b < a
          PROVE  ~Before(o[a], o[b])
      BY <1>1, <3>1 DEF FifoOrders
    <3> HIDE DEF a, b
    <3>2. QED
      BY <1>1, <3>1
  <2> HIDE DEF a, b, n
  <2>3. QED
    BY <1>1, <2>1, <2>2
<1> HIDE DEF a, b, n, stocks
<1>6. left[b - 1] \in Int /\ left[b] \in 0..amount /\ left[a] \in 0..amount
  <2>1. b \in 0..Len(stocks) /\ a \in 0..Len(stocks) /\ b \in 1..Len(stocks)
    BY <1>1, <1>2
  <2>2. QED
    BY <1>2, <2>1, LeftSteps, LeftType
<1>7. left[b - 1] <= left[a]
  <2>1. a \in 0..Len(stocks) /\ b - 1 \in 0..Len(stocks) /\ a <= b - 1
    BY <1>1, <1>2, <1>5
  <2>2. QED
    BY <1>2, <2>1, LeftFalls
<1>8. left[a] > 0
  <2> HIDE DEF left
  <2>1. QED
    BY <1>4, <1>6, <1>7
<1>9. left[a - 1] - left[a] = stocks[a]
  <2>1. a \in 1..Len(stocks)
    BY <1>1, <1>2
  <2>2. QED
    BY <1>2, <1>8, <2>1, LeftExhausts
<1>10. QED
  BY <1>2, <1>3, <1>9 DEF a

LEMMA DebitsAllocate ==
  ASSUME LotsInv, DebitsOK, NEW s \in Sessions, Allocate(s)
  PROVE  DebitsOK'
<1> DEFINE amount == Head(prog[s]).amount
<1>1. s \in Actors /\ Typed /\ pc[s] = "allocate"
  BY DEF Actors, LotsInv, Allocate
<1>2. amount \in Nat
  BY <1>1, InCall
<1>3. PICK o \in FifoOrders :
        ver' = [ver EXCEPT ![s] =
                  [i \in Lots |->
                     LET k == CHOOSE k \in DOMAIN o : o[k] = i
                     IN  Drawn(i, Remaining(o, amount)[k - 1] - Remaining(o, amount)[k])]]
  BY DEF Allocate
<1> HIDE DEF amount
<1>4. /\ rows' = rows /\ new' = new /\ holder' = holder /\ now' = now
      /\ pc' = [pc EXCEPT ![s] = "charge"]
  BY DEF Allocate, db, Goto
<1>5. /\ \A t \in Actors \ {s} : ver'[t] = ver[t] /\ pc'[t] = pc[t]
      /\ DOMAIN ver'[s] = Lots /\ pc'[s] = "charge"
  BY <1>1, <1>3, <1>4 DEF Typed, TypeOK
<1>6. Alone(s)
  BY <1>1 DEF DebitsOK
<1> DEFINE place(i) == CHOOSE k \in DOMAIN o : o[k] = i
           draw(i) == Remaining(o, amount)[place(i) - 1] - Remaining(o, amount)[place(i)]
<1>7. \A i \in Lots : ver'[s][i] = rows[i].spent + draw(i)
  BY <1>1, <1>3 DEF Typed, TypeOK, Drawn
<1>8. ASSUME NEW i \in Lots, NEW j \in Lots, draw(j) > 0, Before(i, j)
      PROVE  draw(i) = Available(i)
  BY <1>2, <1>8, DrawsOldestFirst
<1>9. \A i \in Lots : /\ draw(i) \in Int /\ rows[i].spent \in Int
                      /\ rows[i].amount \in Int /\ Available(i) = rows[i].amount - rows[i].spent
  <2>1. ASSUME NEW i \in Lots
        PROVE  draw(i) \in Int
    <3> DEFINE k == place(i)
               stocks == [j \in DOMAIN o |-> Available(o[j])]
    <3>1. /\ k \in 1..Cardinality(Lots) /\ Cardinality(Lots) \in Nat
          /\ o \in [1..Cardinality(Lots) -> Lots]
      BY LotPlace
    <3>2. stocks \in Seq(Nat) /\ Len(stocks) = Cardinality(Lots)
      <4>1. \A j \in 1..Cardinality(Lots) : Available(o[j]) \in Nat
        BY <3>1, LotType
      <4> HIDE DEF k
      <4>2. QED
        BY <3>1, <4>1
    <3> HIDE DEF k, stocks
    <3>3. Left(stocks, amount)[k - 1] \in Int /\ Left(stocks, amount)[k] \in Int
      BY <1>2, <3>1, <3>2, LeftType
    <3>4. Remaining(o, amount)[k - 1] - Remaining(o, amount)[k] \in Int
      BY <3>3 DEF Remaining, stocks
    <3>5. QED
      BY <3>4 DEF k
  <2> HIDE DEF draw
  <2>2. QED
    BY <2>1, LotType
<1> HIDE DEF draw
<1>10. OldestFirst(s)'
  <2>1. Lots' = Lots
    BY <1>4 DEF Lots, IsLot, Live
  <2>2. \A i, j : Before(i, j)' <=> Before(i, j)
    BY <1>4 DEF Before
  <2>3. ASSUME NEW i \in Lots, NEW j \in Lots, ver'[s][j] > rows[j].spent, Before(i, j)
        PROVE  ver'[s][i] = rows[i].amount
    <3>1. draw(j) > 0
      BY <1>7, <1>9, <2>3
    <3>2. draw(i) = Available(i)
      BY <1>8, <2>3, <3>1
    <3>3. QED
      BY <1>7, <1>9, <3>2
  <2>4. QED
    BY <1>4, <1>5, <2>1, <2>2, <2>3 DEF OldestFirst
<1>11. Alone(s)'
  BY <1>4, <1>6 DEF Alone
<1>12. new'[s] # <<>>
  BY <1>4, <1>6 DEF Alone
<1>13. \A t \in Sessions \ {s} : ~Debiting(t)
  <2>1. WalletFree(s)
    BY <1>6 DEF Alone, WalletFree
  <2>2. QED
    BY <1>1, <2>1, NobodyDebits
<1>14. QED
  BY <1>1, <1>4, <1>5, <1>10, <1>11, <1>12, <1>13, DebitsKept

\* A transaction that commits during a debit of another one publishes nothing.
LEMMA DebitsEnd ==
  ASSUME LotsInv, DebitsOK, NEW s \in Actors, Commit(s) \/ RollBack(s)
  PROVE  DebitsOK'
<1>1. /\ Typed /\ now' = now /\ holder' = (IF holder = s THEN NoOne ELSE holder)
      /\ pc' = [pc EXCEPT ![s] = "idle"] /\ new' = [new EXCEPT ![s] = <<>>]
      /\ ver' = [ver EXCEPT ![s] = NoLot]
  BY DEF Commit, RollBack, Goto, LotsInv
<1>2. /\ \A t \in Actors \ {s} : pc'[t] = pc[t] /\ new'[t] = new[t] /\ ver'[t] = ver[t]
      /\ pc'[s] = "idle" /\ new'[s] = <<>> /\ ver'[s] = NoLot
  BY <1>1 DEF Typed, TypeOK
<1>3. ASSUME NEW t \in Sessions \ {s}, Debiting(t)
      PROVE  holder' = holder /\ new'[s] = <<>> /\ rows' = rows
  <2>1. Alone(t) /\ t \in Actors
    BY <1>3 DEF DebitsOK, Debiting, Actors
  <2>2. holder = t /\ new[s] = <<>>
    BY <2>1 DEF Alone
  <2>3. holder' = holder
    BY <1>1, <2>2
  <2>4. ver[s] = NoLot
    BY <2>2 DEF DebitsOK
  <2>5. rows' = rows
    <3>1. CASE RollBack(s)
      BY <3>1 DEF RollBack
    <3>2. CASE Commit(s)
      <4>1. /\ rows' \in Seq(Row) /\ Len(rows') = Len(rows) + Len(new[s])
            /\ \A i \in 1..Len(rows) :
                 rows'[i] = IF i \in DOMAIN ver[s] THEN [rows[i] EXCEPT !.spent = ver[s][i]]
                                                  ELSE rows[i]
        BY <1>1, <3>2, CommitRows DEF LotsInv
      <4>2. DOMAIN ver[s] = {} /\ Len(new[s]) = 0
        BY <2>2, <2>4 DEF NoLot
      <4>3. rows \in Seq(Row) /\ Len(rows) \in Nat
        BY <1>1, LenProperties DEF Typed, TypeOK
      <4>4. Len(rows') = Len(rows) /\ \A i \in 1..Len(rows) : rows'[i] = rows[i]
        BY <4>1, <4>2, <4>3
      <4>5. QED
        BY <4>1, <4>3, <4>4, SeqEqual
    <3>3. QED
      BY <3>1, <3>2
  <2>6. QED
    BY <1>2, <2>3, <2>5
<1>4. QED
  BY <1>1, <1>2, <1>3, DebitsKept

LEMMA DebitsStep ==
  ASSUME LotsInv, DebitsOK, [Next]_vars
  PROVE  DebitsOK'
<1>1. Typed /\ Sessions \subseteq Actors /\ Job \in Actors
  BY DEF LotsInv, Actors
<1>2. ASSUME NEW s \in Sessions, NEW p \in Sales,
             \/ \E plan \in Plans[p] : BeginSale(s, p, plan)
             \/ \E order \in Orders(Len(ledger[p])) : BeginRefund(s, p, order)
      PROVE  DebitsOK'
  <2>1. /\ now' = now /\ pc' = [pc EXCEPT ![s] = "call"] /\ rows' = rows /\ new' = new
        /\ ver' = ver /\ holder' = holder
    BY <1>2 DEF BeginSale, BeginRefund, Goto, private
  <2>2. QED
    BY <1>1, <2>1, DebitsQuiet
<1>3. ASSUME NEW s \in Sessions,
             GetOrCreate(s) \/ MakeWallet(s) \/ BumpBalance(s) \/ Charge(s)
      PROVE  DebitsOK'
  <2>1. PICK l \in {"call", "make", "insert", "lock"} : pc' = [pc EXCEPT ![s] = l]
    BY <1>3 DEF GetOrCreate, MakeWallet, BumpBalance, Charge, Goto, Return
  <2>2. /\ now' = now /\ rows' = rows /\ new' = new /\ ver' = ver
        /\ holder' = holder \/ WalletFree(s)
    BY <1>3 DEF GetOrCreate, MakeWallet, BumpBalance, Charge, UpdateBalance, Acquire, db, private
  <2>3. l \notin {"allocate", "charge"}
    OBVIOUS
  <2>4. QED
    BY <1>1, <2>1, <2>2, <2>3, DebitsQuiet
<1>4. CASE SelectLapsed \/ BurnBalance
  <2>1. PICK l \in {"call", "mark"} : pc' = [pc EXCEPT ![Job] = l]
    BY <1>4 DEF SelectLapsed, BurnBalance, Goto
  <2>2. /\ now' = now /\ rows' = rows /\ new' = new /\ ver' = ver
        /\ holder' = holder \/ WalletFree(Job)
    BY <1>4 DEF SelectLapsed, BurnBalance, UpdateBalance, Acquire, db, private
  <2>3. l \notin {"allocate", "charge"}
    OBVIOUS
  <2>4. QED
    BY <1>1, <2>1, <2>2, <2>3, DebitsQuiet
<1>5. CASE Tick \/ UNCHANGED vars
  <2>1. /\ now' = now \/ now' = now + 1
        /\ rows' = rows /\ new' = new /\ ver' = ver /\ holder' = holder /\ pc' = pc
    BY <1>5 DEF Tick, vars, db, private
  <2>2. Lots' \subseteq Lots
    <3>1. now \in Nat /\ now' \in Nat /\ now' >= now
      BY <1>1, <2>1 DEF Typed, TypeOK
    <3>2. ASSUME NEW i \in DOMAIN rows
          PROVE  rows[i].expires \in Nat
      <4>1. rows \in Seq(Row) /\ i \in 1..Len(rows)
        BY <1>1, LenProperties DEF Typed, TypeOK
      <4>2. rows[i] \in Row
        BY <4>1, ElementOfSeq
      <4>3. QED
        BY <4>2 DEF Row
    <3>3. QED
      BY <2>1, <3>1, <3>2 DEF Lots, IsLot, Live
  <2>3. \A i, j : Before(i, j)' <=> Before(i, j)
    BY <2>1 DEF Before
  <2>4. \A s : OldestFirst(s) => OldestFirst(s)'
    BY <2>1, <2>2, <2>3 DEF OldestFirst
  <2>5. QED
    BY <2>1, <2>4 DEF DebitsOK, Alone, SpendsOldestFirst
<1>6. CASE RolledBack
  BY <1>6, DebitsEnd DEF RolledBack
<1>7. QED
  BY <1>1, <1>2, <1>3, <1>4, <1>5, <1>6, StepCases, DebitsInsertCredit, DebitsLockForDebit,
     DebitsAllocate, DebitsClawBack, DebitsMarkSpent, DebitsEnd

-----------------------------------------------------------------------------
(* Funds *)

LEMMA BackedType ==
  ASSUME NEW r \in Row
  PROVE  Backed(r) \in Int /\ r.amount \in Int /\ Backed(r) - r.amount \in Int
<1>1. r.amount \in Int /\ r.spent \in Nat
  BY DEF Row
<1>2. Backed(r) \in Int
  BY <1>1 DEF Backed
<1>3. QED
  BY <1>1, <1>2

LEMMA DebtsType ==
  ASSUME NEW rs \in Seq(Row)
  PROVE  /\ Debts(rs) \in Seq(Int) /\ Len(Debts(rs)) = Len(rs) /\ Len(rs) \in Nat
         /\ Backing(rs) \in Seq(Int) /\ Len(Backing(rs)) = Len(rs)
         /\ \A i \in 1..Len(rs) : /\ Debts(rs)[i] = Backed(rs[i]) - rs[i].amount
                                  /\ Backing(rs)[i] = Backed(rs[i])
                                  /\ rs[i] \in Row
<1>1. DOMAIN rs = 1..Len(rs) /\ Len(rs) \in Nat
  BY LenProperties
<1>2. \A i \in 1..Len(rs) : rs[i] \in Row
  BY ElementOfSeq
<1>3. \A i \in 1..Len(rs) : Backed(rs[i]) \in Int /\ Backed(rs[i]) - rs[i].amount \in Int
  BY <1>2, BackedType
<1>4. Debts(rs) \in Seq(Int) /\ Len(Debts(rs)) = Len(rs)
  BY <1>1, <1>3 DEF Debts
<1>5. Backing(rs) \in Seq(Int) /\ Len(Backing(rs)) = Len(rs)
  BY <1>1, <1>3 DEF Backing
<1>6. \A i \in 1..Len(rs) : /\ Debts(rs)[i] = Backed(rs[i]) - rs[i].amount
                            /\ Backing(rs)[i] = Backed(rs[i])
  BY <1>1 DEF Debts, Backing
<1>7. QED
  BY <1>1, <1>2, <1>4, <1>5, <1>6

LEMMA DebtsEmpty == Total(Debts(<<>>)) = 0
<1>1. <<>> \in Seq(Row) /\ Len(<<>>) = 0
  OBVIOUS
<1>2. Debts(<<>>) \in Seq(Int) /\ Len(Debts(<<>>)) = 0
  BY <1>1, DebtsType
<1>3. Debts(<<>>) = <<>>
  BY <1>2
<1>4. QED
  BY <1>3, TotalEmpty

\* An inserted row adds what it withdraws.
LEMMA DebtsAppend ==
  ASSUME NEW rs \in Seq(Row), NEW e \in Row
  PROVE  Total(Debts(Append(rs, e))) = Total(Debts(rs)) + (Backed(e) - e.amount)
<1> DEFINE x == Debts(Append(rs, e))
           a == Debts(rs)
           d == Backed(e) - e.amount
           b == <<d>>
<1>1. /\ Append(rs, e) \in Seq(Row) /\ Len(Append(rs, e)) = Len(rs) + 1
      /\ \A i \in 1..Len(rs) : Append(rs, e)[i] = rs[i]
      /\ Append(rs, e)[Len(rs) + 1] = e
  BY AppendProperties
<1>2. /\ x \in Seq(Int) /\ Len(x) = Len(rs) + 1 /\ a \in Seq(Int) /\ Len(a) = Len(rs)
      /\ Len(rs) \in Nat
      /\ \A i \in 1..(Len(rs) + 1) :
           x[i] = Backed(Append(rs, e)[i]) - Append(rs, e)[i].amount
      /\ \A i \in 1..Len(rs) : a[i] = Backed(rs[i]) - rs[i].amount
  BY <1>1, DebtsType
<1>3. d \in Int
  BY BackedType
<1>4. x[Len(rs) + 1] = d /\ \A i \in 1..Len(rs) : x[i] = a[i]
  <2>1. Len(rs) + 1 \in 1..(Len(rs) + 1) /\ \A i \in 1..Len(rs) : i \in 1..(Len(rs) + 1)
    BY <1>2
  <2> HIDE DEF x, a
  <2>2. QED
    BY <1>1, <1>2, <2>1
<1> HIDE DEF x, a, d
<1>5. x = Append(a, d)
  <2>1. Append(a, d) \in Seq(Int) /\ Len(Append(a, d)) = Len(x)
    BY <1>2, <1>3
  <2>2. \A i \in 1..Len(x) : x[i] = Append(a, d)[i]
    BY <1>2, <1>3, <1>4
  <2>3. QED
    BY <1>2, <2>1, <2>2, SeqEqual
<1>6. QED
  BY <1>2, <1>3, <1>5, TotalAppend DEF x, a, d

LEMMA TakesType ==
  ASSUME Typed, LotsOK, NEW s \in Actors
  PROVE  /\ Takes(s) \in Seq(Int) /\ Len(Takes(s)) = Len(rows) /\ Len(rows) \in Nat
         /\ DOMAIN rows = 1..Len(rows)
         /\ \A i \in 1..Len(rows) :
              /\ Takes(s)[i] = IF i \in DOMAIN ver[s] THEN ver[s][i] - rows[i].spent ELSE 0
              /\ Takes(s)[i] >= 0 /\ rows[i] \in Row
<1>1. DOMAIN rows = 1..Len(rows) /\ Len(rows) \in Nat /\ \A i \in 1..Len(rows) : rows[i] \in Row
  BY LenProperties, ElementOfSeq DEF Typed, TypeOK
<1>2. ASSUME NEW i \in 1..Len(rows), i \in DOMAIN ver[s]
      PROVE  ver[s][i] - rows[i].spent \in Nat
  <2>1. ver[s][i] \in rows[i].spent..rows[i].amount
    BY <1>2 DEF LotsOK, VersionsOK
  <2>2. rows[i].spent \in Nat /\ rows[i].amount \in Int
    BY <1>1 DEF Row
  <2>3. QED
    BY <2>1, <2>2
<1>3. \A i \in 1..Len(rows) :
        (IF i \in DOMAIN ver[s] THEN ver[s][i] - rows[i].spent ELSE 0) \in Nat
  BY <1>2
<1>4. \A i \in 1..Len(rows) :
        Takes(s)[i] = IF i \in DOMAIN ver[s] THEN ver[s][i] - rows[i].spent ELSE 0
  BY <1>1 DEF Takes
<1>5. Takes(s) \in Seq(Int) /\ Len(Takes(s)) = Len(rows)
  BY <1>1, <1>3 DEF Takes
<1>6. QED
  BY <1>1, <1>3, <1>4, <1>5

\* Who has updated no earn row takes nothing.
LEMMA TakesNothing ==
  ASSUME Typed, LotsOK, NEW s \in Actors, ver[s] = NoLot
  PROVE  Total(Takes(s)) = 0
<1>1. DOMAIN NoLot = {}
  BY DEF NoLot
<1>2. /\ Takes(s) \in Seq(Int) /\ Len(Takes(s)) = Len(rows)
      /\ \A i \in 1..Len(rows) :
           Takes(s)[i] = IF i \in DOMAIN ver[s] THEN ver[s][i] - rows[i].spent ELSE 0
  BY TakesType
<1>3. \A i \in 1..Len(Takes(s)) : Takes(s)[i] = 0
  BY <1>1, <1>2
<1>4. QED
  BY <1>2, <1>3, TotalZeros

LEMMA FundsInit ==
  ASSUME Init
  PROVE  FundsOK
<1>1. Typed /\ LotsOK
  BY TypedInit, LotsInit
<1>2. \A s \in Actors : ver[s] = NoLot /\ new[s] = <<>>
  BY DEF Init
<1>3. \A s \in Actors : Total(Takes(s)) = 0 /\ Total(Debts(new[s])) = 0
  BY <1>1, <1>2, TakesNothing, DebtsEmpty
<1>4. BalanceIsBacked
  <2>1. rows = <<>> /\ balance = 0
    BY DEF Init
  <2>2. Backing(<<>>) = <<>>
    <3>1. <<>> \in Seq(Row) /\ Len(<<>>) = 0
      OBVIOUS
    <3>2. Backing(<<>>) \in Seq(Int) /\ Len(Backing(<<>>)) = 0
      BY <3>1, DebtsType
    <3>3. QED
      BY <3>2
  <2>3. QED
    BY <2>1, <2>2, TotalEmpty DEF BalanceIsBacked
<1>5. \A s \in Sessions : pc[s] # "allocate"
  BY DEF Init, Actors
<1>6. DOMAIN prog[Job] = {}
  BY DEF Init, Actors
<1>7. QED
  BY <1>3, <1>4, <1>5, <1>6 DEF FundsOK

\* A statement of actor s publishes nothing and leaves the others as they are.
LEMMA FundsStatement ==
  ASSUME Typed, LotsOK, FundsOK, NEW s \in Actors, rows' = rows, balance' = balance,
         \A t \in Actors \ {s} : /\ new'[t] = new[t] /\ ver'[t] = ver[t]
                                 /\ pc'[t] = pc[t] /\ prog'[t] = prog[t],
         Total(Takes(s)') <= Total(Debts(new'[s])), 0 <= Total(Debts(new'[s])),
         pc'[s] = "allocate" => Head(prog'[s]).amount <= Total(Debts(new'[s])),
         s = Job => \A k \in DOMAIN prog'[Job] :
                      Available(prog'[Job][k].lot) <= prog'[Job][k].remainder
  PROVE  FundsOK'
<1>1. BalanceIsBacked'
  BY DEF FundsOK, BalanceIsBacked
<1>2. ASSUME NEW t \in Actors
      PROVE  Total(Takes(t)') <= Total(Debts(new'[t])) /\ 0 <= Total(Debts(new'[t]))
  <2>1. CASE t = s
    BY <2>1
  <2>2. CASE t # s
    <3>1. Takes(t)' = Takes(t) /\ new'[t] = new[t]
      BY <2>2 DEF Takes
    <3>2. QED
      BY <3>1 DEF FundsOK
  <2>3. QED
    BY <2>1, <2>2
<1>3. ASSUME NEW t \in Sessions, pc'[t] = "allocate"
      PROVE  Head(prog'[t]).amount <= Total(Debts(new'[t]))
  <2>1. CASE t = s
    BY <1>3, <2>1
  <2>2. CASE t # s
    BY <1>3, <2>2 DEF FundsOK, Actors
  <2>3. QED
    BY <2>1, <2>2
<1>4. ASSUME NEW k \in DOMAIN prog'[Job]
      PROVE  Available(prog'[Job][k].lot) <= prog'[Job][k].remainder
  <2>1. CASE s = Job
    BY <2>1
  <2>2. CASE s # Job
    BY <2>2 DEF FundsOK, Actors
  <2>3. QED
    BY <2>1, <2>2
<1>5. \A x : Available(x)' = Available(x)
  BY DEF Available
<1>6. QED
  BY <1>1, <1>2, <1>3, <1>4, <1>5 DEF FundsOK

\* Statements that neither insert nor update a row.
LEMMA FundsQuiet ==
  ASSUME Typed, LotsOK, FundsOK, NEW s \in Sessions, rows' = rows, balance' = balance,
         new' = new, ver' = ver, NEW l, pc' = [pc EXCEPT ![s] = l], l # "allocate",
         prog' = prog \/ \E q : prog' = [prog EXCEPT ![s] = q]
  PROVE  FundsOK'
<1>1. s \in Actors /\ s # Job
  BY JobIsNoSession DEF Actors
<1>2. \A t \in Actors \ {s} : pc'[t] = pc[t] /\ prog'[t] = prog[t]
  BY DEF Typed, TypeOK
<1>3. pc'[s] # "allocate"
  BY <1>1 DEF Typed, TypeOK
<1>4. Takes(s)' = Takes(s)
  BY DEF Takes
<1>5. Total(Takes(s)') <= Total(Debts(new'[s])) /\ 0 <= Total(Debts(new'[s]))
  BY <1>1, <1>4 DEF FundsOK
<1>6. QED
  BY <1>1, <1>2, <1>3, <1>5, FundsStatement

\* A session inserts row e, which withdraws something or nothing.
LEMMA FundsInsert ==
  ASSUME Typed, LotsOK, FundsOK, NEW s \in Sessions, rows' = rows, balance' = balance,
         NEW e \in Row, e.amount <= Backed(e), ver' = ver,
         NEW l, pc' = [pc EXCEPT ![s] = l],
         prog' = prog \/ \E q : prog' = [prog EXCEPT ![s] = q],
         new' = [new EXCEPT ![s] = Append(@, e)],
         l = "allocate" => prog' = prog /\ Head(prog[s]).amount = Backed(e) - e.amount
  PROVE  FundsOK'
<1>1. s \in Actors /\ s # Job
  BY JobIsNoSession DEF Actors
<1>2. /\ \A t \in Actors \ {s} : pc'[t] = pc[t] /\ prog'[t] = prog[t] /\ new'[t] = new[t]
      /\ pc'[s] = l /\ new'[s] = Append(new[s], e) /\ new[s] \in Seq(Row)
  BY <1>1 DEF Typed, TypeOK
<1> DEFINE d == Backed(e) - e.amount
           D == Total(Debts(new[s]))
           T == Total(Takes(s))
<1>3. Takes(s)' = Takes(s)
  BY DEF Takes
<1>4. Total(Debts(new'[s])) = D + d
  BY <1>2, DebtsAppend
<1>5. T <= D /\ 0 <= D /\ d \in Int
  BY <1>1, BackedType DEF FundsOK
<1>6. D \in Int /\ T \in Int
  BY <1>1, <1>2, DebtsType, TakesType, TotalInt
<1>7. d >= 0
  <2>1. Backed(e) \in Int /\ e.amount \in Int
    BY BackedType
  <2>2. QED
    BY <2>1
<1>8. pc'[s] = "allocate" => Head(prog'[s]).amount = d
  BY <1>2
<1> HIDE DEF d, D
<1>9. T <= D + d /\ 0 <= D + d /\ d <= D + d
  <2> HIDE DEF T
  <2>1. QED
    BY <1>5, <1>6, <1>7
<1>10. /\ Total(Takes(s)') <= Total(Debts(new'[s])) /\ 0 <= Total(Debts(new'[s]))
       /\ pc'[s] = "allocate" => Head(prog'[s]).amount <= Total(Debts(new'[s]))
  BY <1>3, <1>4, <1>8, <1>9
<1>11. \A t \in Actors \ {s} : /\ new'[t] = new[t] /\ ver'[t] = ver[t]
                              /\ pc'[t] = pc[t] /\ prog'[t] = prog[t]
  BY <1>2
<1>12. QED
  BY <1>1, <1>10, <1>11, FundsStatement

LEMMA FundsInsertCredit ==
  ASSUME Typed, LotsOK, FundsOK, NEW s \in Sessions, InsertCredit(s)
  PROVE  FundsOK'
<1> DEFINE c == Head(prog[s])
           expires == IF c.life = 0 THEN 0 ELSE now + c.life
           e == Entry(s, c.amount, c.kind, c.key, expires)
<1>1. pc[s] = "insert" /\ s \in Actors
  BY DEF InsertCredit, Actors
<1>2. /\ c.amount \in Nat \ {0} /\ c.life \in Nat /\ c.key \in Keys /\ prog[s] # <<>>
      /\ c.op = "credit"
  BY <1>1, InCall
<1>2a. c.kind \in {"earn", "refund"}
  <2>1. c \in Call
    BY <1>2, ProgramParts
  <2> HIDE DEF c
  <2>2. QED
    BY <1>2, <2>1 DEF Call
<1>3. e \in Row /\ e.amount = c.amount /\ e.kind = c.kind /\ e.spent = 0
  <2>1. expires \in Nat
    BY <1>1, <1>2 DEF Typed, TypeOK
  <2> HIDE DEF expires, c
  <2>2. e \in Row
    BY <1>1, <1>2, <1>2a, <2>1, EntryType DEF Typed
  <2>3. QED
    BY <2>2 DEF Entry
<1>4. /\ \/ /\ new' = new /\ pc' = [pc EXCEPT ![s] = "call"]
            /\ prog' = [prog EXCEPT ![s] = Tail(@)]
         \/ /\ new' = [new EXCEPT ![s] = Append(@, e)]
            /\ pc' = [pc EXCEPT ![s] = "bump"] /\ prog' = prog
      /\ rows' = rows /\ balance' = balance /\ ver' = ver
  BY DEF InsertCredit, db, Return, Goto
<1> HIDE DEF e, c
<1>5. e.amount <= Backed(e)
  BY <1>2, <1>2a, <1>3 DEF Backed
<1>6. "call" # "allocate" /\ "bump" # "allocate"
  OBVIOUS
<1>7. CASE new' = new
  <2>1. \E l : l # "allocate" /\ pc' = [pc EXCEPT ![s] = l]
    BY <1>4, <1>6
  <2>2. prog' = prog \/ \E q : prog' = [prog EXCEPT ![s] = q]
    BY <1>4
  <2>3. QED
    BY <1>4, <1>7, <2>1, <2>2, FundsQuiet
<1>8. CASE new' # new
  <2>1. /\ new' = [new EXCEPT ![s] = Append(@, e)] /\ prog' = prog
        /\ pc' = [pc EXCEPT ![s] = "bump"]
    BY <1>4, <1>8
  <2>2. QED
    BY <1>3, <1>4, <1>5, <1>6, <2>1, FundsInsert
<1>9. QED
  BY <1>7, <1>8

LEMMA FundsLockForDebit ==
  ASSUME Typed, LotsOK, FundsOK, NEW s \in Sessions, LockForDebit(s)
  PROVE  FundsOK'
<1> DEFINE c == Head(prog[s])
           e == Entry(s, -c.amount, c.kind, c.key, 0)
<1>1. pc[s] = "lock" /\ s \in Actors
  BY DEF LockForDebit, Actors
<1>2. /\ c.amount \in Nat \ {0} /\ c.key \in Keys /\ prog[s] # <<>>
      /\ c.kind \in {"earn", "spend", "refund"} /\ c.kind # "earn"
  BY <1>1, InCall
<1>3. e \in Row /\ e.amount = -c.amount /\ e.kind = c.kind
  <2>1. -c.amount \in Int /\ 0 \in Nat
    BY <1>2
  <2> HIDE DEF c
  <2>2. e \in Row
    BY <1>1, <1>2, <2>1, EntryType DEF Typed
  <2>3. QED
    BY <2>2 DEF Entry
<1>4. /\ \/ /\ new' = new /\ pc' = [pc EXCEPT ![s] = "call"]
            /\ prog' = [prog EXCEPT ![s] = Tail(@)]
         \/ /\ new' = [new EXCEPT ![s] = Append(@, e)]
            /\ pc' = [pc EXCEPT ![s] = "allocate"] /\ prog' = prog
      /\ rows' = rows /\ balance' = balance /\ ver' = ver
  BY DEF LockForDebit, db, Return, Goto
<1>5. Backed(e) = 0 /\ e.amount <= Backed(e) /\ Head(prog[s]).amount = Backed(e) - e.amount
  <2>0. c.amount \in Nat /\ c.amount > 0
    BY <1>2
  <2>1. e.amount = -c.amount
    BY <1>3
  <2>2. Backed(e) = 0
    <3> HIDE DEF e, c
    <3>1. QED
      BY <1>2, <1>3, <2>0 DEF Backed
  <2> HIDE DEF e
  <2>3. QED
    BY <2>0, <2>1, <2>2
<1> HIDE DEF e, c
<1>7. CASE new' = new
  <2>0. new # [new EXCEPT ![s] = Append(@, e)]
    <3>1. new[s] \in Seq(Row)
      BY <1>1 DEF Typed, TypeOK
    <3>2. Append(new[s], e) # new[s]
      BY <1>3, <3>1, AppendProperties, LenProperties
    <3>3. QED
      BY <1>1, <3>2 DEF Typed, TypeOK
  <2>1. pc' = [pc EXCEPT ![s] = "call"] /\ prog' = [prog EXCEPT ![s] = Tail(@)]
    BY <1>4, <1>7, <2>0
  <2>2. "call" # "allocate"
    OBVIOUS
  <2>3. QED
    BY <1>4, <1>7, <2>1, <2>2, FundsQuiet
<1>8. CASE new' # new
  <2>1. /\ new' = [new EXCEPT ![s] = Append(@, e)] /\ prog' = prog
        /\ pc' = [pc EXCEPT ![s] = "allocate"]
    BY <1>4, <1>8
  <2>2. QED
    BY <1>3, <1>4, <1>5, <2>1, FundsInsert
<1>9. QED
  BY <1>7, <1>8

LEMMA FundsClawBack ==
  ASSUME Typed, LotsOK, FundsOK, NEW s \in Sessions, ClawBack(s)
  PROVE  FundsOK'
<1> DEFINE c == Head(prog[s])
           cap == Least(c.amount, BalanceFor(s))
           e == Entry(s, -cap, c.kind, c.key, 0)
<1>1. pc[s] = "call" /\ prog[s] # <<>> /\ s \in Actors /\ c.op = "clawback"
  BY DEF ClawBack, Calling, Actors
<1>2. /\ c.amount \in Nat \ {0} /\ c.key \in Keys
      /\ c.kind \in {"earn", "spend", "refund"} /\ c.kind # "earn"
  BY <1>1, InCall
<1>3. e \in Row /\ e.amount = -cap /\ e.kind = c.kind /\ cap \in Int
  <2>1. -cap \in Int /\ 0 \in Nat /\ cap \in Int
    BY <1>1, <1>2 DEF Typed, TypeOK, Least, BalanceFor
  <2> HIDE DEF cap, c
  <2>2. e \in Row
    BY <1>1, <1>2, <2>1, EntryType DEF Typed
  <2>3. QED
    BY <2>1, <2>2 DEF Entry
<1>4. /\ \/ new' = new
         \/ cap > 0 /\ new' = [new EXCEPT ![s] = Append(@, e)]
      /\ pc' = [pc EXCEPT ![s] = "call"] /\ prog' = [prog EXCEPT ![s] = Tail(@)]
      /\ rows' = rows /\ balance' = balance /\ ver' = ver
  BY DEF ClawBack, db, Return, Goto
<1> HIDE DEF e, c, cap
<1>5. "call" # "allocate"
  OBVIOUS
<1>6. CASE new' = new
  BY <1>4, <1>5, <1>6, FundsQuiet
<1>7. CASE cap > 0 /\ new' = [new EXCEPT ![s] = Append(@, e)]
  <2>1. e.amount <= Backed(e)
    <3>1. Backed(e) = 0
      BY <1>2, <1>3, <1>7 DEF Backed
    <3>2. QED
      BY <1>3, <1>7, <3>1
  <2>2. QED
    BY <1>3, <1>4, <1>5, <1>7, <2>1, FundsInsert
<1>8. QED
  BY <1>4, <1>6, <1>7

\* The job takes of a lot what is left, and withdraws no less.
LEMMA FundsMarkSpent ==
  ASSUME Typed, LotsOK, FundsOK, MarkSpent, Typed', LotsOK'
  PROVE  FundsOK'
<1> DEFINE b == Head(prog[Job])
           e == Entry(Job, -b.remainder, "expire", <<"expire", b.lot>>, 0)
           i == b.lot
           r == b.remainder
           D == Total(Debts(new[Job]))
           T == Total(Takes(Job))
<1>1. pc[Job] = "mark" /\ Job \in Actors
  BY DEF MarkSpent, Actors
<1>2. /\ prog[Job] \in Seq(Selected) /\ prog[Job] # <<>>
      /\ i \in Nat \ {0} /\ r \in Nat
  BY <1>1, Burning
<1>3. 1 \in DOMAIN prog[Job] /\ prog[Job][1] = b
  BY <1>2
<1>4. EarnRow(i) /\ Available(i) <= r
  BY <1>3 DEF LotsOK, SelectionOK, FundsOK
<1>5. e \in Row /\ e.amount = -r /\ e.kind = "expire"
  <2> HIDE DEF b
  <2>1. <<"expire", b.lot>> \in Keys /\ -b.remainder \in Int /\ 0 \in Nat
    BY <1>2 DEF Keys
  <2>2. e \in Row
    BY <1>1, <2>1, EntryType DEF Typed
  <2>3. QED
    BY <2>2 DEF Entry
<1>6. /\ new' = [new EXCEPT ![Job] = Append(@, e)]
      /\ ver' = [ver EXCEPT ![Job] =
                   [k \in DOMAIN @ \cup {i} |-> IF k = i THEN rows[i].amount ELSE @[k]]]
      /\ pc' = [pc EXCEPT ![Job] = "burn"] /\ prog' = prog
      /\ rows' = rows /\ balance' = balance
  BY DEF MarkSpent, db, Goto
<1> HIDE DEF e, b
<1>7. Backed(e) - e.amount = r
  <2>1. Backed(e) = 0
    BY <1>5 DEF Backed
  <2>2. QED
    BY <1>2, <1>5, <2>1
<1>8. /\ \A t \in Actors \ {Job} : /\ pc'[t] = pc[t] /\ prog'[t] = prog[t]
                                   /\ new'[t] = new[t] /\ ver'[t] = ver[t]
      /\ pc'[Job] = "burn" /\ new'[Job] = Append(new[Job], e) /\ new[Job] \in Seq(Row)
      /\ DOMAIN ver'[Job] = DOMAIN ver[Job] \cup {i}
      /\ \A k \in DOMAIN ver[Job] \cup {i} :
           ver'[Job][k] = IF k = i THEN rows[i].amount ELSE ver[Job][k]
  BY <1>1, <1>6 DEF Typed, TypeOK
<1>9. Total(Debts(new'[Job])) = D + r
  BY <1>5, <1>7, <1>8, DebtsAppend
<1>10. /\ Takes(Job) \in Seq(Int) /\ Len(Takes(Job)) = Len(rows)
       /\ DOMAIN rows = 1..Len(rows)
       /\ \A k \in 1..Len(rows) :
            /\ Takes(Job)[k] = IF k \in DOMAIN ver[Job] THEN ver[Job][k] - rows[k].spent ELSE 0
            /\ Takes(Job)[k] >= 0 /\ rows[k] \in Row
  BY <1>1, TakesType
<1> DEFINE U == Takes(Job)'
<1>11. /\ U \in Seq(Int) /\ Len(U) = Len(rows)
       /\ \A k \in 1..Len(rows) :
            U[k] = IF k \in DOMAIN ver'[Job] THEN ver'[Job][k] - rows[k].spent ELSE 0
  <2>1. (/\ Takes(Job) \in Seq(Int) /\ Len(Takes(Job)) = Len(rows)
         /\ \A k \in 1..Len(rows) :
              Takes(Job)[k] = IF k \in DOMAIN ver[Job] THEN ver[Job][k] - rows[k].spent ELSE 0)'
    <3>1. /\ DOMAIN rows' = 1..Len(rows') /\ Len(rows') \in Nat
          /\ \A k \in 1..Len(rows') : rows'[k] \in Row
      BY LenProperties, ElementOfSeq DEF Typed, TypeOK
    <3>2. ASSUME NEW k \in 1..Len(rows'), k \in DOMAIN ver'[Job]
          PROVE  ver'[Job][k] - rows'[k].spent \in Int
      <4>1. ver'[Job][k] \in rows'[k].spent..rows'[k].amount
        BY <1>1, <3>2 DEF LotsOK, VersionsOK
      <4>2. rows'[k].spent \in Nat /\ rows'[k].amount \in Int
        BY <3>1 DEF Row
      <4>3. QED
        BY <4>1, <4>2
    <3>3. \A k \in 1..Len(rows') :
            (IF k \in DOMAIN ver'[Job] THEN ver'[Job][k] - rows'[k].spent ELSE 0) \in Int
      BY <3>2
    <3>4. QED
      BY <3>1, <3>3 DEF Takes
  <2>2. QED
    BY <1>6, <2>1
<1> HIDE DEF U
<1>12. i \in 1..Len(rows)
  BY <1>4, <1>10 DEF EarnRow
<1>13. U[i] = rows[i].amount - rows[i].spent
  BY <1>8, <1>11, <1>12
<1>14. ASSUME NEW k \in 1..Len(rows), k # i
       PROVE  U[k] = Takes(Job)[k]
  <2> HIDE DEF i
  <2>1. CASE k \in DOMAIN ver[Job]
    <3>1. k \in DOMAIN ver'[Job] /\ ver'[Job][k] = ver[Job][k]
      BY <1>8, <1>14, <2>1
    <3>2. QED
      BY <1>10, <1>11, <2>1, <3>1
  <2>2. CASE k \notin DOMAIN ver[Job]
    <3>1. k \notin DOMAIN ver'[Job]
      BY <1>8, <1>14, <2>2
    <3>2. QED
      BY <1>10, <1>11, <2>2, <3>1
  <2>3. QED
    BY <2>1, <2>2
<1>15. Total(U) = T + (U[i] - Takes(Job)[i])
  <2>1. /\ Takes(Job) \in Seq(Int) /\ U \in Seq(Int) /\ Len(U) = Len(Takes(Job))
        /\ i \in 1..Len(Takes(Job))
        /\ \A k \in 1..Len(Takes(Job)) : k # i => U[k] = Takes(Job)[k]
    BY <1>10, <1>11, <1>12, <1>14
  <2> HIDE DEF i
  <2>2. QED
    BY <2>1, TotalChange
<1>16. T \in Int /\ D \in Int /\ Takes(Job)[i] \in Int /\ Takes(Job)[i] >= 0
  <2>1. T \in Int /\ D \in Int
    BY <1>8, <1>10, DebtsType, TotalInt
  <2>2. Takes(Job)[i] \in Int
    BY <1>10, <1>12, ElementOfSeq
  <2>3. QED
    BY <1>10, <1>12, <2>1, <2>2
<1>17. T <= D /\ 0 <= D
  BY <1>1 DEF FundsOK
<1>18. U[i] \in Int /\ U[i] <= r
  <2>1. rows[i].amount \in Int /\ rows[i].spent \in Nat
    BY <1>10, <1>12 DEF Row
  <2>2. QED
    BY <1>4, <1>13, <2>1 DEF Available
<1> DEFINE t == Takes(Job)[i]
<1>19. T + (U[i] - t) <= D + r /\ 0 <= D + r
  <2> HIDE DEF T, D, t, i, r
  <2>1. QED
    BY <1>2, <1>16, <1>17, <1>18 DEF t
<1>20. Total(Takes(Job)') <= Total(Debts(new'[Job])) /\ 0 <= Total(Debts(new'[Job]))
  BY <1>9, <1>15, <1>19 DEF U
<1>21. \A k \in DOMAIN prog'[Job] : Available(prog'[Job][k].lot) <= prog'[Job][k].remainder
  BY <1>6 DEF FundsOK
<1>22. QED
  BY <1>1, <1>6, <1>8, <1>20, <1>21, FundsStatement

LEMMA FundsJob ==
  ASSUME Typed, LotsOK, FundsOK, SelectLapsed \/ BurnBalance
  PROVE  FundsOK'
<1>1. Job \in Actors /\ Job \notin Sessions
  BY JobIsNoSession DEF Actors
<1>2. /\ rows' = rows /\ balance' = balance /\ new' = new /\ ver' = ver
      /\ \E l \in {"call", "mark"} : pc' = [pc EXCEPT ![Job] = l]
      /\ \E q : prog' = [prog EXCEPT ![Job] = q]
  BY DEF SelectLapsed, BurnBalance, Goto, db, private
<1>3. /\ \A t \in Actors \ {Job} : pc'[t] = pc[t] /\ prog'[t] = prog[t]
      /\ pc'[Job] # "allocate"
  BY <1>1, <1>2 DEF Typed, TypeOK
<1>4. Total(Takes(Job)') <= Total(Debts(new'[Job])) /\ 0 <= Total(Debts(new'[Job]))
  <2>1. Takes(Job)' = Takes(Job)
    BY <1>2 DEF Takes
  <2>2. QED
    BY <1>1, <1>2, <2>1 DEF FundsOK
<1>5. \A k \in DOMAIN prog'[Job] : Available(prog'[Job][k].lot) <= prog'[Job][k].remainder
  <2>1. CASE SelectLapsed
    <3> DEFINE n == Least(JobLimit, Cardinality(Burnable))
    <3>1. PICK o \in [1..n -> Burnable] :
            prog' = [prog EXCEPT ![Job] =
                       [k \in 1..n |-> [lot |-> o[k], remainder |-> Available(o[k])]]]
      BY <2>1 DEF SelectLapsed
    <3>2. prog'[Job] = [k \in 1..n |-> [lot |-> o[k], remainder |-> Available(o[k])]]
      BY <1>1, <3>1 DEF Typed, TypeOK
    <3>3. \A k \in 1..n : Available(o[k]) \in Nat
      BY <3>1, BurnableType
    <3> HIDE DEF n
    <3>4. ASSUME NEW k \in DOMAIN prog'[Job]
          PROVE  Available(prog'[Job][k].lot) <= prog'[Job][k].remainder
      <4>1. k \in 1..n /\ prog'[Job][k].lot = o[k] /\ prog'[Job][k].remainder = Available(o[k])
        BY <3>2, <3>4
      <4>2. QED
        BY <3>3, <4>1
    <3>5. QED
      BY <3>4
  <2>2. CASE BurnBalance
    <3>1. pc[Job] = "burn" /\ prog' = [prog EXCEPT ![Job] = Tail(prog[Job])]
      BY <2>2 DEF BurnBalance
    <3>2. /\ prog[Job] \in Seq(Selected) /\ prog[Job] # <<>>
          /\ prog'[Job] = Tail(prog[Job])
      BY <1>1, <3>1, Burning DEF Typed, TypeOK
    <3>3. \A k \in DOMAIN prog'[Job] :
            k + 1 \in DOMAIN prog[Job] /\ prog'[Job][k] = prog[Job][k + 1]
      BY <3>2
    <3>4. QED
      BY <3>3 DEF FundsOK
  <2>3. QED
    BY <2>1, <2>2
<1>6. QED
  BY <1>1, <1>2, <1>3, <1>4, <1>5, FundsStatement

LEMMA FundsRollBack ==
  ASSUME Typed, LotsOK, FundsOK, NEW s \in Actors, RollBack(s), Typed', LotsOK'
  PROVE  FundsOK'
<1>1. /\ rows' = rows /\ balance' = balance
      /\ pc' = [pc EXCEPT ![s] = "idle"] /\ prog' = [prog EXCEPT ![s] = <<>>]
      /\ new' = [new EXCEPT ![s] = <<>>] /\ ver' = [ver EXCEPT ![s] = NoLot]
  BY DEF RollBack, Goto
<1>2. /\ \A t \in Actors \ {s} : /\ pc'[t] = pc[t] /\ prog'[t] = prog[t]
                                 /\ new'[t] = new[t] /\ ver'[t] = ver[t]
      /\ pc'[s] = "idle" /\ prog'[s] = <<>> /\ new'[s] = <<>> /\ ver'[s] = NoLot
  BY <1>1 DEF Typed, TypeOK
<1>3. Total(Takes(s)') = 0
  <2>1. /\ DOMAIN rows = 1..Len(rows) /\ Len(rows) \in Nat /\ DOMAIN NoLot = {}
    BY LenProperties DEF Typed, TypeOK, NoLot
  <2> DEFINE z == [i \in 1..Len(rows) |-> 0]
  <2>2. Takes(s)' = z
    BY <1>1, <1>2, <2>1 DEF Takes
  <2>3. z \in Seq(Int) /\ \A i \in 1..Len(z) : z[i] = 0
    BY <2>1
  <2> HIDE DEF z
  <2>4. QED
    BY <2>2, <2>3, TotalZeros
<1>4. Total(Debts(new'[s])) = 0
  BY <1>2, DebtsEmpty
<1>5. DOMAIN <<>> = {}
  OBVIOUS
<1>6. s = Job => \A k \in DOMAIN prog'[Job] :
                   Available(prog'[Job][k].lot) <= prog'[Job][k].remainder
  BY <1>2, <1>5
<1>7. QED
  BY <1>1, <1>2, <1>3, <1>4, <1>6, FundsStatement

\* debit takes from the lots no more than it is asked for.
LEMMA FundsAllocate ==
  ASSUME Typed, LotsOK, FundsOK, NEW s \in Sessions, Allocate(s)
  PROVE  FundsOK'
<1> DEFINE amount == Head(prog[s]).amount
           n == Cardinality(Lots)
<1>1. s \in Actors /\ s # Job /\ LotsInv /\ pc[s] = "allocate"
  BY JobIsNoSession DEF Actors, LotsInv, Allocate
<1>2. amount \in Nat
  BY <1>1, InCall
<1>2a. amount <= Total(Debts(new[s])) /\ 0 <= Total(Debts(new[s]))
  BY <1>1 DEF FundsOK
<1>3. PICK o \in FifoOrders :
        ver' = [ver EXCEPT ![s] =
                  [i \in Lots |->
                     LET k == CHOOSE k \in DOMAIN o : o[k] = i
                     IN  Drawn(i, Remaining(o, amount)[k - 1] - Remaining(o, amount)[k])]]
  BY DEF Allocate
<1> HIDE DEF amount
<1>4. /\ rows' = rows /\ balance' = balance /\ new' = new /\ prog' = prog
      /\ pc' = [pc EXCEPT ![s] = "charge"]
  BY DEF Allocate, db, Goto
<1>5. /\ \A t \in Actors \ {s} : ver'[t] = ver[t] /\ pc'[t] = pc[t]
      /\ DOMAIN ver'[s] = Lots /\ pc'[s] = "charge"
  BY <1>1, <1>3, <1>4 DEF Typed, TypeOK
<1> DEFINE stocks == [j \in DOMAIN o |-> Available(o[j])]
           left == Left(stocks, amount)
           place(i) == CHOOSE k \in DOMAIN o : o[k] = i
           g == [k \in 1..n |-> left[k - 1] - left[k]]
           U == [i \in 1..Len(rows) |->
                   IF i \in Lots THEN left[place(i) - 1] - left[place(i)] ELSE 0]
<1>6. /\ DOMAIN rows = 1..Len(rows) /\ Len(rows) \in Nat
      /\ \A i \in 1..Len(rows) : rows[i] \in Row
  BY LenProperties, ElementOfSeq DEF Typed, TypeOK
<1>7. Lots \subseteq 1..Len(rows)
  BY <1>6 DEF Lots
<1>8. n \in Nat /\ o \in [1..n -> Lots] /\ \A i, j \in 1..n : o[i] = o[j] => i = j
  <2>1. IsFiniteSet(Lots)
    <3>1. IsFiniteSet(1..Len(rows))
      BY <1>6, FS_Interval
    <3>2. QED
      BY <1>7, <3>1, FS_Subset
  <2>2. n \in Nat
    BY <2>1, FS_CardinalityType
  <2> HIDE DEF n
  <2>3. o \in [1..n -> Lots] /\ \A i, j \in 1..n : i < j => o[i] # o[j]
    BY DEF FifoOrders, n
  <2>4. QED
    BY <2>2, <2>3
<1>9. \A i \in Lots : place(i) \in 1..n /\ o[place(i)] = i
  BY <1>1, LotPlace
<1>10. stocks \in Seq(Nat) /\ Len(stocks) = n
  <2>1. \A j \in 1..n : Available(o[j]) \in Nat
    BY <1>1, <1>8, LotType
  <2> HIDE DEF n
  <2>2. QED
    BY <1>8, <2>1
<1> HIDE DEF stocks, n, place
<1>11. \A k \in 1..n : left[k - 1] \in Int /\ left[k] \in Int
  BY <1>2, <1>10, LeftType
<1> HIDE DEF left
<1>12. g \in Seq(Int) /\ Len(g) = n /\ \A k \in 1..n : g[k] = left[k - 1] - left[k]
  BY <1>8, <1>11
<1>13. U \in Seq(Int) /\ Len(U) = Len(rows)
  BY <1>6, <1>9, <1>11
<1>14. \A k \in 1..n : U[o[k]] = g[k]
  <2>1. ASSUME NEW k \in 1..n
        PROVE  U[o[k]] = g[k]
    <3>1. o[k] \in Lots /\ o[k] \in 1..Len(rows)
      BY <1>7, <1>8
    <3>2. place(o[k]) = k
      BY <1>8, <1>9, <3>1
    <3>3. QED
      BY <1>12, <3>1, <3>2
  <2>2. QED
    BY <2>1
<1>15. \A i \in 1..Len(rows) : (\A k \in 1..n : o[k] # i) => U[i] = 0
  BY <1>9
<1> HIDE DEF U, g
<1>16. Total(U) = Total(g)
  <2>1. o \in [1..Len(g) -> 1..Len(U)]
    BY <1>7, <1>8, <1>12, <1>13
  <2>2. \A i, j \in 1..Len(g) : o[i] = o[j] => i = j
    BY <1>8, <1>12
  <2>3. \A j \in 1..Len(g) : U[o[j]] = g[j]
    BY <1>12, <1>14
  <2>4. \A i \in 1..Len(U) : (\A j \in 1..Len(g) : o[j] # i) => U[i] = 0
    BY <1>12, <1>13, <1>15
  <2>5. g \in Seq(Int) /\ U \in Seq(Int)
    BY <1>12, <1>13
  <2>6. QED
    BY <2>1, <2>2, <2>3, <2>4, <2>5, TotalPlaced
<1>17. Total(g) <= amount
  BY <1>2, <1>10, <1>12, LeftTotal DEF left
<1>18. Takes(s)' = U
  <2>1. ASSUME NEW i \in Lots
        PROVE  ver'[s][i] - rows[i].spent = left[place(i) - 1] - left[place(i)]
    <3>1. ver'[s][i] = rows[i].spent
                       + (Remaining(o, amount)[place(i) - 1] - Remaining(o, amount)[place(i)])
      BY <1>1, <1>3 DEF Typed, TypeOK, Drawn, place
    <3>2. Remaining(o, amount) = left
      BY DEF Remaining, left, stocks
    <3>3. rows[i].spent \in Nat
      BY <1>1, LotType
    <3>4. left[place(i) - 1] \in Int /\ left[place(i)] \in Int
      BY <1>9, <1>11
    <3>5. QED
      BY <3>1, <3>2, <3>3, <3>4
  <2>2. Takes(s)' = [i \in 1..Len(rows) |->
                       IF i \in Lots THEN ver'[s][i] - rows[i].spent ELSE 0]
    BY <1>4, <1>5, <1>6 DEF Takes
  <2>3. QED
    BY <2>1, <2>2 DEF U
<1>19. Total(Takes(s)') <= Total(Debts(new'[s])) /\ 0 <= Total(Debts(new'[s]))
  <2> DEFINE D == Total(Debts(new[s]))
             x == Total(g)
  <2>1. D \in Int /\ x \in Int
    <3>1. new[s] \in Seq(Row)
      BY <1>1 DEF Typed, TypeOK
    <3>2. QED
      BY <1>12, <3>1, DebtsType, TotalInt
  <2>2. amount <= D /\ 0 <= D /\ x <= amount
    BY <1>2a, <1>17 DEF amount
  <2>3. Total(Takes(s)') = x /\ Total(Debts(new'[s])) = D
    BY <1>4, <1>16, <1>18
  <2> HIDE DEF D, x
  <2>4. x <= D
    BY <1>2, <2>1, <2>2
  <2>5. QED
    BY <2>2, <2>3, <2>4
<1>20. \A t \in Actors \ {s} : /\ new'[t] = new[t] /\ ver'[t] = ver[t]
                              /\ pc'[t] = pc[t] /\ prog'[t] = prog[t]
  BY <1>4, <1>5
<1>21. pc'[s] # "allocate"
  BY <1>5
<1>22. QED
  BY <1>1, <1>4, <1>19, <1>20, <1>21, FundsStatement

\* What a commit does to each row that was there.
LEMMA CommitRow ==
  ASSUME Typed, LotsOK, NEW s \in Actors, Commit(s), NEW i \in 1..Len(rows)
  PROVE  /\ rows'[i].kind = rows[i].kind /\ rows'[i].amount = rows[i].amount
         /\ rows'[i].spent = rows[i].spent + Takes(s)[i]
         /\ Backed(rows'[i]) = Backed(rows[i]) - Takes(s)[i]
<1> DEFINE e == rows[i]
           v == ver[s][i]
<1>1. rows'[i] = IF i \in DOMAIN ver[s] THEN [e EXCEPT !.spent = v] ELSE e
  BY CommitRows
<1>2. /\ Takes(s)[i] = IF i \in DOMAIN ver[s] THEN v - e.spent ELSE 0
      /\ e \in Row
  BY TakesType
<1>3. i \in DOMAIN ver[s] => v \in e.spent..e.amount /\ e.kind = "earn"
  BY DEF LotsOK, VersionsOK, EarnRow
<1> HIDE DEF e, v
<1>4. e.spent \in Nat /\ e.amount \in Int /\ Backed(e) \in Int
  BY <1>2, BackedType DEF Row
<1>5. CASE i \in DOMAIN ver[s]
  <2>1. /\ rows'[i].kind = e.kind /\ rows'[i].amount = e.amount /\ rows'[i].spent = v
    <3>1. rows'[i] = [e EXCEPT !.spent = v]
      BY <1>1, <1>5
    <3>2. QED
      BY <1>2, <3>1 DEF Row
  <2>2. v \in Int /\ e.kind = "earn" /\ Takes(s)[i] = v - e.spent
    BY <1>2, <1>3, <1>4, <1>5
  <2>3. Backed(rows'[i]) = e.amount - v /\ Backed(e) = e.amount - e.spent
    BY <2>1, <2>2 DEF Backed
  <2>4. v = e.spent + (v - e.spent) /\ e.amount - v = (e.amount - e.spent) - (v - e.spent)
    BY <1>4, <2>2
  <2>5. QED
    BY <2>1, <2>2, <2>3, <2>4 DEF e
<1>6. CASE i \notin DOMAIN ver[s]
  <2>1. rows'[i] = e /\ Takes(s)[i] = 0
    BY <1>1, <1>2, <1>6
  <2>2. e.spent = e.spent + 0 /\ Backed(e) = Backed(e) - 0
    BY <1>4
  <2>3. QED
    BY <2>1, <2>2 DEF e
<1>7. QED
  BY <1>5, <1>6

\* A commit withdraws from the balance what it takes from the rows, or more.
LEMMA FundsCommitBacked ==
  ASSUME Typed, LotsOK, MoneyOK, FundsOK, NEW s \in Actors, Commit(s)
  PROVE  BalanceIsBacked'
<1> DEFINE x == Backing(rows)
           y == Backing(rows')
           b == Backing(new[s])
           d == Debts(new[s])
           a == Amounts(new[s])
           k == Takes(s)
           z == [i \in 1..Len(rows) |-> x[i] - k[i]]
<1>1. rows \in Seq(Row) /\ new[s] \in Seq(Row)
  BY DEF Typed, TypeOK
<1>2. /\ rows' \in Seq(Row) /\ Len(rows') = Len(rows) + Len(new[s])
      /\ \A i \in 1..Len(new[s]) : rows'[Len(rows) + i] = new[s][i]
  BY CommitRows
<1>3. /\ x \in Seq(Int) /\ Len(x) = Len(rows) /\ Len(rows) \in Nat
      /\ \A i \in 1..Len(rows) : x[i] = Backed(rows[i])
  BY <1>1, DebtsType
<1>4. /\ y \in Seq(Int) /\ Len(y) = Len(rows')
      /\ \A i \in 1..Len(rows') : y[i] = Backed(rows'[i])
  BY <1>2, DebtsType
<1>5. /\ b \in Seq(Int) /\ Len(b) = Len(new[s]) /\ d \in Seq(Int) /\ Len(d) = Len(new[s])
      /\ Len(new[s]) \in Nat
      /\ \A i \in 1..Len(new[s]) : /\ b[i] = Backed(new[s][i]) /\ new[s][i] \in Row
                                   /\ d[i] = Backed(new[s][i]) - new[s][i].amount
  BY <1>1, DebtsType
<1>6. a \in Seq(Int) /\ Len(a) = Len(new[s]) /\ \A i \in 1..Len(new[s]) : a[i] = new[s][i].amount
  <2>1. DOMAIN new[s] = 1..Len(new[s])
    BY <1>1, LenProperties
  <2>2. QED
    BY <1>1, <2>1, AmountsType DEF Amounts
<1>7. k \in Seq(Int) /\ Len(k) = Len(rows)
  BY TakesType
<1>8. \A i \in 1..Len(rows) : Backed(rows'[i]) = Backed(rows[i]) - k[i]
  BY CommitRow
<1> HIDE DEF x, y, b, d, a, k
<1>9. /\ \A i \in 1..Len(rows) : x[i] \in Int /\ k[i] \in Int
      /\ \A i \in 1..Len(new[s]) : d[i] \in Int /\ a[i] \in Int /\ b[i] \in Int
  BY <1>3, <1>5, <1>6, <1>7, ElementOfSeq
<1>10. z \in Seq(Int) /\ Len(z) = Len(rows) /\ \A i \in 1..Len(rows) : z[i] = x[i] - k[i]
  BY <1>3, <1>9
<1> HIDE DEF z
<1>11. Total(x) = Total(z) + Total(k)
  <2>1. \A i \in 1..Len(x) : x[i] = z[i] + k[i]
    BY <1>3, <1>9, <1>10
  <2>2. Len(z) = Len(x) /\ Len(k) = Len(x)
    BY <1>3, <1>7, <1>10
  <2>3. QED
    BY <1>3, <1>7, <1>10, <2>1, <2>2, TotalSum
<1>12. Total(b) = Total(d) + Total(a)
  <2>1. \A i \in 1..Len(b) : b[i] = d[i] + a[i]
    <3>1. ASSUME NEW i \in 1..Len(b)
          PROVE  b[i] = d[i] + a[i]
      <4>1. i \in 1..Len(new[s])
        BY <1>5
      <4>2. b[i] = Backed(new[s][i]) /\ d[i] = Backed(new[s][i]) - new[s][i].amount
            /\ a[i] = new[s][i].amount /\ b[i] \in Int /\ a[i] \in Int
        BY <1>5, <1>6, <1>9, <4>1
      <4>3. d[i] = b[i] - a[i]
        BY <4>2
      <4>4. QED
        BY <4>2, <4>3
    <3>2. QED
      BY <3>1
  <2>2. Len(d) = Len(b) /\ Len(a) = Len(b)
    BY <1>5, <1>6
  <2>3. QED
    BY <1>5, <1>6, <2>1, <2>2, TotalSum
<1>13. Total(y) = Total(z) + Total(b)
  <2>1. \A i \in 1..Len(z) : y[i] = z[i]
    <3>1. ASSUME NEW i \in 1..Len(rows)
          PROVE  y[i] = z[i]
      <4>1. i \in 1..Len(rows')
        BY <1>2, <1>3, <1>5
      <4>2. QED
        BY <1>3, <1>4, <1>8, <1>10, <4>1
    <3>2. QED
      BY <1>10, <3>1
  <2>2. \A i \in 1..Len(b) : y[Len(z) + i] = b[i]
    <3>1. ASSUME NEW i \in 1..Len(new[s])
          PROVE  y[Len(rows) + i] = b[i]
      <4>1. Len(rows) + i \in 1..Len(rows')
        BY <1>2, <1>3, <1>5
      <4>2. QED
        BY <1>2, <1>4, <1>5, <4>1
    <3>2. QED
      BY <1>5, <1>10, <3>1
  <2>3. Len(y) = Len(z) + Len(b)
    BY <1>2, <1>4, <1>5, <1>10
  <2>4. QED
    BY <1>4, <1>5, <1>10, <2>1, <2>2, <2>3, TotalParts
<1>14. balance' = balance + delta[s] /\ Total(a) = delta[s] /\ delta[s] \in Int /\ balance \in Int
  <2>1. pc[s] = "call" /\ balance' = balance + delta[s]
    BY DEF Commit, BalanceFor
  <2>2. Outstanding(s) = 0 /\ delta[s] \in Int /\ balance \in Int
    BY <2>1 DEF Outstanding, Typed, TypeOK
  <2>3. Total(a) = delta[s] + Outstanding(s)
    BY DEF MoneyOK, PurseOK, a
  <2>4. QED
    BY <2>1, <2>2, <2>3
<1>15. balance <= Total(x) /\ Total(k) <= Total(d)
  BY DEF FundsOK, BalanceIsBacked, x, d, k
<1>16. Total(z) \in Int /\ Total(k) \in Int /\ Total(d) \in Int
  BY <1>5, <1>7, <1>10, TotalInt
<1>17. balance' <= Total(y)
  BY <1>11, <1>12, <1>13, <1>14, <1>15, <1>16
<1>18. QED
  BY <1>17 DEF BalanceIsBacked, y

LEMMA FundsCommit ==
  ASSUME Typed, LotsOK, MoneyOK, FundsOK, NEW s \in Actors, Commit(s), Typed', LotsOK'
  PROVE  FundsOK'
<1>1. /\ rows' \in Seq(Row) /\ Len(rows') = Len(rows) + Len(new[s])
      /\ \A i \in 1..Len(rows) :
           rows'[i] = IF i \in DOMAIN ver[s] THEN [rows[i] EXCEPT !.spent = ver[s][i]]
                                            ELSE rows[i]
  BY CommitRows
<1>2. /\ pc' = [pc EXCEPT ![s] = "idle"] /\ prog' = [prog EXCEPT ![s] = <<>>]
      /\ new' = [new EXCEPT ![s] = <<>>] /\ ver' = [ver EXCEPT ![s] = NoLot]
  BY DEF Commit, Goto
<1>3. /\ \A t \in Actors \ {s} : /\ pc'[t] = pc[t] /\ prog'[t] = prog[t]
                                 /\ new'[t] = new[t] /\ ver'[t] = ver[t]
      /\ pc'[s] = "idle" /\ prog'[s] = <<>> /\ new'[s] = <<>> /\ ver'[s] = NoLot
  BY <1>2 DEF Typed, TypeOK
<1>4. /\ DOMAIN rows = 1..Len(rows) /\ Len(rows) \in Nat /\ Len(new[s]) \in Nat
      /\ DOMAIN rows' = 1..(Len(rows) + Len(new[s])) /\ DOMAIN NoLot = {} /\ DOMAIN <<>> = {}
  BY <1>1, LenProperties DEF Typed, TypeOK, NoLot
<1>5. Total(Takes(s)') = 0
  <2> DEFINE z == [i \in 1..(Len(rows) + Len(new[s])) |-> 0]
  <2>1. Takes(s)' = z
    BY <1>3, <1>4 DEF Takes
  <2>2. z \in Seq(Int) /\ \A i \in 1..Len(z) : z[i] = 0
    BY <1>4
  <2> HIDE DEF z
  <2>3. QED
    BY <2>1, <2>2, TotalZeros
<1>6. ASSUME NEW t \in Actors, t # s
      PROVE  Total(Takes(t)') = Total(Takes(t))
  <2> DEFINE n == Len(rows)
             m == Len(new[s])
             k == Takes(t)
             z == [i \in 1..m |-> 0]
             q == [i \in 1..(n + m) |-> IF i \in 1..n THEN k[i] ELSE 0]
  <2>1. /\ k \in Seq(Int) /\ Len(k) = n
        /\ \A i \in 1..n : k[i] = IF i \in DOMAIN ver[t] THEN ver[t][i] - rows[i].spent ELSE 0
    BY TakesType
  <2>2. ASSUME NEW i \in 1..(n + m)
        PROVE  (IF i \in DOMAIN ver[t] THEN ver[t][i] - rows'[i].spent ELSE 0)
                 = IF i \in 1..n THEN k[i] ELSE 0
    <3>1. CASE i \in DOMAIN ver[t]
      <4>1. i \in 1..n /\ i \notin DOMAIN ver[s]
        BY <1>4, <1>6, <3>1 DEF LotsOK, VersionsOK, VersionsApart, EarnRow
      <4>2. rows'[i] = rows[i]
        BY <1>1, <4>1
      <4>3. QED
        BY <2>1, <3>1, <4>1, <4>2
    <3>2. CASE i \notin DOMAIN ver[t]
      BY <2>1, <3>2
    <3>3. QED
      BY <3>1, <3>2
  <2>3. Takes(t)' = q
    BY <1>3, <1>4, <1>6, <2>2 DEF Takes
  <2> HIDE DEF k, n, m
  <2>4. n \in Nat /\ m \in Nat
    BY <1>4 DEF n, m
  <2>5. z \in Seq(Int) /\ Len(z) = m /\ \A i \in 1..m : z[i] = 0
    BY <2>4
  <2>6. \A i \in 1..n : k[i] \in Int
    BY <2>1, ElementOfSeq
  <2>7. q \in Seq(Int) /\ Len(q) = n + m
    BY <2>4, <2>6
  <2>8. \A i \in 1..n : q[i] = k[i]
    BY <2>4
  <2>9. \A i \in 1..m : q[n + i] = z[i]
    BY <2>4
  <2> HIDE DEF q, z
  <2>10. Total(q) = Total(k) + Total(z)
    BY <2>1, <2>5, <2>7, <2>8, <2>9, TotalParts
  <2>11. Total(z) = 0 /\ Total(k) \in Int
    BY <2>1, <2>5, TotalZeros, TotalInt
  <2>12. QED
    BY <2>3, <2>10, <2>11 DEF k
<1>7. ASSUME NEW t \in Actors
      PROVE  Total(Takes(t)') <= Total(Debts(new'[t])) /\ 0 <= Total(Debts(new'[t]))
  <2>1. CASE t = s
    BY <1>3, <1>5, <2>1, DebtsEmpty
  <2>2. CASE t # s
    BY <1>3, <1>6, <2>2 DEF FundsOK
  <2>3. QED
    BY <2>1, <2>2
<1>8. ASSUME NEW t \in Sessions, pc'[t] = "allocate"
      PROVE  Head(prog'[t]).amount <= Total(Debts(new'[t]))
  <2>1. t \in Actors /\ t # s
    BY <1>3, <1>8 DEF Actors
  <2>2. QED
    BY <1>3, <1>8, <2>1 DEF FundsOK
<1>9. ASSUME NEW k \in DOMAIN prog'[Job]
      PROVE  Available(prog[Job][k].lot)' <= prog'[Job][k].remainder
  <2>1. Job \in Actors /\ Job # s
    BY <1>3, <1>4, <1>9 DEF Actors
  <2>2. prog'[Job] = prog[Job] /\ k \in DOMAIN prog[Job]
    BY <1>3, <1>9, <2>1
  <2> DEFINE i == prog[Job][k].lot
             r == prog[Job][k].remainder
             u == Takes(s)[i]
             e == rows[i]
  <2>3. i \in 1..Len(rows) /\ Available(i) <= r
    BY <1>4, <2>2 DEF LotsOK, SelectionOK, EarnRow, FundsOK
  <2>4. rows'[i].amount = e.amount /\ rows'[i].spent = e.spent + u
    BY <2>3, CommitRow
  <2>5. Takes(s)[i] >= 0 /\ e \in Row /\ u \in Int
    <3>1. /\ Takes(s) \in Seq(Int) /\ Len(Takes(s)) = Len(rows)
          /\ \A j \in 1..Len(rows) : Takes(s)[j] >= 0 /\ rows[j] \in Row
      BY TakesType
    <3>2. QED
      BY <2>3, <3>1, ElementOfSeq
  <2>6. prog[Job] \in Seq(Selected)
    BY DEF Typed, ProgramOK, JobOK
  <2>7. r \in Nat
    <3>1. k \in 1..Len(prog[Job])
      BY <2>2, <2>6, LenProperties
    <3>2. prog[Job][k] \in Selected
      BY <2>6, <3>1, ElementOfSeq
    <3>3. QED
      BY <3>2 DEF Selected
  <2>8. e.amount - e.spent <= r /\ e.amount \in Int /\ e.spent \in Nat
    BY <2>3, <2>5 DEF Available, Row
  <2>9. Available(prog[Job][k].lot)' = e.amount - (e.spent + u)
    BY <2>2, <2>4 DEF Available
  <2> HIDE DEF i, r, u, e
  <2>10. e.amount - (e.spent + u) <= r
    <3>1. u >= 0
      BY <2>5 DEF u
    <3>2. QED
      BY <2>5, <2>7, <2>8, <3>1
  <2>11. QED
    BY <2>2, <2>9, <2>10 DEF r
<1>10. BalanceIsBacked'
  BY FundsCommitBacked
<1>11. QED
  BY <1>7, <1>8, <1>9, <1>10 DEF FundsOK

\* The balance stays backed in every step.
LEMMA FundsStep ==
  ASSUME MoneyInv, FundsOK, [Next]_vars
  PROVE  FundsOK'
<1>1. Typed /\ LotsOK /\ MoneyOK /\ Typed' /\ LotsOK'
  BY TypedStep, LotsStep DEF MoneyInv, LotsInv
<1>2. ASSUME NEW s \in Sessions, NEW p \in Sales,
             \/ \E plan \in Plans[p] : BeginSale(s, p, plan)
             \/ \E order \in Orders(Len(ledger[p])) : BeginRefund(s, p, order)
      PROVE  FundsOK'
  <2>1. /\ pc' = [pc EXCEPT ![s] = "call"] /\ rows' = rows /\ balance' = balance
        /\ new' = new /\ ver' = ver /\ \E q : prog' = [prog EXCEPT ![s] = q]
    BY <1>2 DEF BeginSale, BeginRefund, Goto, private
  <2>2. "call" # "allocate"
    OBVIOUS
  <2>3. QED
    BY <1>1, <2>1, <2>2, FundsQuiet
<1>3. ASSUME NEW s \in Sessions,
             GetOrCreate(s) \/ MakeWallet(s) \/ BumpBalance(s) \/ Charge(s)
      PROVE  FundsOK'
  <2>1. PICK l \in {"call", "make", "insert", "lock"} : pc' = [pc EXCEPT ![s] = l]
    BY <1>3 DEF GetOrCreate, MakeWallet, BumpBalance, Charge, Goto, Return
  <2>2. /\ rows' = rows /\ balance' = balance /\ new' = new /\ ver' = ver
        /\ prog' = prog \/ prog' = [prog EXCEPT ![s] = Tail(@)]
    BY <1>3 DEF GetOrCreate, MakeWallet, BumpBalance, Charge, Return, db, private
  <2>3. l # "allocate"
    OBVIOUS
  <2>4. prog' = prog \/ \E q : prog' = [prog EXCEPT ![s] = q]
    BY <2>2
  <2>5. QED
    BY <1>1, <2>1, <2>2, <2>3, <2>4, FundsQuiet
<1>4. CASE Tick \/ UNCHANGED vars
  <2>1. /\ rows' = rows /\ balance' = balance /\ new' = new /\ ver' = ver /\ pc' = pc
        /\ prog' = prog
    BY <1>4 DEF Tick, vars, db, private
  <2>2. BalanceIsBacked' /\ \A t \in Actors : Takes(t)' = Takes(t)
    BY <2>1 DEF FundsOK, BalanceIsBacked, Takes
  <2>3. \A x : Available(x)' = Available(x)
    BY <2>1 DEF Available
  <2>4. QED
    BY <2>1, <2>2, <2>3 DEF FundsOK
<1>5. CASE RolledBack
  BY <1>1, <1>5, FundsRollBack DEF RolledBack
<1>6. QED
  BY <1>1, <1>2, <1>3, <1>4, <1>5, StepCases, FundsInsertCredit, FundsLockForDebit,
     FundsAllocate, FundsClawBack, FundsMarkSpent, FundsJob, FundsCommit

-----------------------------------------------------------------------------
(* Locks *)

\* What a step leaves to everybody but s.
OnlyMoves(s) ==
  \A t \in Actors \ {s} :
    /\ pc'[t] = pc[t] /\ prog'[t] = prog[t] /\ new'[t] = new[t] /\ ver'[t] = ver[t]
    /\ creates'[t] = creates[t] /\ (holder' = t <=> holder = t)

LEMMA LocksInit ==
  ASSUME Init
  PROVE  LocksOK
BY JobIsNoSession DEF Init, LocksOK, HoldsOK

LEMMA LocksKept ==
  ASSUME LocksOK, NEW s \in Actors, made => made', rows' = rows \/ made', OnlyMoves(s),
         HoldsOK(s)'
  PROVE  LocksOK'
<1>1. ASSUME NEW t \in Actors, t # s
      PROVE  HoldsOK(t)'
  <2>1. HoldsOK(t)
    BY DEF LocksOK
  <2>2. /\ pc'[t] = pc[t] /\ prog'[t] = prog[t] /\ new'[t] = new[t] /\ ver'[t] = ver[t]
        /\ creates'[t] = creates[t] /\ (holder' = t <=> holder = t)
    BY <1>1 DEF OnlyMoves
  <2>3. QED
    BY <2>1, <2>2 DEF HoldsOK
<1>2. rows' # <<>> => made'
  BY DEF LocksOK
<1>3. QED
  BY <1>1, <1>2 DEF LocksOK

\* A statement of s touches what is private to s, and takes the row lock at most.
LEMMA StatementMoves ==
  ASSUME Typed, NEW s \in Actors, NEW l, pc' = [pc EXCEPT ![s] = l],
         prog' = prog \/ \E q : prog' = [prog EXCEPT ![s] = q],
         new' = new \/ \E n : new' = [new EXCEPT ![s] = n],
         ver' = ver \/ \E v : ver' = [ver EXCEPT ![s] = v],
         creates' = creates \/ \E c : creates' = [creates EXCEPT ![s] = c],
         \/ holder' = holder \/ (WalletFree(s) /\ holder' = s)
         \/ holder' = IF holder = s THEN NoOne ELSE holder
  PROVE  OnlyMoves(s) /\ pc'[s] = l
<1>1. /\ \A t \in Actors \ {s} : pc'[t] = pc[t] /\ prog'[t] = prog[t] /\ new'[t] = new[t]
      /\ pc'[s] = l
  BY DEF Typed, TypeOK
<1>2. \A t \in Actors \ {s} : ver'[t] = ver[t] /\ creates'[t] = creates[t]
  BY DEF Typed, TypeOK
<1>3. \A t \in Actors \ {s} : holder' = t <=> holder = t
  BY JobIsNoSession DEF WalletFree
<1>4. QED
  BY <1>1, <1>2, <1>3 DEF OnlyMoves

\* What is left of a purchase or a refund after one call has no debit.
LEMMA NoDebitLater ==
  ASSUME Typed, NEW s \in Sessions, HoldsOK(s), prog[s] # <<>>
  PROVE  /\ \A k \in DOMAIN Tail(prog[s]) : Tail(prog[s])[k].op # "debit"
         /\ Tail(prog[s]) # <<>> => Head(Tail(prog[s])).op # "debit"
<1>1. prog[s] \in Seq(Call) /\ s # Job
  BY JobIsNoSession DEF Typed, ProgramOK, SessionOK
<1> DEFINE q == Tail(prog[s])
<1>2. /\ q \in Seq(Call) /\ Len(q) \in Nat /\ Len(prog[s]) \in Nat
      /\ Len(q) = Len(prog[s]) - 1
      /\ \A k \in 1..Len(q) : q[k] = prog[s][k + 1]
      /\ DOMAIN q = 1..Len(q) /\ DOMAIN prog[s] = 1..Len(prog[s])
  BY <1>1, HeadTailProperties, LenProperties
<1>3. ASSUME NEW k \in 1..Len(q)
      PROVE  q[k].op # "debit"
  <2>1. k + 1 \in DOMAIN prog[s] /\ k + 1 # 1 /\ q[k] = prog[s][k + 1]
    BY <1>2
  <2>2. QED
    BY <1>1, <2>1 DEF HoldsOK
<1>4. q # <<>> => Head(q) = q[1] /\ 1 \in 1..Len(q)
  BY <1>2
<1>5. QED
  BY <1>2, <1>3, <1>4

\* What s held before a statement of its own.
LEMMA Held ==
  ASSUME Typed, LocksOK, NEW s \in Sessions
  PROVE  s \in Actors /\ s # Job /\ HoldsOK(s)
BY JobIsNoSession DEF LocksOK, Actors

\* A purchase asks for its debit first, and a refund for none.
LEMMA DebitComesFirst ==
  ASSUME NEW p \in Sales, NEW plan \in Plans[p]
  PROVE  \A k \in DOMAIN SaleCalls(p, plan) : SaleCalls(p, plan)[k].op = "debit" => k = 1
<1> DEFINE spends == IF plan.spend > 0 THEN <<Debit(plan.spend, <<"spend", p>>)>> ELSE <<>>
           earns == [i \in DOMAIN plan.earn |->
                       Credit("earn", plan.earn[i].amount, <<"earn", p>>, plan.earn[i].life)]
           S == {Debit(plan.spend, <<"spend", p>>)}
                \cup {earns[i] : i \in DOMAIN plan.earn}
<1>1. plan.earn \in Seq(Earnings)
  BY PlansAssumption
<1>2. DOMAIN plan.earn = 1..Len(plan.earn) /\ Len(plan.earn) \in Nat
  BY <1>1, LenProperties
<1>3. earns \in Seq(S) /\ Len(earns) = Len(plan.earn)
  BY <1>2
<1>4. \A i \in 1..Len(earns) : earns[i].op # "debit"
  BY <1>2, <1>3 DEF Credit
<1>5. spends \in Seq(S) /\ Len(spends) \in {0, 1}
  <2>1. CASE plan.spend > 0
    <3>1. \A T : \A d \in T : <<d>> \in Seq(T) /\ Len(<<d>>) = 1
      OBVIOUS
    <3>2. spends = <<Debit(plan.spend, <<"spend", p>>)>> /\ Debit(plan.spend, <<"spend", p>>) \in S
      BY <2>1
    <3> HIDE DEF S, spends
    <3>3. QED
      BY <3>1, <3>2
  <2>2. CASE ~(plan.spend > 0)
    BY <2>2
  <2>3. QED
    BY <2>1, <2>2
<1>6. SaleCalls(p, plan) = spends \o earns
  BY DEF SaleCalls
<1> HIDE DEF spends, earns, S
<1>7. /\ DOMAIN (spends \o earns) = 1..(Len(spends) + Len(earns))
      /\ \A k \in 1..(Len(spends) + Len(earns)) :
           k > Len(spends) => (spends \o earns)[k] = earns[k - Len(spends)]
      /\ Len(earns) \in Nat
  <2>1. Len(spends) \in Nat /\ Len(earns) \in Nat
    BY <1>3, <1>5, LenProperties
  <2>2. spends \o earns \in Seq(S) /\ Len(spends \o earns) = Len(spends) + Len(earns)
    BY <1>3, <1>5, ConcatProperties
  <2>3. DOMAIN (spends \o earns) = 1..(Len(spends) + Len(earns))
    BY <2>2, LenProperties
  <2>4. ASSUME NEW k \in 1..(Len(spends) + Len(earns)), k > Len(spends)
        PROVE  (spends \o earns)[k] = earns[k - Len(spends)]
    BY <1>3, <1>5, <2>1, <2>4, ConcatProperties
  <2>5. QED
    BY <2>1, <2>3, <2>4
<1>8. ASSUME NEW k \in DOMAIN (spends \o earns), k # 1
      PROVE  (spends \o earns)[k].op # "debit"
  <2>1. k \in 1..(Len(spends) + Len(earns)) /\ k > Len(spends)
    BY <1>5, <1>7, <1>8
  <2>2. k - Len(spends) \in 1..Len(earns) /\ (spends \o earns)[k] = earns[k - Len(spends)]
    BY <1>5, <1>7, <2>1
  <2>3. QED
    BY <1>4, <2>2
<1>9. QED
  BY <1>6, <1>8

LEMMA LocksBegin ==
  ASSUME Typed, WorkOK, LocksOK, NEW s \in Sessions, NEW q, pc[s] = "idle",
         pc' = [pc EXCEPT ![s] = "call"], prog' = [prog EXCEPT ![s] = q],
         UNCHANGED private, rows' = rows, made' = made, holder' = holder,
         \A k \in DOMAIN q : q[k].op = "debit" => k = 1
  PROVE  LocksOK'
<1>1. s \in Actors /\ s # Job /\ HoldsOK(s)
  BY Held
<1>2. OnlyMoves(s) /\ pc'[s] = "call"
  BY <1>1, StatementMoves DEF private
<1>3. prog'[s] = q /\ new'[s] = new[s] /\ ver'[s] = ver[s] /\ creates'[s] = creates[s]
  BY <1>1 DEF Typed, TypeOK, private
<1>4. HoldsOK(s)'
  BY <1>1, <1>2, <1>3 DEF HoldsOK
<1>5. QED
  BY <1>1, <1>2, <1>4, LocksKept

LEMMA LocksGetOrCreate ==
  ASSUME Typed, LocksOK, NEW s \in Sessions, GetOrCreate(s)
  PROVE  LocksOK'
<1>1. s \in Actors /\ s # Job /\ HoldsOK(s)
  BY Held
<1>2. PICK l \in {"make", "insert", "lock"} :
        /\ pc' = [pc EXCEPT ![s] = l]
        /\ l = "make" <=> ~(made \/ creates[s])
  BY DEF GetOrCreate, Goto
<1>3. /\ pc[s] = "call" /\ prog' = prog /\ new' = new /\ ver' = ver /\ creates' = creates
      /\ holder' = holder /\ made' = made /\ rows' = rows
  BY DEF GetOrCreate, Calling, private, db
<1>4. OnlyMoves(s) /\ pc'[s] = l
  BY <1>1, <1>2, <1>3, StatementMoves
<1>5. HoldsOK(s)'
  BY <1>1, <1>2, <1>3, <1>4 DEF HoldsOK
<1>6. QED
  BY <1>1, <1>3, <1>4, <1>5, LocksKept

LEMMA LocksMakeWallet ==
  ASSUME Typed, LocksOK, NEW s \in Sessions, MakeWallet(s)
  PROVE  LocksOK'
<1>1. s \in Actors /\ s # Job /\ HoldsOK(s)
  BY Held
<1>2. PICK l \in {"insert", "lock"} : pc' = [pc EXCEPT ![s] = l]
  BY DEF MakeWallet, Goto
<1>3. /\ pc[s] = "make" /\ prog' = prog /\ new' = new /\ ver' = ver
      /\ creates' = [creates EXCEPT ![s] = TRUE]
      /\ holder' = holder /\ made' = made /\ rows' = rows
  BY DEF MakeWallet, db
<1>4. OnlyMoves(s) /\ pc'[s] = l
  BY <1>1, <1>2, <1>3, StatementMoves
<1>5. creates'[s]
  BY <1>1, <1>3 DEF Typed, TypeOK
<1>6. HoldsOK(s)'
  BY <1>1, <1>2, <1>3, <1>4, <1>5 DEF HoldsOK
<1>7. QED
  BY <1>1, <1>3, <1>4, <1>6, LocksKept

\* A call that returns leaves no debit behind it.
LEMMA LocksReturn ==
  ASSUME Typed, LocksOK, NEW s \in Sessions, pc[s] # "idle", prog[s] # <<>>, Return(s),
         new' = new \/ \E n : new' = [new EXCEPT ![s] = n],
         ver' = ver, creates' = creates, made' = made, rows' = rows,
         \/ holder' = holder /\ new' = new /\ pc[s] \notin {"bump", "burn"}
         \/ WalletFree(s) /\ holder' = s /\ (made \/ creates[s])
  PROVE  LocksOK'
<1>1. s \in Actors /\ s # Job /\ HoldsOK(s)
  BY Held
<1>2. pc' = [pc EXCEPT ![s] = "call"] /\ prog' = [prog EXCEPT ![s] = Tail(prog[s])]
  BY DEF Return, Goto
<1>3. OnlyMoves(s) /\ pc'[s] = "call"
  BY <1>1, <1>2, StatementMoves
<1>4. prog'[s] = Tail(prog[s])
  BY <1>1, <1>2 DEF Typed, TypeOK
<1>5. /\ \A k \in DOMAIN Tail(prog[s]) : Tail(prog[s])[k].op # "debit"
      /\ Tail(prog[s]) # <<>> => Head(Tail(prog[s])).op # "debit"
  BY <1>1, NoDebitLater
<1>6. /\ pc'[s] = "idle" => holder' # s
      /\ holder' = s \/ new'[s] # <<>> => made' \/ creates'[s]
      /\ new'[s] # <<>> => holder' = s
      /\ ver'[s] # NoLot => holder' = s
  BY <1>1, <1>3 DEF HoldsOK
<1>7. /\ \A k \in DOMAIN prog'[s] : prog'[s][k].op # "debit"
      /\ prog'[s] # <<>> => Head(prog'[s]).op # "debit"
  BY <1>4, <1>5
<1>8. HoldsOK(s)'
  BY <1>3, <1>6, <1>7 DEF HoldsOK
<1>9. QED
  BY <1>1, <1>3, <1>8, LocksKept

LEMMA LocksInsertCredit ==
  ASSUME Typed, LocksOK, NEW s \in Sessions, InsertCredit(s)
  PROVE  LocksOK'
<1>1. s \in Actors /\ s # Job /\ HoldsOK(s)
  BY Held
<1>2. /\ pc[s] = "insert" /\ ver' = ver /\ creates' = creates /\ holder' = holder
      /\ made' = made /\ rows' = rows
  BY DEF InsertCredit, db
<1>3. prog[s] # <<>>
  BY <1>2 DEF Typed, ProgramOK, SessionOK
<1>4. CASE Return(s) /\ new' = new
  BY <1>2, <1>3, <1>4, LocksReturn
<1>5. CASE ~(Return(s) /\ new' = new)
  <2>1. /\ \E n : new' = [new EXCEPT ![s] = n]
        /\ pc' = [pc EXCEPT ![s] = "bump"] /\ prog' = prog
    BY <1>5 DEF InsertCredit, Goto
  <2>2. OnlyMoves(s) /\ pc'[s] = "bump"
    BY <1>1, <1>2, <2>1, StatementMoves
  <2>3. HoldsOK(s)'
    BY <1>1, <1>2, <2>1, <2>2 DEF HoldsOK
  <2>4. QED
    BY <1>1, <1>2, <2>2, <2>3, LocksKept
<1>6. QED
  BY <1>4, <1>5

LEMMA LocksUpdate ==
  ASSUME Typed, DebitsOK, LocksOK, NEW s \in Sessions, BumpBalance(s) \/ Charge(s)
  PROVE  LocksOK'
<1>1. s \in Actors /\ s # Job /\ HoldsOK(s)
  BY Held
<1>2. /\ pc[s] \in {"bump", "charge"} /\ Return(s) /\ new' = new /\ ver' = ver
      /\ creates' = creates /\ made' = made /\ rows' = rows
      /\ WalletFree(s) /\ holder' = s
  BY DEF BumpBalance, Charge, UpdateBalance, Acquire, db
<1>3. prog[s] # <<>>
  BY <1>2 DEF Typed, ProgramOK, SessionOK
<1>4. made \/ creates[s]
  <2>1. pc[s] = "charge" => holder = s
    BY DEF DebitsOK, Alone
  <2>2. QED
    BY <1>1, <1>2, <2>1 DEF HoldsOK
<1>5. QED
  BY <1>2, <1>3, <1>4, LocksReturn

LEMMA LocksLockForDebit ==
  ASSUME Typed, LocksOK, NEW s \in Sessions, LockForDebit(s)
  PROVE  LocksOK'
<1>1. s \in Actors /\ s # Job /\ HoldsOK(s)
  BY Held
<1>2. /\ pc[s] = "lock" /\ ver' = ver /\ creates' = creates /\ made' = made /\ rows' = rows
      /\ WalletFree(s) /\ holder' = s
  BY DEF LockForDebit, Acquire, db
<1>3. prog[s] # <<>> /\ (made \/ creates[s])
  BY <1>1, <1>2 DEF Typed, ProgramOK, SessionOK, HoldsOK
<1>4. CASE Return(s) /\ new' = new
  BY <1>2, <1>3, <1>4, LocksReturn
<1>5. CASE ~(Return(s) /\ new' = new)
  <2>1. /\ \E n : new' = [new EXCEPT ![s] = n]
        /\ pc' = [pc EXCEPT ![s] = "allocate"] /\ prog' = prog
    BY <1>5 DEF LockForDebit, Goto
  <2>2. OnlyMoves(s) /\ pc'[s] = "allocate"
    BY <1>1, <1>2, <2>1, StatementMoves
  <2>3. HoldsOK(s)'
    BY <1>1, <1>2, <1>3, <2>1, <2>2 DEF HoldsOK
  <2>4. QED
    BY <1>1, <1>2, <2>2, <2>3, LocksKept
<1>6. QED
  BY <1>4, <1>5

LEMMA LocksAllocate ==
  ASSUME Typed, DebitsOK, LocksOK, NEW s \in Sessions, Allocate(s)
  PROVE  LocksOK'
<1>1. s \in Actors /\ s # Job /\ HoldsOK(s)
  BY Held
<1>2. /\ pc[s] = "allocate" /\ pc' = [pc EXCEPT ![s] = "charge"] /\ prog' = prog
      /\ new' = new /\ creates' = creates /\ made' = made /\ rows' = rows /\ holder' = holder
      /\ \E v : ver' = [ver EXCEPT ![s] = v]
  BY DEF Allocate, Goto, db
<1>3. holder = s
  BY <1>2 DEF DebitsOK, Alone
<1>4. OnlyMoves(s) /\ pc'[s] = "charge"
  BY <1>1, <1>2, StatementMoves
<1>5. HoldsOK(s)'
  BY <1>1, <1>2, <1>3, <1>4 DEF HoldsOK
<1>6. QED
  BY <1>1, <1>2, <1>4, <1>5, LocksKept

LEMMA LocksClawBack ==
  ASSUME Typed, LocksOK, NEW s \in Sessions, ClawBack(s)
  PROVE  LocksOK'
<1>1. /\ pc[s] = "call" /\ prog[s] # <<>> /\ Return(s) /\ ver' = ver /\ creates' = creates
      /\ made' = made /\ rows' = rows
  BY DEF ClawBack, Calling, db
<1>2. \/ holder' = holder /\ new' = new
      \/ WalletFree(s) /\ holder' = s /\ (made \/ creates[s])
  BY DEF ClawBack, UpdateBalance, Acquire
<1>3. new' = new \/ \E n : new' = [new EXCEPT ![s] = n]
  BY DEF ClawBack
<1>4. QED
  BY <1>1, <1>2, <1>3, LocksReturn

LEMMA LocksJob ==
  ASSUME Typed, LocksOK, SelectLapsed \/ MarkSpent \/ BurnBalance
  PROVE  LocksOK'
<1>1. Job \in Actors /\ HoldsOK(Job)
  BY DEF LocksOK, Actors
<1>2. made' = made /\ rows' = rows /\ creates' = creates
  BY DEF SelectLapsed, MarkSpent, BurnBalance, db, private
<1>3. CASE SelectLapsed
  <2>1. /\ pc' = [pc EXCEPT ![Job] = "mark"] /\ pc[Job] = "idle" /\ holder' = holder
        /\ new' = new /\ ver' = ver /\ \E q : prog' = [prog EXCEPT ![Job] = q]
    BY <1>3 DEF SelectLapsed, Goto, private
  <2>2. made
    <3>1. PICK i \in Burnable : TRUE
      BY <1>3 DEF SelectLapsed
    <3>2. i \in DOMAIN rows
      BY DEF Burnable
    <3>3. rows # <<>>
      BY <3>2
    <3>4. QED
      BY <3>3 DEF LocksOK
  <2>3. OnlyMoves(Job) /\ pc'[Job] = "mark"
    BY <1>1, <1>2, <2>1, StatementMoves
  <2>4. HoldsOK(Job)'
    BY <1>1, <1>2, <2>1, <2>2, <2>3 DEF HoldsOK
  <2>5. QED
    BY <1>1, <1>2, <2>3, <2>4, LocksKept
<1>4. CASE MarkSpent
  <2>1. /\ pc' = [pc EXCEPT ![Job] = "burn"] /\ pc[Job] = "mark" /\ holder' = holder
        /\ prog' = prog /\ \E n : new' = [new EXCEPT ![Job] = n]
        /\ \E v : ver' = [ver EXCEPT ![Job] = v]
    BY <1>4 DEF MarkSpent, Goto
  <2>2. OnlyMoves(Job) /\ pc'[Job] = "burn"
    BY <1>1, <1>2, <2>1, StatementMoves
  <2>3. HoldsOK(Job)'
    BY <1>1, <1>2, <2>1, <2>2 DEF HoldsOK
  <2>4. QED
    BY <1>1, <1>2, <2>2, <2>3, LocksKept
<1>5. CASE BurnBalance
  <2>1. PICK l \in {"call", "mark"} : pc' = [pc EXCEPT ![Job] = l]
    BY <1>5 DEF BurnBalance, Goto
  <2>2. /\ pc[Job] = "burn" /\ WalletFree(Job) /\ holder' = Job
        /\ new' = new /\ ver' = ver /\ \E q : prog' = [prog EXCEPT ![Job] = q]
    BY <1>5 DEF BurnBalance, UpdateBalance, Acquire
  <2>3. OnlyMoves(Job) /\ pc'[Job] = l
    BY <1>1, <1>2, <2>1, <2>2, StatementMoves
  <2>4. HoldsOK(Job)'
    BY <1>1, <1>2, <2>1, <2>2, <2>3 DEF HoldsOK
  <2>5. QED
    BY <1>1, <1>2, <2>3, <2>4, LocksKept
<1>6. QED
  BY <1>3, <1>4, <1>5

\* Who ends lets everything go.
LEMMA LocksEnd ==
  ASSUME Typed, LocksOK, NEW s \in Actors, Commit(s) \/ RollBack(s)
  PROVE  LocksOK'
<1>1. HoldsOK(s) /\ s # NoOne
  BY JobIsNoSession DEF LocksOK
<1>2. /\ pc' = [pc EXCEPT ![s] = "idle"] /\ prog' = [prog EXCEPT ![s] = <<>>]
      /\ new' = [new EXCEPT ![s] = <<>>] /\ ver' = [ver EXCEPT ![s] = NoLot]
      /\ creates' = [creates EXCEPT ![s] = FALSE]
      /\ holder' = IF holder = s THEN NoOne ELSE holder
  BY DEF Commit, RollBack, Goto
<1>3. OnlyMoves(s) /\ pc'[s] = "idle"
  BY <1>2, StatementMoves
<1>4. /\ prog'[s] = <<>> /\ new'[s] = <<>> /\ ver'[s] = NoLot /\ ~creates'[s]
      /\ holder' # s
  BY <1>1, <1>2 DEF Typed, TypeOK
<1>5. HoldsOK(s)'
  BY <1>3, <1>4 DEF HoldsOK
<1>6. made => made'
  BY DEF Commit, RollBack
<1>7. rows' = rows \/ made'
  <2>1. CASE RollBack(s)
    BY <2>1 DEF RollBack
  <2>2. CASE Commit(s)
    <3>1. CASE new[s] # <<>>
      BY <1>1, <2>2, <3>1 DEF HoldsOK, Commit
    <3>2. CASE new[s] = <<>> /\ rows # <<>>
      BY <2>2, <3>2 DEF LocksOK, Commit
    <3>3. CASE new[s] = <<>> /\ rows = <<>>
      <4>1. DOMAIN rows = {}
        BY <3>3
      <4>2. [i \in DOMAIN rows |->
               IF i \in DOMAIN ver[s] THEN [rows[i] EXCEPT !.spent = ver[s][i]]
                                      ELSE rows[i]] = <<>>
        BY <4>1
      <4>3. rows' = <<>> \o <<>>
        BY <2>2, <3>3, <4>2 DEF Commit
      <4>4. QED
        BY <3>3, <4>3
    <3>4. QED
      BY <3>1, <3>2, <3>3
  <2>3. QED
    BY <2>1, <2>2
<1>8. QED
  BY <1>3, <1>5, <1>6, <1>7, LocksKept

LEMMA LocksStep ==
  ASSUME Typed, WorkOK, DebitsOK, LocksOK, [Next]_vars
  PROVE  LocksOK'
<1>1. ASSUME NEW s \in Sessions, NEW p \in Sales, NEW plan \in Plans[p],
             BeginSale(s, p, plan)
      PROVE  LocksOK'
  <2>1. /\ pc[s] = "idle" /\ pc' = [pc EXCEPT ![s] = "call"]
        /\ prog' = [prog EXCEPT ![s] = SaleCalls(p, plan)]
        /\ UNCHANGED private /\ rows' = rows /\ made' = made /\ holder' = holder
    BY <1>1 DEF BeginSale, Goto
  <2>2. QED
    BY <2>1, DebitComesFirst, LocksBegin
<1>2. ASSUME NEW s \in Sessions, NEW p \in Sales,
             NEW order \in Orders(Len(ledger[p])), BeginRefund(s, p, order)
      PROVE  LocksOK'
  <2> DEFINE q == [i \in DOMAIN order |-> Compensation(p, ledger[p][order[i]])]
  <2>1. /\ pc[s] = "idle" /\ pc' = [pc EXCEPT ![s] = "call"]
        /\ prog' = [prog EXCEPT ![s] = q]
        /\ UNCHANGED private /\ rows' = rows /\ made' = made /\ holder' = holder
    BY <1>2 DEF BeginRefund, Goto
  <2>2. \A k \in DOMAIN q : q[k].op # "debit"
    BY DEF Compensation, Clawback, Credit
  <2> HIDE DEF q
  <2>3. QED
    BY <2>1, <2>2, LocksBegin
<1>3. CASE Tick \/ UNCHANGED vars
  <2>1. /\ rows' = rows /\ made' = made /\ holder' = holder /\ pc' = pc /\ prog' = prog
        /\ new' = new /\ ver' = ver /\ creates' = creates
    BY <1>3 DEF Tick, vars, db, private
  <2>2. ASSUME NEW s \in Actors
        PROVE  HoldsOK(s)'
    <3>1. HoldsOK(s)
      BY DEF LocksOK
    <3>2. QED
      BY <2>1, <3>1 DEF HoldsOK
  <2>3. QED
    BY <2>1, <2>2 DEF LocksOK
<1>4. CASE RolledBack
  BY <1>4, LocksEnd DEF RolledBack
<1>5. QED
  BY <1>1, <1>2, <1>3, <1>4, StepCases, LocksGetOrCreate, LocksMakeWallet,
     LocksInsertCredit, LocksUpdate, LocksLockForDebit, LocksAllocate, LocksClawBack,
     LocksJob, LocksEnd

-----------------------------------------------------------------------------
(* Theorems *)

\* The first half of the invariant, on which the rest leans: types, calls, money
\* and lots. Every statement of every transaction keeps it.
THEOREM CoreInvariant == Spec => []CoreInv
<1>1. Init => CoreInv
  BY TypedInit, LotsInit, MoneyInit DEF Typed, CoreInv
<1>2. CoreInv /\ [Next]_vars => CoreInv'
  <2>1. ASSUME CoreInv, [Next]_vars
        PROVE  CoreInv'
    <3>1. Typed /\ LotsOK /\ MoneyOK
      BY <2>1 DEF CoreInv, Typed
    <3>2. Typed'
      BY <2>1, <3>1, TypedStep
    <3>3. LotsOK'
      BY <2>1, <3>1, LotsStep DEF LotsInv
    <3>4. MoneyOK'
      BY <2>1, <3>1, MoneyStep DEF MoneyInv
    <3>5. QED
      BY <3>2, <3>3, <3>4 DEF CoreInv, Typed
  <2>2. QED
    BY <2>1
<1>3. QED
  BY <1>1, <1>2, PTL DEF Spec

\* The whole invariant is inductive: what keys are taken, what a debit in progress
\* may rely on, what stands behind the balance and who holds the wallet row survive
\* every statement too.
THEOREM WalletInvariant == Spec => []WalletInv
<1>1. Init => WalletInv
  BY TypedInit, LotsInit, MoneyInit, KeysInit, DebitsInit, FundsInit, LocksInit
     DEF Typed, CoreInv, WalletInv
<1>2. WalletInv /\ [Next]_vars => WalletInv'
  <2>1. ASSUME WalletInv, [Next]_vars
        PROVE  WalletInv'
    <3>1. Typed /\ LotsOK /\ MoneyOK /\ KeysOK /\ DebitsOK /\ FundsOK /\ LocksOK
      BY <2>1 DEF WalletInv, CoreInv, Typed
    <3>2. LotsInv /\ MoneyInv
      BY <3>1 DEF LotsInv, MoneyInv
    <3>3. Typed' /\ LotsOK' /\ MoneyOK'
      BY <2>1, <3>1, <3>2, TypedStep, LotsStep, MoneyStep
    <3>4. KeysOK'
      BY <2>1, <3>1, KeysStep
    <3>5. DebitsOK'
      BY <2>1, <3>1, <3>2, DebitsStep
    <3>6. FundsOK'
      BY <2>1, <3>1, <3>2, FundsStep
    <3>7. LocksOK'
      BY <2>1, <3>1, LocksStep DEF KeysOK
    <3>8. QED
      BY <3>3, <3>4, <3>5, <3>6, <3>7 DEF WalletInv, CoreInv, Typed
  <2>2. QED
    BY <2>1
<1>3. QED
  BY <1>1, <1>2, PTL DEF Spec

\* Whatever calls are repeated, refunds retried or expirations run again, the
\* ledger holds at most one row for each key of an operation.
THEOREM OneKeyOneRow == Spec => []OneRowPerKey
<1>1. WalletInv => OneRowPerKey
  BY DEF WalletInv, KeysOK
<1>2. QED
  BY <1>1, WalletInvariant, PTL

\* A debit empties the lots that expire first before it touches a later one,
\* also when other transactions commit between its reads and its writes.
THEOREM OldestSpentFirst == Spec => []SpendsOldestFirst
<1>1. WalletInv => SpendsOldestFirst
  BY DEF WalletInv, DebitsOK
<1>2. QED
  BY <1>1, WalletInvariant, PTL

\* What is unspent of earn rows, with the payments that refunds have restored,
\* covers the balance: no order of spends, refunds and burns makes money.
THEOREM BalanceBacked == Spec => []BalanceIsBacked
<1>1. WalletInv => BalanceIsBacked
  BY DEF WalletInv, FundsOK
<1>2. QED
  BY <1>1, WalletInvariant, PTL

\* Who holds the wallet row waits for nobody, or is in the circle of a clawback.
LEMMA HolderWaits ==
  ASSUME WalletInv, NEW s \in Actors, holder = s, NEW t \in Actors, WaitsFor(s, t)
  PROVE  Circle(s, t)
<1>1. /\ HoldsOK(s) /\ HoldsOK(t) /\ t # s /\ holder # t /\ DebitsOK /\ ProgramOK
      /\ (s = Job \/ s \in Sessions) /\ (t = Job \/ t \in Sessions)
      /\ Job \notin Sessions
  BY JobIsNoSession DEF WalletInv, CoreInv, LocksOK, WaitsFor, Actors
<1>2. ~(pc[s] = "make" /\ ~made /\ creates[t])
  BY <1>1 DEF HoldsOK
<1>3. ~ForUpdate(t) /\ ~(holder = t)
  BY <1>1 DEF ForUpdate
<1>4. ~(pc[s] = "mark" /\ Head(prog[s]).lot \in DOMAIN ver[t])
  <2>1. SUFFICES ASSUME pc[s] = "mark", Head(prog[s]).lot \in DOMAIN ver[t]
                 PROVE  FALSE
    OBVIOUS
  <2>2. t # Job
    BY <1>1, <2>1 DEF ProgramOK, SessionOK
  <2>3. ver[t] = NoLot
    BY <1>1, <2>2 DEF HoldsOK
  <2>4. QED
    BY <2>1, <2>3 DEF NoLot
<1>5. ~(pc[s] = "allocate" /\ Lots \cap DOMAIN ver[t] # {})
  <2>1. SUFFICES ASSUME pc[s] = "allocate", Lots \cap DOMAIN ver[t] # {}
                 PROVE  FALSE
    OBVIOUS
  <2>2. s \in Sessions
    BY <1>1, <2>1 DEF ProgramOK, JobOK
  <2>3. new[t] = <<>>
    BY <1>1, <2>1, <2>2 DEF DebitsOK, Alone
  <2>4. ver[t] = NoLot
    BY <2>3 DEF DebitsOK, WalletInv
  <2>5. QED
    BY <2>1, <2>4 DEF NoLot
<1>6. pc[s] # "lock"
  <2>1. SUFFICES ASSUME pc[s] = "lock"
                 PROVE  FALSE
    OBVIOUS
  <2>2. s \in Sessions
    BY <1>1, <2>1 DEF ProgramOK, JobOK
  <2>3. prog[s] # <<>> /\ Head(prog[s]).op = "debit"
    BY <1>1, <2>1, <2>2 DEF ProgramOK, SessionOK
  <2>4. QED
    BY <1>1, <2>1, <2>2, <2>3 DEF HoldsOK
<1>7. Calling(s, "clawback") /\ SharesKey(t)
  BY <1>2, <1>3, <1>4, <1>5, <1>6 DEF WaitsFor
<1>8. QED
  BY <1>1, <1>7 DEF Circle

\* Among transactions that do not hold the wallet row one waits for another only
\* as long as that one has inserted the wallet row or an entry.
LEMMA OthersWait ==
  ASSUME WalletInv, NEW s \in Actors, NEW t \in Actors, holder # s, holder # t,
         WaitsFor(s, t)
  PROVE  (pc[s] = "make" /\ creates[t]) \/ SharesKey(t)
<1>1. /\ HoldsOK(t) /\ t # s /\ DebitsOK /\ ProgramOK
      /\ (s = Job \/ s \in Sessions) /\ (t = Job \/ t \in Sessions)
      /\ Job \notin Sessions
  BY JobIsNoSession DEF WalletInv, CoreInv, LocksOK, WaitsFor, Actors
<1>2. ~ForUpdate(t)
  BY DEF ForUpdate
<1>3. ~(pc[s] = "mark" /\ Head(prog[s]).lot \in DOMAIN ver[t])
  <2>1. SUFFICES ASSUME pc[s] = "mark", Head(prog[s]).lot \in DOMAIN ver[t]
                 PROVE  FALSE
    OBVIOUS
  <2>2. t # Job
    BY <1>1, <2>1 DEF ProgramOK, SessionOK
  <2>3. ver[t] = NoLot
    BY <1>1, <2>2 DEF HoldsOK
  <2>4. QED
    BY <2>1, <2>3 DEF NoLot
<1>4. pc[s] # "allocate"
  <2>1. SUFFICES ASSUME pc[s] = "allocate"
                 PROVE  FALSE
    OBVIOUS
  <2>2. s \in Sessions
    BY <1>1, <2>1 DEF ProgramOK, JobOK
  <2>3. QED
    BY <1>1, <2>1, <2>2 DEF DebitsOK, Alone
<1>5. QED
  BY <1>2, <1>3, <1>4 DEF WaitsFor

\* Who has inserted an entry and does not hold the wallet row is about to take it.
LEMMA AboutToUpdate ==
  ASSUME WalletInv, NEW t \in Actors, SharesKey(t), holder # t
  PROVE  pc[t] \in {"bump", "burn"}
<1>1. HoldsOK(t)
  BY DEF WalletInv, LocksOK
<1>2. QED
  BY <1>1 DEF HoldsOK, SharesKey

LEMMA NoCircleOutside ==
  ASSUME WalletInv, NEW A \in SUBSET Actors, A # {}, holder \notin A
  PROVE  \E s \in A : Unhindered(s, A)
<1>1. \A t \in A : t \in Actors /\ holder # t
  OBVIOUS
<1>2. CASE \E t \in A : SharesKey(t)
  <2>1. PICK t \in A : SharesKey(t)
    BY <1>2
  <2>2. pc[t] \in {"bump", "burn"}
    BY <1>1, <2>1, AboutToUpdate
  <2>3. ASSUME NEW u \in A, WaitsFor(t, u)
        PROVE  FALSE
    BY <1>1, <2>2, <2>3 DEF WaitsFor, Calling
  <2>4. QED
    BY <2>3 DEF Unhindered
<1>3. CASE ~\E t \in A : SharesKey(t)
  <2>1. PICK s \in A : TRUE
    OBVIOUS
  <2>2. CASE Unhindered(s, A)
    BY <2>2
  <2>3. CASE ~Unhindered(s, A)
    <3>1. PICK t \in A : WaitsFor(s, t)
      BY <2>3 DEF Unhindered
    <3>2. creates[t]
      BY <1>1, <1>3, <3>1, OthersWait
    <3>3. pc[t] # "make"
      BY <1>1, <3>2 DEF WalletInv, LocksOK, HoldsOK
    <3>4. ASSUME NEW u \in A, WaitsFor(t, u)
          PROVE  FALSE
      BY <1>1, <1>3, <3>3, <3>4, OthersWait
    <3>5. QED
      BY <3>4 DEF Unhindered
  <2>4. QED
    BY <2>2, <2>3
<1>4. QED
  BY <1>2, <1>3

\* Purchases, refunds and the job, however many run at once, wait for each other
\* in a circle only where a clawback meets an entry inserted after its refund took
\* the wallet row; and there they do.
THEOREM CirclesKnown == Spec => []OnlyKnownCircles
<1>1. ASSUME WalletInv
      PROVE  OnlyKnownCircles
  <2>1. ASSUME NEW A \in (SUBSET {s \in Actors : pc[s] # "idle"}) \ {{}}
        PROVE  \E s \in A : Unhindered(s, A) \/ \E t \in A : Circle(s, t)
    <3>1. A \in SUBSET Actors /\ A # {}
      BY <2>1
    <3>2. CASE holder \in A
      <4>1. \A t \in A : WaitsFor(holder, t) => Circle(holder, t)
        BY <1>1, <3>1, <3>2, HolderWaits
      <4>2. QED
        BY <3>2, <4>1 DEF Unhindered
    <3>3. CASE holder \notin A
      BY <1>1, <3>1, <3>3, NoCircleOutside
    <3>4. QED
      BY <3>2, <3>3
  <2>2. ASSUME NEW s \in Actors, NEW t \in Actors, Circle(s, t)
        PROVE  WaitsFor(s, t) /\ WaitsFor(t, s)
    <3>1. /\ holder = s /\ Calling(s, "clawback") /\ t # s /\ SharesKey(t)
          /\ HoldsOK(s)
      BY <1>1, <2>2 DEF Circle, WalletInv, LocksOK
    <3>2. pc[t] \in {"bump", "burn"}
      BY <1>1, <3>1, AboutToUpdate
    <3>3. made \/ creates[s]
      BY <3>1 DEF HoldsOK
    <3>4. QED
      BY <3>1, <3>2, <3>3 DEF WaitsFor
  <2>3. QED
    BY <2>1, <2>2 DEF OnlyKnownCircles
<1>2. QED
  BY <1>1, WalletInvariant, PTL

\* Every reachable state is well typed.
THEOREM TypesHold == Spec => []TypeOK
<1>1. CoreInv => TypeOK
  BY DEF CoreInv
<1>2. QED
  BY <1>1, CoreInvariant, PTL

\* The cached balance never drifts from the ledger of entries.
THEOREM BalanceFollowsLedger == Spec => []BalanceIsLedgerSum
<1>1. CoreInv => BalanceIsLedgerSum
  BY DEF CoreInv, MoneyOK
<1>2. QED
  BY <1>1, CoreInvariant, PTL

\* No interleaving of debits, refunds and expirations overdraws the wallet.
THEOREM NeverOverdrawn == Spec => []BalanceNonNegative
<1>1. CoreInv => BalanceNonNegative
  BY DEF CoreInv, MoneyOK
<1>2. QED
  BY <1>1, CoreInvariant, PTL

\* No unit of an earn row is allocated twice.
THEOREM NeverAllocatedTwice == Spec => []SpentWithinAmount
<1>1. CoreInv => SpentWithinAmount
  BY DEF CoreInv, LotsOK
<1>2. QED
  BY <1>1, CoreInvariant, PTL

\* Rows change only when a transaction commits.
LEMMA RowsChange ==
  ASSUME CoreInv, [Next]_vars
  PROVE  \/ rows' = rows /\ balance' = balance
         \/ \E s \in Actors : Commit(s)
<1>1. Typed
  BY DEF CoreInv, Typed
<1>2. ASSUME NEW s \in Sessions,
             \/ GetOrCreate(s) \/ MakeWallet(s) \/ InsertCredit(s) \/ BumpBalance(s)
             \/ LockForDebit(s) \/ Allocate(s) \/ Charge(s) \/ ClawBack(s)
      PROVE  rows' = rows /\ balance' = balance
  BY <1>2 DEF GetOrCreate, MakeWallet, InsertCredit, BumpBalance, LockForDebit, Allocate,
              Charge, ClawBack, db
<1>3. ASSUME SelectLapsed \/ MarkSpent \/ BurnBalance \/ Tick \/ UNCHANGED vars
      PROVE  rows' = rows /\ balance' = balance
  BY <1>3 DEF SelectLapsed, MarkSpent, BurnBalance, Tick, vars, db
<1>4. QED
  BY <1>1, <1>2, <1>3, StepCases DEF BeginSale, BeginRefund, RolledBack, RollBack

LEMMA SpentUpdated ==
  ASSUME NEW e \in Row, NEW v
  PROVE  /\ [[e EXCEPT !.spent = v] EXCEPT !.spent = 0] = [e EXCEPT !.spent = 0]
         /\ [e EXCEPT !.spent = v].spent = v
BY DEF Row

\* Committed rows are there for ever: only spent_amount changes, upwards.
THEOREM LedgerAppendOnly == Spec => AppendOnly
<1> DEFINE Grows ==
      /\ Len(rows') >= Len(rows)
      /\ \A i \in DOMAIN rows :
           /\ [rows[i] EXCEPT !.spent = 0] = [rows'[i] EXCEPT !.spent = 0]
           /\ rows'[i].spent >= rows[i].spent
<1>1. ASSUME CoreInv, NEW s \in Actors, Commit(s)
      PROVE  Grows
  <2>1. Typed /\ LotsOK
    BY <1>1 DEF CoreInv, Typed
  <2>2. /\ Len(rows') = Len(rows) + Len(new[s])
        /\ \A i \in 1..Len(rows) :
             rows'[i] = IF i \in DOMAIN ver[s] THEN [rows[i] EXCEPT !.spent = ver[s][i]]
                                              ELSE rows[i]
    BY <1>1, <2>1, CommitRows
  <2>3. /\ DOMAIN rows = 1..Len(rows) /\ Len(rows) \in Nat /\ Len(new[s]) \in Nat
        /\ \A i \in 1..Len(rows) : rows[i] \in Row
    BY <2>1, LenProperties, ElementOfSeq DEF Typed, TypeOK
  <2>4. ASSUME NEW i \in DOMAIN rows
        PROVE  /\ [rows[i] EXCEPT !.spent = 0] = [rows'[i] EXCEPT !.spent = 0]
               /\ rows'[i].spent >= rows[i].spent
    <3>1. i \in 1..Len(rows) /\ rows[i] \in Row /\ rows[i].spent \in Nat
      BY <2>3, <2>4 DEF Row
    <3>2. CASE i \in DOMAIN ver[s]
      <4>1. rows'[i] = [rows[i] EXCEPT !.spent = ver[s][i]]
        BY <2>2, <3>1, <3>2
      <4>2. ver[s][i] \in rows[i].spent..rows[i].amount
        BY <2>1, <3>2 DEF LotsOK, VersionsOK
      <4>3. ver[s][i] >= rows[i].spent
        <5>1. rows[i].amount \in Int
          BY <3>1 DEF Row
        <5>2. QED
          BY <3>1, <4>2, <5>1
      <4>4. /\ [[rows[i] EXCEPT !.spent = ver[s][i]] EXCEPT !.spent = 0]
                 = [rows[i] EXCEPT !.spent = 0]
            /\ [rows[i] EXCEPT !.spent = ver[s][i]].spent = ver[s][i]
        BY <3>1, SpentUpdated
      <4>5. [rows[i] EXCEPT !.spent = 0] = [rows'[i] EXCEPT !.spent = 0]
        BY <4>1, <4>4, Zenon
      <4>6. rows'[i].spent = ver[s][i]
        BY <4>1, <4>4, Zenon
      <4>7. QED
        BY <4>3, <4>5, <4>6
    <3>3. CASE i \notin DOMAIN ver[s]
      <4>1. rows'[i] = rows[i]
        BY <2>2, <3>1, <3>3
      <4>2. QED
        BY <3>1, <4>1
    <3>4. QED
      BY <3>2, <3>3
  <2>5. QED
    BY <2>2, <2>3, <2>4
<1>2. CoreInv /\ [Next]_vars => [Grows]_rows
  BY <1>1, RowsChange
<1>3. QED
  BY <1>2, CoreInvariant, PTL DEF Spec, AppendOnly

\* What a suffix of a concatenation is.
LEMMA Suffix ==
  ASSUME NEW x \in Seq(Int), NEW y \in Seq(Int)
  PROVE  /\ SubSeq(x \o y, 1, Len(x)) = x
         /\ SubSeq(x \o y, Len(x) + 1, Len(x \o y)) = y
<1>1. Len(x) \in Nat /\ Len(y) \in Nat /\ Len(x \o y) = Len(x) + Len(y) /\ x \o y \in Seq(Int)
  BY LenProperties, ConcatInts
<1>2. SubSeq(x \o y, 1, Len(x)) = x
  OBVIOUS
<1>3. SubSeq(x \o y, Len(x) + 1, Len(x \o y)) = y
  OBVIOUS
<1>4. QED
  BY <1>2, <1>3

\* Statement by statement, the code implements an account that takes whole
\* transactions at a time.
THEOREM ImplementsAccount == Spec => AccountSpec
<1>1. Init => Account!Init
  BY AmountsEmpty DEF Init, Account!Init
<1>2. ASSUME CoreInv, NEW s \in Actors, Commit(s)
      PROVE  Account!Post \/ UNCHANGED <<balance, Amounts(rows)>>
  <2> DEFINE a == Amounts(rows)
             b == Amounts(new[s])
             c == Amounts(rows')
  <2>1. MoneyInv /\ Typed /\ LotsOK /\ MoneyOK
    BY <1>2 DEF CoreInv, Typed, MoneyInv
  <2>2. c = a \o b
    BY <1>2, <2>1, CommitAmounts
  <2>3. a \in Seq(Int) /\ b \in Seq(Int)
    BY <2>1, AmountsType DEF Typed, TypeOK
  <2>4. pc[s] = "call" /\ balance' = balance + delta[s] /\ Total(b) = delta[s]
    <3>1. pc[s] = "call" /\ balance' = balance + delta[s]
      BY <1>2 DEF Commit, BalanceFor
    <3>2. Outstanding(s) = 0 /\ delta[s] \in Int
      BY <2>1, <3>1 DEF Outstanding, Typed, TypeOK
    <3>3. Total(b) = delta[s] + Outstanding(s)
      BY <2>1 DEF MoneyOK, PurseOK
    <3> HIDE DEF b
    <3>4. QED
      BY <3>1, <3>2, <3>3
  <2>5. balance' >= 0
    <3>1. MoneyOK'
      BY <1>2, <2>1, MoneyCommit
    <3>2. QED
      BY <3>1 DEF MoneyOK, BalanceNonNegative
  <2>6. /\ SubSeq(a \o b, 1, Len(a)) = a
        /\ SubSeq(a \o b, Len(a) + 1, Len(a \o b)) = b
        /\ Len(a \o b) = Len(a) + Len(b) /\ Len(a) \in Nat /\ Len(b) \in Nat
    <3> HIDE DEF a, b
    <3>1. QED
      BY <2>3, Suffix, ConcatInts, LenProperties
  <2> HIDE DEF a, b, c
  <2>7. CASE Len(b) > 0
    <3>1. Len(c) > Len(a) /\ SubSeq(c, 1, Len(a)) = a
      BY <2>2, <2>6, <2>7
    <3>2. balance' = balance + Total(SubSeq(c, Len(a) + 1, Len(c)))
      BY <2>2, <2>4, <2>6
    <3>3. \A x : Account!Total(x) = Total(x)
      BY DEF Account!Total, Account!RunningTotals, Total, RunningTotals
    <3>4. Account!Post
      BY <2>5, <3>1, <3>2, <3>3 DEF Account!Post, a, c
    <3>5. QED
      BY <3>4
  <2>8. CASE Len(b) = 0
    <3>1. b = <<>>
      BY <2>3, <2>8
    <3>2. a \o b = a
      BY <2>3, <3>1
    <3>3. balance' = balance
      BY <2>1, <2>4, <3>1, TotalEmpty DEF Typed, TypeOK
    <3>4. QED
      BY <2>2, <3>2, <3>3 DEF a, c
  <2>9. QED
    BY <2>6, <2>7, <2>8
<1>3. CoreInv /\ [Next]_vars => [Account!Post]_<<balance, Amounts(rows)>>
  BY <1>2, RowsChange
<1>4. QED
  BY <1>1, <1>3, CoreInvariant, PTL DEF Spec, AccountSpec, Account!Spec
=============================================================================
