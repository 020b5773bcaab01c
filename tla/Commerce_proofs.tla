--------------------------- MODULE Commerce_proofs ---------------------------
(***************************************************************************)
(* Proofs about what commerce.ts keeps, both for every value of the        *)
(* constants: Receivables, for any number of transactions, invoices and    *)
(* numbers and any sums; Quotes, for any number of quotes and of open      *)
(* revisions.                                                              *)
(***************************************************************************)
EXTENDS Receivables, Quotes, TLAPS

(***************************************************************************)
(* Receivables.                                                            *)
(***************************************************************************)

\* What an open transaction has read of its invoice has since only grown.
ReadIsPast(x) ==
    /\ x.pc = "paying" => x.op = "payment"
    /\ x.op = "payment" =>
          x.invoice \in Invoices /\ x.read <= invoices[x.invoice].received
    /\ x.op = "credit" =>
          x.invoice \in Invoices /\ x.read <= invoices[x.invoice].credited

\* The number a transaction has drawn is past every document of its series, and so
\* is the seed it has read, as long as nobody has inserted the counter.
NumberIsNext(x) ==
    LET s == SeriesOf(x) IN
    /\ x.pc = "seeding" /\ counter[s] = 0 => \A m \in NumbersOf(s) : m <= x.number
    /\ HoldsCounter(x) => x.number > counter[s] /\ \A m \in NumbersOf(s) : m < x.number

\* The counter's row is locked by the transaction that has drawn from it.
OneAllocator ==
    \A t, q \in Txs : t # q /\ HoldsCounter(tx[t]) /\ HoldsCounter(tx[q])
        => SeriesOf(tx[t]) # SeriesOf(tx[q])

\* The counter is the last number; credit notes have one from the first.
CounterIsLast ==
    /\ \A s \in SeriesNames : counter[s] # 0 => \A m \in NumbersOf(s) : m <= counter[s]
    /\ counter["CRN"] = 0 => NumbersOf("CRN") = {}

CreditedInFull ==
    \A i \in Invoices : invoices[i].status = "credited" => invoices[i].credited >= Total

LedgerInv ==
    /\ TypeOK
    /\ \A t \in Txs : ReadIsPast(tx[t])
    /\ \A t \in Txs : NumberIsNext(tx[t])
    /\ OneAllocator
    /\ CounterIsLast
    /\ CreditedInFull
    /\ PaidIsCovered

-----------------------------------------------------------------------------
(* Facts.                                                                  *)

LEMMA TxFacts ==
    ASSUME LedgerInv, NEW t \in Txs
    PROVE  /\ tx[t] \in Tx
           /\ tx[t].pc \in Pcs /\ tx[t].op \in {"none", "invoice", "payment", "credit"}
           /\ tx[t].read \in Nat /\ tx[t].amount \in Nat /\ tx[t].number \in Nat
           /\ SeriesOf(tx[t]) \in SeriesNames
<1>1. tx[t] \in Tx
  BY DEF LedgerInv, TypeOK
<1> QED BY <1>1 DEF Tx, SeriesOf, SeriesNames

LEMMA InvoiceFacts ==
    ASSUME LedgerInv, NEW i \in Invoices
    PROVE  /\ invoices[i] \in Invoice
           /\ invoices[i].status \in Statuses
           /\ invoices[i].paid \in Nat
           /\ invoices[i].received \in Nat
           /\ invoices[i].credited \in Nat
           /\ invoices[i].paid <= invoices[i].received
<1>1. invoices[i] \in Invoice
  BY DEF LedgerInv, TypeOK, Invoices
<1>2. invoices[i].paid <= invoices[i].received
  BY DEF LedgerInv, PaidIsCovered
<1> QED BY <1>1, <1>2 DEF Invoice

LEMMA NumberFacts ==
    ASSUME LedgerInv, NEW s \in SeriesNames
    PROVE  counter[s] \in Nat /\ register[s] \in Seq(Nat) /\ NumbersOf(s) \subseteq Nat
<1>1. counter[s] \in Nat /\ register[s] \in Seq(Nat)
  BY DEF LedgerInv, TypeOK
<1> QED BY <1>1 DEF NumbersOf

LEMMA IdleFacts ==
    /\ Idle \in Tx /\ Idle.pc = "idle" /\ Idle.op = "none"
    /\ ~HoldsCounter(Idle)
<1>1. Idle \in Tx /\ Idle.pc = "idle" /\ Idle.op = "none"
  BY DEF Idle, Tx, Pcs
<1> QED BY <1>1 DEF HoldsCounter

\* The numbers of a register to which one is appended.
Ran(q) == {q[k] : k \in DOMAIN q}

LEMMA AppendRan ==
    ASSUME NEW r \in Seq(Nat), NEW n \in Nat
    PROVE  Ran(Append(r, n)) = Ran(r) \cup {n}
<1> DEFINE a == Append(r, n)
<1>1. /\ a \in Seq(Nat) /\ Len(a) = Len(r) + 1 /\ a[Len(r) + 1] = n
      /\ \A k \in 1..Len(r) : a[k] = r[k]
      /\ DOMAIN a = 1..(Len(r) + 1) /\ DOMAIN r = 1..Len(r) /\ Len(r) \in Nat
  OBVIOUS
<1> HIDE DEF a
<1>2. ASSUME NEW m \in Ran(a) PROVE m \in Ran(r) \cup {n}
  <2>1. PICK k \in 1..(Len(r) + 1) : m = a[k]
    BY <1>1 DEF Ran
  <2>2. CASE k = Len(r) + 1
    BY <1>1, <2>1, <2>2
  <2>3. CASE k # Len(r) + 1
    <3>1. k \in 1..Len(r)
      BY <1>1, <2>3
    <3> QED BY <1>1, <2>1, <3>1 DEF Ran
  <2> QED BY <2>2, <2>3
<1>3. ASSUME NEW m \in Ran(r) PROVE m \in Ran(a)
  <2>1. PICK k \in 1..Len(r) : m = r[k]
    BY <1>1 DEF Ran
  <2>2. k \in 1..(Len(r) + 1)
    BY <1>1
  <2> QED BY <1>1, <2>1, <2>2 DEF Ran
<1>4. n \in Ran(a)
  <2>1. Len(r) + 1 \in DOMAIN a
    BY <1>1
  <2> QED BY <1>1, <2>1 DEF Ran
<1> QED BY <1>2, <1>3, <1>4 DEF a

\* A step that writes its own transaction's record only.
LEMMA LocalStep ==
    ASSUME LedgerInv, NEW t \in Txs, NEW x \in Tx, Continue(t, x),
           ReadIsPast(x), NumberIsNext(x),
           HoldsCounter(x) =>
              \A q \in Txs \ {t} : HoldsCounter(tx[q]) => SeriesOf(tx[q]) # SeriesOf(x)
    PROVE  LedgerInv'
<1>1. /\ tx' \in [Txs -> Tx] /\ tx'[t] = x
      /\ \A q \in Txs \ {t} : tx'[q] = tx[q]
      /\ UNCHANGED <<invoices, register, counter>>
  BY DEF LedgerInv, TypeOK, Continue
<1>2. TypeOK'
  BY <1>1 DEF LedgerInv, TypeOK
<1>3. \A q \in Txs : ReadIsPast(tx'[q]) /\ NumberIsNext(tx'[q])
  BY <1>1 DEF LedgerInv
<1>4. \A q \in Txs : ReadIsPast(tx[q])' /\ NumberIsNext(tx[q])'
  <2>1. ASSUME NEW q \in Txs PROVE ReadIsPast(tx[q])'
    BY <1>1, <1>3 DEF ReadIsPast, Invoices
  <2>2. ASSUME NEW q \in Txs PROVE NumberIsNext(tx[q])'
    BY <1>1, <1>3 DEF NumberIsNext, SeriesOf, NumbersOf, HoldsCounter
  <2> QED BY <2>1, <2>2
<1>5. OneAllocator'
  <2>1. ASSUME NEW p \in Txs, NEW q \in Txs, p # q, HoldsCounter(tx'[p]), HoldsCounter(tx'[q])
        PROVE  SeriesOf(tx'[p]) # SeriesOf(tx'[q])
    BY <1>1, <2>1 DEF LedgerInv, OneAllocator
  <2> QED BY <2>1 DEF OneAllocator, HoldsCounter, SeriesOf
<1>6. CounterIsLast' /\ CreditedInFull' /\ PaidIsCovered'
  BY <1>1 DEF LedgerInv, CounterIsLast, CreditedInFull, PaidIsCovered, NumbersOf, Invoices
<1> QED BY <1>2, <1>4, <1>5, <1>6 DEF LedgerInv

-----------------------------------------------------------------------------
(* The steps before a commit.                                              *)

LEMMA BeginStep ==
    ASSUME LedgerInv, NEW t \in Txs,
           \/ BeginInvoice(t)
           \/ \E i \in Invoices, amount \in Amounts :
                 BeginPayment(t, i, amount) \/ BeginCredit(t, i, amount)
           \/ RollBack(t)
    PROVE  LedgerInv'
<1>1. CASE BeginInvoice(t)
  <2> DEFINE x == [Idle EXCEPT !.pc = "allocating", !.op = "invoice"]
  <2>1. x \in Tx /\ x.pc = "allocating" /\ x.op = "invoice"
    BY IdleFacts DEF Tx, Pcs
  <2>2. Continue(t, x)
    BY <1>1 DEF BeginInvoice, Begin, Continue
  <2> HIDE DEF x
  <2> QED BY <2>1, <2>2, LocalStep DEF ReadIsPast, NumberIsNext, HoldsCounter
<1>2. ASSUME NEW i \in Invoices, NEW amount \in Amounts, BeginPayment(t, i, amount)
      PROVE  LedgerInv'
  <2> DEFINE r == invoices[i].paid
             x == [Idle EXCEPT !.pc = "paying", !.op = "payment", !.invoice = i,
                               !.amount = amount, !.read = r]
  <2>1. Continue(t, x)
    BY <1>2 DEF BeginPayment, Begin, Continue
  <2>2. r \in Nat /\ r <= invoices[i].received /\ i \in Nat /\ amount \in Nat
    BY InvoiceFacts, ReceivablesAssumption DEF LedgerInv, TypeOK, Invoices
  <2> HIDE DEF r
  <2>3. x \in Tx /\ x.pc = "paying" /\ x.op = "payment" /\ x.invoice = i /\ x.read = r
    BY <2>2, IdleFacts DEF Tx, Pcs
  <2> HIDE DEF x
  <2> QED BY <2>1, <2>2, <2>3, LocalStep DEF ReadIsPast, NumberIsNext, HoldsCounter
<1>3. ASSUME NEW i \in Invoices, NEW amount \in Amounts, BeginCredit(t, i, amount)
      PROVE  LedgerInv'
  <2> DEFINE r == invoices[i].credited
             x == [Idle EXCEPT !.pc = "allocating", !.op = "credit", !.invoice = i,
                               !.amount = amount, !.read = r]
  <2>1. Continue(t, x)
    BY <1>3 DEF BeginCredit, Begin, Continue
  <2>2. r \in Nat /\ r <= invoices[i].credited /\ i \in Nat /\ amount \in Nat
    BY InvoiceFacts, ReceivablesAssumption DEF LedgerInv, TypeOK, Invoices
  <2> HIDE DEF r
  <2>3. x \in Tx /\ x.pc = "allocating" /\ x.op = "credit" /\ x.invoice = i /\ x.read = r
    BY <2>2, IdleFacts DEF Tx, Pcs
  <2> HIDE DEF x
  <2> QED BY <2>1, <2>2, <2>3, LocalStep DEF ReadIsPast, NumberIsNext, HoldsCounter
<1>4. CASE RollBack(t)
  BY <1>4, IdleFacts, LocalStep DEF RollBack, ReadIsPast, NumberIsNext, HoldsCounter
<1> QED BY <1>1, <1>2, <1>3, <1>4

\* Whoever holds the counter has drawn a number past all that were committed.
LEMMA TakeNumberStep ==
    ASSUME LedgerInv, NEW t \in Txs, TakeNumber(t) \/ InsertCounter(t)
    PROVE  LedgerInv'
<1> DEFINE s == SeriesOf(tx[t])
<1>1. /\ tx[t] \in Tx /\ s \in SeriesNames /\ counter[s] \in Nat
      /\ NumbersOf(s) \subseteq Nat /\ tx[t].number \in Nat
  BY TxFacts, NumberFacts
<1>2. PICK n \in Nat : /\ Continue(t, [tx[t] EXCEPT !.pc = "numbered", !.number = n])
                       /\ n > counter[s] /\ \A m \in NumbersOf(s) : m < n
  <2>1. CASE TakeNumber(t)
    <3>1. \A m \in NumbersOf(s) : m <= counter[s]
      BY <1>1, <2>1 DEF LedgerInv, CounterIsLast, TakeNumber
    <3> DEFINE nn == counter[s] + 1
    <3>2. nn \in Nat /\ nn > counter[s] /\ \A m \in NumbersOf(s) : m < nn
      BY <1>1, <3>1
    <3>3. Continue(t, [tx[t] EXCEPT !.pc = "numbered", !.number = nn])
      BY <2>1 DEF TakeNumber
    <3> HIDE DEF nn
    <3> QED BY <3>2, <3>3, Zenon
  <2>2. CASE InsertCounter(t)
    <3> DEFINE last == IF counter[s] = 0 THEN tx[t].number ELSE counter[s]
    <3>1. last \in Nat /\ counter[s] <= last
      BY <1>1
    <3>2. \A m \in NumbersOf(s) : m <= last
      <4>1. CASE counter[s] = 0
        BY <2>2, <4>1 DEF LedgerInv, NumberIsNext, InsertCounter
      <4>2. CASE counter[s] # 0
        BY <1>1, <4>2 DEF LedgerInv, CounterIsLast
      <4> QED BY <4>1, <4>2
    <3>3. Continue(t, [tx[t] EXCEPT !.pc = "numbered", !.number = last + 1])
      BY <2>2 DEF InsertCounter
    <3> HIDE DEF last
    <3> DEFINE nn == last + 1
    <3>4. nn \in Nat /\ nn > counter[s] /\ \A m \in NumbersOf(s) : m < nn
      BY <1>1, <3>1, <3>2
    <3>5. Continue(t, [tx[t] EXCEPT !.pc = "numbered", !.number = nn])
      BY <3>3
    <3> HIDE DEF nn
    <3> QED BY <3>4, <3>5, Zenon
  <2> QED BY <2>1, <2>2
<1> DEFINE x == [tx[t] EXCEPT !.pc = "numbered", !.number = n]
<1>3. /\ x \in Tx /\ x.pc = "numbered" /\ x.number = n /\ x.op = tx[t].op
      /\ x.invoice = tx[t].invoice /\ x.read = tx[t].read
  BY <1>1 DEF Tx, Pcs
<1>4. Continue(t, x)
  BY <1>2
<1> HIDE DEF x
<1>5. SeriesOf(x) = s
  BY <1>3 DEF SeriesOf
<1>6. ReadIsPast(x)
  BY <1>3 DEF LedgerInv, ReadIsPast
<1>7. NumberIsNext(x)
  BY <1>2, <1>3, <1>5 DEF NumberIsNext
<1>8. \A q \in Txs \ {t} : HoldsCounter(tx[q]) => SeriesOf(tx[q]) # SeriesOf(x)
  BY <1>5 DEF TakeNumber, InsertCounter, CounterFree
<1> QED BY <1>3, <1>4, <1>6, <1>7, <1>8, LocalStep

LEMMA ReadSeedStep ==
    ASSUME LedgerInv, NEW t \in Txs, ReadSeed(t)
    PROVE  LedgerInv'
<1> DEFINE s == SeriesOf(tx[t])
<1>1. /\ tx[t] \in Tx /\ s \in SeriesNames /\ NumbersOf(s) \subseteq Nat /\ counter[s] = 0
  BY TxFacts, NumberFacts DEF ReadSeed
<1>2. PICK seed \in SeedsOf(s) :
         Continue(t, [tx[t] EXCEPT !.pc = "seeding", !.number = seed])
  BY DEF ReadSeed
<1>3. seed \in Nat /\ \A m \in NumbersOf(s) : m <= seed
  <2>1. CASE s = "INV"
    BY <1>1, <2>1 DEF SeedsOf
  <2>2. CASE s = "CRN"
    BY <1>1, <2>2 DEF SeedsOf, LedgerInv, CounterIsLast
  <2> QED BY <1>1, <2>1, <2>2 DEF SeriesNames
<1> DEFINE x == [tx[t] EXCEPT !.pc = "seeding", !.number = seed]
<1>4. /\ x \in Tx /\ x.pc = "seeding" /\ x.number = seed /\ x.op = tx[t].op
      /\ x.invoice = tx[t].invoice /\ x.read = tx[t].read
  BY <1>1, <1>3 DEF Tx, Pcs
<1>5. Continue(t, x)
  BY <1>2
<1> HIDE DEF x
<1>6. SeriesOf(x) = s /\ ~HoldsCounter(x)
  BY <1>4 DEF SeriesOf, HoldsCounter
<1>7. ReadIsPast(x)
  BY <1>4 DEF LedgerInv, ReadIsPast
<1>8. NumberIsNext(x)
  BY <1>3, <1>4, <1>6 DEF NumberIsNext
<1> QED BY <1>4, <1>5, <1>6, <1>7, <1>8, LocalStep

LEMMA PostStep ==
    ASSUME LedgerInv, NEW t \in Txs, PostPayment(t) \/ PostCredit(t)
    PROVE  LedgerInv'
<1> DEFINE x == [tx[t] EXCEPT !.pc = "posted"]
<1>1. tx[t] \in Tx /\ Continue(t, x)
  BY TxFacts DEF PostPayment, PostCredit
<1>2. /\ x \in Tx /\ x.pc = "posted" /\ x.number = tx[t].number /\ x.op = tx[t].op
      /\ x.invoice = tx[t].invoice /\ x.read = tx[t].read
  BY <1>1 DEF Tx, Pcs
<1> HIDE DEF x
<1>3. SeriesOf(x) = SeriesOf(tx[t])
  BY <1>2 DEF SeriesOf
<1>4. HoldsCounter(x) => HoldsCounter(tx[t])
  BY <1>2 DEF HoldsCounter, PostPayment, PostCredit, LedgerInv, ReadIsPast
<1>5. ReadIsPast(x)
  BY <1>2 DEF LedgerInv, ReadIsPast
<1>6. NumberIsNext(x)
  BY <1>2, <1>3, <1>4 DEF LedgerInv, NumberIsNext
<1>7. HoldsCounter(x) =>
         \A q \in Txs \ {t} : HoldsCounter(tx[q]) => SeriesOf(tx[q]) # SeriesOf(x)
  BY <1>3, <1>4 DEF LedgerInv, OneAllocator
<1> QED BY <1>1, <1>2, <1>5, <1>6, <1>7, LocalStep

-----------------------------------------------------------------------------
(* The commits.                                                            *)

\* What a commit does to the numbers of its series.
LEMMA NumberedFacts ==
    ASSUME LedgerInv, NEW t \in Txs, HoldsCounter(tx[t]), Numbered(t),
           NEW s, s = SeriesOf(tx[t]), NEW n, n = tx[t].number
    PROVE  /\ register' \in [SeriesNames -> Seq(Nat)] /\ counter' \in [SeriesNames -> Nat]
           /\ s \in SeriesNames /\ n \in Nat /\ n > counter[s] /\ n # 0
           /\ \A m \in NumbersOf(s) : m \in Nat /\ m < n
           /\ register'[s] = Append(register[s], n) /\ counter'[s] = n
           /\ NumbersOf(s)' = NumbersOf(s) \cup {n}
           /\ \A r \in SeriesNames \ {s} :
                 register'[r] = register[r] /\ counter'[r] = counter[r]
                 /\ NumbersOf(r)' = NumbersOf(r)
<1>1. s \in SeriesNames /\ n \in Nat /\ NumbersOf(s) \subseteq Nat /\ counter[s] \in Nat
      /\ register[s] \in Seq(Nat)
  BY TxFacts, NumberFacts
<1>2. n > counter[s] /\ \A m \in NumbersOf(s) : m < n
  BY DEF LedgerInv, NumberIsNext
<1>3. /\ register' = [register EXCEPT ![s] = Append(register[s], n)]
      /\ counter' = [counter EXCEPT ![s] = n]
  BY DEF Numbered
<1>4. n # 0
  BY <1>1, <1>2
<1>5. /\ register' \in [SeriesNames -> Seq(Nat)] /\ counter' \in [SeriesNames -> Nat]
      /\ register'[s] = Append(register[s], n) /\ counter'[s] = n
      /\ \A r \in SeriesNames \ {s} : register'[r] = register[r] /\ counter'[r] = counter[r]
  BY <1>1, <1>3 DEF LedgerInv, TypeOK
<1>6. NumbersOf(s)' = NumbersOf(s) \cup {n}
  <2>1. Ran(Append(register[s], n)) = Ran(register[s]) \cup {n}
    BY <1>1, AppendRan
  <2>2. NumbersOf(s) = Ran(register[s])
    BY DEF NumbersOf, Ran
  <2>3. NumbersOf(s)' = Ran(register'[s])
    BY DEF NumbersOf, Ran
  <2>4. register'[s] = Append(register[s], n)
    BY <1>5
  <2> QED BY <2>1, <2>2, <2>3, <2>4
<1>7. \A r \in SeriesNames \ {s} : NumbersOf(r)' = NumbersOf(r)
  BY <1>5 DEF NumbersOf
<1> QED BY <1>1, <1>2, <1>4, <1>5, <1>6, <1>7

\* A commit that numbers a document leaves the numbers of the others next.
LEMMA NumberedStep ==
    ASSUME LedgerInv, NEW t \in Txs, HoldsCounter(tx[t]), Numbered(t),
           tx' = [tx EXCEPT ![t] = Idle]
    PROVE  /\ \A q \in Txs : NumberIsNext(tx[q])'
           /\ OneAllocator'
           /\ CounterIsLast'
           /\ register' \in [SeriesNames -> Seq(Nat)] /\ counter' \in [SeriesNames -> Nat]
<1>1. /\ tx'[t] = Idle /\ \A q \in Txs \ {t} : tx'[q] = tx[q]
  BY DEF LedgerInv, TypeOK
<1>2. PICK s \in SeriesNames, n \in Nat : s = SeriesOf(tx[t]) /\ n = tx[t].number
  BY TxFacts
<1>3. /\ register' \in [SeriesNames -> Seq(Nat)] /\ counter' \in [SeriesNames -> Nat]
      /\ s \in SeriesNames /\ n \in Nat /\ n > counter[s] /\ n # 0
      /\ \A m \in NumbersOf(s) : m \in Nat /\ m < n
      /\ counter'[s] = n /\ NumbersOf(s)' = NumbersOf(s) \cup {n}
      /\ \A r \in SeriesNames \ {s} : counter'[r] = counter[r] /\ NumbersOf(r)' = NumbersOf(r)
  <2>1. /\ register' \in [SeriesNames -> Seq(Nat)] /\ counter' \in [SeriesNames -> Nat]
        /\ s \in SeriesNames /\ n \in Nat /\ n > counter[s] /\ n # 0
        /\ \A m \in NumbersOf(s) : m \in Nat /\ m < n
    BY <1>2, NumberedFacts
  <2>2. counter'[s] = n
    BY <1>2, NumberedFacts
  <2>4. NumbersOf(s)' = NumbersOf(s) \cup {n}
    BY <1>2, NumberedFacts, Zenon
  <2>3. \A r \in SeriesNames \ {s} : counter'[r] = counter[r] /\ NumbersOf(r)' = NumbersOf(r)
    BY <1>2, NumberedFacts
  <2> QED BY <2>1, <2>2, <2>3, <2>4
<1>4. \A q \in Txs \ {t} : HoldsCounter(tx[q]) => SeriesOf(tx[q]) # s
  BY <1>2 DEF LedgerInv, OneAllocator
<1>5. ASSUME NEW q \in Txs PROVE NumberIsNext(tx[q])'
  <2>1. CASE q = t
    BY <1>1, <2>1, IdleFacts DEF NumberIsNext, HoldsCounter
  <2>2. CASE q # t
    <3>1. tx'[q] = tx[q]
      BY <1>1, <2>2
    <3>2. PICK z : z = SeriesOf(tx[q])
      OBVIOUS
    <3>3. z \in SeriesNames
      BY <3>2, TxFacts
    <3>4. HoldsCounter(tx[q]) => z # s
      BY <1>4, <2>2, <3>2
    <3>5. /\ tx[q].pc = "seeding" /\ counter[z] = 0 => \A m \in NumbersOf(z) : m <= tx[q].number
          /\ HoldsCounter(tx[q]) =>
                tx[q].number > counter[z] /\ \A m \in NumbersOf(z) : m < tx[q].number
      BY <3>2 DEF LedgerInv, NumberIsNext
    <3>6. tx[q].pc = "seeding" /\ counter'[z] = 0 => \A m \in NumbersOf(z)' : m <= tx[q].number
      BY <1>3, <3>3, <3>5
    <3>7. HoldsCounter(tx[q]) =>
             tx[q].number > counter'[z] /\ \A m \in NumbersOf(z)' : m < tx[q].number
      BY <1>3, <3>3, <3>4, <3>5
    <3> QED BY <3>1, <3>2, <3>6, <3>7 DEF NumberIsNext, SeriesOf, HoldsCounter, NumbersOf
  <2> QED BY <2>1, <2>2
<1>6. OneAllocator'
  <2>1. ASSUME NEW p \in Txs, NEW q \in Txs, p # q, HoldsCounter(tx'[p]), HoldsCounter(tx'[q])
        PROVE  SeriesOf(tx'[p]) # SeriesOf(tx'[q])
    <3>1. p # t /\ q # t
      BY <1>1, <2>1, IdleFacts
    <3> QED BY <1>1, <2>1, <3>1 DEF LedgerInv, OneAllocator
  <2> QED BY <2>1 DEF OneAllocator, HoldsCounter, SeriesOf
<1>7. CounterIsLast'
  <2>1. ASSUME NEW r \in SeriesNames, counter'[r] # 0, NEW m \in NumbersOf(r)'
        PROVE  m <= counter'[r]
    <3>1. CASE r = s
      <4>1. m = n \/ (m \in Nat /\ m < n)
        BY <1>3, <2>1, <3>1
      <4> QED BY <1>3, <3>1, <4>1
    <3>2. CASE r # s
      BY <1>3, <2>1, <3>2 DEF LedgerInv, CounterIsLast
    <3> QED BY <3>1, <3>2
  <2>2. counter'["CRN"] = 0 => NumbersOf("CRN")' = {}
    <3>1. "CRN" \in SeriesNames
      BY DEF SeriesNames
    <3> QED BY <1>3, <3>1 DEF LedgerInv, CounterIsLast
  <2> QED BY <2>1, <2>2 DEF CounterIsLast
<1> QED BY <1>3, <1>5, <1>6, <1>7

\* Writing one invoice, none of whose sums falls, leaves what was read past.
LEMMA InvoiceWritten ==
    ASSUME LedgerInv, NEW t \in Txs, tx' = [tx EXCEPT ![t] = Idle],
           NEW i \in Invoices, NEW v \in Invoice, invoices' = [invoices EXCEPT ![i] = v],
           v.received >= invoices[i].received, v.credited >= invoices[i].credited,
           v.paid <= v.received,
           v.status = "paid" => v.received >= Total,
           v.status = "credited" => v.credited >= Total
    PROVE  /\ invoices' \in Seq(Invoice) /\ tx' \in [Txs -> Tx]
           /\ \A q \in Txs : ReadIsPast(tx[q])'
           /\ CreditedInFull' /\ PaidIsCovered'
<1>1. /\ tx' \in [Txs -> Tx] /\ tx'[t] = Idle
      /\ \A q \in Txs \ {t} : tx'[q] = tx[q]
  BY IdleFacts DEF LedgerInv, TypeOK
<1>2. /\ invoices' \in Seq(Invoice) /\ Invoices' = Invoices /\ invoices'[i] = v
      /\ \A j \in Invoices \ {i} : invoices'[j] = invoices[j]
  BY DEF LedgerInv, TypeOK, Invoices
<1>3. \A j \in Invoices :
         /\ invoices[j].received \in Nat /\ invoices[j].credited \in Nat
         /\ invoices'[j].received \in Nat /\ invoices'[j].credited \in Nat
         /\ invoices'[j].received >= invoices[j].received
         /\ invoices'[j].credited >= invoices[j].credited
  <2>1. ASSUME NEW j \in Invoices PROVE invoices[j].received \in Nat /\ invoices[j].credited \in Nat
    BY InvoiceFacts
  <2>2. v.received \in Nat /\ v.credited \in Nat
    BY DEF Invoice
  <2> QED BY <1>2, <2>1, <2>2
<1>4. ASSUME NEW q \in Txs PROVE ReadIsPast(tx[q])'
  <2>1. CASE q = t
    BY <1>1, <2>1, IdleFacts DEF ReadIsPast
  <2>2. CASE q # t
    <3>1. tx'[q] = tx[q] /\ tx[q].read \in Nat
      BY <1>1, <2>2, TxFacts
    <3>2. ReadIsPast(tx[q])
      BY DEF LedgerInv
    <3>3. tx[q].op = "payment" =>
             tx[q].invoice \in Invoices /\ tx[q].read <= invoices'[tx[q].invoice].received
      BY <1>3, <3>1, <3>2 DEF ReadIsPast
    <3>4. tx[q].op = "credit" =>
             tx[q].invoice \in Invoices /\ tx[q].read <= invoices'[tx[q].invoice].credited
      BY <1>3, <3>1, <3>2 DEF ReadIsPast
    <3>5. tx[q].pc = "paying" => tx[q].op = "payment"
      BY <3>2 DEF ReadIsPast
    <3> QED BY <1>2, <3>1, <3>3, <3>4, <3>5 DEF ReadIsPast
  <2> QED BY <2>1, <2>2
<1>5. ASSUME NEW j \in Invoices
      PROVE  /\ invoices'[j].status = "credited" => invoices'[j].credited >= Total
             /\ invoices'[j].status = "paid" => invoices'[j].received >= Total
             /\ invoices'[j].paid <= invoices'[j].received
  <2>1. CASE j = i
    BY <1>2, <2>1
  <2>2. CASE j # i
    BY <1>2, <2>2 DEF LedgerInv, CreditedInFull, PaidIsCovered
  <2> QED BY <2>1, <2>2
<1>6. CreditedInFull' /\ PaidIsCovered'
  BY <1>2, <1>5 DEF CreditedInFull, PaidIsCovered
<1> QED BY <1>1, <1>2, <1>4, <1>6

LEMMA PaidFacts ==
    ASSUME NEW inv \in Invoice, NEW x, x.amount \in Nat, AmountPaid(x) \in Nat
    PROVE  /\ WithPayment(inv, x) \in Invoice
           /\ WithPayment(inv, x).paid = AmountPaid(x)
           /\ WithPayment(inv, x).status = StatusAfter(AmountPaid(x))
           /\ WithPayment(inv, x).received = inv.received + x.amount
           /\ WithPayment(inv, x).credited = inv.credited
<1>1. PICK a \in Nat, b \in Nat, st \in Statuses :
         a = AmountPaid(x) /\ b = inv.received + x.amount /\ st = StatusAfter(AmountPaid(x))
  <2>1. inv.received + x.amount \in Nat
    BY DEF Invoice
  <2>2. StatusAfter(AmountPaid(x)) \in Statuses
    BY DEF StatusAfter, Statuses
  <2> QED BY <2>1, <2>2
<1>2. WithPayment(inv, x) = [inv EXCEPT !.paid = a, !.status = st, !.received = b]
  BY <1>1 DEF WithPayment
<1>3. LET v == [inv EXCEPT !.paid = a, !.status = st, !.received = b] IN
      v \in Invoice /\ v.paid = a /\ v.status = st /\ v.received = b /\ v.credited = inv.credited
  BY DEF Invoice
<1> QED BY <1>1, <1>2, <1>3

LEMMA CreditedFacts ==
    ASSUME NEW inv \in Invoice, NEW x, x.amount \in Nat
    PROVE  /\ WithCredit(inv, x) \in Invoice
           /\ WithCredit(inv, x).credited = inv.credited + x.amount
           /\ WithCredit(inv, x).status = IF FullCredit(x) THEN "credited" ELSE inv.status
           /\ WithCredit(inv, x).paid = inv.paid
           /\ WithCredit(inv, x).received = inv.received
<1>1. PICK a \in Nat, st \in Statuses :
         a = inv.credited + x.amount /\ st = IF FullCredit(x) THEN "credited" ELSE inv.status
  <2>1. inv.credited + x.amount \in Nat
    BY DEF Invoice
  <2>2. inv.status \in Statuses /\ "credited" \in Statuses
    BY DEF Invoice, Statuses
  <2> QED BY <2>1, <2>2
<1>2. WithCredit(inv, x) = [inv EXCEPT !.credited = a, !.status = st]
  BY <1>1 DEF WithCredit
<1>3. LET v == [inv EXCEPT !.credited = a, !.status = st] IN
      v \in Invoice /\ v.credited = a /\ v.status = st
      /\ v.paid = inv.paid /\ v.received = inv.received
  BY DEF Invoice
<1> QED BY <1>1, <1>2, <1>3

LEMMA CommitPaymentStep ==
    ASSUME LedgerInv, NEW t \in Txs, CommitPayment(t)
    PROVE  LedgerInv'
<1> DEFINE x == tx[t]
           i == x.invoice
           v == WithPayment(invoices[i], x)
<1>1. /\ x \in Tx /\ x.read \in Nat /\ x.amount \in Nat
      /\ i \in Invoices /\ x.read <= invoices[i].received
  BY TxFacts DEF LedgerInv, ReadIsPast, CommitPayment
<1>2. /\ invoices' = [invoices EXCEPT ![i] = v]
      /\ tx' = [tx EXCEPT ![t] = Idle]
      /\ UNCHANGED <<register, counter>>
  BY DEF CommitPayment
<1>3. /\ invoices[i] \in Invoice /\ invoices[i].received \in Nat /\ invoices[i].credited \in Nat
  BY <1>1, InvoiceFacts
<1>4. AmountPaid(x) \in Nat /\ AmountPaid(x) <= invoices[i].received + x.amount
  BY <1>1, <1>3 DEF AmountPaid
<1>5. StatusAfter(AmountPaid(x)) \in Statuses \ {"credited"}
  BY DEF StatusAfter, Statuses
<1>6. /\ v.paid = AmountPaid(x) /\ v.status = StatusAfter(AmountPaid(x))
      /\ v.received = invoices[i].received + x.amount
      /\ v.credited = invoices[i].credited /\ v \in Invoice
  BY <1>1, <1>3, <1>4, PaidFacts
<1>7. v.status = "paid" => AmountPaid(x) >= Total
  BY <1>6 DEF StatusAfter
<1>8. Total \in Nat
  BY ReceivablesAssumption
<1> HIDE DEF v
<1>9. /\ v.received >= invoices[i].received /\ v.credited >= invoices[i].credited
      /\ v.paid <= v.received
      /\ v.status = "paid" => v.received >= Total
      /\ v.status # "credited"
  BY <1>1, <1>3, <1>4, <1>5, <1>6, <1>7, <1>8
<1> HIDE DEF i
<1>10. /\ invoices' \in Seq(Invoice) /\ tx' \in [Txs -> Tx]
       /\ \A q \in Txs : ReadIsPast(tx[q])'
       /\ CreditedInFull' /\ PaidIsCovered'
  BY <1>1, <1>2, <1>6, <1>9, InvoiceWritten
<1>11. TypeOK'
  BY <1>2, <1>10 DEF LedgerInv, TypeOK
<1>12. /\ tx'[t] = Idle /\ \A q \in Txs \ {t} : tx'[q] = tx[q]
  BY <1>2 DEF LedgerInv, TypeOK
<1>13. ASSUME NEW q \in Txs PROVE NumberIsNext(tx[q])'
  <2>1. CASE q = t
    BY <1>12, <2>1, IdleFacts DEF NumberIsNext, HoldsCounter
  <2>2. CASE q # t
    BY <1>2, <1>12, <2>2 DEF LedgerInv, NumberIsNext, HoldsCounter, SeriesOf, NumbersOf
  <2> QED BY <2>1, <2>2
<1>14. OneAllocator'
  <2>1. ASSUME NEW p \in Txs, NEW q \in Txs, p # q, HoldsCounter(tx'[p]), HoldsCounter(tx'[q])
        PROVE  SeriesOf(tx'[p]) # SeriesOf(tx'[q])
    <3>1. p # t /\ q # t
      BY <1>12, <2>1, IdleFacts
    <3> QED BY <1>12, <2>1, <3>1 DEF LedgerInv, OneAllocator
  <2> QED BY <2>1 DEF OneAllocator, HoldsCounter, SeriesOf
<1>15. CounterIsLast'
  BY <1>2 DEF LedgerInv, CounterIsLast, NumbersOf
<1> QED BY <1>10, <1>11, <1>13, <1>14, <1>15 DEF LedgerInv

LEMMA CommitCreditStep ==
    ASSUME LedgerInv, NEW t \in Txs, CommitCredit(t)
    PROVE  LedgerInv' /\ HoldsCounter(tx[t]) /\ SeriesOf(tx[t]) = "CRN"
<1> DEFINE x == tx[t]
           i == x.invoice
           st == IF FullCredit(x) THEN "credited" ELSE invoices[i].status
           v == WithCredit(invoices[i], x)
<1>1. /\ x \in Tx /\ x.read \in Nat /\ x.amount \in Nat /\ x.op = "credit"
      /\ i \in Invoices /\ x.read <= invoices[i].credited
  BY TxFacts DEF LedgerInv, ReadIsPast, CommitCredit
<1>2. /\ invoices' = [invoices EXCEPT ![i] = v]
      /\ tx' = [tx EXCEPT ![t] = Idle]
      /\ Numbered(t)
  BY DEF CommitCredit
<1>3. HoldsCounter(tx[t]) /\ SeriesOf(tx[t]) = "CRN"
  BY DEF CommitCredit, HoldsCounter, SeriesOf
<1>4. /\ invoices[i] \in Invoice /\ invoices[i].status \in Statuses
      /\ invoices[i].received \in Nat /\ invoices[i].credited \in Nat
      /\ invoices[i].paid <= invoices[i].received
  BY <1>1, InvoiceFacts
<1>5. st \in Statuses
  BY <1>4 DEF Statuses
<1>6. /\ v.paid = invoices[i].paid /\ v.status = st /\ v.received = invoices[i].received
      /\ v.credited = invoices[i].credited + x.amount /\ v \in Invoice
  BY <1>1, <1>4, CreditedFacts
<1>7. Total \in Nat
  BY ReceivablesAssumption
<1>8. /\ invoices[i].status = "paid" => invoices[i].received >= Total
      /\ invoices[i].status = "credited" => invoices[i].credited >= Total
  BY <1>1 DEF LedgerInv, PaidIsCovered, CreditedInFull
<1>9. /\ st = "paid" => invoices[i].received >= Total
      /\ st = "credited" => invoices[i].credited + x.amount >= Total
  BY <1>1, <1>4, <1>7, <1>8 DEF FullCredit
<1> HIDE DEF v, st
<1>10. /\ v.received >= invoices[i].received /\ v.credited >= invoices[i].credited
       /\ v.paid <= v.received
       /\ v.status = "paid" => v.received >= Total
       /\ v.status = "credited" => v.credited >= Total
  BY <1>1, <1>4, <1>6, <1>9
<1> HIDE DEF i
<1>11. /\ invoices' \in Seq(Invoice) /\ tx' \in [Txs -> Tx]
       /\ \A q \in Txs : ReadIsPast(tx[q])'
       /\ CreditedInFull' /\ PaidIsCovered'
  BY <1>1, <1>2, <1>6, <1>10, InvoiceWritten
<1>12. /\ \A q \in Txs : NumberIsNext(tx[q])'
       /\ OneAllocator' /\ CounterIsLast'
       /\ register' \in [SeriesNames -> Seq(Nat)] /\ counter' \in [SeriesNames -> Nat]
  BY <1>2, <1>3, NumberedStep
<1> QED BY <1>3, <1>11, <1>12 DEF LedgerInv, TypeOK

LEMMA CommitInvoiceStep ==
    ASSUME LedgerInv, NEW t \in Txs, CommitInvoice(t)
    PROVE  LedgerInv' /\ HoldsCounter(tx[t]) /\ SeriesOf(tx[t]) = "INV"
<1> DEFINE N == Len(invoices) + 1
<1>1. /\ NewInvoice \in Invoice /\ NewInvoice.status = "issued"
      /\ NewInvoice.paid <= NewInvoice.received
  BY DEF NewInvoice, Invoice, Statuses
<1>2. /\ invoices' = Append(invoices, NewInvoice)
      /\ tx' = [tx EXCEPT ![t] = Idle]
      /\ Numbered(t)
      /\ HoldsCounter(tx[t]) /\ SeriesOf(tx[t]) = "INV"
  BY DEF CommitInvoice, HoldsCounter, SeriesOf
<1>3. /\ invoices' \in Seq(Invoice) /\ Invoices' = Invoices \cup {N} /\ invoices'[N] = NewInvoice
      /\ \A j \in Invoices : invoices'[j] = invoices[j]
  BY <1>1, <1>2 DEF LedgerInv, TypeOK, Invoices
<1>4. /\ tx' \in [Txs -> Tx] /\ tx'[t] = Idle /\ \A q \in Txs \ {t} : tx'[q] = tx[q]
  BY <1>2, IdleFacts DEF LedgerInv, TypeOK
<1> HIDE DEF N
<1>5. ASSUME NEW q \in Txs PROVE ReadIsPast(tx[q])'
  <2>1. CASE q = t
    BY <1>4, <2>1, IdleFacts DEF ReadIsPast
  <2>2. CASE q # t
    BY <1>3, <1>4, <2>2 DEF LedgerInv, ReadIsPast
  <2> QED BY <2>1, <2>2
<1>6. CreditedInFull' /\ PaidIsCovered'
  BY <1>1, <1>3 DEF LedgerInv, CreditedInFull, PaidIsCovered
<1>7. /\ \A q \in Txs : NumberIsNext(tx[q])'
      /\ OneAllocator' /\ CounterIsLast'
      /\ register' \in [SeriesNames -> Seq(Nat)] /\ counter' \in [SeriesNames -> Nat]
  BY <1>2, NumberedStep
<1> QED BY <1>2, <1>3, <1>4, <1>5, <1>6, <1>7 DEF LedgerInv, TypeOK

-----------------------------------------------------------------------------
(* The behaviours.                                                         *)

LEMMA InitInv ==
    ASSUME Init
    PROVE  LedgerInv
<1>1. /\ NewInvoice \in Invoice /\ NewInvoice.status = "issued"
      /\ NewInvoice.paid <= NewInvoice.received
  BY DEF NewInvoice, Invoice, Statuses
<1>2. invoices \in Seq(Invoice) /\ Invoices \subseteq Nat /\ \A i \in Invoices : invoices[i] = NewInvoice
  <2>1. CASE invoices = <<>>
    BY <2>1 DEF Invoices
  <2>2. CASE invoices = <<NewInvoice>>
    <3> HIDE DEF NewInvoice
    <3> QED BY <1>1, <2>2 DEF Invoices
  <2> QED BY <2>1, <2>2 DEF Init
<1>3. /\ \A s \in SeriesNames : counter[s] = 0
      /\ counter \in [SeriesNames -> Nat]
  BY DEF Init
<1>4. /\ register["CRN"] = <<>> /\ NumbersOf("CRN") = {}
  BY DEF Init, SeriesNames, NumbersOf
<1>5. register["INV"] \in Seq(Nat)
  <2>1. register["INV"] = [i \in Invoices |-> i]
    BY DEF Init, SeriesNames
  <2>2. Invoices = 1..Len(invoices) /\ Len(invoices) \in Nat
    BY <1>2 DEF Invoices
  <2> QED BY <2>1, <2>2
<1>6. register \in [SeriesNames -> Seq(Nat)]
  BY <1>4, <1>5 DEF Init, SeriesNames
<1>7. \A t \in Txs : tx[t] = Idle
  BY DEF Init
<1>8. TypeOK
  BY <1>2, <1>3, <1>6, IdleFacts DEF Init, TypeOK
<1>9. \A t \in Txs : ReadIsPast(tx[t]) /\ NumberIsNext(tx[t])
  BY <1>7, IdleFacts DEF ReadIsPast, NumberIsNext
<1>10. OneAllocator
  BY <1>7, IdleFacts DEF OneAllocator
<1>11. CounterIsLast
  BY <1>3, <1>4 DEF CounterIsLast
<1>12. CreditedInFull /\ PaidIsCovered
  BY <1>1, <1>2 DEF CreditedInFull, PaidIsCovered
<1> QED BY <1>8, <1>9, <1>10, <1>11, <1>12 DEF LedgerInv

LEMMA StepInv ==
    ASSUME LedgerInv, [Next]_vars
    PROVE  LedgerInv'
<1>1. CASE Next
  <2>1. PICK t \in Txs : Step(t)
    BY <1>1 DEF Next
  <2> QED BY <2>1, BeginStep, TakeNumberStep, ReadSeedStep, PostStep, CommitPaymentStep,
             CommitCreditStep, CommitInvoiceStep DEF Step
<1>2. CASE UNCHANGED vars
  BY <1>2 DEF vars, LedgerInv, TypeOK, ReadIsPast, NumberIsNext, OneAllocator, CounterIsLast,
             CreditedInFull, PaidIsCovered, Invoices, NumbersOf, SeriesOf, HoldsCounter
<1> QED BY <1>1, <1>2

\* What keeps the receivables right: no transaction has read more than is there,
\* and the drawer of a number holds the counter that lies below it.
THEOREM Invariance == Spec => []LedgerInv
<1> QED BY InitInv, StepInv, PTL DEF Spec

\* The variables keep their types.
THEOREM TypeCorrect == Spec => []TypeOK
<1>1. LedgerInv => TypeOK
  BY DEF LedgerInv
<1> QED BY <1>1, Invariance, PTL

\* An invoice is settled only by money received.
THEOREM PaidIsMoney == Spec => []PaidIsCovered
<1>1. LedgerInv => PaidIsCovered
  BY DEF LedgerInv
<1> QED BY <1>1, Invariance, PTL

\* What the statement asks for, the office chases.
THEOREM DebtIsChased == Spec => []StatementIsChased
<1>1. ASSUME LedgerInv PROVE StatementIsChased
  <2>1. ASSUME NEW i \in Invoices
        PROVE  OpenReceivable(invoices[i]) >= StatementBalance(invoices[i])
    <3> DEFINE v == invoices[i]
    <3>1. /\ v.paid \in Nat /\ v.received \in Nat /\ v.credited \in Nat /\ v.paid <= v.received
      BY <1>1, InvoiceFacts
    <3>2. /\ v.status = "paid" => v.received >= Total
          /\ v.status = "credited" => v.credited >= Total
      BY <1>1 DEF LedgerInv, PaidIsCovered, CreditedInFull
    <3>3. Total \in Nat
      BY ReceivablesAssumption
    <3> HIDE DEF v
    <3> SUFFICES OpenReceivable(v) >= StatementBalance(v)
      BY DEF v
    <3> QED BY <3>1, <3>2, <3>3 DEF OpenReceivable, StatementBalance, AtLeastZero
  <2> QED BY <2>1 DEF StatementIsChased
<1> QED BY <1>1, Invariance, PTL

-----------------------------------------------------------------------------
(* The registers.                                                          *)

\* What a step does to the two registers: a commit that numbers a document adds
\* it to its own, with a number that no document there bears.
LEMMA RegisterStep ==
    ASSUME LedgerInv, [Next]_vars, NEW r \in SeriesNames
    PROVE  \/ register'[r] = register[r]
           \/ \E n \in Nat : n \notin Ran(register[r]) /\ register'[r] = Append(register[r], n)
<1>1. ASSUME NEW t \in Txs, HoldsCounter(tx[t]), Numbered(t)
      PROVE  \/ register'[r] = register[r]
             \/ \E n \in Nat : n \notin Ran(register[r]) /\ register'[r] = Append(register[r], n)
  <2>1. PICK s \in SeriesNames, n \in Nat : s = SeriesOf(tx[t]) /\ n = tx[t].number
    BY TxFacts
  <2>2. /\ register'[s] = Append(register[s], n)
        /\ \A m \in NumbersOf(s) : m \in Nat /\ m < n
        /\ \A z \in SeriesNames \ {s} : register'[z] = register[z]
    <3>1. register'[s] = Append(register[s], n)
      BY <1>1, <2>1 DEF Numbered, LedgerInv, TypeOK
    <3>2. \A m \in NumbersOf(s) : m \in Nat /\ m < n
      BY <1>1, <2>1, NumberedFacts, Zenon
    <3>3. \A z \in SeriesNames \ {s} : register'[z] = register[z]
      BY <1>1, <2>1, NumberedFacts, Zenon
    <3> QED BY <3>1, <3>2, <3>3
  <2>3. n \notin Ran(register[s])
    <3>1. NumbersOf(s) = Ran(register[s])
      BY DEF NumbersOf, Ran
    <3>2. ~(n < n)
      OBVIOUS
    <3> QED BY <2>2, <3>1, <3>2
  <2> QED BY <2>2, <2>3
<1>2. ASSUME NEW t \in Txs, Step(t)
      PROVE  UNCHANGED register \/ (HoldsCounter(tx[t]) /\ Numbered(t))
  <2>1. CASE CommitInvoice(t)
    BY <2>1, CommitInvoiceStep DEF CommitInvoice
  <2>2. CASE CommitCredit(t)
    BY <2>2, CommitCreditStep DEF CommitCredit
  <2>3. CASE CommitPayment(t)
    BY <2>3 DEF CommitPayment
  <2>4. CASE \/ BeginInvoice(t) \/ RollBack(t)
             \/ \E i \in Invoices, amount \in Amounts :
                   BeginPayment(t, i, amount) \/ BeginCredit(t, i, amount)
    BY <2>4 DEF BeginInvoice, RollBack, BeginPayment, BeginCredit, Begin, Continue
  <2>5. CASE TakeNumber(t) \/ ReadSeed(t) \/ InsertCounter(t) \/ PostPayment(t) \/ PostCredit(t)
    BY <2>5 DEF TakeNumber, ReadSeed, InsertCounter, PostPayment, PostCredit, Continue
  <2> QED BY <1>2, <2>1, <2>2, <2>3, <2>4, <2>5 DEF Step
<1>3. CASE Next
  BY <1>1, <1>2, <1>3 DEF Next
<1>4. CASE UNCHANGED vars
  BY <1>4 DEF vars
<1> QED BY <1>3, <1>4

\* A number appended is the last of a register one longer.
LEMMA Appended ==
    ASSUME NEW r \in Seq(Nat), NEW n \in Nat
    PROVE  /\ Len(Append(r, n)) = Len(r) + 1
           /\ Append(r, n)[Len(Append(r, n))] = n
OBVIOUS

\* Each series of the ledger is a register no two of whose documents bear one number:
\* the ledger's initial states map to the register's, its steps to an issue or a stutter.
THEOREM NumbersAreUnique == Spec => DocumentNumbers
<1>1. Init => InvoiceSeries!Init /\ CreditSeries!Init
  <2> SUFFICES ASSUME Init PROVE InvoiceSeries!Init /\ CreditSeries!Init
    OBVIOUS
  <2>1. register["INV"] \in Seq(Nat) /\ register["CRN"] \in Seq(Nat)
    BY InitInv DEF LedgerInv, TypeOK, SeriesNames
  <2>2. register["INV"] = [i \in Invoices |-> i] /\ register["CRN"] = <<>>
    BY DEF Init, SeriesNames
  <2> QED BY <2>1, <2>2 DEF InvoiceSeries!Init, CreditSeries!Init
<1>2. LedgerInv /\ [Next]_vars => [InvoiceSeries!Next]_(register["INV"])
  <2> SUFFICES ASSUME LedgerInv, [Next]_vars, register'["INV"] # register["INV"]
               PROVE  InvoiceSeries!Next
    OBVIOUS
  <2>1. PICK n \in Nat : /\ n \notin Ran(register["INV"])
                         /\ register'["INV"] = Append(register["INV"], n)
    BY RegisterStep DEF SeriesNames
  <2>2. register["INV"] \in Seq(Nat)
    BY DEF LedgerInv, TypeOK, SeriesNames
  <2>3. /\ Len(register'["INV"]) = Len(register["INV"]) + 1
        /\ register'["INV"][Len(register'["INV"])] = n
    BY <2>1, <2>2, Appended
  <2> QED BY <2>1, <2>3 DEF InvoiceSeries!Next, InvoiceSeries!Issue, Ran
<1>3. LedgerInv /\ [Next]_vars => [CreditSeries!Next]_(register["CRN"])
  <2> SUFFICES ASSUME LedgerInv, [Next]_vars, register'["CRN"] # register["CRN"]
               PROVE  CreditSeries!Next
    OBVIOUS
  <2>1. PICK n \in Nat : /\ n \notin Ran(register["CRN"])
                         /\ register'["CRN"] = Append(register["CRN"], n)
    BY RegisterStep DEF SeriesNames
  <2>2. register["CRN"] \in Seq(Nat)
    BY DEF LedgerInv, TypeOK, SeriesNames
  <2>3. /\ Len(register'["CRN"]) = Len(register["CRN"]) + 1
        /\ register'["CRN"][Len(register'["CRN"])] = n
    BY <2>1, <2>2, Appended
  <2> QED BY <2>1, <2>3 DEF CreditSeries!Next, CreditSeries!Issue, Ran
<1> QED BY <1>1, <1>2, <1>3, Invariance, PTL
        DEF Spec, DocumentNumbers, InvoiceSeries!Spec, CreditSeries!Spec

-----------------------------------------------------------------------------
(***************************************************************************)
(* Quotes.                                                                 *)
(***************************************************************************)

\* What a revision has read, and what a quote says it replaces, are quotes.
References ==
    /\ \A t \in Revisions : revising[t] <= Len(quotes)
    /\ \A q \in Quotes : quotes[q].supersedes <= Len(quotes)

QuotesInv == QuotesTypeOK /\ References /\ ReplacedIsRetired

-----------------------------------------------------------------------------
\* A new quote is a draft.
LEMMA NewQuoteFacts ==
    ASSUME NEW q \in 0..MaxQuotes
    PROVE  /\ NewQuote(q) \in Quote
           /\ NewQuote(q).supersedes = q
           /\ NewQuote(q).status = "draft"
BY DEF NewQuote, Quote, QuoteStatuses

\* What is in the table is a quote, and what it replaces is in the table.
LEMMA QuoteFacts ==
    ASSUME QuotesInv, NEW q \in Quotes
    PROVE  /\ quotes[q] \in Quote
           /\ quotes[q].supersedes \in 0..MaxQuotes
           /\ quotes[q].supersedes <= Len(quotes)
           /\ quotes[q].supersedes # 0 => quotes[q].supersedes \in Quotes
<1>1. quotes \in Seq(Quote) /\ Quotes = 1..Len(quotes)
  BY DEF QuotesInv, QuotesTypeOK, Quotes
<1>2. quotes[q] \in Quote
  BY <1>1
<1>3. quotes[q].supersedes \in 0..MaxQuotes
  BY <1>2 DEF Quote
<1>4. quotes[q].supersedes <= Len(quotes)
  BY DEF QuotesInv, References
<1> QED BY <1>1, <1>2, <1>3, <1>4

\* Expiry and retirement change nothing but the status.
LEMMA StatusFacts ==
    ASSUME NEW x \in Quote
    PROVE  /\ Expired(x) \in Quote
           /\ Expired(x).status = "expired"
           /\ Expired(x).supersedes = x.supersedes
           /\ Retired(x) \in Quote
           /\ Retired(x).status = "superseded"
           /\ Retired(x).supersedes = x.supersedes
BY DEF Expired, Retired, Quote, QuoteStatuses

\* Quotes that keep their ancestors and leave no superseded quote revived preserve
\* the invariant.
LEMMA QuotesChange ==
    ASSUME QuotesInv, UNCHANGED revising,
           quotes' \in Seq(Quote), Len(quotes') = Len(quotes),
           \A q \in Quotes :
              /\ quotes'[q].supersedes = quotes[q].supersedes
              /\ quotes[q].status = "superseded" => quotes'[q].status = "superseded"
    PROVE  QuotesInv'
<1>1. Quotes' = Quotes /\ Quotes = 1..Len(quotes)
  BY DEF QuotesInv, QuotesTypeOK, Quotes
<1>2. QuotesTypeOK'
  BY DEF QuotesInv, QuotesTypeOK
<1>3. References'
  BY <1>1 DEF QuotesInv, References
<1>4. ReplacedIsRetired'
  <2>1. \A q \in Quotes : quotes[q].supersedes # 0 => quotes[q].supersedes \in Quotes
    BY QuoteFacts
  <2> QED BY <1>1, <2>1 DEF QuotesInv, ReplacedIsRetired
<1> QED BY <1>2, <1>3, <1>4 DEF QuotesInv

\* An update of one quote is such a change.
LEMMA OneQuoteChanges ==
    ASSUME QuotesInv, UNCHANGED revising, NEW q \in Quotes, NEW x \in Quote,
           quotes' = [quotes EXCEPT ![q] = x],
           x.supersedes = quotes[q].supersedes,
           quotes[q].status = "superseded" => x.status = "superseded"
    PROVE  QuotesInv'
<1>1. quotes \in Seq(Quote)
  BY DEF QuotesInv, QuotesTypeOK
<1>2. /\ quotes' \in Seq(Quote) /\ Len(quotes') = Len(quotes)
      /\ quotes'[q] = x /\ \A r \in Quotes \ {q} : quotes'[r] = quotes[r]
  BY <1>1 DEF Quotes
<1> QED BY <1>2, QuotesChange

LEMMA CreateStep ==
    ASSUME QuotesInv, createQuote
    PROVE  QuotesInv'
<1> DEFINE n == Len(quotes) + 1
<1>1. quotes \in Seq(Quote) /\ n <= MaxQuotes /\ n \in Nat
  BY QuotesAssumption DEF QuotesInv, QuotesTypeOK, createQuote
<1>2. NewQuote(0) \in Quote /\ NewQuote(0).supersedes = 0 /\ NewQuote(0).status = "draft"
  BY NewQuoteFacts, QuotesAssumption
<1>3. /\ quotes' \in Seq(Quote) /\ Len(quotes') = n /\ revising' = revising
      /\ quotes'[n] = NewQuote(0) /\ \A q \in Quotes : quotes'[q] = quotes[q]
      /\ Quotes' = Quotes \cup {n}
  BY <1>1, <1>2 DEF createQuote, Quotes
<1>4. \A q \in Quotes : quotes[q].supersedes # 0 => quotes[q].supersedes \in Quotes
  BY QuoteFacts
<1>5. QuotesTypeOK'
  BY <1>1, <1>3 DEF QuotesInv, QuotesTypeOK
<1>6. References'
  <2>1. \A q \in Quotes : quotes[q].supersedes \in 0..MaxQuotes
    BY QuoteFacts
  <2>2. \A t \in Revisions : revising[t] \in 0..MaxQuotes
    BY DEF QuotesInv, QuotesTypeOK
  <2> QED BY <1>1, <1>2, <1>3, <2>1, <2>2 DEF QuotesInv, References
<1>7. ReplacedIsRetired'
  BY <1>2, <1>3, <1>4 DEF QuotesInv, ReplacedIsRetired
<1> QED BY <1>5, <1>6, <1>7 DEF QuotesInv

LEMMA QuoteStep ==
    ASSUME QuotesInv, NEW q \in Quotes,
           sendQuote(q) \/ Lapse(q) \/ \E decision \in Decisions : decideQuote(q, decision)
    PROVE  QuotesInv'
<1>1. quotes[q] \in Quote
  BY DEF QuotesInv, QuotesTypeOK, Quotes
<1>2. CASE sendQuote(q)
  <2> DEFINE x == [quotes[q] EXCEPT !.status = "sent", !.token = TRUE]
  <2>1. x \in Quote /\ x.supersedes = quotes[q].supersedes
    BY <1>1 DEF Quote, QuoteStatuses
  <2>2. quotes' = [quotes EXCEPT ![q] = x] /\ UNCHANGED revising /\ quotes[q].status = "draft"
    BY <1>2 DEF sendQuote
  <2> QED BY <2>1, <2>2, OneQuoteChanges
<1>3. CASE Lapse(q)
  <2> DEFINE x == [quotes[q] EXCEPT !.lapsed = TRUE]
  <2>1. x \in Quote /\ x.supersedes = quotes[q].supersedes /\ x.status = quotes[q].status
    BY <1>1 DEF Quote
  <2>2. quotes' = [quotes EXCEPT ![q] = x] /\ UNCHANGED revising
    BY <1>3 DEF Lapse
  <2> QED BY <2>1, <2>2, OneQuoteChanges
<1>4. ASSUME NEW decision \in Decisions, decideQuote(q, decision) PROVE QuotesInv'
  <2> DEFINE x == [quotes[q] EXCEPT !.status = decision, !.token = FALSE]
  <2>1. x \in Quote /\ x.supersedes = quotes[q].supersedes /\ x.status = decision
    BY <1>1 DEF Quote, QuoteStatuses, Decisions
  <2>2. quotes' = [quotes EXCEPT ![q] = x] /\ UNCHANGED revising /\ quotes[q].status = "sent"
    BY <1>4 DEF decideQuote
  <2> QED BY <2>1, <2>2, OneQuoteChanges
<1> QED BY <1>2, <1>3, <1>4

LEMMA ExpireStep ==
    ASSUME QuotesInv, expireStaleQuotes
    PROVE  QuotesInv'
<1>1. quotes \in Seq(Quote) /\ Quotes = 1..Len(quotes)
  BY DEF QuotesInv, QuotesTypeOK, Quotes
<1>2. \A q \in Quotes : /\ quotes[q] \in Quote /\ Expired(quotes[q]) \in Quote
                        /\ Expired(quotes[q]).supersedes = quotes[q].supersedes
                        /\ Expired(quotes[q]).status = "expired"
  BY QuoteFacts, StatusFacts
<1>3. quotes' \in Seq(Quote) /\ Len(quotes') = Len(quotes) /\ UNCHANGED revising
  BY <1>1, <1>2 DEF expireStaleQuotes
<1>4. \A q \in Quotes : quotes'[q] = IF Stale(q) THEN Expired(quotes[q]) ELSE quotes[q]
  BY DEF expireStaleQuotes
<1>5. \A q \in Quotes :
        /\ quotes'[q].supersedes = quotes[q].supersedes
        /\ quotes[q].status = "superseded" => quotes'[q].status = "superseded"
  BY <1>2, <1>4 DEF Stale
<1> QED BY <1>3, <1>5, QuotesChange

\* The retirement by id: whatever the ancestor has become since it was read, it
\* leaves the customer's reach in the same step as its successor appears.
LEMMA CommitReviseStep ==
    ASSUME QuotesInv, NEW t \in Revisions, CommitRevise(t)
    PROVE  QuotesInv'
<1> DEFINE q == revising[t]
           n == Len(quotes) + 1
           retired == [quotes EXCEPT ![q] = Retired(quotes[q])]
<1>1. quotes \in Seq(Quote) /\ Quotes = 1..Len(quotes) /\ n \in Nat /\ n <= MaxQuotes
  BY QuotesAssumption DEF QuotesInv, QuotesTypeOK, CommitRevise, Quotes
<1>2. q \in Quotes /\ q \in 0..MaxQuotes
  BY <1>1 DEF QuotesInv, QuotesTypeOK, References, CommitRevise
<1>3. /\ Retired(quotes[q]) \in Quote /\ Retired(quotes[q]).status = "superseded"
      /\ Retired(quotes[q]).supersedes = quotes[q].supersedes
  BY <1>2, QuoteFacts, StatusFacts
<1>4. NewQuote(q) \in Quote /\ NewQuote(q).supersedes = q /\ NewQuote(q).status = "draft"
  BY <1>2, NewQuoteFacts
<1>5. retired \in Seq(Quote) /\ Len(retired) = Len(quotes)
  BY <1>1, <1>2, <1>3
<1>6. quotes' = Append(retired, NewQuote(q)) /\ revising' = [revising EXCEPT ![t] = 0]
  BY DEF CommitRevise
<1>7. /\ quotes' \in Seq(Quote) /\ Len(quotes') = n /\ quotes'[n] = NewQuote(q)
      /\ \A r \in Quotes : quotes'[r] = retired[r]
      /\ Quotes' = Quotes \cup {n}
  BY <1>1, <1>4, <1>5, <1>6 DEF Quotes
<1>8. /\ quotes'[q] = Retired(quotes[q])
      /\ \A r \in Quotes \ {q} : quotes'[r] = quotes[r]
  BY <1>1, <1>2, <1>7
<1> HIDE DEF n, retired
<1>9. \A r \in Quotes : quotes[r].supersedes # 0 => quotes[r].supersedes \in Quotes
  BY QuoteFacts
<1>10. \A r \in Quotes : quotes'[r].supersedes = quotes[r].supersedes
  BY <1>3, <1>8
<1>11. QuotesTypeOK'
  <2>1. revising' \in [Revisions -> 0..MaxQuotes]
    BY <1>6, QuotesAssumption DEF QuotesInv, QuotesTypeOK
  <2> QED BY <1>1, <1>7, <2>1 DEF QuotesTypeOK
<1>12. References'
  <2>1. ASSUME NEW u \in Revisions PROVE revising'[u] <= n
    <3>1. revising'[u] = 0 \/ revising'[u] = revising[u]
      BY <1>6 DEF QuotesInv, QuotesTypeOK
    <3>2. revising[u] \in Nat /\ revising[u] <= Len(quotes)
      BY DEF QuotesInv, QuotesTypeOK, References
    <3> QED BY <1>1, <3>1, <3>2 DEF n
  <2>2. ASSUME NEW r \in Quotes' PROVE quotes'[r].supersedes <= n
    <3>1. CASE r = n
      BY <1>1, <1>2, <1>4, <1>7, <3>1 DEF n
    <3>2. CASE r \in Quotes
      <4>1. quotes[r].supersedes \in Nat /\ quotes[r].supersedes <= Len(quotes)
        BY <3>2, QuoteFacts
      <4> QED BY <1>1, <1>10, <3>2, <4>1 DEF n
    <3> QED BY <1>7, <3>1, <3>2
  <2> QED BY <1>7, <2>1, <2>2 DEF References
<1>13. ReplacedIsRetired'
  <2>1. ASSUME NEW r \in Quotes', quotes'[r].supersedes # 0
        PROVE  quotes'[quotes'[r].supersedes].status = "superseded"
    <3>1. CASE r = n
      BY <1>3, <1>4, <1>7, <1>8, <3>1
    <3>2. CASE r \in Quotes
      <4> DEFINE a == quotes[r].supersedes
      <4>1. quotes'[r].supersedes = a /\ a \in Quotes /\ quotes[a].status = "superseded"
        BY <1>9, <1>10, <2>1, <3>2 DEF QuotesInv, ReplacedIsRetired
      <4> QED BY <1>3, <1>8, <4>1
    <3> QED BY <1>7, <3>1, <3>2
  <2> QED BY <2>1 DEF ReplacedIsRetired
<1> QED BY <1>11, <1>12, <1>13 DEF QuotesInv

\* A revision that reads a quote, or is rolled back, writes no quote.
LEMMA RevisingStep ==
    ASSUME QuotesInv, NEW t \in Revisions, UNCHANGED quotes,
           NEW q \in Quotes \cup {0}, revising' = [revising EXCEPT ![t] = q]
    PROVE  QuotesInv'
<1>1. q \in Nat /\ q <= Len(quotes) /\ Len(quotes) <= MaxQuotes
  BY DEF QuotesInv, QuotesTypeOK, Quotes
<1>2. q \in 0..MaxQuotes /\ revising \in [Revisions -> 0..MaxQuotes]
  BY <1>1, QuotesAssumption DEF QuotesInv, QuotesTypeOK
<1>3. QuotesTypeOK'
  BY <1>2 DEF QuotesInv, QuotesTypeOK
<1>4. References'
  BY <1>1, <1>2 DEF QuotesInv, References, Quotes
<1>5. ReplacedIsRetired'
  BY DEF QuotesInv, ReplacedIsRetired, Quotes
<1> QED BY <1>3, <1>4, <1>5 DEF QuotesInv

-----------------------------------------------------------------------------
LEMMA QuotesInitStep == QuotesInit => QuotesInv
<1> SUFFICES ASSUME QuotesInit PROVE QuotesInv
  OBVIOUS
<1>1. quotes = <<>> /\ Len(quotes) = 0 /\ Quotes = {}
  BY DEF QuotesInit, Quotes
<1>2. QuotesTypeOK
  BY <1>1, QuotesAssumption DEF QuotesInit, QuotesTypeOK
<1>3. References /\ ReplacedIsRetired
  BY <1>1 DEF QuotesInit, References, ReplacedIsRetired
<1> QED BY <1>2, <1>3 DEF QuotesInv

LEMMA QuotesNextStep == QuotesInv /\ [QuotesNext]_quoteVars => QuotesInv'
<1> SUFFICES ASSUME QuotesInv, [QuotesNext]_quoteVars PROVE QuotesInv'
  OBVIOUS
<1>1. CASE createQuote
  BY <1>1, CreateStep
<1>2. ASSUME NEW q \in Quotes,
             sendQuote(q) \/ Lapse(q) \/ \E decision \in Decisions : decideQuote(q, decision)
      PROVE  QuotesInv'
  BY <1>2, QuoteStep
<1>3. CASE expireStaleQuotes
  BY <1>3, ExpireStep
<1>4. ASSUME NEW t \in Revisions, NEW q \in Quotes, BeginRevise(t, q) PROVE QuotesInv'
  BY <1>4, RevisingStep DEF BeginRevise
<1>5. ASSUME NEW t \in Revisions, CommitRevise(t) PROVE QuotesInv'
  BY <1>5, CommitReviseStep
<1>6. ASSUME NEW t \in Revisions, DropRevision(t) PROVE QuotesInv'
  BY <1>6, RevisingStep DEF DropRevision
<1>7. CASE UNCHANGED quoteVars
  BY <1>7 DEF quoteVars, QuotesInv, QuotesTypeOK, References, ReplacedIsRetired, Quotes
<1> QED BY <1>1, <1>2, <1>3, <1>4, <1>5, <1>6, <1>7 DEF QuotesNext

\* QuotesInv holds in every reachable state: besides the types and the property
\* below, that references stay inside the table.
THEOREM QuotesInvariance == QuotesSpec => []QuotesInv
BY QuotesInitStep, QuotesNextStep, PTL DEF QuotesSpec

\* Quotes and open revisions keep their types (createQuote to reviseQuote).
THEOREM QuotesTypeCorrect == QuotesSpec => []QuotesTypeOK
<1>1. QuotesInv => QuotesTypeOK
  BY DEF QuotesInv
<1> QED BY <1>1, QuotesInvariance, PTL

\* However many revisions overlap with sending, deciding and expiring, a version
\* that has a successor is superseded (reviseQuote's last UPDATE).
THEOREM ReplacedStaysRetired == QuotesSpec => []ReplacedIsRetired
<1>1. QuotesInv => ReplacedIsRetired
  BY DEF QuotesInv
<1> QED BY <1>1, QuotesInvariance, PTL

-----------------------------------------------------------------------------
\* A decision yields to a revision alone, and one that has read the quote.
DecisionKept(q) ==
    /\ quotes[q].status \in Decisions
          => quotes'[q].status \in {quotes[q].status, "superseded"}
    /\ quotes[q].status = "approved" /\ q \notin UnderRevision
          => quotes'[q].status = "approved" /\ q \notin UnderRevision'
    /\ quotes[q].status \in {"expired", "superseded"}
          => quotes'[q].status \notin Decisions

LEMMA DecisionStep ==
    ASSUME QuotesInv, [QuotesNext]_quoteVars, NEW r \in Quotes
    PROVE  DecisionKept(r)
<1>1. quotes \in Seq(Quote) /\ quotes[r] \in Quote /\ r # 0
  BY DEF QuotesInv, QuotesTypeOK, Quotes
<1>2. revising \in [Revisions -> 0..MaxQuotes]
  BY DEF QuotesInv, QuotesTypeOK
<1>3. ASSUME UNCHANGED revising, quotes'[r].status = quotes[r].status
      PROVE  DecisionKept(r)
  BY <1>3 DEF DecisionKept, UnderRevision, Decisions
<1>4. CASE createQuote
  <2>1. UNCHANGED revising /\ quotes'[r] = quotes[r]
    BY <1>1, <1>4 DEF createQuote, Quotes
  <2> QED BY <1>3, <2>1
<1>5. ASSUME NEW q \in Quotes, sendQuote(q) PROVE DecisionKept(r)
  <2> DEFINE x == [quotes[q] EXCEPT !.status = "sent", !.token = TRUE]
  <2>0. quotes[q] \in Quote /\ x.status = "sent"
    BY QuoteFacts DEF Quote
  <2>1. UNCHANGED revising /\ quotes[q].status = "draft" /\ quotes'[q].status = "sent"
    BY <1>1, <1>5, <2>0 DEF sendQuote, Quotes
  <2>2. r # q => quotes'[r] = quotes[r]
    BY <1>1, <1>5 DEF sendQuote, Quotes
  <2> QED BY <1>3, <2>1, <2>2 DEF DecisionKept, Decisions
<1>6. ASSUME NEW q \in Quotes, Lapse(q) PROVE DecisionKept(r)
  <2>1. UNCHANGED revising /\ quotes'[r].status = quotes[r].status
    BY <1>1, <1>6 DEF Lapse, Quotes, Quote
  <2> QED BY <1>3, <2>1
<1>7. ASSUME NEW q \in Quotes, NEW decision \in Decisions, decideQuote(q, decision)
      PROVE  DecisionKept(r)
  <2>1. UNCHANGED revising /\ quotes[q].status = "sent"
    BY <1>7 DEF decideQuote
  <2>2. r # q => quotes'[r] = quotes[r]
    BY <1>1, <1>7 DEF decideQuote, Quotes
  <2> QED BY <1>3, <2>1, <2>2 DEF DecisionKept, Decisions
<1>8. CASE expireStaleQuotes
  <2>1. UNCHANGED revising
        /\ quotes'[r] = IF Stale(r) THEN Expired(quotes[r]) ELSE quotes[r]
    BY <1>8 DEF expireStaleQuotes
  <2>2. CASE Stale(r)
    BY <2>2 DEF Stale, DecisionKept, Decisions
  <2> QED BY <1>3, <2>1, <2>2
<1>9. ASSUME NEW t \in Revisions, CommitRevise(t) PROVE DecisionKept(r)
  <2> DEFINE q == revising[t]
             retired == [quotes EXCEPT ![q] = Retired(quotes[q])]
  <2>1. q \in Quotes /\ q \in UnderRevision
    BY <1>1, <1>2, <1>9 DEF QuotesInv, References, CommitRevise, Quotes, UnderRevision
  <2>2. Retired(quotes[q]) \in Quote /\ Retired(quotes[q]).status = "superseded"
    BY <2>1, QuoteFacts, StatusFacts
  <2>3. /\ retired \in Seq(Quote) /\ Len(retired) = Len(quotes)
        /\ retired[r] = IF r = q THEN Retired(quotes[q]) ELSE quotes[r]
    BY <1>1, <2>1, <2>2 DEF Quotes
  <2>4. quotes' = Append(retired, NewQuote(q)) /\ revising' = [revising EXCEPT ![t] = 0]
    BY <1>9 DEF CommitRevise
  <2> HIDE DEF retired
  <2>5. quotes'[r] = retired[r]
    BY <1>1, <2>3, <2>4 DEF Quotes
  <2>6. r \notin UnderRevision => r \notin UnderRevision'
    BY <1>1, <1>2, <2>4 DEF UnderRevision
  <2>7. CASE r = q
    BY <2>1, <2>2, <2>3, <2>5, <2>7 DEF DecisionKept, Decisions
  <2>8. CASE r # q
    BY <2>3, <2>5, <2>6, <2>8 DEF DecisionKept, Decisions
  <2> QED BY <2>7, <2>8
<1>10. ASSUME NEW t \in Revisions, NEW q \in Quotes, BeginRevise(t, q) PROVE DecisionKept(r)
  <2>1. UNCHANGED quotes /\ quotes[q].status # "approved" /\ revising' = [revising EXCEPT ![t] = q]
    BY <1>10 DEF BeginRevise, Revisable
  <2>2. quotes[r].status = "approved" /\ r \notin UnderRevision => r \notin UnderRevision'
    BY <1>2, <2>1 DEF UnderRevision
  <2> QED BY <2>1, <2>2 DEF DecisionKept, Decisions
<1>11. ASSUME NEW t \in Revisions, DropRevision(t) PROVE DecisionKept(r)
  <2>1. UNCHANGED quotes /\ revising' = [revising EXCEPT ![t] = 0]
    BY <1>11 DEF DropRevision
  <2>2. r \notin UnderRevision => r \notin UnderRevision'
    BY <1>1, <1>2, <2>1 DEF UnderRevision
  <2> QED BY <2>1, <2>2 DEF DecisionKept, Decisions
<1>12. CASE UNCHANGED quoteVars
  BY <1>3, <1>12 DEF quoteVars
<1> QED BY <1>4, <1>5, <1>6, <1>7, <1>8, <1>9, <1>10, <1>11, <1>12 DEF QuotesNext

\* "A decided quote cannot be flipped later", by a second answer or the nightly
\* expiry, and an approval is lost only to a revision that had read the quote
\* before: reviseQuote begins on no approved quote and retires what it has read.
THEOREM DecisionsStand == QuotesSpec => DecisionStands
<1>1. QuotesInv /\ [QuotesNext]_quoteVars => [\A q \in Quotes : DecisionKept(q)]_quoteVars
  BY DecisionStep
<1> QED BY <1>1, QuotesInvariance, PTL DEF QuotesSpec, DecisionStands, DecisionKept
=============================================================================
