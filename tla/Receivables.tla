----------------------------- MODULE Receivables -----------------------------
(***************************************************************************)
(* Invoices, payments and credit notes: createInvoiceFromJob,              *)
(* recordPayment and issueCreditNote, the numbers app_next_reference draws *)
(* for them, and the two reports of what is owed.                          *)
(*                                                                         *)
(* The office runs these in transactions at READ COMMITTED.  A SELECT sees *)
(* what is committed and locks nothing; the counter of a series and an     *)
(* invoice are locked by the UPDATE that writes them until the commit.     *)
(*                                                                         *)
(* Left out: the lines of a document, its VAT and discount, its dates and  *)
(* its parties.  Every invoice is for Total.  Nothing in the code writes a *)
(* debt off or deletes a document, a payment or a note.                    *)
(***************************************************************************)
EXTENDS Integers, Sequences

CONSTANTS
    Txs,            \* BOUND: transactions open at once
    Total,          \* what an invoice charges
    Amounts,        \* the sums paid or credited at once
    MaxInvoices,    \* BOUND: invoices raised
    MaxNumber,      \* BOUND: the last number a series reaches
    MaxReceived     \* BOUND: what is paid against one invoice

ASSUME ReceivablesAssumption ==
    /\ Total \in Nat \ {0}
    /\ Amounts \subseteq Nat \ {0}
    /\ MaxInvoices \in Nat
    /\ MaxNumber \in Nat
    /\ MaxReceived \in Nat

VARIABLES
    invoices,   \* the invoices, in the order they were committed
    register,   \* the numbers on the committed documents of each series
    counter,    \* reference_counters.last_value; 0 where there is no row
    tx          \* the open transactions

vars == <<invoices, register, counter, tx>>

-----------------------------------------------------------------------------
SeriesNames == {"INV", "CRN"}

NumbersOf(s) == {register[s][k] : k \in DOMAIN register[s]}

\* A mutant of the next: a series without a branch.
ZeroSeed(s) == {0}

\* Where a series starts: at the largest number stored.  The function has a
\* branch for invoices, and none for credit notes, which nothing seeds.
SeedsOf(s) ==
    IF s = "INV"
    THEN {n \in NumbersOf(s) \cup {0} : \A m \in NumbersOf(s) : m <= n}
    ELSE {0}

Statuses == {"issued", "part_paid", "paid", "credited"}

\* `paid` is invoices.amount_paid; `received` and `credited` are the sums of the
\* payment rows and of the credit-note rows that name the invoice.
Invoice == [status : Statuses, paid : Nat, received : Nat, credited : Nat]

NewInvoice == [status |-> "issued", paid |-> 0, received |-> 0, credited |-> 0]

Invoices == DOMAIN invoices

-----------------------------------------------------------------------------
(* Transactions.  `read` is the amount_paid, or the credits, a transaction  *)
(* has read; `number` the seed and then the number it has drawn.            *)

Pcs == {"idle", "allocating", "seeding", "numbered", "paying", "posted"}

Tx == [pc : Pcs, op : {"none", "invoice", "payment", "credit"},
       invoice : Nat, amount : Nat, read : Nat, number : Nat]

Idle == [pc |-> "idle", op |-> "none", invoice |-> 0, amount |-> 0, read |-> 0, number |-> 0]

SeriesOf(x) == IF x.op = "invoice" THEN "INV" ELSE "CRN"

\* Whose counter row, and whose invoice row, a transaction holds.
HoldsCounter(x) == x.op \in {"invoice", "credit"} /\ x.pc \in {"numbered", "posted"}
HoldsInvoice(x) == x.pc = "posted"

CounterFree(t) ==
    \A q \in Txs \ {t} : HoldsCounter(tx[q]) => SeriesOf(tx[q]) # SeriesOf(tx[t])

InvoiceFree(t) ==
    \A q \in Txs \ {t} : HoldsInvoice(tx[q]) => tx[q].invoice # tx[t].invoice

Begin(t, x) ==
    /\ tx[t].pc = "idle"
    /\ tx' = [tx EXCEPT ![t] = x]
    /\ UNCHANGED <<invoices, register, counter>>

Continue(t, x) ==
    /\ tx' = [tx EXCEPT ![t] = x]
    /\ UNCHANGED <<invoices, register, counter>>

-----------------------------------------------------------------------------
\* The office may start on invoices the demo data holds, numbered by hand and
\* with no counter yet.
Init ==
    /\ invoices \in {<<>>, <<NewInvoice>>}
    /\ register = [s \in SeriesNames |-> IF s = "INV" THEN [i \in Invoices |-> i] ELSE <<>>]
    /\ counter = [s \in SeriesNames |-> 0]
    /\ tx = [t \in Txs |-> Idle]

(***************************************************************************)
(* nextReference: app_next_reference.                                      *)
(***************************************************************************)

\* A mutant of the next: the next number is read, not taken by an UPDATE.
ReadNumber(t) ==
    LET s == SeriesOf(tx[t]) IN
    /\ tx[t].pc = "allocating"
    /\ counter[s] # 0
    /\ counter[s] < MaxNumber
    /\ Continue(t, [tx[t] EXCEPT !.pc = "numbered", !.number = counter[s] + 1])

\* UPDATE reference_counters SET last_value = last_value + 1 ... RETURNING.
TakeNumber(t) ==
    LET s == SeriesOf(tx[t]) IN
    /\ tx[t].pc = "allocating"
    /\ CounterFree(t)
    /\ counter[s] # 0
    /\ counter[s] < MaxNumber
    /\ Continue(t, [tx[t] EXCEPT !.pc = "numbered", !.number = counter[s] + 1])

\* The UPDATE found no committed row: the seed is read ...
ReadSeed(t) ==
    LET s == SeriesOf(tx[t]) IN
    /\ tx[t].pc = "allocating"
    /\ counter[s] = 0
    /\ \E seed \in SeedsOf(s) :
          Continue(t, [tx[t] EXCEPT !.pc = "seeding", !.number = seed])

\* ... and the row inserted, ON CONFLICT DO UPDATE SET last_value + 1.
InsertCounter(t) ==
    LET s    == SeriesOf(tx[t])
        last == IF counter[s] = 0 THEN tx[t].number ELSE counter[s]
    IN  /\ tx[t].pc = "seeding"
        /\ CounterFree(t)
        /\ last < MaxNumber
        /\ Continue(t, [tx[t] EXCEPT !.pc = "numbered", !.number = last + 1])

Numbered(t) ==
    LET s == SeriesOf(tx[t]) IN
    /\ register' = [register EXCEPT ![s] = Append(@, tx[t].number)]
    /\ counter' = [counter EXCEPT ![s] = tx[t].number]

(***************************************************************************)
(* createInvoiceFromJob, for a signed-off job.  Nothing refuses a second   *)
(* invoice for it.                                                         *)
(***************************************************************************)
BeginInvoice(t) == Begin(t, [Idle EXCEPT !.pc = "allocating", !.op = "invoice"])

CommitInvoice(t) ==
    /\ tx[t].op = "invoice"
    /\ tx[t].pc = "numbered"
    /\ Len(invoices) < MaxInvoices
    /\ invoices' = Append(invoices, NewInvoice)
    /\ Numbered(t)
    /\ tx' = [tx EXCEPT ![t] = Idle]

(***************************************************************************)
(* recordPayment.                                                          *)
(***************************************************************************)
BeginPayment(t, i, amount) ==
    /\ invoices[i].received + amount <= MaxReceived
    /\ Begin(t, [Idle EXCEPT !.pc = "paying", !.op = "payment", !.invoice = i,
                             !.amount = amount, !.read = invoices[i].paid])

\* UPDATE invoices SET amount_paid = ..., status = ... WHERE id.
PostPayment(t) ==
    /\ tx[t].pc = "paying"
    /\ InvoiceFree(t)
    /\ Continue(t, [tx[t] EXCEPT !.pc = "posted"])

\* A mutant of the next: settled by what has been paid or credited so far.
StatusAfterCredit(amountPaid) == IF amountPaid + 1 >= Total THEN "paid" ELSE "part_paid"

StatusAfter(amountPaid) == IF amountPaid >= Total THEN "paid" ELSE "part_paid"

\* A mutant of the next: the payment is taken off.
PaidLess(x) == x.read - x.amount

\* A mutant of the next: the payment is added twice over.
PaidTwice(x) == x.read + 2 * x.amount

\* The new amount_paid, from the one read and not from the one stored.
AmountPaid(x) == x.read + x.amount

WithPayment(inv, x) ==
    [inv EXCEPT !.paid = AmountPaid(x),
                !.status = StatusAfter(AmountPaid(x)),
                !.received = inv.received + x.amount]

CommitPayment(t) ==
    LET x == tx[t] IN
    /\ x.op = "payment"
    /\ x.pc = "posted"
    /\ invoices' = [invoices EXCEPT ![x.invoice] = WithPayment(@, x)]
    /\ tx' = [tx EXCEPT ![t] = Idle]
    /\ UNCHANGED <<register, counter>>

(***************************************************************************)
(* issueCreditNote.                                                        *)
(***************************************************************************)

\* "Crediting more than was charged": refused, on the credits committed so far.
BeginCredit(t, i, amount) ==
    /\ invoices[i].credited + amount <= Total
    /\ Begin(t, [Idle EXCEPT !.pc = "allocating", !.op = "credit", !.invoice = i,
                             !.amount = amount, !.read = invoices[i].credited])

\* A mutant of the next: any credit, not a full one, closes the invoice.
AnyCredit(x) == TRUE

FullCredit(x) == x.read + x.amount >= Total

\* A full credit writes the invoice's status; a partial one leaves the row alone.
PostCredit(t) ==
    /\ tx[t].op = "credit"
    /\ tx[t].pc = "numbered"
    /\ FullCredit(tx[t])
    /\ InvoiceFree(t)
    /\ Continue(t, [tx[t] EXCEPT !.pc = "posted"])

WithCredit(inv, x) ==
    [inv EXCEPT !.credited = inv.credited + x.amount,
                !.status = IF FullCredit(x) THEN "credited" ELSE inv.status]

CommitCredit(t) ==
    LET x == tx[t] IN
    /\ x.op = "credit"
    /\ x.pc = IF FullCredit(x) THEN "posted" ELSE "numbered"
    /\ invoices' = [invoices EXCEPT ![x.invoice] = WithCredit(@, x)]
    /\ Numbered(t)
    /\ tx' = [tx EXCEPT ![t] = Idle]

\* A refusal, a lost connection or a deadlock undoes a transaction; the number
\* it drew is skipped or drawn again.
RollBack(t) ==
    /\ tx[t].pc # "idle"
    /\ Continue(t, Idle)

-----------------------------------------------------------------------------
Step(t) ==
    \/ BeginInvoice(t) \/ CommitInvoice(t)
    \/ \E i \in Invoices, amount \in Amounts : BeginPayment(t, i, amount) \/ BeginCredit(t, i, amount)
    \/ TakeNumber(t) \/ ReadSeed(t) \/ InsertCounter(t)
    \/ PostPayment(t) \/ CommitPayment(t)
    \/ PostCredit(t) \/ CommitCredit(t)
    \/ RollBack(t)

Next == \E t \in Txs : Step(t)

Spec == Init /\ [][Next]_vars

-----------------------------------------------------------------------------
(* What is owed on an invoice, as two reports have it.                     *)

AtLeastZero(n) == IF n > 0 THEN n ELSE 0

\* A mutant of the next: a part-credited invoice leaves the report.
OpenUncredited(inv) ==
    IF inv.status \in {"paid", "credited"} \/ inv.credited > 0 THEN 0
    ELSE AtLeastZero(Total - inv.paid - inv.credited)

\* openReceivables, and the ageing and the credit position folded from it.
OpenReceivable(inv) ==
    IF inv.status \in {"paid", "credited"} THEN 0
    ELSE AtLeastZero(Total - inv.paid - inv.credited)

\* statementAgeing, from the payments and the notes themselves.
StatementBalance(inv) == AtLeastZero(Total - inv.received - inv.credited)

-----------------------------------------------------------------------------
(* Properties.                                                             *)

\* The types of the variables.
TypeOK ==
    /\ invoices \in Seq(Invoice)
    /\ register \in [SeriesNames -> Seq(Nat)]
    /\ counter \in [SeriesNames -> Nat]
    /\ tx \in [Txs -> Tx]

\* However allocations, first allocations and roll-backs interleave, each series
\* is a register no two of whose documents bear one number.
InvoiceSeries == INSTANCE DocumentSeries WITH register <- register["INV"]
CreditSeries  == INSTANCE DocumentSeries WITH register <- register["CRN"]

DocumentNumbers == InvoiceSeries!Spec /\ CreditSeries!Spec

\* "'paid' can never disagree with the sum of the payments", in the direction
\* that holds: an invoice is settled only by money that was received.
PaidIsCovered ==
    \A i \in Invoices :
        /\ invoices[i].status = "paid" => invoices[i].received >= Total
        /\ invoices[i].paid <= invoices[i].received

\* Debt does not drop out of collections: what the statement asks the customer
\* for is, invoice by invoice, in the receivables the office chases.
StatementIsChased ==
    \A i \in Invoices : OpenReceivable(invoices[i]) >= StatementBalance(invoices[i])

\* "'paid' can never disagree with the sum of the payments": the amount stored
\* on the invoice is the sum of its payments.
PaidIsSumOfPayments ==
    \A i \in Invoices : invoices[i].paid = invoices[i].received

\* "Crediting more than was charged reverses output tax that was never declared."
NeverOverCredited ==
    \A i \in Invoices : invoices[i].credited <= Total
=============================================================================
