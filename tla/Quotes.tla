-------------------------------- MODULE Quotes --------------------------------
(***************************************************************************)
(* The quotes of one job and their revisions: createQuote, sendQuote,      *)
(* decideQuote, reviseQuote and the nightly expireStaleQuotes.             *)
(*                                                                         *)
(* A quote is sent, decided and expired by one UPDATE that looks at the    *)
(* status it changes, so each of these is one step.  A revision reads the  *)
(* status, draws a number, writes the new quote and then retires the old   *)
(* one by its id alone: it is two steps, with everything else between.     *)
(*                                                                         *)
(* Left out: lines, prices and discounts, the number (Receivables draws it *)
(* the same way), the printed document, and the columns that keep when and *)
(* why the customer decided (decided_at, rejection_reason): the decision   *)
(* that the program reads is the status.  No code sets `viewed`.           *)
(***************************************************************************)
EXTENDS Naturals, Sequences

CONSTANTS
    Revisions,      \* BOUND: revisions in progress at once
    MaxQuotes       \* BOUND: quotes raised

ASSUME QuotesAssumption == MaxQuotes \in Nat

VARIABLES
    quotes,     \* in the order they were committed
    revising    \* the quote each open revision has read; 0: none

quoteVars == <<quotes, revising>>

-----------------------------------------------------------------------------
QuoteStatuses == {"draft", "sent", "approved", "rejected", "expired", "superseded"}
Decisions     == {"approved", "rejected"}

\* REVISABLE_QUOTE_STATUSES
Revisable == {"draft", "sent", "rejected", "expired"}

Quote == [status     : QuoteStatuses,
          supersedes : 0..MaxQuotes,
          token      : BOOLEAN,     \* approval_token_hash is set
          lapsed     : BOOLEAN]     \* valid_until is past

NewQuote(supersedes) ==
    [status |-> "draft", supersedes |-> supersedes, token |-> FALSE, lapsed |-> FALSE]

Quotes == DOMAIN quotes

QuotesInit ==
    /\ quotes = <<>>
    /\ revising = [t \in Revisions |-> 0]

-----------------------------------------------------------------------------
createQuote ==
    /\ Len(quotes) < MaxQuotes
    /\ quotes' = Append(quotes, NewQuote(0))
    /\ UNCHANGED revising

sendQuote(q) ==
    /\ quotes[q].status = "draft"
    /\ quotes' = [quotes EXCEPT ![q].status = "sent", ![q].token = TRUE]
    /\ UNCHANGED revising

\* A mutant of the next: the decision is recorded by id.
DecideAnyQuote(q, decision) ==
    /\ quotes[q].status # "draft"
    /\ quotes' = [quotes EXCEPT ![q].status = decision, ![q].token = FALSE]
    /\ UNCHANGED revising

\* Whether the quote has lapsed is not asked: that is for expireStaleQuotes.
decideQuote(q, decision) ==
    /\ quotes[q].status = "sent"
    /\ quotes' = [quotes EXCEPT ![q].status = decision, ![q].token = FALSE]
    /\ UNCHANGED revising

Lapse(q) ==
    /\ ~quotes[q].lapsed
    /\ quotes' = [quotes EXCEPT ![q].lapsed = TRUE]
    /\ UNCHANGED revising

Stale(q) == quotes[q].status = "sent" /\ quotes[q].lapsed

\* A mutant of the next: the status of an invoice past its due date.
Overdue(quote) == [quote EXCEPT !.status = "overdue"]

Expired(quote) == [quote EXCEPT !.status = "expired"]

expireStaleQuotes ==
    /\ \E q \in Quotes : Stale(q)
    /\ quotes' = [q \in Quotes |-> IF Stale(q) THEN Expired(quotes[q]) ELSE quotes[q]]
    /\ UNCHANGED revising

(***************************************************************************)
(* reviseQuote.                                                            *)
(***************************************************************************)
BeginRevise(t, q) ==
    /\ revising[t] = 0
    /\ quotes[q].status \in Revisable
    /\ revising' = [revising EXCEPT ![t] = q]
    /\ UNCHANGED quotes

\* A mutant of the next: a decision taken in between is respected by leaving
\* the decided quote as it is.
Retire(quote) ==
    IF quote.status \in Decisions THEN quote ELSE [quote EXCEPT !.status = "superseded"]

\* UPDATE quotes SET status = 'superseded' WHERE id.
Retired(quote) == [quote EXCEPT !.status = "superseded"]

CommitRevise(t) ==
    LET q == revising[t] IN
    /\ q # 0
    /\ Len(quotes) < MaxQuotes
    /\ quotes' = Append([quotes EXCEPT ![q] = Retired(@)], NewQuote(q))
    /\ revising' = [revising EXCEPT ![t] = 0]

DropRevision(t) ==
    /\ revising[t] # 0
    /\ revising' = [revising EXCEPT ![t] = 0]
    /\ UNCHANGED quotes

-----------------------------------------------------------------------------
QuotesNext ==
    \/ createQuote
    \/ \E q \in Quotes :
          \/ sendQuote(q) \/ Lapse(q)
          \/ \E decision \in Decisions : decideQuote(q, decision)
    \/ expireStaleQuotes
    \/ \E t \in Revisions :
          \/ \E q \in Quotes : BeginRevise(t, q)
          \/ CommitRevise(t)
          \/ DropRevision(t)

QuotesSpec == QuotesInit /\ [][QuotesNext]_quoteVars

-----------------------------------------------------------------------------
(* Properties.                                                             *)

\* The types of the variables.
QuotesTypeOK ==
    /\ quotes \in Seq(Quote)
    /\ Len(quotes) <= MaxQuotes
    /\ revising \in [Revisions -> 0..MaxQuotes]

\* A version that has been replaced is out of the customer's reach: whatever the
\* customer, the clock and a second revision do meanwhile, it is superseded.
ReplacedIsRetired ==
    \A q \in Quotes : quotes[q].supersedes # 0 =>
        quotes[quotes[q].supersedes].status = "superseded"

\* The quotes an open revision has read and means to retire.
UnderRevision == {revising[t] : t \in Revisions}

\* What the customer decided is lost only to a revision that read the quote
\* before: "a decided quote cannot be flipped later", it can be superseded at
\* most; an approval that no revision was under way for stands, and none begins
\* on it; and a quote that has lapsed or was replaced is not decided any more.
\* That the revision under way does supersede an approval is ApprovalStands.
DecisionStands ==
    [][\A q \in Quotes :
          /\ quotes[q].status \in Decisions
                => quotes'[q].status \in {quotes[q].status, "superseded"}
          /\ quotes[q].status = "approved" /\ q \notin UnderRevision
                => quotes'[q].status = "approved" /\ q \notin UnderRevision'
          /\ quotes[q].status \in {"expired", "superseded"}
                => quotes'[q].status \notin Decisions]_quoteVars

\* Fails, and no run checks it: "`approved` is refused outright ... An approved
\* quote is what the customer agreed to pay", so it stays approved.  A revision
\* that read `sent` retires by id what was approved meanwhile.
ApprovalStands ==
    [][\A q \in Quotes : quotes[q].status = "approved" => quotes'[q].status = "approved"]_quoteVars

\* Fails, and no run checks it: "Revising it again would let two later quotes both
\* claim to replace the same ancestor, silently forking history."
NoFork ==
    \A q, r \in Quotes :
        quotes[q].supersedes # 0 /\ quotes[q].supersedes = quotes[r].supersedes => q = r
=============================================================================
