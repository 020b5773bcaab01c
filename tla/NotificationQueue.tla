--------------------------- MODULE NotificationQueue ---------------------------
(***************************************************************************)
(* The outgoing notifications of one tenant: enqueue, dispatchPending and  *)
(* stuckNotifications, with dispatchers that run at once and may die.      *)
(*                                                                         *)
(* A dispatcher claims rows by moving them to `sending` in one UPDATE, and *)
(* sends and marks them one by one, each outside of any transaction that   *)
(* holds them.  The timer's dispatcher and some pages send with the        *)
(* transport that is configured; other pages use dispatchPending's own     *)
(* default, which logs.                                                    *)
(*                                                                         *)
(* Left out: templates and addresses, the order and the limit of a claim   *)
(* (any of the rows may be claimed), and who asks for a notification.      *)
(***************************************************************************)
EXTENDS Naturals

CONSTANTS
    Notifications,      \* rows
    Timers,             \* dispatchers with the configured transport
    Pages,              \* dispatchers with the default transport
    None,
    MaxAttempts,        \* MAX_ATTEMPTS
    MaxFaults           \* BOUND: dispatchers that die

ASSUME NotificationQueueAssumption ==
    /\ MaxAttempts \in Nat \ {0}
    /\ MaxFaults \in Nat

VARIABLES
    queue,          \* the table: status and attempts of each row
    provider,       \* for each row, the requests made and whether one was taken
    dispatchers,    \* what each dispatcher has claimed, and is doing
    faults          \* dispatchers that have died

vars == <<queue, provider, dispatchers, faults>>

-----------------------------------------------------------------------------
Dispatchers == Timers \cup Pages

Statuses == {"none", "queued", "sending", "sent", "failed"}

Row == [status : Statuses, attempts : 0..MaxAttempts]

Provider == [asked : 0..MaxAttempts, taken : BOOLEAN]

\* DeliveryResult; what is thrown is made a retryable failure.  "unsupported" is
\* answered without asking.
Results == {"ok", "retry", "refused", "unsupported"}

\* `claimed` is what is still to be sent; `at` is sent and not marked, with `result`.
Dispatcher == [claimed : SUBSET Notifications, at : Notifications \cup {None},
               result : Results \cup {None}]

Idle == [claimed |-> {}, at |-> None, result |-> None]

Busy(d) == dispatchers[d].claimed # {} \/ dispatchers[d].at # None

Holds(d, n) == n \in dispatchers[d].claimed \/ n = dispatchers[d].at

Init ==
    /\ queue = [n \in Notifications |-> [status |-> "none", attempts |-> 0]]
    /\ provider = [n \in Notifications |-> [asked |-> 0, taken |-> FALSE]]
    /\ dispatchers = [d \in Dispatchers |-> Idle]
    /\ faults = 0

-----------------------------------------------------------------------------
\* The transaction that created what is announced commits.
enqueue(n) ==
    /\ queue[n].status = "none"
    /\ queue' = [queue EXCEPT ![n].status = "queued"]
    /\ UNCHANGED <<provider, dispatchers, faults>>

\* Mutants of the next: a row is claimed while it is being sent, as one that was
\* stranded would be; only once; or however often it was tried.
EvenSending(n) ==
    /\ queue[n].status \in {"queued", "failed", "sending"}
    /\ queue[n].attempts < MaxAttempts

OnlyQueued(n) == queue[n].status = "queued" /\ queue[n].attempts < MaxAttempts

EvenExhausted(n) == queue[n].status \in {"queued", "failed"}

Claimable(n) ==
    /\ queue[n].status \in {"queued", "failed"}
    /\ queue[n].attempts < MaxAttempts

\* UPDATE ... WHERE id IN (SELECT ... FOR UPDATE SKIP LOCKED).
Claim(d, rows) ==
    /\ ~Busy(d)
    /\ rows # {}
    /\ \A n \in rows : Claimable(n)
    /\ queue' = [n \in Notifications |->
          IF n \in rows THEN [status |-> "sending", attempts |-> queue[n].attempts + 1]
          ELSE queue[n]]
    /\ dispatchers' = [dispatchers EXCEPT ![d].claimed = rows]
    /\ UNCHANGED <<provider, faults>>

Sent(d, n, result) ==
    /\ dispatchers[d].at = None
    /\ n \in dispatchers[d].claimed
    /\ dispatchers' = [dispatchers EXCEPT
                          ![d] = [claimed |-> @.claimed \ {n}, at |-> n, result |-> result]]
    /\ UNCHANGED <<queue, faults>>

\* The provider is asked, with the row's id as the key it knows repeats by.  It
\* takes the message and says so, takes it and its answer is lost, or refuses it.
Send(d, n, result) ==
    /\ d \in Timers
    /\ result \in {"ok", "retry", "refused"}
    /\ \E taken \in BOOLEAN :
          /\ result = "ok" => taken
          /\ result = "refused" => ~taken
          /\ provider' = [provider EXCEPT
                ![n] = [asked |-> @.asked + 1, taken |-> @.taken \/ taken]]
    /\ Sent(d, n, result)

\* The channel is not one of the transport's, or the template cannot be rendered.
Unsendable(d, n, result) ==
    /\ \/ d \in Timers /\ result = "unsupported"
       \/ result = "retry"
    /\ Sent(d, n, result)
    /\ UNCHANGED provider

\* ConsoleTransport.send.
Log(d, n) ==
    /\ d \in Pages
    /\ Sent(d, n, "ok")
    /\ UNCHANGED provider

GivesUp(x) == x.result = "refused" \/ (x.result = "retry" /\ queue[x.at].attempts + 1 >= MaxAttempts)

\* mark: by id.
Mark(d) ==
    LET x == dispatchers[d] IN
    /\ x.at # None
    /\ queue' = [queue EXCEPT ![x.at] =
          [status   |-> IF x.result = "ok" THEN "sent" ELSE "failed",
           attempts |-> IF GivesUp(x) THEN MaxAttempts ELSE @.attempts]]
    /\ dispatchers' = [dispatchers EXCEPT ![d].at = None, ![d].result = None]
    /\ UNCHANGED <<provider, faults>>

\* The process is killed or its time is up, or the read or the mark throws.
Die(d) ==
    /\ Busy(d)
    /\ faults < MaxFaults
    /\ faults' = faults + 1
    /\ dispatchers' = [dispatchers EXCEPT ![d] = Idle]
    /\ UNCHANGED <<queue, provider>>

-----------------------------------------------------------------------------
Work(d) ==
    \/ \E n \in Notifications :
          \/ \E result \in Results : Send(d, n, result) \/ Unsendable(d, n, result)
          \/ Log(d, n)
    \/ Mark(d)

Claims(d) == \E rows \in SUBSET Notifications : Claim(d, rows)

Next ==
    \/ \E n \in Notifications : enqueue(n)
    \/ \E d \in Dispatchers : Claims(d) \/ Work(d) \/ Die(d)

Spec == Init /\ [][Next]_vars

\* The scheduler calls the dispatch route every five minutes, and a dispatcher
\* that does not die goes through what it has claimed.
FairSpec ==
    /\ Spec
    /\ \A d \in Dispatchers : WF_vars(Work(d))
    /\ \A d \in Timers : WF_vars(Claims(d))

-----------------------------------------------------------------------------
(* Properties.                                                             *)

\* The types of the variables; in particular nothing is claimed more than
\* MAX_ATTEMPTS times.
TypeOK ==
    /\ queue \in [Notifications -> Row]
    /\ provider \in [Notifications -> Provider]
    /\ dispatchers \in [Dispatchers -> Dispatcher]
    /\ faults \in 0..MaxFaults

\* "Two workers running at once cannot both send it": what one has sent stays sent,
\* whatever another makes of it, and is never asked of the provider again.
SentIsFinal ==
    [][\A n \in Notifications : queue[n].status = "sent" =>
          /\ queue'[n] = queue[n]
          /\ provider'[n] = provider[n]]_vars

\* stuckNotifications: given up, or in the hands of nobody.
Counted(n) ==
    \/ queue[n].status = "failed" /\ queue[n].attempts >= MaxAttempts
    \/ queue[n].status = "sending" /\ \A d \in Dispatchers : ~Holds(d, n)

\* A notification never ends "silent, permanent, and the customer is simply never
\* told": it is sent, or comes to be counted among those a person must look at.
SentOrSeen ==
    \A n \in Notifications : queue[n].status = "queued" ~> (queue[n].status = "sent" \/ Counted(n))

\* Fails, and no run checks it: `stuckNotifications`, "Tried MAX_ATTEMPTS times and
\* given up."  The claim has counted the attempt that GivesUp adds again, so the
\* provider is asked once less; and a dispatcher that dies uses up an attempt.
TriedInFull ==
    \A n \in Notifications :
        queue[n].status = "failed" /\ queue[n].attempts >= MaxAttempts =>
            \/ provider[n].asked = MaxAttempts
            \/ \E d \in Dispatchers : Holds(d, n)

\* What "is worse than none at all: the ledger says "sent", the customer never hears
\* from you": with a provider configured, what is marked sent has been taken by it.
SentIsTaken ==
    \A n \in Notifications : queue[n].status = "sent" => provider[n].taken
=============================================================================
