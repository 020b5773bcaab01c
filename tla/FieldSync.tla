----------------------------- MODULE FieldSync -----------------------------
(***************************************************************************)
(* The upward half of the technician phone's sync, end to end: the outbox  *)
(* in SQLite, SyncRunner.drain() and the FieldApiClient on the phone, the  *)
(* network between, and applyFieldMutations() with its ledger              *)
(* (field_mutations, unique on the client id) in the office.               *)
(*                                                                         *)
(* One phone, one technician.  Requests the phone has given up on go on    *)
(* living in the office, so two of them may be applied at the same time;   *)
(* each is one READ COMMITTED transaction.  What a handler decides about a *)
(* mutation depends on office data this module leaves out: any outcome its *)
(* kind can produce may happen.                                            *)
(***************************************************************************)
EXTENDS Outbox

CONSTANTS
    KindOf,         \* status | outcome | append | note
    Slots,          \* BOUND: requests alive at once, on the phone or in the office
    NoRequest,
    Advances,       \* BOUND: what the monotonic clock may advance between captures
    MaxDisruptions  \* BOUND: kills, sign-outs and keystore failures

ASSUME SyncAssumption ==
    /\ KindOf \in [Mutations -> {"status", "outcome", "append", "note"}]
    /\ NoRequest \notin Slots
    /\ Advances \subseteq Nat \ {0}
    /\ MaxDisruptions \in Nat

VARIABLES
    outbox,      \* the phone's outbox table
    uptime,      \* the monotonic clock: restarts with the process
    drain,       \* what SyncRunner.drain() is doing
    awaiting,    \* the request drain() awaits
    needsSignIn, \* SyncRunner.needsSignIn
    requests,    \* each live request, in transit or in its transaction
    receipts,    \* field_mutations: the committed verdict on a client id
    applied,     \* how often the effect of a mutation has been committed
    disruptions  \* counts against MaxDisruptions

phone  == <<outbox, uptime, drain, awaiting, needsSignIn, disruptions>>
office == <<receipts, applied>>
vars   == <<phone, requests, office>>

Verdicts == {"accepted", "conflict", "rejected", "gaps"}
Answers  == Verdicts \cup {"deferred"}

\* "gaps" is a rejection whose receipt holds the JOB-15 gap codes.
Outcome(verdict, effect) == [verdict |-> verdict, effect |-> effect]

\* A mutant of the next: a refused handler's writes are kept (no savepoint).
OutcomesWithoutSavepoint(kind) ==
    {Outcome("accepted", TRUE), Outcome("rejected", FALSE), Outcome("rejected", TRUE)}

\* What the handler of each kind can come to.  Case 1 of a status transition
\* is accepted and writes nothing; an overwritten text is both written and
\* reported as a conflict; only an outcome is refused with gaps.
Outcomes(kind) ==
    {Outcome("rejected", FALSE)} \cup
    (CASE kind = "status"  -> {Outcome("accepted", TRUE), Outcome("accepted", FALSE),
                               Outcome("conflict", FALSE)}
       [] kind = "outcome" -> {Outcome("accepted", TRUE), Outcome("conflict", FALSE),
                               Outcome("gaps", FALSE)}
       [] kind = "append"  -> {Outcome("accepted", TRUE)}
       [] kind = "note"    -> {Outcome("accepted", TRUE), Outcome("conflict", TRUE)})

-----------------------------------------------------------------------------
(* A request: in transit ("sent"), in its transaction ("open"), or its     *)
(* response in transit to a phone still waiting ("answered", "failed",     *)
(* "denied").                                                              *)

Nothing == [m \in Mutations |-> "none"]

FreeSlot == [stage |-> "free", batch |-> {}, todo |-> {},
             position |-> [m \in Mutations |-> 0],
             handling |-> NoMutation, verdict |-> "none",
             wrote |-> Nothing, effects |-> {}, answer |-> Nothing]

NewRequest(batch, position) ==
    [FreeSlot EXCEPT !.stage = "sent", !.batch = batch, !.todo = batch,
                     !.position = position]

Batch(r) == requests[r].batch

\* A response nobody waits for any more is dropped with its connection.
Respond(r, stage) ==
    IF awaiting = r THEN [requests[r] EXCEPT !.stage = stage] ELSE FreeSlot

-----------------------------------------------------------------------------
Init ==
    /\ outbox = [m \in Mutations |-> NoRow]
    /\ uptime = 0
    /\ drain = "idle"
    /\ awaiting = NoRequest
    /\ needsSignIn = FALSE
    /\ requests = [r \in Slots |-> FreeSlot]
    /\ receipts = Nothing
    /\ applied = [m \in Mutations |-> 0]
    /\ disruptions = 0

(***************************************************************************)
(* The phone.                                                              *)
(***************************************************************************)
Rows == Cardinality({m \in Mutations : outbox[m].status # "absent"})

\* The technician records something: the domain row and its outbox row are one
\* SQLite transaction.  A parent is named by a client id that already exists.
Capture(m) ==
    /\ drain # "down"
    /\ outbox[m].status = "absent"
    /\ DependsOn[m] # NoMutation => outbox[DependsOn[m]].status # "absent"
    /\ \E d \in Advances : uptime' = uptime + d
    /\ outbox' = [outbox EXCEPT ![m] = NewRow(uptime', Rows + 1)]
    /\ UNCHANGED <<drain, awaiting, needsSignIn, disruptions, requests, office>>

\* "Sync now": the one caller drain() has.
SyncNow ==
    /\ drain = "idle"
    /\ ~needsSignIn
    /\ drain' = "planning"
    /\ UNCHANGED <<outbox, uptime, awaiting, needsSignIn, disruptions, requests, office>>

\* One turn of the drain loop: plan, persist the batch as inflight, push.
SendBatch(r) ==
    LET batch == planDrain(outbox) IN
    /\ drain = "planning"
    /\ batch # {}
    /\ requests[r].stage = "free"
    /\ outbox' = [m \in Mutations |->
                    IF m \in batch THEN markInflight(outbox[m]) ELSE outbox[m]]
    /\ requests' = [requests EXCEPT ![r] = NewRequest(batch, Positions(outbox, batch))]
    /\ drain' = "awaiting"
    /\ awaiting' = r
    /\ UNCHANGED <<uptime, needsSignIn, disruptions, office>>

NothingToSend ==
    /\ drain = "planning"
    /\ planDrain(outbox) = {}
    /\ drain' = "idle"
    /\ UNCHANGED <<outbox, uptime, awaiting, needsSignIn, disruptions, requests, office>>

\* applyMutationResponse, for one row of the batch.
Folded(row, answer) ==
    CASE answer = "accepted" -> afterAccepted(row)
      [] answer = "conflict" -> afterConflict(row)
      [] answer = "gaps"     -> afterRefusal(row)
      [] answer = "rejected" -> afterRejected(row)
      [] answer = "deferred" -> afterDeferred(row)
      [] OTHER               -> row

\* The 200 arrives.  The loop goes on unless every row came back pending or dead.
FoldAnswers(r) ==
    LET folded == [m \in Mutations |->
                     IF m \in Batch(r) THEN Folded(outbox[m], requests[r].answer[m])
                                       ELSE outbox[m]]
    IN  /\ awaiting = r
        /\ requests[r].stage = "answered"
        /\ outbox' = folded
        /\ drain' = IF \A m \in Batch(r) : folded[m].status \in {"pending", "dead"}
                    THEN "idle" ELSE "planning"
        /\ awaiting' = NoRequest
        /\ needsSignIn' = FALSE
        /\ requests' = [requests EXCEPT ![r] = FreeSlot]
        /\ UNCHANGED <<uptime, disruptions, office>>

\* Every row of the batch fails alike and comes back pending or dead, so the
\* loop stops.
BatchFails(r, after) ==
    /\ awaiting = r
    /\ outbox' = [m \in Mutations |->
                    IF m \in Batch(r) THEN after[m] ELSE outbox[m]]
    /\ drain' = "idle"
    /\ awaiting' = NoRequest

TransportFailure(r) ==
    \E jittered \in SUBSET Batch(r) :
        BatchFails(r, [m \in Mutations |->
                          afterTransportFailure(outbox[m], m \in jittered)])

\* NetworkError: no connection, or the 30 second timeout.  The phone gives up
\* waiting; a request that did get through lives on in the office.
NetworkFailure(r) ==
    /\ TransportFailure(r)
    /\ requests' = IF requests[r].stage \in {"sent", "open"}
                   THEN requests ELSE [requests EXCEPT ![r] = FreeSlot]
    /\ UNCHANGED <<uptime, needsSignIn, disruptions, office>>

\* ServerError: a 500, whose transaction was rolled back.
ServerFailure(r) ==
    /\ requests[r].stage = "failed"
    /\ TransportFailure(r)
    /\ requests' = [requests EXCEPT ![r] = FreeSlot]
    /\ UNCHANGED <<uptime, needsSignIn, disruptions, office>>

\* ProtocolError: a 200 whose body cannot be read.  The body was cut off on the
\* way, or a captive portal answered in the office's place.
UnreadableAnswer(r) ==
    /\ requests[r].stage \in {"sent", "answered"}
    /\ BatchFails(r, [m \in Mutations |-> afterProtocolFailure(outbox[m])])
    /\ requests' = [requests EXCEPT ![r] = FreeSlot]
    /\ UNCHANGED <<uptime, needsSignIn, disruptions, office>>

\* DeviceAuthError: 401 or 403.
SignedOut(r) ==
    /\ requests[r].stage = "denied"
    /\ BatchFails(r, [m \in Mutations |-> afterSignedOut(outbox[m])])
    /\ needsSignIn' = TRUE
    /\ requests' = [requests EXCEPT ![r] = FreeSlot]
    /\ UNCHANGED <<uptime, disruptions, office>>

\* persistRotation: the 200 arrived but its rotated token could not be stored.
\* That error is none sendBatch knows, so drain() ends and persists nothing:
\* the batch stays inflight.
KeystoreFails(r) ==
    /\ disruptions < MaxDisruptions
    /\ awaiting = r
    /\ requests[r].stage = "answered"
    /\ disruptions' = disruptions + 1
    /\ drain' = "idle"
    /\ awaiting' = NoRequest
    /\ requests' = [requests EXCEPT ![r] = FreeSlot]
    /\ UNCHANGED <<outbox, uptime, needsSignIn, office>>

\* A backoff deadline passes.
BackoffElapses(m) ==
    /\ drain # "down"
    /\ outbox[m].waiting
    /\ outbox' = [outbox EXCEPT ![m].waiting = FALSE]
    /\ UNCHANGED <<uptime, drain, awaiting, needsSignIn, disruptions, requests, office>>

\* The technician registers the phone again; the pull that follows succeeds.
SignIn ==
    /\ drain = "idle"
    /\ needsSignIn
    /\ needsSignIn' = FALSE
    /\ UNCHANGED <<outbox, uptime, drain, awaiting, disruptions, requests, office>>

\* The operating system ends the process, wherever drain() is.
Kill ==
    /\ drain # "down"
    /\ disruptions < MaxDisruptions
    /\ disruptions' = disruptions + 1
    /\ drain' = "down"
    /\ awaiting' = NoRequest
    /\ needsSignIn' = FALSE
    /\ requests' = [r \in Slots |->
                      IF requests[r].stage \in {"sent", "open"} THEN requests[r]
                                                                ELSE FreeSlot]
    /\ UNCHANGED <<outbox, uptime, office>>

\* The app starts: recover() runs before anything else looks at the queue, and
\* the monotonic clock starts from zero.
Startup ==
    /\ drain = "down"
    /\ drain' = "idle"
    /\ uptime' = 0
    /\ outbox' = [m \in Mutations |-> recoverInflight(outbox[m])]
    /\ UNCHANGED <<awaiting, needsSignIn, disruptions, requests, office>>

(***************************************************************************)
(* The network and the office.                                             *)
(***************************************************************************)
LoseRequest(r) ==
    /\ requests[r].stage = "sent"
    /\ awaiting # r     \* while the phone waits, losing it is a NetworkFailure to come
    /\ requests' = [requests EXCEPT ![r] = FreeSlot]
    /\ UNCHANGED <<phone, office>>

\* withDevice: the token resolves and the request's transaction opens.
Begin(r) ==
    /\ requests[r].stage = "sent"
    /\ requests' = [requests EXCEPT ![r].stage = "open"]
    /\ UNCHANGED <<phone, office>>

\* withDevice: the token is unknown, expired or revoked.
Deny(r) ==
    /\ requests[r].stage = "sent"
    /\ disruptions < MaxDisruptions
    /\ disruptions' = disruptions + 1
    /\ requests' = [requests EXCEPT ![r] = Respond(r, "denied")]
    /\ UNCHANGED <<outbox, uptime, drain, awaiting, needsSignIn, office>>

\* The mutation the loop over the batch has come to.
Turn(r, m) ==
    /\ requests[r].stage = "open"
    /\ requests[r].handling = NoMutation
    /\ m \in requests[r].todo
    /\ \A n \in requests[r].todo \ {m} :
          requests[r].position[m] < requests[r].position[n]

\* READ COMMITTED: the transaction's own receipt, or the last committed one.
Ledger(r, m) ==
    IF requests[r].wrote[m] # "none" THEN requests[r].wrote[m] ELSE receipts[m]

Answered(r, m, answer) ==
    [requests[r] EXCEPT !.todo = @ \ {m}, !.answer[m] = answer]

\* What the ledger says on a replay.  The gap codes of a stored rejection are
\* not read back.
ReplayAnswer(verdict) == IF verdict = "gaps" THEN "rejected" ELSE verdict

Replay(r, m) ==
    /\ Turn(r, m)
    /\ Ledger(r, m) # "none"
    /\ requests' = [requests EXCEPT ![r] = Answered(r, m, ReplayAnswer(Ledger(r, m)))]
    /\ UNCHANGED <<phone, office>>

\* A mutant of the next: any verdict on the parent will do.
DependencyAnswered(r, m) ==
    DependsOn[m] # NoMutation => Ledger(r, DependsOn[m]) # "none"

DependencyLanded(r, m) ==
    DependsOn[m] # NoMutation => Ledger(r, DependsOn[m]) = "accepted"

\* The dependency has not been accepted: no receipt, the phone may try again.
Defer(r, m) ==
    /\ Turn(r, m)
    /\ Ledger(r, m) = "none"
    /\ ~DependencyLanded(r, m)
    /\ requests' = [requests EXCEPT ![r] = Answered(r, m, "deferred")]
    /\ UNCHANGED <<phone, office>>

\* The handler runs in its savepoint; its receipt is still to be written.
Handle(r, m) ==
    /\ Turn(r, m)
    /\ Ledger(r, m) = "none"
    /\ DependencyLanded(r, m)
    /\ \E o \in Outcomes(KindOf[m]) :
          requests' = [requests EXCEPT
              ![r].handling = m,
              ![r].verdict = o.verdict,
              ![r].effects = IF o.effect THEN @ \cup {m} ELSE @]
    /\ UNCHANGED <<phone, office>>

\* A mutant of the next: an index that is not unique.
HeldByNone(r, m) == FALSE

\* An uncommitted receipt for the same client id makes the insert wait on the
\* unique index.
HeldByAnother(r, m) ==
    \E q \in Slots \ {r} : requests[q].stage = "open" /\ requests[q].wrote[m] # "none"

\* A mutant of the next: INSERT ... ON CONFLICT DO NOTHING.
writeReceiptOrSkip(r, m) ==
    /\ requests[r].stage = "open"
    /\ requests[r].handling = m
    /\ ~HeldByAnother(r, m)
    /\ requests' = [requests EXCEPT
          ![r] = [Answered(r, m, requests[r].verdict) EXCEPT
                     !.handling = NoMutation, !.verdict = "none",
                     !.wrote[m] = IF receipts[m] = "none" THEN requests[r].verdict ELSE @]]
    /\ UNCHANGED <<phone, office>>

writeReceipt(r, m) ==
    /\ requests[r].stage = "open"
    /\ requests[r].handling = m
    /\ ~HeldByAnother(r, m)
    /\ receipts[m] = "none"
    /\ requests' = [requests EXCEPT
          ![r] = [Answered(r, m, requests[r].verdict) EXCEPT
                     !.handling = NoMutation, !.verdict = "none",
                     !.wrote[m] = requests[r].verdict]]
    /\ UNCHANGED <<phone, office>>

\* The other transaction committed its receipt first.  The unique violation is
\* raised outside the savepoint and takes the whole batch with it: a 500.
DuplicateReceipt(r, m) ==
    /\ requests[r].stage = "open"
    /\ requests[r].handling = m
    /\ receipts[m] # "none"
    /\ requests' = [requests EXCEPT ![r] = Respond(r, "failed")]
    /\ UNCHANGED <<phone, office>>

\* The transaction is rolled back for a reason of its own: the connection, the
\* server process, the 60 second limit, or a deadlock Postgres broke.
Abort(r) ==
    /\ requests[r].stage = "open"
    /\ requests' = [requests EXCEPT ![r] = Respond(r, "failed")]
    /\ UNCHANGED <<phone, office>>

Commit(r) ==
    /\ requests[r].stage = "open"
    /\ requests[r].handling = NoMutation
    /\ requests[r].todo = {}
    /\ receipts' = [m \in Mutations |-> Ledger(r, m)]
    /\ applied' = [m \in Mutations |->
                     IF m \in requests[r].effects THEN applied[m] + 1 ELSE applied[m]]
    /\ requests' = [requests EXCEPT ![r] = Respond(r, "answered")]
    /\ UNCHANGED phone

-----------------------------------------------------------------------------
PhoneStep ==
    \/ \E m \in Mutations : Capture(m) \/ BackoffElapses(m)
    \/ SyncNow \/ NothingToSend \/ SignIn \/ Kill \/ Startup
    \/ \E r \in Slots :
          \/ SendBatch(r)
          \/ FoldAnswers(r)
          \/ NetworkFailure(r)
          \/ ServerFailure(r)
          \/ UnreadableAnswer(r)
          \/ SignedOut(r)
          \/ KeystoreFails(r)

OfficeStep ==
    \E r \in Slots :
        \/ LoseRequest(r) \/ Begin(r) \/ Deny(r) \/ Abort(r) \/ Commit(r)
        \/ \E m \in Mutations :
              \/ Replay(r, m)
              \/ Defer(r, m)
              \/ Handle(r, m)
              \/ writeReceipt(r, m)
              \/ DuplicateReceipt(r, m)

Next == PhoneStep \/ OfficeStep

Spec == Init /\ [][Next]_vars

\* What the code and its platforms schedule: a wait ends with an answer or the
\* timeout, a transaction with a commit or the 60 second limit, a backoff with
\* time, and a killed app is opened again.
EndsWait(r) == FoldAnswers(r) \/ NetworkFailure(r) \/ ServerFailure(r) \/ SignedOut(r)

OfficeWorks(r) ==
    \/ LoseRequest(r) \/ Begin(r) \/ Commit(r) \/ Abort(r)
    \/ \E m \in Mutations : Replay(r, m) \/ Defer(r, m) \/ Handle(r, m)
                              \/ writeReceipt(r, m) \/ DuplicateReceipt(r, m)

Scheduled ==
    /\ WF_vars(Startup)
    /\ WF_vars(SignIn)
    /\ WF_vars(NothingToSend)
    /\ WF_vars(\E r \in Slots : SendBatch(r))
    /\ WF_vars(\E r \in Slots : EndsWait(r))
    /\ \A r \in Slots : WF_vars(OfficeWorks(r))
    /\ \A m \in Mutations : WF_vars(BackoffElapses(m))

\* Nothing schedules drain(): its one caller is the "Sync now" button.
ScheduledSpec == Spec /\ Scheduled

\* A technician who keeps pressing it.
FairSpec == ScheduledSpec /\ WF_vars(SyncNow)

-----------------------------------------------------------------------------
(* Properties.                                                             *)

\* The types of the variables.
RequestType ==
    [stage    : {"free", "sent", "open", "answered", "failed", "denied"},
     batch    : SUBSET Mutations,
     position : [Mutations -> Nat],
     todo     : SUBSET Mutations,
     handling : Mutations \cup {NoMutation},
     verdict  : Verdicts \cup {"none"},
     wrote    : [Mutations -> Verdicts \cup {"none"}],
     effects  : SUBSET Mutations,
     answer   : [Mutations -> Answers \cup {"none"}]]

TypeOK ==
    /\ outbox \in [Mutations -> OutboxRow]
    /\ uptime \in Nat
    /\ drain \in {"down", "idle", "planning", "awaiting"}
    /\ awaiting \in Slots \cup {NoRequest}
    /\ needsSignIn \in BOOLEAN
    /\ requests \in [Slots -> RequestType]
    /\ receipts \in [Mutations -> Verdicts \cup {"none"}]
    /\ applied \in [Mutations -> Nat]
    /\ disruptions \in Nat

\* However often a mutation is sent, and however its requests overlap in the
\* office, its effect is committed at most once, and only together with the
\* receipt that says so ("duplicate job completions and double-billed parts").
AtMostOnce ==
    \A m \in Mutations :
        /\ applied[m] <= 1
        /\ applied[m] = 1 => receipts[m] \in {"accepted", "conflict"}

\* The phone forgets a row only if the office accepted it, leaves it to a
\* dispatcher only if the office filed a conflict, and reopens the job card
\* only on a refusal the office has on file.
PhoneBelievesLedger ==
    \A m \in Mutations :
        /\ outbox[m].status = "done"       => receipts[m] = "accepted"
        /\ outbox[m].status = "conflicted" => receipts[m] = "conflict"
        /\ outbox[m].status = "refused"    => receipts[m] = "gaps"

\* "A completion record must never arrive before the evidence it cites": the
\* office decides on a mutation only once it has accepted the one it depends on.
EvidenceFirst ==
    \A m \in Mutations :
        receipts[m] # "none" /\ DependsOn[m] # NoMutation
            => receipts[DependsOn[m]] = "accepted"

\* FIFO per aggregate root: a request carries the rows of a job in the order
\* they were recorded, and leaves no older pending row of the job behind.
FifoPerJob ==
    \A r \in Slots : awaiting = r =>
        \A n \in Batch(r), m \in Mutations :
            /\ JobOf[m] = JobOf[n] /\ JobOf[n] # NoJob
            /\ outbox[m].place < outbox[n].place
            /\ m \in Pending(outbox) \cup Batch(r)
            => m \in Batch(r) /\ requests[r].position[m] < requests[r].position[n]

\* ... and so does the office, as long as the app lives: it decides on a row
\* before an older one of the same job only when the phone has given the older
\* one up, or that one was sent back to wait for its parent.
OfficeKeepsOrder ==
    \A m, n \in Mutations :
        /\ JobOf[m] = JobOf[n] /\ JobOf[n] # NoJob
        /\ outbox[m].status # "absent"
        /\ outbox[m].place < outbox[n].place
        /\ receipts[n] # "none" /\ receipts[m] = "none"
        => outbox[m].status = "dead" \/ DependsOn[m] # NoMutation

\* Rows the queue cannot send: left inflight by a drain that ended early, until
\* the app restarts; or behind a row whose parent will never be done.
Orphaned(m) ==
    outbox[m].status = "inflight" /\ awaiting = NoRequest

HeldUp(m) ==
    \/ Orphaned(m)
    \/ \E n \in Pending(outbox) :
          /\ Aggregate(n) = Aggregate(m)
          /\ n = m \/ Older(outbox, n, m)
          /\ DependsOn[n] # NoMutation
          /\ \/ outbox[DependsOn[n]].status \in {"dead", "conflicted", "refused"}
             \/ Orphaned(DependsOn[n])

\* Whatever is recorded is either answered, or given up visibly, or held up by
\* a row that was: no other way to stay in the queue for ever.
EventuallySettled ==
    \A m \in Mutations :
        outbox[m].status \in {"pending", "inflight"} ~>
            outbox[m].status \in {"done", "dead", "conflicted", "refused"} \/ HeldUp(m)

\* A verdict in the ledger is never replaced by another.
VerdictIsFinal ==
    [][\A m \in Mutations : receipts[m] # "none" => receipts'[m] = receipts[m]]_vars

\* A row the office has answered, and the phone was told of, is never sent
\* again, whatever crashes, late answers or retries follow.
AnswerIsFinal ==
    [][\A m \in Mutations :
          outbox[m].status \in {"done", "conflicted", "refused"}
              => outbox'[m].status = outbox[m].status]_vars

\* "The ledger that makes a replay return the same answer": what a request is
\* told about a mutation is what the ledger holds.
ReplayIsTheSameAnswer ==
    \A r \in Slots, m \in Mutations :
        requests[r].answer[m] \in Verdicts => requests[r].answer[m] = Ledger(r, m)

-----------------------------------------------------------------------------
(* The inductive invariant behind AtMostOnce, PhoneBelievesLedger,         *)
(* EvidenceFirst and the two action properties.                            *)

\* A request that has not begun has decided nothing.
Untouched(request) ==
    /\ request.wrote = Nothing
    /\ request.answer = Nothing
    /\ request.effects = {}
    /\ request.handling = NoMutation

RequestsBeginUntouched ==
    \A r \in Slots : requests[r].stage = "sent" => Untouched(requests[r])

\* The unique index: one open transaction at most holds a receipt.
OneWriter ==
    \A r, q \in Slots, m \in Mutations :
        /\ requests[r].stage = "open" /\ requests[r].wrote[m] # "none"
        /\ requests[q].stage = "open" /\ requests[q].wrote[m] # "none"
        => r = q

\* An open transaction has written only receipts no other has committed, has
\* changed something only under a receipt that admits it, and has decided only
\* on mutations whose parent it saw accepted.
Decided(r, m) ==
    requests[r].wrote[m] # "none" \/ requests[r].handling = m

VerdictOn(r, m) ==
    IF requests[r].wrote[m] # "none" THEN requests[r].wrote[m] ELSE requests[r].verdict

TransactionsAreSound ==
    \A r \in Slots, m \in Mutations : requests[r].stage = "open" =>
        /\ requests[r].wrote[m] # "none" =>
               receipts[m] = "none" /\ requests[r].handling # m
        /\ m \in requests[r].effects =>
               Decided(r, m) /\ VerdictOn(r, m) \in {"accepted", "conflict"}
        /\ Decided(r, m) /\ DependsOn[m] # NoMutation =>
               Ledger(r, DependsOn[m]) = "accepted"

\* An answer on its way says what the ledger says, gap codes aside.
AnswersAreSound ==
    \A r \in Slots, m \in Mutations :
        /\ requests[r].stage \in {"open", "answered"}
        /\ requests[r].answer[m] \in Verdicts
        => LET entry == IF requests[r].stage = "open" THEN Ledger(r, m) ELSE receipts[m]
           IN  requests[r].answer[m] \in {entry, ReplayAnswer(entry)}

\* drain() awaits the request whose rows it has marked inflight.
DrainAwaitsItsBatch ==
    /\ drain = "awaiting" <=> awaiting # NoRequest
    /\ \A r \in Slots : awaiting = r =>
          \A m \in Batch(r) : outbox[m].status = "inflight"

SyncInv ==
    /\ TypeOK
    /\ RequestsBeginUntouched
    /\ OneWriter
    /\ TransactionsAreSound
    /\ AnswersAreSound
    /\ DrainAwaitsItsBatch
    /\ AtMostOnce
    /\ PhoneBelievesLedger
    /\ EvidenceFirst

(***************************************************************************)
(* The inductive invariant behind FifoPerJob and OfficeKeepsOrder, for as  *)
(* long as the app lives: a kill starts the readings from zero again.      *)
(***************************************************************************)
AppLives == drain # "down"

Captured == {m \in Mutations : outbox[m].status # "absent"}

\* Rows are numbered as they are inserted, and the readings rise with them.
RowsAreInOrder ==
    /\ \A m \in Captured : outbox[m].place <= Rows /\ outbox[m].created <= uptime
    /\ \A m, n \in Captured :
          outbox[m].place < outbox[n].place => outbox[m].created <= outbox[n].created

\* What travels and what is decided has been captured, and sent.
OnlyCapturedTravel ==
    /\ \A r \in Slots :
          /\ Batch(r) \subseteq Captured
          /\ requests[r].todo \subseteq Batch(r)
          /\ \A m \in Mutations : Decided(r, m) => m \in Batch(r)
    /\ \A m \in Mutations : receipts[m] # "none" => m \in Captured

\* A row of a batch is still to be done or has its answer, and only a row with a
\* parent is told to wait.
AnswersAreComplete ==
    \A r \in Slots :
        /\ requests[r].handling # NoMutation => requests[r].verdict # "none"
        /\ requests[r].stage = "answered" => requests[r].todo = {}
        /\ \A m \in Batch(r) \ requests[r].todo : requests[r].answer[m] # "none"
        /\ \A m \in Mutations : requests[r].answer[m] = "deferred" => DependsOn[m] # NoMutation

\* The older row of the two, and what excuses the office from having decided on it.
Precedes(m, n) ==
    /\ JobOf[m] = JobOf[n] /\ JobOf[n] # NoJob
    /\ outbox[m].status # "absent"
    /\ outbox[m].place < outbox[n].place

Excused(m) == outbox[m].status = "dead" \/ DependsOn[m] # NoMutation

\* A request carries, ahead of a row, whatever older row of the job is undecided;
RequestsKeepOrder ==
    \A r \in Slots, m, n \in Mutations :
        /\ requests[r].stage \in {"sent", "open"}
        /\ n \in Batch(r) /\ Precedes(m, n) /\ ~Excused(m)
        => \/ receipts[m] # "none"
           \/ m \in Batch(r) /\ requests[r].position[m] < requests[r].position[n]

\* so a transaction has decided on that one first.
TransactionsKeepOrder ==
    \A r \in Slots, m, n \in Mutations :
        requests[r].stage = "open" /\ Decided(r, n) /\ Precedes(m, n) /\ ~Excused(m)
            => Ledger(r, m) # "none"

\* A row left inflight by a drain that ended early has its receipt already.
InflightIsDecided ==
    \A m \in Mutations : outbox[m].status = "inflight" =>
        \/ \E r \in Slots : awaiting = r /\ m \in Batch(r)
        \/ receipts[m] # "none"
        \/ DependsOn[m] # NoMutation

OrderInv ==
    /\ RowsAreInOrder
    /\ OnlyCapturedTravel
    /\ AnswersAreComplete
    /\ RequestsKeepOrder
    /\ TransactionsKeepOrder
    /\ InflightIsDecided
    /\ FifoPerJob
    /\ OfficeKeepsOrder

\* The sync as the office and the technician see it: the ledger is what has
\* been decided, the status of a row what the phone was told.
D == INSTANCE Delivery WITH
        decided <- [m \in Mutations |-> ReplayAnswer(receipts[m])],
        effects <- applied,
        told    <- [m \in Mutations |->
                      CASE outbox[m].status = "done"       -> "accepted"
                        [] outbox[m].status = "conflicted" -> "conflict"
                        [] outbox[m].status = "refused"    -> "rejected"
                        [] OTHER                           -> "none"]

\* Every behaviour of the sync is one Delivery allows.
ImplementsDelivery == D!DeliverySpec
=============================================================================
