-------------------------- MODULE FieldSync_proofs --------------------------
(***************************************************************************)
(* Proofs about FieldSync for any set of mutations, any number of          *)
(* overlapping requests, any batch limit and any number of crashes.        *)
(***************************************************************************)
EXTENDS FieldSync, FiniteSetTheorems, TLAPS

-----------------------------------------------------------------------------
(* The operators of Outbox.                                                *)

\* A transition of outbox.ts takes a row to a row.
LEMMA RowTransitions ==
    ASSUME NEW row \in OutboxRow, NEW jittered \in BOOLEAN
    PROVE  /\ markInflight(row) \in OutboxRow
           /\ afterAccepted(row) \in OutboxRow
           /\ afterConflict(row) \in OutboxRow
           /\ afterRefusal(row) \in OutboxRow
           /\ afterRejected(row) \in OutboxRow
           /\ afterDeferred(row) \in OutboxRow
           /\ afterTransportFailure(row, jittered) \in OutboxRow
           /\ afterProtocolFailure(row) \in OutboxRow
           /\ afterSignedOut(row) \in OutboxRow
           /\ recoverInflight(row) \in OutboxRow
<1> USE DEF OutboxRow, Statuses
<1>1. markInflight(row) \in OutboxRow  BY DEF markInflight
<1>2. afterAccepted(row) \in OutboxRow  BY DEF afterAccepted
<1>3. afterConflict(row) \in OutboxRow  BY DEF afterConflict
<1>4. afterRefusal(row) \in OutboxRow  BY DEF afterRefusal
<1>5. afterRejected(row) \in OutboxRow  BY DEF afterRejected
<1>6. afterDeferred(row) \in OutboxRow  BY DEF afterDeferred
<1>7. afterProtocolFailure(row) \in OutboxRow
  <2>1. row.attemptCount + 1 \in Nat  OBVIOUS
  <2> QED BY <2>1 DEF afterProtocolFailure
<1>8. afterSignedOut(row) \in OutboxRow  BY DEF afterSignedOut
<1>9. recoverInflight(row) \in OutboxRow  BY DEF recoverInflight
<1>10. afterTransportFailure(row, jittered) \in OutboxRow
  <2> DEFINE attempts == row.attemptCount + 1
             dead == [row EXCEPT !.attemptCount = attempts, !.status = "dead",
                                 !.waiting = FALSE]
             again == [row EXCEPT !.attemptCount = attempts, !.status = "pending",
                                  !.waiting = jittered]
  <2>1. attempts \in Nat  OBVIOUS
  <2> HIDE DEF attempts
  <2>2. dead \in OutboxRow  BY <2>1
  <2>3. again \in OutboxRow  BY <2>1
  <2>4. afterTransportFailure(row, jittered) \in {dead, again}
    BY DEF afterTransportFailure, attempts
  <2> QED BY <2>2, <2>3, <2>4
<1> QED BY <1>1, <1>2, <1>3, <1>4, <1>5, <1>6, <1>7, <1>8, <1>9, <1>10

\* The planner sends pending rows only, and gives each a place in the array.
LEMMA BatchIsPending ==
    ASSUME NEW box
    PROVE  planDrain(box) \subseteq Pending(box) /\ Pending(box) \subseteq Mutations
BY DEF planDrain, Sendable, Pending

LEMMA PositionsType ==
    ASSUME NEW box, NEW batch \in SUBSET Mutations
    PROVE  Positions(box, batch) \in [Mutations -> Nat]
<1> SUFFICES ASSUME NEW m \in Mutations
             PROVE  Cardinality({n \in batch : Before(box, n, m)}) \in Nat
  BY DEF Positions
<1>1. IsFiniteSet({n \in batch : Before(box, n, m)})
  BY OutboxAssumption, FS_Subset
<1> QED BY <1>1, FS_CardinalityType

-----------------------------------------------------------------------------
(* Type correctness.                                                       *)

LEMMA FoldedType ==
    ASSUME NEW row \in OutboxRow, NEW answer \in Answers \cup {"none"}
    PROVE  Folded(row, answer) \in OutboxRow
BY RowTransitions DEF Folded, Answers, Verdicts

LEMMA FreeSlotType == FreeSlot \in RequestType
BY OutboxAssumption DEF FreeSlot, RequestType, Nothing, Verdicts, Answers

LEMMA OutcomesType ==
    ASSUME NEW m \in Mutations, NEW o \in Outcomes(KindOf[m])
    PROVE  /\ o.verdict \in Verdicts
           /\ o.effect \in BOOLEAN
           /\ o.effect => o.verdict \in {"accepted", "conflict"}
<1>1. KindOf[m] \in {"status", "outcome", "append", "note"}
  BY SyncAssumption
<1>2. o \in {Outcome("rejected", FALSE), Outcome("accepted", TRUE),
             Outcome("accepted", FALSE), Outcome("conflict", FALSE),
             Outcome("conflict", TRUE), Outcome("gaps", FALSE)}
  <2>1. CASE KindOf[m] = "status"   BY <2>1 DEF Outcomes
  <2>2. CASE KindOf[m] = "outcome"  BY <2>2 DEF Outcomes
  <2>3. CASE KindOf[m] = "append"   BY <2>3 DEF Outcomes
  <2>4. CASE KindOf[m] = "note"     BY <2>4 DEF Outcomes
  <2> QED BY <1>1, <2>1, <2>2, <2>3, <2>4
<1>3. PICK v \in Verdicts, e \in BOOLEAN :
         o = Outcome(v, e) /\ (e => v \in {"accepted", "conflict"})
  BY <1>2 DEF Verdicts
<1> QED BY <1>3 DEF Outcome

LEMMA RequestTypes ==
    ASSUME TypeOK, NEW r \in Slots, NEW m \in Mutations
    PROVE  /\ requests[r] \in RequestType
           /\ [requests EXCEPT ![r] = FreeSlot] \in [Slots -> RequestType]
           /\ \A stage \in {"answered", "failed", "denied"} :
                 [requests EXCEPT ![r] = Respond(r, stage)] \in [Slots -> RequestType]
           /\ \A answer \in Answers \cup {"none"} :
                 Answered(r, m, answer) \in RequestType
           /\ Ledger(r, m) \in Verdicts \cup {"none"}
<1>1. requests[r] \in RequestType
  BY DEF TypeOK
<1>2. \A stage \in {"answered", "failed", "denied"} : Respond(r, stage) \in RequestType
  BY <1>1, FreeSlotType DEF Respond, RequestType
<1>3. \A answer \in Answers \cup {"none"} : Answered(r, m, answer) \in RequestType
  BY <1>1 DEF Answered, RequestType
<1>4. Ledger(r, m) \in Verdicts \cup {"none"}
  BY <1>1 DEF Ledger, RequestType, TypeOK
<1> QED BY <1>1, <1>2, <1>3, <1>4, FreeSlotType DEF TypeOK

LEMMA NewRequestType ==
    ASSUME NEW batch \in SUBSET Mutations, NEW position \in [Mutations -> Nat]
    PROVE  NewRequest(batch, position) \in RequestType
BY FreeSlotType DEF NewRequest, RequestType

LEMMA PhoneStepType == ASSUME TypeOK, PhoneStep PROVE TypeOK'
<1> USE DEF TypeOK, phone, office
<1>1. ASSUME NEW m \in Mutations, Capture(m) PROVE TypeOK'
  <2>1. Rows \in Nat
    BY OutboxAssumption, FS_Subset, FS_CardinalityType DEF Rows
  <2>2. uptime' \in Nat
    BY <1>1, SyncAssumption DEF Capture
  <2>3. NewRow(uptime', Rows + 1) \in OutboxRow
    BY <2>1, <2>2 DEF NewRow, OutboxRow, Statuses
  <2> QED BY <1>1, <2>2, <2>3 DEF Capture
<1>2. ASSUME NEW m \in Mutations, BackoffElapses(m) PROVE TypeOK'
  <2>1. [outbox[m] EXCEPT !.waiting = FALSE] \in OutboxRow
    BY DEF OutboxRow
  <2> QED BY <1>2, <2>1 DEF BackoffElapses
<1>3. CASE SyncNow  BY <1>3 DEF SyncNow
<1>4. CASE NothingToSend  BY <1>4 DEF NothingToSend
<1>5. CASE SignIn  BY <1>5 DEF SignIn
<1>6. CASE Kill
  <2>1. requests' \in [Slots -> RequestType]
    BY <1>6, FreeSlotType DEF Kill
  <2>2. disruptions' \in Nat
    BY <1>6 DEF Kill
  <2> QED BY <1>6, <2>1, <2>2 DEF Kill
<1>7. CASE Startup
  BY <1>7, RowTransitions DEF Startup
<1>8. ASSUME NEW r \in Slots, SendBatch(r) PROVE TypeOK'
  <2> DEFINE batch == planDrain(outbox)
  <2>1. batch \in SUBSET Mutations
    BY BatchIsPending
  <2>2. NewRequest(batch, Positions(outbox, batch)) \in RequestType
    BY <2>1, PositionsType, NewRequestType
  <2> HIDE DEF batch
  <2>3. outbox' \in [Mutations -> OutboxRow]
    BY <1>8, RowTransitions DEF SendBatch
  <2> QED BY <1>8, <2>2, <2>3 DEF SendBatch, batch
<1>9. ASSUME NEW r \in Slots, FoldAnswers(r) PROVE TypeOK'
  <2>1. outbox' \in [Mutations -> OutboxRow]
    BY <1>9, FoldedType DEF FoldAnswers, RequestType
  <2>2. requests' \in [Slots -> RequestType]
    BY <1>9, FreeSlotType DEF FoldAnswers
  <2> QED BY <1>9, <2>1, <2>2 DEF FoldAnswers
<1>10. ASSUME NEW r \in Slots,
              NetworkFailure(r) \/ ServerFailure(r) \/ UnreadableAnswer(r) \/ SignedOut(r)
       PROVE  TypeOK'
  <2>1. requests' \in [Slots -> RequestType]
    BY <1>10, FreeSlotType
       DEF NetworkFailure, ServerFailure, UnreadableAnswer, SignedOut
  <2>2. outbox' \in [Mutations -> OutboxRow]
    <3>1. CASE TransportFailure(r)
      <4>1. PICK jittered \in SUBSET Batch(r) :
              outbox' = [m \in Mutations |->
                           IF m \in Batch(r)
                           THEN afterTransportFailure(outbox[m], m \in jittered)
                           ELSE outbox[m]]
        BY <3>1 DEF TransportFailure, BatchFails
      <4>2. ASSUME NEW m \in Mutations
            PROVE  afterTransportFailure(outbox[m], m \in jittered) \in OutboxRow
        <5>1. (m \in jittered) \in BOOLEAN  OBVIOUS
        <5> QED BY <5>1, RowTransitions
      <4> QED BY <4>1, <4>2
    <3>2. CASE UnreadableAnswer(r)
      BY <3>2, RowTransitions DEF UnreadableAnswer, BatchFails
    <3>3. CASE SignedOut(r)
      BY <3>3, RowTransitions DEF SignedOut, BatchFails
    <3> QED BY <1>10, <3>1, <3>2, <3>3 DEF NetworkFailure, ServerFailure
  <2> QED BY <1>10, <2>1, <2>2
          DEF NetworkFailure, ServerFailure, UnreadableAnswer, SignedOut,
              TransportFailure, BatchFails
<1>11. ASSUME NEW r \in Slots, KeystoreFails(r) PROVE TypeOK'
  <2>1. requests' \in [Slots -> RequestType] /\ disruptions' \in Nat
    BY <1>11, FreeSlotType DEF KeystoreFails
  <2> QED BY <1>11, <2>1 DEF KeystoreFails
<1> QED
  BY <1>1, <1>2, <1>3, <1>4, <1>5, <1>6, <1>7, <1>8, <1>9, <1>10, <1>11
     DEF PhoneStep

LEMMA OfficeStepType == ASSUME TypeOK, OfficeStep PROVE TypeOK'
<1>1. PICK r \in Slots :
        \/ LoseRequest(r) \/ Begin(r) \/ Deny(r) \/ Abort(r) \/ Commit(r)
        \/ \E m \in Mutations :
              \/ Replay(r, m) \/ Defer(r, m) \/ Handle(r, m)
              \/ writeReceipt(r, m) \/ DuplicateReceipt(r, m)
  BY DEF OfficeStep
<1>2. requests[r] \in RequestType
  BY DEF TypeOK
<1> USE DEF TypeOK, phone, office
<1>3. CASE LoseRequest(r)
  BY <1>3, FreeSlotType DEF LoseRequest
<1>4. CASE Begin(r)
  <2>1. [requests[r] EXCEPT !.stage = "open"] \in RequestType
    BY <1>2 DEF RequestType
  <2> QED BY <1>4, <2>1 DEF Begin
<1>5. CASE Deny(r)
  <2>1. Respond(r, "denied") \in RequestType
    BY <1>2, FreeSlotType DEF Respond, RequestType
  <2>2. disruptions' \in Nat
    BY <1>5 DEF Deny
  <2> QED BY <1>5, <2>1, <2>2 DEF Deny
<1>6. ASSUME Abort(r) \/ \E m \in Mutations : DuplicateReceipt(r, m) PROVE TypeOK'
  <2>1. Respond(r, "failed") \in RequestType
    BY <1>2, FreeSlotType DEF Respond, RequestType
  <2> QED BY <1>6, <2>1 DEF Abort, DuplicateReceipt
<1>7. CASE Commit(r)
  <2>1. Respond(r, "answered") \in RequestType
    BY <1>2, FreeSlotType DEF Respond, RequestType
  <2>2. receipts' \in [Mutations -> Verdicts \cup {"none"}]
    BY <1>7, RequestTypes DEF Commit
  <2>3. applied' \in [Mutations -> Nat]
    BY <1>7 DEF Commit
  <2> QED BY <1>7, <2>1, <2>2, <2>3 DEF Commit
<1>8. ASSUME NEW m \in Mutations, Replay(r, m) \/ Defer(r, m) PROVE TypeOK'
  <2>1. ReplayAnswer(Ledger(r, m)) \in Answers \cup {"none"}
    BY RequestTypes DEF ReplayAnswer, Answers, Verdicts
  <2>2. \A answer \in Answers \cup {"none"} : Answered(r, m, answer) \in RequestType
    BY RequestTypes
  <2>3. Answered(r, m, ReplayAnswer(Ledger(r, m))) \in RequestType
    BY <2>1, <2>2
  <2>4. Answered(r, m, "deferred") \in RequestType
    BY <2>2 DEF Answers
  <2> QED BY <1>8, <2>3, <2>4 DEF Replay, Defer
<1>9. ASSUME NEW m \in Mutations, Handle(r, m) PROVE TypeOK'
  <2>1. PICK o \in Outcomes(KindOf[m]) :
          requests' = [requests EXCEPT
              ![r].handling = m,
              ![r].verdict = o.verdict,
              ![r].effects = IF o.effect THEN @ \cup {m} ELSE @]
    BY <1>9 DEF Handle
  <2>2. o.verdict \in Verdicts
    BY OutcomesType
  <2>3. PICK changed \in SUBSET Mutations :
          requests' = [requests EXCEPT
              ![r].handling = m, ![r].verdict = o.verdict, ![r].effects = changed]
    <3>1. requests[r].effects \in SUBSET Mutations
      BY <1>2 DEF RequestType
    <3> QED BY <2>1, <3>1
  <2>4. [requests[r] EXCEPT !.handling = m, !.verdict = o.verdict,
                            !.effects = changed] \in RequestType
    BY <1>2, <2>2 DEF RequestType
  <2>5. requests' = [requests EXCEPT ![r] = [requests[r] EXCEPT
              !.handling = m, !.verdict = o.verdict, !.effects = changed]]
    BY <2>3
  <2> QED BY <1>9, <2>4, <2>5 DEF Handle
<1>10. ASSUME NEW m \in Mutations, writeReceipt(r, m) PROVE TypeOK'
  <2>1. requests[r].verdict \in Verdicts \cup {"none"}
    BY <1>2 DEF RequestType
  <2>2. Answered(r, m, requests[r].verdict) \in RequestType
    BY <2>1, RequestTypes DEF Answers
  <2>3. [Answered(r, m, requests[r].verdict) EXCEPT
            !.handling = NoMutation, !.verdict = "none",
            !.wrote[m] = requests[r].verdict] \in RequestType
    BY <2>1, <2>2 DEF RequestType
  <2> QED BY <1>10, <2>3 DEF writeReceipt
<1> QED
  BY <1>1, <1>3, <1>4, <1>5, <1>6, <1>7, <1>8, <1>9, <1>10

LEMMA InitType == Init => TypeOK
<1> SUFFICES ASSUME Init PROVE TypeOK
  OBVIOUS
<1>1. NoRow \in OutboxRow
  BY DEF NoRow, OutboxRow, Statuses
<1>2. Nothing \in [Mutations -> Verdicts \cup {"none"}]
  BY DEF Nothing
<1>3. requests \in [Slots -> RequestType]
  BY FreeSlotType DEF Init
<1> QED BY <1>1, <1>2, <1>3 DEF Init, TypeOK

\* Every variable keeps its type: TypeOK, for all constants.
THEOREM TypeCorrect == Spec => []TypeOK
<1>1. TypeOK /\ [Next]_vars => TypeOK'
  <2> SUFFICES ASSUME TypeOK, [Next]_vars PROVE TypeOK'
    OBVIOUS
  <2>1. CASE UNCHANGED vars
    BY <2>1 DEF vars, phone, office, TypeOK
  <2> QED BY <2>1, PhoneStepType, OfficeStepType DEF Next
<1> QED BY InitType, <1>1, PTL DEF Spec

-----------------------------------------------------------------------------
(* SyncInv is inductive.  A step of the phone changes no transaction and   *)
(* no receipt; what it does to the rows and to the requests is said once,  *)
(* in the next two lemmas.                                                 *)

LEMMA PhoneStepRequests ==
    ASSUME TypeOK, PhoneStep
    PROVE  /\ UNCHANGED office
           /\ \A r \in Slots : \/ requests'[r] = requests[r]
                               \/ requests'[r].stage = "free"
                               \/ requests'[r].stage = "sent" /\ Untouched(requests'[r])
<1> DEFINE Goal == /\ UNCHANGED office
                   /\ \A r \in Slots :
                         \/ requests'[r] = requests[r]
                         \/ requests'[r].stage = "free"
                         \/ requests'[r].stage = "sent" /\ Untouched(requests'[r])
<1> USE DEF office, phone, FreeSlot
<1>1. ASSUME NEW r \in Slots, SendBatch(r) PROVE Goal
  BY <1>1 DEF SendBatch, NewRequest, Untouched, TypeOK
<1>2. ASSUME NEW r \in Slots,
             \/ FoldAnswers(r) \/ NetworkFailure(r) \/ ServerFailure(r)
             \/ UnreadableAnswer(r) \/ SignedOut(r) \/ KeystoreFails(r)
      PROVE  Goal
  BY <1>2 DEF FoldAnswers, NetworkFailure, ServerFailure, UnreadableAnswer,
              SignedOut, KeystoreFails, TypeOK
<1>3. CASE Kill
  BY <1>3 DEF Kill, TypeOK
<1>4. ASSUME \/ SyncNow \/ NothingToSend \/ SignIn \/ Startup
             \/ \E m \in Mutations : Capture(m) \/ BackoffElapses(m)
      PROVE  Goal
  BY <1>4 DEF SyncNow, NothingToSend, SignIn, Startup, Capture, BackoffElapses
<1> QED BY <1>1, <1>2, <1>3, <1>4 DEF PhoneStep

\* What the phone may do to a row, and what it is entitled to believe of it.
MayBecome(m, status) ==
    \/ outbox[m].status = status
    \/ /\ outbox[m].status \in {"absent", "pending", "inflight"}
       /\ \/ status \in {"pending", "inflight", "dead"}
          \/ status = "done"       /\ receipts[m] = "accepted"
          \/ status = "conflicted" /\ receipts[m] = "conflict"
          \/ status = "refused"    /\ receipts[m] = "gaps"

LEMMA FoldedStatus ==
    ASSUME NEW row \in OutboxRow, NEW answer
    PROVE  \/ Folded(row, answer) = row
           \/ answer = "accepted" /\ Folded(row, answer).status = "done"
           \/ answer = "conflict" /\ Folded(row, answer).status = "conflicted"
           \/ answer = "gaps"     /\ Folded(row, answer).status = "refused"
           \/ Folded(row, answer).status \in {"pending", "dead"}
BY DEF Folded, OutboxRow, afterAccepted, afterConflict, afterRefusal,
       afterRejected, afterDeferred

LEMMA FailedStatus ==
    ASSUME NEW row \in OutboxRow, NEW jittered
    PROVE  /\ afterTransportFailure(row, jittered).status \in {"pending", "dead"}
           /\ afterProtocolFailure(row).status \in {"pending", "dead"}
           /\ afterSignedOut(row).status \in {"pending", "dead"}
BY DEF afterTransportFailure, afterProtocolFailure, afterSignedOut, OutboxRow

LEMMA PhoneStepRows ==
    ASSUME SyncInv, PhoneStep, NEW m \in Mutations
    PROVE  MayBecome(m, outbox'[m].status)
<1> USE DEF MayBecome
<1>0. /\ TypeOK /\ outbox[m] \in OutboxRow
      /\ DOMAIN outbox = Mutations
  BY DEF SyncInv, TypeOK
<1>1. ASSUME NEW n \in Mutations, Capture(n) \/ BackoffElapses(n)
      PROVE  MayBecome(m, outbox'[m].status)
  BY <1>0, <1>1 DEF Capture, BackoffElapses, NewRow, TypeOK, OutboxRow
<1>2. ASSUME \/ SyncNow \/ NothingToSend \/ SignIn \/ Kill
             \/ \E r \in Slots : KeystoreFails(r)
      PROVE  UNCHANGED outbox
  BY <1>2 DEF SyncNow, NothingToSend, SignIn, Kill, KeystoreFails
<1>3. CASE Startup
  BY <1>0, <1>3 DEF Startup, recoverInflight, OutboxRow
<1>4. ASSUME NEW r \in Slots, SendBatch(r)
      PROVE  MayBecome(m, outbox'[m].status)
  <2>1. m \in planDrain(outbox) => outbox[m].status = "pending"
    BY BatchIsPending DEF Pending
  <2> QED BY <1>0, <1>4, <2>1 DEF SendBatch, markInflight, OutboxRow
<1>5. ASSUME NEW r \in Slots, awaiting = r, m \in Batch(r)
      PROVE  outbox[m].status = "inflight"
  BY <1>5 DEF SyncInv, DrainAwaitsItsBatch
<1>6. ASSUME NEW r \in Slots, FoldAnswers(r)
      PROVE  MayBecome(m, outbox'[m].status)
  <2>1. CASE m \notin Batch(r)
    BY <1>6, <2>1 DEF FoldAnswers
  <2>2. CASE m \in Batch(r)
    <3>1. outbox'[m] = Folded(outbox[m], requests[r].answer[m])
      BY <1>6, <2>2 DEF FoldAnswers
    <3>2. outbox[m].status = "inflight"
      BY <1>5, <1>6, <2>2 DEF FoldAnswers
    <3>3. requests[r].answer[m] \in Verdicts =>
            requests[r].answer[m] \in {receipts[m], ReplayAnswer(receipts[m])}
      BY <1>6 DEF FoldAnswers, SyncInv, AnswersAreSound
    <3> QED BY <1>0, <3>1, <3>2, <3>3, FoldedStatus DEF ReplayAnswer, Verdicts
  <2> QED BY <2>1, <2>2
<1>7. ASSUME NEW r \in Slots,
             NetworkFailure(r) \/ ServerFailure(r) \/ UnreadableAnswer(r) \/ SignedOut(r)
      PROVE  MayBecome(m, outbox'[m].status)
  <2>1. CASE m \notin Batch(r)
    BY <1>7, <2>1 DEF NetworkFailure, ServerFailure, UnreadableAnswer, SignedOut,
                      TransportFailure, BatchFails
  <2>2. CASE m \in Batch(r)
    <3>1. outbox[m].status = "inflight"
      BY <1>5, <1>7, <2>2 DEF NetworkFailure, ServerFailure, UnreadableAnswer,
                              SignedOut, TransportFailure, BatchFails
    <3>2. outbox'[m].status \in {"pending", "dead"}
      BY <1>0, <1>7, <2>2, FailedStatus
         DEF NetworkFailure, ServerFailure, UnreadableAnswer, SignedOut,
             TransportFailure, BatchFails
    <3> QED BY <3>1, <3>2
  <2> QED BY <2>1, <2>2
<1> QED BY <1>1, <1>2, <1>3, <1>4, <1>6, <1>7 DEF PhoneStep

LEMMA PhoneStepDrain ==
    ASSUME SyncInv, PhoneStep
    PROVE  DrainAwaitsItsBatch'
<1>0. TypeOK /\ DrainAwaitsItsBatch
  BY DEF SyncInv
<1> USE DEF DrainAwaitsItsBatch, Batch
<1>1. ASSUME NEW n \in Mutations, Capture(n) \/ BackoffElapses(n)
      PROVE  DrainAwaitsItsBatch'
  <2>1. \A m \in Mutations :
          outbox[m].status = "inflight" => outbox'[m].status = "inflight"
    BY <1>0, <1>1 DEF Capture, BackoffElapses, TypeOK, OutboxRow
  <2>2. UNCHANGED <<drain, awaiting, requests>>
    BY <1>1 DEF Capture, BackoffElapses
  <2>3. \A r \in Slots : requests[r].batch \subseteq Mutations
    BY <1>0 DEF TypeOK, RequestType
  <2> QED BY <1>0, <2>1, <2>2, <2>3
<1>2. CASE SyncNow \/ NothingToSend \/ SignIn
  BY <1>0, <1>2 DEF SyncNow, NothingToSend, SignIn
<1>3. CASE Kill \/ Startup
  BY <1>0, <1>3, SyncAssumption DEF Kill, Startup
<1>4. ASSUME NEW r \in Slots, SendBatch(r) PROVE DrainAwaitsItsBatch'
  <2>1. /\ drain' = "awaiting" /\ awaiting' = r
        /\ requests'[r].batch = planDrain(outbox)
    BY <1>0, <1>4 DEF SendBatch, NewRequest, FreeSlot, TypeOK
  <2>2. \A m \in planDrain(outbox) : outbox'[m].status = "inflight"
    BY <1>0, <1>4, BatchIsPending DEF SendBatch, markInflight, TypeOK, OutboxRow
  <2> QED BY <2>1, <2>2, SyncAssumption
<1>5. ASSUME NEW r \in Slots,
             \/ FoldAnswers(r) \/ NetworkFailure(r) \/ ServerFailure(r)
             \/ UnreadableAnswer(r) \/ SignedOut(r) \/ KeystoreFails(r)
      PROVE  DrainAwaitsItsBatch'
  <2>1. awaiting' = NoRequest /\ drain' # "awaiting"
    BY <1>5 DEF FoldAnswers, NetworkFailure, ServerFailure, UnreadableAnswer,
                SignedOut, KeystoreFails, TransportFailure, BatchFails
  <2> QED BY <2>1, SyncAssumption
<1> QED BY <1>1, <1>2, <1>3, <1>4, <1>5 DEF PhoneStep

LEMMA PhoneStepInv == ASSUME SyncInv, PhoneStep PROVE SyncInv'
<1>0. TypeOK
  BY DEF SyncInv
<1>1. TypeOK'
  BY <1>0, PhoneStepType
<1>2. /\ UNCHANGED <<receipts, applied>>
      /\ \A r \in Slots :
            \/ requests'[r] = requests[r]
            \/ requests'[r].stage = "free"
            \/ requests'[r].stage = "sent" /\ Untouched(requests'[r])
  BY <1>0, PhoneStepRequests DEF office
<1>3. OneWriter'
  BY <1>2 DEF SyncInv, OneWriter
<1>4. TransactionsAreSound'
  BY <1>2 DEF SyncInv, TransactionsAreSound, Decided, VerdictOn, Ledger
<1>5. AnswersAreSound'
  BY <1>2 DEF SyncInv, AnswersAreSound, Ledger
<1>6. AtMostOnce' /\ EvidenceFirst'
  BY <1>2 DEF SyncInv, AtMostOnce, EvidenceFirst
<1>7. PhoneBelievesLedger'
  BY <1>2, PhoneStepRows DEF MayBecome, SyncInv, PhoneBelievesLedger
<1>8. RequestsBeginUntouched'
  BY <1>2 DEF SyncInv, RequestsBeginUntouched, Untouched, Nothing
<1> QED BY <1>1, <1>3, <1>4, <1>5, <1>6, <1>7, <1>8, PhoneStepDrain DEF SyncInv

-----------------------------------------------------------------------------
(* The office.                                                             *)

\* Steps that end a request without committing it, or begin it.
LEMMA RequestEndsInv ==
    ASSUME SyncInv, NEW r \in Slots,
           \/ LoseRequest(r) \/ Deny(r) \/ Abort(r) \/ Begin(r)
           \/ \E m \in Mutations : DuplicateReceipt(r, m)
    PROVE  SyncInv'
<1>0. TypeOK
  BY DEF SyncInv
<1>1. TypeOK'
  BY <1>0, OfficeStepType DEF OfficeStep
<1>2. /\ UNCHANGED <<outbox, drain, awaiting, receipts, applied>>
      /\ \A q \in Slots \ {r} : requests'[q] = requests[q]
  BY <1>0 DEF LoseRequest, Deny, Abort, Begin, DuplicateReceipt, phone, office, TypeOK
<1>3. \/ requests'[r].stage \in {"free", "failed", "denied"}
      \/ /\ requests'[r].stage = "open"
         /\ Untouched(requests'[r])
  <2>1. CASE Begin(r)
    BY <1>0, <2>1 DEF Begin, SyncInv, RequestsBeginUntouched, Untouched, TypeOK, RequestType
  <2>2. CASE LoseRequest(r) \/ Deny(r) \/ Abort(r)
             \/ \E m \in Mutations : DuplicateReceipt(r, m)
    BY <1>0, <2>2 DEF LoseRequest, Deny, Abort, DuplicateReceipt, Respond, FreeSlot,
                      TypeOK, RequestType
  <2> QED BY <2>1, <2>2
<1>4. awaiting = r => requests'[r].batch = requests[r].batch
  BY <1>0 DEF LoseRequest, Deny, Abort, Begin, DuplicateReceipt, Respond, TypeOK, RequestType
<1>5. RequestsBeginUntouched'
  BY <1>2, <1>3 DEF SyncInv, RequestsBeginUntouched, Untouched, Nothing
<1>6. OneWriter'
  BY <1>2, <1>3 DEF SyncInv, OneWriter, Untouched, Nothing
<1>7. TransactionsAreSound'
  BY <1>2, <1>3, OutboxAssumption
     DEF SyncInv, TransactionsAreSound, Decided, VerdictOn, Ledger, Untouched, Nothing
<1>8. AnswersAreSound'
  BY <1>2, <1>3 DEF SyncInv, AnswersAreSound, Ledger, Untouched, Nothing, Verdicts
<1>9. DrainAwaitsItsBatch'
  BY <1>2, <1>4 DEF SyncInv, DrainAwaitsItsBatch, Batch
<1>10. AtMostOnce' /\ PhoneBelievesLedger' /\ EvidenceFirst'
  BY <1>2 DEF SyncInv, AtMostOnce, PhoneBelievesLedger, EvidenceFirst
<1> QED BY <1>1, <1>5, <1>6, <1>7, <1>8, <1>9, <1>10 DEF SyncInv

\* Replay and Defer answer without deciding.
LEMMA AnswerInv ==
    ASSUME SyncInv, NEW r \in Slots, NEW m \in Mutations, Replay(r, m) \/ Defer(r, m)
    PROVE  SyncInv'
<1>0. TypeOK /\ requests[r] \in RequestType
  BY DEF SyncInv, TypeOK
<1>1. TypeOK'
  BY <1>0, OfficeStepType DEF OfficeStep
<1>2. PICK answer :
        /\ UNCHANGED <<outbox, drain, awaiting, receipts, applied>>
        /\ requests' = [requests EXCEPT ![r] = Answered(r, m, answer)]
        /\ answer \in {"deferred", ReplayAnswer(Ledger(r, m))}
  BY DEF Replay, Defer, phone, office
<1>3. /\ \A q \in Slots \ {r} : requests'[q] = requests[q]
      /\ requests[r].stage = "open"
      /\ requests'[r].stage = "open"
      /\ requests'[r].wrote = requests[r].wrote
      /\ requests'[r].effects = requests[r].effects
      /\ requests'[r].handling = requests[r].handling
      /\ requests'[r].verdict = requests[r].verdict
      /\ requests'[r].batch = requests[r].batch
      /\ requests'[r].answer[m] = answer
      /\ \A n \in Mutations \ {m} : requests'[r].answer[n] = requests[r].answer[n]
  BY <1>0, <1>2 DEF Replay, Defer, Turn, Answered, TypeOK, RequestType
<1>4. \A q \in Slots, n \in Mutations : Ledger(q, n)' = Ledger(q, n)
  BY <1>2, <1>3 DEF Ledger
<1>5. RequestsBeginUntouched'
  BY <1>3 DEF SyncInv, RequestsBeginUntouched
<1>6. OneWriter'
  BY <1>3 DEF SyncInv, OneWriter
<1>7. TransactionsAreSound'
  BY <1>2, <1>3 DEF SyncInv, TransactionsAreSound, Decided, VerdictOn, Ledger
<1>8. AnswersAreSound'
  <2> SUFFICES ASSUME NEW q \in Slots, NEW n \in Mutations,
                      requests'[q].stage \in {"open", "answered"},
                      requests'[q].answer[n] \in Verdicts
               PROVE  LET entry == IF requests'[q].stage = "open"
                                   THEN Ledger(q, n)' ELSE receipts'[n]
                      IN  requests'[q].answer[n] \in {entry, ReplayAnswer(entry)}
    BY DEF AnswersAreSound, ReplayAnswer
  <2>1. CASE q = r /\ n = m
    BY <1>2, <1>3, <1>4, <2>1 DEF Verdicts
  <2>2. CASE q # r \/ n # m
    BY <1>2, <1>3, <1>4, <2>2 DEF SyncInv, AnswersAreSound
  <2> QED BY <2>1, <2>2
<1>9. DrainAwaitsItsBatch'
  BY <1>2, <1>3 DEF SyncInv, DrainAwaitsItsBatch, Batch
<1>10. AtMostOnce' /\ PhoneBelievesLedger' /\ EvidenceFirst'
  BY <1>2 DEF SyncInv, AtMostOnce, PhoneBelievesLedger, EvidenceFirst
<1> QED BY <1>1, <1>5, <1>6, <1>7, <1>8, <1>9, <1>10 DEF SyncInv

\* The handler runs: nothing is decided yet, and the parent has landed.
LEMMA HandleInv ==
    ASSUME SyncInv, NEW r \in Slots, NEW m \in Mutations, Handle(r, m)
    PROVE  SyncInv'
<1>0. TypeOK /\ requests[r] \in RequestType /\ NoMutation \notin Mutations
  BY OutboxAssumption DEF SyncInv, TypeOK
<1>1. TypeOK'
  BY <1>0, OfficeStepType DEF OfficeStep
<1>2. PICK o \in Outcomes(KindOf[m]) :
        requests' = [requests EXCEPT
            ![r].handling = m,
            ![r].verdict = o.verdict,
            ![r].effects = IF o.effect THEN @ \cup {m} ELSE @]
  BY DEF Handle
<1>3. /\ UNCHANGED <<outbox, drain, awaiting, receipts, applied>>
      /\ requests[r].stage = "open" /\ requests[r].handling = NoMutation
      /\ Ledger(r, m) = "none" /\ DependencyLanded(r, m)
  BY DEF Handle, Turn, phone, office
<1>4. /\ \A q \in Slots \ {r} : requests'[q] = requests[q]
      /\ requests'[r].stage = "open"
      /\ requests'[r].handling = m
      /\ requests'[r].verdict = o.verdict
      /\ requests'[r].wrote = requests[r].wrote
      /\ requests'[r].answer = requests[r].answer
      /\ requests'[r].batch = requests[r].batch
      /\ requests'[r].effects = IF o.effect THEN requests[r].effects \cup {m}
                                            ELSE requests[r].effects
  BY <1>0, <1>2, <1>3 DEF TypeOK, RequestType
<1>5. \A q \in Slots, n \in Mutations : Ledger(q, n)' = Ledger(q, n)
  BY <1>3, <1>4 DEF Ledger
<1>6. RequestsBeginUntouched' /\ OneWriter' /\ AnswersAreSound'
  <2>1. RequestsBeginUntouched'
    BY <1>4 DEF SyncInv, RequestsBeginUntouched
  <2>2. OneWriter'
    BY <1>4, <1>3 DEF SyncInv, OneWriter
  <2>3. AnswersAreSound'
    BY <1>3, <1>4 DEF SyncInv, AnswersAreSound, Ledger
  <2> QED BY <2>1, <2>2, <2>3
<1>7. TransactionsAreSound'
  <2>1. requests[r].wrote[m] = "none" /\ m \notin requests[r].effects
    BY <1>0, <1>3 DEF Ledger, SyncInv, TransactionsAreSound, Decided
  <2>2. ASSUME NEW n \in Mutations
        PROVE  /\ requests'[r].wrote[n] # "none" =>
                      receipts'[n] = "none" /\ requests'[r].handling # n
               /\ n \in requests'[r].effects =>
                      Decided(r, n)' /\ VerdictOn(r, n)' \in {"accepted", "conflict"}
               /\ Decided(r, n)' /\ DependsOn[n] # NoMutation =>
                      Ledger(r, DependsOn[n])' = "accepted"
    <3>1. CASE n = m
      <4>1. Ledger(r, DependsOn[m])' = Ledger(r, DependsOn[m])
        BY <1>3, <1>4 DEF Ledger
      <4>2. n \in requests'[r].effects => o.effect
        BY <1>4, <2>1, <3>1
      <4> QED
        BY <1>3, <1>4, <2>1, <3>1, <4>1, <4>2, OutcomesType
           DEF Decided, VerdictOn, DependencyLanded
    <3>2. CASE n # m
      <4>1. /\ n \in requests'[r].effects <=> n \in requests[r].effects
            /\ Ledger(r, DependsOn[n])' = Ledger(r, DependsOn[n])
            /\ Decided(r, n)' <=> requests[r].wrote[n] # "none"
            /\ requests[r].handling # n
        BY <1>0, <1>3, <1>4, <3>2 DEF Decided, Ledger
      <4> QED BY <1>3, <1>4, <3>2, <4>1
              DEF SyncInv, TransactionsAreSound, Decided, VerdictOn
    <3> QED BY <3>1, <3>2
  <2>3. ASSUME NEW q \in Slots \ {r}, NEW n \in Mutations, requests'[q].stage = "open"
        PROVE  /\ requests'[q].wrote[n] # "none" =>
                      receipts'[n] = "none" /\ requests'[q].handling # n
               /\ n \in requests'[q].effects =>
                      Decided(q, n)' /\ VerdictOn(q, n)' \in {"accepted", "conflict"}
               /\ Decided(q, n)' /\ DependsOn[n] # NoMutation =>
                      Ledger(q, DependsOn[n])' = "accepted"
    BY <1>3, <1>4, <2>3 DEF SyncInv, TransactionsAreSound, Decided, VerdictOn, Ledger
  <2> QED BY <2>2, <2>3 DEF TransactionsAreSound
<1>8. DrainAwaitsItsBatch'
  BY <1>3, <1>4 DEF SyncInv, DrainAwaitsItsBatch, Batch
<1>9. AtMostOnce' /\ PhoneBelievesLedger' /\ EvidenceFirst'
  BY <1>3 DEF SyncInv, AtMostOnce, PhoneBelievesLedger, EvidenceFirst
<1> QED BY <1>1, <1>6, <1>7, <1>8, <1>9 DEF SyncInv

\* The receipt is written: the unique index admits it only when nobody else
\* holds or has committed one.
LEMMA ReceiptInv ==
    ASSUME SyncInv, NEW r \in Slots, NEW m \in Mutations, writeReceipt(r, m)
    PROVE  SyncInv'
<1>0. TypeOK /\ requests[r] \in RequestType /\ NoMutation \notin Mutations
  BY OutboxAssumption DEF SyncInv, TypeOK
<1>1. TypeOK'
  BY <1>0, OfficeStepType DEF OfficeStep
<1>2. /\ UNCHANGED <<outbox, drain, awaiting, receipts, applied>>
      /\ requests[r].stage = "open" /\ requests[r].handling = m
      /\ receipts[m] = "none" /\ ~HeldByAnother(r, m)
  BY DEF writeReceipt, phone, office
<1>3. /\ \A q \in Slots \ {r} : requests'[q] = requests[q]
      /\ requests'[r].stage = "open"
      /\ requests'[r].handling = NoMutation
      /\ requests'[r].wrote = [requests[r].wrote EXCEPT ![m] = requests[r].verdict]
      /\ requests'[r].answer = [requests[r].answer EXCEPT ![m] = requests[r].verdict]
      /\ requests'[r].batch = requests[r].batch
      /\ requests'[r].effects = requests[r].effects
  BY <1>0, <1>2 DEF writeReceipt, Answered, TypeOK, RequestType
<1>4. /\ requests[r].wrote[m] = "none"
      /\ requests'[r].wrote[m] = requests[r].verdict
      /\ requests'[r].answer[m] = requests[r].verdict
      /\ \A n \in Mutations \ {m} : /\ requests'[r].wrote[n] = requests[r].wrote[n]
                                    /\ requests'[r].answer[n] = requests[r].answer[n]
  BY <1>0, <1>2, <1>3 DEF SyncInv, TransactionsAreSound, RequestType
<1>11. ASSUME NEW q \in Slots, NEW n \in Mutations, q # r \/ n # m
       PROVE  /\ requests'[q].stage = requests[q].stage
              /\ requests'[q].wrote[n] = requests[q].wrote[n]
              /\ requests'[q].answer[n] = requests[q].answer[n]
              /\ Ledger(q, n)' = Ledger(q, n)
  <2>1. /\ requests'[q].stage = requests[q].stage
        /\ requests'[q].wrote[n] = requests[q].wrote[n]
        /\ requests'[q].answer[n] = requests[q].answer[n]
    <3>1. CASE q # r
      BY <1>3, <3>1
    <3>2. CASE q = r
      <4>1. n \in Mutations \ {m}
        BY <1>11, <3>2
      <4>2. /\ requests'[r].wrote[n] = requests[r].wrote[n]
            /\ requests'[r].answer[n] = requests[r].answer[n]
        BY <1>4, <4>1
      <4> QED BY <1>2, <1>3, <3>2, <4>2
    <3> QED BY <3>1, <3>2
  <2> QED BY <1>2, <2>1 DEF Ledger
<1>5. RequestsBeginUntouched'
  BY <1>3 DEF SyncInv, RequestsBeginUntouched
<1>6. OneWriter'
  <2> SUFFICES ASSUME NEW p \in Slots, NEW q \in Slots, NEW n \in Mutations,
                      requests'[p].stage = "open", requests'[p].wrote[n] # "none",
                      requests'[q].stage = "open", requests'[q].wrote[n] # "none"
               PROVE  p = q
    BY DEF OneWriter
  <2>1. CASE n # m
    <3>1. /\ requests[p].stage = "open" /\ requests[p].wrote[n] # "none"
          /\ requests[q].stage = "open" /\ requests[q].wrote[n] # "none"
      BY <1>11, <2>1
    <3> QED BY <3>1 DEF SyncInv, OneWriter
  <2>2. CASE n = m
    <3>1. p = r /\ q = r
      BY <1>2, <1>3, <2>2 DEF HeldByAnother
    <3> QED BY <3>1
  <2> QED BY <2>1, <2>2
<1>7. TransactionsAreSound'
  <2>1. ASSUME NEW n \in Mutations
        PROVE  /\ requests'[r].wrote[n] # "none" =>
                      receipts'[n] = "none" /\ requests'[r].handling # n
               /\ n \in requests'[r].effects =>
                      Decided(r, n)' /\ VerdictOn(r, n)' \in {"accepted", "conflict"}
               /\ Decided(r, n)' /\ DependsOn[n] # NoMutation =>
                      Ledger(r, DependsOn[n])' = "accepted"
    <3>1. requests'[r].wrote[n] # "none" =>
              receipts'[n] = "none" /\ requests'[r].handling # n
      BY <1>0, <1>2, <1>3, <1>4 DEF SyncInv, TransactionsAreSound
    <3>2. n \in requests'[r].effects =>
              Decided(r, n)' /\ VerdictOn(r, n)' \in {"accepted", "conflict"}
      <4>1. n \in requests[r].effects =>
              Decided(r, n) /\ VerdictOn(r, n) \in {"accepted", "conflict"}
        BY <1>2 DEF SyncInv, TransactionsAreSound
      <4> QED BY <1>2, <1>3, <1>4, <4>1 DEF Decided, VerdictOn
    <3>3. Decided(r, n)' /\ DependsOn[n] # NoMutation =>
              Ledger(r, DependsOn[n])' = "accepted"
      <4>1. Decided(r, n)' => Decided(r, n)
        BY <1>0, <1>2, <1>3, <1>4 DEF Decided
      <4>2. Decided(r, n) /\ DependsOn[n] # NoMutation =>
              Ledger(r, DependsOn[n]) = "accepted" /\ DependsOn[n] \in Mutations
        BY <1>2, OutboxAssumption DEF SyncInv, TransactionsAreSound
      <4>3. Ledger(r, m) = "none"
        BY <1>2, <1>4 DEF Ledger
      <4> QED BY <1>2, <1>4, <4>1, <4>2, <4>3 DEF Ledger
    <3> QED BY <3>1, <3>2, <3>3
  <2>2. ASSUME NEW q \in Slots \ {r}, NEW n \in Mutations, requests'[q].stage = "open"
        PROVE  /\ requests'[q].wrote[n] # "none" =>
                      receipts'[n] = "none" /\ requests'[q].handling # n
               /\ n \in requests'[q].effects =>
                      Decided(q, n)' /\ VerdictOn(q, n)' \in {"accepted", "conflict"}
               /\ Decided(q, n)' /\ DependsOn[n] # NoMutation =>
                      Ledger(q, DependsOn[n])' = "accepted"
    BY <1>2, <1>3, <2>2 DEF SyncInv, TransactionsAreSound, Decided, VerdictOn, Ledger
  <2> QED BY <2>1, <2>2 DEF TransactionsAreSound
<1>8. AnswersAreSound'
  <2> SUFFICES ASSUME NEW q \in Slots, NEW n \in Mutations,
                      requests'[q].stage \in {"open", "answered"},
                      requests'[q].answer[n] \in Verdicts
               PROVE  LET entry == IF requests'[q].stage = "open"
                                   THEN Ledger(q, n)' ELSE receipts'[n]
                      IN  requests'[q].answer[n] \in {entry, ReplayAnswer(entry)}
    BY DEF AnswersAreSound, ReplayAnswer
  <2>1. CASE q = r /\ n = m
    <3>1. requests'[q].wrote[n] # "none"
      <4>1. "none" \notin Verdicts
        BY DEF Verdicts
      <4> QED BY <1>4, <2>1, <4>1
    <3>2. Ledger(q, n)' = requests'[q].wrote[n]
      BY <3>1 DEF Ledger
    <3>3. requests'[q].stage = "open" /\ requests'[q].answer[n] = requests'[q].wrote[n]
      BY <1>3, <1>4, <2>1
    <3> QED BY <3>2, <3>3
  <2>2. CASE q # r \/ n # m
    BY <1>2, <1>11, <2>2 DEF SyncInv, AnswersAreSound
  <2> QED BY <2>1, <2>2
<1>9. DrainAwaitsItsBatch'
  BY <1>2, <1>3 DEF SyncInv, DrainAwaitsItsBatch, Batch
<1>10. AtMostOnce' /\ PhoneBelievesLedger' /\ EvidenceFirst'
  BY <1>2 DEF SyncInv, AtMostOnce, PhoneBelievesLedger, EvidenceFirst
<1> QED BY <1>1, <1>5, <1>6, <1>7, <1>8, <1>9, <1>10 DEF SyncInv

\* What a commit does to the ledger and to the effects.
LEMMA CommitFacts ==
    ASSUME SyncInv, NEW r \in Slots, Commit(r), NEW m \in Mutations
    PROVE  /\ receipts'[m] = Ledger(r, m)
           /\ receipts[m] # "none" => receipts'[m] = receipts[m]
           /\ \/ applied'[m] = applied[m]
              \/ /\ applied[m] = 0 /\ applied'[m] = 1
                 /\ receipts[m] = "none"
                 /\ receipts'[m] \in {"accepted", "conflict"}
           /\ receipts'[m] # "none" /\ DependsOn[m] # NoMutation =>
                 receipts'[DependsOn[m]] = "accepted"
<1>0. /\ receipts' = [n \in Mutations |-> Ledger(r, n)]
      /\ applied' = [n \in Mutations |->
                       IF n \in requests[r].effects THEN applied[n] + 1 ELSE applied[n]]
      /\ requests[r].stage = "open" /\ requests[r].handling = NoMutation
      /\ NoMutation \notin Mutations /\ applied[m] \in Nat
  BY OutboxAssumption DEF Commit, SyncInv, TypeOK
<1>1. \A n \in Mutations : receipts[n] # "none" => receipts'[n] = receipts[n]
  BY <1>0 DEF Ledger, SyncInv, TransactionsAreSound
<1>2. \/ applied'[m] = applied[m]
      \/ /\ applied[m] = 0 /\ applied'[m] = 1
         /\ receipts[m] = "none"
         /\ receipts'[m] \in {"accepted", "conflict"}
  <2>1. CASE m \notin requests[r].effects
    BY <1>0, <2>1
  <2>2. CASE m \in requests[r].effects
    <3>1. /\ requests[r].wrote[m] \in {"accepted", "conflict"}
          /\ receipts[m] = "none"
      BY <1>0, <2>2 DEF SyncInv, TransactionsAreSound, Decided, VerdictOn
    <3>2. applied[m] = 0
      BY <1>0, <3>1 DEF SyncInv, AtMostOnce
    <3> QED BY <1>0, <2>2, <3>1, <3>2 DEF Ledger
  <2> QED BY <2>1, <2>2
<1>3. ASSUME receipts'[m] # "none", DependsOn[m] # NoMutation
      PROVE  receipts'[DependsOn[m]] = "accepted"
  <2>1. DependsOn[m] \in Mutations
    BY <1>3, OutboxAssumption
  <2>2. CASE requests[r].wrote[m] # "none"
    BY <1>0, <1>3, <2>1, <2>2 DEF SyncInv, TransactionsAreSound, Decided
  <2>3. CASE requests[r].wrote[m] = "none"
    <3>1. receipts[DependsOn[m]] = "accepted"
      BY <1>0, <1>3, <2>3 DEF Ledger, SyncInv, EvidenceFirst
    <3> QED BY <1>1, <2>1, <3>1
  <2> QED BY <2>2, <2>3
<1> QED BY <1>0, <1>1, <1>2, <1>3

LEMMA CommitInv == ASSUME SyncInv, NEW r \in Slots, Commit(r) PROVE SyncInv'
<1>0. TypeOK /\ requests[r] \in RequestType
  BY DEF SyncInv, TypeOK
<1>1. TypeOK'
  BY <1>0, OfficeStepType DEF OfficeStep
<1>2. /\ UNCHANGED <<outbox, drain, awaiting>>
      /\ requests[r].stage = "open"
      /\ \A q \in Slots \ {r} : requests'[q] = requests[q]
  BY <1>0 DEF Commit, phone, TypeOK
<1>3. /\ requests'[r].stage \in {"answered", "free"}
      /\ requests'[r].stage = "answered" => requests'[r].answer = requests[r].answer
      /\ awaiting = r => requests'[r].batch = requests[r].batch
  BY <1>0 DEF Commit, Respond, FreeSlot, TypeOK, RequestType
<1>4. /\ \A m \in Mutations : receipts'[m] = Ledger(r, m)
      /\ \A m \in Mutations : receipts[m] # "none" => receipts'[m] = receipts[m]
  BY CommitFacts
<1>5. ASSUME NEW q \in Slots \ {r}, requests[q].stage = "open", NEW m \in Mutations
      PROVE  /\ requests[q].wrote[m] # "none" => receipts'[m] = "none"
             /\ Ledger(q, m) # "none" => Ledger(q, m)' = Ledger(q, m)
  <2>1. requests[q].wrote[m] # "none" => requests[r].wrote[m] = "none" /\ receipts[m] = "none"
    BY <1>2, <1>5 DEF SyncInv, OneWriter, TransactionsAreSound
  <2> QED BY <1>2, <1>4, <1>5, <2>1 DEF Ledger
<1>6. RequestsBeginUntouched'
  BY <1>2, <1>3 DEF SyncInv, RequestsBeginUntouched
<1>7. OneWriter'
  BY <1>2, <1>3 DEF SyncInv, OneWriter
<1>8. TransactionsAreSound'
  <2> SUFFICES ASSUME NEW q \in Slots, NEW m \in Mutations, requests'[q].stage = "open"
               PROVE  /\ requests'[q].wrote[m] # "none" =>
                             receipts'[m] = "none" /\ requests'[q].handling # m
                      /\ m \in requests'[q].effects =>
                             Decided(q, m)' /\ VerdictOn(q, m)' \in {"accepted", "conflict"}
                      /\ Decided(q, m)' /\ DependsOn[m] # NoMutation =>
                             Ledger(q, DependsOn[m])' = "accepted"
    BY DEF TransactionsAreSound
  <2>1. q # r /\ requests'[q] = requests[q]
    BY <1>2, <1>3
  <2>2. /\ requests'[q].wrote[m] # "none" =>
               receipts'[m] = "none" /\ requests'[q].handling # m
        /\ m \in requests'[q].effects =>
               Decided(q, m)' /\ VerdictOn(q, m)' \in {"accepted", "conflict"}
    BY <1>5, <2>1 DEF SyncInv, TransactionsAreSound, Decided, VerdictOn
  <2>3. ASSUME Decided(q, m)', DependsOn[m] # NoMutation
        PROVE  Ledger(q, DependsOn[m])' = "accepted"
    <3>1. Ledger(q, DependsOn[m]) = "accepted" /\ DependsOn[m] \in Mutations
      BY <2>1, <2>3, OutboxAssumption DEF SyncInv, TransactionsAreSound, Decided
    <3> QED BY <1>5, <2>1, <3>1
  <2> QED BY <2>2, <2>3
<1>9. AnswersAreSound'
  <2> SUFFICES ASSUME NEW q \in Slots, NEW m \in Mutations,
                      requests'[q].stage \in {"open", "answered"},
                      requests'[q].answer[m] \in Verdicts
               PROVE  LET entry == IF requests'[q].stage = "open"
                                   THEN Ledger(q, m)' ELSE receipts'[m]
                      IN  requests'[q].answer[m] \in {entry, ReplayAnswer(entry)}
    BY DEF AnswersAreSound, ReplayAnswer
  <2>1. CASE q = r
    <3>1. requests[r].answer[m] \in {Ledger(r, m), ReplayAnswer(Ledger(r, m))}
      BY <1>2, <1>3, <2>1 DEF SyncInv, AnswersAreSound
    <3> QED BY <1>3, <1>4, <2>1, <3>1
  <2>2. CASE q # r
    <3>1. requests'[q] = requests[q]
      BY <1>2, <2>2
    <3> DEFINE entry == IF requests[q].stage = "open" THEN Ledger(q, m) ELSE receipts[m]
    <3>2. requests[q].answer[m] \in {entry, ReplayAnswer(entry)}
      BY <3>1 DEF SyncInv, AnswersAreSound
    <3>3. entry # "none"
      BY <3>1, <3>2 DEF ReplayAnswer, Verdicts
    <3>4. entry = IF requests'[q].stage = "open" THEN Ledger(q, m)' ELSE receipts'[m]
      BY <1>4, <1>5, <2>2, <3>1, <3>3
    <3> QED BY <3>1, <3>2, <3>4
  <2> QED BY <2>1, <2>2
<1>10. DrainAwaitsItsBatch'
  BY <1>2, <1>3 DEF SyncInv, DrainAwaitsItsBatch, Batch
<1>11. AtMostOnce'
  BY <1>4, CommitFacts DEF SyncInv, AtMostOnce
<1>12. EvidenceFirst'
  BY CommitFacts DEF EvidenceFirst
<1>13. PhoneBelievesLedger'
  BY <1>2, <1>4 DEF SyncInv, PhoneBelievesLedger
<1> QED BY <1>1, <1>6, <1>7, <1>8, <1>9, <1>10, <1>11, <1>12, <1>13 DEF SyncInv

-----------------------------------------------------------------------------
(* The theorems.                                                           *)

LEMMA OfficeStepInv == ASSUME SyncInv, OfficeStep PROVE SyncInv'
BY RequestEndsInv, AnswerInv, HandleInv, ReceiptInv, CommitInv DEF OfficeStep

LEMMA InitInv == Init => SyncInv
<1> SUFFICES ASSUME Init PROVE SyncInv
  OBVIOUS
<1>1. TypeOK
  BY InitType
<1>2. /\ \A r \in Slots : requests[r].stage = "free"
      /\ \A m \in Mutations : receipts[m] = "none" /\ applied[m] = 0
                               /\ outbox[m].status = "absent"
      /\ drain = "idle" /\ awaiting = NoRequest
  BY DEF Init, FreeSlot, Nothing, NoRow
<1> QED BY <1>1, <1>2, SyncAssumption
        DEF SyncInv, RequestsBeginUntouched, OneWriter, TransactionsAreSound,
            AnswersAreSound, DrainAwaitsItsBatch, AtMostOnce, PhoneBelievesLedger,
            EvidenceFirst

LEMMA StutterInv == ASSUME SyncInv, UNCHANGED vars PROVE SyncInv'
<1>1. UNCHANGED <<outbox, uptime, drain, awaiting, needsSignIn, disruptions,
                  requests, receipts, applied>>
  BY DEF vars, phone, office
<1>2. TypeOK'
  BY <1>1 DEF SyncInv, TypeOK
<1>3. RequestsBeginUntouched' /\ OneWriter' /\ AnswersAreSound'
  BY <1>1 DEF SyncInv, RequestsBeginUntouched, OneWriter, AnswersAreSound, Ledger
<1>4. TransactionsAreSound'
  BY <1>1 DEF SyncInv, TransactionsAreSound, Decided, VerdictOn, Ledger
<1>5. DrainAwaitsItsBatch' /\ AtMostOnce' /\ PhoneBelievesLedger' /\ EvidenceFirst'
  BY <1>1 DEF SyncInv, DrainAwaitsItsBatch, Batch, AtMostOnce, PhoneBelievesLedger,
              EvidenceFirst
<1> QED BY <1>2, <1>3, <1>4, <1>5 DEF SyncInv

\* SyncInv holds of every reachable state.
THEOREM Invariance == Spec => []SyncInv
<1>1. SyncInv /\ [Next]_vars => SyncInv'
  BY PhoneStepInv, OfficeStepInv, StutterInv DEF Next
<1> QED BY InitInv, <1>1, PTL DEF Spec

\* A mutation takes effect at most once, however often and however
\* concurrently it is sent, and only under a receipt that says so.
THEOREM EffectsHappenOnce == Spec => []AtMostOnce
<1>1. SyncInv => AtMostOnce
  BY DEF SyncInv
<1> QED BY Invariance, <1>1, PTL

\* The phone never believes more than the ledger holds.
THEOREM PhoneNeverMistaken == Spec => []PhoneBelievesLedger
<1>1. SyncInv => PhoneBelievesLedger
  BY DEF SyncInv
<1> QED BY Invariance, <1>1, PTL

\* Nothing is decided before what it depends on has been accepted.
THEOREM EvidenceArrivesFirst == Spec => []EvidenceFirst
<1>1. SyncInv => EvidenceFirst
  BY DEF SyncInv
<1> QED BY Invariance, <1>1, PTL

\* Office steps leave the phone's rows alone, and change the ledger and the
\* effects only by committing.
LEMMA OfficeStepEffects ==
    ASSUME SyncInv, OfficeStep
    PROVE  /\ UNCHANGED outbox
           /\ \/ UNCHANGED office
              \/ \E r \in Slots : Commit(r)
<1>1. PICK r \in Slots :
        \/ LoseRequest(r) \/ Begin(r) \/ Deny(r) \/ Abort(r) \/ Commit(r)
        \/ \E m \in Mutations :
              \/ Replay(r, m) \/ Defer(r, m) \/ Handle(r, m)
              \/ writeReceipt(r, m) \/ DuplicateReceipt(r, m)
  BY DEF OfficeStep
<1>2. UNCHANGED outbox
  BY <1>1 DEF LoseRequest, Begin, Deny, Abort, Commit, Replay, Defer, Handle,
              writeReceipt, DuplicateReceipt, phone
<1>3. UNCHANGED office \/ Commit(r)
  BY <1>1 DEF LoseRequest, Begin, Deny, Abort, Replay, Defer, Handle,
              writeReceipt, DuplicateReceipt, office
<1> QED BY <1>2, <1>3

\* A verdict, once in the ledger, stays.
THEOREM VerdictsAreFinal == Spec => VerdictIsFinal
<1> DEFINE Keeps == \A m \in Mutations : receipts[m] # "none" => receipts'[m] = receipts[m]
<1>1. SyncInv /\ [Next]_vars => [Keeps]_vars
  <2> SUFFICES ASSUME SyncInv, Next PROVE Keeps
    OBVIOUS
  <2>1. CASE PhoneStep
    BY <2>1, PhoneStepRequests DEF SyncInv, office
  <2>2. CASE OfficeStep
    BY <2>2, OfficeStepEffects, CommitFacts DEF office
  <2> QED BY <2>1, <2>2 DEF Next
<1> QED BY Invariance, <1>1, PTL DEF Spec, VerdictIsFinal

\* A row the phone has an answer to is never sent again.
THEOREM AnswersAreFinal == Spec => AnswerIsFinal
<1> DEFINE Keeps == \A m \in Mutations :
                       outbox[m].status \in {"done", "conflicted", "refused"}
                           => outbox'[m].status = outbox[m].status
<1>1. SyncInv /\ [Next]_vars => [Keeps]_vars
  <2> SUFFICES ASSUME SyncInv, Next PROVE Keeps
    OBVIOUS
  <2>1. CASE PhoneStep
    BY <2>1, PhoneStepRows DEF MayBecome
  <2>2. CASE OfficeStep
    BY <2>2, OfficeStepEffects
  <2> QED BY <2>1, <2>2 DEF Next
<1> QED BY Invariance, <1>1, PTL DEF Spec, AnswerIsFinal

-----------------------------------------------------------------------------
(* FieldSync implements Delivery.                                          *)

decidedBar == [m \in Mutations |-> ReplayAnswer(receipts[m])]

toldBar == [m \in Mutations |->
              CASE outbox[m].status = "done"       -> "accepted"
                [] outbox[m].status = "conflicted" -> "conflict"
                [] outbox[m].status = "refused"    -> "rejected"
                [] OTHER                           -> "none"]

LEMMA DecidedType ==
    ASSUME TypeOK
    PROVE  decidedBar \in [Mutations -> D!Known]
BY DEF decidedBar, D!Known, D!Decisions, ReplayAnswer, TypeOK, Verdicts

LEMMA ToldType == toldBar \in [Mutations -> D!Known]
BY DEF toldBar, D!Known, D!Decisions

LEMMA PhoneStepTells ==
    ASSUME SyncInv, PhoneStep
    PROVE  D!Tell
<1>1. UNCHANGED <<receipts, applied>>
  BY PhoneStepRequests DEF SyncInv, office
<1>2. toldBar' \in [Mutations -> D!Known]
  <2>1. TypeOK'
    BY PhoneStepInv DEF SyncInv
  <2> QED BY DEF toldBar, D!Known, D!Decisions
<1>3. ASSUME NEW m \in Mutations, toldBar'[m] # toldBar[m]
      PROVE  toldBar[m] = "none" /\ toldBar'[m] = decidedBar[m]
  <2>1. MayBecome(m, outbox'[m].status)
    BY PhoneStepRows
  <2> QED BY <1>3, <2>1 DEF MayBecome, toldBar, decidedBar, ReplayAnswer
<1>4. UNCHANGED <<decidedBar, applied>>
  BY <1>1 DEF decidedBar
<1> QED BY <1>2, <1>3, <1>4 DEF D!Tell, toldBar, decidedBar

LEMMA CommitDecides ==
    ASSUME SyncInv, NEW r \in Slots, Commit(r)
    PROVE  D!Decide
<1>0. TypeOK /\ SyncInv' /\ TypeOK'
  BY CommitInv DEF SyncInv
<1>1. UNCHANGED toldBar
  BY DEF Commit, phone, toldBar
<1>2. decidedBar' \in [Mutations -> D!Known]
  BY <1>0 DEF decidedBar, D!Known, D!Decisions, ReplayAnswer, TypeOK, Verdicts
<1>3. applied' \in [Mutations -> {0, 1}]
  <2>1. \A m \in Mutations : applied'[m] \in Nat /\ applied'[m] <= 1
    BY <1>0 DEF SyncInv, AtMostOnce, TypeOK
  <2>2. \A m \in Mutations : applied'[m] \in {0, 1}
    BY <2>1
  <2> QED BY <1>0, <2>2 DEF TypeOK
<1>4. ASSUME NEW m \in Mutations
      PROVE  /\ decidedBar[m] # "none" =>
                    decidedBar'[m] = decidedBar[m] /\ applied'[m] = applied[m]
             /\ applied'[m] # applied[m] =>
                    applied'[m] = 1 /\ decidedBar'[m] \in {"accepted", "conflict"}
             /\ decidedBar'[m] # "none" /\ DependsOn[m] # NoMutation
                    => decidedBar'[DependsOn[m]] = "accepted"
  <2>1. DependsOn[m] # NoMutation => DependsOn[m] \in Mutations
    BY OutboxAssumption
  <2>2. /\ decidedBar[m] = ReplayAnswer(receipts[m])
        /\ decidedBar'[m] = ReplayAnswer(receipts'[m])
        /\ DependsOn[m] # NoMutation =>
              decidedBar'[DependsOn[m]] = ReplayAnswer(receipts'[DependsOn[m]])
    BY <2>1 DEF decidedBar
  <2> QED BY <2>2, CommitFacts DEF ReplayAnswer
<1> QED BY <1>1, <1>2, <1>3, <1>4 DEF D!Decide, toldBar, decidedBar

\* Every behaviour of the sync, with its crashes, lost answers and overlapping
\* requests, is one of Delivery.
THEOREM SyncImplementsDelivery == Spec => ImplementsDelivery
<1>1. Init => D!DeliveryInit
  BY DEF Init, D!DeliveryInit, Nothing, NoRow, ReplayAnswer
<1>2. SyncInv /\ [Next]_vars => [D!Decide \/ D!Tell]_(D!deliveryVars)
  <2> SUFFICES ASSUME SyncInv, [Next]_vars
               PROVE  D!Decide \/ D!Tell \/ UNCHANGED D!deliveryVars
    OBVIOUS
  <2>1. CASE PhoneStep
    BY <2>1, PhoneStepTells
  <2>2. CASE OfficeStep
    <3>1. CASE UNCHANGED office
      BY <2>2, <3>1, OfficeStepEffects DEF office, D!deliveryVars
    <3> QED BY <2>2, <3>1, OfficeStepEffects, CommitDecides
  <2>3. CASE UNCHANGED vars
    BY <2>3 DEF vars, phone, office, D!deliveryVars
  <2> QED BY <2>1, <2>2, <2>3 DEF Next
<1> QED BY Invariance, <1>1, <1>2, PTL DEF Spec, ImplementsDelivery, D!DeliverySpec

-----------------------------------------------------------------------------
(* The planner keeps the rows of a group in their order.                   *)

LEMMA OlderIsAnOrder ==
    ASSUME NEW box \in [Mutations -> OutboxRow], NEW k \in Mutations,
           NEW m \in Mutations, NEW n \in Mutations
    PROVE  /\ ~Older(box, m, m)
           /\ Older(box, k, m) /\ Older(box, m, n) => Older(box, k, n)
<1>1. /\ box[k].created \in Nat /\ box[m].created \in Nat /\ box[n].created \in Nat
      /\ box[k].place \in Nat /\ box[m].place \in Nat /\ box[n].place \in Nat
  BY DEF OutboxRow
<1> QED BY <1>1 DEF Older

\* The rows of a group have the same head and were first met at the same place.
LEMMA GroupIsOne ==
    ASSUME NEW box, NEW m, NEW n, Aggregate(m) = Aggregate(n)
    PROVE  GroupHead(box, m) = GroupHead(box, n) /\ FirstMet(box, m) = FirstMet(box, n)
<1> DEFINE headOf(g) == CHOOSE h \in Pending(box) :
                           /\ Aggregate(h) = g
                           /\ \A k \in Pending(box) \ {h} :
                                 Aggregate(k) = g => Older(box, h, k)
           metAt(g)  == Min({box[k].place : k \in {k \in Pending(box) : Aggregate(k) = g}})
<1>1. GroupHead(box, m) = headOf(Aggregate(m)) /\ GroupHead(box, n) = headOf(Aggregate(n))
  BY DEF GroupHead
<1>2. FirstMet(box, m) = metAt(Aggregate(m)) /\ FirstMet(box, n) = metAt(Aggregate(n))
  BY DEF FirstMet
<1> HIDE DEF headOf, metAt
<1> QED BY <1>1, <1>2

\* What goes before a row goes before the younger rows of its group too.
LEMMA BeforeTheYounger ==
    ASSUME NEW box \in [Mutations -> OutboxRow], NEW k \in Mutations,
           NEW m \in Mutations, NEW n \in Mutations,
           Aggregate(m) = Aggregate(n), Older(box, m, n), Before(box, k, m)
    PROVE  Before(box, k, n)
<1>1. CASE Aggregate(k) = Aggregate(m)
  BY <1>1, OlderIsAnOrder DEF Before
<1>2. CASE Aggregate(k) # Aggregate(m)
  <2>1. GroupOlder(box, k, m)
    BY <1>2 DEF Before
  <2>2. GroupOlder(box, k, n)
    BY <2>1, GroupIsOne DEF GroupOlder
  <2> QED BY <1>2, <2>2 DEF Before
<1> QED BY <1>1, <1>2

\* What can be sent is pending, and nothing that can be sent is held back.
LEMMA SendableIsClear ==
    ASSUME NEW box, NEW m \in Sendable(box)
    PROVE  m \in Pending(box) /\ Clear(box, m, Sendable(box))
<1>1. PICK sends \in SUBSET Pending(box) :
        m \in sends /\ \A n \in sends : Clear(box, n, sends)
  BY DEF Sendable
<1>2. sends \subseteq Sendable(box)
  BY <1>1 DEF Sendable
<1>3. Clear(box, m, sends)
  BY <1>1
<1> QED BY <1>1, <1>2, <1>3 DEF Clear

\* ... and it is all that can be sent: a set of rows that can go together does go.
LEMMA SendableIsLargest ==
    ASSUME NEW box, NEW sends \in SUBSET Pending(box),
           \A m \in sends : Clear(box, m, sends)
    PROVE  sends \subseteq Sendable(box)
BY DEF Sendable

\* "FIFO per aggregate root": a batch that carries a row carries every older pending
\* row of its group, and further up in the array.  For every queue whatever, restarts
\* included; older is what the planner's sort takes it to be.
THEOREM PlanKeepsOrder ==
    ASSUME NEW box \in [Mutations -> OutboxRow], NEW n \in planDrain(box),
           NEW m \in Ahead(box, n)
    PROVE  /\ m \in planDrain(box)
           /\ Positions(box, planDrain(box))[m] < Positions(box, planDrain(box))[n]
<1> DEFINE upTo(S, k) == {j \in S : Before(box, j, k)}
<1>1. /\ n \in Sendable(box) /\ n \in Mutations
      /\ m \in Pending(box) /\ m \in Mutations
      /\ Aggregate(m) = Aggregate(n) /\ Older(box, m, n)
  BY DEF planDrain, Sendable, Ahead, Pending
<1>2. m \in Sendable(box)
  BY <1>1, SendableIsClear DEF Clear
<1>3. ASSUME NEW S \in SUBSET Mutations
      PROVE  /\ IsFiniteSet(upTo(S, n)) /\ IsFiniteSet(upTo(S, m))
             /\ Cardinality(upTo(S, n)) \in Nat /\ Cardinality(upTo(S, m)) \in Nat
             /\ Cardinality(upTo(S, m)) <= Cardinality(upTo(S, n))
             /\ Cardinality(upTo(S, m)) = Cardinality(upTo(S, n)) => upTo(S, m) = upTo(S, n)
  <2>1. upTo(S, n) \in SUBSET Mutations
    OBVIOUS
  <2>2. upTo(S, m) \in SUBSET upTo(S, n)
    BY <1>1, BeforeTheYounger
  <2> HIDE DEF upTo
  <2>3. IsFiniteSet(upTo(S, n))
    BY <2>1, OutboxAssumption, FS_Subset
  <2>4. /\ IsFiniteSet(upTo(S, m))
        /\ Cardinality(upTo(S, m)) <= Cardinality(upTo(S, n))
        /\ Cardinality(upTo(S, n)) = Cardinality(upTo(S, m)) => upTo(S, n) = upTo(S, m)
    BY <2>2, <2>3, FS_Subset
  <2> QED BY <2>3, <2>4, FS_CardinalityType
<1>4. Sendable(box) \in SUBSET Mutations /\ planDrain(box) \in SUBSET Mutations
  BY DEF planDrain, Sendable, Pending
<1>5. m \in planDrain(box)
  <2>1. Cardinality(upTo(Sendable(box), n)) < DrainBatchLimit
    BY DEF planDrain
  <2> HIDE DEF upTo
  <2>2. Cardinality(upTo(Sendable(box), m)) < DrainBatchLimit
    BY <1>3, <1>4, <2>1, OutboxAssumption
  <2> QED BY <1>2, <2>2 DEF planDrain, upTo
<1>6. m \in upTo(planDrain(box), n) /\ m \notin upTo(planDrain(box), m)
  BY <1>1, <1>5, OlderIsAnOrder DEF Before
<1>7. /\ Positions(box, planDrain(box))[m] = Cardinality(upTo(planDrain(box), m))
      /\ Positions(box, planDrain(box))[n] = Cardinality(upTo(planDrain(box), n))
  BY <1>1, <1>5 DEF Positions
<1> HIDE DEF upTo
<1>8. /\ Cardinality(upTo(planDrain(box), n)) \in Nat
      /\ Cardinality(upTo(planDrain(box), m)) \in Nat
      /\ Cardinality(upTo(planDrain(box), m)) <= Cardinality(upTo(planDrain(box), n))
      /\ Cardinality(upTo(planDrain(box), m)) # Cardinality(upTo(planDrain(box), n))
  BY <1>3, <1>4, <1>6
<1> QED BY <1>5, <1>7, <1>8

-----------------------------------------------------------------------------
(* OrderInv is inductive while the app lives.  A capture makes the youngest *)
(* row of all; no other step moves a row.                                  *)

RowsStay ==
    \A m \in Mutations :
        /\ outbox'[m].place = outbox[m].place
        /\ outbox'[m].created = outbox[m].created
        /\ outbox'[m].status = "absent" <=> outbox[m].status = "absent"
        /\ outbox[m].status = "dead" => outbox'[m].status = "dead"

LEMMA FoldedRow ==
    ASSUME NEW row \in OutboxRow, row.status = "inflight", NEW answer
    PROVE  /\ Folded(row, answer).place = row.place
           /\ Folded(row, answer).created = row.created
           /\ Folded(row, answer).status # "absent"
           /\ answer \in Answers => Folded(row, answer).status # "inflight"
BY DEF Folded, OutboxRow, Answers, Verdicts, afterAccepted, afterConflict,
       afterRefusal, afterRejected, afterDeferred

LEMMA FailedRow ==
    ASSUME NEW row \in OutboxRow, NEW jittered
    PROVE  \A after \in {afterTransportFailure(row, jittered),
                         afterProtocolFailure(row), afterSignedOut(row)} :
              /\ after.place = row.place /\ after.created = row.created
              /\ after.status \in {"pending", "dead"}
BY DEF afterTransportFailure, afterProtocolFailure, afterSignedOut, OutboxRow

\* Where a batch comes back failed, its rows are pending or dead.
LEMMA BatchComesBack ==
    ASSUME SyncInv, NEW r \in Slots,
           NetworkFailure(r) \/ ServerFailure(r) \/ UnreadableAnswer(r) \/ SignedOut(r)
    PROVE  /\ awaiting = r
           /\ \A m \in Mutations \ Batch(r) : outbox'[m] = outbox[m]
           /\ \A m \in Batch(r) : /\ outbox[m].status = "inflight"
                                  /\ outbox'[m].place = outbox[m].place
                                  /\ outbox'[m].created = outbox[m].created
                                  /\ outbox'[m].status \in {"pending", "dead"}
<1>0. TypeOK /\ \A m \in Mutations : outbox[m] \in OutboxRow
  BY DEF SyncInv, TypeOK
<1>1. awaiting = r /\ Batch(r) \subseteq Mutations
  BY <1>0 DEF NetworkFailure, ServerFailure, UnreadableAnswer, SignedOut,
              TransportFailure, BatchFails, TypeOK, RequestType, Batch
<1>2. \A m \in Batch(r) : outbox[m].status = "inflight"
  BY <1>1 DEF SyncInv, DrainAwaitsItsBatch
<1>3. PICK after \in [Mutations -> OutboxRow] :
        /\ outbox' = [m \in Mutations |-> IF m \in Batch(r) THEN after[m] ELSE outbox[m]]
        /\ \A m \in Mutations : /\ after[m].place = outbox[m].place
                                /\ after[m].created = outbox[m].created
                                /\ after[m].status \in {"pending", "dead"}
  <2>1. CASE TransportFailure(r)
    <3>1. PICK jittered \in SUBSET Batch(r) :
            BatchFails(r, [m \in Mutations |->
                              afterTransportFailure(outbox[m], m \in jittered)])
      BY <2>1 DEF TransportFailure
    <3>2. ASSUME NEW m \in Mutations
          PROVE  afterTransportFailure(outbox[m], m \in jittered) \in OutboxRow
      <4>1. (m \in jittered) \in BOOLEAN  OBVIOUS
      <4> QED BY <1>0, <4>1, RowTransitions
    <3> DEFINE after == [m \in Mutations |-> afterTransportFailure(outbox[m], m \in jittered)]
    <3>3. after \in [Mutations -> OutboxRow]
      BY <3>2
    <3>4. \A m \in Mutations : /\ after[m].place = outbox[m].place
                               /\ after[m].created = outbox[m].created
                               /\ after[m].status \in {"pending", "dead"}
      BY <1>0, FailedRow
    <3> QED BY <3>1, <3>3, <3>4 DEF BatchFails
  <2>2. CASE UnreadableAnswer(r)
    <3> DEFINE after == [m \in Mutations |-> afterProtocolFailure(outbox[m])]
    <3>1. after \in [Mutations -> OutboxRow]
      BY <1>0, RowTransitions
    <3>2. \A m \in Mutations : /\ after[m].place = outbox[m].place
                               /\ after[m].created = outbox[m].created
                               /\ after[m].status \in {"pending", "dead"}
      BY <1>0, FailedRow
    <3> QED BY <2>2, <3>1, <3>2 DEF UnreadableAnswer, BatchFails
  <2>3. CASE SignedOut(r)
    <3> DEFINE after == [m \in Mutations |-> afterSignedOut(outbox[m])]
    <3>1. after \in [Mutations -> OutboxRow]
      BY <1>0, RowTransitions
    <3>2. \A m \in Mutations : /\ after[m].place = outbox[m].place
                               /\ after[m].created = outbox[m].created
                               /\ after[m].status \in {"pending", "dead"}
      BY <1>0, FailedRow
    <3> QED BY <2>3, <3>1, <3>2 DEF SignedOut, BatchFails
  <2> QED BY <2>1, <2>2, <2>3 DEF NetworkFailure, ServerFailure
<1> QED BY <1>1, <1>2, <1>3

LEMMA RowsStayInPlace ==
    ASSUME SyncInv, AppLives,
           \/ SyncNow \/ NothingToSend \/ SignIn
           \/ \E m \in Mutations : BackoffElapses(m)
           \/ \E r \in Slots :
                 \/ SendBatch(r) \/ FoldAnswers(r) \/ NetworkFailure(r) \/ ServerFailure(r)
                 \/ UnreadableAnswer(r) \/ SignedOut(r) \/ KeystoreFails(r)
           \/ OfficeStep
    PROVE  RowsStay /\ UNCHANGED uptime
<1>0. TypeOK /\ \A m \in Mutations : outbox[m] \in OutboxRow
  BY DEF SyncInv, TypeOK
<1> USE DEF RowsStay
<1>1. CASE \/ SyncNow \/ NothingToSend \/ SignIn \/ OfficeStep
           \/ \E r \in Slots : KeystoreFails(r)
  <2>1. UNCHANGED <<outbox, uptime>>
    BY <1>1 DEF SyncNow, NothingToSend, SignIn, KeystoreFails, OfficeStep, LoseRequest,
                Begin, Deny, Abort, Commit, Replay, Defer, Handle, writeReceipt,
                DuplicateReceipt, phone
  <2> QED BY <2>1
<1>2. ASSUME NEW k \in Mutations, BackoffElapses(k) PROVE RowsStay /\ UNCHANGED uptime
  BY <1>0, <1>2 DEF BackoffElapses, TypeOK, OutboxRow
<1>3. ASSUME NEW r \in Slots, SendBatch(r) PROVE RowsStay /\ UNCHANGED uptime
  <2>1. \A m \in planDrain(outbox) : outbox[m].status = "pending"
    BY BatchIsPending DEF Pending
  <2> QED BY <1>0, <1>3, <2>1 DEF SendBatch, markInflight, OutboxRow
<1>4. ASSUME NEW r \in Slots, FoldAnswers(r) PROVE RowsStay /\ UNCHANGED uptime
  <2>1. \A m \in Batch(r) : outbox[m].status = "inflight"
    BY <1>4 DEF FoldAnswers, SyncInv, DrainAwaitsItsBatch
  <2>2. \A m \in Mutations :
          outbox'[m] = IF m \in Batch(r) THEN Folded(outbox[m], requests[r].answer[m])
                                         ELSE outbox[m]
    BY <1>4 DEF FoldAnswers
  <2>3. ASSUME NEW m \in Batch(r), m \in Mutations
        PROVE  /\ outbox'[m].place = outbox[m].place
               /\ outbox'[m].created = outbox[m].created
               /\ outbox'[m].status # "absent" /\ outbox[m].status = "inflight"
    BY <1>0, <2>1, <2>2, <2>3, FoldedRow
  <2> QED BY <1>4, <2>2, <2>3 DEF FoldAnswers
<1>5. ASSUME NEW r \in Slots,
             NetworkFailure(r) \/ ServerFailure(r) \/ UnreadableAnswer(r) \/ SignedOut(r)
      PROVE  RowsStay /\ UNCHANGED uptime
  BY <1>5, BatchComesBack
     DEF NetworkFailure, ServerFailure, UnreadableAnswer, SignedOut
<1> QED BY <1>1, <1>2, <1>3, <1>4, <1>5

\* What a row precedes, and what excuses it, is settled once the row is recorded.
LEMMA OrderStays ==
    ASSUME RowsStay, NEW m \in Mutations, NEW n \in Mutations
    PROVE  /\ Precedes(m, n)' <=> Precedes(m, n)
           /\ Excused(m) => Excused(m)'
           /\ Captured' = Captured
BY DEF RowsStay, Precedes, Excused, Captured

LEMMA RowsStayInOrder ==
    ASSUME RowsAreInOrder, RowsStay, UNCHANGED uptime
    PROVE  RowsAreInOrder'
<1>1. Captured' = Captured /\ Captured \subseteq Mutations
  BY DEF RowsStay, Captured
<1>2. Rows' = Rows
  BY <1>1 DEF Rows, Captured
<1> QED BY <1>1, <1>2 DEF RowsAreInOrder, RowsStay

\* Requests that end leave the others in order.
LEMMA FewerRequests ==
    ASSUME SyncInv, OrderInv, RowsStay, UNCHANGED receipts,
           \A q \in Slots : requests'[q] \in {requests[q], FreeSlot}
    PROVE  /\ OnlyCapturedTravel' /\ AnswersAreComplete'
           /\ RequestsKeepOrder' /\ TransactionsKeepOrder' /\ OfficeKeepsOrder'
<1>0. TypeOK /\ NoMutation \notin Mutations
  BY OutboxAssumption DEF SyncInv
<1>1. Captured' = Captured
  BY DEF RowsStay, Captured
<1>2. OnlyCapturedTravel'
  <2>1. ASSUME NEW q \in Slots
        PROVE  /\ Batch(q)' \subseteq Captured /\ requests'[q].todo \subseteq Batch(q)'
               /\ \A m \in Mutations : Decided(q, m)' => m \in Batch(q)'
    <3>1. CASE requests'[q] = requests[q]
      BY <3>1 DEF OrderInv, OnlyCapturedTravel, Batch, Decided
    <3>2. CASE requests'[q] = FreeSlot
      BY <1>0, <3>2 DEF FreeSlot, Batch, Decided, Nothing
    <3> QED BY <3>1, <3>2
  <2> QED BY <1>1, <2>1 DEF OrderInv, OnlyCapturedTravel
<1>3. AnswersAreComplete'
  <2>1. ASSUME NEW q \in Slots
        PROVE  /\ requests'[q].handling # NoMutation => requests'[q].verdict # "none"
               /\ requests'[q].stage = "answered" => requests'[q].todo = {}
               /\ \A m \in Batch(q)' \ requests'[q].todo : requests'[q].answer[m] # "none"
               /\ \A m \in Mutations : requests'[q].answer[m] = "deferred"
                                            => DependsOn[m] # NoMutation
    <3>1. CASE requests'[q] = requests[q]
      BY <3>1 DEF OrderInv, AnswersAreComplete, Batch
    <3>2. CASE requests'[q] = FreeSlot
      BY <1>0, <3>2 DEF FreeSlot, Batch, Nothing
    <3> QED BY <3>1, <3>2
  <2> QED BY <2>1 DEF AnswersAreComplete
<1>4. RequestsKeepOrder'
  BY OrderStays DEF OrderInv, RequestsKeepOrder, FreeSlot, Batch
<1>5. TransactionsKeepOrder'
  BY OrderStays DEF OrderInv, TransactionsKeepOrder, FreeSlot, Decided, Ledger
<1>6. OfficeKeepsOrder'
  BY DEF OrderInv, OfficeKeepsOrder, RowsStay
<1> QED BY <1>2, <1>3, <1>4, <1>5, <1>6

LEMMA IdleOrder ==
    ASSUME SyncInv, OrderInv, AppLives,
           SyncNow \/ NothingToSend \/ SignIn \/ \E m \in Mutations : BackoffElapses(m)
    PROVE  OrderInv'
<1>0. TypeOK
  BY DEF SyncInv
<1>1. RowsStay /\ UNCHANGED <<uptime, awaiting, requests, receipts>>
  BY RowsStayInPlace DEF SyncNow, NothingToSend, SignIn, BackoffElapses, office
<1>2. \A m \in Mutations : outbox'[m].status = outbox[m].status
  BY <1>0 DEF SyncNow, NothingToSend, SignIn, BackoffElapses, TypeOK, OutboxRow
<1>3. Pending(outbox') = Pending(outbox)
  BY <1>2 DEF Pending
<1>4. RowsAreInOrder'
  BY <1>1, RowsStayInOrder DEF OrderInv
<1>5. FifoPerJob'
  <2>1. \A r \in Slots : Batch(r)' = Batch(r) /\ Batch(r) \subseteq Mutations
    BY <1>0, <1>1 DEF Batch, TypeOK, RequestType
  <2> QED BY <1>1, <1>3, <2>1 DEF OrderInv, FifoPerJob, RowsStay
<1>6. InflightIsDecided'
  BY <1>1, <1>2 DEF OrderInv, InflightIsDecided, Batch
<1> QED BY <1>1, <1>4, <1>5, <1>6, FewerRequests DEF OrderInv

\* The wait for an answer ends, one way or another.
LEMMA WaitEndsOrder ==
    ASSUME SyncInv, OrderInv, AppLives, NEW r \in Slots,
           \/ FoldAnswers(r) \/ NetworkFailure(r) \/ ServerFailure(r)
           \/ UnreadableAnswer(r) \/ SignedOut(r) \/ KeystoreFails(r)
    PROVE  OrderInv'
<1>0. TypeOK /\ NoRequest \notin Slots /\ requests[r] \in RequestType
  BY SyncAssumption DEF SyncInv, TypeOK
<1>1. RowsStay /\ UNCHANGED <<uptime, receipts>>
  BY RowsStayInPlace
     DEF FoldAnswers, NetworkFailure, ServerFailure, UnreadableAnswer, SignedOut,
         KeystoreFails, office
<1>2. /\ awaiting = r /\ awaiting' = NoRequest
      /\ \A q \in Slots : requests'[q] \in {requests[q], FreeSlot}
  BY <1>0 DEF FoldAnswers, NetworkFailure, ServerFailure, UnreadableAnswer, SignedOut,
              KeystoreFails, TransportFailure, BatchFails, TypeOK
<1>3. RowsAreInOrder' /\ FifoPerJob'
  BY <1>0, <1>1, <1>2, RowsStayInOrder DEF OrderInv, FifoPerJob
<1>4. InflightIsDecided'
  <2> SUFFICES ASSUME NEW m \in Mutations, outbox'[m].status = "inflight"
               PROVE  receipts[m] # "none" \/ DependsOn[m] # NoMutation
    BY <1>1 DEF InflightIsDecided
  <2>1. CASE m \notin Batch(r)
    <3>1. outbox'[m] = outbox[m]
      BY <2>1, BatchComesBack DEF FoldAnswers, KeystoreFails
    <3> QED BY <1>2, <2>1, <3>1 DEF OrderInv, InflightIsDecided
  <2>2. CASE m \in Batch(r)
    <3>1. FoldAnswers(r) \/ KeystoreFails(r)
      BY <2>2, BatchComesBack
    <3>2. requests[r].answer[m] \in Answers
      <4>1. requests[r].answer[m] # "none"
        BY <2>2, <3>1 DEF OrderInv, AnswersAreComplete, FoldAnswers, KeystoreFails
      <4> QED BY <1>0, <4>1 DEF RequestType
    <3>3. CASE FoldAnswers(r)
      <4>1. outbox'[m] = Folded(outbox[m], requests[r].answer[m])
        BY <2>2, <3>3 DEF FoldAnswers
      <4>2. outbox[m] \in OutboxRow /\ outbox[m].status = "inflight"
        BY <1>0, <1>2, <2>2 DEF SyncInv, DrainAwaitsItsBatch, TypeOK
      <4> QED BY <3>2, <4>1, <4>2, FoldedRow
    <3>4. CASE KeystoreFails(r)
      <4>1. requests[r].answer[m] = "deferred" => DependsOn[m] # NoMutation
        BY DEF OrderInv, AnswersAreComplete
      <4>2. requests[r].answer[m] \in Verdicts => receipts[m] # "none"
        BY <3>4 DEF KeystoreFails, SyncInv, AnswersAreSound, ReplayAnswer, Verdicts
      <4> QED BY <3>2, <4>1, <4>2 DEF Answers
    <3> QED BY <3>1, <3>3, <3>4
  <2> QED BY <2>1, <2>2
<1> QED BY <1>1, <1>2, <1>3, <1>4, FewerRequests DEF OrderInv

\* A new row is the youngest of all: nothing that travels is older than it, and it
\* is older than nothing.
LEMMA CaptureOrder ==
    ASSUME SyncInv, OrderInv, NEW k \in Mutations, Capture(k)
    PROVE  OrderInv'
<1>0. TypeOK /\ IsFiniteSet(Mutations)
  BY OutboxAssumption DEF SyncInv
<1>1. /\ outbox[k].status = "absent"
      /\ outbox'[k] = NewRow(uptime', Rows + 1)
      /\ \A m \in Mutations \ {k} : outbox'[m] = outbox[m]
      /\ UNCHANGED <<awaiting, requests, receipts>>
  BY <1>0 DEF Capture, TypeOK, office
<1>2. uptime \in Nat /\ uptime' \in Nat /\ uptime <= uptime'
  BY <1>0, SyncAssumption DEF Capture, TypeOK
<1>3. /\ Captured' = Captured \cup {k} /\ k \notin Captured
      /\ Captured \subseteq Mutations
  BY <1>1 DEF Captured, NewRow
<1>4. Rows \in Nat /\ Rows' = Rows + 1
  <2>1. IsFiniteSet(Captured)
    BY <1>0, <1>3, FS_Subset
  <2>2. Rows = Cardinality(Captured) /\ Rows' = Cardinality(Captured')
    BY DEF Rows, Captured
  <2> QED BY <1>3, <2>1, <2>2, FS_AddElement, FS_CardinalityType
<1>5. \A m \in Captured : /\ outbox[m].place \in Nat /\ outbox[m].created \in Nat
                          /\ outbox[m].place <= Rows /\ outbox[m].created <= uptime
  BY <1>0, <1>3 DEF OrderInv, RowsAreInOrder, TypeOK, OutboxRow
<1>6. outbox'[k].place = Rows + 1 /\ outbox'[k].created = uptime' /\ outbox'[k].status = "pending"
  BY <1>1 DEF NewRow
<1>7. RowsAreInOrder'
  <2>1. \A m \in Captured' : outbox'[m].place <= Rows' /\ outbox'[m].created <= uptime'
    BY <1>1, <1>2, <1>3, <1>4, <1>5, <1>6
  <2>2. ASSUME NEW m \in Captured', NEW n \in Captured', outbox'[m].place < outbox'[n].place
        PROVE  outbox'[m].created <= outbox'[n].created
    <3>1. m # k
      BY <1>1, <1>3, <1>4, <1>5, <1>6, <2>2
    <3>2. CASE n = k
      BY <1>1, <1>2, <1>3, <1>5, <1>6, <3>1, <3>2
    <3>3. CASE n # k
      BY <1>1, <1>3, <2>2, <3>1, <3>3 DEF OrderInv, RowsAreInOrder
    <3> QED BY <3>2, <3>3
  <2> QED BY <2>1, <2>2 DEF RowsAreInOrder
<1>8. ASSUME NEW n \in Captured, NEW m \in Mutations,
             outbox'[m].place < outbox'[n].place
      PROVE  m # k /\ n # k /\ outbox'[m] = outbox[m] /\ outbox'[n] = outbox[n]
  BY <1>1, <1>3, <1>4, <1>5, <1>6, <1>8
<1>9. \A r \in Slots : /\ Batch(r)' = Batch(r) /\ Batch(r) \subseteq Captured
                       /\ \A m \in Mutations : /\ Decided(r, m)' <=> Decided(r, m)
                                               /\ Decided(r, m) => m \in Captured
                                               /\ Ledger(r, m)' = Ledger(r, m)
  BY <1>1 DEF OrderInv, OnlyCapturedTravel, Batch, Decided, Ledger
<1>10. OnlyCapturedTravel' /\ AnswersAreComplete'
  BY <1>1, <1>3, <1>9 DEF OrderInv, OnlyCapturedTravel, AnswersAreComplete
<1>11. RequestsKeepOrder'
  <2> SUFFICES ASSUME NEW r \in Slots, NEW m \in Mutations, NEW n \in Mutations,
                      requests'[r].stage \in {"sent", "open"}, n \in Batch(r)',
                      Precedes(m, n)', ~Excused(m)'
               PROVE  \/ receipts'[m] # "none"
                      \/ m \in Batch(r)' /\ requests'[r].position[m] < requests'[r].position[n]
    BY DEF RequestsKeepOrder
  <2>1. outbox'[m] = outbox[m] /\ outbox'[n] = outbox[n] /\ n \in Batch(r)
    BY <1>8, <1>9 DEF Precedes
  <2>2. Precedes(m, n) /\ ~Excused(m)
    BY <2>1 DEF Precedes, Excused
  <2> QED BY <1>1, <1>9, <2>1, <2>2 DEF OrderInv, RequestsKeepOrder
<1>12. TransactionsKeepOrder'
  <2> SUFFICES ASSUME NEW r \in Slots, NEW m \in Mutations, NEW n \in Mutations,
                      requests'[r].stage = "open", Decided(r, n)',
                      Precedes(m, n)', ~Excused(m)'
               PROVE  Ledger(r, m)' # "none"
    BY DEF TransactionsKeepOrder
  <2>1. outbox'[m] = outbox[m] /\ outbox'[n] = outbox[n]
    BY <1>8, <1>9 DEF Precedes
  <2>2. Precedes(m, n) /\ ~Excused(m)
    BY <2>1 DEF Precedes, Excused
  <2> QED BY <1>1, <1>9, <2>2 DEF OrderInv, TransactionsKeepOrder
<1>13. InflightIsDecided'
  BY <1>1, <1>6, <1>9 DEF OrderInv, InflightIsDecided
<1>14. FifoPerJob'
  <2> SUFFICES ASSUME NEW r \in Slots, awaiting = r, NEW n \in Batch(r), NEW m \in Mutations,
                      JobOf[m] = JobOf[n], JobOf[n] # NoJob,
                      outbox'[m].place < outbox'[n].place,
                      m \in Pending(outbox') \cup Batch(r)
               PROVE  m \in Batch(r) /\ requests[r].position[m] < requests[r].position[n]
    BY <1>1, <1>9 DEF FifoPerJob
  <2>1. outbox'[m] = outbox[m] /\ outbox'[n] = outbox[n]
    BY <1>8, <1>9
  <2>2. m \in Pending(outbox) \cup Batch(r)
    BY <2>1 DEF Pending
  <2> QED BY <2>1, <2>2 DEF OrderInv, FifoPerJob
<1>15. OfficeKeepsOrder'
  <2> SUFFICES ASSUME NEW m \in Mutations, NEW n \in Mutations,
                      JobOf[m] = JobOf[n], JobOf[n] # NoJob,
                      outbox'[m].status # "absent", outbox'[m].place < outbox'[n].place,
                      receipts[n] # "none", receipts[m] = "none"
               PROVE  outbox'[m].status = "dead" \/ DependsOn[m] # NoMutation
    BY <1>1 DEF OfficeKeepsOrder
  <2>1. n \in Captured
    BY DEF OrderInv, OnlyCapturedTravel
  <2>2. outbox'[m] = outbox[m] /\ outbox'[n] = outbox[n]
    BY <1>8, <2>1
  <2> QED BY <2>2 DEF OrderInv, OfficeKeepsOrder
<1> QED BY <1>7, <1>10, <1>11, <1>12, <1>13, <1>14, <1>15 DEF OrderInv

\* A batch is sent: the planner has kept the order of the queue, and what is older
\* and not in the queue has been decided on or given up.
LEMMA SendOrder ==
    ASSUME SyncInv, OrderInv, AppLives, NEW r \in Slots, SendBatch(r)
    PROVE  OrderInv'
<1> DEFINE batch == planDrain(outbox)
<1>0. /\ TypeOK /\ NoRequest \notin Slots /\ NoMutation \notin Mutations
      /\ \A m \in Mutations : outbox[m] \in OutboxRow
      /\ outbox \in [Mutations -> OutboxRow]
  BY OutboxAssumption, SyncAssumption DEF SyncInv, TypeOK
<1>1. RowsStay /\ UNCHANGED <<uptime, receipts>>
  BY RowsStayInPlace DEF SendBatch, office
<1>2. /\ drain = "planning" /\ awaiting = NoRequest /\ awaiting' = r
      /\ \A q \in Slots \ {r} : requests'[q] = requests[q]
      /\ requests'[r].stage = "sent"
      /\ requests'[r].batch = batch /\ requests'[r].todo = batch
      /\ requests'[r].position = Positions(outbox, batch)
      /\ requests'[r].handling = NoMutation
      /\ requests'[r].wrote = Nothing /\ requests'[r].answer = Nothing
  BY <1>0 DEF SendBatch, NewRequest, FreeSlot, SyncInv, DrainAwaitsItsBatch, TypeOK
<1>3. batch \subseteq Pending(outbox) /\ Pending(outbox) \subseteq Mutations
  BY BatchIsPending
<1>4. \A m \in Mutations : outbox'[m].status = IF m \in batch THEN "inflight"
                                                              ELSE outbox[m].status
  BY <1>0 DEF SendBatch, markInflight, OutboxRow
<1> HIDE DEF batch
<1>5. ASSUME NEW n \in batch, NEW m \in Mutations, JobOf[m] = JobOf[n], JobOf[n] # NoJob,
             m \in Pending(outbox), outbox[m].place < outbox[n].place
      PROVE  /\ m \in batch
             /\ Positions(outbox, batch)[m] < Positions(outbox, batch)[n]
  <2>1. m \in Captured /\ n \in Captured
    BY <1>3, <1>5 DEF Pending, Captured
  <2>2. Older(outbox, m, n)
    <3>1. outbox[m].created <= outbox[n].created
      BY <1>5, <2>1 DEF OrderInv, RowsAreInOrder
    <3>2. outbox[m].created \in Nat /\ outbox[n].created \in Nat
      BY <1>0, <1>3 DEF OutboxRow
    <3> QED BY <1>5, <3>1, <3>2 DEF Older
  <2>3. m \in Ahead(outbox, n)
    BY <1>5, <2>2 DEF Ahead, Aggregate
  <2> QED BY <1>0, <2>3, PlanKeepsOrder DEF batch
<1>6. RowsAreInOrder'
  BY <1>1, RowsStayInOrder DEF OrderInv
<1>7. OnlyCapturedTravel'
  <2>1. Captured' = Captured
    BY <1>1 DEF RowsStay, Captured
  <2>2. batch \subseteq Captured
    BY <1>3 DEF Pending, Captured
  <2>3. \A q \in Slots \ {r} : /\ Batch(q)' = Batch(q)
                               /\ requests'[q].todo = requests[q].todo
                               /\ \A m \in Mutations : Decided(q, m)' <=> Decided(q, m)
    BY <1>2 DEF Batch, Decided
  <2>4. /\ Batch(r)' = batch /\ requests'[r].todo = batch
        /\ \A m \in Mutations : ~Decided(r, m)'
    BY <1>0, <1>2 DEF Batch, Decided, Nothing
  <2>5. /\ \A q \in Slots \ {r} :
               /\ Batch(q) \subseteq Captured /\ requests[q].todo \subseteq Batch(q)
               /\ \A m \in Mutations : Decided(q, m) => m \in Batch(q)
        /\ \A m \in Mutations : receipts[m] # "none" => m \in Captured
    BY DEF OrderInv, OnlyCapturedTravel
  <2>6. ASSUME NEW q \in Slots
        PROVE  /\ Batch(q)' \subseteq Captured' /\ requests'[q].todo \subseteq Batch(q)'
               /\ \A m \in Mutations : Decided(q, m)' => m \in Batch(q)'
    <3>1. CASE q = r
      BY <2>1, <2>2, <2>4, <3>1
    <3>2. CASE q # r
      BY <2>1, <2>3, <2>5, <3>2
    <3> QED BY <3>1, <3>2
  <2> QED BY <1>1, <2>1, <2>5, <2>6 DEF OnlyCapturedTravel
<1>8. AnswersAreComplete'
  BY <1>0, <1>2 DEF OrderInv, AnswersAreComplete, Batch, Nothing
<1>9. RequestsKeepOrder'
  <2> SUFFICES ASSUME NEW q \in Slots, NEW m \in Mutations, NEW n \in Mutations,
                      requests'[q].stage \in {"sent", "open"}, n \in Batch(q)',
                      Precedes(m, n), ~Excused(m)'
               PROVE  \/ receipts'[m] # "none"
                      \/ m \in Batch(q)' /\ requests'[q].position[m] < requests'[q].position[n]
    BY <1>1, OrderStays DEF RequestsKeepOrder
  <2>0. ~Excused(m)
    BY <1>1, OrderStays
  <2>1. CASE q # r
    BY <1>1, <1>2, <2>0, <2>1 DEF OrderInv, RequestsKeepOrder, Batch
  <2>2. CASE q = r
    <3>1. n \in batch
      BY <1>2, <2>2 DEF Batch
    <3>2. CASE m \in Pending(outbox)
      BY <1>2, <1>5, <2>2, <3>1, <3>2 DEF Precedes, Batch
    <3>3. CASE outbox[m].status = "inflight"
      BY <1>0, <1>1, <1>2, <2>0, <3>3 DEF OrderInv, InflightIsDecided, Excused
    <3>4. CASE outbox[m].status \in {"done", "conflicted", "refused"}
      BY <1>1, <3>4 DEF SyncInv, PhoneBelievesLedger
    <3>5. outbox[m].status \notin {"absent", "dead"}
      BY <2>0 DEF Precedes, Excused
    <3> QED BY <1>0, <3>2, <3>3, <3>4, <3>5 DEF OutboxRow, Statuses, Pending
  <2> QED BY <2>1, <2>2
<1>10. TransactionsKeepOrder'
  BY <1>1, <1>2, OrderStays DEF OrderInv, TransactionsKeepOrder, Decided, Ledger
<1>11. InflightIsDecided'
  BY <1>0, <1>1, <1>2, <1>4 DEF OrderInv, InflightIsDecided, Batch
<1>12. FifoPerJob'
  <2> SUFFICES ASSUME NEW n \in batch, NEW m \in Mutations,
                      JobOf[m] = JobOf[n], JobOf[n] # NoJob,
                      outbox'[m].place < outbox'[n].place,
                      m \in Pending(outbox') \cup batch
               PROVE  /\ m \in batch
                      /\ Positions(outbox, batch)[m] < Positions(outbox, batch)[n]
    BY <1>2 DEF FifoPerJob, Batch
  <2>1. m \in Pending(outbox)
    BY <1>3, <1>4 DEF Pending
  <2>2. outbox[m].place < outbox[n].place
    BY <1>1, <1>3 DEF RowsStay
  <2> QED BY <1>5, <2>1, <2>2
<1>13. OfficeKeepsOrder'
  BY <1>1 DEF OrderInv, OfficeKeepsOrder, RowsStay
<1> QED
  BY <1>6, <1>7, <1>8, <1>9, <1>10, <1>11, <1>12, <1>13 DEF OrderInv

\* A step of the office on one request.  Its part of the invariant, apart from what
\* the step does to that request, is said once.
LEMMA OfficeFrame ==
    ASSUME SyncInv, OrderInv, NEW r \in Slots,
           UNCHANGED <<outbox, uptime, awaiting, receipts>>,
           \A q \in Slots \ {r} : requests'[q] = requests[q],
           awaiting = r => Batch(r)' = Batch(r) /\ requests'[r].position = requests[r].position
    PROVE  /\ RowsAreInOrder' /\ InflightIsDecided' /\ FifoPerJob' /\ OfficeKeepsOrder'
           /\ Captured' = Captured
           /\ \A m, n \in Mutations : /\ Precedes(m, n)' <=> Precedes(m, n)
                                      /\ Excused(m)' <=> Excused(m)
<1>1. Captured' = Captured /\ Rows' = Rows
  BY DEF Captured, Rows
<1>2. RowsAreInOrder'
  BY <1>1 DEF OrderInv, RowsAreInOrder
<1>3. \A q \in Slots : awaiting = q => /\ Batch(q)' = Batch(q)
                                       /\ requests'[q].position = requests[q].position
  BY DEF Batch
<1>4. InflightIsDecided' /\ OfficeKeepsOrder'
  BY <1>3 DEF OrderInv, InflightIsDecided, OfficeKeepsOrder
<1>5. FifoPerJob'
  BY <1>3 DEF OrderInv, FifoPerJob, Pending
<1>6. \A m, n \in Mutations : /\ Precedes(m, n)' <=> Precedes(m, n)
                              /\ Excused(m)' <=> Excused(m)
  BY DEF Precedes, Excused
<1> QED BY <1>1, <1>2, <1>4, <1>5, <1>6

\* A request begins, is lost, refused or rolled back.
LEMMA RequestEndsOrder ==
    ASSUME SyncInv, OrderInv, NEW r \in Slots,
           \/ LoseRequest(r) \/ Deny(r) \/ Abort(r) \/ Begin(r)
           \/ \E m \in Mutations : DuplicateReceipt(r, m)
    PROVE  OrderInv'
<1>0. TypeOK /\ requests[r] \in RequestType /\ NoMutation \notin Mutations
  BY OutboxAssumption DEF SyncInv, TypeOK
<1>1. /\ UNCHANGED <<outbox, uptime, awaiting, receipts>>
      /\ \A q \in Slots \ {r} : requests'[q] = requests[q]
  BY <1>0 DEF LoseRequest, Deny, Abort, Begin, DuplicateReceipt, phone, office, TypeOK
<1>2. \/ requests'[r] = FreeSlot /\ awaiting # r
      \/ requests'[r] = [requests[r] EXCEPT !.stage = "failed"]
      \/ requests'[r] = [requests[r] EXCEPT !.stage = "denied"]
      \/ /\ requests'[r] = [requests[r] EXCEPT !.stage = "open"]
         /\ requests[r].stage = "sent" /\ Untouched(requests[r])
  BY <1>0 DEF LoseRequest, Deny, Abort, Begin, DuplicateReceipt, Respond, TypeOK,
              SyncInv, RequestsBeginUntouched
<1>3. \/ requests'[r] = FreeSlot /\ awaiting # r
      \/ /\ requests'[r].batch = requests[r].batch
         /\ requests'[r].todo = requests[r].todo
         /\ requests'[r].position = requests[r].position
         /\ requests'[r].handling = requests[r].handling
         /\ requests'[r].verdict = requests[r].verdict
         /\ requests'[r].wrote = requests[r].wrote
         /\ requests'[r].answer = requests[r].answer
         /\ \/ requests'[r].stage \in {"failed", "denied"}
            \/ /\ requests'[r].stage = "open" /\ requests[r].stage = "sent"
               /\ Untouched(requests[r])
  BY <1>0, <1>2 DEF RequestType
<1>4. /\ RowsAreInOrder' /\ InflightIsDecided' /\ FifoPerJob' /\ OfficeKeepsOrder'
      /\ Captured' = Captured
      /\ \A m, n \in Mutations : /\ Precedes(m, n)' <=> Precedes(m, n)
                                 /\ Excused(m)' <=> Excused(m)
  BY <1>1, <1>3, OfficeFrame DEF Batch
<1>5. OnlyCapturedTravel'
  <2>1. ASSUME NEW q \in Slots
        PROVE  /\ Batch(q)' \subseteq Captured /\ requests'[q].todo \subseteq Batch(q)'
               /\ \A m \in Mutations : Decided(q, m)' => m \in Batch(q)'
    <3>1. CASE requests'[q] = FreeSlot
      BY <1>0, <3>1 DEF FreeSlot, Batch, Decided, Nothing
    <3>2. CASE requests'[q] # FreeSlot
      BY <1>1, <1>3, <3>2 DEF OrderInv, OnlyCapturedTravel, Batch, Decided
    <3> QED BY <3>1, <3>2
  <2> QED BY <1>1, <1>4, <2>1 DEF OrderInv, OnlyCapturedTravel
<1>6. AnswersAreComplete'
  <2>1. ASSUME NEW q \in Slots
        PROVE  /\ requests'[q].handling # NoMutation => requests'[q].verdict # "none"
               /\ requests'[q].stage = "answered" => requests'[q].todo = {}
               /\ \A m \in Batch(q)' \ requests'[q].todo : requests'[q].answer[m] # "none"
               /\ \A m \in Mutations : requests'[q].answer[m] = "deferred"
                                            => DependsOn[m] # NoMutation
    <3>1. CASE requests'[q] = FreeSlot
      BY <1>0, <3>1 DEF FreeSlot, Batch, Nothing
    <3>2. CASE requests'[q] # FreeSlot
      BY <1>1, <1>3, <3>2 DEF OrderInv, AnswersAreComplete, Batch
    <3> QED BY <3>1, <3>2
  <2> QED BY <2>1 DEF AnswersAreComplete
<1>7. RequestsKeepOrder'
  BY <1>1, <1>3, <1>4 DEF OrderInv, RequestsKeepOrder, Batch, FreeSlot
<1>8. TransactionsKeepOrder'
  <2> SUFFICES ASSUME NEW q \in Slots, NEW m \in Mutations, NEW n \in Mutations,
                      requests'[q].stage = "open", Decided(q, n)',
                      Precedes(m, n), ~Excused(m)
               PROVE  Ledger(q, m)' # "none"
    BY <1>4 DEF TransactionsKeepOrder
  <2>1. q # r
    BY <1>0, <1>3 DEF FreeSlot, Decided, Untouched, Nothing
  <2> QED BY <1>1, <2>1 DEF OrderInv, TransactionsKeepOrder, Decided, Ledger
<1> QED BY <1>4, <1>5, <1>6, <1>7, <1>8 DEF OrderInv

\* Replay and Defer: a row without a parent is not told to wait.
LEMMA AnswerOrder ==
    ASSUME SyncInv, OrderInv, NEW r \in Slots, NEW k \in Mutations,
           Replay(r, k) \/ Defer(r, k)
    PROVE  OrderInv'
<1>0. TypeOK /\ requests[r] \in RequestType /\ Ledger(r, k) \in Verdicts \cup {"none"}
  BY RequestTypes DEF SyncInv, TypeOK
<1>1. PICK answer :
        /\ requests' = [requests EXCEPT ![r] = Answered(r, k, answer)]
        /\ answer # "none"
        /\ answer = "deferred" => DependsOn[k] # NoMutation
  BY <1>0 DEF Replay, Defer, ReplayAnswer, DependencyLanded, Verdicts
<1>2. /\ UNCHANGED <<outbox, uptime, awaiting, receipts>>
      /\ \A q \in Slots \ {r} : requests'[q] = requests[q]
      /\ requests[r].stage = "open" /\ requests'[r].stage = "open"
      /\ requests'[r].batch = requests[r].batch
      /\ requests'[r].todo = requests[r].todo \ {k}
      /\ requests'[r].position = requests[r].position
      /\ requests'[r].handling = requests[r].handling
      /\ requests'[r].verdict = requests[r].verdict
      /\ requests'[r].wrote = requests[r].wrote
      /\ requests'[r].answer[k] = answer
      /\ \A n \in Mutations \ {k} : requests'[r].answer[n] = requests[r].answer[n]
  BY <1>0, <1>1 DEF Replay, Defer, Turn, Answered, phone, office, TypeOK, RequestType
<1>3. /\ RowsAreInOrder' /\ InflightIsDecided' /\ FifoPerJob' /\ OfficeKeepsOrder'
      /\ Captured' = Captured
      /\ \A m, n \in Mutations : /\ Precedes(m, n)' <=> Precedes(m, n)
                                 /\ Excused(m)' <=> Excused(m)
  BY <1>2, OfficeFrame DEF Batch
<1>4. \A q \in Slots : /\ Batch(q)' = Batch(q)
                       /\ requests'[q].todo \subseteq requests[q].todo
                       /\ \A m \in Mutations : /\ Decided(q, m)' <=> Decided(q, m)
                                               /\ Ledger(q, m)' = Ledger(q, m)
  BY <1>2 DEF Batch, Decided, Ledger
<1>5. OnlyCapturedTravel'
  BY <1>2, <1>3, <1>4 DEF OrderInv, OnlyCapturedTravel
<1>6. AnswersAreComplete'
  <2>1. Batch(r) \subseteq Mutations
    BY <1>0 DEF Batch, RequestType
  <2> QED BY <1>1, <1>2, <1>4, <2>1 DEF OrderInv, AnswersAreComplete
<1>7. RequestsKeepOrder'
  BY <1>2, <1>3, <1>4 DEF OrderInv, RequestsKeepOrder
<1>8. TransactionsKeepOrder'
  BY <1>2, <1>3, <1>4 DEF OrderInv, TransactionsKeepOrder
<1> QED BY <1>3, <1>5, <1>6, <1>7, <1>8 DEF OrderInv

\* It is a row's turn only when every older row of the batch has its answer, and
\* that one's answer is in the ledger.
LEMMA HandleOrder ==
    ASSUME SyncInv, OrderInv, NEW r \in Slots, NEW k \in Mutations, Handle(r, k)
    PROVE  OrderInv'
<1>0. TypeOK /\ requests[r] \in RequestType /\ NoMutation \notin Mutations
  BY OutboxAssumption DEF SyncInv, TypeOK
<1>1. PICK o \in Outcomes(KindOf[k]) :
        requests' = [requests EXCEPT
            ![r].handling = k,
            ![r].verdict = o.verdict,
            ![r].effects = IF o.effect THEN @ \cup {k} ELSE @]
  BY DEF Handle
<1>2. /\ UNCHANGED <<outbox, uptime, awaiting, receipts>>
      /\ \A q \in Slots \ {r} : requests'[q] = requests[q]
      /\ requests[r].stage = "open" /\ requests'[r].stage = "open"
      /\ requests'[r].batch = requests[r].batch
      /\ requests'[r].todo = requests[r].todo
      /\ requests'[r].position = requests[r].position
      /\ requests'[r].handling = k
      /\ requests'[r].verdict # "none"
      /\ requests'[r].wrote = requests[r].wrote
      /\ requests'[r].answer = requests[r].answer
  BY <1>0, <1>1, OutcomesType DEF Handle, Turn, phone, office, TypeOK, RequestType, Verdicts
<1>3. /\ RowsAreInOrder' /\ InflightIsDecided' /\ FifoPerJob' /\ OfficeKeepsOrder'
      /\ Captured' = Captured
      /\ \A m, n \in Mutations : /\ Precedes(m, n)' <=> Precedes(m, n)
                                 /\ Excused(m)' <=> Excused(m)
  BY <1>2, OfficeFrame DEF Batch
<1>4. k \in Batch(r) /\ requests[r].handling = NoMutation
  BY DEF Handle, Turn, OrderInv, OnlyCapturedTravel
<1>5. \A q \in Slots, m \in Mutations :
        /\ Batch(q)' = Batch(q) /\ requests'[q].todo = requests[q].todo
        /\ Decided(q, m)' => Decided(q, m) \/ (q = r /\ m = k)
        /\ Ledger(q, m)' = Ledger(q, m)
  BY <1>2 DEF Batch, Decided, Ledger
<1>6. OnlyCapturedTravel'
  BY <1>2, <1>3, <1>4, <1>5 DEF OrderInv, OnlyCapturedTravel
<1>7. AnswersAreComplete'
  BY <1>2, <1>5 DEF OrderInv, AnswersAreComplete, Batch
<1>8. RequestsKeepOrder'
  BY <1>2, <1>3, <1>5 DEF OrderInv, RequestsKeepOrder
<1>9. TransactionsKeepOrder'
  <2> SUFFICES ASSUME NEW q \in Slots, NEW m \in Mutations, NEW n \in Mutations,
                      requests'[q].stage = "open", Decided(q, n)',
                      Precedes(m, n), ~Excused(m)
               PROVE  Ledger(q, m) # "none"
    BY <1>3, <1>5 DEF TransactionsKeepOrder
  <2>1. CASE Decided(q, n)
    BY <1>2, <2>1 DEF OrderInv, TransactionsKeepOrder
  <2>2. CASE q = r /\ n = k
    <3>1. CASE receipts[m] # "none"
      BY <3>1 DEF Ledger
    <3>2. CASE m \in Batch(r) /\ requests[r].position[m] < requests[r].position[k]
      <4>1. /\ requests[r].position[m] \in Nat /\ requests[r].position[k] \in Nat
            /\ m # k
        BY <1>0, <3>2 DEF RequestType
      <4>2. m \notin requests[r].todo
        BY <3>2, <4>1 DEF Handle, Turn
      <4>3. requests[r].answer[m] \in Verdicts
        <5>1. requests[r].answer[m] # "none" /\ requests[r].answer[m] # "deferred"
          BY <3>2, <4>2 DEF OrderInv, AnswersAreComplete, Excused
        <5> QED BY <1>0, <5>1 DEF RequestType, Answers
      <4>4. requests[r].answer[m] \in {Ledger(r, m), ReplayAnswer(Ledger(r, m))}
        BY <1>2, <4>3 DEF SyncInv, AnswersAreSound
      <4> QED BY <2>2, <4>3, <4>4 DEF ReplayAnswer, Verdicts
    <3> QED BY <1>2, <1>4, <2>2, <3>1, <3>2 DEF OrderInv, RequestsKeepOrder
  <2> QED BY <1>5, <2>1, <2>2
<1> QED BY <1>3, <1>6, <1>7, <1>8, <1>9 DEF OrderInv

LEMMA ReceiptOrder ==
    ASSUME SyncInv, OrderInv, NEW r \in Slots, NEW k \in Mutations, writeReceipt(r, k)
    PROVE  OrderInv'
<1>0. TypeOK /\ requests[r] \in RequestType /\ NoMutation \notin Mutations
  BY OutboxAssumption DEF SyncInv, TypeOK
<1>1. /\ UNCHANGED <<outbox, uptime, awaiting, receipts>>
      /\ \A q \in Slots \ {r} : requests'[q] = requests[q]
      /\ requests[r].stage = "open" /\ requests'[r].stage = "open"
      /\ requests[r].handling = k /\ requests'[r].handling = NoMutation
      /\ requests'[r].batch = requests[r].batch
      /\ requests'[r].todo = requests[r].todo \ {k}
      /\ requests'[r].position = requests[r].position
      /\ requests'[r].wrote = [requests[r].wrote EXCEPT ![k] = requests[r].verdict]
      /\ requests'[r].answer = [requests[r].answer EXCEPT ![k] = requests[r].verdict]
  BY <1>0 DEF writeReceipt, Answered, phone, office, TypeOK, RequestType
<1>2. requests[r].verdict \in Verdicts
  <2>1. requests[r].verdict # "none"
    BY <1>0, <1>1 DEF OrderInv, AnswersAreComplete
  <2> QED BY <1>0, <2>1 DEF RequestType
<1>3. /\ requests'[r].wrote[k] = requests[r].verdict
      /\ requests'[r].answer[k] = requests[r].verdict
      /\ \A n \in Mutations \ {k} : /\ requests'[r].wrote[n] = requests[r].wrote[n]
                                    /\ requests'[r].answer[n] = requests[r].answer[n]
  BY <1>0, <1>1 DEF RequestType
<1>4. /\ RowsAreInOrder' /\ InflightIsDecided' /\ FifoPerJob' /\ OfficeKeepsOrder'
      /\ Captured' = Captured
      /\ \A m, n \in Mutations : /\ Precedes(m, n)' <=> Precedes(m, n)
                                 /\ Excused(m)' <=> Excused(m)
  BY <1>1, OfficeFrame DEF Batch
<1>5. \A q \in Slots, m \in Mutations :
        /\ Batch(q)' = Batch(q) /\ requests'[q].todo \subseteq requests[q].todo
        /\ Decided(q, m)' => Decided(q, m)
        /\ Ledger(q, m) # "none" => Ledger(q, m)' # "none"
  <2>1. ASSUME NEW q \in Slots, NEW m \in Mutations
        PROVE  /\ Decided(q, m)' => Decided(q, m)
               /\ Ledger(q, m) # "none" => Ledger(q, m)' # "none"
    <3>1. CASE q = r /\ m = k
      BY <1>1, <1>2, <1>3, <3>1 DEF Decided, Ledger, Verdicts
    <3>2. CASE q = r /\ m # k
      BY <1>0, <1>1, <1>3, <3>2 DEF Decided, Ledger
    <3>3. CASE q # r
      BY <1>1, <3>3 DEF Decided, Ledger
    <3> QED BY <3>1, <3>2, <3>3
  <2> QED BY <1>1, <2>1 DEF Batch
<1>6. OnlyCapturedTravel'
  BY <1>1, <1>4, <1>5 DEF OrderInv, OnlyCapturedTravel
<1>7. AnswersAreComplete'
  <2>1. Batch(r) \subseteq Mutations /\ "none" \notin Verdicts /\ "deferred" \notin Verdicts
    BY <1>0 DEF Batch, RequestType, Verdicts
  <2>2. ASSUME NEW q \in Slots
        PROVE  /\ requests'[q].handling # NoMutation => requests'[q].verdict # "none"
               /\ requests'[q].stage = "answered" => requests'[q].todo = {}
               /\ \A m \in Batch(q)' \ requests'[q].todo : requests'[q].answer[m] # "none"
               /\ \A m \in Mutations : requests'[q].answer[m] = "deferred"
                                            => DependsOn[m] # NoMutation
    <3>1. CASE q # r
      BY <1>1, <1>5, <3>1 DEF OrderInv, AnswersAreComplete
    <3>2. CASE q = r
      <4>1. /\ \A m \in Batch(r) \ requests[r].todo : requests[r].answer[m] # "none"
            /\ \A m \in Mutations : requests[r].answer[m] = "deferred"
                                         => DependsOn[m] # NoMutation
        BY DEF OrderInv, AnswersAreComplete
      <4>2. ASSUME NEW m \in Batch(r)' \ requests'[r].todo
            PROVE  requests'[r].answer[m] # "none"
        BY <1>1, <1>2, <1>3, <1>5, <2>1, <4>1
      <4>3. ASSUME NEW m \in Mutations, requests'[r].answer[m] = "deferred"
            PROVE  DependsOn[m] # NoMutation
        BY <1>2, <1>3, <2>1, <4>1, <4>3
      <4> QED BY <1>1, <3>2, <4>2, <4>3
    <3> QED BY <3>1, <3>2
  <2> QED BY <2>2 DEF AnswersAreComplete
<1>8. RequestsKeepOrder'
  BY <1>1, <1>4, <1>5 DEF OrderInv, RequestsKeepOrder
<1>9. TransactionsKeepOrder'
  BY <1>1, <1>4, <1>5 DEF OrderInv, TransactionsKeepOrder
<1> QED BY <1>4, <1>6, <1>7, <1>8, <1>9 DEF OrderInv

LEMMA CommitOrder ==
    ASSUME SyncInv, OrderInv, NEW r \in Slots, Commit(r)
    PROVE  OrderInv'
<1>0. TypeOK /\ requests[r] \in RequestType /\ NoMutation \notin Mutations
  BY OutboxAssumption DEF SyncInv, TypeOK
<1>1. /\ UNCHANGED <<outbox, uptime, awaiting>>
      /\ requests[r].stage = "open" /\ requests[r].handling = NoMutation
      /\ requests[r].todo = {}
      /\ \A q \in Slots \ {r} : requests'[q] = requests[q]
      /\ \A m \in Mutations : receipts'[m] = Ledger(r, m)
  BY <1>0 DEF Commit, phone, TypeOK
<1>2. \/ requests'[r] = FreeSlot /\ awaiting # r
      \/ requests'[r] = [requests[r] EXCEPT !.stage = "answered"]
  BY <1>0 DEF Commit, Respond, TypeOK
<1>3. \/ requests'[r] = FreeSlot /\ awaiting # r
      \/ /\ requests'[r].stage = "answered"
         /\ requests'[r].batch = requests[r].batch
         /\ requests'[r].todo = {}
         /\ requests'[r].position = requests[r].position
         /\ requests'[r].handling = NoMutation
         /\ requests'[r].wrote = requests[r].wrote
         /\ requests'[r].answer = requests[r].answer
  BY <1>0, <1>1, <1>2 DEF RequestType
<1>4. /\ Captured' = Captured /\ Rows' = Rows
      /\ \A m, n \in Mutations : /\ Precedes(m, n)' <=> Precedes(m, n)
                                 /\ Excused(m)' <=> Excused(m)
  BY <1>1 DEF Captured, Rows, Precedes, Excused
<1>5. \A m \in Mutations : receipts[m] # "none" => receipts'[m] # "none"
  BY CommitFacts
<1>6. \A q \in Slots, m \in Mutations :
        Ledger(q, m) # "none" /\ q # r => Ledger(q, m)' # "none"
  BY <1>1, <1>5 DEF Ledger
<1>7. RowsAreInOrder'
  BY <1>1, <1>4 DEF OrderInv, RowsAreInOrder
<1>8. OnlyCapturedTravel'
  <2>1. ASSUME NEW q \in Slots
        PROVE  /\ Batch(q)' \subseteq Captured /\ requests'[q].todo \subseteq Batch(q)'
               /\ \A m \in Mutations : Decided(q, m)' => m \in Batch(q)'
    <3>1. CASE requests'[q] = FreeSlot
      BY <1>0, <3>1 DEF FreeSlot, Batch, Decided, Nothing
    <3>2. CASE requests'[q] # FreeSlot
      BY <1>0, <1>1, <1>3, <3>2 DEF OrderInv, OnlyCapturedTravel, Batch, Decided
    <3> QED BY <3>1, <3>2
  <2>2. ASSUME NEW m \in Mutations, receipts'[m] # "none" PROVE m \in Captured
    BY <1>1, <2>2 DEF Ledger, Decided, OrderInv, OnlyCapturedTravel
  <2> QED BY <1>4, <2>1, <2>2 DEF OnlyCapturedTravel
<1>9. AnswersAreComplete'
  <2>1. ASSUME NEW q \in Slots
        PROVE  /\ requests'[q].handling # NoMutation => requests'[q].verdict # "none"
               /\ requests'[q].stage = "answered" => requests'[q].todo = {}
               /\ \A m \in Batch(q)' \ requests'[q].todo : requests'[q].answer[m] # "none"
               /\ \A m \in Mutations : requests'[q].answer[m] = "deferred"
                                            => DependsOn[m] # NoMutation
    <3>1. CASE requests'[q] = FreeSlot
      BY <1>0, <3>1 DEF FreeSlot, Batch, Nothing
    <3>2. CASE requests'[q] # FreeSlot
      BY <1>1, <1>3, <3>2 DEF OrderInv, AnswersAreComplete, Batch
    <3> QED BY <3>1, <3>2
  <2> QED BY <2>1 DEF AnswersAreComplete
<1>10. RequestsKeepOrder'
  BY <1>1, <1>3, <1>4, <1>5 DEF OrderInv, RequestsKeepOrder, Batch, FreeSlot
<1>11. TransactionsKeepOrder'
  <2> SUFFICES ASSUME NEW q \in Slots, NEW m \in Mutations, NEW n \in Mutations,
                      requests'[q].stage = "open", Decided(q, n)',
                      Precedes(m, n), ~Excused(m)
               PROVE  Ledger(q, m)' # "none"
    BY <1>4 DEF TransactionsKeepOrder
  <2>1. q # r
    BY <1>3 DEF FreeSlot
  <2> QED BY <1>1, <1>6, <2>1 DEF OrderInv, TransactionsKeepOrder, Decided
<1>12. InflightIsDecided'
  BY <1>1, <1>3, <1>5 DEF OrderInv, InflightIsDecided, Batch
<1>13. FifoPerJob'
  <2>1. \A q \in Slots : awaiting = q => /\ Batch(q)' = Batch(q)
                                         /\ requests'[q].position = requests[q].position
    BY <1>1, <1>3 DEF Batch
  <2> QED BY <1>1, <2>1 DEF OrderInv, FifoPerJob, Pending
<1>14. OfficeKeepsOrder'
  <2> SUFFICES ASSUME NEW m \in Mutations, NEW n \in Mutations, Precedes(m, n),
                      Ledger(r, n) # "none", Ledger(r, m) = "none"
               PROVE  Excused(m)
    BY <1>1 DEF OfficeKeepsOrder, Precedes, Excused
  <2>1. receipts[m] = "none"
    BY DEF Ledger
  <2>2. CASE Decided(r, n)
    BY <1>1, <2>2 DEF OrderInv, TransactionsKeepOrder
  <2>3. CASE ~Decided(r, n)
    <3>1. receipts[n] # "none"
      BY <2>3 DEF Ledger, Decided
    <3> QED BY <2>1, <3>1 DEF OrderInv, OfficeKeepsOrder, Precedes, Excused
  <2> QED BY <2>2, <2>3
<1> QED BY <1>7, <1>8, <1>9, <1>10, <1>11, <1>12, <1>13, <1>14 DEF OrderInv

LEMMA StepOrder ==
    ASSUME SyncInv, OrderInv, AppLives, AppLives', [Next]_vars
    PROVE  OrderInv'
<1>1. CASE PhoneStep
  <2>1. ~Kill /\ ~Startup
    BY DEF Kill, Startup, AppLives
  <2> QED BY <1>1, <2>1, CaptureOrder, IdleOrder, SendOrder, WaitEndsOrder DEF PhoneStep
<1>2. CASE OfficeStep
  BY <1>2, RequestEndsOrder, AnswerOrder, HandleOrder, ReceiptOrder, CommitOrder
     DEF OfficeStep
<1>3. CASE UNCHANGED vars
  <2>1. RowsStay /\ UNCHANGED <<uptime, awaiting, requests, receipts, outbox>>
    BY <1>3 DEF vars, phone, office, RowsStay
  <2>2. FifoPerJob' /\ InflightIsDecided'
    BY <2>1 DEF OrderInv, FifoPerJob, InflightIsDecided, Batch, Pending
  <2> QED BY <2>1, <2>2, RowsStayInOrder, FewerRequests DEF OrderInv
<1> QED BY <1>1, <1>2, <1>3 DEF Next

LEMMA InitOrder == Init => OrderInv
<1> SUFFICES ASSUME Init PROVE OrderInv
  OBVIOUS
<1>1. Captured = {} /\ NoMutation \notin Mutations /\ NoRequest \notin Slots
  BY OutboxAssumption, SyncAssumption DEF Init, Captured, NoRow
<1>2. RowsAreInOrder /\ OnlyCapturedTravel
  BY <1>1 DEF Init, RowsAreInOrder, OnlyCapturedTravel, Batch, FreeSlot, Decided, Nothing
<1>3. AnswersAreComplete /\ RequestsKeepOrder /\ TransactionsKeepOrder
  BY <1>1 DEF Init, AnswersAreComplete, RequestsKeepOrder, TransactionsKeepOrder, Batch,
              FreeSlot, Nothing
<1>4. InflightIsDecided /\ FifoPerJob /\ OfficeKeepsOrder
  BY <1>1 DEF Init, InflightIsDecided, FifoPerJob, OfficeKeepsOrder, NoRow, Nothing
<1> QED BY <1>2, <1>3, <1>4 DEF OrderInv

\* As long as the app is not killed, the queue, the requests and the transactions
\* keep the order in which the rows of a job were recorded.
THEOREM OrderIsKept == Spec /\ []AppLives => []OrderInv
<1>1. SyncInv /\ OrderInv /\ AppLives /\ AppLives' /\ [Next]_vars => OrderInv'
  BY StepOrder
<1> QED BY InitOrder, <1>1, Invariance, PTL DEF Spec

\* "FIFO per aggregate root", for every queue of a phone that is not killed: with
\* sign-outs, lost answers and a keystore that fails.
THEOREM BatchesAreFifo == Spec /\ []AppLives => []FifoPerJob
BY OrderIsKept, PTL DEF OrderInv

\* ... and the office decides on the rows of a job in that order, however many
\* requests that were given up still run there.
THEOREM OfficeIsFifo == Spec /\ []AppLives => []OfficeKeepsOrder
BY OrderIsKept, PTL DEF OrderInv
=============================================================================
