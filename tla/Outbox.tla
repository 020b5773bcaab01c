------------------------------- MODULE Outbox -------------------------------
(***************************************************************************)
(* The pure half of the technician phone's outbox: the row, the status     *)
(* transitions of apps/field/src/sync/outbox.ts and the drain planner of   *)
(* apps/field/src/sync/engine.ts.  Like the code it stands for, the module *)
(* has no state of its own; FieldSync applies it to the rows the phone     *)
(* has persisted.                                                          *)
(*                                                                         *)
(* A deadline (nextAttemptAfter) is abstracted to `waiting`: the deadline  *)
(* lies ahead of the monotonic clock.  Everything the planner asks of a    *)
(* deadline is that one bit.  Messages and payloads are left out.          *)
(***************************************************************************)
EXTENDS Naturals, FiniteSetsExt

CONSTANTS
    Mutations,          \* the client ids the phone may mint
    Jobs,               \* aggregate roots
    JobOf,              \* the job of a mutation, or NoJob
    NoJob,              \* an attendance event belongs to no job
    DependsOn,          \* dependsOnClientId, or NoMutation
    NoMutation,
    MaxAttempts,        \* MAX_ATTEMPTS, 8 in the code
    DrainBatchLimit     \* DRAIN_BATCH_LIMIT, 200 in the code

ASSUME OutboxAssumption ==
    /\ IsFiniteSet(Mutations)
    /\ NoMutation \notin Mutations
    /\ JobOf \in [Mutations -> Jobs \cup {NoJob}]
    /\ DependsOn \in [Mutations -> Mutations \cup {NoMutation}]
    /\ MaxAttempts \in Nat \ {0}
    /\ DrainBatchLimit \in Nat \ {0}

-----------------------------------------------------------------------------
(* Rows.  "absent" is an id that has no row yet; a row that is `done` is   *)
(* never loaded again, which is why the planner treats both alike.         *)

Statuses ==
    {"absent", "pending", "inflight", "done", "dead", "conflicted", "refused"}

OutboxRow == [status       : Statuses,
              attemptCount : Nat,
              waiting      : BOOLEAN,
              created      : Nat,     \* createdMonotonic
              place        : Nat]     \* insertion order in the table

NoRow == [status |-> "absent", attemptCount |-> 0, waiting |-> FALSE,
          created |-> 0, place |-> 0]

NewRow(reading, place) ==
    [status |-> "pending", attemptCount |-> 0, waiting |-> FALSE,
     created |-> reading, place |-> place]

-----------------------------------------------------------------------------
(* The transitions of outbox.ts, one operator per function.                *)

markInflight(row)   == [row EXCEPT !.status = "inflight"]
afterAccepted(row)  == [row EXCEPT !.status = "done"]
afterConflict(row)  == [row EXCEPT !.status = "conflicted"]
afterRefusal(row)   == [row EXCEPT !.status = "refused"]
afterRejected(row)  == [row EXCEPT !.status = "dead"]
\* Two mutants of the next: the office's word stored as it came; taken for a yes.
StoredAsAnswered(row) == [row EXCEPT !.status = "deferred", !.waiting = FALSE]
TakenForAccepted(row) == [row EXCEPT !.status = "done", !.waiting = FALSE]
afterDeferred(row)  == [row EXCEPT !.status = "pending", !.waiting = FALSE]

\* `jittered` is the draw of the full jitter: FALSE when it came out as zero.
afterTransportFailure(row, jittered) ==
    LET attempts == row.attemptCount + 1
    IN  IF attempts >= MaxAttempts
        THEN [row EXCEPT !.attemptCount = attempts, !.status = "dead",
                         !.waiting = FALSE]
        ELSE [row EXCEPT !.attemptCount = attempts, !.status = "pending",
                         !.waiting = jittered]

afterProtocolFailure(row) ==
    [row EXCEPT !.attemptCount = row.attemptCount + 1, !.status = "dead",
                !.waiting = FALSE]

\* The DeviceAuthError branch of sendBatch: back in the queue, nothing charged.
afterSignedOut(row) == [row EXCEPT !.status = "pending", !.waiting = FALSE]

\* A mutant of the next: everything but a verdict of "accepted" is sent again.
RecoverUnsettled(row) ==
    IF row.status \in {"inflight", "conflicted", "refused"}
    THEN [row EXCEPT !.status = "pending", !.waiting = FALSE]
    ELSE row

recoverInflight(row) ==
    IF row.status = "inflight"
    THEN [row EXCEPT !.status = "pending", !.waiting = FALSE]
    ELSE row

-----------------------------------------------------------------------------
(* The drain planner.                                                      *)

Pending(box) == {m \in Mutations : box[m].status = "pending"}

\* aggregateKey: a row with no job is an aggregate of one.
Aggregate(m) == IF JobOf[m] = NoJob THEN m ELSE JobOf[m]

\* A mutant of the next: rows that have failed least often go first.
FewerAttempts(box, m, n) ==
    \/ box[m].attemptCount < box[n].attemptCount
    \/ box[m].attemptCount = box[n].attemptCount /\ box[m].place < box[n].place

\* The comparison of Array.prototype.sort: the monotonic reading, and the
\* order the rows were loaded in where two readings are equal.
Older(box, m, n) ==
    \/ box[m].created < box[n].created
    \/ box[m].created = box[n].created /\ box[m].place < box[n].place

GroupHead(box, m) ==
    CHOOSE h \in Pending(box) :
        /\ Aggregate(h) = Aggregate(m)
        /\ \A n \in Pending(box) \ {h} :
              Aggregate(n) = Aggregate(m) => Older(box, h, n)

\* The order of the planner's two loops: groups by the reading of their oldest
\* row, in the order they were first met where two readings are equal; rows of a
\* group by age.
FirstMet(box, m) ==
    Min({box[n].place : n \in {n \in Pending(box) : Aggregate(n) = Aggregate(m)}})

GroupOlder(box, m, n) ==
    LET reading(k) == box[GroupHead(box, k)].created
    IN  \/ reading(m) < reading(n)
        \/ reading(m) = reading(n) /\ FirstMet(box, m) < FirstMet(box, n)

Before(box, m, n) ==
    IF Aggregate(m) = Aggregate(n) THEN Older(box, m, n) ELSE GroupOlder(box, m, n)

\* A mutant of the next: a parent that is done still holds its child back.
ForgottenIfDead(box, parent) == box[parent].status = "dead"

\* An unknown parent counts as accepted and pruned.
Forgotten(box, parent) == box[parent].status \in {"absent", "done"}

\* A mutant of the next: a held-back row stops no other.
AheadOfNone(box, m) == {}

\* The rows of its group a row must not overtake.
Ahead(box, m) ==
    {n \in Pending(box) : Aggregate(n) = Aggregate(m) /\ Older(box, n, m)}

\* Nothing holds a row back once the rows `sends` go too: its backoff has passed, its
\* parent is forgotten or ahead of it in this batch, and so is all of its group
\* that is older.
Clear(box, m, sends) ==
    /\ ~box[m].waiting
    /\ LET parent == DependsOn[m] IN
         \/ parent = NoMutation
         \/ Forgotten(box, parent)
         \/ parent \in sends /\ Before(box, parent, m)
    /\ Ahead(box, m) \subseteq sends

\* The rows no rule holds back: the largest set of pending rows that can all go.
Sendable(box) ==
    UNION {sends \in SUBSET Pending(box) : \A m \in sends : Clear(box, m, sends)}

\* The batch: the first DrainBatchLimit sendable rows.
planDrain(box) ==
    {m \in Sendable(box) :
        Cardinality({n \in Sendable(box) : Before(box, n, m)}) < DrainBatchLimit}

\* The place of each row of a batch in the request's array.
Positions(box, batch) ==
    [m \in Mutations |->
        IF m \in batch THEN Cardinality({n \in batch : Before(box, n, m)}) ELSE 0]

=============================================================================
