---------------------------- MODULE Jobs_proofs ----------------------------
(***************************************************************************)
(* Proofs about Jobs for any number of technicians, of open transactions   *)
(* and of visits.                                                          *)
(***************************************************************************)
EXTENDS Jobs, TLAPS

-----------------------------------------------------------------------------
(* The status graph and the transactions.                                  *)

LEMMA StatusNames ==
    JobStatuses = {"draft", "submitted", "triaged", "scheduled", "dispatched", "en_route",
                   "on_site", "paused", "work_complete", "signed_off", "invoiced",
                   "closed", "cancelled"}
BY DEF JobStatuses, Transitions

\* The graph stays among its statuses, and reaches what follows the completion
\* only from the completion and what follows it.
LEMMA GraphFacts ==
    ASSUME NEW from \in JobStatuses, NEW to, canTransition(from, to)
    PROVE  /\ to \in JobStatuses
           /\ to \in Completed => to = "work_complete" \/ from \in Completed
BY StatusNames DEF canTransition, Transitions, Completed

LEMMA IdleFacts ==
    /\ Idle \in Tx
    /\ MoveIsSound(Idle)
    /\ PlanIsSound(Idle)
    /\ ~HoldsJob(Idle)
    /\ ~Inserted(Idle)
    /\ Idle.retire = {} /\ Idle.advance = {}
BY StatusNames, JobsAssumption
   DEF Idle, Tx, Pcs, MoveIsSound, PlanIsSound, HoldsJob, Inserted

\* A step that writes nothing but its own transaction's record preserves the
\* invariant if the new record is sound and respects the locks of the others.
LEMMA LocalStep ==
    ASSUME JobsInv, NEW t \in Txs, NEW x \in Tx,
           tx' = [tx EXCEPT ![t] = x],
           UNCHANGED <<job, outcome, evidence, visits>>,
           MoveIsSound(x), PlanIsSound(x),
           HoldsJob(x) => JobFree(t),
           Inserted(x) => \A q \in Txs \ {t} : ~Inserted(tx[q])
    PROVE  JobsInv'
<1>1. tx \in [Txs -> Tx]
  BY DEF JobsInv, TypeOK
<1>2. tx'[t] = x /\ \A q \in Txs \ {t} : tx'[q] = tx[q]
  BY <1>1
<1>3. TypeOK'
  BY <1>1 DEF JobsInv, TypeOK
<1>4. OneHolder'
  BY <1>2 DEF JobsInv, OneHolder, JobFree
<1>5. MovesAreSound'
  <2>1. ASSUME NEW y, MoveIsSound(y) PROVE MoveIsSound(y)'
    BY <2>1 DEF MoveIsSound, Visits
  <2>2. MoveIsSound(x)'
    BY <2>1
  <2>3. ASSUME NEW q \in Txs \ {t} PROVE MoveIsSound(tx[q])'
    <3>1. MoveIsSound(tx[q])
      BY DEF JobsInv, MovesAreSound
    <3> QED BY <3>1, <1>2, <2>3 DEF MoveIsSound, Visits
  <2>4. MoveIsSound(tx[t])'
    BY <1>2 DEF MoveIsSound, Visits
  <2> QED BY <2>3, <2>4 DEF MovesAreSound
<1>6. PlansAreSound'
  <2>1. PlanIsSound(tx[t])'
    BY <1>2 DEF PlanIsSound, Inserted, Visits
  <2>2. ASSUME NEW q \in Txs \ {t} PROVE PlanIsSound(tx[q])'
    <3>1. PlanIsSound(tx[q])
      BY DEF JobsInv, PlansAreSound
    <3> QED BY <3>1, <1>2, <2>2 DEF PlanIsSound, Inserted, Visits
  <2> QED BY <2>1, <2>2 DEF PlansAreSound
<1>7. OneInserter'
  BY <1>2 DEF JobsInv, OneInserter, Inserted
<1>8. OneLivePlan' /\ TrackingStops' /\ CompletionHasOutcome'
  BY DEF JobsInv, OneLivePlan, TrackingStops, CompletionHasOutcome, Visits
<1> QED BY <1>3, <1>4, <1>5, <1>6, <1>7, <1>8 DEF JobsInv

-----------------------------------------------------------------------------
(* The steps before a transaction commits.                                 *)

\* A transaction that holds nothing and has nothing to keep respects everybody.
LEMMA EarlyStep ==
    ASSUME JobsInv, NEW t \in Txs, NEW x \in Tx,
           tx' = [tx EXCEPT ![t] = x],
           UNCHANGED <<job, outcome, evidence, visits>>,
           MoveIsSound(x), PlanIsSound(x),
           ~HoldsJob(x), ~Inserted(x)
    PROVE  JobsInv'
BY LocalStep

LEMMA BeginMoveStep ==
    ASSUME JobsInv, NEW t \in Txs, NEW who \in Technicians \cup {Office},
           NEW to \in JobStatuses, BeginMove(t, who, to)
    PROVE  JobsInv'
<1> DEFINE x == [Idle EXCEPT !.pc = "moving", !.op = "move", !.who = who, !.to = to]
<1>1. x \in Tx /\ x.pc = "moving" /\ x.op = "move" /\ x.to = to /\ x.advance = {}
  BY IdleFacts DEF Tx, Pcs
<1>2. to \in Completed => outcome
  <2>1. job \in JobStatuses
    BY DEF JobsInv, TypeOK
  <2>2. canTransition(job, to)
    BY DEF BeginMove
  <2>3. to # "work_complete"
    BY DEF BeginMove, MayAsk, DeviceDrivable
  <2>4. job \in Completed => outcome
    BY DEF JobsInv, CompletionHasOutcome
  <2> QED BY <2>1, <2>2, <2>3, <2>4, GraphFacts
<1>3. tx' = [tx EXCEPT ![t] = x] /\ UNCHANGED <<job, outcome, evidence, visits>>
  BY DEF BeginMove
<1> HIDE DEF x
<1>4. MoveIsSound(x)
  BY <1>1, <1>2 DEF MoveIsSound
<1>5. PlanIsSound(x) /\ ~HoldsJob(x) /\ ~Inserted(x)
  BY <1>1 DEF PlanIsSound, HoldsJob, Inserted
<1> QED BY <1>1, <1>3, <1>4, <1>5, EarlyStep

LEMMA BeginOutcomeStep ==
    ASSUME JobsInv, NEW t \in Txs, NEW who \in Technicians \cup {Office},
           NEW completeWork \in BOOLEAN, BeginOutcome(t, who, completeWork)
    PROVE  JobsInv'
<1> DEFINE to == IF completeWork /\ job = "on_site" THEN "work_complete" ELSE job
           x == [Idle EXCEPT !.pc = "recording", !.op = "outcome", !.who = who,
                             !.from = job, !.to = to]
<1>1. to \in JobStatuses /\ job \in JobStatuses /\ to \in {job, "work_complete"}
  BY StatusNames DEF JobsInv, TypeOK
<1>2. tx' = [tx EXCEPT ![t] = x] /\ UNCHANGED <<job, outcome, evidence, visits>>
  BY DEF BeginOutcome
<1> HIDE DEF to
<1>3. /\ x \in Tx /\ x.pc = "recording" /\ x.op = "outcome" /\ x.to = to /\ x.from = job
      /\ x.advance = {}
  BY <1>1, IdleFacts DEF Tx, Pcs
<1> HIDE DEF x
<1>4. MoveIsSound(x)
  BY <1>1, <1>3 DEF MoveIsSound
<1>5. PlanIsSound(x) /\ ~HoldsJob(x) /\ ~Inserted(x)
  BY <1>3 DEF PlanIsSound, HoldsJob, Inserted
<1> QED BY <1>2, <1>3, <1>4, <1>5, EarlyStep

LEMMA BeginAssignStep ==
    ASSUME JobsInv, NEW t \in Txs, NEW technician \in Technicians, BeginAssign(t, technician)
    PROVE  JobsInv'
<1> DEFINE x == [Idle EXCEPT !.pc = "assigning", !.op = "assign", !.who = technician,
                             !.from = job]
<1>1. x \in Tx /\ x.pc = "assigning" /\ x.op = "assign" /\ x.who \in Technicians /\ x.advance = {}
  BY IdleFacts DEF Tx, Pcs, JobsInv, TypeOK
<1>2. tx' = [tx EXCEPT ![t] = x] /\ UNCHANGED <<job, outcome, evidence, visits>>
  BY DEF BeginAssign
<1> HIDE DEF x
<1>3. MoveIsSound(x)
  BY <1>1 DEF MoveIsSound
<1>4. PlanIsSound(x) /\ ~HoldsJob(x) /\ ~Inserted(x)
  BY <1>1 DEF PlanIsSound, HoldsJob, Inserted
<1> QED BY <1>1, <1>2, <1>3, <1>4, EarlyStep

\* A move has decided on visits it saw live, and on every attended one if it
\* ends the work.
LEMMA TargetsFacts ==
    ASSUME TypeOK, NEW to, NEW who
    PROVE  /\ Targets(to, who) \in SUBSET (1..MaxVisits)
           /\ \A v \in Targets(to, who) :
                 /\ v \in Visits
                 /\ visits[v].status \notin {"completed", "aborted"}
                 /\ to \in {"en_route", "on_site", "work_complete", "cancelled"}
           /\ to \in {"work_complete", "cancelled"} =>
                 \A v \in Visits : visits[v].status \in Attended => v \in Targets(to, who)
<1>1. Visits = 1..Len(visits) /\ Len(visits) \in Nat /\ Len(visits) <= MaxVisits
  BY DEF TypeOK, Visits
<1>2. MaxVisits \in Nat
  BY JobsAssumption
<1>3. Visits \subseteq 1..MaxVisits
  BY <1>1, <1>2
<1>4. Targets(to, who) \subseteq Visits
  BY DEF Targets
<1> QED BY <1>3, <1>4 DEF Targets, Occupying, Attended

LEMMA MoveJobStep ==
    ASSUME JobsInv, NEW t \in Txs, MoveJob(t)
    PROVE  JobsInv'
<1> DEFINE x == [tx[t] EXCEPT !.pc = "moved", !.advance = Targets(tx[t].to, tx[t].who)]
<1>1. TypeOK /\ tx[t] \in Tx /\ tx[t].pc = "moving" /\ JobFree(t)
  BY DEF JobsInv, TypeOK, MoveJob
<1>2. MoveIsSound(tx[t]) /\ PlanIsSound(tx[t])
  BY DEF JobsInv, MovesAreSound, PlansAreSound
<1>3. x \in Tx
  BY <1>1, TargetsFacts DEF Tx, Pcs
<1>4. /\ x.pc = "moved" /\ x.op = tx[t].op /\ x.who = tx[t].who /\ x.to = tx[t].to
      /\ x.advance = Targets(tx[t].to, tx[t].who)
      /\ x.retire = tx[t].retire /\ x.sequence = tx[t].sequence
  BY <1>1 DEF Tx
<1>5. tx' = [tx EXCEPT ![t] = x] /\ UNCHANGED <<job, outcome, evidence, visits>>
  BY DEF MoveJob, JobsInv, TypeOK
<1> HIDE DEF x
<1>6. MoveIsSound(x)
  BY <1>1, <1>2, <1>4, TargetsFacts DEF MoveIsSound
<1>7. PlanIsSound(x)
  BY <1>1, <1>2, <1>4 DEF PlanIsSound, Inserted
<1>8. Inserted(x) => \A q \in Txs \ {t} : ~Inserted(tx[q])
  BY <1>1, <1>4 DEF JobsInv, OneInserter, Inserted
<1> QED BY <1>1, <1>3, <1>5, <1>6, <1>7, <1>8, LocalStep

LEMMA RecordOutcomeStep ==
    ASSUME JobsInv, NEW t \in Txs, RecordOutcome(t)
    PROVE  JobsInv'
<1> DEFINE x == [tx[t] EXCEPT !.pc = "recorded"]
<1>1. tx[t] \in Tx /\ tx[t].pc = "recording" /\ tx[t].to # tx[t].from /\ JobFree(t)
  BY DEF JobsInv, TypeOK, RecordOutcome
<1>2. MoveIsSound(tx[t])
  BY DEF JobsInv, MovesAreSound
<1>3. /\ x \in Tx /\ x.pc = "recorded" /\ x.op = tx[t].op /\ x.to = tx[t].to
      /\ x.advance = tx[t].advance
  BY <1>1 DEF Tx, Pcs
<1>4. tx' = [tx EXCEPT ![t] = x] /\ UNCHANGED <<job, outcome, evidence, visits>>
  BY DEF RecordOutcome, JobsInv, TypeOK
<1> HIDE DEF x
<1>5. MoveIsSound(x)
  BY <1>1, <1>2, <1>3 DEF MoveIsSound
<1>6. PlanIsSound(x) /\ ~Inserted(x)
  BY <1>1, <1>2, <1>3 DEF PlanIsSound, Inserted, MoveIsSound
<1> QED BY <1>1, <1>3, <1>4, <1>5, <1>6, LocalStep

LEMMA CompleteJobStep ==
    ASSUME JobsInv, NEW t \in Txs, CompleteJob(t)
    PROVE  JobsInv'
<1> DEFINE x == [tx[t] EXCEPT !.pc = "moved",
                              !.advance = Targets("work_complete", tx[t].who)]
<1>1. TypeOK /\ tx[t] \in Tx /\ tx[t].pc = "recorded"
  BY DEF JobsInv, TypeOK, CompleteJob
<1>2. MoveIsSound(tx[t])
  BY DEF JobsInv, MovesAreSound
<1>3. x \in Tx
  BY <1>1, TargetsFacts DEF Tx, Pcs
<1>4. /\ x.pc = "moved" /\ x.op = "outcome" /\ x.to = "work_complete"
      /\ x.advance = Targets("work_complete", tx[t].who)
  BY <1>1, <1>2 DEF Tx, MoveIsSound
<1>5. tx' = [tx EXCEPT ![t] = x] /\ UNCHANGED <<job, outcome, evidence, visits>>
  BY DEF CompleteJob, JobsInv, TypeOK
<1>6. JobFree(t)
  BY <1>1 DEF JobsInv, OneHolder, HoldsJob, JobFree
<1> HIDE DEF x
<1>7. MoveIsSound(x)
  BY <1>1, <1>4, TargetsFacts DEF MoveIsSound
<1>8. PlanIsSound(x) /\ ~Inserted(x)
  BY <1>4 DEF PlanIsSound, Inserted
<1> QED BY <1>3, <1>5, <1>6, <1>7, <1>8, LocalStep

LEMMA ReadVisitsStep ==
    ASSUME JobsInv, NEW t \in Txs, ReadVisits(t)
    PROVE  JobsInv'
<1> DEFINE booked == {v \in Visits : visits[v].status \in Retirable}
           x == [tx[t] EXCEPT !.pc = "planned", !.retire = booked,
                              !.sequence = Len(visits) + 1]
<1>1. TypeOK /\ tx[t] \in Tx /\ tx[t].pc = "assigning" /\ Len(visits) < MaxVisits
  BY DEF JobsInv, TypeOK, ReadVisits
<1>2. PlanIsSound(tx[t]) /\ MoveIsSound(tx[t])
  BY DEF JobsInv, PlansAreSound, MovesAreSound
<1>3. Visits = 1..Len(visits) /\ Len(visits) \in Nat /\ MaxVisits \in Nat
  BY <1>1, JobsAssumption DEF TypeOK, Visits
<1>4. booked \in SUBSET (1..MaxVisits) /\ Len(visits) + 1 \in 0..MaxVisits
      /\ Len(visits) + 1 \in 1..(Len(visits) + 1)
  BY <1>1, <1>3
<1>5. \A v \in Visits : visits[v].status = "assigned" => v \in booked
  BY DEF Retirable
<1>6. tx' = [tx EXCEPT ![t] = x] /\ UNCHANGED <<job, outcome, evidence, visits>>
  BY DEF ReadVisits, JobsInv, TypeOK
<1> HIDE DEF booked
<1>7. x \in Tx
  BY <1>1, <1>4 DEF Tx, Pcs
<1>8. /\ x.pc = "planned" /\ x.op = tx[t].op /\ x.who = tx[t].who
      /\ x.retire = booked /\ x.sequence = Len(visits) + 1 /\ x.advance = tx[t].advance
  BY <1>1 DEF Tx
<1> HIDE DEF x
<1>9. MoveIsSound(x) /\ ~HoldsJob(x) /\ ~Inserted(x)
  BY <1>1, <1>2, <1>8 DEF MoveIsSound, HoldsJob, Inserted
<1>10. PlanIsSound(x)
  BY <1>1, <1>2, <1>4, <1>5, <1>8 DEF PlanIsSound, Inserted
<1> QED BY <1>6, <1>7, <1>9, <1>10, EarlyStep

LEMMA RetireAndInsertStep ==
    ASSUME JobsInv, NEW t \in Txs, RetireAndInsert(t)
    PROVE  JobsInv'
<1> DEFINE x == [tx[t] EXCEPT !.pc = "inserted"]
<1>1. TypeOK /\ tx[t] \in Tx /\ tx[t].pc = "planned" /\ ~SequenceTaken(t) /\ ~SequenceHeld(t)
  BY DEF JobsInv, TypeOK, RetireAndInsert
<1>2. PlanIsSound(tx[t]) /\ MoveIsSound(tx[t])
  BY DEF JobsInv, PlansAreSound, MovesAreSound
<1>3. Visits = 1..Len(visits) /\ Len(visits) \in Nat
  BY <1>1 DEF TypeOK, Visits
<1>4. /\ x \in Tx /\ x.pc = "inserted" /\ x.op = tx[t].op /\ x.who = tx[t].who
      /\ x.retire = tx[t].retire /\ x.sequence = tx[t].sequence
      /\ x.advance = tx[t].advance
  BY <1>1 DEF Tx, Pcs
<1>5. tx' = [tx EXCEPT ![t] = x] /\ UNCHANGED <<job, outcome, evidence, visits>>
  BY DEF RetireAndInsert, JobsInv, TypeOK
<1> HIDE DEF x
<1>6. x.op = "assign" => x.sequence = Len(visits) + 1
  <2>1. x.op = "assign" => x.sequence \in 1..(Len(visits) + 1)
    BY <1>1, <1>2, <1>4 DEF PlanIsSound
  <2>2. x.sequence \notin 1..Len(visits)
    BY <1>1, <1>3, <1>4 DEF SequenceTaken
  <2> QED BY <1>3, <2>1, <2>2
<1>7. PlanIsSound(x)
  BY <1>1, <1>2, <1>4, <1>6 DEF PlanIsSound, Inserted
<1>8. ASSUME Inserted(x), NEW q \in Txs \ {t} PROVE ~Inserted(tx[q])
  <2>1. x.op = "assign"
    BY <1>8 DEF Inserted
  <2>2. Inserted(tx[q]) => tx[q].sequence = Len(visits) + 1
    BY DEF JobsInv, PlansAreSound, PlanIsSound
  <2> QED BY <1>1, <1>4, <1>6, <2>1, <2>2 DEF SequenceHeld
<1>9. MoveIsSound(x) /\ ~HoldsJob(x)
  BY <1>1, <1>2, <1>4 DEF MoveIsSound, HoldsJob
<1> QED BY <1>4, <1>5, <1>7, <1>8, <1>9, LocalStep

LEMMA DispatchJobStep ==
    ASSUME JobsInv, NEW t \in Txs, DispatchJob(t)
    PROVE  JobsInv'
<1> DEFINE x == [tx[t] EXCEPT !.pc = "moving", !.to = "dispatched"]
<1>1. tx[t] \in Tx /\ tx[t].pc = "inserted"
  BY DEF JobsInv, TypeOK, DispatchJob
<1>2. PlanIsSound(tx[t]) /\ MoveIsSound(tx[t])
  BY DEF JobsInv, PlansAreSound, MovesAreSound
<1>3. /\ x \in Tx /\ x.pc = "moving" /\ x.to = "dispatched" /\ x.op = tx[t].op
      /\ x.who = tx[t].who /\ x.retire = tx[t].retire /\ x.sequence = tx[t].sequence
      /\ x.advance = tx[t].advance
  BY <1>1, StatusNames DEF Tx, Pcs
<1>4. tx' = [tx EXCEPT ![t] = x] /\ UNCHANGED <<job, outcome, evidence, visits>>
  BY DEF DispatchJob, JobsInv, TypeOK
<1> HIDE DEF x
<1>5. MoveIsSound(x) /\ ~HoldsJob(x)
  BY <1>1, <1>2, <1>3 DEF MoveIsSound, HoldsJob, Completed
<1>6. PlanIsSound(x)
  BY <1>1, <1>2, <1>3 DEF PlanIsSound, Inserted
<1>7. Inserted(x) => \A q \in Txs \ {t} : ~Inserted(tx[q])
  BY <1>1, <1>3 DEF JobsInv, OneInserter, Inserted
<1> QED BY <1>3, <1>4, <1>5, <1>6, <1>7, LocalStep

LEMMA RollBackStep ==
    ASSUME JobsInv, NEW t \in Txs, RollBack(t)
    PROVE  JobsInv'
BY IdleFacts, EarlyStep DEF RollBack

-----------------------------------------------------------------------------
(* The commits.                                                            *)

\* What a transaction leaves of the visits: the retired ones are superseded, the
\* ones it moves follow the job, the others stay, and an assignment adds the
\* one that is booked.
LEMMA WrittenFacts ==
    ASSUME JobsInv, NEW t \in Txs, tx[t].pc \in {"moved", "inserted"}, visits' = Written(t)
    PROVE  /\ visits' \in Seq(Visit) /\ Len(visits') <= MaxVisits
           /\ Len(visits') = IF tx[t].op = "assign" THEN Len(visits) + 1 ELSE Len(visits)
           /\ \A v \in Visits :
                 \/ visits'[v].status = "superseded" /\ v \in tx[t].retire
                 \/ /\ v \in tx[t].advance /\ v \notin tx[t].retire
                    /\ visits'[v].status = VisitStatusFor(tx[t].to)
                 \/ /\ v \notin tx[t].retire /\ v \notin tx[t].advance
                    /\ visits'[v].status = visits[v].status
           /\ tx[t].op = "assign" => visits'[Len(visits) + 1].status = "assigned"
<1> DEFINE x == tx[t]
           status(v) == IF v \in x.retire THEN "superseded"
                        ELSE IF v \in x.advance THEN VisitStatusFor(x.to)
                        ELSE visits[v].status
           rows == [v \in Visits |-> [visits[v] EXCEPT !.status = status(v)]]
<1>1. /\ visits \in Seq(Visit) /\ Len(visits) \in Nat /\ Visits = 1..Len(visits)
      /\ Len(visits) <= MaxVisits /\ MaxVisits \in Nat /\ x \in Tx
      /\ \A v \in Visits : visits[v] \in Visit
  BY JobsAssumption DEF JobsInv, TypeOK, Visits
<1>2. MoveIsSound(x) /\ PlanIsSound(x)
  BY DEF JobsInv, MovesAreSound, PlansAreSound
<1>3. visits' = IF x.op = "assign" THEN Append(rows, NewVisit(x.who)) ELSE rows
  BY DEF Written
<1>4. \A v \in Visits : status(v) \in VisitStatuses
  BY <1>1, <1>2 DEF MoveIsSound, VisitStatusFor, VisitStatuses, Visit
<1> HIDE DEF status
<1>5. \A v \in Visits : rows[v] \in Visit /\ rows[v].status = status(v)
  BY <1>1, <1>4 DEF Visit
<1>6. rows \in Seq(Visit) /\ Len(rows) = Len(visits)
  <2>1. rows \in [1..Len(visits) -> Visit]
    BY <1>1, <1>5
  <2> HIDE DEF rows
  <2> QED BY <1>1, <2>1
<1> HIDE DEF rows, x
<1>7. CASE x.op = "assign"
  <2>1. NewVisit(x.who) \in Visit /\ NewVisit(x.who).status = "assigned"
    BY <1>2, <1>7 DEF PlanIsSound, NewVisit, Visit, VisitStatuses
  <2>2. Len(visits) + 1 <= MaxVisits
    <3>1. x.pc \in {"moved", "inserted"}
      BY DEF x
    <3>2. x.sequence = Len(visits) + 1 /\ x.sequence \in 0..MaxVisits
      BY <1>1, <1>2, <1>7, <3>1 DEF PlanIsSound, Inserted, Tx
    <3> QED BY <1>1, <3>2
  <2>3. visits' = Append(rows, NewVisit(x.who))
    BY <1>3, <1>7
  <2>4. /\ visits' \in Seq(Visit) /\ Len(visits') = Len(visits) + 1
        /\ visits'[Len(visits) + 1] = NewVisit(x.who)
        /\ \A v \in 1..Len(visits) : visits'[v] = rows[v]
    BY <1>1, <1>6, <2>1, <2>3
  <2> QED BY <1>1, <1>5, <1>7, <2>1, <2>2, <2>4 DEF status, x
<1>8. CASE x.op # "assign"
  BY <1>1, <1>3, <1>5, <1>6, <1>8 DEF status, x
<1> QED BY <1>7, <1>8

\* What a commit leaves to the other transactions, whichever visits it wrote:
\* they keep their locks and their plans.
LEMMA CommitStep ==
    ASSUME JobsInv, NEW t \in Txs, tx[t].pc \in {"moved", "inserted"}, visits' = Written(t),
           tx' = [tx EXCEPT ![t] = Idle], evidence' = evidence,
           job' \in JobStatuses, outcome' \in BOOLEAN, outcome => outcome',
           \A q \in Txs \ {t} : tx[q].pc # "moved" \/ tx[t].pc = "inserted",
           tx[t].pc = "inserted" => tx[t].op = "assign" /\ job' = job
    PROVE  TypeOK' /\ OneHolder' /\ MovesAreSound' /\ PlansAreSound' /\ OneInserter' /\ OneLivePlan'
<1>1. /\ tx \in [Txs -> Tx] /\ Len(visits) \in Nat /\ Visits = 1..Len(visits)
      /\ MoveIsSound(tx[t]) /\ PlanIsSound(tx[t])
  BY DEF JobsInv, TypeOK, Visits, MovesAreSound, PlansAreSound
<1>2. tx'[t] = Idle /\ \A q \in Txs \ {t} : tx'[q] = tx[q]
  BY <1>1
<1>3. TypeOK'
  BY <1>1, WrittenFacts, IdleFacts DEF JobsInv, TypeOK
<1>4. OneHolder' /\ OneInserter'
  <2>1. OneHolder'
    BY <1>2, IdleFacts DEF JobsInv, OneHolder, HoldsJob
  <2>2. OneInserter'
    BY <1>2, IdleFacts DEF JobsInv, OneInserter, Inserted
  <2> QED BY <2>1, <2>2
<1>5. Visits' = 1..Len(visits') /\ Visits \subseteq Visits'
  BY <1>1, <1>3, WrittenFacts DEF TypeOK, Visits
<1>6. \A v \in Visits :
         \/ visits'[v].status \in {"superseded", visits[v].status}
         \/ /\ v \in tx[t].advance /\ v \notin tx[t].retire
            /\ visits'[v].status \in {"en_route", "arrived", "completed", "aborted"}
  <2>1. \A v \in tx[t].advance :
           VisitStatusFor(tx[t].to) \in {"en_route", "arrived", "completed", "aborted"}
    BY <1>1 DEF MoveIsSound, VisitStatusFor
  <2>2. ASSUME NEW v \in Visits
        PROVE  \/ visits'[v].status \in {"superseded", visits[v].status}
               \/ /\ v \in tx[t].advance /\ v \notin tx[t].retire
                  /\ visits'[v].status \in {"en_route", "arrived", "completed", "aborted"}
    <3>1. \/ visits'[v].status = "superseded"
          \/ /\ v \in tx[t].advance /\ v \notin tx[t].retire
             /\ visits'[v].status = VisitStatusFor(tx[t].to)
          \/ visits'[v].status = visits[v].status
      BY <2>2, WrittenFacts
    <3> QED BY <2>1, <3>1
  <2> QED BY <2>2
<1>7. MovesAreSound'
  <2>1. MoveIsSound(Idle)'
    BY DEF MoveIsSound, Idle, Completed
  <2>2. ASSUME NEW q \in Txs \ {t} PROVE MoveIsSound(tx[q])'
    <3>1. MoveIsSound(tx[q]) /\ tx'[q] = tx[q]
      BY <1>2 DEF JobsInv, MovesAreSound
    <3>2. CASE tx[q].pc # "moved"
      BY <3>1, <3>2 DEF MoveIsSound
    <3>3. CASE tx[q].pc = "moved"
      <4>1. tx[t].pc = "inserted" /\ tx[t].advance = {}
        BY <3>3, <1>1 DEF MoveIsSound
      <4>2. \A v \in Visits : visits'[v].status \in {"superseded", visits[v].status}
        BY <1>6, <4>1
      <4>3. \A v \in Visits' \ Visits : visits'[v].status = "assigned"
        BY <1>1, <1>5, <4>1, WrittenFacts
      <4> QED BY <1>5, <3>1, <4>2, <4>3 DEF MoveIsSound, Attended
    <3> QED BY <3>2, <3>3
  <2> QED BY <1>2, <2>1, <2>2 DEF MovesAreSound
<1>8. PlansAreSound'
  <2>1. PlanIsSound(Idle)'
    BY DEF PlanIsSound, Idle, Inserted
  <2>2. ASSUME NEW q \in Txs \ {t} PROVE PlanIsSound(tx[q])'
    <3>1. PlanIsSound(tx[q]) /\ tx'[q] = tx[q] /\ tx[q] \in Tx
      BY <1>1, <1>2 DEF JobsInv, PlansAreSound
    <3>2. CASE tx[t].op = "assign"
      <4>1. Len(visits') = Len(visits) + 1 /\ Inserted(tx[t])
        BY <3>2, WrittenFacts DEF Inserted
      <4>2. ~Inserted(tx[q])
        BY <4>1, <2>2 DEF JobsInv, OneInserter
      <4> QED BY <1>1, <3>1, <4>1, <4>2 DEF PlanIsSound, Inserted
    <3>3. CASE tx[t].op # "assign"
      <4>1. Len(visits') = Len(visits) /\ Visits' = Visits
        BY <1>1, <1>5, <3>3, WrittenFacts
      <4>2. \A v \in Visits : visits'[v].status = "assigned" => visits[v].status = "assigned"
        BY <1>6
      <4> QED BY <3>1, <4>1, <4>2 DEF PlanIsSound, Inserted
    <3> QED BY <3>2, <3>3
  <2> QED BY <1>2, <2>1, <2>2 DEF PlansAreSound
<1>9. OneLivePlan'
  <2>1. CASE tx[t].op = "assign"
    <3>1. /\ Len(visits') = Len(visits) + 1 /\ tx[t].sequence = Len(visits) + 1
          /\ \A v \in Visits : visits[v].status = "assigned" => v \in tx[t].retire
      BY <1>1, <2>1, WrittenFacts DEF PlanIsSound, Inserted
    <3>2. \A v \in Visits : visits'[v].status # "assigned"
      BY <1>1, <3>1, WrittenFacts DEF MoveIsSound, VisitStatusFor
    <3>3. Visits' = Visits \cup {Len(visits) + 1}
      BY <1>1, <1>5, <3>1
    <3> QED BY <3>2, <3>3 DEF OneLivePlan
  <2>2. CASE tx[t].op # "assign"
    <3>1. Visits' = Visits
      BY <1>1, <1>5, <2>2, WrittenFacts
    <3>2. \A v \in Visits : visits'[v].status = "assigned" => visits[v].status = "assigned"
      BY <1>6
    <3> QED BY <3>1, <3>2 DEF JobsInv, OneLivePlan
  <2> QED BY <2>1, <2>2
<1> QED BY <1>3, <1>4, <1>7, <1>8, <1>9

LEMMA CommitMoveStep ==
    ASSUME JobsInv, NEW t \in Txs, CommitMove(t)
    PROVE  JobsInv'
<1>1. /\ tx[t].pc = "moved" /\ tx[t] \in Tx /\ MoveIsSound(tx[t])
      /\ visits' = Written(t) /\ job' = tx[t].to
      /\ tx' = [tx EXCEPT ![t] = Idle] /\ evidence' = evidence
      /\ outcome' = (outcome \/ tx[t].op = "outcome") /\ outcome \in BOOLEAN
  BY DEF JobsInv, TypeOK, MovesAreSound, CommitMove
<1>2. \A q \in Txs \ {t} : tx[q].pc # "moved"
  BY <1>1 DEF JobsInv, OneHolder, HoldsJob
<1>3. job' \in JobStatuses
  BY <1>1 DEF Tx
<1>4. TypeOK' /\ OneHolder' /\ MovesAreSound' /\ PlansAreSound' /\ OneInserter' /\ OneLivePlan'
  BY <1>1, <1>2, <1>3, CommitStep
<1>5. TrackingStops'
  <2> SUFFICES ASSUME job' \in {"work_complete", "cancelled"}, NEW v \in Visits'
               PROVE  visits'[v].status \notin Attended
    BY DEF TrackingStops
  <2>1. CASE v \in Visits
    <3>1. visits[v].status \in Attended => v \in tx[t].advance
      BY <1>1, <2>1 DEF MoveIsSound
    <3>2. VisitStatusFor(job') \notin Attended
      BY DEF VisitStatusFor, Attended
    <3> QED BY <1>1, <2>1, <3>1, <3>2, WrittenFacts DEF Attended
  <2>2. CASE v \notin Visits
    <3>1. Visits = 1..Len(visits) /\ Len(visits) \in Nat /\ Visits' = 1..Len(visits')
      BY <1>4 DEF JobsInv, TypeOK, Visits
    <3>2. v = Len(visits) + 1 /\ tx[t].op = "assign"
      BY <1>1, <2>2, <3>1, WrittenFacts
    <3> QED BY <1>1, <3>2, WrittenFacts DEF Attended
  <2> QED BY <2>1, <2>2
<1>6. CompletionHasOutcome'
  BY <1>1 DEF MoveIsSound, CompletionHasOutcome
<1> QED BY <1>4, <1>5, <1>6 DEF JobsInv

LEMMA CommitAssignStep ==
    ASSUME JobsInv, NEW t \in Txs, CommitAssign(t)
    PROVE  JobsInv'
<1>1. /\ tx[t].pc = "inserted" /\ MoveIsSound(tx[t]) /\ PlanIsSound(tx[t])
      /\ visits' = Written(t)
      /\ tx' = [tx EXCEPT ![t] = Idle] /\ UNCHANGED <<job, outcome, evidence>>
      /\ job \in JobStatuses /\ outcome \in BOOLEAN
  BY DEF JobsInv, TypeOK, MovesAreSound, PlansAreSound, CommitAssign
<1>2. TypeOK' /\ OneHolder' /\ MovesAreSound' /\ PlansAreSound' /\ OneInserter' /\ OneLivePlan'
  BY <1>1, CommitStep DEF PlanIsSound
<1>3. TrackingStops'
  <2>1. Visits = 1..Len(visits) /\ Len(visits) \in Nat /\ Visits' = 1..Len(visits')
    BY <1>2 DEF JobsInv, TypeOK, Visits
  <2>2. ASSUME NEW v \in Visits
        PROVE  visits'[v].status \in Attended => visits[v].status \in Attended
    BY <1>1, WrittenFacts DEF MoveIsSound, Attended
  <2>3. \A v \in Visits' \ Visits : visits'[v].status \notin Attended
    BY <1>1, <2>1, WrittenFacts DEF Attended
  <2> QED BY <1>1, <2>2, <2>3 DEF JobsInv, TrackingStops
<1>4. CompletionHasOutcome'
  BY <1>1 DEF JobsInv, CompletionHasOutcome
<1> QED BY <1>2, <1>3, <1>4 DEF JobsInv

\* A correction releases its record and sets the outcome, which nothing in the
\* invariant forbids.
LEMMA CorrectOutcomeStep ==
    ASSUME JobsInv, NEW t \in Txs, CorrectOutcome(t)
    PROVE  JobsInv'
<1>1. /\ tx \in [Txs -> Tx] /\ outcome' = TRUE
      /\ tx' = [tx EXCEPT ![t] = Idle] /\ UNCHANGED <<job, evidence, visits>>
  BY DEF JobsInv, TypeOK, CorrectOutcome
<1>2. tx'[t] = Idle /\ \A q \in Txs \ {t} : tx'[q] = tx[q]
  BY <1>1
<1>3. TypeOK'
  BY <1>1, IdleFacts DEF JobsInv, TypeOK
<1>4. OneHolder' /\ OneInserter'
  BY <1>2, IdleFacts DEF JobsInv, OneHolder, HoldsJob, OneInserter, Inserted
<1>5. MovesAreSound'
  <2>1. ASSUME NEW q \in Txs \ {t} PROVE MoveIsSound(tx[q])'
    <3>1. MoveIsSound(tx[q]) /\ tx'[q] = tx[q]
      BY <1>2 DEF JobsInv, MovesAreSound
    <3> QED BY <1>1, <3>1 DEF MoveIsSound, Visits
  <2>2. MoveIsSound(Idle)'
    BY DEF MoveIsSound, Idle, Completed
  <2> QED BY <1>2, <2>1, <2>2 DEF MovesAreSound
<1>6. PlansAreSound'
  <2>1. ASSUME NEW q \in Txs \ {t} PROVE PlanIsSound(tx[q])'
    <3>1. PlanIsSound(tx[q]) /\ tx'[q] = tx[q]
      BY <1>2 DEF JobsInv, PlansAreSound
    <3> QED BY <1>1, <3>1 DEF PlanIsSound, Inserted, Visits
  <2>2. PlanIsSound(Idle)'
    BY DEF PlanIsSound, Idle, Inserted
  <2> QED BY <1>2, <2>1, <2>2 DEF PlansAreSound
<1>7. OneLivePlan' /\ TrackingStops' /\ CompletionHasOutcome'
  BY <1>1 DEF JobsInv, OneLivePlan, TrackingStops, CompletionHasOutcome, Visits
<1> QED BY <1>3, <1>4, <1>5, <1>6, <1>7 DEF JobsInv

\* A step that writes neither a status nor a transaction's record preserves the
\* invariant.
LEMMA CardStep ==
    ASSUME JobsInv, UNCHANGED <<job, outcome, tx>>, evidence' \in BOOLEAN,
           visits' \in Seq(Visit), Len(visits') = Len(visits),
           \A v \in Visits : visits'[v].status = visits[v].status
    PROVE  JobsInv'
<1>1. Visits' = Visits
  BY DEF JobsInv, TypeOK, Visits
<1>2. TypeOK' /\ OneHolder' /\ OneInserter'
  BY DEF JobsInv, TypeOK, OneHolder, OneInserter
<1>3. MovesAreSound'
  <2> SUFFICES ASSUME NEW q \in Txs PROVE MoveIsSound(tx[q])'
    BY DEF MovesAreSound
  <2>1. MoveIsSound(tx[q])
    BY DEF JobsInv, MovesAreSound
  <2> QED BY <1>1, <2>1 DEF MoveIsSound
<1>4. PlansAreSound'
  <2> SUFFICES ASSUME NEW q \in Txs PROVE PlanIsSound(tx[q])'
    BY DEF PlansAreSound
  <2>1. PlanIsSound(tx[q])
    BY DEF JobsInv, PlansAreSound
  <2> QED BY <1>1, <2>1 DEF PlanIsSound
<1>5. OneLivePlan' /\ TrackingStops' /\ CompletionHasOutcome'
  BY <1>1 DEF JobsInv, OneLivePlan, TrackingStops, CompletionHasOutcome
<1> QED BY <1>2, <1>3, <1>4, <1>5 DEF JobsInv

LEMMA CardSteps ==
    ASSUME JobsInv, FileEvidence \/ \E v \in Visits : recordVisitLabour(v)
    PROVE  JobsInv'
<1>1. visits \in Seq(Visit) /\ evidence \in BOOLEAN
  BY DEF JobsInv, TypeOK
<1>2. CASE FileEvidence
  BY <1>1, <1>2, CardStep DEF FileEvidence
<1>3. ASSUME NEW v \in Visits, recordVisitLabour(v) PROVE JobsInv'
  <2>1. /\ visits' = [visits EXCEPT ![v].labour = TRUE]
        /\ UNCHANGED <<job, outcome, evidence, tx>>
    BY <1>3 DEF recordVisitLabour
  <2>2. v \in 1..Len(visits) /\ visits[v] \in Visit
    BY <1>1, <1>3 DEF Visits
  <2>3. [visits[v] EXCEPT !.labour = TRUE] \in Visit
    BY <2>2 DEF Visit
  <2>4. visits' \in Seq(Visit) /\ Len(visits') = Len(visits)
    BY <1>1, <2>1, <2>2, <2>3
  <2>5. ASSUME NEW w \in Visits PROVE visits'[w].status = visits[w].status
    <3>1. w \in 1..Len(visits) /\ visits[w] \in Visit
      BY <1>1 DEF Visits
    <3> QED BY <1>1, <2>1, <2>2, <3>1 DEF Visit
  <2> QED BY <1>1, <2>1, <2>4, <2>5, CardStep
<1> QED BY <1>2, <1>3

-----------------------------------------------------------------------------
(* The theorems.                                                           *)

LEMMA JobsInit == Init => JobsInv
<1> SUFFICES ASSUME Init PROVE JobsInv
  OBVIOUS
<1>1. job = "triaged" /\ visits = <<>> /\ \A t \in Txs : tx[t] = Idle
  BY DEF Init
<1>2. visits \in Seq(Visit) /\ Len(visits) = 0
  BY <1>1
<1>3. Visits = {}
  BY <1>2 DEF Visits
<1>4. TypeOK
  <2>1. job \in JobStatuses /\ outcome \in BOOLEAN /\ evidence \in BOOLEAN
    BY StatusNames DEF Init
  <2>2. Len(visits) <= MaxVisits
    BY <1>2, JobsAssumption
  <2>3. tx \in [Txs -> Tx]
    BY IdleFacts DEF Init
  <2> QED BY <1>2, <2>1, <2>2, <2>3 DEF TypeOK
<1>5. OneHolder /\ OneInserter /\ MovesAreSound /\ PlansAreSound
  BY <1>1, IdleFacts DEF OneHolder, OneInserter, MovesAreSound, PlansAreSound
<1>6. OneLivePlan /\ TrackingStops /\ CompletionHasOutcome
  BY <1>1, <1>3 DEF OneLivePlan, TrackingStops, CompletionHasOutcome, Completed
<1> QED BY <1>4, <1>5, <1>6 DEF JobsInv

LEMMA JobsNext == JobsInv /\ [Next]_vars => JobsInv'
<1> SUFFICES ASSUME JobsInv, [Next]_vars PROVE JobsInv'
  OBVIOUS
<1>1. ASSUME NEW t \in Txs, Step(t) PROVE JobsInv'
  <2>1. ASSUME NEW who \in Technicians \cup {Office}, NEW to \in JobStatuses,
               BeginMove(t, who, to)
        PROVE  JobsInv'
    BY <2>1, BeginMoveStep
  <2>2. ASSUME NEW who \in Technicians \cup {Office}, NEW completeWork \in BOOLEAN,
               BeginOutcome(t, who, completeWork)
        PROVE  JobsInv'
    BY <2>2, BeginOutcomeStep
  <2>3. ASSUME NEW technician \in Technicians, BeginAssign(t, technician) PROVE JobsInv'
    BY <2>3, BeginAssignStep
  <2>4. CASE MoveJob(t)
    BY <2>4, MoveJobStep
  <2>5. CASE CommitMove(t)
    BY <2>5, CommitMoveStep
  <2>6. CASE CorrectOutcome(t)
    BY <2>6, CorrectOutcomeStep
  <2>7. CASE RecordOutcome(t)
    BY <2>7, RecordOutcomeStep
  <2>8. CASE CompleteJob(t)
    BY <2>8, CompleteJobStep
  <2>9. CASE ReadVisits(t)
    BY <2>9, ReadVisitsStep
  <2>10. CASE RetireAndInsert(t)
    BY <2>10, RetireAndInsertStep
  <2>11. CASE DispatchJob(t)
    BY <2>11, DispatchJobStep
  <2>12. CASE CommitAssign(t)
    BY <2>12, CommitAssignStep
  <2>13. CASE RollBack(t)
    BY <2>13, RollBackStep
  <2> QED BY <1>1, <2>1, <2>2, <2>3, <2>4, <2>5, <2>6, <2>7, <2>8, <2>9, <2>10, <2>11,
             <2>12, <2>13 DEF Step
<1>2. CASE FileEvidence \/ \E v \in Visits : recordVisitLabour(v)
  BY <1>2, CardSteps
<1>3. CASE UNCHANGED vars
  BY <1>3, CardStep DEF vars, JobsInv, TypeOK
<1> QED BY <1>1, <1>2, <1>3 DEF Next

\* The inductive invariant: the lock on the job's row, the visits a transition
\* is about to write, the plan an assignment has made and the unique index,
\* with what they buy.
THEOREM Invariance == Spec => []JobsInv
BY JobsInit, JobsNext, PTL DEF Spec

\* The variables keep their types.
THEOREM TypeCorrect == Spec => []TypeOK
<1>1. JobsInv => TypeOK
  BY DEF JobsInv
<1> QED BY <1>1, Invariance, PTL

\* However many dispatchers assign at once, a job is never left with two visits
\* booked: the sequence number of assignTechnician and its unique index see to it.
THEOREM OnePlan == Spec => []OneLivePlan
<1>1. JobsInv => OneLivePlan
  BY DEF JobsInv
<1> QED BY <1>1, Invariance, PTL

\* No visit stays on the road or on the site when the work is complete or the
\* job cancelled: the visits are read with the job's row locked.
THEOREM TrackingEnds == Spec => []TrackingStops
<1>1. JobsInv => TrackingStops
  BY DEF JobsInv
<1> QED BY <1>1, Invariance, PTL

\* No interleaving of doors leads to a completed job without an outcome.
THEOREM NoCompletionWithoutOutcome == Spec => []CompletionHasOutcome
<1>1. JobsInv => CompletionHasOutcome
  BY DEF JobsInv
<1> QED BY <1>1, Invariance, PTL

\* A visit completed or aborted is never put back on the road, though the writes
\* of advanceVisitsWithJob compare no status.
THEOREM EndedIsFinal == Spec => EndedStaysEnded
<1> DEFINE Kept(v) == visits[v].status \in {"completed", "aborted"}
                         => visits'[v].status \notin Attended
<1>1. JobsInv /\ [Next]_vars => [\A v \in Visits : Kept(v)]_vars
  <2> SUFFICES ASSUME JobsInv, [Next]_vars, NEW v \in Visits PROVE Kept(v)
    OBVIOUS
  <2>1. ASSUME NEW t \in Txs, CommitMove(t) \/ CommitAssign(t) PROVE Kept(v)
    <3>1. tx[t].pc \in {"moved", "inserted"} /\ visits' = Written(t) /\ MoveIsSound(tx[t])
      BY <2>1 DEF CommitMove, CommitAssign, JobsInv, MovesAreSound
    <3> QED BY <3>1, WrittenFacts DEF MoveIsSound, Attended
  <2>2. ASSUME NEW w \in Visits, recordVisitLabour(w) PROVE Kept(v)
    <3>1. visits[v] \in Visit /\ visits[w] \in Visit
      BY DEF JobsInv, TypeOK, Visits
    <3>2. visits'[v].status = visits[v].status
      BY <2>2, <3>1 DEF recordVisitLabour, JobsInv, TypeOK, Visits, Visit
    <3> QED BY <3>2 DEF Attended
  <2>3. CASE UNCHANGED visits
    BY <2>3 DEF Attended
  <2>4. \/ \E t \in Txs : CommitMove(t) \/ CommitAssign(t)
        \/ \E w \in Visits : recordVisitLabour(w)
        \/ UNCHANGED visits
    BY DEF Next, Step, vars, BeginMove, BeginOutcome, BeginAssign, MoveJob, CorrectOutcome,
           RecordOutcome, CompleteJob, ReadVisits, RetireAndInsert, DispatchJob, RollBack,
           FileEvidence
  <2> QED BY <2>1, <2>2, <2>3, <2>4
<1> QED BY <1>1, Invariance, PTL DEF Spec, EndedStaysEnded
=============================================================================
