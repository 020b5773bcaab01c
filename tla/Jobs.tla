-------------------------------- MODULE Jobs --------------------------------
(***************************************************************************)
(* One job, its visits and the transactions that move them:                *)
(* transitionJob and advanceVisitsWithJob, assignTechnician and            *)
(* recordJobOutcome, called by the office and by the technicians' phones.  *)
(*                                                                         *)
(* Every transaction is READ COMMITTED: a SELECT sees what is committed    *)
(* when it runs and locks nothing, an UPDATE addresses its row by id alone *)
(* and holds the row until the commit.  A step of a transaction here is a  *)
(* run of statements between two of which another's commit can matter;     *)
(* its writes take effect with its commit, its locks at once.              *)
(*                                                                         *)
(* Left out: what may refuse an assignment before it touches anything      *)
(* (compliance, the midday ban, warnings), the columns a status carries    *)
(* (SLA clocks, notes, codes), and moving a visit's window.                *)
(***************************************************************************)
EXTENDS Naturals, Sequences

CONSTANTS
    Technicians,
    Office,         \* an actor with no technician row
    Txs,            \* BOUND: transactions open at once
    MaxVisits       \* BOUND: visits a job is given

ASSUME JobsAssumption ==
    /\ Office \notin Technicians
    /\ MaxVisits \in Nat \ {0}

VARIABLES
    job,        \* jobs.status
    outcome,    \* jobs.outcome_code is set
    evidence,   \* the job card has its photograph and its materials
    visits,     \* job_visits, in the order of their sequence numbers
    tx          \* the open transactions

vars == <<job, outcome, evidence, visits, tx>>

-----------------------------------------------------------------------------
(* core/work.ts.                                                           *)

Transitions ==
    [draft         |-> {"submitted", "cancelled"},
     submitted     |-> {"triaged", "cancelled"},
     triaged       |-> {"scheduled", "dispatched", "paused", "cancelled"},
     scheduled     |-> {"dispatched", "triaged", "paused", "cancelled"},
     dispatched    |-> {"en_route", "scheduled", "paused", "cancelled"},
     en_route      |-> {"on_site", "dispatched", "paused", "cancelled"},
     on_site       |-> {"work_complete", "paused", "cancelled"},
     paused        |-> {"triaged", "scheduled", "dispatched", "on_site", "cancelled"},
     work_complete |-> {"signed_off", "on_site"},
     signed_off    |-> {"invoiced", "closed"},
     invoiced      |-> {"closed"},
     closed        |-> {},
     cancelled     |-> {}]

JobStatuses == DOMAIN Transitions
Terminal    == {"closed", "cancelled"}
Completed   == {"work_complete", "signed_off", "invoiced", "closed"}

canTransition(from, to) == to \in Transitions[from]

\* A mutant of the next: a phone may complete a job without an outcome.
DeviceDrivableWithCompletion == {"en_route", "on_site", "paused", "work_complete"}

\* The only statuses a phone may ask for; completion goes through the outcome.
DeviceDrivable == {"en_route", "on_site", "paused"}

-----------------------------------------------------------------------------
(* Visits.  `proposed`, `accepted`, `declined` and `no_access` exist in the *)
(* schema and no code writes them.                                         *)

VisitStatuses == {"assigned", "en_route", "arrived", "completed", "aborted", "superseded"}
Attended      == {"en_route", "arrived"}
Occupying     == {"assigned"} \cup Attended      \* OCCUPYING_VISIT_STATUSES
Retirable     == {"assigned"}                    \* RETIRABLE_VISIT_STATUSES

Visit == [technician : Technicians, status : VisitStatuses, labour : BOOLEAN]

\* A mutant of the next: the visit is given the status the job is about to get.
NewVisitAsJob(technician) == [technician |-> technician, status |-> "dispatched", labour |-> FALSE]

NewVisit(technician) == [technician |-> technician, status |-> "assigned", labour |-> FALSE]

Visits == DOMAIN visits

OnJob(who) == \E v \in Visits : visits[v].technician = who

\* What a visit becomes when the job moves to `to`.
VisitStatusFor(to) ==
    CASE to = "en_route"      -> "en_route"
      [] to = "on_site"       -> "arrived"
      [] to = "work_complete" -> "completed"
      [] to = "cancelled"     -> "aborted"

\* A mutant of the next: the end of the work, too, is narrowed to the actor.
TargetsOfTheActor(to, who) ==
    IF to \in {"en_route", "on_site", "work_complete", "cancelled"}
    THEN {v \in Visits : visits[v].status \in Occupying /\ visits[v].technician = who}
    ELSE {}

\* advanceVisitsWithJob: whose visits follow the job.  The end of the work is
\* everybody's; an attendance is the actor's own when the actor has a live visit.
Targets(to, who) ==
    LET live == {v \in Visits : visits[v].status \in Occupying}
        own  == {v \in live : visits[v].technician = who}
    IN  IF to \in {"work_complete", "cancelled"}
        THEN {v \in live : visits[v].status \in Attended}
        ELSE IF to \in {"en_route", "on_site"}
        THEN IF own # {} THEN own ELSE live
        ELSE {}

\* JOB-15: assertJobCardComplete.  A retired visit's labour does not count.
CardComplete ==
    evidence /\ \E v \in Visits : visits[v].labour /\ visits[v].status # "superseded"

-----------------------------------------------------------------------------
(* Transactions.  `who` acts; `from` is the job status it has read and has  *)
(* still to use, `to` the one it writes; `advance` and `retire` are the     *)
(* visits it has decided to write, `sequence` the number of the visit it    *)
(* inserts.                                                                 *)

Idle == [pc |-> "idle", op |-> "none", who |-> Office, from |-> "draft", to |-> "draft",
         advance |-> {}, retire |-> {}, sequence |-> 0]

Pcs == {"idle", "moving", "moved", "recording", "recorded", "assigning", "planned", "inserted"}

Tx == [pc       : Pcs,
       op       : {"none", "move", "outcome", "assign"},
       who      : Technicians \cup {Office},   \* of an assignment: the technician assigned
       from     : JobStatuses,
       to       : JobStatuses,
       advance  : SUBSET (1..MaxVisits),
       retire   : SUBSET (1..MaxVisits),
       sequence : 0..MaxVisits]

\* An UPDATE of the job waits for whoever has updated it and not committed.
HoldsJob(x) == x.pc \in {"moved", "recorded"}

\* A mutant of the next: an UPDATE that waits for nobody.
AnyTimeFree(t) == TRUE

JobFree(t) == \A q \in Txs \ {t} : ~HoldsJob(tx[q])

\* Likewise the visits an assignment has retired, and the one it has inserted.
Inserted(x) == x.op = "assign" /\ x.pc \in {"inserted", "moving", "moved"}

VisitsFree(t, wanted) ==
    \A q \in Txs \ {t} : Inserted(tx[q]) => tx[q].retire \cap wanted = {}

-----------------------------------------------------------------------------
Init ==
    /\ job = "triaged"
    /\ outcome = FALSE
    /\ evidence = FALSE
    /\ visits = <<>>
    /\ tx = [t \in Txs |-> Idle]

(***************************************************************************)
(* transitionJob, for an office screen (changeStatus) and for a phone      *)
(* (handleStatusTransition).                                               *)
(***************************************************************************)
MayAsk(who, to) ==
    IF who = Office THEN to # "work_complete"
                    ELSE to \in DeviceDrivable /\ OnJob(who)

BeginMove(t, who, to) ==
    /\ tx[t].pc = "idle"
    /\ MayAsk(who, to)
    /\ canTransition(job, to)
    /\ tx' = [tx EXCEPT ![t] = [Idle EXCEPT !.pc = "moving", !.op = "move", !.who = who,
                                            !.to = to]]
    /\ UNCHANGED <<job, outcome, evidence, visits>>

\* UPDATE jobs ... WHERE id: the status read before is not compared.  Then the
\* live visits are read.
MoveJob(t) ==
    /\ tx[t].pc = "moving"
    /\ JobFree(t)
    /\ tx' = [tx EXCEPT ![t].pc = "moved",
                        ![t].advance = Targets(tx[t].to, tx[t].who)]
    /\ UNCHANGED <<job, outcome, evidence, visits>>

\* The visits are written and the transaction commits, with whatever the
\* assignment or the outcome it is part of has written.
Written(t) ==
    LET x == tx[t]
        old(v) == [visits[v] EXCEPT !.status =
                      IF v \in x.retire THEN "superseded"
                      ELSE IF v \in x.advance THEN VisitStatusFor(x.to) ELSE @]
        rows == [v \in Visits |-> old(v)]
    IN  IF x.op = "assign" THEN Append(rows, NewVisit(x.who)) ELSE rows

CommitMove(t) ==
    /\ tx[t].pc = "moved"
    /\ VisitsFree(t, tx[t].advance)
    /\ job' = tx[t].to
    /\ outcome' = (outcome \/ tx[t].op = "outcome")
    /\ visits' = Written(t)
    /\ tx' = [tx EXCEPT ![t] = Idle]
    /\ UNCHANGED evidence

(***************************************************************************)
(* recordJobOutcome, from the outcome panel or a phone (handleOutcome).    *)
(***************************************************************************)
Completable == {"on_site", "work_complete"}

BeginOutcome(t, who, completeWork) ==
    LET willComplete == completeWork /\ job = "on_site" IN
    /\ tx[t].pc = "idle"
    /\ who = Office \/ OnJob(who)
    /\ job \in Completable
    /\ willComplete => CardComplete
    /\ tx' = [tx EXCEPT ![t] = [Idle EXCEPT
                 !.pc = "recording", !.op = "outcome", !.who = who, !.from = job,
                 !.to = IF willComplete THEN "work_complete" ELSE job]]
    /\ UNCHANGED <<job, outcome, evidence, visits>>

\* A correction writes the outcome and commits ...
CorrectOutcome(t) ==
    /\ tx[t].pc = "recording"
    /\ tx[t].to = tx[t].from
    /\ JobFree(t)
    /\ outcome' = TRUE
    /\ tx' = [tx EXCEPT ![t] = Idle]
    /\ UNCHANGED <<job, evidence, visits>>

\* ... a completion goes on, with the job locked, to transitionJob, which reads
\* the status and the card again.
RecordOutcome(t) ==
    /\ tx[t].pc = "recording"
    /\ tx[t].to # tx[t].from
    /\ JobFree(t)
    /\ tx' = [tx EXCEPT ![t].pc = "recorded"]
    /\ UNCHANGED <<job, outcome, evidence, visits>>

CompleteJob(t) ==
    /\ tx[t].pc = "recorded"
    /\ canTransition(job, "work_complete")
    /\ CardComplete
    /\ tx' = [tx EXCEPT ![t].pc = "moved",
                        ![t].advance = Targets("work_complete", tx[t].who)]
    /\ UNCHANGED <<job, outcome, evidence, visits>>

(***************************************************************************)
(* assignTechnician, from the job page's assign action.                    *)
(***************************************************************************)
BeginAssign(t, technician) ==
    /\ tx[t].pc = "idle"
    /\ tx' = [tx EXCEPT ![t] = [Idle EXCEPT !.pc = "assigning", !.op = "assign",
                                            !.who = technician, !.from = job]]
    /\ UNCHANGED <<job, outcome, evidence, visits>>

ReadVisits(t) ==
    /\ tx[t].pc = "assigning"
    /\ Len(visits) < MaxVisits
    /\ tx' = [tx EXCEPT ![t].pc = "planned",
                        ![t].retire = {v \in Visits : visits[v].status \in Retirable},
                        ![t].sequence = Len(visits) + 1]
    /\ UNCHANGED <<job, outcome, evidence, visits>>

\* A mutant of the next: no unique index.
NeverTaken(t) == FALSE

\* Unique (tenant, job, sequence): taken by a committed visit, or held by a
\* transaction the insert has to wait for.
SequenceTaken(t) == tx[t].sequence \in Visits

SequenceHeld(t) ==
    \E q \in Txs \ {t} : Inserted(tx[q]) /\ tx[q].sequence = tx[t].sequence

RetireAndInsert(t) ==
    /\ tx[t].pc = "planned"
    /\ VisitsFree(t, tx[t].retire)
    /\ ~SequenceTaken(t)
    /\ ~SequenceHeld(t)
    /\ tx' = [tx EXCEPT ![t].pc = "inserted"]
    /\ UNCHANGED <<job, outcome, evidence, visits>>

\* The status read at the start decides whether the job is to be dispatched; if
\* so transitionJob reads it again.
DispatchJob(t) ==
    /\ tx[t].pc = "inserted"
    /\ tx[t].from \in {"triaged", "scheduled"}
    /\ canTransition(job, "dispatched")
    /\ tx' = [tx EXCEPT ![t].pc = "moving", ![t].to = "dispatched"]
    /\ UNCHANGED <<job, outcome, evidence, visits>>

CommitAssign(t) ==
    /\ tx[t].pc = "inserted"
    /\ tx[t].from \notin {"triaged", "scheduled"}
    /\ visits' = Written(t)
    /\ tx' = [tx EXCEPT ![t] = Idle]
    /\ UNCHANGED <<job, outcome, evidence>>

\* Whatever stops a transaction short: a check that now fails, the unique
\* index, a deadlock Postgres broke, a lost connection.  It leaves no trace.
RollBack(t) ==
    /\ tx[t].pc # "idle"
    /\ tx' = [tx EXCEPT ![t] = Idle]
    /\ UNCHANGED <<job, outcome, evidence, visits>>

(***************************************************************************)
(* The job card, filled in from either side.                               *)
(***************************************************************************)
FileEvidence ==
    /\ ~evidence
    /\ evidence' = TRUE
    /\ UNCHANGED <<job, outcome, visits, tx>>

recordVisitLabour(v) ==
    /\ visits[v].status # "superseded"
    /\ ~visits[v].labour
    /\ visits' = [visits EXCEPT ![v].labour = TRUE]
    /\ UNCHANGED <<job, outcome, evidence, tx>>

-----------------------------------------------------------------------------
Step(t) ==
    \/ \E who \in Technicians \cup {Office} :
          \/ \E to \in JobStatuses : BeginMove(t, who, to)
          \/ \E completeWork \in BOOLEAN : BeginOutcome(t, who, completeWork)
    \/ \E technician \in Technicians : BeginAssign(t, technician)
    \/ MoveJob(t) \/ CommitMove(t)
    \/ CorrectOutcome(t) \/ RecordOutcome(t) \/ CompleteJob(t)
    \/ ReadVisits(t) \/ RetireAndInsert(t) \/ DispatchJob(t) \/ CommitAssign(t)
    \/ RollBack(t)

Next ==
    \/ \E t \in Txs : Step(t)
    \/ FileEvidence
    \/ \E v \in Visits : recordVisitLabour(v)

Spec == Init /\ [][Next]_vars

-----------------------------------------------------------------------------
(* Properties.                                                             *)

\* The types of the variables.
TypeOK ==
    /\ job \in JobStatuses
    /\ outcome \in BOOLEAN
    /\ evidence \in BOOLEAN
    /\ visits \in Seq(Visit)
    /\ Len(visits) <= MaxVisits
    /\ tx \in [Txs -> Tx]

\* However two dispatchers and the phones interleave, a job has at most one
\* plan: one visit booked and not yet attended.
OneLivePlan ==
    \A v, w \in Visits :
        visits[v].status = "assigned" /\ visits[w].status = "assigned" => v = w

\* While a job stands at work_complete or cancelled no visit of it is on the road
\* or on the site, so nobody's position is shared on its portal, which publishes
\* en_route and arrived visits: ending the work ends everybody's visit, whoever
\* ended it and whatever was read before.  What comes after is TrackingStaysStopped.
TrackingStops ==
    job \in {"work_complete", "cancelled"} =>
        \A v \in Visits : visits[v].status \notin Attended

\* Fails, and no run checks it: nor is a visit attended once the job is signed
\* off, invoiced or closed.  A sign-off that read work_complete and has not
\* written yet lets another transaction reopen the job to on_site and stamp a
\* visit as arrived; the sign-off then writes over on_site, advances no visit, and
\* the visit stays on the site of a job that nothing will end again.
TrackingStaysStopped ==
    job \in Completed \cup {"cancelled"} =>
        \A v \in Visits : visits[v].status \notin Attended

\* JOB-13: no door leads past the outcome, not even for a transaction that
\* decided on a status since replaced.
CompletionHasOutcome ==
    job \in Completed => outcome

\* A visit that has ended is not put back on the road or on the site.
EndedStaysEnded ==
    [][\A v \in Visits :
          visits[v].status \in {"completed", "aborted"}
              => visits'[v].status \notin Attended]_vars

\* "cancelled is reachable from almost anywhere but not from a terminal state".
TerminalIsFinal == [][(job \in Terminal) => job' = job]_vars

\* A visit is a plan that was retired or an attendance, and never turns from one
\* into the other: "a visit that reached en_route or arrived is a fact about the
\* world", and "a retired plan must never be stamped with an attendance".
AttendanceIsAFact ==
    [][\A v \in Visits :
          /\ visits[v].status \in Attended => visits'[v].status # "superseded"
          /\ visits[v].status = "superseded" => visits'[v].status \notin Attended]_vars

\* JOB-15: "a job cannot be completed without ... labour time".
CompletionIsEvidenced ==
    [][(job # "work_complete" /\ job' = "work_complete") => CardComplete']_vars

-----------------------------------------------------------------------------
(* The inductive invariant behind the properties of the passing run.       *)

\* The lock on the job's row.
OneHolder ==
    \A t, q \in Txs : HoldsJob(tx[t]) /\ HoldsJob(tx[q]) => t = q

\* The visits a transition is about to write have not ended since it read them,
\* and if it ends the work they are all that are attended; whoever is on the way
\* past the outcome has one, or is recording it.
MoveIsSound(x) ==
    /\ \A v \in x.advance :
          /\ x.pc = "moved"
          /\ v \in Visits
          /\ visits[v].status \notin {"completed", "aborted"}
          /\ x.to \in {"en_route", "on_site", "work_complete", "cancelled"}
    /\ x.pc = "moved" /\ x.to \in {"work_complete", "cancelled"} =>
          \A v \in Visits : visits[v].status \in Attended => v \in x.advance
    /\ x.pc \in {"moving", "moved"} /\ x.to \in Completed => outcome \/ x.op = "outcome"
    /\ x.pc \in {"recording", "recorded"} => x.op = "outcome"
    /\ x.pc = "recording" => x.to \in {x.from, "work_complete"}
    /\ x.pc = "recorded" => x.to = "work_complete"

MovesAreSound == \A t \in Txs : MoveIsSound(tx[t])

\* An assignment whose sequence number is still the next one has seen every
\* visit that is booked; at most one has inserted its own.
PlanIsSound(x) ==
    /\ x.pc \in {"assigning", "planned", "inserted"} => x.op = "assign"
    /\ x.op = "assign" => x.who \in Technicians
    /\ x.op = "assign" /\ x.pc \in {"planned", "inserted", "moving", "moved"} =>
          /\ x.sequence \in 1..(Len(visits) + 1)
          /\ x.sequence = Len(visits) + 1 =>
                \A v \in Visits : visits[v].status = "assigned" => v \in x.retire
    /\ Inserted(x) => x.sequence = Len(visits) + 1

PlansAreSound == \A t \in Txs : PlanIsSound(tx[t])

OneInserter ==
    \A t, q \in Txs : Inserted(tx[t]) /\ Inserted(tx[q]) => t = q

JobsInv ==
    /\ TypeOK
    /\ OneHolder
    /\ MovesAreSound
    /\ PlansAreSound
    /\ OneInserter
    /\ OneLivePlan
    /\ TrackingStops
    /\ CompletionHasOutcome
=============================================================================
