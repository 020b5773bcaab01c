-------------------------------- MODULE PullSync --------------------------------
(***************************************************************************)
(* The pull of one technician's phone: pullWorkingSet at the office, and   *)
(* pull, planSyncApply and applySyncPlan on the phone, while the office    *)
(* goes on writing.                                                        *)
(*                                                                         *)
(* A row is stamped with the start of the transaction that writes it       *)
(* (app_touch_updated_at) and seen once that has committed.  The office    *)
(* sends the jobs stamped after the phone's cursor, one page at a time,    *)
(* and names every job in the technician's working set.  Each of its       *)
(* queries sees what has committed by then.                                *)
(*                                                                         *)
(* Every job has a customer and a property of its own, its "site".  Left   *)
(* out: assets, certificates and taxonomies, which follow the same cursor, *)
(* the values of the columns, and instants within one millisecond.         *)
(***************************************************************************)
EXTENDS Integers, FiniteSets

CONSTANTS
    Jobs,           \* the jobs, by id: positive integers
    Writers,        \* BOUND: transactions of the office open at once
    None,
    Lag,            \* WATERMARK_LAG_MS, in ticks of the clock
    MaxOpen,        \* BOUND: ticks a transaction of the office stays open
    Limits,         \* MAX_JOBS_PER_PULL, in jobs of the model: few, or enough
    MaxTime,        \* BOUND: ticks
    MaxWrites,      \* BOUND: writes to one job
    MaxFaults       \* BOUND: pulls broken off

ASSUME PullSyncAssumption ==
    /\ IsFiniteSet(Jobs) /\ Jobs \subseteq Nat \ {0}
    /\ Lag \in Nat
    /\ MaxOpen \in 0..Lag
    /\ Limits \subseteq Nat \ {0}
    /\ {MaxTime, MaxWrites, MaxFaults} \subseteq Nat
    /\ MaxOpen <= MaxTime
    /\ None \notin 0..MaxWrites

VARIABLES
    limit,      \* the limit of a page, which does not change
    clock,      \* the clock of the database
    jobs,       \* jobs, their visits and their sites
    writers,    \* when each open transaction began; None: it is not open
    phone,      \* the local database
    pull,       \* the pull under way
    faults      \* pulls broken off so far

vars == <<limit, clock, jobs, writers, phone, pull, faults>>

-----------------------------------------------------------------------------
\* `mine`: the technician has a visit on the job that puts it in their working set.
\* `written`: the row of the job was written since they were given it.
Job == [version : 0..MaxWrites, stamp : 0..MaxTime, site : 0..MaxTime,
        mine : BOOLEAN, written : BOOLEAN]

Cursor == [at : Int, id : Nat]

NoTiebreak == 0

Epoch == [at |-> -Lag - 1, id |-> NoTiebreak]

\* What is held of each job (its version, or None), the sites held, the jobs with
\* an outbox row that is not done, and the cursor.
Phone == [jobs : [Jobs -> 0..MaxWrites \cup {None}], sites : SUBSET Jobs,
          unsynced : SUBSET Jobs, cursor : Cursor]

Pcs == {"idle", "asked", "paged", "related", "received", "planned"}

Pull == [pc : Pcs, serverTime : 0..MaxTime, sent : [Jobs -> 0..MaxWrites \cup {None}],
         sites : SUBSET Jobs, scope : SUBSET Jobs, next : Cursor, truncated : BOOLEAN,
         remove : SUBSET Jobs]

Nothing == [j \in Jobs |-> None]

Idle == [pc |-> "idle", serverTime |-> 0, sent |-> Nothing, sites |-> {}, scope |-> {},
         next |-> Epoch, truncated |-> FALSE, remove |-> {}]

Held == {j \in Jobs : phone.jobs[j] # None}

Scope == {j \in Jobs : jobs[j].mine}

\* At any moment: one transaction has just written all jobs, and others that are as
\* old as they get may still be open.
Init ==
    /\ limit \in Limits
    /\ clock = MaxOpen
    /\ jobs \in [Jobs -> {[version |-> 0, stamp |-> MaxOpen, site |-> 0,
                             mine |-> b, written |-> b] : b \in BOOLEAN}]
    /\ writers \in [Writers -> {0, None}]
    /\ phone = [jobs |-> Nothing, sites |-> {}, unsynced |-> {}, cursor |-> Epoch]
    /\ pull = Idle
    /\ faults = 0

-----------------------------------------------------------------------------
(* The office.                                                             *)

Open == {w \in Writers : writers[w] # None}

TimePasses ==
    /\ clock < MaxTime
    /\ \A w \in Open : clock - writers[w] < MaxOpen
    /\ clock' = clock + 1

Tick ==
    /\ TimePasses
    /\ UNCHANGED <<limit, jobs, writers, phone, pull, faults>>

\* No two transactions begin at one instant.
BeginWrite(w) ==
    /\ w \notin Open
    /\ TimePasses
    /\ writers' = [writers EXCEPT ![w] = clock + 1]
    /\ UNCHANGED <<limit, jobs, phone, pull, faults>>

\* A transaction that has written the row `job` over j commits.
Commit(w, j, job) ==
    /\ jobs' = [jobs EXCEPT ![j] = job]
    /\ writers' = [writers EXCEPT ![w] = None]
    /\ UNCHANGED <<limit, clock, phone, pull, faults>>

Stamped(w, j) ==
    [jobs[j] EXCEPT !.version = @ + 1, !.stamp = writers[w], !.written = TRUE]

\* transitionJob, recordJobOutcome, rescheduleVisit: the row of the job is updated.
WriteJob(w, j) ==
    /\ jobs[j].version < MaxWrites
    /\ Commit(w, j, Stamped(w, j))

\* assignTechnician for a job that is triaged or scheduled: it moves to dispatched.
Dispatch(w, j) ==
    /\ ~jobs[j].mine
    /\ jobs[j].version < MaxWrites
    /\ Commit(w, j, [Stamped(w, j) EXCEPT !.mine = TRUE])

\* assignTechnician for any other job writes visits only.  Midnight, too, brings
\* a visit into the horizon, or takes it out, and writes nothing.
Reassign(w, j) ==
    Commit(w, j, [jobs[j] EXCEPT !.mine = ~@, !.written = FALSE])

WriteSite(w, j) ==
    /\ jobs[j].site < writers[w]
    /\ Commit(w, j, [jobs[j] EXCEPT !.site = writers[w]])

Write(w, j) ==
    /\ w \in Open
    /\ WriteJob(w, j) \/ Dispatch(w, j) \/ Reassign(w, j) \/ WriteSite(w, j)

-----------------------------------------------------------------------------
(* pullWorkingSet, in the transaction of the request.                      *)

Answer(x) ==
    /\ pull' = x
    /\ UNCHANGED <<limit, clock, jobs, writers, phone, faults>>

\* A mutant of the next: by the time alone.
LaterThan(at, id, cursor) == at > cursor.at

\* The keyset: (updated_at, id) > (cursor.at, cursor.id).
After(at, id, cursor) == at > cursor.at \/ (at = cursor.at /\ id > cursor.id)

Delta == {j \in Scope : After(jobs[j].stamp, j, phone.cursor)}

Earlier(i, j) == jobs[i].stamp < jobs[j].stamp \/ (jobs[i].stamp = jobs[j].stamp /\ i < j)

\* The first `limit` of the delta, oldest first.
Page == {j \in Delta : Cardinality({i \in Delta : Earlier(i, j)}) < limit}

\* A mutant of the next: the clock itself.
AtTheClock(time) == [at |-> time, id |-> NoTiebreak]

\* A mutant of the next: the cursor lacks its second half.
HalfACursor(time) == [at |-> time - Lag, id |-> None]

\* Where the next pull continues when this one returned all it found.
HeldBack(time) == [at |-> time - Lag, id |-> NoTiebreak]

ReadPage(next) ==
    /\ pull.pc = "asked"
    /\ Answer([pull EXCEPT
          !.pc = "paged",
          !.sent = [j \in Jobs |-> IF j \in Page THEN jobs[j].version ELSE None],
          !.truncated = Page # Delta,
          !.next = next])

\* A page that holds the whole delta, and one that is full: the next pull goes on
\* after its last row, and what is still open is overtaken if it began earlier.
ReadLastPage == Page = Delta /\ ReadPage(HeldBack(pull.serverTime))

ReadFullPage ==
    /\ Page # Delta
    /\ \E k \in Page :
          /\ \A i \in Page : ~Earlier(k, i)
          /\ ReadPage([at |-> jobs[k].stamp, id |-> k])

\* Customers and properties of the jobs in scope, by their own stamps.
ReadSites ==
    /\ pull.pc = "paged"
    /\ Answer([pull EXCEPT !.pc = "related",
                           !.sites = {j \in Scope : jobs[j].site > phone.cursor.at}])

\* The query for scope.jobIds is the last, and the answer is on its way.
ReadScope ==
    /\ pull.pc = "related"
    /\ Answer([pull EXCEPT !.pc = "received", !.scope = Scope])

-----------------------------------------------------------------------------
(* SyncRunner.pull.                                                        *)

\* The request reaches the office: now() is the start of its transaction.
Ask == [Idle EXCEPT !.pc = "asked", !.serverTime = clock]

StartPull ==
    /\ pull.pc = "idle"
    /\ Answer(Ask)

\* A mutant of the next: what the page does not name is out of scope.
NotSent(x) == {j \in Held : x.sent[j] = None /\ j \notin phone.unsynced}

\* A mutant of the next: an answer without rows says nothing.
IfAnythingSent(x) ==
    IF x.sent = Nothing THEN {} ELSE Held \ (x.scope \cup phone.unsynced)

\* planRemovals: what is held, not named, and has no work to send.
Removals(x) == Held \ (x.scope \cup phone.unsynced)

\* readDeviceHoldings: read before the write, in its own transaction.
ReadHoldings ==
    /\ pull.pc = "received"
    /\ Answer([pull EXCEPT !.pc = "planned", !.remove = Removals(pull)])

\* The library refuses a batch that both updates and destroys a record.
Refused == \E j \in pull.remove : pull.sent[j] # None

\* applySyncPlan: rows, removals and the cursor in one batch; a truncated pull
\* comes straight back.
ApplyPlan ==
    /\ pull.pc = "planned"
    /\ ~Refused
    /\ phone' = [phone EXCEPT
          !.jobs = [j \in Jobs |-> IF j \in pull.remove THEN None
                                   ELSE IF pull.sent[j] # None THEN pull.sent[j] ELSE @[j]],
          !.sites = @ \cup pull.sites,
          !.cursor = pull.next]
    /\ pull' = IF pull.truncated THEN Ask ELSE Idle
    /\ UNCHANGED <<limit, clock, jobs, writers, faults>>

RefusePlan ==
    /\ pull.pc = "planned"
    /\ Refused
    /\ Answer(Idle)

\* The connection is lost, the app is killed, or the page limit is reached:
\* what was applied stays, and the cursor with it.
BreakOff ==
    /\ pull.pc # "idle"
    /\ faults < MaxFaults
    /\ faults' = faults + 1
    /\ pull' = Idle
    /\ UNCHANGED <<limit, clock, jobs, writers, phone>>

-----------------------------------------------------------------------------
(* The rest of the phone.                                                  *)

\* A technician records something on a job, whatever the pull is doing.
Capture(j) ==
    /\ j \in Held \ phone.unsynced
    /\ phone' = [phone EXCEPT !.unsynced = @ \cup {j}]
    /\ UNCHANGED <<limit, clock, jobs, writers, pull, faults>>

\* drain: not while a pull runs.
Drain(j) ==
    /\ pull.pc = "idle"
    /\ j \in phone.unsynced
    /\ phone' = [phone EXCEPT !.unsynced = @ \ {j}]
    /\ UNCHANGED <<limit, clock, jobs, writers, pull, faults>>

-----------------------------------------------------------------------------
Proceed == ReadLastPage \/ ReadFullPage \/ ReadSites \/ ReadScope \/ ReadHoldings \/ ApplyPlan \/ RefusePlan

Next ==
    \/ Tick
    \/ \E w \in Writers : BeginWrite(w) \/ \E j \in Jobs : Write(w, j)
    \/ StartPull \/ Proceed \/ BreakOff
    \/ \E j \in Jobs : Capture(j) \/ Drain(j)

Spec == Init /\ [][Next]_vars

\* The queue is drained, and the app started again, whenever it can be.
FairSpec ==
    /\ Spec
    /\ WF_vars(Proceed) /\ WF_vars(StartPull)
    /\ \A w \in Writers : WF_vars(\E j \in Jobs : Write(w, j))
    /\ \A j \in Jobs : WF_vars(Drain(j))

-----------------------------------------------------------------------------
(* Properties.                                                             *)

\* The types of the variables.
TypeOK ==
    /\ limit \in Limits
    /\ clock \in 0..MaxTime
    /\ jobs \in [Jobs -> Job]
    /\ writers \in [Writers -> 0..MaxTime \cup {None}]
    /\ phone \in Phone
    /\ pull \in Pull
    /\ faults \in 0..MaxFaults

\* What the office owes: a job in the working set that was written since it came
\* there; and what the phone has, or is about to be sent.
Owed(j) == jobs[j].mine /\ jobs[j].written

Known(j) == phone.jobs[j] = jobs[j].version \/ After(jobs[j].stamp, j, phone.cursor)

\* The row was written at the edge of a full page: the phone's cursor is the last
\* row of one, and the row is stamped no more than the lag before it.
AtThePageEdge(j) ==
    /\ phone.cursor.id # NoTiebreak
    /\ jobs[j].stamp >= phone.cursor.at - Lag

\* A transaction that stamps early and commits late is "re-sent rather than lost":
\* no pull, applied or broken off, and no late commit loses a row the phone was to
\* have, except at the edge of a full page.  There it may: see NothingSkipped.
LostOnlyAtThePageEdge ==
    [][\A j \in Jobs : (Owed(j) => Known(j)) /\ Owed(j)' => Known(j)' \/ AtThePageEdge(j)']_vars

\* Fails, and no run checks it: "the watermark is the last row actually returned,
\* so nothing between it and `now()` is skipped".  A transaction that began before
\* that row's and commits after the page was read is never sent.
NothingSkipped == \A j \in Jobs : Owed(j) => Known(j)

\* No "device offline for a fortnight silently keeps a job it should have dropped":
\* a job taken off the technician for good leaves the phone once its work is sent.
TakenOffLeaves ==
    \A j \in Jobs :
        <>[](~jobs[j].mine /\ j \notin phone.unsynced) => <>[](j \notin Held)

\* "Every entity below is derived from it, so ... a widening cannot happen to one
\* entity and not another": a job on the phone has its customer and its address.
JobComesWithItsSite == Held \subseteq phone.sites

\* "This technician's jobs for today and tomorrow plus anything of theirs still
\* open": with no pull under way, a job of theirs is held or about to be sent.
WorkingSetIsDeclared ==
    \A j \in Scope : j \in Held \/ After(jobs[j].stamp, j, phone.cursor)

\* "Nothing can queue a mutation inside" the window between the holdings and the
\* batch: no job with work to send is removed.
QueuedWorkIsPinned ==
    [][\A j \in phone.unsynced : j \in Held => j \in Held']_vars
=============================================================================
