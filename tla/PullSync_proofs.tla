---------------------------- MODULE PullSync_proofs ----------------------------
(***************************************************************************)
(* Proofs about PullSync for any jobs, writers, lag and page limits: a row *)
(* is lost at the edge of a full page, or not at all.                      *)
(***************************************************************************)
EXTENDS PullSync, FiniteSetTheorems, TLAPS

\* No transaction of the office is older than the lag.
OpenIsRecent == \A w \in Open : writers[w] <= clock /\ clock - writers[w] <= MaxOpen

\* A cursor is no later than now, and the lag before it unless a row gave it.
Past(c) ==
    /\ c.at <= clock
    /\ c.id = NoTiebreak => c.at <= clock - Lag

\* The cursor c is the last row of a page, and the stamp at most the lag before it.
Late(stamp, c) == c.id # NoTiebreak /\ stamp >= c.at - Lag

\* What a pull sends, on top of what the phone holds, is the job as it is.
Covered(j) ==
    (IF pull.sent[j] # None THEN pull.sent[j] ELSE phone.jobs[j]) = jobs[j].version

\* The row of the job comes after the cursor c, or at the edge of its page.
Beyond(j, c) == After(jobs[j].stamp, j, c) \/ Late(jobs[j].stamp, c)

Read == {"paged", "related", "received", "planned"}

PullIsSound ==
    /\ pull.serverTime <= clock
    /\ pull.pc \in Read =>
          /\ Past(pull.next)
          /\ \A j \in Jobs : Owed(j) /\ Known(j) => Covered(j) \/ Beyond(j, pull.next)
    /\ pull.pc \in {"received", "planned"} =>
          \A j \in Jobs : Owed(j) => j \in pull.scope \/ Beyond(j, pull.next)
    /\ pull.pc = "planned" => pull.remove \cap pull.scope = {}

PullInv ==
    /\ TypeOK
    /\ OpenIsRecent
    /\ \A j \in Jobs : jobs[j].stamp <= clock
    /\ Past(phone.cursor)
    /\ PullIsSound

-----------------------------------------------------------------------------
(* Facts.                                                                  *)

LEMMA Types ==
    ASSUME PullInv
    PROVE  /\ clock \in Int /\ clock \in 0..MaxTime
           /\ MaxTime \in Nat /\ MaxWrites \in Nat /\ Lag \in Nat /\ MaxOpen \in Nat /\ MaxOpen <= Lag
           /\ IsFiniteSet(Jobs) /\ Jobs \subseteq Nat \ {0} /\ limit \in Nat
           /\ \A w \in Open : writers[w] \in 0..MaxTime
           /\ \A j \in Jobs : /\ jobs[j] \in Job /\ jobs[j].stamp \in 0..MaxTime
                              /\ jobs[j].version \in 0..MaxWrites /\ jobs[j].site \in 0..MaxTime
                              /\ jobs[j].version # None
           /\ phone.cursor.at \in Int /\ phone.cursor.id \in Nat
           /\ pull.next.at \in Int /\ pull.next.id \in Nat
           /\ pull.serverTime \in 0..MaxTime
<1>1. MaxTime \in Nat /\ MaxWrites \in Nat /\ Lag \in Nat /\ MaxOpen \in Nat /\ MaxOpen <= Lag
      /\ IsFiniteSet(Jobs) /\ Jobs \subseteq Nat \ {0} /\ None \notin 0..MaxWrites
      /\ limit \in Nat
  BY PullSyncAssumption DEF PullInv, TypeOK
<1>2. clock \in 0..MaxTime /\ \A w \in Open : writers[w] \in 0..MaxTime
  BY DEF PullInv, TypeOK, Open
<1>3. ASSUME NEW j \in Jobs
      PROVE  /\ jobs[j] \in Job /\ jobs[j].stamp \in 0..MaxTime
             /\ jobs[j].version \in 0..MaxWrites /\ jobs[j].site \in 0..MaxTime
  <2>1. jobs[j] \in Job
    BY DEF PullInv, TypeOK
  <2> QED BY <2>1 DEF Job
<1>4. phone.cursor \in Cursor
  BY DEF PullInv, TypeOK, Phone
<1>5. pull.next \in Cursor /\ pull.serverTime \in 0..MaxTime
  BY DEF PullInv, TypeOK, Pull
<1> QED BY <1>1, <1>2, <1>3, <1>4, <1>5 DEF Cursor

\* Whatever commits from now on is stamped after a cursor, or at the edge of its page.
LEMMA OpenIsBeyond ==
    ASSUME PullInv, NEW c, c.at \in Int, c.id \in Nat, Past(c), NEW w \in Open, NEW j \in Jobs
    PROVE  After(writers[w], j, c) \/ Late(writers[w], c)
<1>1. writers[w] <= clock /\ clock - writers[w] <= MaxOpen /\ writers[w] \in 0..MaxTime
  BY Types DEF PullInv, OpenIsRecent
<1>2. writers[w] >= clock - Lag
  BY <1>1, Types
<1>3. CASE c.id = NoTiebreak
  <2>1. writers[w] >= c.at /\ j > c.id
    BY <1>1, <1>2, <1>3, Types DEF Past, NoTiebreak
  <2> QED BY <1>1, <2>1 DEF After
<1>4. CASE c.id # NoTiebreak
  <2>1. writers[w] >= c.at - Lag
    BY <1>1, <1>2, Types DEF Past
  <2> QED BY <1>4, <2>1 DEF Late
<1> QED BY <1>3, <1>4

\* A pull that has been answered keeps its word while the office does nothing to jobs.
LEMMA OfficeQuiet ==
    ASSUME PullInv, clock' \in {clock, clock + 1}, clock' \in 0..MaxTime,
           writers' \in [Writers -> 0..MaxTime \cup {None}],
           \A w \in Writers : writers'[w] # None =>
              writers'[w] <= clock' /\ clock' - writers'[w] <= MaxOpen,
           UNCHANGED <<limit, jobs, phone, pull, faults>>
    PROVE  PullInv'
<1>1. TypeOK'
  BY DEF PullInv, TypeOK
<1>2. OpenIsRecent'
  BY DEF OpenIsRecent, Open
<1>3. clock <= clock' /\ \A j \in Jobs : jobs'[j].stamp <= clock'
  BY Types DEF PullInv
<1>4. Past(phone.cursor)' /\ (Past(pull.next) => Past(pull.next)')
  BY <1>3, Types DEF PullInv, Past
<1>5. PullIsSound'
  <2>1. pull'.serverTime <= clock'
    BY <1>3, Types DEF PullInv, PullIsSound
  <2> QED BY <1>4, <2>1
          DEF PullInv, PullIsSound, Covered, Owed, Known, Beyond, Late, After
<1> QED BY <1>1, <1>2, <1>3, <1>4, <1>5 DEF PullInv

-----------------------------------------------------------------------------
(* The office.                                                             *)

LEMMA TickStep ==
    ASSUME PullInv, Tick
    PROVE  PullInv'
<1>1. clock' = clock + 1 /\ clock' \in 0..MaxTime /\ UNCHANGED <<limit, jobs, writers, phone, pull, faults>>
  BY Types DEF Tick, TimePasses
<1>2. ASSUME NEW w \in Writers, writers'[w] # None
      PROVE  writers'[w] <= clock' /\ clock' - writers'[w] <= MaxOpen
  <2>1. w \in Open /\ writers'[w] = writers[w]
    BY <1>1, <1>2 DEF Open
  <2>2. clock - writers[w] < MaxOpen /\ writers[w] <= clock /\ writers[w] \in 0..MaxTime
    BY <2>1, Types DEF Tick, TimePasses, PullInv, OpenIsRecent
  <2> QED BY <1>1, <2>1, <2>2, Types
<1>3. writers' \in [Writers -> 0..MaxTime \cup {None}]
  BY <1>1 DEF PullInv, TypeOK
<1> QED BY <1>1, <1>2, <1>3, OfficeQuiet

LEMMA BeginWriteStep ==
    ASSUME PullInv, NEW v \in Writers, BeginWrite(v)
    PROVE  PullInv'
<1>1. clock' = clock + 1 /\ clock' \in 0..MaxTime /\ UNCHANGED <<limit, jobs, phone, pull, faults>>
  BY Types DEF BeginWrite, TimePasses
<1>2. /\ writers' = [writers EXCEPT ![v] = clock + 1]
      /\ writers' \in [Writers -> 0..MaxTime \cup {None}]
  BY <1>1 DEF BeginWrite, PullInv, TypeOK
<1>3. \A w \in Writers : writers'[w] = IF w = v THEN clock + 1 ELSE writers[w]
  BY <1>2 DEF PullInv, TypeOK
<1>4. ASSUME NEW w \in Writers, writers'[w] # None
      PROVE  writers'[w] <= clock' /\ clock' - writers'[w] <= MaxOpen
  <2>1. CASE w = v
    BY <1>1, <1>3, <2>1, Types
  <2>2. CASE w # v
    <3>1. w \in Open /\ writers'[w] = writers[w]
      BY <1>3, <1>4, <2>2 DEF Open
    <3>2. clock - writers[w] < MaxOpen /\ writers[w] <= clock /\ writers[w] \in 0..MaxTime
      BY <3>1, Types DEF BeginWrite, TimePasses, PullInv, OpenIsRecent
    <3> QED BY <1>1, <3>1, <3>2, Types
  <2> QED BY <2>1, <2>2
<1> QED BY <1>1, <1>2, <1>3, <1>4, OfficeQuiet

\* What a step may not do: lose a row that was not lost, but at the edge of a page.
LostNowhereElse ==
    \A j \in Jobs : (Owed(j) => Known(j)) /\ Owed(j)' => Known(j)' \/ AtThePageEdge(j)'

\* A job that is written anew is stamped beyond every cursor there is; one that is
\* written in no such way is owed to nobody it was not owed to before.
LEMMA CommitStep ==
    ASSUME PullInv, NEW w \in Open, NEW j \in Jobs, NEW job \in Job, Commit(w, j, job),
           \/ job.stamp = writers[w]
           \/ /\ job.stamp = jobs[j].stamp
              /\ job.version = jobs[j].version
              /\ job.mine /\ job.written => Owed(j)
    PROVE  PullInv' /\ LostNowhereElse
<1>1. /\ jobs' = [jobs EXCEPT ![j] = job] /\ jobs' \in [Jobs -> Job]
      /\ writers' = [writers EXCEPT ![w] = None]
      /\ UNCHANGED <<limit, clock, phone, pull, faults>>
  BY DEF Commit, PullInv, TypeOK
<1>2. /\ jobs'[j] = job
      /\ \A i \in Jobs \ {j} : jobs'[i] = jobs[i]
  BY <1>1 DEF PullInv, TypeOK
<1>3. /\ w \in Writers
      /\ writers' \in [Writers -> 0..MaxTime \cup {None}]
      /\ \A v \in Writers : writers'[v] = IF v = w THEN None ELSE writers[v]
  BY <1>1 DEF PullInv, TypeOK, Open
<1>4. Open' \subseteq Open /\ \A v \in Open' : writers'[v] = writers[v]
  BY <1>3 DEF Open
<1>5. TypeOK'
  BY <1>1, <1>3 DEF PullInv, TypeOK
<1>6. OpenIsRecent'
  BY <1>1, <1>4 DEF PullInv, OpenIsRecent
<1>7. Past(phone.cursor)' /\ (Past(pull.next) => Past(pull.next)')
  BY <1>1 DEF PullInv, Past
<1>8. \A i \in Jobs : jobs'[i].stamp <= clock'
  BY <1>1, <1>2 DEF PullInv, OpenIsRecent
<1>9. ASSUME NEW c, c.at \in Int, c.id \in Nat, Past(c), NEW i \in Jobs, Owed(i)'
      PROVE  \/ After(jobs'[i].stamp, i, c) \/ Late(jobs'[i].stamp, c)
             \/ /\ Owed(i) /\ jobs'[i].version = jobs[i].version
                /\ jobs'[i].stamp = jobs[i].stamp
  <2>1. CASE i # j
    BY <1>2, <1>9, <2>1 DEF Owed
  <2>2. CASE i = j /\ job.stamp = writers[w]
    BY <1>2, <1>9, <2>2, OpenIsBeyond
  <2>3. CASE i = j /\ job.stamp # writers[w]
    BY <1>2, <1>9, <2>3 DEF Owed
  <2> QED BY <2>1, <2>2, <2>3
<1>10. PullIsSound'
  <2>1. CASE pull.pc \in Read
    <3>1. Past(pull.next) /\ pull.next.at \in Int /\ pull.next.id \in Nat
      BY <2>1, Types DEF PullInv, PullIsSound
    <3>2. ASSUME NEW i \in Jobs, Owed(i)', Known(i)'
          PROVE  Covered(i)' \/ Beyond(i, pull.next)'
      <4>1. CASE Owed(i) /\ jobs'[i].version = jobs[i].version /\ jobs'[i].stamp = jobs[i].stamp
        BY <1>1, <2>1, <3>2, <4>1
           DEF PullInv, PullIsSound, Known, Covered, Beyond, After, Late
      <4>2. CASE After(jobs'[i].stamp, i, pull.next) \/ Late(jobs'[i].stamp, pull.next)
        BY <1>1, <4>2 DEF Beyond, After, Late
      <4> QED BY <1>9, <3>1, <3>2, <4>1, <4>2
    <3>3. ASSUME NEW i \in Jobs, Owed(i)', pull.pc \in {"received", "planned"}
          PROVE  i \in pull.scope \/ Beyond(i, pull.next)'
      BY <1>1, <1>9, <3>1, <3>3 DEF PullInv, PullIsSound, Beyond, After, Late
    <3> QED BY <1>1, <1>7, <3>1, <3>2, <3>3 DEF PullInv, PullIsSound
  <2>2. CASE pull.pc \notin Read
    BY <1>1, <2>2 DEF PullInv, PullIsSound, Read
  <2> QED BY <2>1, <2>2
<1>11. ASSUME NEW i \in Jobs, Owed(i) => Known(i), Owed(i)'
       PROVE  Known(i)' \/ AtThePageEdge(i)'
  <2>1. Past(phone.cursor) /\ phone.cursor.at \in Int /\ phone.cursor.id \in Nat
    BY Types DEF PullInv
  <2> QED BY <1>1, <1>9, <1>11, <2>1 DEF Known, AtThePageEdge, After, Late
<1> QED BY <1>1, <1>5, <1>6, <1>7, <1>8, <1>10, <1>11 DEF PullInv, LostNowhereElse

LEMMA WriteStep ==
    ASSUME PullInv, NEW w \in Writers, NEW j \in Jobs, Write(w, j)
    PROVE  PullInv' /\ LostNowhereElse
<1>1. /\ w \in Open /\ writers[w] \in 0..MaxTime /\ jobs[j] \in Job
      /\ jobs[j].version \in 0..MaxWrites /\ jobs[j].stamp \in 0..MaxTime
  BY Types DEF Write
<1>2. ASSUME NEW v, v = jobs[j].version, v < MaxWrites, NEW s, s = writers[w]
      PROVE  /\ Stamped(w, j) = [jobs[j] EXCEPT !.version = v + 1, !.stamp = s, !.written = TRUE]
             /\ Stamped(w, j) \in Job /\ Stamped(w, j).stamp = s
  <2>1. v + 1 \in 0..MaxWrites /\ s \in 0..MaxTime
    BY <1>1, <1>2, Types
  <2>2. Stamped(w, j) = [jobs[j] EXCEPT !.version = v + 1, !.stamp = s, !.written = TRUE]
    BY <1>2 DEF Stamped
  <2>3. PICK n \in 0..MaxWrites : n = v + 1
    BY <2>1
  <2>4. [jobs[j] EXCEPT !.version = n, !.stamp = s, !.written = TRUE] \in Job
    BY <1>1, <2>1 DEF Job
  <2>5. [jobs[j] EXCEPT !.version = n, !.stamp = s, !.written = TRUE].stamp = s
    BY <1>1 DEF Job
  <2> QED BY <2>2, <2>3, <2>4, <2>5
<1>3. CASE WriteJob(w, j)
  BY <1>1, <1>2, <1>3, CommitStep DEF WriteJob
<1>4. CASE Dispatch(w, j)
  <2> DEFINE job == [Stamped(w, j) EXCEPT !.mine = TRUE]
  <2>1. Stamped(w, j) \in Job /\ Stamped(w, j).stamp = writers[w] /\ Commit(w, j, job)
    BY <1>2, <1>4 DEF Dispatch
  <2>2. job \in Job /\ job.stamp = writers[w]
    BY <2>1 DEF Job
  <2> QED BY <1>1, <2>1, <2>2, CommitStep
<1>5. CASE Reassign(w, j)
  <2> DEFINE job == [jobs[j] EXCEPT !.mine = ~jobs[j].mine, !.written = FALSE]
  <2>1. Commit(w, j, job)
    BY <1>5 DEF Reassign
  <2>2. /\ job \in Job /\ job.stamp = jobs[j].stamp /\ job.version = jobs[j].version
        /\ ~job.written
    BY <1>1 DEF Job
  <2> QED BY <1>1, <2>1, <2>2, CommitStep
<1>6. CASE WriteSite(w, j)
  <2> DEFINE job == [jobs[j] EXCEPT !.site = writers[w]]
  <2>1. Commit(w, j, job)
    BY <1>6 DEF WriteSite
  <2>2. /\ job \in Job /\ job.stamp = jobs[j].stamp /\ job.version = jobs[j].version
        /\ job.mine = jobs[j].mine /\ job.written = jobs[j].written
    BY <1>1 DEF Job
  <2> QED BY <1>1, <2>1, <2>2, CommitStep DEF Owed
<1> QED BY <1>3, <1>4, <1>5, <1>6 DEF Write

-----------------------------------------------------------------------------
(* The page.                                                               *)

\* `Earlier` orders the jobs: by stamp, and by id among equals.
LEMMA EarlierOrders ==
    ASSUME PullInv
    PROVE  /\ \A i \in Jobs : ~Earlier(i, i)
           /\ \A i, j \in Jobs : i # j => Earlier(i, j) \/ Earlier(j, i)
           /\ \A i, j, k \in Jobs : Earlier(i, j) /\ Earlier(j, k) => Earlier(i, k)
<1>1. \A j \in Jobs : jobs[j].stamp \in Int /\ j \in Int
  BY Types
<1> QED BY <1>1 DEF Earlier

\* What a full page leaves out comes after its last row.
LEMMA PageFacts ==
    ASSUME PullInv
    PROVE  /\ Page \subseteq Delta /\ Delta \subseteq Jobs
           /\ \A k \in Page, j \in Delta \ Page : Earlier(k, j)
<1> DEFINE before(j) == {i \in Delta : Earlier(i, j)}
<1>1. Page \subseteq Delta /\ Delta \subseteq Jobs /\ IsFiniteSet(Jobs)
  BY Types DEF Page, Delta, Scope
<1>2. \A j \in Jobs : IsFiniteSet(before(j)) /\ Cardinality(before(j)) \in Nat
  <2>1. ASSUME NEW j \in Jobs PROVE IsFiniteSet(before(j)) /\ Cardinality(before(j)) \in Nat
    <3>1. before(j) \in SUBSET Jobs
      BY <1>1
    <3>2. IsFiniteSet(before(j))
      BY <1>1, <3>1, FS_Subset
    <3> QED BY <3>2, FS_CardinalityType
  <2> QED BY <2>1
<1>3. ASSUME NEW k \in Page, NEW j \in Delta \ Page PROVE Earlier(k, j)
  <2>1. j \in Jobs /\ k \in Jobs /\ j # k
    BY <1>1
  <2> SUFFICES ASSUME Earlier(j, k) PROVE FALSE
    BY <2>1, EarlierOrders
  <2>2. before(j) \in SUBSET before(k)
    BY <1>1, <2>1, EarlierOrders
  <2>3. Cardinality(before(j)) <= Cardinality(before(k))
    BY <1>2, <2>1, <2>2, FS_Subset
  <2>4. Cardinality(before(k)) < limit
    BY DEF Page
  <2>5. ~(Cardinality(before(j)) < limit)
    BY DEF Page
  <2>6. limit \in Nat /\ Cardinality(before(j)) \in Nat /\ Cardinality(before(k)) \in Nat
    BY <1>2, <2>1, Types
  <2> HIDE DEF before
  <2> QED BY <2>3, <2>4, <2>5, <2>6
<1> QED BY <1>1, <1>3

-----------------------------------------------------------------------------
(* The pull.                                                               *)

\* A step of the pull that leaves office and phone alone.
LEMMA AnswerStep ==
    ASSUME PullInv, NEW x \in Pull, Answer(x), x.serverTime <= clock,
           x.pc \in Read =>
              /\ Past(x.next)
              /\ \A j \in Jobs : Owed(j) /\ Known(j) =>
                    \/ (IF x.sent[j] # None THEN x.sent[j] ELSE phone.jobs[j]) = jobs[j].version
                    \/ Beyond(j, x.next),
           x.pc \in {"received", "planned"} =>
              \A j \in Jobs : Owed(j) => j \in x.scope \/ Beyond(j, x.next),
           x.pc = "planned" => x.remove \cap x.scope = {}
    PROVE  PullInv'
<1>1. pull' = x /\ UNCHANGED <<limit, clock, jobs, writers, phone, faults>>
  BY DEF Answer
<1>2. TypeOK'
  BY <1>1 DEF PullInv, TypeOK
<1>3. /\ OpenIsRecent' /\ Past(phone.cursor)'
      /\ \A j \in Jobs : jobs'[j].stamp <= clock'
  BY <1>1 DEF PullInv, OpenIsRecent, Open, Past
<1>4. PullIsSound'
  BY <1>1 DEF PullIsSound, Past, Covered, Owed, Known, Beyond, Late, After
<1> QED BY <1>2, <1>3, <1>4 DEF PullInv

LEMMA IdleFacts ==
    ASSUME PullInv
    PROVE  /\ Idle \in Pull /\ Idle.pc = "idle" /\ Idle.serverTime = 0
           /\ Ask \in Pull /\ Ask.pc = "asked" /\ Ask.serverTime = clock
<1>1. Epoch \in Cursor
  BY Types DEF Epoch, Cursor, NoTiebreak
<1>2. Nothing \in [Jobs -> 0..MaxWrites \cup {None}] /\ 0 \in 0..MaxTime /\ clock \in 0..MaxTime
  BY Types DEF Nothing
<1>3. Idle \in Pull /\ Idle.pc = "idle" /\ Idle.serverTime = 0
  BY <1>1, <1>2 DEF Idle, Pull, Pcs
<1> QED BY <1>2, <1>3 DEF Ask, Pull, Pcs

LEMMA RestStep ==
    ASSUME PullInv, StartPull \/ RefusePlan
    PROVE  PullInv'
<1>1. 0 <= clock
  BY Types
<1>2. CASE StartPull
  BY <1>2, Types, IdleFacts, AnswerStep DEF StartPull, Read
<1>3. CASE RefusePlan
  BY <1>1, <1>3, IdleFacts, AnswerStep DEF RefusePlan, Read
<1> QED BY <1>2, <1>3

\* A page that is read covers what the phone knows of, and ends on a cursor that is
\* past.
LEMMA ReadPageStep ==
    ASSUME PullInv, NEW next \in Cursor, ReadPage(next), Past(next),
           \A j \in Delta \ Page : After(jobs[j].stamp, j, next)
    PROVE  PullInv'
<1> DEFINE sent == [j \in Jobs |-> IF j \in Page THEN jobs[j].version ELSE None]
           full == Page # Delta
           x == [pull EXCEPT !.pc = "paged", !.sent = sent, !.truncated = full, !.next = next]
<1>1. Answer(x)
  BY DEF ReadPage
<1>2. pull \in Pull /\ sent \in [Jobs -> 0..MaxWrites \cup {None}] /\ full \in BOOLEAN
  BY Types DEF PullInv, TypeOK
<1>3. ASSUME NEW j \in Jobs, Owed(j), Known(j)
      PROVE  \/ (IF sent[j] # None THEN sent[j] ELSE phone.jobs[j]) = jobs[j].version
             \/ Beyond(j, next)
  <2>1. CASE j \in Page
    BY <2>1, Types
  <2>2. CASE j \in Delta \ Page
    BY <2>2 DEF Beyond
  <2>3. CASE j \notin Delta /\ j \notin Page
    BY <1>3, <2>3 DEF Owed, Known, Delta, Scope
  <2> QED BY <2>1, <2>2, <2>3, PageFacts
<1> HIDE DEF sent, full
<1>4. /\ x \in Pull /\ x.pc = "paged" /\ x.sent = sent /\ x.next = next
      /\ x.serverTime = pull.serverTime
  BY <1>2 DEF Pull, Pcs
<1>5. pull.serverTime <= clock
  BY DEF PullInv, PullIsSound
<1> HIDE DEF x
<1> QED BY <1>1, <1>3, <1>4, <1>5, AnswerStep

LEMMA ReadLastPageStep ==
    ASSUME PullInv, ReadLastPage
    PROVE  PullInv'
<1> DEFINE next == HeldBack(pull.serverTime)
<1>1. Page = Delta /\ ReadPage(next)
  BY DEF ReadLastPage
<1>2. next \in Cursor /\ next.at = pull.serverTime - Lag /\ next.id = 0
  BY Types DEF HeldBack, Cursor, NoTiebreak
<1>3. next.at <= clock /\ next.at <= clock - Lag
  BY <1>2, Types DEF PullInv, PullIsSound
<1> HIDE DEF next
<1>4. Past(next)
  BY <1>3 DEF Past
<1> QED BY <1>1, <1>2, <1>4, ReadPageStep

LEMMA ReadFullPageStep ==
    ASSUME PullInv, ReadFullPage
    PROVE  PullInv'
<1>1. PICK k \in Page : /\ \A i \in Page : ~Earlier(k, i)
                        /\ ReadPage([at |-> jobs[k].stamp, id |-> k])
  BY DEF ReadFullPage
<1> DEFINE next == [at |-> jobs[k].stamp, id |-> k]
<1>2. k \in Jobs /\ next.at = jobs[k].stamp /\ next.id = k /\ next \in Cursor
  BY PageFacts, Types DEF Cursor
<1> HIDE DEF next
<1>4. Past(next)
  BY <1>2, Types DEF Past, PullInv, NoTiebreak
<1>5. ASSUME NEW j \in Delta \ Page PROVE After(jobs[j].stamp, j, next)
  <2>1. Earlier(k, j) /\ j \in Jobs
    BY PageFacts
  <2> QED BY <1>2, <2>1, Types DEF Earlier, After
<1>6. ReadPage(next)
  BY <1>1 DEF next
<1> QED BY <1>2, <1>4, <1>5, <1>6, ReadPageStep

\* The later queries and the holdings: what is named in scope is not removed.
LEMMA LaterReadStep ==
    ASSUME PullInv, ReadSites \/ ReadScope \/ ReadHoldings
    PROVE  PullInv'
<1>1. pull \in Pull /\ Scope \subseteq Jobs /\ Held \subseteq Jobs
  BY DEF PullInv, TypeOK, Scope, Held
<1>2. /\ pull.serverTime <= clock
      /\ pull.pc \in Read =>
            /\ Past(pull.next)
            /\ \A j \in Jobs : Owed(j) /\ Known(j) =>
                  \/ (IF pull.sent[j] # None THEN pull.sent[j] ELSE phone.jobs[j]) = jobs[j].version
                  \/ Beyond(j, pull.next)
  BY DEF PullInv, PullIsSound, Covered
<1>3. CASE ReadSites
  <2> DEFINE sites == {j \in Scope : jobs[j].site > phone.cursor.at}
             x == [pull EXCEPT !.pc = "related", !.sites = sites]
  <2>1. pull.pc = "paged" /\ Answer(x)
    BY <1>3 DEF ReadSites
  <2>2. sites \in SUBSET Jobs
    BY <1>1
  <2> HIDE DEF sites
  <2>3. /\ x \in Pull /\ x.pc = "related" /\ x.sent = pull.sent /\ x.next = pull.next
        /\ x.serverTime = pull.serverTime
    BY <1>1, <2>2 DEF Pull, Pcs
  <2> HIDE DEF x
  <2> QED BY <1>2, <2>1, <2>3, AnswerStep DEF Read
<1>4. CASE ReadScope
  <2> DEFINE x == [pull EXCEPT !.pc = "received", !.scope = Scope]
  <2>1. pull.pc = "related" /\ Answer(x)
    BY <1>4 DEF ReadScope
  <2>2. /\ x \in Pull /\ x.pc = "received" /\ x.sent = pull.sent /\ x.next = pull.next
        /\ x.serverTime = pull.serverTime /\ x.scope = Scope
    BY <1>1 DEF Pull, Pcs
  <2>3. \A j \in Jobs : Owed(j) => j \in Scope
    BY DEF Owed, Scope
  <2> HIDE DEF x
  <2> QED BY <1>2, <2>1, <2>2, <2>3, AnswerStep DEF Read
<1>5. CASE ReadHoldings
  <2> DEFINE remove == Removals(pull)
             x == [pull EXCEPT !.pc = "planned", !.remove = remove]
  <2>1. pull.pc = "received" /\ Answer(x)
    BY <1>5 DEF ReadHoldings
  <2>2. remove \in SUBSET Jobs /\ remove \cap pull.scope = {}
    BY <1>1 DEF Removals
  <2> HIDE DEF remove
  <2>3. /\ x \in Pull /\ x.pc = "planned" /\ x.sent = pull.sent /\ x.next = pull.next
        /\ x.serverTime = pull.serverTime /\ x.scope = pull.scope /\ x.remove = remove
    BY <1>1, <2>2 DEF Pull, Pcs
  <2>4. \A j \in Jobs : Owed(j) => j \in pull.scope \/ Beyond(j, pull.next)
    BY <2>1 DEF PullInv, PullIsSound
  <2> HIDE DEF x
  <2> QED BY <1>2, <2>1, <2>2, <2>3, <2>4, AnswerStep DEF Read
<1> QED BY <1>3, <1>4, <1>5

\* The batch: what it removes was owed to nobody or lies beyond the cursor, and so
\* does what it leaves and was not up to date.
LEMMA ApplyPlanStep ==
    ASSUME PullInv, ApplyPlan
    PROVE  PullInv' /\ LostNowhereElse
<1> DEFINE held == [j \in Jobs |-> IF j \in pull.remove THEN None
                                   ELSE IF pull.sent[j] # None THEN pull.sent[j]
                                   ELSE phone.jobs[j]]
           sites == phone.sites \cup pull.sites
<1>1. /\ pull.pc = "planned" /\ pull \in Pull /\ phone \in Phone
      /\ phone' = [phone EXCEPT !.jobs = held, !.sites = sites, !.cursor = pull.next]
      /\ pull' \in {Ask, Idle}
      /\ UNCHANGED <<limit, clock, jobs, writers, faults>>
  BY DEF ApplyPlan, PullInv, TypeOK
<1>2. /\ held \in [Jobs -> 0..MaxWrites \cup {None}] /\ sites \in SUBSET Jobs
      /\ pull.next \in Cursor
  BY <1>1 DEF Phone, Pull
<1>3. ASSUME NEW j \in Jobs, Owed(j), Known(j)
      PROVE  held[j] = jobs[j].version \/ Beyond(j, pull.next)
  <2>1. j \in pull.scope \/ Beyond(j, pull.next)
    BY <1>1, <1>3 DEF PullInv, PullIsSound
  <2>2. (Covered(j) \/ Beyond(j, pull.next)) /\ pull.remove \cap pull.scope = {}
    BY <1>1, <1>3 DEF PullInv, PullIsSound, Read
  <2> QED BY <2>1, <2>2 DEF Covered
<1> HIDE DEF held, sites
<1>4. /\ phone' \in Phone /\ phone'.jobs = held /\ phone'.cursor = pull.next
  BY <1>1, <1>2 DEF Phone
<1>5. TypeOK'
  BY <1>1, <1>4, IdleFacts DEF PullInv, TypeOK
<1>6. /\ OpenIsRecent' /\ \A j \in Jobs : jobs'[j].stamp <= clock'
  BY <1>1 DEF PullInv, OpenIsRecent, Open
<1>7. Past(phone.cursor)'
  <2>1. Past(pull.next)
    BY <1>1 DEF PullInv, PullIsSound, Read
  <2> QED BY <1>1, <1>4, <2>1 DEF Past
<1>8. PullIsSound'
  <2>1. pull'.pc \in {"idle", "asked"} /\ pull'.serverTime <= clock'
    BY <1>1, IdleFacts, Types
  <2> QED BY <2>1 DEF PullIsSound, Read
<1>9. ASSUME NEW j \in Jobs, Owed(j) => Known(j), Owed(j)'
      PROVE  Known(j)' \/ AtThePageEdge(j)'
  <2>1. held[j] = jobs[j].version \/ Beyond(j, pull.next)
    BY <1>1, <1>3, <1>9 DEF Owed
  <2> QED BY <1>1, <1>4, <2>1 DEF Known, AtThePageEdge, Beyond, After, Late
<1> QED BY <1>5, <1>6, <1>7, <1>8, <1>9 DEF PullInv, LostNowhereElse

\* The pull is broken off, and the technician works: no cursor moves.
LEMMA PhoneStep ==
    ASSUME PullInv, BreakOff \/ \E j \in Jobs : Capture(j) \/ Drain(j)
    PROVE  PullInv'
<1>1. CASE BreakOff
  <2>1. /\ pull' = Idle /\ faults' \in 0..MaxFaults
        /\ UNCHANGED <<limit, clock, jobs, writers, phone>>
    <3>1. faults \in 0..MaxFaults /\ MaxFaults \in Nat
      BY PullSyncAssumption DEF PullInv, TypeOK
    <3> QED BY <1>1, <3>1 DEF BreakOff
  <2>2. TypeOK'
    BY <2>1, IdleFacts DEF PullInv, TypeOK
  <2>3. PullIsSound'
    BY <2>1, IdleFacts, Types DEF PullIsSound, Read
  <2> QED BY <2>1, <2>2, <2>3
          DEF PullInv, OpenIsRecent, Open, Past
<1>2. ASSUME NEW j \in Jobs, Capture(j) \/ Drain(j) PROVE PullInv'
  <2>1. PICK u \in SUBSET Jobs : phone' = [phone EXCEPT !.unsynced = u]
    <3>1. phone.unsynced \in SUBSET Jobs
      BY DEF PullInv, TypeOK, Phone
    <3> QED BY <1>2, <3>1 DEF Capture, Drain
  <2>2. UNCHANGED <<limit, clock, jobs, writers, pull, faults>>
    BY <1>2 DEF Capture, Drain
  <2>3. phone' \in Phone /\ phone'.jobs = phone.jobs /\ phone'.cursor = phone.cursor
    BY <2>1 DEF PullInv, TypeOK, Phone
  <2>4. TypeOK'
    BY <2>2, <2>3 DEF PullInv, TypeOK
  <2>5. PullIsSound'
    BY <2>2, <2>3
       DEF PullInv, PullIsSound, Past, Covered, Owed, Known, Beyond, Late, After
  <2> QED BY <2>2, <2>3, <2>4, <2>5 DEF PullInv, OpenIsRecent, Open, Past
<1> QED BY <1>1, <1>2

-----------------------------------------------------------------------------
(* The behaviours.                                                         *)

LEMMA InitInv ==
    ASSUME Init
    PROVE  PullInv
<1>1. /\ MaxTime \in Nat /\ MaxWrites \in Nat /\ MaxFaults \in Nat /\ Lag \in Nat
      /\ MaxOpen \in Nat /\ MaxOpen <= MaxTime /\ None \notin 0..MaxWrites
  BY PullSyncAssumption
<1>2. Epoch \in Cursor /\ Epoch.at = -Lag - 1
  BY <1>1 DEF Epoch, Cursor, NoTiebreak
<1>3. Nothing \in [Jobs -> 0..MaxWrites \cup {None}] /\ 0 \in 0..MaxTime /\ 0 \in 0..MaxWrites
      /\ 0 \in 0..MaxFaults /\ MaxOpen \in 0..MaxTime
  BY <1>1 DEF Nothing
<1>4. Idle \in Pull /\ Idle.pc = "idle" /\ Idle.serverTime = 0
  BY <1>2, <1>3 DEF Idle, Pull, Pcs
<1>5. phone \in Phone /\ phone.cursor = Epoch
  BY <1>2, <1>3 DEF Init, Phone
<1>6. \A j \in Jobs : jobs[j] \in Job /\ jobs[j].stamp = MaxOpen
  BY <1>3 DEF Init, Job
<1>7. jobs \in [Jobs -> Job]
  BY <1>6 DEF Init
<1>8. writers \in [Writers -> 0..MaxTime \cup {None}] /\ \A w \in Open : writers[w] = 0
  BY <1>3 DEF Init, Open
<1>9. clock = MaxOpen /\ pull = Idle
  BY DEF Init
<1>10. TypeOK
  BY <1>3, <1>4, <1>5, <1>7, <1>8, <1>9 DEF Init, TypeOK
<1>11. OpenIsRecent /\ \A j \in Jobs : jobs[j].stamp <= clock
  BY <1>1, <1>6, <1>8, <1>9 DEF OpenIsRecent
<1>12. Past(phone.cursor)
  BY <1>1, <1>2, <1>5, <1>9 DEF Past
<1>13. PullIsSound
  BY <1>1, <1>4, <1>9 DEF PullIsSound, Read
<1> QED BY <1>10, <1>11, <1>12, <1>13 DEF PullInv

\* A step that touches neither the jobs nor what the phone knows of them loses none.
LEMMA NothingLost ==
    ASSUME UNCHANGED <<jobs, phone.jobs, phone.cursor>>
    PROVE  LostNowhereElse
BY DEF LostNowhereElse, Owed, Known, After

LEMMA StepInv ==
    ASSUME PullInv, [Next]_vars
    PROVE  PullInv' /\ LostNowhereElse
<1>1. CASE Tick \/ \E w \in Writers : BeginWrite(w)
  <2>1. UNCHANGED <<jobs, phone.jobs, phone.cursor>>
    BY <1>1 DEF Tick, BeginWrite
  <2> QED BY <1>1, <2>1, TickStep, BeginWriteStep, NothingLost
<1>2. CASE \E w \in Writers, j \in Jobs : Write(w, j)
  BY <1>2, WriteStep
<1>3. CASE \/ StartPull \/ ReadLastPage \/ ReadFullPage \/ ReadSites \/ ReadScope
           \/ ReadHoldings \/ RefusePlan \/ BreakOff
  <2>1. UNCHANGED <<jobs, phone.jobs, phone.cursor>>
    BY <1>3 DEF StartPull, ReadLastPage, ReadFullPage, ReadPage, ReadSites, ReadScope,
                ReadHoldings, RefusePlan, BreakOff, Answer
  <2> QED BY <1>3, <2>1, ReadLastPageStep, ReadFullPageStep, LaterReadStep, RestStep, PhoneStep,
             NothingLost
<1>4. CASE ApplyPlan
  BY <1>4, ApplyPlanStep
<1>5. CASE \E j \in Jobs : Capture(j) \/ Drain(j)
  <2>1. UNCHANGED <<jobs, phone.jobs, phone.cursor>>
    BY <1>5 DEF Capture, Drain, PullInv, TypeOK, Phone
  <2> QED BY <1>5, <2>1, PhoneStep, NothingLost
<1>6. CASE UNCHANGED vars
  <2>1. UNCHANGED <<limit, clock, jobs, writers, phone, pull, faults>>
    BY <1>6 DEF vars
  <2>2. TypeOK' /\ OpenIsRecent' /\ Past(phone.cursor)'
    BY <2>1 DEF PullInv, TypeOK, OpenIsRecent, Open, Past
  <2>3. PullIsSound'
    BY <2>1 DEF PullInv, PullIsSound, Past, Covered, Owed, Known, Beyond, Late, After
  <2> QED BY <2>1, <2>2, <2>3, NothingLost DEF PullInv
<1> QED BY <1>1, <1>2, <1>3, <1>4, <1>5, <1>6 DEF Next, Proceed

\* What makes the pull right: a cursor that no row gave lies the lag before the
\* clock, so whatever can still commit comes after it; and what the phone had, or
\* was about to be sent, is in the answer, comes after the cursor the answer ends
\* on, or was stamped within the lag of the last row of a full page.
THEOREM Invariance == Spec => []PullInv
<1> QED BY InitInv, StepInv, PTL DEF Spec

\* The variables keep their types.
THEOREM TypeCorrect == Spec => []TypeOK
<1>1. PullInv => TypeOK
  BY DEF PullInv
<1> QED BY <1>1, Invariance, PTL

\* Whatever pages are cut short, pulls broken off and transactions late, for any lag
\* no transaction outlives: a row is lost where a full page ends, among those
\* stamped within the lag of its last row, or not at all.
THEOREM LossIsAtThePageEdge == Spec => LostOnlyAtThePageEdge
<1>1. PullInv /\ [Next]_vars => [LostNowhereElse]_vars
  BY StepInv
<1> QED BY <1>1, Invariance, PTL DEF Spec, LostOnlyAtThePageEdge, LostNowhereElse
=============================================================================
