-------------------------------- MODULE Uploads --------------------------------
(***************************************************************************)
(* Files sent in parts: the office's upload sessions, the browsers and the *)
(* phones that send to them, the requests that store a finished file, the  *)
(* timer that scans and sweeps, and the register a browser's file is for.  *)
(*                                                                         *)
(* A client opens a session under an id of its own, so that a second try   *)
(* finds the first one's parts; it sends what the office says is missing   *)
(* and asks for the file to be stored.  An abandoned request goes on       *)
(* inside the office, beside the ones of the next try.                     *)
(*                                                                         *)
(* Left out: authorisation, the lengths and hashes of parts (a part is     *)
(* whole or has not arrived), metadata and compression, the audit row, and *)
(* the forty files a tick scans at most.                                   *)
(***************************************************************************)
EXTENDS Naturals, FiniteSets

CONSTANTS
    Browsers,           \* a tab with one file to be put on the register
    Photos,             \* a capture on a phone
    Unreadable,         \* clients whose file is not of a format that is stored
    Refused,            \* sessions whose file the scanner will not give a verdict on
    Parts,              \* indexes of the parts of a file
    Requests,           \* `complete` requests the office can be working on for a session
    None,
    MaxTries,           \* BOUND: ids a browser makes
    MaxFaults           \* BOUND: clients that give up, requests and ticks that die, writes
                        \* that fail

ASSUME UploadsAssumption ==
    /\ IsFiniteSet(Parts) /\ Parts # {}
    /\ Browsers \cap Photos = {}
    /\ MaxTries \in Nat \ {0}
    /\ MaxFaults \in Nat

VARIABLES
    clients,        \* what each client is doing, and the id it would resume
    sessions,       \* upload_sessions with their committed upload_chunks
    arriving,       \* parts whose request passed the route's check and is not committed
    requests,       \* the `complete` requests at work on each session
    store,          \* sessions whose object is in the store
    register,       \* permit or snag: the session whose file is on it
    scanner,        \* the deployment's virus scanner
    tick,           \* the timer's request, one at a time
    faults

vars == <<clients, sessions, arriving, requests, store, register, scanner, tick, faults>>

-----------------------------------------------------------------------------
Clients == Browsers \cup Photos

\* client_upload_id, unique in the tenant: a phone's is the capture's id, a
\* browser makes one when it has none to resume.
Ids == (Browsers \X (1..MaxTries)) \cup (Photos \X {1})

Statuses == {"none", "open", "complete", "aborted", "failed"}

Session == [status : Statuses, parts : SUBSET Parts, expired : BOOLEAN,
            scan : {"none", "pending", "skipped", "clean", "infected"}]

NoSession == [status |-> "none", parts |-> {}, expired |-> FALSE, scan |-> "none"]

\* `need` is what the office said is missing and was not tried in this pass.
Client == [doing : {"idle", "opening", "sending", "finishing", "attaching", "filed"},
           tries : 0..MaxTries, resumes : BOOLEAN,
           need : SUBSET Parts, pass : 0..3, asked : Requests \cup {None}]

\* A phone is as if it had made its id before: it never makes another.
NewClient(c) == [doing |-> "idle", tries |-> IF c \in Photos THEN 1 ELSE 0,
                 resumes |-> c \in Photos, need |-> {}, pass |-> 0, asked |-> None]

IdOf(c) == <<c, clients[c].tries>>

\* There is none, there is one, or there is one that never gets through the files that
\* come before these: candidates' documents, and everything of other tenants.
Scanners == {"none", "works", "fails"}

\* The files that have still to be scanned before the sweep.
Tick == [running : BOOLEAN, scans : SUBSET Ids]

NoTick == [running |-> FALSE, scans |-> {}]

Init ==
    /\ clients = [c \in Clients |-> NewClient(c)]
    /\ sessions = [u \in Ids |-> NoSession]
    /\ arriving = {}
    /\ requests = [u \in Ids |-> [r \in Requests |-> "free"]]
    /\ store = {}
    /\ register = [b \in Browsers |-> None]
    /\ scanner \in Scanners
    /\ tick = NoTick
    /\ faults = 0

Fault == faults < MaxFaults /\ faults' = faults + 1

\* The attempt ends; what is remembered is the id, unless it was let go of.
Ended(client) == [client EXCEPT !.doing = "idle", !.need = {}, !.pass = 0, !.asked = None]

-----------------------------------------------------------------------------
(***************************************************************************)
(* A client's attempt.                                                     *)
(***************************************************************************)

\* The id is on record before the first request goes out.
Begin(c) ==
    LET me == clients[c] IN
    /\ me.doing = "idle"
    /\ me.resumes \/ me.tries < MaxTries
    /\ clients' = [clients EXCEPT ![c] =
         [me EXCEPT !.doing = "opening", !.resumes = TRUE,
                    !.tries = IF me.resumes THEN @ ELSE @ + 1]]
    /\ UNCHANGED <<sessions, arriving, requests, store, register, scanner, tick, faults>>

\* Mutant of the next: the client that asks again starts over.
Reopened(session) == [session EXCEPT !.status = "open"]

\* openUpload: the client's earlier session, whatever became of it, or a new one.
Opened(session) ==
    IF session.status = "none" THEN [session EXCEPT !.status = "open"] ELSE session

missingChunks(session) == Parts \ session.parts

\* Both doors answer with the NUMBER of parts received; the browser's also lists
\* the missing ones.  The phone's schema takes `receivedChunks` for a list and
\* refuses an answer in which it is not one.
InitAnswer(c, session) ==
    [receivedChunks |-> [type |-> "number", value |-> Cardinality(session.parts)],
     missingChunks |-> IF c \in Photos THEN None ELSE missingChunks(session)]

Reads(c, answer) == c \in Photos => answer.receivedChunks.type = "array"

\* chunkPlan: what the answer's list leaves to be sent.
ToSend(c, answer) ==
    IF c \in Photos THEN Parts \ answer.receivedChunks.value ELSE answer.missingChunks

\* The session is open whether or not the client can read the answer.
Open(c) ==
    LET session == Opened(sessions[IdOf(c)])
        answer  == InitAnswer(c, session) IN
    /\ clients[c].doing = "opening"
    /\ sessions' = [sessions EXCEPT ![IdOf(c)] = session]
    /\ clients' = [clients EXCEPT ![c] =
         IF Reads(c, answer)
         THEN IF ToSend(c, answer) = {} THEN [@ EXCEPT !.doing = "finishing"]
              ELSE [@ EXCEPT !.doing = "sending", !.need = ToSend(c, answer), !.pass = 1]
         ELSE Ended(@)]
    /\ UNCHANGED <<arriving, requests, store, register, scanner, tick, faults>>

Tried(c, i) == [clients EXCEPT ![c].need = @ \ {i}]

\* The route finds the session open; the part is inserted by a later transaction.
SendPart(c, i) ==
    /\ clients[c].doing = "sending" /\ i \in clients[c].need
    /\ sessions[IdOf(c)].status = "open"
    /\ arriving' = arriving \cup {<<IdOf(c), i>>}
    /\ clients' = Tried(c, i)
    /\ UNCHANGED <<sessions, requests, store, register, scanner, tick, faults>>

\* A browser gives up over a refused part in its third pass, a phone at once.
PartRefused(c, i) ==
    /\ clients[c].doing = "sending" /\ i \in clients[c].need
    /\ sessions[IdOf(c)].status # "open"
    /\ clients' = IF c \in Photos \/ clients[c].pass = 3
                  THEN [clients EXCEPT ![c] = Ended(@)]
                  ELSE Tried(c, i)
    /\ UNCHANGED <<sessions, arriving, requests, store, register, scanner, tick, faults>>

\* The client awaits its parts, then a browser asks what is missing and makes up
\* to three passes; a phone goes on to the end.
Check(c) ==
    LET me == clients[c]
        missing == IF c \in Photos THEN {} ELSE missingChunks(sessions[IdOf(c)]) IN
    /\ me.doing = "sending" /\ me.need = {}
    /\ \A i \in Parts : <<IdOf(c), i>> \notin arriving
    /\ clients' = [clients EXCEPT ![c] =
         IF missing = {} THEN [me EXCEPT !.doing = "finishing", !.pass = 0]
         ELSE IF me.pass < 3 THEN [me EXCEPT !.need = missing, !.pass = @ + 1]
         ELSE Ended(me)]
    /\ UNCHANGED <<sessions, arriving, requests, store, register, scanner, tick, faults>>

\* A reload, a lost answer, a time limit: what the office does is not undone.
GiveUp(c) ==
    /\ clients[c].doing \notin {"idle", "filed"}
    /\ Fault
    /\ clients' = [clients EXCEPT ![c] = Ended(@)]
    /\ UNCHANGED <<sessions, arriving, requests, store, register, scanner, tick>>

-----------------------------------------------------------------------------
(***************************************************************************)
(* The office.                                                             *)
(***************************************************************************)

\* Mutant of the next: the count is written whatever the session's status is.
WheneverItComes(session) == TRUE

TakesParts(session) == session.status = "open"

\* receiveChunk: the insert stands only if the counting UPDATE finds the session open.
receiveChunk(u, i) ==
    /\ <<u, i>> \in arriving
    /\ arriving' = arriving \ {<<u, i>>}
    /\ sessions' = IF TakesParts(sessions[u])
                   THEN [sessions EXCEPT ![u].parts = @ \cup {i}]
                   ELSE sessions
    /\ UNCHANGED <<clients, requests, store, register, scanner, tick, faults>>

\* Whoever is waiting on request r of session u: the client, if it has not given up.
Waiting(u, r) == {c \in Clients : IdOf(c) = u /\ clients[c].doing = "finishing"
                                              /\ clients[c].asked = r}

\* The answer to `complete`: a refusal ends the attempt, and keeps the id.
Refuse(u, r) == [c \in Clients |-> IF c \in Waiting(u, r) THEN Ended(clients[c]) ELSE clients[c]]

\* The browser forgets its id and submits the form; a phone files the capture
\* and the mutation that cites the session in one write.
AfterComplete(c) ==
    IF c \in Photos THEN [Ended(clients[c]) EXCEPT !.doing = "filed"]
    ELSE [Ended(clients[c]) EXCEPT !.doing = "attaching", !.resumes = FALSE]

Finished(u, r) == [c \in Clients |-> IF c \in Waiting(u, r) THEN AfterComplete(c) ELSE clients[c]]

\* completeStagedUpload's first transaction: every part is here and is read.
Stage(c, r) ==
    LET u == IdOf(c) IN
    /\ clients[c].doing = "finishing" /\ clients[c].asked = None
    /\ requests[u][r] = "free"
    /\ sessions[u].status = "open" /\ missingChunks(sessions[u]) = {}
    /\ requests' = [requests EXCEPT ![u][r] = "staged"]
    /\ clients' = [clients EXCEPT ![c].asked = r]
    /\ UNCHANGED <<sessions, arriving, store, register, scanner, tick, faults>>

\* ... or the session is not one that can be completed.
NotStaged(c) ==
    LET session == sessions[IdOf(c)] IN
    /\ clients[c].doing = "finishing" /\ clients[c].asked = None
    /\ session.status # "complete"
    /\ session.status # "open" \/ missingChunks(session) # {}
    /\ clients' = [clients EXCEPT ![c] = Ended(@)]
    /\ UNCHANGED <<sessions, arriving, requests, store, register, scanner, tick, faults>>

\* ... or it is complete already, which is an answer if its object is found.
AlreadyDone(c) ==
    /\ clients[c].doing = "finishing" /\ clients[c].asked = None
    /\ sessions[IdOf(c)].status = "complete"
    /\ clients' = [clients EXCEPT ![c] =
         IF IdOf(c) \in store THEN AfterComplete(c) ELSE Ended(clients[c])]
    /\ UNCHANGED <<sessions, arriving, requests, store, register, scanner, tick, faults>>

\* abortUpload: only an open session, and its parts with it.
Aborted(session, status) ==
    IF session.status = "open" THEN [session EXCEPT !.status = status, !.parts = {}]
    ELSE session

\* The bytes are of no known format, or the store fails: the session is burned.
Discard(u, r) ==
    /\ requests[u][r] = "staged"
    /\ IF u[1] \in Unreadable THEN UNCHANGED faults ELSE Fault
    /\ requests' = [requests EXCEPT ![u][r] = "free"]
    /\ sessions' = [sessions EXCEPT ![u] = Aborted(@, "failed")]
    /\ clients' = Refuse(u, r)
    /\ UNCHANGED <<arriving, store, register, scanner, tick>>

\* putOnce, outside of any transaction: the key is the session's, and an object
\* of the same bytes under it is this one.
Put(u, r) ==
    /\ requests[u][r] = "staged" /\ u[1] \notin Unreadable
    /\ requests' = [requests EXCEPT ![u][r] = "stored"]
    /\ store' = store \cup {u}
    /\ UNCHANGED <<clients, sessions, arriving, register, scanner, tick, faults>>

\* The same transaction drops the parts.
Completed(session) ==
    [session EXCEPT !.status = "complete", !.parts = {},
                    !.scan = IF scanner = "none" THEN "skipped" ELSE "pending"]

\* Mutant of the next: the row is written before the object is stored.
AnyStage == {"staged", "stored"}

Recordable == {"stored"}

\* completeUpload: the UPDATE takes an open session or nothing.
completeUpload(u, r) ==
    /\ requests[u][r] \in Recordable
    /\ requests' = [requests EXCEPT ![u][r] = "free"]
    /\ IF sessions[u].status = "open"
       THEN /\ sessions' = [sessions EXCEPT ![u] = Completed(@)]
            /\ clients' = Finished(u, r)
       ELSE /\ clients' = Refuse(u, r)
            /\ UNCHANGED sessions
    /\ UNCHANGED <<arriving, store, register, scanner, tick, faults>>

\* The process goes away between two transactions of a request.
RequestDies(u, r) ==
    /\ requests[u][r] # "free"
    /\ Fault
    /\ requests' = [requests EXCEPT ![u][r] = "free"]
    /\ clients' = Refuse(u, r)
    /\ UNCHANGED <<sessions, arriving, store, register, scanner, tick>>

-----------------------------------------------------------------------------
(***************************************************************************)
(* The register, and the timer.                                            *)
(***************************************************************************)

\* Mutant of the next: only a file known to be infected is turned away.
NotInfected == {"clean", "skipped", "pending"}

Cleared == {"clean", "skipped"}

\* resolveUploadedFile, in attachPermitDocument and attachSnagPhoto.
Attachable(session) == session.status = "complete" /\ session.scan \in Cleared

\* The form's own attempt: it is not repeated, and the id is no longer known.
Attach(b) ==
    /\ b \in Browsers /\ clients[b].doing = "attaching"
    /\ register' = IF Attachable(sessions[IdOf(b)])
                   THEN [register EXCEPT ![b] = IdOf(b)]
                   ELSE register
    /\ clients' = [clients EXCEPT ![b] = Ended(@)]
    /\ UNCHANGED <<sessions, arriving, requests, store, scanner, tick, faults>>

\* /api/cron/scan: what waits for a scan is read once.  A tick that throws before it
\* comes to these files does nothing to them.
StartTick ==
    /\ ~tick.running /\ scanner # "fails"
    /\ tick' = [running |-> TRUE,
                scans |-> IF scanner = "none" THEN {}
                          ELSE {u \in Ids : sessions[u].scan = "pending"}]
    /\ UNCHANGED <<clients, sessions, arriving, requests, store, register, scanner, faults>>

\* An object that is found is scanned, and the verdict is written on a row that still
\* waits for one.
Scan(u, verdict) ==
    /\ u \in tick.scans \ Refused
    /\ tick' = [tick EXCEPT !.scans = @ \ {u}]
    /\ sessions' = IF u \in store /\ sessions[u].scan = "pending"
                   THEN [sessions EXCEPT ![u].scan = verdict]
                   ELSE sessions
    /\ UNCHANGED <<clients, arriving, requests, store, register, scanner, faults>>

EndTick ==
    /\ tick' = NoTick
    /\ UNCHANGED <<clients, sessions, arriving, requests, store, register, scanner>>

\* The scanner throws, and nothing catches it: there is no verdict, and no sweep.
ScanThrows(u) == u \in tick.scans \cap Refused /\ EndTick /\ UNCHANGED faults

\* The scanner cannot be reached, or the platform ends the request.
TickDies == tick.running /\ EndTick /\ Fault

\* 48 hours have passed since the session was opened.
Expire(u) ==
    /\ sessions[u].status = "open" /\ ~sessions[u].expired
    /\ sessions' = [sessions EXCEPT ![u].expired = TRUE]
    /\ UNCHANGED <<clients, arriving, requests, store, register, scanner, tick, faults>>

\* Mutant of the next: the sessions are found through their parts.
HoldingParts(session) ==
    session.status = "open" /\ session.expired /\ session.parts # {}

Abandoned(session) == session.status = "open" /\ session.expired

\* The end of a tick, if it gets there.
sweepAbandonedUploads ==
    /\ tick.running /\ tick.scans = {}
    /\ tick' = NoTick
    /\ sessions' = [u \in Ids |-> IF Abandoned(sessions[u])
                                  THEN Aborted(sessions[u], "aborted") ELSE sessions[u]]
    /\ UNCHANGED <<clients, arriving, requests, store, register, scanner, faults>>

TickWorks ==
    \/ \E u \in Ids, verdict \in {"clean", "infected"} : Scan(u, verdict)
    \/ \E u \in Ids : ScanThrows(u)
    \/ sweepAbandonedUploads

Next ==
    \/ \E c \in Clients : Begin(c) \/ Open(c) \/ Check(c) \/ GiveUp(c)
                          \/ NotStaged(c) \/ AlreadyDone(c) \/ Attach(c)
    \/ \E c \in Clients, i \in Parts : SendPart(c, i) \/ PartRefused(c, i)
    \/ \E c \in Clients, r \in Requests : Stage(c, r)
    \/ \E u \in Ids, i \in Parts : receiveChunk(u, i)
    \/ \E u \in Ids, r \in Requests : Discard(u, r) \/ Put(u, r)
                                      \/ completeUpload(u, r) \/ RequestDies(u, r)
    \/ \E u \in Ids : Expire(u)
    \/ StartTick \/ TickWorks \/ TickDies

Spec == Init /\ [][Next]_vars

\* Time passes and the timer is called, whatever becomes of the call; a request that
\* is in the office is worked on; a client that has started goes on, and the
\* technician's app is started again.
Fairness ==
    /\ WF_vars(\E u \in Ids : Expire(u))
    /\ WF_vars(StartTick) /\ WF_vars(TickWorks)
    /\ WF_vars(\E u \in Ids, i \in Parts : receiveChunk(u, i))
    /\ WF_vars(\E u \in Ids, r \in Requests : Put(u, r) \/ completeUpload(u, r))
    /\ \A c \in Clients : WF_vars(Begin(c) \/ Open(c) \/ Check(c) \/ Attach(c)
                                  \/ NotStaged(c) \/ AlreadyDone(c)
                                  \/ \E i \in Parts : SendPart(c, i) \/ PartRefused(c, i)
                                  \/ \E r \in Requests : Stage(c, r))

FairSpec == Spec /\ Fairness

-----------------------------------------------------------------------------
(***************************************************************************)
(* Properties.                                                             *)
(***************************************************************************)

\* The shape of the state; a session has a verdict coming once it is complete.
TypeOK ==
    /\ clients \in [Clients -> Client]
    /\ sessions \in [Ids -> Session]
    /\ \A u \in Ids : sessions[u].scan # "none" <=> sessions[u].status = "complete"
    /\ arriving \subseteq Ids \X Parts
    /\ requests \in [Ids -> [Requests -> {"free", "staged", "stored"}]]
    /\ store \subseteq Ids
    /\ register \in [Browsers -> Ids \cup {None}]
    /\ scanner \in Scanners
    /\ tick \in Tick
    /\ faults \in 0..MaxFaults

\* No part of a file is kept for a session that has ended, however late its
\* request commits: nothing would ever come back for it (receiveChunk,
\* completeUpload, abortUpload, sweepAbandonedUploads).
PartsAreReclaimed ==
    \A u \in Ids : sessions[u].parts # {} => sessions[u].status = "open"

\* A complete session has its object, and what stands on the register is the
\* object of a complete session that was cleared (completeStagedUpload's order,
\* resolveUploadedFile, recordUploadScan).
CitedIsOnFile ==
    /\ \A u \in Ids : sessions[u].status = "complete" => u \in store
    /\ \A b \in Browsers : register[b] # None =>
         sessions[register[b]].status = "complete" /\ sessions[register[b]].scan \in Cleared

\* A file stands before the sweep that no tick gets past.
Blocked == scanner = "fails" \/ \E u \in Refused : sessions[u].scan = "pending"

\* A session ends, so that the office holds no half of a file for ever, as long as
\* there is no file the scanner keeps refusing: ticks that die, reloads, lost answers
\* and parts that come late do not matter (sweepAbandonedUploads: "nothing else in the
\* system will ever come back for it").
SessionsEnd ==
    \A u \in Ids : sessions[u].status = "open" ~> sessions[u].status # "open" \/ Blocked

\* Fails, and no run checks it: the comment on the sweep has it "hygiene, which runs
\* whether or not a scanner exists".  With one file that clamd refuses the tick throws
\* before the sweep, each time.
SessionsEndAnyway ==
    \A u \in Ids : sessions[u].status = "open" ~> sessions[u].status # "open"

\* A capture whose phone is not interrupted goes up.  The office's answer to
\* `init` is one that the phone refuses to read.
CaptureGoesUp == \A p \in Photos : <>(clients[p].doing = "filed")

\* A browser that resumes a session which has ended comes to an end itself: the
\* comment in upload-file.ts has the server open a new one, or hand back a
\* finished one at no cost.
ResumeIsHarmless ==
    \A b \in Browsers :
        clients[b].resumes /\ sessions[IdOf(b)].status \in {"complete", "aborted"}
            ~> ~clients[b].resumes

\* A file that is cleared gets where it was sent: the form attaches it in the
\* same breath as it is stored, when it has not been scanned.
ClearedIsAttached ==
    \A u \in Ids : sessions[u].scan = "clean" ~> \E b \in Browsers : register[b] = u
=============================================================================
