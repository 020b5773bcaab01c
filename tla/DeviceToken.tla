----------------------------- MODULE DeviceToken -----------------------------
(***************************************************************************)
(* The credential of one technician's phone: the keystore and its copy in  *)
(* memory, the requests that present the token, and the office that        *)
(* resolves, rotates and revokes it.                                       *)
(*                                                                         *)
(* The phone is honest: every token is presented by the phone it was given *)
(* to.  Requests overlap, are given up by the phone and go on in the       *)
(* office, and their answers are lost; the app is killed and the keystore  *)
(* fails.                                                                  *)
(*                                                                         *)
(* Left out: signOutDevice, which nothing calls, memberships and tenants   *)
(* switched off, and the work the requests carry.  The page a technician   *)
(* signs in on is a seam in the code (WEB_LOGIN): here it works.           *)
(***************************************************************************)
EXTENDS Naturals

CONSTANTS
    Devices,        \* BOUND: rows of field_devices somebody can still present
    NoDevice,
    Requests,       \* BOUND: requests open at once
    MaxTokens,      \* BOUND: tokens somebody holds at once
    MaxFaults       \* BOUND: lost requests and answers, failures, kills, revocations,
                    \* and calls begun beside another

ASSUME DeviceAssumption ==
    /\ NoDevice \notin Devices
    /\ MaxTokens \in Nat \ {0}
    /\ MaxFaults \in Nat

VARIABLES
    rows,       \* field_devices
    memory,     \* DeviceStore.cached: the token the phone presents
    stored,     \* the token in the keystore
    owed,       \* DeviceStore.unflushed: memory has to be written
    phone,      \* the sign-in gate of the app
    requests,
    faults

vars == <<rows, memory, stored, owed, phone, requests, faults>>

-----------------------------------------------------------------------------
NoToken == 0
Tokens  == 1..MaxTokens

\* `grace`, `due` and `expired` are what the clock says of the row's times.
Row == {row \in [token : Tokens \cup {NoToken}, previous : Tokens \cup {NoToken},
                 grace : BOOLEAN, due : BOOLEAN, expired : BOOLEAN, revoked : BOOLEAN] :
            row.previous # NoToken => row.previous # row.token}

NoRow == [token |-> NoToken, previous |-> NoToken,
          grace |-> FALSE, due |-> FALSE, expired |-> FALSE, revoked |-> FALSE]

\* registerFieldDevice.
NewRow(token) == [NoRow EXCEPT !.token = token]

Chain(row) == {row.token, row.previous} \ {NoToken}

Phone == [registered : BOOLEAN, needsSignIn : BOOLEAN, pullOwed : BOOLEAN]

GateOpen == phone.registered /\ ~phone.needsSignIn

\* A call is `waiting` until the phone is done with it; one the phone has given up
\* may go on in the office.  It is `recent` if it was open when a token was last
\* rotated (2), or made while such a one was (1).
Request == [at      : {"idle", "flushing", "sent", "admitted", "reused", "answered",
                       "saving", "writing"},
            kind    : {"sync", "upload", "signIn"},
            token   : Tokens \cup {NoToken},    \* presented
            row     : Devices \cup {NoDevice},  \* resolved to
            rotates : BOOLEAN,
            fresh   : Tokens \cup {NoToken},    \* handed back
            answer  : {"none", "ok", "denied", "revoked", "failed"},
            write   : Tokens \cup {NoToken},    \* on its way to the keystore
            waiting : BOOLEAN,
            recent  : 0..2]

Idle == [at |-> "idle", kind |-> "sync", token |-> NoToken, row |-> NoDevice,
         rotates |-> FALSE, fresh |-> NoToken, answer |-> "none", write |-> NoToken,
         waiting |-> FALSE, recent |-> 0]

Calling(kind) == \E r \in Requests : requests[r].waiting /\ requests[r].kind = kind

\* A token is 32 random bytes: never one that anybody still holds.
HeldByPhone ==
    {memory, stored} \cup UNION {{requests[r].token, requests[r].fresh, requests[r].write} :
                                     r \in Requests}

\* A row nobody can present a token of is like no row: its times are let alone, and
\* the next token minted takes its place.
Forgotten(d) ==
    /\ Chain(rows[d]) \cap HeldByPhone = {}
    /\ \A r \in Requests : requests[r].row # d

KnownRows == [d \in Devices |-> IF Forgotten(d) THEN NoRow ELSE rows[d]]

InUse == HeldByPhone \cup UNION {Chain(KnownRows[d]) : d \in Devices}

Fresh == CHOOSE k \in Tokens \ InUse : TRUE

Fault == faults < MaxFaults /\ faults' = faults + 1

\* Nothing keeps a call from beginning beside another.
Beside == IF \A q \in Requests : requests[q].at = "idle" THEN UNCHANGED faults ELSE Fault

-----------------------------------------------------------------------------
Init ==
    /\ rows = [[d \in Devices |-> NoRow] EXCEPT ![CHOOSE d \in Devices : TRUE] = NewRow(1)]
    /\ memory = 1
    /\ stored = 1
    /\ owed = FALSE
    /\ phone = [registered |-> TRUE, needsSignIn |-> FALSE, pullOwed |-> TRUE]
    /\ requests = [r \in Requests |-> Idle]
    /\ faults = 0

(***************************************************************************)
(* The phone calls.                                                        *)
(***************************************************************************)

\* DeviceStore.read: what is owed to the keystore is tried again first.
Call(kind, owes) ==
    LET call == [Idle EXCEPT !.kind = kind, !.waiting = TRUE,
                             !.recent = IF \E q \in Requests : requests[q].recent = 2
                                        THEN 1 ELSE 0]
    IN  IF owes THEN [call EXCEPT !.at = "flushing", !.write = memory]
                ELSE [call EXCEPT !.at = "sent", !.token = memory]

\* drain() and pull() exclude each other; a pull follows the start of the app,
\* everything else is behind the gate.
SyncCall(r) ==
    /\ requests[r].at = "idle"
    /\ ~Calling("sync")
    /\ GateOpen \/ phone.pullOwed
    /\ requests' = [requests EXCEPT ![r] = Call("sync", owed)]
    /\ phone' = [phone EXCEPT !.pullOwed = FALSE]
    /\ Beside
    /\ UNCHANGED <<rows, memory, stored, owed>>

\* The upload runner runs beside them.
UploadCall(r) ==
    /\ requests[r].at = "idle"
    /\ ~Calling("upload")
    /\ requests' = [requests EXCEPT ![r] = Call("upload", owed)]
    /\ Beside
    /\ UNCHANGED <<rows, memory, stored, owed, phone>>

\* DeviceStore.flush: when its write succeeds nothing is owed any more.
Keystore(write, ok) ==
    /\ stored' = IF ok THEN write ELSE stored
    /\ owed' = (owed /\ ~ok)
    /\ IF ok THEN UNCHANGED faults ELSE Fault

Flushed(r, ok) ==
    /\ requests[r].at = "flushing"
    /\ Keystore(requests[r].write, ok)
    /\ requests' = [requests EXCEPT
           ![r].write = NoToken,
           ![r].at = IF requests[r].fresh # NoToken THEN "saving" ELSE "sent",
           ![r].token = IF requests[r].fresh # NoToken THEN @ ELSE memory]
    /\ UNCHANGED <<rows, memory, phone>>

(***************************************************************************)
(* The office: withDevice.                                                 *)
(***************************************************************************)

\* The office is done; nobody is left to tell if the phone has given up.
Answer(r, answer, fresh) ==
    IF requests[r].waiting
    THEN [requests[r] EXCEPT !.at = "answered", !.answer = answer, !.fresh = fresh,
                             !.row = NoDevice, !.rotates = FALSE]
    ELSE Idle

\* app_auth_resolve_device.  A token is the current one of a live row, or the one
\* that row's replaced; the current one wins an expiry, the replaced one its grace.
Resolve(r) ==
    LET x == requests[r]
        live(d) == ~rows[d].revoked /\ x.token \in Chain(rows[d])
    IN  /\ x.at = "sent"
        /\ requests' = [requests EXCEPT ![r] =
              IF \E d \in Devices : live(d)
              THEN LET d == CHOOSE e \in Devices : live(e)
                   IN  IF x.token = rows[d].token
                       THEN IF rows[d].expired
                            THEN Answer(r, "denied", NoToken)
                            ELSE [x EXCEPT !.at = "admitted", !.row = d,
                                           !.rotates = rows[d].due]
                       ELSE [x EXCEPT !.at = IF rows[d].grace THEN "admitted" ELSE "reused",
                                      !.row = d]
              ELSE Answer(r, "denied", NoToken)]
        /\ UNCHANGED <<rows, memory, stored, owed, phone, faults>>

\* A mutant of the next: the assignments in the order they are written.
RotatedInOrder(row, token) ==
    IF row.revoked THEN row
    ELSE [NewRow(token) EXCEPT !.previous = token, !.grace = TRUE]

\* A mutant of the next: the replaced token is not kept for a while.
RotatedAtOnce(row, token) ==
    IF row.revoked THEN row ELSE [NewRow(token) EXCEPT !.previous = row.token]

\* rotateFieldDeviceToken matches no row that has been revoked; the token minted
\* for it is handed back all the same.
Rotated(row, token) ==
    IF row.revoked THEN row
    ELSE [NewRow(token) EXCEPT !.previous = row.token, !.grace = TRUE]

\* The transaction of the handler.  Whether it rotates was decided on what was read
\* when the token was resolved.
Commit(r) ==
    LET x == requests[r] IN
    /\ x.at = "admitted"
    /\ IF x.rotates
       THEN /\ Tokens \ InUse # {}
            /\ rows' = [KnownRows EXCEPT ![x.row] = Rotated(@, Fresh)]
            /\ requests' = [q \in Requests |->
                  LET y == IF q = r THEN Answer(r, "ok", Fresh) ELSE requests[q]
                  IN  [y EXCEPT !.recent = IF y.at = "idle" THEN 0 ELSE 2]]
       ELSE /\ requests' = [requests EXCEPT ![r] = Answer(r, "ok", NoToken)]
            /\ UNCHANGED rows
    /\ UNCHANGED <<memory, stored, owed, phone, faults>>

\* The handler throws, or the platform ends the request.
Fail(r) ==
    /\ requests[r].at \in {"admitted", "reused"}
    /\ Fault
    /\ requests' = [requests EXCEPT ![r] = Answer(r, "failed", NoToken)]
    /\ UNCHANGED <<rows, memory, stored, owed, phone>>

\* A replaced token after its grace: the device is revoked.
RevokeReused(r) ==
    /\ requests[r].at = "reused"
    /\ rows' = [rows EXCEPT ![requests[r].row].revoked = TRUE]
    /\ requests' = [requests EXCEPT ![r] = Answer(r, "revoked", NoToken)]
    /\ UNCHANGED <<memory, stored, owed, phone, faults>>

\* revokeDevice, from the office's screen.
RevokeDevice(d) ==
    /\ ~Forgotten(d) /\ ~rows[d].revoked
    /\ Fault
    /\ rows' = [rows EXCEPT ![d].revoked = TRUE]
    /\ UNCHANGED <<memory, stored, owed, phone, requests>>

(***************************************************************************)
(* The answer.                                                             *)
(***************************************************************************)

\* A runner that is refused closes the gate; the app then looks whether it still
\* holds a registration.
Refused ==
    [phone EXCEPT !.needsSignIn = TRUE,
                  !.registered = IF phone.needsSignIn THEN @ ELSE memory # NoToken]

\* A mutant of the next: the flag latches.
signedInLatched == phone

signedIn == [phone EXCEPT !.needsSignIn = FALSE]

\* The upload runner only logs.
Deliver(r) ==
    LET x == requests[r]
        sync == x.kind = "sync"
    IN
    /\ x.at = "answered"
    /\ \/ /\ x.answer = "ok" /\ x.fresh = NoToken
          /\ phone' = IF sync THEN signedIn ELSE phone
          /\ requests' = [requests EXCEPT ![r] = Idle]
          /\ UNCHANGED <<memory, owed>>
       \/ /\ x.answer = "ok" /\ x.fresh # NoToken
          /\ requests' = [requests EXCEPT
                 ![r].at = IF owed THEN "flushing" ELSE "saving",
                 ![r].write = IF owed THEN memory ELSE NoToken]
          /\ UNCHANGED <<memory, owed, phone>>
       \/ /\ x.answer = "denied"
          /\ phone' = IF sync THEN Refused ELSE phone
          /\ requests' = [requests EXCEPT ![r] = Idle]
          /\ UNCHANGED <<memory, owed>>
       \/ /\ x.answer = "revoked"           \* DeviceStore.clear
          /\ memory' = NoToken
          /\ owed' = TRUE
          /\ requests' = [requests EXCEPT ![r].at = "writing", ![r].write = NoToken]
          /\ UNCHANGED phone
       \/ /\ x.answer = "failed"
          /\ requests' = [requests EXCEPT ![r] = Idle]
          /\ UNCHANGED <<memory, owed, phone>>
    /\ UNCHANGED <<rows, stored, faults>>

\* saveRotatedToken, memory first; with nothing registered it throws.
Save(r) ==
    LET x == requests[r] IN
    /\ x.at = "saving"
    /\ IF memory = NoToken
       THEN /\ requests' = [requests EXCEPT ![r] = Idle]
            /\ UNCHANGED <<memory, owed>>
       ELSE /\ requests' = [requests EXCEPT ![r].at = "writing", ![r].write = x.fresh]
            /\ memory' = x.fresh
            /\ owed' = TRUE
    /\ UNCHANGED <<rows, stored, phone, faults>>

\* The write of save() or clear() ends.  A failed save is an error to its caller, a
\* failed clear is not.  A sign-in goes on with a pull, unless one is running.
Written(r, ok) ==
    LET x == requests[r] IN
    /\ x.at = "writing"
    /\ Keystore(x.write, ok)
    /\ phone' = CASE x.kind = "signIn" ->
                       IF ok THEN [phone EXCEPT !.registered = TRUE] ELSE phone
                  [] x.kind = "sync" /\ x.answer = "revoked" -> Refused
                  [] x.kind = "sync" /\ x.answer = "ok" /\ ok -> signedIn
                  [] OTHER -> phone
    /\ requests' = [requests EXCEPT ![r] =
           IF x.kind = "signIn" /\ ok /\ ~Calling("sync") THEN Call("sync", FALSE) ELSE Idle]
    /\ UNCHANGED <<rows, memory>>

\* signInAndRegister, up to its write to the keystore.
SignIn(r) ==
    /\ requests[r].at = "idle"
    /\ ~GateOpen
    /\ ~Calling("signIn")
    /\ \E d \in Devices : Forgotten(d)
    /\ Tokens \ InUse # {}
    /\ rows' = [KnownRows EXCEPT ![CHOOSE d \in Devices : Forgotten(d)] = NewRow(Fresh)]
    /\ memory' = Fresh
    /\ owed' = TRUE
    /\ requests' = [requests EXCEPT ![r] = [Idle EXCEPT
           !.at = "writing", !.kind = "signIn", !.answer = "ok", !.write = Fresh,
           !.waiting = TRUE]]
    /\ Beside
    /\ UNCHANGED <<stored, phone>>

(***************************************************************************)
(* Faults and time.                                                        *)
(***************************************************************************)

\* The timeout, a lost or unreadable answer: the office may go on.
GiveUp(r) ==
    /\ requests[r].waiting
    /\ requests[r].at \in {"sent", "admitted", "reused", "answered"}
    /\ Fault
    /\ requests' = [requests EXCEPT ![r] =
           IF @.at = "answered" THEN Idle ELSE [@ EXCEPT !.waiting = FALSE]]
    /\ UNCHANGED <<rows, memory, stored, owed, phone>>

LoseRequest(r) ==
    /\ requests[r].at = "sent"
    /\ Fault
    /\ requests' = [requests EXCEPT ![r] = Idle]
    /\ UNCHANGED <<rows, memory, stored, owed, phone>>

\* The app is killed and opened again.
Restart ==
    /\ Fault
    /\ memory' = stored
    /\ owed' = FALSE
    /\ phone' = [registered |-> stored # NoToken, needsSignIn |-> FALSE, pullOwed |-> TRUE]
    /\ requests' = [r \in Requests |->
           IF requests[r].at \in {"sent", "admitted", "reused"}
           THEN [requests[r] EXCEPT !.waiting = FALSE] ELSE Idle]
    /\ UNCHANGED <<rows, stored>>

\* Ten minutes outlast twice what a call lives: thirty seconds on the phone, a
\* minute in the office if the phone has given it up.
GraceEnds(d) ==
    /\ ~Forgotten(d) /\ rows[d].grace
    /\ \A r \in Requests : requests[r].recent = 0
    /\ rows' = [rows EXCEPT ![d].grace = FALSE]
    /\ UNCHANGED <<memory, stored, owed, phone, requests, faults>>

\* Days outlast every request, every grace and a keystore's bad patch.
DaysPass == (\A r \in Requests : requests[r].at = "idle") /\ ~owed

ComesDue(d) ==
    /\ DaysPass
    /\ ~Forgotten(d) /\ ~rows[d].due /\ ~rows[d].grace
    /\ rows' = [rows EXCEPT ![d].due = TRUE]
    /\ UNCHANGED <<memory, stored, owed, phone, requests, faults>>

Expires(d) ==
    /\ DaysPass
    /\ ~Forgotten(d) /\ rows[d].due /\ ~rows[d].expired
    /\ rows' = [rows EXCEPT ![d].expired = TRUE]
    /\ UNCHANGED <<memory, stored, owed, phone, requests, faults>>

-----------------------------------------------------------------------------
PhoneWorks(r) ==
    \/ Deliver(r) \/ Save(r)
    \/ \E ok \in BOOLEAN : Flushed(r, ok) \/ Written(r, ok)

OfficeWorks(r) == Resolve(r) \/ Commit(r) \/ RevokeReused(r) \/ Fail(r)

Next ==
    \/ \E r \in Requests :
          \/ SyncCall(r) \/ UploadCall(r) \/ PhoneWorks(r) \/ OfficeWorks(r)
          \/ SignIn(r) \/ GiveUp(r) \/ LoseRequest(r)
    \/ \E d \in Devices : RevokeDevice(d) \/ GraceEnds(d) \/ ComesDue(d) \/ Expires(d)
    \/ Restart

Spec == Init /\ [][Next]_vars

\* The runtimes work on, and the technician keeps pressing Sync now, or signs in
\* when that is what the screen offers.  Strong, because the open requests are
\* bounded here and not in the phone: no other call keeps these waiting.
FairSpec ==
    /\ Spec
    /\ SF_vars(\E r \in Requests : SyncCall(r))
    /\ SF_vars(\E r \in Requests : SignIn(r))
    /\ \A r \in Requests : WF_vars(PhoneWorks(r)) /\ WF_vars(OfficeWorks(r))

-----------------------------------------------------------------------------
(* Properties.                                                             *)

\* The types of the variables.
TypeOK ==
    /\ rows \in [Devices -> Row]
    /\ memory \in Tokens \cup {NoToken}
    /\ stored \in Tokens \cup {NoToken}
    /\ owed \in BOOLEAN
    /\ phone \in Phone
    /\ requests \in [Requests -> Request]
    /\ faults \in 0..MaxFaults

\* A phone is not taken for the thief of its own token: a call that the app waits
\* for is answered with a revocation for reuse only when the phone neither holds
\* the current token nor has it on its way, however its two runners overlap, and
\* whatever they gave up and the office still works on.  (Outside it: a call cut
\* off by a kill, after which memory takes over what the keystore holds.)
HolderIsNoThief ==
    [][\A r \in Requests : RevokeReused(r) /\ requests[r].waiting =>
          LET current == rows[requests[r].row].token
          IN  /\ memory # current
              /\ \A q \in Requests : requests[q].fresh # current]_vars

\* Fails, and no run checks it: a rotation never pushes the token the phone holds
\* out of the chain.  Two calls resolved from one stale reading both rotate, and
\* the phone may keep the answer of the first one last.
HeldStaysInChain ==
    [][\A d \in Devices :
          /\ rows'[d].token # rows[d].token
          /\ memory \in Chain(rows[d])
          => memory' \in Chain(rows'[d])]_vars

\* Fails, and no run checks it: a token that memory holds and the keystore does not
\* is on its way there, or its write is noted as owed.  When two calls write, the
\* end of one clears the debt that belongs to the newer token of the other.
DifferenceIsOwed ==
    stored # memory =>
        \/ owed
        \/ \E r \in Requests : requests[r].at \in {"flushing", "writing"}
                              /\ requests[r].write = memory

Works(token) ==
    \E d \in Devices :
        /\ ~rows[d].revoked
        /\ \/ token = rows[d].token /\ token # NoToken /\ ~rows[d].expired
           \/ token = rows[d].previous /\ rows[d].grace

\* Whatever was lost, in whatever order answers arrived: a technician who syncs,
\* and signs in when asked to, is let in again.
LetInAgain == []<>(Works(memory) /\ GateOpen)
=============================================================================
