-------------------------- MODULE DeviceToken_proofs --------------------------
(***************************************************************************)
(* Proofs about DeviceToken for any number of rows, requests, tokens and   *)
(* faults.                                                                 *)
(***************************************************************************)
EXTENDS DeviceToken, TLAPS

\* What a slot holds is over when it is idle.
IdleIsBlank == \A r \in Requests : requests[r].at = "idle" => requests[r] = Idle

\* The phone does not work on a call it has given up.
PhoneWaits ==
    \A r \in Requests :
        requests[r].at \in {"flushing", "answered", "saving", "writing"}
            => requests[r].waiting

\* A token is in the chain of one row: whichever row app_auth_resolve_device finds
\* is the only one.
OneRowPerToken ==
    \A d, e \in Devices : d # e => Chain(rows[d]) \cap Chain(rows[e]) = {}

DeviceInv == TypeOK /\ IdleIsBlank /\ PhoneWaits /\ OneRowPerToken

-----------------------------------------------------------------------------
(* Facts.                                                                  *)

LEMMA RequestFacts ==
    ASSUME TypeOK, NEW r \in Requests
    PROVE  /\ requests[r] \in Request
           /\ requests[r].row \in Devices \cup {NoDevice}
           /\ requests[r].token \in Tokens \cup {NoToken}
           /\ requests[r].fresh \in Tokens \cup {NoToken}
           /\ requests[r].write \in Tokens \cup {NoToken}
           /\ requests[r].waiting \in BOOLEAN
<1>1. requests[r] \in Request
  BY DEF TypeOK
<1> QED BY <1>1 DEF Request

LEMMA RowFacts ==
    ASSUME TypeOK, NEW d \in Devices
    PROVE  /\ rows[d] \in Row
           /\ rows[d].token \in Tokens \cup {NoToken}
           /\ rows[d].previous \in Tokens \cup {NoToken}
           /\ rows[d].previous # NoToken => rows[d].previous # rows[d].token
           /\ rows[d].due \in BOOLEAN
<1>1. rows[d] \in Row
  BY DEF TypeOK
<1> QED BY <1>1 DEF Row

LEMMA IdleFacts ==
    /\ Idle \in Request
    /\ Idle.at = "idle" /\ ~Idle.waiting
    /\ Idle.token = NoToken /\ Idle.fresh = NoToken /\ Idle.write = NoToken
    /\ Idle.row = NoDevice /\ Idle.recent = 0
BY DEF Idle, Request

LEMMA NewRowFacts ==
    ASSUME NEW k \in Tokens \cup {NoToken}
    PROVE  /\ NewRow(k) = [token |-> k, previous |-> NoToken, grace |-> FALSE,
                           due |-> FALSE, expired |-> FALSE, revoked |-> FALSE]
           /\ NewRow(k) \in Row
           /\ Chain(NewRow(k)) = {k} \ {NoToken}
<1> DEFINE none == [token |-> NoToken, previous |-> NoToken, grace |-> FALSE,
                    due |-> FALSE, expired |-> FALSE, revoked |-> FALSE]
<1>1. NewRow(k) = [none EXCEPT !.token = k]
  BY DEF NewRow, NoRow
<1>2. NewRow(k) = [token |-> k, previous |-> NoToken, grace |-> FALSE,
                   due |-> FALSE, expired |-> FALSE, revoked |-> FALSE]
  BY <1>1
<1> QED BY <1>2 DEF Row, Chain

LEMMA NoRowFacts ==
    NoRow \in Row /\ NoRow.token = NoToken /\ NoRow.due = FALSE /\ Chain(NoRow) = {}
BY DEF NoRow, Row, Chain

\* The row that is rotated keeps the replaced token, and nothing else.
LEMMA RotatedFacts ==
    ASSUME NEW row \in Row, NEW token \in Tokens, token # row.token
    PROVE  /\ Rotated(row, token) \in Row
           /\ row.revoked => Rotated(row, token) = row
           /\ ~row.revoked => /\ Rotated(row, token).token = token
                              /\ Rotated(row, token).previous = row.token
                              /\ Rotated(row, token).grace = TRUE
                              /\ Rotated(row, token).due = FALSE
                              /\ Chain(Rotated(row, token)) = {token, row.token} \ {NoToken}
<1>1. CASE row.revoked
  BY <1>1 DEF Rotated
<1>2. CASE ~row.revoked
  <2> DEFINE next == [token |-> token, previous |-> row.token,
                      grace |-> TRUE, due |-> FALSE, expired |-> FALSE, revoked |-> FALSE]
             new  == [token |-> token, previous |-> NoToken, grace |-> FALSE,
                      due |-> FALSE, expired |-> FALSE, revoked |-> FALSE]
  <2>1. NewRow(token) = new
    BY NewRowFacts
  <2>2. Rotated(row, token) = [new EXCEPT !.previous = row.token, !.grace = TRUE]
    BY <1>2, <2>1 DEF Rotated
  <2>3. Rotated(row, token) = next
    BY <2>2
  <2>4. row.token \in Tokens \cup {NoToken}
    BY DEF Row
  <2>5. next \in Row
    BY <2>4 DEF Row
  <2> QED BY <1>2, <2>3, <2>5 DEF Chain
<1> QED BY <1>1, <1>2

\* What is known of a row is the row, or that nobody remembers it.
LEMMA KnownFacts ==
    ASSUME TypeOK
    PROVE  /\ KnownRows \in [Devices -> Row]
           /\ \A d \in Devices : IF Forgotten(d) THEN KnownRows[d] = NoRow
                                                 ELSE KnownRows[d] = rows[d]
           /\ \A d \in Devices : Chain(KnownRows[d]) \subseteq Chain(rows[d])
           /\ \A r \in Requests : requests[r].row \in Devices
                 => KnownRows[requests[r].row] = rows[requests[r].row]
<1>1. \A d \in Devices : rows[d] \in Row
  BY RowFacts
<1>2. \A d \in Devices : KnownRows[d] = IF Forgotten(d) THEN NoRow ELSE rows[d]
  BY DEF KnownRows
<1>3. KnownRows \in [Devices -> Row]
  BY <1>1, NoRowFacts DEF KnownRows
<1>4. \A r \in Requests : requests[r].row \in Devices => ~Forgotten(requests[r].row)
  BY DEF Forgotten
<1> QED BY <1>2, <1>3, <1>4, NoRowFacts

\* A token just minted is in nobody's hands and in no row's chain.
LEMMA FreshFacts ==
    ASSUME TypeOK, Tokens \ InUse # {}
    PROVE  /\ Fresh \in Tokens /\ Fresh # NoToken
           /\ Fresh \notin HeldByPhone
           /\ \A d \in Devices : Fresh \notin Chain(KnownRows[d])
<1>1. Fresh \in Tokens \ InUse
  BY DEF Fresh
<1>2. Fresh # NoToken
  BY <1>1, DeviceAssumption DEF Tokens, NoToken
<1> QED BY <1>1, <1>2 DEF InUse

\* A call starts with the token in memory, or with what the keystore is owed.
LEMMA CallFacts ==
    ASSUME TypeOK, NEW kind \in {"sync", "upload", "signIn"}, NEW owes \in BOOLEAN
    PROVE  /\ Call(kind, owes) \in Request
           /\ Call(kind, owes).at = IF owes THEN "flushing" ELSE "sent"
           /\ Call(kind, owes).write = IF owes THEN memory ELSE NoToken
           /\ Call(kind, owes).token = IF owes THEN NoToken ELSE memory
           /\ Call(kind, owes).fresh = NoToken
           /\ Call(kind, owes).rotates = FALSE
           /\ Call(kind, owes).waiting
<1> DEFINE recent == IF \E q \in Requests : requests[q].recent = 2 THEN 1 ELSE 0
           call == [at |-> IF owes THEN "flushing" ELSE "sent", kind |-> kind,
                    token |-> IF owes THEN NoToken ELSE memory, row |-> NoDevice,
                    rotates |-> FALSE, fresh |-> NoToken, answer |-> "none",
                    write |-> IF owes THEN memory ELSE NoToken,
                    waiting |-> TRUE, recent |-> recent]
<1>1. Call(kind, owes) = call
  BY DEF Call, Idle
<1>2. recent \in 0..2 /\ memory \in Tokens \cup {NoToken}
  BY DEF TypeOK
<1>3. call \in Request
  BY <1>2 DEF Request
<1> QED BY <1>1, <1>3

\* An answer goes to a phone that waits for it.
LEMMA AnswerFacts ==
    ASSUME TypeOK, NEW r \in Requests, NEW fresh \in Tokens \cup {NoToken},
           NEW answer \in {"none", "ok", "denied", "revoked", "failed"}
    PROVE  /\ Answer(r, answer, fresh) \in Request
           /\ ~requests[r].waiting => Answer(r, answer, fresh) = Idle
           /\ requests[r].waiting =>
                 /\ Answer(r, answer, fresh).at = "answered"
                 /\ Answer(r, answer, fresh).waiting
                 /\ Answer(r, answer, fresh).token = requests[r].token
                 /\ Answer(r, answer, fresh).write = requests[r].write
                 /\ Answer(r, answer, fresh).fresh = fresh
<1>1. requests[r] \in Request
  BY RequestFacts
<1>2. CASE ~requests[r].waiting
  BY <1>2, IdleFacts DEF Answer
<1>3. CASE requests[r].waiting
  BY <1>1, <1>3 DEF Answer, Request
<1> QED BY <1>2, <1>3
-----------------------------------------------------------------------------
(* DeviceInv is inductive.                                                 *)

LEMMA SlotChanges ==
    ASSUME DeviceInv, NEW r \in Requests, NEW x \in Request,
           requests' = [requests EXCEPT ![r] = x],
           x.at = "idle" => x = Idle,
           x.at \in {"flushing", "answered", "saving", "writing"} => x.waiting
    PROVE  /\ requests' \in [Requests -> Request]
           /\ IdleIsBlank' /\ PhoneWaits'
<1>1. requests \in [Requests -> Request]
  BY DEF DeviceInv, TypeOK
<1>2. requests'[r] = x /\ \A q \in Requests \ {r} : requests'[q] = requests[q]
  BY <1>1
<1>3. IdleIsBlank'
  BY <1>2 DEF DeviceInv, IdleIsBlank
<1>4. PhoneWaits'
  BY <1>2 DEF DeviceInv, PhoneWaits
<1> QED BY <1>1, <1>3, <1>4

\* A row that keeps its two tokens.
LEMMA RowChanges ==
    ASSUME DeviceInv, NEW d \in Devices, NEW x \in Row,
           x.token = rows[d].token, x.previous = rows[d].previous,
           rows' = [rows EXCEPT ![d] = x]
    PROVE  rows' \in [Devices -> Row] /\ OneRowPerToken'
<1>1. rows \in [Devices -> Row]
  BY DEF DeviceInv, TypeOK
<1>2. \A e \in Devices : rows'[e].token = rows[e].token /\ rows'[e].previous = rows[e].previous
  BY <1>1
<1>3. \A e \in Devices : Chain(rows'[e]) = Chain(rows[e])
  BY <1>2 DEF Chain
<1>4. OneRowPerToken'
  BY <1>3 DEF DeviceInv, OneRowPerToken
<1> QED BY <1>1, <1>4

\* A row that is given a new token, beside what it had.
LEMMA RowMinted ==
    ASSUME DeviceInv, Tokens \ InUse # {}, NEW d \in Devices, NEW x \in Row,
           Chain(x) \subseteq Chain(KnownRows[d]) \cup {Fresh},
           rows' = [KnownRows EXCEPT ![d] = x]
    PROVE  rows' \in [Devices -> Row] /\ OneRowPerToken'
<1> USE DEF DeviceInv
<1>1. KnownRows \in [Devices -> Row]
  BY KnownFacts
<1>2. rows'[d] = x /\ \A e \in Devices \ {d} : rows'[e] = KnownRows[e]
  BY <1>1
<1>3. \A e \in Devices : Fresh \notin Chain(KnownRows[e])
  BY FreshFacts
<1>4. \A e, f \in Devices : e # f => Chain(KnownRows[e]) \cap Chain(KnownRows[f]) = {}
  BY KnownFacts DEF OneRowPerToken
<1>5. OneRowPerToken'
  BY <1>2, <1>3, <1>4 DEF OneRowPerToken
<1> QED BY <1>1, <1>5

LEMMA PhoneFacts ==
    ASSUME TypeOK
    PROVE  /\ signedIn \in Phone /\ Refused \in Phone
           /\ [phone EXCEPT !.pullOwed = FALSE] \in Phone
           /\ [phone EXCEPT !.registered = TRUE] \in Phone
<1>1. phone \in Phone
  BY DEF TypeOK
<1> QED BY <1>1 DEF signedIn, Refused, Phone

LEMMA FaultFacts ==
    ASSUME faults \in 0..MaxFaults, Fault
    PROVE  faults' \in 0..MaxFaults
BY DeviceAssumption DEF Fault

LEMMA BesideFacts ==
    ASSUME TypeOK, Beside
    PROVE  faults' \in 0..MaxFaults
BY FaultFacts DEF Beside, TypeOK

LEMMA KeystoreFacts ==
    ASSUME TypeOK, NEW write \in Tokens \cup {NoToken}, NEW ok \in BOOLEAN,
           Keystore(write, ok)
    PROVE  /\ stored' \in Tokens \cup {NoToken}
           /\ owed' \in BOOLEAN
           /\ faults' \in 0..MaxFaults
<1>1. faults \in 0..MaxFaults
  BY DEF TypeOK
<1>2. faults' \in 0..MaxFaults
  BY <1>1, FaultFacts DEF Keystore
<1> QED BY <1>2 DEF Keystore, TypeOK

LEMMA CallStep ==
    ASSUME DeviceInv, NEW r \in Requests, SyncCall(r) \/ UploadCall(r)
    PROVE  DeviceInv'
<1> USE DEF DeviceInv
<1>1. owed \in BOOLEAN
  BY DEF TypeOK
<1>2. PICK kind \in {"sync", "upload"} : requests' = [requests EXCEPT ![r] = Call(kind, owed)]
  BY DEF SyncCall, UploadCall
<1>3. /\ Call(kind, owed) \in Request /\ Call(kind, owed).waiting
      /\ Call(kind, owed).at # "idle"
  BY <1>1, CallFacts
<1>4. requests' \in [Requests -> Request] /\ IdleIsBlank' /\ PhoneWaits'
  BY <1>2, <1>3, SlotChanges
<1>5. /\ phone' \in Phone /\ faults' \in 0..MaxFaults
      /\ UNCHANGED <<rows, memory, stored, owed>>
  BY PhoneFacts, BesideFacts DEF SyncCall, UploadCall, TypeOK
<1>6. TypeOK'
  BY <1>4, <1>5 DEF TypeOK
<1> QED BY <1>4, <1>5, <1>6 DEF OneRowPerToken

LEMMA FlushedStep ==
    ASSUME DeviceInv, NEW r \in Requests, NEW ok \in BOOLEAN, Flushed(r, ok)
    PROVE  DeviceInv'
<1> USE DEF DeviceInv
<1> DEFINE x == [requests[r] EXCEPT
               !.write = NoToken,
               !.at = IF requests[r].fresh # NoToken THEN "saving" ELSE "sent",
               !.token = IF requests[r].fresh # NoToken THEN requests[r].token ELSE memory]
<1>1. requests[r] \in Request /\ requests[r].waiting /\ requests \in [Requests -> Request]
  BY RequestFacts DEF Flushed, PhoneWaits, TypeOK
<1>2. memory \in Tokens \cup {NoToken}
  BY DEF TypeOK
<1>3. x \in Request /\ x.waiting /\ x.at # "idle"
  BY <1>1, <1>2 DEF Request
<1>4. requests' = [requests EXCEPT ![r] = x]
  BY <1>1 DEF Flushed
<1>5. requests' \in [Requests -> Request] /\ IdleIsBlank' /\ PhoneWaits'
  BY <1>3, <1>4, SlotChanges
<1>6. stored' \in Tokens \cup {NoToken} /\ owed' \in BOOLEAN /\ faults' \in 0..MaxFaults
  BY RequestFacts, KeystoreFacts DEF Flushed
<1>7. UNCHANGED <<rows, memory, phone>>
  BY DEF Flushed
<1>8. TypeOK'
  BY <1>5, <1>6, <1>7 DEF TypeOK
<1> QED BY <1>5, <1>7, <1>8 DEF OneRowPerToken

LEMMA ResolveStep ==
    ASSUME DeviceInv, NEW r \in Requests, Resolve(r)
    PROVE  DeviceInv'
<1> USE DEF DeviceInv
<1> DEFINE live(d) == ~rows[d].revoked /\ requests[r].token \in Chain(rows[d])
           d == CHOOSE e \in Devices : live(e)
           at == IF rows[d].grace THEN "admitted" ELSE "reused"
           admitted == [requests[r] EXCEPT !.at = "admitted", !.row = d,
                                           !.rotates = rows[d].due]
           replaced == [requests[r] EXCEPT !.at = at, !.row = d]
           denied == Answer(r, "denied", NoToken)
<1>1. requests[r] \in Request
  BY RequestFacts
<1>2. denied \in Request /\ (denied.at = "idle" => denied = Idle)
      /\ (denied.at = "answered" => denied.waiting)
      /\ denied.at \in {"idle", "answered"}
  BY AnswerFacts, IdleFacts DEF TypeOK
<1>3. PICK x : /\ requests' = [requests EXCEPT ![r] = x]
               /\ \/ x = denied
                  \/ d \in Devices /\ x \in {admitted, replaced}
  <2>1. CASE \E e \in Devices : live(e)
    <3>1. d \in Devices
      BY <2>1
    <3> QED BY <2>1, <3>1 DEF Resolve
  <2>2. CASE ~\E e \in Devices : live(e)
    BY <2>2 DEF Resolve
  <2> QED BY <2>1, <2>2
<1>4. ASSUME d \in Devices PROVE admitted \in Request /\ admitted.at = "admitted"
                                /\ replaced \in Request /\ replaced.at \in {"admitted", "reused"}
  <2>1. rows[d].due \in BOOLEAN
    BY <1>4, RowFacts
  <2> HIDE DEF d
  <2> QED BY <1>1, <1>4, <2>1 DEF Request
<1>5. /\ x \in Request /\ (x.at = "idle" => x = Idle)
      /\ (x.at \in {"flushing", "answered", "saving", "writing"} => x.waiting)
  <2> HIDE DEF denied, admitted, replaced, d
  <2> QED BY <1>2, <1>3, <1>4
<1>6. requests' \in [Requests -> Request] /\ IdleIsBlank' /\ PhoneWaits'
  BY <1>3, <1>5, SlotChanges
<1>7. UNCHANGED <<rows, memory, stored, owed, phone, faults>>
  BY DEF Resolve
<1> QED BY <1>6, <1>7 DEF TypeOK, OneRowPerToken

\* An answer that rotates nothing, or a slot that is freed.
LEMMA AnswerStep ==
    ASSUME DeviceInv, NEW r \in Requests,
           NEW answer \in {"none", "ok", "denied", "revoked", "failed"},
           requests' = [requests EXCEPT ![r] = Answer(r, answer, NoToken)]
    PROVE  requests' \in [Requests -> Request] /\ IdleIsBlank' /\ PhoneWaits'
<1> DEFINE x == Answer(r, answer, NoToken)
<1>1. /\ x \in Request /\ (x.at = "idle" => x = Idle)
      /\ (x.at \in {"flushing", "answered", "saving", "writing"} => x.waiting)
  BY AnswerFacts, IdleFacts DEF DeviceInv, TypeOK
<1> HIDE DEF x
<1> QED BY <1>1, SlotChanges DEF x

LEMMA IdleStep ==
    ASSUME DeviceInv, NEW r \in Requests, requests' = [requests EXCEPT ![r] = Idle]
    PROVE  requests' \in [Requests -> Request] /\ IdleIsBlank' /\ PhoneWaits'
BY IdleFacts, SlotChanges

\* A request that is marked `recent` is otherwise the same.
Marked(x) == [x EXCEPT !.recent = IF x.at = "idle" THEN 0 ELSE 2]

SameBut(x, y) ==
    /\ y.at = x.at /\ y.row = x.row /\ y.rotates = x.rotates /\ y.waiting = x.waiting
    /\ y.token = x.token /\ y.fresh = x.fresh /\ y.write = x.write
    /\ y.kind = x.kind /\ y.answer = x.answer

LEMMA MarkedFacts ==
    ASSUME NEW x \in Request
    PROVE  /\ Marked(x) \in Request
           /\ SameBut(x, Marked(x))
           /\ x.at # "idle" => Marked(x).recent = 2
           /\ x = Idle => Marked(x) = Idle
<1> DEFINE n == IF x.at = "idle" THEN 0 ELSE 2
           y == [x EXCEPT !.recent = n]
<1>1. n \in 0..2 /\ Marked(x) = y
  BY DEF Marked
<1>2. x.at # "idle" => n = 2
  OBVIOUS
<1>3. x = Idle => n = x.recent
  BY IdleFacts
<1> HIDE DEF n
<1>4. y \in Request /\ SameBut(x, y) /\ y.recent = n /\ (n = x.recent => y = x)
  BY <1>1 DEF Request, SameBut
<1> QED BY <1>1, <1>2, <1>3, <1>4

\* What Commit makes of the requests when it rotates.
LEMMA RotationFacts ==
    ASSUME DeviceInv, NEW r \in Requests, Commit(r), requests[r].rotates
    PROVE  /\ requests' \in [Requests -> Request]
           /\ IdleIsBlank' /\ PhoneWaits'
           /\ \A q \in Requests \ {r} : SameBut(requests[q], requests'[q])
           /\ SameBut(Answer(r, "ok", Fresh), requests'[r])
           /\ \A q \in Requests : requests'[q].at # "idle" => requests'[q].recent = 2
<1> DEFINE answered == Answer(r, "ok", Fresh)
           y == [requests EXCEPT ![r] = answered]
<1>1. requests \in [Requests -> Request]
  BY DEF DeviceInv, TypeOK
<1>2. Fresh \in Tokens
  BY FreshFacts DEF DeviceInv, Commit
<1>3. /\ answered \in Request
      /\ ~requests[r].waiting => answered = Idle
      /\ requests[r].waiting => answered.at = "answered" /\ answered.waiting
  BY <1>2, AnswerFacts DEF DeviceInv
<1>4. /\ y \in [Requests -> Request] /\ y[r] = answered
      /\ \A q \in Requests \ {r} : y[q] = requests[q]
  <2> HIDE DEF answered
  <2> QED BY <1>1, <1>3
<1>5. requests' = [q \in Requests |-> Marked(y[q])]
  BY <1>1 DEF Commit, Marked
<1> HIDE DEF y, answered
<1>6. \A q \in Requests :
         /\ requests'[q] \in Request
         /\ SameBut(y[q], requests'[q])
         /\ requests'[q].at # "idle" => requests'[q].recent = 2
         /\ y[q] = Idle => requests'[q] = Idle
  BY <1>4, <1>5, MarkedFacts DEF SameBut
<1>7. requests' \in [Requests -> Request]
  BY <1>4, <1>5, MarkedFacts
<1>8. \A q \in Requests : /\ y[q].at = "idle" => y[q] = Idle
                          /\ y[q].at \in {"flushing", "answered", "saving", "writing"}
                                => y[q].waiting
  BY <1>3, <1>4, IdleFacts DEF DeviceInv, IdleIsBlank, PhoneWaits
<1>9. IdleIsBlank' /\ PhoneWaits'
  BY <1>6, <1>8 DEF IdleIsBlank, PhoneWaits, SameBut
<1> QED BY <1>4, <1>6, <1>7, <1>9 DEF answered

LEMMA CommitStep ==
    ASSUME DeviceInv, NEW r \in Requests, Commit(r)
    PROVE  DeviceInv'
<1> USE DEF DeviceInv
<1> DEFINE d == requests[r].row
<1>1. UNCHANGED <<memory, stored, owed, phone, faults>>
  BY DEF Commit
<1>2. CASE requests[r].rotates
  <2>1. /\ Tokens \ InUse # {}
        /\ rows' = [KnownRows EXCEPT ![d] = Rotated(KnownRows[d], Fresh)]
    BY <1>2 DEF Commit
  <2>2. requests' \in [Requests -> Request] /\ IdleIsBlank' /\ PhoneWaits'
    BY <1>2, RotationFacts
  <2>3. rows' \in [Devices -> Row] /\ OneRowPerToken'
    <3>1. KnownRows \in [Devices -> Row]
      BY KnownFacts
    <3>2. CASE d \in Devices
      <4>1. KnownRows[d] \in Row /\ Fresh \in Tokens /\ Fresh # NoToken
            /\ Fresh \notin Chain(KnownRows[d])
        BY <2>1, <3>1, <3>2, FreshFacts
      <4>2. Fresh # KnownRows[d].token
        BY <4>1 DEF Chain
      <4> DEFINE x == Rotated(KnownRows[d], Fresh)
      <4>3. /\ x \in Row
            /\ x = KnownRows[d] \/ Chain(x) = {Fresh, KnownRows[d].token} \ {NoToken}
        BY <4>1, <4>2, RotatedFacts
      <4>4. Chain(x) \subseteq Chain(KnownRows[d]) \cup {Fresh}
        <5> HIDE DEF x
        <5> QED BY <4>3 DEF Chain
      <4> QED BY <2>1, <3>2, <4>3, <4>4, RowMinted
    <3>3. CASE d \notin Devices
      <4>1. rows' = KnownRows
        BY <2>1, <3>1, <3>3
      <4> QED BY <3>1, <4>1, KnownFacts DEF OneRowPerToken
    <3> QED BY <3>2, <3>3
  <2> QED BY <1>1, <2>2, <2>3 DEF TypeOK
<1>3. CASE ~requests[r].rotates
  <2>1. requests' \in [Requests -> Request] /\ IdleIsBlank' /\ PhoneWaits' /\ UNCHANGED rows
    BY <1>3, AnswerStep DEF Commit
  <2> QED BY <1>1, <2>1 DEF TypeOK, OneRowPerToken
<1> QED BY <1>2, <1>3

LEMMA FailStep ==
    ASSUME DeviceInv, NEW r \in Requests, Fail(r)
    PROVE  DeviceInv'
<1>1. requests' \in [Requests -> Request] /\ IdleIsBlank' /\ PhoneWaits'
  BY AnswerStep DEF Fail
<1>2. faults' \in 0..MaxFaults /\ UNCHANGED <<rows, memory, stored, owed, phone>>
  BY FaultFacts DEF Fail, DeviceInv, TypeOK
<1> QED BY <1>1, <1>2 DEF DeviceInv, TypeOK, OneRowPerToken

LEMMA RevokeReusedStep ==
    ASSUME DeviceInv, NEW r \in Requests, RevokeReused(r)
    PROVE  DeviceInv'
<1> DEFINE d == requests[r].row
<1>1. requests' \in [Requests -> Request] /\ IdleIsBlank' /\ PhoneWaits'
  BY AnswerStep DEF RevokeReused
<1>2. rows' = [rows EXCEPT ![d] = [rows[d] EXCEPT !.revoked = TRUE]]
      /\ UNCHANGED <<memory, stored, owed, phone, faults>>
  BY DEF RevokeReused
<1>3. rows' \in [Devices -> Row] /\ OneRowPerToken'
  <2>1. CASE d \in Devices
    <3> DEFINE x == [rows[d] EXCEPT !.revoked = TRUE]
    <3>1. x \in Row /\ x.token = rows[d].token /\ x.previous = rows[d].previous
      BY <2>1, RowFacts DEF DeviceInv, Row
    <3> QED BY <1>2, <2>1, <3>1, RowChanges
  <2>2. CASE d \notin Devices
    <3>1. rows' = rows
      BY <1>2, <2>2 DEF DeviceInv, TypeOK
    <3> QED BY <3>1 DEF DeviceInv, TypeOK, OneRowPerToken
  <2> QED BY <2>1, <2>2
<1> QED BY <1>1, <1>2, <1>3 DEF DeviceInv, TypeOK

\* The office's screen and the clock change what a row says of its times.
LEMMA RowStep ==
    ASSUME DeviceInv, NEW d \in Devices,
           RevokeDevice(d) \/ GraceEnds(d) \/ ComesDue(d) \/ Expires(d)
    PROVE  DeviceInv'
<1>1. UNCHANGED <<memory, stored, owed, phone, requests>> /\ faults' \in 0..MaxFaults
  BY FaultFacts DEF RevokeDevice, GraceEnds, ComesDue, Expires, DeviceInv, TypeOK
<1>2. rows[d] \in Row
  BY RowFacts DEF DeviceInv
<1>3. PICK x \in Row : /\ x.token = rows[d].token /\ x.previous = rows[d].previous
                       /\ rows' = [rows EXCEPT ![d] = x]
  <2>1. CASE RevokeDevice(d)
    <3> DEFINE x == [rows[d] EXCEPT !.revoked = TRUE]
    <3>1. x \in Row /\ x.token = rows[d].token /\ x.previous = rows[d].previous
      BY <1>2 DEF Row
    <3> QED BY <2>1, <3>1 DEF RevokeDevice
  <2>2. CASE GraceEnds(d)
    <3> DEFINE x == [rows[d] EXCEPT !.grace = FALSE]
    <3>1. x \in Row /\ x.token = rows[d].token /\ x.previous = rows[d].previous
      BY <1>2 DEF Row
    <3> QED BY <2>2, <3>1 DEF GraceEnds
  <2>3. CASE ComesDue(d)
    <3> DEFINE x == [rows[d] EXCEPT !.due = TRUE]
    <3>1. x \in Row /\ x.token = rows[d].token /\ x.previous = rows[d].previous
      BY <1>2 DEF Row
    <3> QED BY <2>3, <3>1 DEF ComesDue
  <2>4. CASE Expires(d)
    <3> DEFINE x == [rows[d] EXCEPT !.expired = TRUE]
    <3>1. x \in Row /\ x.token = rows[d].token /\ x.previous = rows[d].previous
      BY <1>2 DEF Row
    <3> QED BY <2>4, <3>1 DEF Expires
  <2> QED BY <2>1, <2>2, <2>3, <2>4
<1>4. rows' \in [Devices -> Row] /\ OneRowPerToken'
  BY <1>3, RowChanges
<1> QED BY <1>1, <1>4 DEF DeviceInv, TypeOK, IdleIsBlank, PhoneWaits

LEMMA DeliverStep ==
    ASSUME DeviceInv, NEW r \in Requests, Deliver(r)
    PROVE  DeviceInv'
<1> USE DEF DeviceInv
<1> DEFINE kept    == [requests[r] EXCEPT
                          !.at = IF owed THEN "flushing" ELSE "saving",
                          !.write = IF owed THEN memory ELSE NoToken]
           cleared == [requests[r] EXCEPT !.at = "writing", !.write = NoToken]
<1>1. /\ requests[r] \in Request /\ requests[r].waiting
      /\ requests \in [Requests -> Request]
  BY RequestFacts DEF Deliver, PhoneWaits, TypeOK
<1>2. memory \in Tokens \cup {NoToken} /\ owed \in BOOLEAN
  BY DEF TypeOK
<1>3. kept \in Request /\ kept.waiting /\ kept.at # "idle"
  BY <1>1, <1>2 DEF Request
<1>4. cleared \in Request /\ cleared.waiting /\ cleared.at # "idle"
  BY <1>1 DEF Request
<1>5. PICK x \in {Idle, kept, cleared} : requests' = [requests EXCEPT ![r] = x]
  BY <1>1 DEF Deliver
<1>6. requests' \in [Requests -> Request] /\ IdleIsBlank' /\ PhoneWaits'
  <2> HIDE DEF kept, cleared
  <2>1. x \in Request /\ (x = Idle \/ (x.waiting /\ x.at # "idle"))
    BY <1>3, <1>4, IdleFacts
  <2> QED BY <1>5, <2>1, IdleFacts, SlotChanges
<1>7. /\ memory' \in Tokens \cup {NoToken} /\ owed' \in BOOLEAN /\ phone' \in Phone
      /\ UNCHANGED <<rows, stored, faults>>
  BY <1>2, PhoneFacts DEF Deliver, TypeOK
<1> QED BY <1>6, <1>7 DEF TypeOK, OneRowPerToken

LEMMA SaveStep ==
    ASSUME DeviceInv, NEW r \in Requests, Save(r)
    PROVE  DeviceInv'
<1> USE DEF DeviceInv
<1> DEFINE x == [requests[r] EXCEPT !.at = "writing", !.write = requests[r].fresh]
<1>1. requests[r] \in Request /\ requests[r].waiting /\ requests[r].fresh \in Tokens \cup {NoToken}
  BY RequestFacts DEF Save, PhoneWaits
<1>2. x \in Request /\ x.waiting /\ x.at # "idle"
  BY <1>1 DEF Request
<1>3. \/ requests' = [requests EXCEPT ![r] = Idle]
      \/ requests' = [requests EXCEPT ![r] = x]
  BY DEF Save, TypeOK
<1>4. requests' \in [Requests -> Request] /\ IdleIsBlank' /\ PhoneWaits'
  <2> HIDE DEF x
  <2> QED BY <1>2, <1>3, IdleFacts, SlotChanges
<1>5. /\ memory' \in Tokens \cup {NoToken} /\ owed' \in BOOLEAN
      /\ UNCHANGED <<rows, stored, phone, faults>>
  BY <1>1 DEF Save, TypeOK
<1> QED BY <1>4, <1>5 DEF TypeOK, OneRowPerToken

LEMMA WrittenStep ==
    ASSUME DeviceInv, NEW r \in Requests, NEW ok \in BOOLEAN, Written(r, ok)
    PROVE  DeviceInv'
<1> USE DEF DeviceInv
<1> DEFINE call == Call("sync", FALSE)
<1>1. call \in Request /\ call.waiting /\ call.at # "idle"
  BY CallFacts
<1>2. PICK x \in {Idle, call} : requests' = [requests EXCEPT ![r] = x]
  BY DEF Written
<1>3. requests' \in [Requests -> Request] /\ IdleIsBlank' /\ PhoneWaits'
  <2> HIDE DEF call
  <2> QED BY <1>1, <1>2, IdleFacts, SlotChanges
<1>4. stored' \in Tokens \cup {NoToken} /\ owed' \in BOOLEAN /\ faults' \in 0..MaxFaults
  BY RequestFacts, KeystoreFacts DEF Written
<1>5. phone' \in Phone /\ UNCHANGED <<rows, memory>>
  <2>1. phone \in Phone
    BY DEF TypeOK
  <2> QED BY <2>1, PhoneFacts DEF Written
<1> QED BY <1>3, <1>4, <1>5 DEF TypeOK, OneRowPerToken

LEMMA SignInStep ==
    ASSUME DeviceInv, NEW r \in Requests, SignIn(r)
    PROVE  DeviceInv'
<1> USE DEF DeviceInv
<1> DEFINE d == CHOOSE e \in Devices : Forgotten(e)
           x == [Idle EXCEPT !.at = "writing", !.kind = "signIn", !.answer = "ok",
                             !.write = Fresh, !.waiting = TRUE]
<1>1. d \in Devices /\ Tokens \ InUse # {}
  BY DEF SignIn
<1>2. Fresh \in Tokens
  BY <1>1, FreshFacts
<1>3. rows' \in [Devices -> Row] /\ OneRowPerToken'
  <2>1. rows' = [KnownRows EXCEPT ![d] = NewRow(Fresh)]
    BY DEF SignIn
  <2>2. NewRow(Fresh) \in Row /\ Chain(NewRow(Fresh)) = {Fresh} \ {NoToken}
    BY <1>2, NewRowFacts
  <2> HIDE DEF d
  <2> QED BY <1>1, <2>1, <2>2, RowMinted
<1>4. requests' = [requests EXCEPT ![r] = x]
  BY DEF SignIn
<1>5. x \in Request /\ x.waiting /\ x.at # "idle"
  BY <1>2, IdleFacts DEF Request
<1>6. requests' \in [Requests -> Request] /\ IdleIsBlank' /\ PhoneWaits'
  <2> HIDE DEF x
  <2> QED BY <1>4, <1>5, SlotChanges
<1>7. /\ memory' \in Tokens \cup {NoToken} /\ owed' \in BOOLEAN /\ faults' \in 0..MaxFaults
      /\ UNCHANGED <<stored, phone>>
  BY <1>2, BesideFacts DEF SignIn
<1> QED BY <1>3, <1>6, <1>7 DEF TypeOK

\* A call the phone stops waiting for goes on in the office.
LEMMA GivenUp ==
    ASSUME TypeOK, NEW r \in Requests
    PROVE  LET x == [requests[r] EXCEPT !.waiting = FALSE] IN
           /\ x \in Request
           /\ x.at = requests[r].at /\ x.row = requests[r].row /\ ~x.waiting
           /\ x.rotates = requests[r].rotates /\ x.token = requests[r].token
           /\ x.fresh = requests[r].fresh /\ x.write = requests[r].write
<1>1. requests[r] \in Request /\ 0 \in 0..2
  BY RequestFacts
<1> QED BY <1>1 DEF Request

LEMMA GiveUpStep ==
    ASSUME DeviceInv, NEW r \in Requests, GiveUp(r) \/ LoseRequest(r)
    PROVE  DeviceInv'
<1> USE DEF DeviceInv
<1> DEFINE x == [requests[r] EXCEPT !.waiting = FALSE]
<1>1. requests' \in [Requests -> Request] /\ IdleIsBlank' /\ PhoneWaits'
  <2>1. CASE requests' = [requests EXCEPT ![r] = Idle]
    BY <2>1, IdleStep
  <2>2. CASE GiveUp(r) /\ requests[r].at # "answered"
    <3>1. requests' = [requests EXCEPT ![r] = x] /\ x.at \in {"sent", "admitted", "reused"}
      BY <2>2, GivenUp DEF GiveUp, TypeOK
    <3>2. x \in Request
      BY GivenUp
    <3> HIDE DEF x
    <3> QED BY <3>1, <3>2, SlotChanges
  <2> QED BY <2>1, <2>2 DEF GiveUp, LoseRequest, TypeOK
<1>2. faults' \in 0..MaxFaults /\ UNCHANGED <<rows, memory, stored, owed, phone>>
  BY FaultFacts DEF GiveUp, LoseRequest, TypeOK
<1> QED BY <1>1, <1>2 DEF TypeOK, OneRowPerToken

LEMMA RestartStep ==
    ASSUME DeviceInv, Restart
    PROVE  DeviceInv'
<1> USE DEF DeviceInv
<1>1. \A r \in Requests :
         /\ requests'[r] \in Request
         /\ requests'[r].at = "idle" => requests'[r] = Idle
         /\ requests'[r].at \notin {"flushing", "answered", "saving", "writing"}
  BY GivenUp, IdleFacts DEF Restart
<1>2. requests' \in [Requests -> Request]
  <2>1. requests' = [r \in Requests |-> requests'[r]]
    BY DEF Restart
  <2> QED BY <1>1, <2>1
<1>3. IdleIsBlank' /\ PhoneWaits'
  BY <1>1 DEF IdleIsBlank, PhoneWaits
<1>4. /\ memory' \in Tokens \cup {NoToken} /\ owed' \in BOOLEAN /\ phone' \in Phone
      /\ faults' \in 0..MaxFaults /\ UNCHANGED <<rows, stored>>
  BY FaultFacts DEF Restart, TypeOK, Phone
<1> QED BY <1>2, <1>3, <1>4 DEF TypeOK, OneRowPerToken

LEMMA InitStep == Init => DeviceInv
<1> SUFFICES ASSUME Init PROVE DeviceInv
  OBVIOUS
<1> DEFINE none == [d \in Devices |-> NoRow]
           first == CHOOSE d \in Devices : TRUE
<1>1. 1 \in Tokens
  BY DeviceAssumption DEF Tokens
<1>2. NewRow(1) \in Row /\ Chain(NewRow(1)) = {1} \ {NoToken} /\ NoRow \in Row /\ Chain(NoRow) = {}
  BY <1>1, NewRowFacts, NoRowFacts
<1>3. rows = [none EXCEPT ![first] = NewRow(1)]
  BY DEF Init
<1>4. /\ rows \in [Devices -> Row]
      /\ \A d \in Devices : rows[d] = IF d = first THEN NewRow(1) ELSE NoRow
  <2> HIDE DEF first
  <2> QED BY <1>2, <1>3
<1>5. OneRowPerToken
  <2> HIDE DEF first
  <2> QED BY <1>2, <1>4 DEF OneRowPerToken
<1>6. IdleIsBlank /\ PhoneWaits /\ requests \in [Requests -> Request]
  BY IdleFacts DEF Init, IdleIsBlank, PhoneWaits
<1>7. phone \in Phone /\ owed \in BOOLEAN /\ faults \in 0..MaxFaults
  <2>1. faults \in 0..MaxFaults
    BY DeviceAssumption DEF Init
  <2> QED BY <2>1 DEF Init, Phone
<1>8. memory \in Tokens \cup {NoToken} /\ stored \in Tokens \cup {NoToken}
  BY <1>1 DEF Init
<1> QED BY <1>4, <1>5, <1>6, <1>7, <1>8 DEF DeviceInv, TypeOK

LEMMA NextStep == DeviceInv /\ [Next]_vars => DeviceInv'
<1> SUFFICES ASSUME DeviceInv, [Next]_vars PROVE DeviceInv'
  OBVIOUS
<1>1. ASSUME NEW r \in Requests, SyncCall(r) \/ UploadCall(r) PROVE DeviceInv'
  BY <1>1, CallStep
<1>2. ASSUME NEW r \in Requests, PhoneWorks(r) PROVE DeviceInv'
  BY <1>2, DeliverStep, SaveStep, FlushedStep, WrittenStep DEF PhoneWorks
<1>3. ASSUME NEW r \in Requests, OfficeWorks(r) PROVE DeviceInv'
  BY <1>3, ResolveStep, CommitStep, RevokeReusedStep, FailStep DEF OfficeWorks
<1>4. ASSUME NEW r \in Requests, SignIn(r) \/ GiveUp(r) \/ LoseRequest(r) PROVE DeviceInv'
  BY <1>4, SignInStep, GiveUpStep
<1>5. ASSUME NEW d \in Devices, RevokeDevice(d) \/ GraceEnds(d) \/ ComesDue(d) \/ Expires(d)
      PROVE  DeviceInv'
  BY <1>5, RowStep
<1>6. CASE Restart
  BY <1>6, RestartStep
<1>7. CASE UNCHANGED vars
  BY <1>7 DEF vars, DeviceInv, TypeOK, IdleIsBlank, PhoneWaits, OneRowPerToken
<1> QED BY <1>1, <1>2, <1>3, <1>4, <1>5, <1>6, <1>7 DEF Next

\* DeviceInv holds in every reachable state, however many calls overlap, are given
\* up or lose their answers: besides the types, that a token is in one row only
\* (app_auth_resolve_device finds one row or none) and that nobody works on a call
\* the phone has given up.
THEOREM Invariance == Spec => []DeviceInv
BY InitStep, NextStep, PTL DEF Spec

\* Rows, tokens, the gate and calls keep their types; a rotation leaves the row
\* with two different tokens (rotateFieldDeviceToken).
THEOREM TypeCorrect == Spec => []TypeOK
<1>1. DeviceInv => TypeOK
  BY DEF DeviceInv
<1> QED BY <1>1, Invariance, PTL

-----------------------------------------------------------------------------
(* The honest phone is no thief: HonestInv is inductive beside DeviceInv.     *)

\* The phone has a use for the token: it holds it, or waits for a call that has it.
Live == {"sent", "admitted", "reused"}

Early == Live \cup {"flushing"}

Presents(t) ==
    \/ memory = t
    \/ \E r \in Requests : /\ requests[r].waiting /\ requests[r].at \in Live
                           /\ requests[r].token = t

\* A token on its way to the phone is recent, and so is what is asked beside it.
FreshIsRecent ==
    \A q \in Requests : requests[q].fresh # NoToken => requests[q].recent = 2

FreshInGrace ==
    \A q \in Requests, d \in Devices :
        requests[q].fresh # NoToken /\ requests[q].fresh = rows[d].token => rows[d].grace

OpenBesideFresh ==
    \A q, r \in Requests :
        requests[q].fresh # NoToken /\ requests[r].at \in Early => requests[r].recent # 0

\* Who still asks with a replaced token whose grace has ended, or might, does not hold
\* the token that replaced it.
BehindOrCovered ==
    \A r \in Requests, d \in Devices :
        /\ requests[r].waiting /\ requests[r].at \in Live
        /\ requests[r].token # NoToken /\ requests[r].token = rows[d].previous
        /\ ~rows[d].grace \/ requests[r].recent = 0
        => memory # rows[d].token

\* Of a row that is due no token is under way, and the phone uses one of its two.
DueIsSettled ==
    \A d \in Devices : rows[d].due =>
        /\ ~rows[d].grace
        /\ \A q \in Requests : requests[q].fresh \notin Chain(rows[d])
        /\ \A s, t \in Chain(rows[d]) : Presents(s) /\ Presents(t) => s = t

RotatesDue ==
    \A q \in Requests : requests[q].rotates =>
        /\ requests[q].at = "admitted" /\ requests[q].row \in Devices
        /\ \/ rows[requests[q].row].due
           \/ rows[requests[q].row].grace /\ requests[q].recent = 2
        /\ rows[requests[q].row].due => requests[q].token = rows[requests[q].row].token

ReusedReplaced ==
    \A r \in Requests : requests[r].at = "reused" =>
        /\ requests[r].row \in Devices
        /\ rows[requests[r].row].due =>
              requests[r].token # NoToken /\ requests[r].token = rows[requests[r].row].previous

\* Of two calls the phone waits for, one does not rotate the row the other is to revoke.
NotBoth ==
    \A q, r \in Requests :
        /\ requests[q].rotates /\ requests[q].waiting
        /\ requests[r].at = "reused" /\ requests[r].waiting
        => requests[q].row # requests[r].row

RowsHaveTokens ==
    /\ \A d \in Devices : rows[d].previous # NoToken => rows[d].token # NoToken
    /\ \A r \in Requests : requests[r].row \in Devices => rows[requests[r].row].token # NoToken

ReusedIsBehind ==
    \A r \in Requests : requests[r].at = "reused" /\ requests[r].waiting =>
        /\ memory # rows[requests[r].row].token
        /\ \A q \in Requests : requests[q].fresh # rows[requests[r].row].token

HonestInv ==
    /\ FreshIsRecent /\ FreshInGrace /\ OpenBesideFresh
    /\ BehindOrCovered /\ DueIsSettled
    /\ RotatesDue /\ ReusedReplaced /\ NotBoth
    /\ RowsHaveTokens /\ ReusedIsBehind

\* The rows keep their tokens, and what matters of their times.
RowsStay ==
    \A d \in Devices :
        /\ rows'[d].token = rows[d].token /\ rows'[d].previous = rows[d].previous
        /\ rows'[d].grace = rows[d].grace /\ rows'[d].due = rows[d].due

LEMMA ChainFacts ==
    ASSUME TypeOK, NEW d \in Devices, RowsStay
    PROVE  Chain(rows'[d]) = Chain(rows[d])
BY DEF RowsStay, Chain

\* One call goes a step, and learns nothing but what it brings.
LEMMA QuietStep ==
    ASSUME DeviceInv, HonestInv, RowsStay,
           NEW r \in Requests, NEW x \in Request, requests' = [requests EXCEPT ![r] = x],
           x.rotates => /\ requests[r].rotates /\ x.at = requests[r].at
                        /\ x.row = requests[r].row /\ x.token = requests[r].token
                        /\ x.recent = requests[r].recent /\ (x.waiting => requests[r].waiting),
           x.at = "reused" => /\ requests[r].at = "reused" /\ x.row = requests[r].row
                              /\ x.token = requests[r].token
                              /\ (x.waiting => requests[r].waiting),
           x.row \in {requests[r].row, NoDevice},
           x.fresh # NoToken => x.fresh = requests[r].fresh /\ x.recent = requests[r].recent,
           x.waiting /\ x.at \in Live =>
               \/ x.token = memory /\ memory' = memory
               \/ /\ requests[r].waiting /\ requests[r].at \in Live
                  /\ x.token = requests[r].token /\ x.recent = requests[r].recent,
           x.at \in Early =>
               \/ requests[r].at \in Early /\ x.recent = requests[r].recent
               \/ x.recent # 0
               \/ \A q \in Requests : requests[q].fresh = NoToken,
           memory' \in {memory, NoToken, requests[r].fresh}
    PROVE  HonestInv'
<1>1. requests'[r] = x /\ \A q \in Requests : q # r => requests'[q] = requests[q]
  BY DEF DeviceInv, TypeOK
<1>2. \A q \in Requests : requests'[q].fresh # NoToken =>
         requests'[q].fresh = requests[q].fresh /\ requests'[q].recent = requests[q].recent
  BY <1>1
<1>3. \A d \in Devices : /\ rows[d].previous # NoToken =>
                                 rows[d].previous # rows[d].token /\ rows[d].token # NoToken
                         /\ NoToken \notin Chain(rows[d])
  BY RowFacts DEF DeviceInv, HonestInv, RowsHaveTokens, Chain
<1>4. FreshIsRecent'
  BY <1>2 DEF HonestInv, FreshIsRecent
<1>5. FreshInGrace'
  BY <1>2 DEF HonestInv, FreshInGrace, RowsStay
<1>6. OpenBesideFresh'
  <2> SUFFICES ASSUME NEW q \in Requests, NEW p \in Requests,
                      requests'[q].fresh # NoToken, requests'[p].at \in Early
               PROVE  requests'[p].recent # 0
    BY DEF OpenBesideFresh
  <2>1. requests[q].fresh # NoToken
    BY <1>2
  <2>2. CASE p = r
    BY <1>1, <2>1, <2>2 DEF HonestInv, OpenBesideFresh
  <2>3. CASE p # r
    BY <1>1, <2>1, <2>3 DEF HonestInv, OpenBesideFresh
  <2> QED BY <2>2, <2>3
<1>7. BehindOrCovered'
  <2> SUFFICES ASSUME NEW p \in Requests, NEW d \in Devices,
                      requests'[p].waiting, requests'[p].at \in Live,
                      requests'[p].token # NoToken, requests'[p].token = rows[d].previous,
                      ~rows[d].grace \/ requests'[p].recent = 0
               PROVE  memory' # rows[d].token
    BY DEF BehindOrCovered, RowsStay
  <2>1. CASE p = r /\ x.token = memory /\ memory' = memory
    BY <1>1, <1>3, <2>1
  <2>2. CASE /\ requests[p].waiting /\ requests[p].at \in Live
             /\ requests'[p].token = requests[p].token
             /\ requests'[p].recent = requests[p].recent
    <3>1. memory # rows[d].token
      BY <2>2 DEF HonestInv, BehindOrCovered
    <3>2. rows[d].token # NoToken
      BY <1>3
    <3>3. CASE memory' = requests[r].fresh /\ memory' # NoToken
      <4>1. requests[p].recent # 0
        BY <2>2, <3>3 DEF HonestInv, OpenBesideFresh, Early
      <4>2. ~rows[d].grace
        BY <2>2, <4>1
      <4> QED BY <3>3, <4>2 DEF HonestInv, FreshInGrace
    <3> QED BY <3>1, <3>2, <3>3
  <2> QED BY <1>1, <2>1, <2>2
<1>8. DueIsSettled'
  <2> SUFFICES ASSUME NEW d \in Devices, rows[d].due
               PROVE  /\ ~rows[d].grace
                      /\ \A q \in Requests : requests'[q].fresh \notin Chain(rows[d])
                      /\ \A s, t \in Chain(rows[d]) : Presents(s)' /\ Presents(t)' => s = t
    BY ChainFacts DEF DueIsSettled, RowsStay, DeviceInv
  <2>1. /\ ~rows[d].grace
        /\ \A q \in Requests : requests[q].fresh \notin Chain(rows[d])
        /\ \A s, t \in Chain(rows[d]) : Presents(s) /\ Presents(t) => s = t
    BY DEF HonestInv, DueIsSettled
  <2>2. \A q \in Requests : requests'[q].fresh \notin Chain(rows[d])
    BY <1>2, <1>3, <2>1
  <2>3. ASSUME NEW s \in Chain(rows[d]), Presents(s)' PROVE Presents(s)
    <3>1. CASE memory' = s
      BY <1>3, <2>1, <3>1 DEF Presents
    <3>2. CASE \E q \in Requests : /\ requests'[q].waiting /\ requests'[q].at \in Live
                                   /\ requests'[q].token = s
      BY <1>1, <3>2 DEF Presents
    <3> QED BY <2>3, <3>1, <3>2 DEF Presents
  <2> QED BY <2>1, <2>2, <2>3
<1>9. RotatesDue'
  BY <1>1 DEF HonestInv, RotatesDue, RowsStay
<1>10. ReusedReplaced'
  BY <1>1 DEF HonestInv, ReusedReplaced, RowsStay
<1>11. NotBoth'
  BY <1>1 DEF HonestInv, NotBoth
<1>12. RowsHaveTokens'
  BY <1>1, DeviceAssumption DEF HonestInv, RowsHaveTokens, RowsStay
<1>13. ReusedIsBehind'
  <2> SUFFICES ASSUME NEW p \in Requests, requests'[p].at = "reused", requests'[p].waiting
               PROVE  /\ memory' # rows'[requests'[p].row].token
                      /\ \A q \in Requests : requests'[q].fresh # rows'[requests'[p].row].token
    BY DEF ReusedIsBehind
  <2>1. /\ requests[p].at = "reused" /\ requests[p].waiting
        /\ requests'[p].row = requests[p].row /\ requests[p].row \in Devices
    BY <1>1 DEF HonestInv, ReusedReplaced
  <2>2. /\ memory # rows[requests[p].row].token
        /\ \A q \in Requests : requests[q].fresh # rows[requests[p].row].token
        /\ rows[requests[p].row].token # NoToken
    BY <2>1 DEF HonestInv, ReusedIsBehind, RowsHaveTokens
  <2>3. rows'[requests'[p].row].token = rows[requests[p].row].token
    BY <2>1 DEF RowsStay
  <2> QED BY <1>2, <2>2, <2>3
<1> QED BY <1>4, <1>5, <1>6, <1>7, <1>8, <1>9, <1>10, <1>11, <1>12, <1>13 DEF HonestInv

\* Nothing but what rows say of their other times, or nothing at all.
LEMMA RowsStayStep ==
    ASSUME DeviceInv, HonestInv, RowsStay, UNCHANGED <<requests, memory>>
    PROVE  HonestInv'
<1>1. \A d \in Devices : Chain(rows'[d]) = Chain(rows[d])
  BY ChainFacts DEF DeviceInv
<1>2. FreshIsRecent' /\ FreshInGrace' /\ OpenBesideFresh' /\ BehindOrCovered'
  BY DEF HonestInv, FreshIsRecent, FreshInGrace, OpenBesideFresh, BehindOrCovered, RowsStay
<1>3. \A t : Presents(t)' <=> Presents(t)
  BY DEF Presents
<1>4. DueIsSettled'
  BY <1>1, <1>3 DEF HonestInv, DueIsSettled, RowsStay
<1>5. RotatesDue' /\ ReusedReplaced' /\ NotBoth' /\ RowsHaveTokens'
  BY DEF HonestInv, RotatesDue, ReusedReplaced, NotBoth, RowsHaveTokens, RowsStay
<1>6. ReusedIsBehind'
  BY DEF HonestInv, ReusedIsBehind, ReusedReplaced, RowsStay
<1> QED BY <1>2, <1>4, <1>5, <1>6 DEF HonestInv

\* Only who has been admitted rotates, only who is resolved has a row, and the rest.
LEMMA QuietFacts ==
    ASSUME HonestInv, NEW r \in Requests
    PROVE  /\ requests[r].rotates => requests[r].at = "admitted"
           /\ requests[r].fresh # NoToken => requests[r].recent = 2
BY DEF HonestInv, RotatesDue, FreshIsRecent

LEMMA AnswerGives ==
    ASSUME TypeOK, NEW r \in Requests, NEW fresh \in Tokens \cup {NoToken},
           NEW answer \in {"none", "ok", "denied", "revoked", "failed"}
    PROVE  LET x == Answer(r, answer, fresh) IN
           /\ x \in Request /\ ~x.rotates /\ x.at \in {"idle", "answered"}
           /\ x.row = NoDevice
           /\ x.fresh = IF requests[r].waiting THEN fresh ELSE NoToken
<1>1. requests[r] \in Request /\ Answer(r, answer, fresh) \in Request
  BY RequestFacts, AnswerFacts
<1>2. CASE requests[r].waiting
  <2> DEFINE x == [requests[r] EXCEPT !.at = "answered", !.answer = answer, !.fresh = fresh,
                                      !.row = NoDevice, !.rotates = FALSE]
  <2>1. x.at = "answered" /\ x.fresh = fresh /\ x.row = NoDevice /\ x.rotates = FALSE
    BY <1>1 DEF Request
  <2> QED BY <1>1, <1>2, <2>1 DEF Answer
<1>3. CASE ~requests[r].waiting
  BY <1>1, <1>3 DEF Answer, Idle
<1> QED BY <1>2, <1>3

\* A slot that is freed, or whose call the office has answered.
LEMMA QuietAnswer ==
    ASSUME DeviceInv, HonestInv, RowsStay, NEW r \in Requests,
           NEW answer \in {"none", "ok", "denied", "revoked", "failed"},
           NEW x \in {Idle, Answer(r, answer, NoToken)},
           requests' = [requests EXCEPT ![r] = x],
           memory' \in {memory, NoToken, requests[r].fresh}
    PROVE  HonestInv'
<1>1. /\ x \in Request /\ ~x.rotates /\ x.at \in {"idle", "answered"}
      /\ x.row = NoDevice /\ x.fresh = NoToken
  <2>1. CASE x = Idle
    BY <2>1, IdleFacts DEF Idle
  <2>2. CASE x = Answer(r, answer, NoToken)
    BY <2>2, AnswerGives DEF DeviceInv
  <2> QED BY <2>1, <2>2
<1> QED BY <1>1, QuietStep DEF Live, Early

\* A call that begins with what memory holds.
LEMMA QuietCall ==
    ASSUME DeviceInv, HonestInv, RowsStay, NEW r \in Requests,
           NEW kind \in {"sync", "upload", "signIn"}, NEW owes \in BOOLEAN,
           requests' = [requests EXCEPT ![r] = Call(kind, owes)], memory' = memory
    PROVE  HonestInv'
<1> DEFINE x == Call(kind, owes)
<1>1. /\ x \in Request /\ x.fresh = NoToken /\ ~x.rotates
      /\ x.at \in {"flushing", "sent"} /\ (x.at = "sent" => x.token = memory)
  BY CallFacts DEF DeviceInv
<1>2. x.row = NoDevice
  BY DEF Call, Idle
<1>3. x.recent = IF \E q \in Requests : requests[q].recent = 2 THEN 1 ELSE 0
  BY DEF Call, Idle
<1>4. x.recent # 0 \/ \A q \in Requests : requests[q].fresh = NoToken
  BY <1>3, QuietFacts
<1> HIDE DEF x
<1> QED BY <1>1, <1>2, <1>4, QuietStep DEF Live, Early, x

LEMMA HonestCall ==
    ASSUME DeviceInv, HonestInv, NEW r \in Requests, SyncCall(r) \/ UploadCall(r)
    PROVE  HonestInv'
BY QuietCall DEF SyncCall, UploadCall, DeviceInv, TypeOK, RowsStay

LEMMA HonestFlushed ==
    ASSUME DeviceInv, HonestInv, NEW r \in Requests, NEW ok \in BOOLEAN, Flushed(r, ok)
    PROVE  HonestInv'
<1> DEFINE x == [requests[r] EXCEPT
               !.write = NoToken,
               !.at = IF requests[r].fresh # NoToken THEN "saving" ELSE "sent",
               !.token = IF requests[r].fresh # NoToken THEN requests[r].token ELSE memory]
<1>1. requests[r] \in Request /\ memory \in Tokens \cup {NoToken}
      /\ requests \in [Requests -> Request]
  BY RequestFacts DEF DeviceInv, TypeOK
<1>2. requests[r].at = "flushing" /\ ~requests[r].rotates
  BY QuietFacts, <1>1 DEF Flushed, Request
<1>3. /\ x \in Request /\ x.at \in {"saving", "sent"} /\ ~x.rotates
      /\ x.row = requests[r].row /\ x.fresh = requests[r].fresh
      /\ x.recent = requests[r].recent /\ (x.at = "sent" => x.token = memory)
  BY <1>1, <1>2 DEF Request
<1>4. requests' = [requests EXCEPT ![r] = x] /\ memory' = memory /\ RowsStay
  BY <1>1 DEF Flushed, RowsStay
<1> HIDE DEF x
<1> QED BY <1>2, <1>3, <1>4, QuietStep DEF Live, Early

LEMMA HonestDeliver ==
    ASSUME DeviceInv, HonestInv, NEW r \in Requests, Deliver(r)
    PROVE  HonestInv'
<1> DEFINE kept    == [requests[r] EXCEPT
                          !.at = IF owed THEN "flushing" ELSE "saving",
                          !.write = IF owed THEN memory ELSE NoToken]
           cleared == [requests[r] EXCEPT !.at = "writing", !.write = NoToken]
<1>1. requests[r] \in Request /\ memory \in Tokens \cup {NoToken}
      /\ requests \in [Requests -> Request]
  BY RequestFacts DEF DeviceInv, TypeOK
<1>2. ~requests[r].rotates /\ requests[r].at = "answered"
  BY QuietFacts, <1>1 DEF Deliver, Request
<1>3. RowsStay /\ memory' \in {memory, NoToken}
  BY DEF Deliver, RowsStay
<1>4. CASE requests' = [requests EXCEPT ![r] = Idle]
  BY <1>3, <1>4, QuietAnswer
<1>5. CASE requests' = [requests EXCEPT ![r] = kept] /\ requests[r].fresh # NoToken
  <2>1. /\ kept \in Request /\ kept.at \in {"flushing", "saving"} /\ ~kept.rotates
        /\ kept.row = requests[r].row /\ kept.fresh = requests[r].fresh
        /\ kept.recent = requests[r].recent
    BY <1>1, <1>2 DEF Request
  <2>2. kept.recent # 0
    BY <1>5, <2>1, QuietFacts
  <2> HIDE DEF kept
  <2> QED BY <1>3, <1>5, <2>1, <2>2, QuietStep DEF Live, Early
<1>6. CASE requests' = [requests EXCEPT ![r] = cleared]
  <2>1. /\ cleared \in Request /\ cleared.at = "writing" /\ ~cleared.rotates
        /\ cleared.row = requests[r].row /\ cleared.fresh = requests[r].fresh
        /\ cleared.recent = requests[r].recent
    BY <1>1, <1>2 DEF Request
  <2> HIDE DEF cleared
  <2> QED BY <1>3, <1>6, <2>1, QuietStep DEF Live, Early
<1> QED BY <1>1, <1>4, <1>5, <1>6 DEF Deliver

LEMMA HonestSave ==
    ASSUME DeviceInv, HonestInv, NEW r \in Requests, Save(r)
    PROVE  HonestInv'
<1> DEFINE x == [requests[r] EXCEPT !.at = "writing", !.write = requests[r].fresh]
<1>1. requests[r] \in Request /\ requests \in [Requests -> Request]
  BY RequestFacts DEF DeviceInv, TypeOK
<1>2. RowsStay /\ memory' \in {memory, requests[r].fresh}
  BY DEF Save, RowsStay
<1>3. CASE requests' = [requests EXCEPT ![r] = Idle]
  BY <1>2, <1>3, QuietAnswer
<1>4. CASE requests' = [requests EXCEPT ![r] = x]
  <2>1. ~requests[r].rotates
    BY QuietFacts, <1>1 DEF Save, Request
  <2>2. /\ x \in Request /\ x.at = "writing" /\ ~x.rotates
        /\ x.row = requests[r].row /\ x.fresh = requests[r].fresh
        /\ x.recent = requests[r].recent
    BY <1>1, <2>1 DEF Request
  <2> HIDE DEF x
  <2> QED BY <1>2, <1>4, <2>2, QuietStep DEF Live, Early
<1> QED BY <1>1, <1>3, <1>4 DEF Save

LEMMA HonestWritten ==
    ASSUME DeviceInv, HonestInv, NEW r \in Requests, NEW ok \in BOOLEAN, Written(r, ok)
    PROVE  HonestInv'
<1>1. RowsStay /\ memory' = memory
  BY DEF Written, RowsStay
<1>2. \/ requests' = [requests EXCEPT ![r] = Idle]
      \/ requests' = [requests EXCEPT ![r] = Call("sync", FALSE)]
  BY DEF Written
<1> QED BY <1>1, <1>2, QuietAnswer, QuietCall

\* A call is given up, or its request lost: the office may go on.
LEMMA HonestGiveUp ==
    ASSUME DeviceInv, HonestInv, NEW r \in Requests, GiveUp(r) \/ LoseRequest(r)
    PROVE  HonestInv'
<1> DEFINE x == [requests[r] EXCEPT !.waiting = FALSE]
<1>1. RowsStay /\ memory' = memory
  BY DEF GiveUp, LoseRequest, RowsStay
<1>2. CASE requests' = [requests EXCEPT ![r] = Idle]
  BY <1>1, <1>2, QuietAnswer
<1>3. CASE requests' = [requests EXCEPT ![r] = x]
  <2>1. /\ x \in Request /\ ~x.waiting
        /\ x.at = requests[r].at /\ x.row = requests[r].row /\ x.rotates = requests[r].rotates
        /\ x.token = requests[r].token /\ x.fresh = requests[r].fresh
    BY GivenUp DEF DeviceInv
  <2>2. x.recent = requests[r].recent
    BY RequestFacts DEF DeviceInv, Request
  <2> HIDE DEF x
  <2> QED BY <1>1, <1>3, <2>1, <2>2, QuietStep
<1> QED BY <1>2, <1>3 DEF GiveUp, LoseRequest, DeviceInv, TypeOK

\* The office ends a call without a new token.
LEMMA HonestAnswer ==
    ASSUME DeviceInv, HonestInv, NEW r \in Requests,
           Fail(r) \/ RevokeReused(r) \/ (Commit(r) /\ ~requests[r].rotates)
    PROVE  HonestInv'
<1>1. RowsStay
  <2>1. CASE RevokeReused(r)
    <3>1. requests[r].row \in Devices
      BY <2>1 DEF RevokeReused, HonestInv, ReusedReplaced
    <3>2. rows[requests[r].row] \in Row /\ rows \in [Devices -> Row]
      BY <3>1, RowFacts DEF DeviceInv, TypeOK
    <3> QED BY <2>1, <3>1, <3>2 DEF RevokeReused, RowsStay, Row
  <2> QED BY <2>1 DEF Fail, Commit, RowsStay
<1>2. PICK answer \in {"ok", "revoked", "failed"} :
         requests' = [requests EXCEPT ![r] = Answer(r, answer, NoToken)]
  BY DEF Fail, Commit, RevokeReused
<1>3. memory' = memory
  BY DEF Fail, Commit, RevokeReused
<1> QED BY <1>1, <1>2, <1>3, QuietAnswer

\* The office finds the row of a token.
LEMMA HonestResolve ==
    ASSUME DeviceInv, HonestInv, NEW r \in Requests, Resolve(r)
    PROVE  HonestInv'
<1> DEFINE live(d) == ~rows[d].revoked /\ requests[r].token \in Chain(rows[d])
           d == CHOOSE e \in Devices : live(e)
           admitted == [requests[r] EXCEPT !.at = "admitted", !.row = d,
                                           !.rotates = rows[d].due]
           at == IF rows[d].grace THEN "admitted" ELSE "reused"
           replaced == [requests[r] EXCEPT !.at = at, !.row = d]
           denied == Answer(r, "denied", NoToken)
<1>1. /\ requests[r] \in Request /\ requests \in [Requests -> Request]
      /\ requests[r].at = "sent"
      /\ UNCHANGED <<rows, memory>>
  BY RequestFacts DEF Resolve, DeviceInv, TypeOK
<1>2. ~requests[r].rotates
  BY <1>1, QuietFacts DEF Request
<1>3. CASE requests' = [requests EXCEPT ![r] = denied]
  BY <1>1, <1>3, QuietAnswer DEF RowsStay
<1>4. ASSUME NEW e \in Devices, live(e), NEW x \in Request,
             requests' = [requests EXCEPT ![r] = x],
             x.row = e, x.token = requests[r].token, x.fresh = requests[r].fresh,
             x.recent = requests[r].recent, x.waiting = requests[r].waiting,
             \/ /\ x.at = "admitted" /\ (x.rotates => rows[e].due)
                /\ rows[e].due => x.token = rows[e].token
             \/ /\ x.at = "reused" /\ ~x.rotates /\ ~rows[e].grace
                /\ x.token # rows[e].token
      PROVE  HonestInv'
  <2>1. requests'[r] = x /\ \A q \in Requests : q # r => requests'[q] = requests[q]
    BY <1>1, <1>4
  <2>2. /\ rows[e].token # NoToken /\ x.token # NoToken
        /\ rows[e].token \in Chain(rows[e]) /\ x.token \in Chain(rows[e])
        /\ x.token # rows[e].token => x.token = rows[e].previous
    BY <1>4 DEF HonestInv, RowsHaveTokens, Chain
  <2>3. FreshIsRecent' /\ FreshInGrace'
    BY <1>1, <1>4, <2>1 DEF HonestInv, FreshIsRecent, FreshInGrace
  <2>4. OpenBesideFresh'
    <3>1. \A q \in Requests : /\ requests'[q].at \in Early => requests[q].at \in Early
                              /\ requests'[q].recent = requests[q].recent
                              /\ requests'[q].fresh = requests[q].fresh
      BY <1>1, <1>4, <2>1 DEF Early, Live
    <3> QED BY <3>1 DEF HonestInv, OpenBesideFresh
  <2>5. \A q \in Requests :
           /\ requests'[q].at \in Live => requests[q].at \in Live
           /\ requests'[q].waiting = requests[q].waiting
           /\ requests'[q].recent = requests[q].recent
           /\ requests'[q].token = requests[q].token
           /\ requests'[q].fresh = requests[q].fresh
    BY <1>1, <1>4, <2>1 DEF Live
  <2>6. BehindOrCovered'
    BY <1>1, <2>5 DEF HonestInv, BehindOrCovered
  <2>7. \A t : Presents(t)' => Presents(t)
    BY <1>1, <2>5 DEF Presents
  <2>8. DueIsSettled'
    <3>1. \A f \in Devices : Chain(rows'[f]) = Chain(rows[f])
      BY <1>1
    <3> QED BY <1>1, <2>5, <2>7, <3>1 DEF HonestInv, DueIsSettled
  <2>9. RotatesDue'
    BY <1>1, <1>4, <2>1 DEF HonestInv, RotatesDue
  <2>10. ReusedReplaced'
    BY <1>1, <1>4, <2>1, <2>2 DEF HonestInv, ReusedReplaced
  \* Of a row that is due, the token and the replaced one are not both in use.
  <2>11. ASSUME NEW p \in Requests, NEW q \in Requests, rows[e].due,
                requests[p].waiting, requests[p].at \in Live, requests[p].token = rows[e].token,
                requests[q].waiting, requests[q].at \in Live,
                requests[q].token = rows[e].previous, rows[e].previous # NoToken
         PROVE  FALSE
    <3>1. Presents(rows[e].token) /\ Presents(rows[e].previous)
      BY <2>11 DEF Presents
    <3>2. rows[e].previous \in Chain(rows[e]) /\ rows[e].previous # rows[e].token
      BY <2>11, RowFacts DEF Chain, DeviceInv
    <3> QED BY <2>2, <2>11, <3>1, <3>2 DEF HonestInv, DueIsSettled
  <2>12. NotBoth'
    <3> SUFFICES ASSUME NEW q \in Requests, NEW p \in Requests,
                        requests'[q].rotates, requests'[q].waiting,
                        requests'[p].at = "reused", requests'[p].waiting,
                        requests'[q].row = requests'[p].row
                 PROVE  FALSE
      BY DEF NotBoth
    <3>1. p # q
      BY <1>4, <2>1 DEF HonestInv, RotatesDue
    <3>2. CASE q = r
      <4>1. /\ rows[e].due /\ requests[r].token = rows[e].token /\ requests[r].waiting
            /\ requests[p].at = "reused" /\ requests[p].row = e /\ requests[p].waiting
        BY <1>4, <2>1, <3>1, <3>2
      <4>2. requests[p].token = rows[e].previous /\ rows[e].previous # NoToken
        BY <4>1 DEF HonestInv, ReusedReplaced
      <4> QED BY <1>1, <2>11, <4>1, <4>2 DEF Live
    <3>3. CASE p = r
      <4>1. /\ ~rows[e].grace /\ requests[r].token = rows[e].previous /\ requests[r].waiting
            /\ rows[e].previous # NoToken
            /\ requests[q].rotates /\ requests[q].row = e /\ requests[q].waiting
        BY <1>4, <2>1, <2>2, <3>1, <3>3
      <4>2. rows[e].due /\ requests[q].at = "admitted" /\ requests[q].token = rows[e].token
        BY <4>1 DEF HonestInv, RotatesDue
      <4> QED BY <1>1, <2>11, <4>1, <4>2 DEF Live
    <3>4. CASE p # r /\ q # r
      BY <2>1, <3>4 DEF HonestInv, NotBoth
    <3> QED BY <3>2, <3>3, <3>4
  <2>13. RowsHaveTokens'
    BY <1>1, <1>4, <2>1, <2>2 DEF HonestInv, RowsHaveTokens
  <2>14. ReusedIsBehind'
    <3> SUFFICES ASSUME NEW p \in Requests, requests'[p].at = "reused", requests'[p].waiting
                 PROVE  /\ memory # rows[requests'[p].row].token
                        /\ \A q \in Requests : requests[q].fresh # rows[requests'[p].row].token
      BY <1>1, <2>5 DEF ReusedIsBehind
    <3>1. CASE p # r
      BY <2>1, <3>1 DEF HonestInv, ReusedIsBehind
    <3>2. CASE p = r
      <4>1. /\ ~rows[e].grace /\ requests[r].token = rows[e].previous /\ requests[r].waiting
            /\ requests[r].token # NoToken
        BY <1>4, <2>1, <2>2, <3>2
      <4>2. memory # rows[e].token
        BY <1>1, <4>1 DEF HonestInv, BehindOrCovered, Live
      <4>3. \A q \in Requests : requests[q].fresh # rows[e].token
        BY <2>2, <4>1 DEF HonestInv, FreshInGrace
      <4> QED BY <1>4, <2>1, <3>2, <4>2, <4>3
    <3> QED BY <3>1, <3>2
  <2> QED BY <2>3, <2>4, <2>6, <2>8, <2>9, <2>10, <2>12, <2>13, <2>14 DEF HonestInv
<1>5. CASE \E e \in Devices : live(e)
  <2>1. d \in Devices /\ live(d)
    BY <1>5
  <2>2. CASE requests' = [requests EXCEPT ![r] = admitted] /\ requests[r].token = rows[d].token
    <3>1. /\ admitted \in Request /\ admitted.row = d /\ admitted.token = requests[r].token
          /\ admitted.fresh = requests[r].fresh /\ admitted.recent = requests[r].recent
          /\ admitted.waiting = requests[r].waiting /\ admitted.at = "admitted"
          /\ admitted.rotates = rows[d].due
      <4>1. rows[d].due \in BOOLEAN
        BY <2>1, RowFacts DEF DeviceInv
      <4> HIDE DEF d
      <4> QED BY <1>1, <2>1, <4>1 DEF Request
    <3> HIDE DEF admitted, d
    <3> QED BY <1>4, <2>1, <2>2, <3>1
  <2>3. CASE requests' = [requests EXCEPT ![r] = replaced] /\ requests[r].token # rows[d].token
    <3>1. /\ replaced \in Request /\ replaced.row = d /\ replaced.token = requests[r].token
          /\ replaced.fresh = requests[r].fresh /\ replaced.recent = requests[r].recent
          /\ replaced.waiting = requests[r].waiting /\ ~replaced.rotates
          /\ replaced.at = IF rows[d].grace THEN "admitted" ELSE "reused"
      <4> HIDE DEF d
      <4> QED BY <1>1, <1>2, <2>1 DEF Request
    <3>2. rows[d].due => ~rows[d].grace
      BY <2>1 DEF HonestInv, DueIsSettled
    <3> HIDE DEF replaced, d
    <3> QED BY <1>4, <2>1, <2>3, <3>1, <3>2
  <2> HIDE DEF admitted, replaced, denied
  <2> QED BY <1>3, <1>5, <2>2, <2>3 DEF Resolve, admitted, replaced, denied
<1> QED BY <1>3, <1>5 DEF Resolve

\* The office mints a token for a call that was resolved to a row.
LEMMA HonestRotate ==
    ASSUME DeviceInv, HonestInv, NEW r \in Requests, Commit(r), requests[r].rotates
    PROVE  HonestInv'
<1> DEFINE d == requests[r].row
           answered == Answer(r, "ok", Fresh)
<1> USE DEF DeviceInv
<1>1. /\ d \in Devices /\ memory' = memory
      /\ Tokens \ InUse # {}
      /\ rows' = [KnownRows EXCEPT ![d] = Rotated(rows[d], Fresh)]
  BY KnownFacts DEF HonestInv, RotatesDue, Commit
<1>2. /\ Fresh \in Tokens /\ Fresh # NoToken /\ Fresh # memory
      /\ \A q \in Requests : requests[q].fresh # Fresh
      /\ \A e \in Devices : Fresh \notin Chain(KnownRows[e])
  BY <1>1, FreshFacts DEF HeldByPhone
<1>3. KnownRows[d] = rows[d] /\ KnownRows \in [Devices -> Row] /\ Fresh # rows[d].token
  BY <1>1, <1>2, KnownFacts DEF Chain
\* What becomes of a row.
<1>4. ASSUME NEW e \in Devices
      PROVE  \/ e # d /\ rows'[e] = NoRow
             \/ rows'[e] = rows[e] /\ Fresh \notin Chain(rows[e])
             \/ /\ e = d /\ rows'[e].token = Fresh /\ rows'[e].previous = rows[e].token
                /\ rows'[e].grace /\ ~rows'[e].due
  <2>1. CASE e = d
    <3>1. rows'[e] = Rotated(rows[d], Fresh) /\ rows[d] \in Row
      BY <1>1, <1>3, <2>1
    <3> QED BY <1>2, <1>3, <2>1, <3>1, RotatedFacts
  <2>2. CASE e # d
    <3>1. rows'[e] = KnownRows[e]
      BY <1>1, <1>3, <2>2
    <3> QED BY <1>2, <3>1, KnownFacts
  <2> QED BY <2>1, <2>2
<1>5. \A q \in Requests : requests[q].row \in Devices =>
         rows'[requests[q].row] = rows[requests[q].row] \/ requests[q].row = d
  BY <1>1, <1>3, KnownFacts
<1>6. NoRow.token = NoToken /\ NoRow.previous = NoToken /\ ~NoRow.due /\ Chain(NoRow) = {}
  BY NoRowFacts DEF NoRow
\* What becomes of a call.
<1>7. /\ \A q \in Requests \ {r} : SameBut(requests[q], requests'[q])
      /\ SameBut(answered, requests'[r])
      /\ \A q \in Requests : requests'[q].at # "idle" => requests'[q].recent = 2
      /\ \A q \in Requests : requests'[q].at = "idle" => requests'[q].fresh = NoToken
  BY RotationFacts, IdleFacts DEF IdleIsBlank
<1>8. /\ ~answered.rotates /\ answered.at \in {"idle", "answered"} /\ answered.row = NoDevice
      /\ answered.fresh = IF requests[r].waiting THEN Fresh ELSE NoToken
  BY <1>2, AnswerGives
<1> HIDE DEF answered
<1>9. /\ ~requests'[r].rotates /\ requests'[r].at \in {"idle", "answered"}
      /\ requests'[r].row = NoDevice
      /\ requests'[r].fresh = IF requests[r].waiting THEN Fresh ELSE NoToken
      /\ \A q \in Requests : q # r =>
            /\ requests'[q].at = requests[q].at /\ requests'[q].row = requests[q].row
            /\ requests'[q].rotates = requests[q].rotates
            /\ requests'[q].waiting = requests[q].waiting
            /\ requests'[q].token = requests[q].token /\ requests'[q].fresh = requests[q].fresh
  BY <1>7, <1>8 DEF SameBut
<1>10. FreshIsRecent' /\ OpenBesideFresh'
  BY <1>7 DEF FreshIsRecent, OpenBesideFresh, Early, Live
<1>11. FreshInGrace'
  <2> SUFFICES ASSUME NEW q \in Requests, NEW e \in Devices, requests'[q].fresh # NoToken,
                      requests'[q].fresh = rows'[e].token
               PROVE  rows'[e].grace
    BY DEF FreshInGrace
  <2>1. CASE rows'[e] = rows[e] /\ Fresh \notin Chain(rows[e])
    <3>1. requests'[q].fresh # Fresh
      BY <1>2, <2>1 DEF Chain
    <3> QED BY <1>9, <2>1, <3>1 DEF HonestInv, FreshInGrace
  <2> QED BY <1>4, <1>6, <2>1
<1>12. BehindOrCovered'
  <2> SUFFICES ASSUME NEW q \in Requests, NEW e \in Devices,
                      requests'[q].waiting, requests'[q].at \in Live,
                      requests'[q].token # NoToken, requests'[q].token = rows'[e].previous,
                      ~rows'[e].grace \/ requests'[q].recent = 0
               PROVE  memory # rows'[e].token
    BY <1>1 DEF BehindOrCovered
  <2>1. q # r /\ ~rows'[e].grace
    BY <1>7, <1>9 DEF Live
  <2>2. rows'[e] = rows[e]
    BY <1>4, <1>6, <2>1
  <2> QED BY <1>9, <2>1, <2>2 DEF HonestInv, BehindOrCovered
<1>13. DueIsSettled'
  <2> SUFFICES ASSUME NEW e \in Devices, rows'[e].due
               PROVE  /\ ~rows'[e].grace
                      /\ \A q \in Requests : requests'[q].fresh \notin Chain(rows'[e])
                      /\ \A s, t \in Chain(rows'[e]) : Presents(s)' /\ Presents(t)' => s = t
    BY DEF DueIsSettled
  <2>1. rows'[e] = rows[e] /\ Fresh \notin Chain(rows[e])
    BY <1>4, <1>6
  <2>2. /\ ~rows[e].grace
        /\ \A q \in Requests : requests[q].fresh \notin Chain(rows[e])
        /\ \A s, t \in Chain(rows[e]) : Presents(s) /\ Presents(t) => s = t
    BY <2>1 DEF HonestInv, DueIsSettled
  <2>3. NoToken \notin Chain(rows[e])
    BY DEF Chain
  <2>4. \A t : Presents(t)' => Presents(t)
    BY <1>1, <1>9 DEF Presents, Live
  <2>5. Chain(rows'[e]) = Chain(rows[e])
    BY <2>1
  <2> QED BY <1>9, <2>1, <2>2, <2>3, <2>4, <2>5
<1>14. RotatesDue'
  <2> SUFFICES ASSUME NEW q \in Requests, requests'[q].rotates
               PROVE  LET row == rows'[requests'[q].row] IN
                      /\ requests'[q].at = "admitted" /\ requests'[q].row \in Devices
                      /\ \/ row.due
                         \/ row.grace /\ requests'[q].recent = 2
                      /\ row.due => requests'[q].token = row.token
    BY DEF RotatesDue
  <2>1. q # r /\ requests[q].rotates
    BY <1>9
  <2>2. /\ requests[q].at = "admitted" /\ requests[q].row \in Devices
        /\ \/ rows[requests[q].row].due
           \/ rows[requests[q].row].grace /\ requests[q].recent = 2
        /\ rows[requests[q].row].due => requests[q].token = rows[requests[q].row].token
    BY <2>1 DEF HonestInv, RotatesDue
  <2>3. requests'[q].recent = 2 /\ requests'[q].row = requests[q].row
        /\ requests'[q].at = "admitted" /\ requests'[q].token = requests[q].token
    BY <1>7, <1>9, <2>1, <2>2
  <2>4. CASE rows'[requests[q].row] = rows[requests[q].row]
    BY <2>2, <2>3, <2>4
  <2>5. CASE rows'[requests[q].row] # rows[requests[q].row]
    <3>1. rows'[d].grace /\ ~rows'[d].due /\ requests[q].row = d
      BY <1>1, <1>4, <1>5, <2>2, <2>5
    <3> QED BY <2>2, <2>3, <3>1
  <2> QED BY <2>4, <2>5
\* What becomes of the row of another call.
<1>15. ASSUME NEW q \in Requests, requests'[q].row \in Devices
       PROVE  /\ q # r /\ requests[q].row = requests'[q].row
              /\ \/ /\ rows'[requests[q].row] = rows[requests[q].row]
                    /\ Fresh \notin Chain(rows[requests[q].row])
                 \/ /\ requests[q].row = d /\ rows'[d].token = Fresh
                    /\ ~rows'[d].due
  <2>1. q # r /\ requests[q].row = requests'[q].row
    BY <1>9, <1>15, DeviceAssumption
  <2>2. CASE requests[q].row = d
    BY <1>1, <1>4, <2>1, <2>2
  <2>3. CASE requests[q].row # d
    <3>1. rows'[requests[q].row] = rows[requests[q].row] /\ rows[requests[q].row].token # NoToken
      BY <1>5, <1>15, <2>1, <2>3 DEF HonestInv, RowsHaveTokens
    <3> QED BY <1>4, <1>6, <1>15, <2>1, <2>3, <3>1
  <2> QED BY <2>1, <2>2, <2>3
<1>16. ReusedReplaced'
  <2> SUFFICES ASSUME NEW q \in Requests, requests'[q].at = "reused"
               PROVE  /\ requests'[q].row \in Devices
                      /\ rows'[requests'[q].row].due =>
                            /\ requests'[q].token # NoToken
                            /\ requests'[q].token = rows'[requests'[q].row].previous
    BY DEF ReusedReplaced
  <2>1. /\ q # r /\ requests[q].at = "reused" /\ requests'[q].row = requests[q].row
        /\ requests'[q].token = requests[q].token
    BY <1>9
  <2>2. /\ requests[q].row \in Devices
        /\ rows[requests[q].row].due =>
              /\ requests[q].token # NoToken
              /\ requests[q].token = rows[requests[q].row].previous
    BY <2>1 DEF HonestInv, ReusedReplaced
  <2> QED BY <1>15, <2>1, <2>2
<1>17. NotBoth'
  BY <1>9 DEF HonestInv, NotBoth
<1>18. RowsHaveTokens'
  <2>1. \A e \in Devices : rows'[e].previous # NoToken => rows'[e].token # NoToken
    BY <1>2, <1>4, <1>6 DEF HonestInv, RowsHaveTokens
  <2>2. \A q \in Requests : requests'[q].row \in Devices
                               => rows'[requests'[q].row].token # NoToken
    BY <1>2, <1>15 DEF HonestInv, RowsHaveTokens
  <2> QED BY <2>1, <2>2 DEF RowsHaveTokens
<1>19. ReusedIsBehind'
  <2> SUFFICES ASSUME NEW p \in Requests, requests'[p].at = "reused", requests'[p].waiting
               PROVE  /\ memory # rows'[requests'[p].row].token
                      /\ \A q \in Requests : requests'[q].fresh # rows'[requests'[p].row].token
    BY <1>1 DEF ReusedIsBehind
  <2>1. /\ p # r /\ requests[p].at = "reused" /\ requests[p].waiting
        /\ requests'[p].row = requests[p].row
    BY <1>9
  <2>2. /\ requests[p].row \in Devices /\ rows[requests[p].row].token # NoToken
        /\ memory # rows[requests[p].row].token
        /\ \A q \in Requests : requests[q].fresh # rows[requests[p].row].token
    BY <2>1 DEF HonestInv, ReusedReplaced, ReusedIsBehind, RowsHaveTokens
  <2>3. CASE /\ rows'[requests[p].row] = rows[requests[p].row]
             /\ Fresh \notin Chain(rows[requests[p].row])
    <3>1. Fresh # rows[requests[p].row].token
      BY <2>2, <2>3 DEF Chain
    <3> QED BY <1>9, <2>1, <2>2, <2>3, <3>1
  <2>4. CASE requests[p].row = d /\ rows'[d].token = Fresh
    <3>1. ~requests[r].waiting
      BY <2>1, <2>4 DEF HonestInv, NotBoth
    <3> QED BY <1>2, <1>9, <2>1, <2>4, <3>1
  <2> QED BY <1>15, <2>1, <2>2, <2>3, <2>4
<1> QED BY <1>10, <1>11, <1>12, <1>13, <1>14, <1>16, <1>17, <1>18, <1>19 DEF HonestInv

\* A grace ends when no call is open that began in it.
LEMMA HonestGraceEnds ==
    ASSUME DeviceInv, HonestInv, NEW d \in Devices, GraceEnds(d)
    PROVE  HonestInv'
<1>1. /\ UNCHANGED <<requests, memory>>
      /\ \A r \in Requests : requests[r].recent = 0 /\ requests[r].fresh = NoToken
  BY QuietFacts DEF GraceEnds
<1>2. \A e \in Devices :
         /\ rows'[e].token = rows[e].token /\ rows'[e].previous = rows[e].previous
         /\ rows'[e].due = rows[e].due /\ (rows'[e].grace => rows[e].grace)
  <2>1. rows' = [rows EXCEPT ![d] = [rows[d] EXCEPT !.grace = FALSE]] /\ rows[d] \in Row
        /\ rows \in [Devices -> Row]
    BY RowFacts DEF GraceEnds, DeviceInv, TypeOK
  <2>2. LET x == [rows[d] EXCEPT !.grace = FALSE] IN
        x.token = rows[d].token /\ x.previous = rows[d].previous /\ x.due = rows[d].due
        /\ x.grace = FALSE
    BY <2>1 DEF Row
  <2> QED BY <2>1, <2>2
<1>3. \A e \in Devices : Chain(rows'[e]) = Chain(rows[e])
  BY <1>2 DEF Chain
<1>4. \A t : Presents(t)' <=> Presents(t)
  BY <1>1 DEF Presents
<1>5. FreshIsRecent' /\ FreshInGrace' /\ OpenBesideFresh'
  BY <1>1 DEF FreshIsRecent, FreshInGrace, OpenBesideFresh
<1>6. BehindOrCovered'
  BY <1>1, <1>2 DEF HonestInv, BehindOrCovered
<1>7. DueIsSettled'
  BY <1>1, <1>2, <1>3, <1>4 DEF HonestInv, DueIsSettled
<1>8. RotatesDue'
  BY <1>1, <1>2 DEF HonestInv, RotatesDue
<1>9. ReusedReplaced' /\ NotBoth' /\ RowsHaveTokens'
  BY <1>1, <1>2 DEF HonestInv, ReusedReplaced, NotBoth, RowsHaveTokens
<1>10. ReusedIsBehind'
  BY <1>1, <1>2 DEF HonestInv, ReusedIsBehind, ReusedReplaced
<1> QED BY <1>5, <1>6, <1>7, <1>8, <1>9, <1>10 DEF HonestInv

\* A token comes due while the phone is at rest: it presents what memory holds.
LEMMA HonestComesDue ==
    ASSUME DeviceInv, HonestInv, NEW d \in Devices, ComesDue(d)
    PROVE  HonestInv'
<1>1. /\ UNCHANGED <<requests, memory>> /\ ~rows[d].grace
      /\ \A r \in Requests : requests[r] = Idle
  BY DEF ComesDue, DaysPass, DeviceInv, IdleIsBlank
<1>2. /\ Idle.at = "idle" /\ Idle.row = NoDevice /\ Idle.fresh = NoToken
      /\ ~Idle.waiting /\ ~Idle.rotates
  BY IdleFacts DEF Idle
<1>3. \A e \in Devices :
         /\ rows'[e].token = rows[e].token /\ rows'[e].previous = rows[e].previous
         /\ rows'[e].grace = rows[e].grace /\ (e # d => rows'[e].due = rows[e].due)
  <2>1. rows' = [rows EXCEPT ![d] = [rows[d] EXCEPT !.due = TRUE]] /\ rows[d] \in Row
        /\ rows \in [Devices -> Row]
    BY RowFacts DEF ComesDue, DeviceInv, TypeOK
  <2>2. LET x == [rows[d] EXCEPT !.due = TRUE] IN
        x.token = rows[d].token /\ x.previous = rows[d].previous /\ x.grace = rows[d].grace
    BY <2>1 DEF Row
  <2> QED BY <2>1, <2>2
<1>4. FreshIsRecent' /\ FreshInGrace' /\ OpenBesideFresh' /\ BehindOrCovered'
  BY <1>1, <1>2 DEF FreshIsRecent, FreshInGrace, OpenBesideFresh, BehindOrCovered
<1>5. DueIsSettled'
  <2>1. \A t : Presents(t)' => memory' = t
    BY <1>1, <1>2 DEF Presents
  <2>2. \A e \in Devices : NoToken \notin Chain(rows'[e])
    BY DEF Chain
  <2>3. \A e \in Devices : rows'[e].due => ~rows'[e].grace
    BY <1>1, <1>3 DEF HonestInv, DueIsSettled
  <2> QED BY <1>1, <1>2, <2>1, <2>2, <2>3 DEF DueIsSettled
<1>6. RotatesDue' /\ ReusedReplaced' /\ NotBoth' /\ ReusedIsBehind'
  BY <1>1, <1>2 DEF RotatesDue, ReusedReplaced, NotBoth, ReusedIsBehind
<1>7. RowsHaveTokens'
  BY <1>1, <1>2, <1>3, DeviceAssumption DEF HonestInv, RowsHaveTokens
<1> QED BY <1>4, <1>5, <1>6, <1>7 DEF HonestInv

\* A row is revoked from the office's screen, or expires.
LEMMA HonestRow ==
    ASSUME DeviceInv, HonestInv, NEW d \in Devices, RevokeDevice(d) \/ Expires(d)
    PROVE  HonestInv'
<1>1. rows[d] \in Row /\ rows \in [Devices -> Row]
  BY RowFacts DEF DeviceInv, TypeOK
<1>2. RowsStay
  BY <1>1 DEF RevokeDevice, Expires, RowsStay, Row
<1> QED BY <1>2, RowsStayStep DEF RevokeDevice, Expires

\* A sign-in puts a token in memory nobody has had, into a row nobody remembers.
LEMMA HonestSignIn ==
    ASSUME DeviceInv, HonestInv, NEW r \in Requests, SignIn(r)
    PROVE  HonestInv'
<1> USE DEF DeviceInv
<1> DEFINE d == CHOOSE e \in Devices : Forgotten(e)
           x == [Idle EXCEPT !.at = "writing", !.kind = "signIn", !.answer = "ok",
                             !.write = Fresh, !.waiting = TRUE]
<1>1. /\ d \in Devices /\ Forgotten(d) /\ memory' = Fresh /\ Tokens \ InUse # {}
      /\ rows' = [KnownRows EXCEPT ![d] = NewRow(Fresh)]
      /\ requests' = [requests EXCEPT ![r] = x]
  BY DEF SignIn
<1> HIDE DEF d
<1>2. /\ Fresh # NoToken /\ \A q \in Requests : requests[q].fresh # Fresh
                                                /\ requests[q].token # Fresh
      /\ \A e \in Devices : Fresh \notin Chain(KnownRows[e])
      /\ NewRow(Fresh).token = Fresh /\ NewRow(Fresh).previous = NoToken
      /\ ~NewRow(Fresh).grace /\ ~NewRow(Fresh).due
  BY <1>1, FreshFacts, NewRowFacts DEF HeldByPhone
<1>3. /\ x.at = "writing" /\ x.row = NoDevice /\ x.fresh = NoToken /\ ~x.rotates
      /\ x.token = NoToken
  BY DEF Idle
<1> HIDE DEF x
<1>4. requests'[r] = x /\ \A q \in Requests : q # r => requests'[q] = requests[q]
  BY <1>1 DEF TypeOK
<1>5. NoRow.token = NoToken /\ NoRow.previous = NoToken /\ ~NoRow.due
  BY DEF NoRow
<1>6. ASSUME NEW e \in Devices
      PROVE  \/ rows'[e] = NoRow
             \/ rows'[e] = rows[e] /\ Fresh \notin Chain(rows[e]) /\ e # d
             \/ e = d /\ rows'[e] = NewRow(Fresh)
  <2>1. KnownRows \in [Devices -> Row]
    BY KnownFacts
  <2>2. CASE e = d
    BY <1>1, <2>1, <2>2
  <2>3. CASE e # d
    <3>1. rows'[e] = KnownRows[e]
      BY <1>1, <2>1, <2>3
    <3> QED BY <1>2, <2>3, <3>1, KnownFacts
  <2> QED BY <2>2, <2>3
<1>7. \A q \in Requests : requests[q].row \in Devices =>
         rows'[requests[q].row] = rows[requests[q].row]
  <2>1. KnownRows \in [Devices -> Row]
    BY KnownFacts
  <2>2. \A q \in Requests : requests[q].row # d
    BY <1>1 DEF Forgotten
  <2> QED BY <1>1, <2>1, <2>2, KnownFacts
<1>8. FreshIsRecent' /\ OpenBesideFresh'
  BY <1>3, <1>4 DEF HonestInv, FreshIsRecent, OpenBesideFresh, Early, Live
<1>9. FreshInGrace'
  BY <1>2, <1>3, <1>4, <1>5, <1>6 DEF HonestInv, FreshInGrace
<1>10. BehindOrCovered'
  <2> SUFFICES ASSUME NEW q \in Requests, NEW e \in Devices,
                      requests'[q].waiting, requests'[q].at \in Live,
                      requests'[q].token # NoToken, requests'[q].token = rows'[e].previous
               PROVE  Fresh # rows'[e].token
    BY <1>1 DEF BehindOrCovered
  <2>1. rows'[e] = rows[e] /\ Fresh \notin Chain(rows[e])
    BY <1>2, <1>5, <1>6
  <2> QED BY <1>2, <2>1 DEF Chain
<1>11. DueIsSettled'
  <2> SUFFICES ASSUME NEW e \in Devices, rows'[e].due
               PROVE  /\ ~rows'[e].grace
                      /\ \A q \in Requests : requests'[q].fresh \notin Chain(rows'[e])
                      /\ \A s, t \in Chain(rows'[e]) : Presents(s)' /\ Presents(t)' => s = t
    BY DEF DueIsSettled
  <2>1. rows'[e] = rows[e] /\ Fresh \notin Chain(rows[e])
    BY <1>2, <1>5, <1>6
  <2>2. /\ ~rows[e].grace
        /\ \A q \in Requests : requests[q].fresh \notin Chain(rows[e])
        /\ \A s, t \in Chain(rows[e]) : Presents(s) /\ Presents(t) => s = t
    BY <2>1 DEF HonestInv, DueIsSettled
  <2>3. NoToken \notin Chain(rows[e]) /\ Chain(rows'[e]) = Chain(rows[e])
    BY <2>1 DEF Chain
  <2>4. \A t \in Chain(rows[e]) : Presents(t)' => Presents(t)
    BY <1>1, <1>3, <1>4, <2>1 DEF Presents, Live
  <2> QED BY <1>3, <1>4, <2>1, <2>2, <2>3, <2>4
<1>12. RotatesDue'
  BY <1>3, <1>4, <1>7 DEF HonestInv, RotatesDue
<1>13. ReusedReplaced'
  BY <1>3, <1>4, <1>7 DEF HonestInv, ReusedReplaced
<1>14. NotBoth'
  BY <1>3, <1>4 DEF HonestInv, NotBoth
<1>15. RowsHaveTokens'
  <2>1. \A e \in Devices : rows'[e].previous # NoToken => rows'[e].token # NoToken
    BY <1>2, <1>5, <1>6 DEF HonestInv, RowsHaveTokens
  <2>2. \A q \in Requests : requests'[q].row \in Devices
                               => rows'[requests'[q].row].token # NoToken
    BY <1>3, <1>4, <1>7, DeviceAssumption DEF HonestInv, RowsHaveTokens
  <2> QED BY <2>1, <2>2 DEF RowsHaveTokens
<1>16. ReusedIsBehind'
  <2> SUFFICES ASSUME NEW p \in Requests, requests'[p].at = "reused", requests'[p].waiting
               PROVE  /\ Fresh # rows'[requests'[p].row].token
                      /\ \A q \in Requests : requests'[q].fresh # rows'[requests'[p].row].token
    BY <1>1 DEF ReusedIsBehind
  <2>1. /\ p # r /\ requests'[p] = requests[p] /\ requests[p].row \in Devices
    BY <1>3, <1>4 DEF HonestInv, ReusedReplaced
  <2>2. /\ rows[requests[p].row].token # NoToken
        /\ \A q \in Requests : requests[q].fresh # rows[requests[p].row].token
        /\ rows'[requests[p].row] = rows[requests[p].row]
    BY <1>7, <2>1 DEF HonestInv, ReusedIsBehind, RowsHaveTokens
  <2>3. Fresh # rows[requests[p].row].token
    <3>1. KnownRows[requests[p].row] = rows[requests[p].row]
      BY <2>1, KnownFacts
    <3>2. Fresh \notin Chain(rows[requests[p].row])
      BY <1>2, <2>1, <3>1
    <3> QED BY <1>2, <3>2 DEF Chain
  <2> QED BY <1>3, <1>4, <2>1, <2>2, <2>3
<1> QED BY <1>8, <1>9, <1>10, <1>11, <1>12, <1>13, <1>14, <1>15, <1>16 DEF HonestInv

\* The app starts again, and waits for nothing.
LEMMA HonestRestart ==
    ASSUME DeviceInv, HonestInv, Restart
    PROVE  HonestInv'
<1>1. /\ Idle.at = "idle" /\ Idle.row = NoDevice /\ Idle.fresh = NoToken
      /\ ~Idle.waiting /\ ~Idle.rotates
  BY IdleFacts DEF Idle
<1>2. UNCHANGED rows
  BY DEF Restart
<1>3. ASSUME NEW q \in Requests
      PROVE  /\ ~requests'[q].waiting
             /\ \/ requests'[q] = Idle
                \/ /\ requests[q].at \in Live
                   /\ requests'[q].at = requests[q].at /\ requests'[q].row = requests[q].row
                   /\ requests'[q].rotates = requests[q].rotates
                   /\ requests'[q].token = requests[q].token
                   /\ requests'[q].fresh = requests[q].fresh
                   /\ requests'[q].recent = requests[q].recent
  <2> DEFINE x == [requests[q] EXCEPT !.waiting = FALSE]
  <2>1. x.recent = requests[q].recent
    BY RequestFacts DEF DeviceInv, Request
  <2>2. requests'[q] = IF requests[q].at \in {"sent", "admitted", "reused"} THEN x ELSE Idle
    BY DEF Restart
  <2> QED BY <1>1, <2>1, <2>2, GivenUp DEF Live, DeviceInv
<1>4. FreshIsRecent' /\ FreshInGrace'
  BY <1>1, <1>2, <1>3 DEF HonestInv, FreshIsRecent, FreshInGrace
<1>5. OpenBesideFresh'
  BY <1>1, <1>3 DEF HonestInv, OpenBesideFresh, Early, Live
<1>6. BehindOrCovered' /\ NotBoth' /\ ReusedIsBehind'
  BY <1>3 DEF BehindOrCovered, NotBoth, ReusedIsBehind
<1>7. DueIsSettled'
  <2>1. \A t : Presents(t)' => memory' = t
    BY <1>3 DEF Presents
  <2>2. \A e \in Devices : Chain(rows'[e]) = Chain(rows[e]) /\ NoToken \notin Chain(rows[e])
    BY <1>2 DEF Chain
  <2>3. \A q \in Requests : requests'[q].fresh \in {requests[q].fresh, NoToken}
    BY <1>1, <1>3
  <2> QED BY <1>2, <2>1, <2>2, <2>3 DEF HonestInv, DueIsSettled
<1>8. RotatesDue' /\ ReusedReplaced'
  BY <1>1, <1>2, <1>3 DEF HonestInv, RotatesDue, ReusedReplaced
<1>9. RowsHaveTokens'
  BY <1>1, <1>2, <1>3, DeviceAssumption DEF HonestInv, RowsHaveTokens
<1> QED BY <1>4, <1>5, <1>6, <1>7, <1>8, <1>9 DEF HonestInv

LEMMA HonestInit == Init => HonestInv
<1> SUFFICES ASSUME Init PROVE HonestInv
  OBVIOUS
<1> DEFINE none == [d \in Devices |-> NoRow]
           first == CHOOSE d \in Devices : TRUE
<1>1. 1 \in Tokens
  BY DeviceAssumption DEF Tokens
<1>2. \A r \in Requests : requests[r] = Idle
  BY DEF Init
<1>3. /\ Idle.at = "idle" /\ Idle.row = NoDevice /\ Idle.fresh = NoToken
      /\ ~Idle.waiting /\ ~Idle.rotates
  BY IdleFacts DEF Idle
<1>4. \A d \in Devices : rows[d].previous = NoToken /\ ~rows[d].due
  <2>1. rows = [none EXCEPT ![first] = NewRow(1)]
    BY DEF Init
  <2>2. /\ NewRow(1).previous = NoToken /\ ~NewRow(1).due
        /\ NoRow.previous = NoToken /\ ~NoRow.due
    BY <1>1, NewRowFacts DEF NoRow
  <2> HIDE DEF first
  <2> QED BY <2>1, <2>2
<1>5. /\ FreshIsRecent /\ FreshInGrace /\ OpenBesideFresh /\ BehindOrCovered
      /\ RotatesDue /\ ReusedReplaced /\ NotBoth /\ ReusedIsBehind
  BY <1>2, <1>3 DEF FreshIsRecent, FreshInGrace, OpenBesideFresh, BehindOrCovered,
     RotatesDue, ReusedReplaced, NotBoth, ReusedIsBehind
<1>6. DueIsSettled /\ RowsHaveTokens
  BY <1>2, <1>3, <1>4, DeviceAssumption DEF DueIsSettled, RowsHaveTokens
<1> QED BY <1>5, <1>6 DEF HonestInv

LEMMA HonestNext == DeviceInv /\ HonestInv /\ [Next]_vars => HonestInv'
<1> SUFFICES ASSUME DeviceInv, HonestInv, [Next]_vars PROVE HonestInv'
  OBVIOUS
<1>1. ASSUME NEW r \in Requests, SyncCall(r) \/ UploadCall(r) PROVE HonestInv'
  BY <1>1, HonestCall
<1>2. ASSUME NEW r \in Requests, PhoneWorks(r) PROVE HonestInv'
  BY <1>2, HonestDeliver, HonestSave, HonestFlushed, HonestWritten DEF PhoneWorks
<1>3. ASSUME NEW r \in Requests, OfficeWorks(r) PROVE HonestInv'
  <2>1. CASE Commit(r)
    BY <2>1, HonestAnswer, HonestRotate
  <2> QED BY <1>3, <2>1, HonestResolve, HonestAnswer DEF OfficeWorks
<1>4. ASSUME NEW r \in Requests, SignIn(r) \/ GiveUp(r) \/ LoseRequest(r) PROVE HonestInv'
  BY <1>4, HonestSignIn, HonestGiveUp
<1>5. ASSUME NEW d \in Devices, RevokeDevice(d) \/ GraceEnds(d) \/ ComesDue(d) \/ Expires(d)
      PROVE  HonestInv'
  BY <1>5, HonestRow, HonestGraceEnds, HonestComesDue
<1>6. CASE Restart
  BY <1>6, HonestRestart
<1>7. CASE UNCHANGED vars
  BY <1>7, RowsStayStep DEF vars, RowsStay
<1> QED BY <1>1, <1>2, <1>3, <1>4, <1>5, <1>6, <1>7 DEF Next

\* However many calls overlap, are given up or lose their answers, and whichever of
\* its two runners keeps a token last: a call the phone waits for is taken for a
\* thief's (the revocation in withDevice) only when the phone has not the row's
\* current token, nor that token on its way.
THEOREM PhoneIsNoThief == Spec => HolderIsNoThief
<1>1. Spec => []HonestInv
  BY HonestInit, HonestNext, Invariance, PTL DEF Spec
<1>2. HonestInv /\ [Next]_vars =>
         [\A r \in Requests : RevokeReused(r) /\ requests[r].waiting =>
             LET current == rows[requests[r].row].token
             IN  /\ memory # current
                 /\ \A q \in Requests : requests[q].fresh # current]_vars
  BY DEF HonestInv, ReusedIsBehind, RevokeReused
<1> QED BY <1>1, <1>2, PTL DEF Spec, HolderIsNoThief
=============================================================================
