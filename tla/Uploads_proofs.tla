---------------------------- MODULE Uploads_proofs ----------------------------
(***************************************************************************)
(* Proofs about Uploads for any number of browsers, phones, parts, ids and *)
(* concurrent requests.                                                    *)
(***************************************************************************)
EXTENDS Uploads, TLAPS

\* A client at work, or with an id to resume, has made one; a phone's is there
\* from the start.
ClientIsSound(c, x) ==
    /\ x \in Client
    /\ x.doing # "idle" \/ x.resumes => <<c, x.tries>> \in Ids
    /\ c \in Photos => x.resumes

ClientsAreSound == \A c \in Clients : ClientIsSound(c, clients[c])

\* A request is past the store only when its object is in it.
StoredIsThere ==
    \A u \in Ids : \A r \in Requests : requests[u][r] = "stored" => u \in store

UploadsInv ==
    /\ TypeOK
    /\ ClientsAreSound
    /\ PartsAreReclaimed
    /\ StoredIsThere
    /\ CitedIsOnFile

\* What a session of the table may be, beside its type.
SessionIsSound(u, s, objects) ==
    /\ s \in Session
    /\ s.scan # "none" <=> s.status = "complete"
    /\ s.parts # {} => s.status = "open"
    /\ s.status = "complete" => u \in objects

\* What may be cited stays so.
StaysCleared(s, t) ==
    s.status = "complete" /\ s.scan \in Cleared => t.status = "complete" /\ t.scan \in Cleared

-----------------------------------------------------------------------------
(* Clients.                                                                *)

LEMMA ClientFacts ==
    ASSUME UploadsInv, NEW c \in Clients
    PROVE  /\ ClientIsSound(c, clients[c])
           /\ clients[c] \in Client
           /\ clients[c].doing # "idle" \/ clients[c].resumes => IdOf(c) \in Ids
BY DEF UploadsInv, ClientsAreSound, ClientIsSound, IdOf

\* The passes a client counts by name.
LEMMA PassNumbers == 0 \in 0..3 /\ 1 \in 0..3
OBVIOUS

\* The end of an attempt, successful or not.
LEMMA EndedIsSound ==
    ASSUME NEW c, NEW x, ClientIsSound(c, x)
    PROVE  ClientIsSound(c, Ended(x))
<1>1. x \in Client
  BY DEF ClientIsSound
<1>2. /\ Ended(x) \in Client /\ Ended(x).doing = "idle"
      /\ Ended(x).resumes = x.resumes /\ Ended(x).tries = x.tries
  <2>1. ASSUME NEW p \in 0..3
        PROVE  LET y == [x EXCEPT !.doing = "idle", !.need = {}, !.pass = p, !.asked = None]
               IN  /\ y \in Client /\ y.doing = "idle"
                   /\ y.resumes = x.resumes /\ y.tries = x.tries
    BY <1>1 DEF Client
  <2> QED BY <2>1, PassNumbers DEF Ended
<1> QED BY <1>2 DEF ClientIsSound

LEMMA AfterCompleteIsSound ==
    ASSUME UploadsInv, NEW c \in Clients, clients[c].doing # "idle"
    PROVE  ClientIsSound(c, AfterComplete(c))
<1> DEFINE e == Ended(clients[c])
<1>1. ClientIsSound(c, e) /\ e \in Client /\ IdOf(c) \in Ids
      /\ (c \in Photos => e.resumes)
  BY ClientFacts, EndedIsSound DEF ClientIsSound
<1>2. e.tries = clients[c].tries
  BY ClientFacts DEF Ended, Client
<1>3. CASE c \in Photos
  <2> DEFINE x == [e EXCEPT !.doing = "filed"]
  <2> HIDE DEF e
  <2>1. x \in Client /\ x.tries = e.tries /\ x.resumes = e.resumes
    BY <1>1 DEF Client
  <2>2. AfterComplete(c) = x
    BY <1>3 DEF AfterComplete, e
  <2> QED BY <1>1, <1>2, <2>1, <2>2 DEF ClientIsSound, IdOf
<1>4. CASE c \notin Photos
  <2> DEFINE x == [e EXCEPT !.doing = "attaching", !.resumes = FALSE]
  <2> HIDE DEF e
  <2>1. x \in Client /\ x.tries = e.tries
    BY <1>1 DEF Client
  <2>2. AfterComplete(c) = x
    BY <1>4 DEF AfterComplete, e
  <2> QED BY <1>1, <1>2, <1>4, <2>1, <2>2 DEF ClientIsSound, IdOf
<1> QED BY <1>3, <1>4

LEMMA OneClientChanges ==
    ASSUME UploadsInv, NEW c \in Clients, NEW x, ClientIsSound(c, x),
           clients' = [clients EXCEPT ![c] = x]
    PROVE  clients' \in [Clients -> Client] /\ ClientsAreSound'
<1>1. /\ clients' \in [Clients -> Client] /\ clients'[c] = x
      /\ \A d \in Clients \ {c} : clients'[d] = clients[d]
  BY DEF UploadsInv, TypeOK, ClientIsSound
<1>2. ASSUME NEW d \in Clients PROVE ClientIsSound(d, clients'[d])
  BY <1>1, ClientFacts
<1> QED BY <1>1, <1>2 DEF ClientsAreSound, ClientIsSound, Ids

\* The answer that a request gives to whoever waits for it.
LEMMA AnswerIsSound ==
    ASSUME UploadsInv, NEW u \in Ids, NEW r \in Requests,
           clients' = Refuse(u, r) \/ clients' = Finished(u, r)
    PROVE  clients' \in [Clients -> Client] /\ ClientsAreSound'
<1>1. ASSUME NEW c \in Clients PROVE ClientIsSound(c, clients'[c])
  <2>1. ClientIsSound(c, clients[c]) /\ ClientIsSound(c, Ended(clients[c]))
    BY ClientFacts, EndedIsSound
  <2>2. c \in Waiting(u, r) => ClientIsSound(c, AfterComplete(c))
    BY AfterCompleteIsSound DEF Waiting
  <2>3. clients'[c] \in {clients[c], Ended(clients[c])}
        \/ (c \in Waiting(u, r) /\ clients'[c] = AfterComplete(c))
    BY DEF Refuse, Finished
  <2> QED BY <2>1, <2>2, <2>3
<1>2. clients' = [c \in Clients |-> clients'[c]]
  BY DEF Refuse, Finished
<1>3. clients' \in [Clients -> Client]
  BY <1>1, <1>2 DEF ClientIsSound
<1> QED BY <1>1, <1>3 DEF ClientsAreSound, ClientIsSound, Ids

-----------------------------------------------------------------------------
(* Sessions.                                                               *)

LEMMA SessionFacts ==
    ASSUME UploadsInv, NEW u \in Ids
    PROVE  SessionIsSound(u, sessions[u], store) /\ sessions[u] \in Session
BY DEF UploadsInv, TypeOK, PartsAreReclaimed, CitedIsOnFile, SessionIsSound

\* A step that leaves the register alone preserves the invariant if it leaves
\* clients, sessions and requests sound, and keeps what may be cited.
LEMMA SoundStep ==
    ASSUME UploadsInv,
           clients' \in [Clients -> Client], ClientsAreSound',
           sessions' \in [Ids -> Session],
           \A u \in Ids : /\ SessionIsSound(u, sessions'[u], store')
                          /\ StaysCleared(sessions[u], sessions'[u]),
           arriving' \subseteq Ids \X Parts,
           requests' \in [Ids -> [Requests -> {"free", "staged", "stored"}]],
           StoredIsThere',
           store' \subseteq Ids, UNCHANGED <<register, scanner>>,
           tick' \in {tick} \cup Tick, faults' \in 0..MaxFaults
    PROVE  UploadsInv'
<1>1. TypeOK'
  BY DEF UploadsInv, TypeOK, SessionIsSound, Tick, Ids
<1>2. PartsAreReclaimed'
  BY DEF PartsAreReclaimed, SessionIsSound, Ids
<1>3. CitedIsOnFile'
  <2>1. \A u \in Ids : sessions'[u].status = "complete" => u \in store'
    BY DEF SessionIsSound
  <2>2. ASSUME NEW b \in Browsers, register[b] # None
        PROVE  sessions'[register[b]].status = "complete"
               /\ sessions'[register[b]].scan \in Cleared
    <3>1. register[b] \in Ids
      BY <2>2 DEF UploadsInv, TypeOK
    <3>2. sessions[register[b]].status = "complete" /\ sessions[register[b]].scan \in Cleared
      BY <2>2 DEF UploadsInv, CitedIsOnFile
    <3> QED BY <3>1, <3>2 DEF StaysCleared
  <2> QED BY <2>1, <2>2 DEF CitedIsOnFile, Ids, Cleared
<1> QED BY <1>1, <1>2, <1>3 DEF UploadsInv

\* A step of the clients alone, and of the parts on their way.
LEMMA ClientStep ==
    ASSUME UploadsInv,
           clients' \in [Clients -> Client], ClientsAreSound',
           arriving' \subseteq Ids \X Parts, faults' \in 0..MaxFaults,
           UNCHANGED <<sessions, requests, store, register, scanner, tick>>
    PROVE  UploadsInv'
<1>1. \A u \in Ids : /\ SessionIsSound(u, sessions'[u], store')
                     /\ StaysCleared(sessions[u], sessions'[u])
  BY SessionFacts DEF StaysCleared
<1>2. sessions' \in [Ids -> Session] /\ store' \subseteq Ids /\ tick' \in Tick
      /\ requests' \in [Ids -> [Requests -> {"free", "staged", "stored"}]]
  BY DEF UploadsInv, TypeOK
<1>3. StoredIsThere'
  BY DEF UploadsInv, StoredIsThere, Ids
<1> QED BY <1>1, <1>2, <1>3, SoundStep

\* A step of the sessions alone, beside the clients.
LEMMA SessionStep ==
    ASSUME UploadsInv,
           clients' \in [Clients -> Client], ClientsAreSound',
           sessions' \in [Ids -> Session],
           \A u \in Ids : /\ SessionIsSound(u, sessions'[u], store)
                          /\ StaysCleared(sessions[u], sessions'[u]),
           arriving' \subseteq Ids \X Parts, tick' \in {tick} \cup Tick,
           UNCHANGED <<requests, store, register, scanner, faults>>
    PROVE  UploadsInv'
<1>1. requests' \in [Ids -> [Requests -> {"free", "staged", "stored"}]]
      /\ store' \subseteq Ids /\ faults' \in 0..MaxFaults
  BY DEF UploadsInv, TypeOK
<1>2. StoredIsThere'
  BY DEF UploadsInv, StoredIsThere, Ids
<1> QED BY <1>1, <1>2, SoundStep

\* One session's row is written.
LEMMA OneSessionChanges ==
    ASSUME UploadsInv, NEW u \in Ids, NEW s, SessionIsSound(u, s, store),
           StaysCleared(sessions[u], s),
           sessions' = [sessions EXCEPT ![u] = s]
    PROVE  /\ sessions' \in [Ids -> Session]
           /\ \A v \in Ids : /\ SessionIsSound(v, sessions'[v], store)
                             /\ StaysCleared(sessions[v], sessions'[v])
<1>1. /\ sessions' \in [Ids -> Session] /\ sessions'[u] = s
      /\ \A v \in Ids \ {u} : sessions'[v] = sessions[v]
  BY DEF UploadsInv, TypeOK, SessionIsSound
<1>2. \A v \in Ids \ {u} : StaysCleared(sessions[v], sessions'[v])
  BY <1>1 DEF StaysCleared
<1> QED BY <1>1, <1>2, SessionFacts

\* The request is answered, dies or is refused: it is off the session.
LEMMA RequestFreed ==
    ASSUME UploadsInv, NEW u \in Ids, NEW r \in Requests,
           NEW stage \in {"free", "staged", "stored"},
           requests' = [requests EXCEPT ![u][r] = stage],
           UNCHANGED store, stage # "stored"
    PROVE  /\ requests' \in [Ids -> [Requests -> {"free", "staged", "stored"}]]
           /\ StoredIsThere'
<1>1. requests \in [Ids -> [Requests -> {"free", "staged", "stored"}]]
  BY DEF UploadsInv, TypeOK
<1>2. /\ requests' \in [Ids -> [Requests -> {"free", "staged", "stored"}]]
      /\ \A v \in Ids : \A q \in Requests :
            requests'[v][q] = stage \/ requests'[v][q] = requests[v][q]
  BY <1>1
<1> QED BY <1>2 DEF UploadsInv, StoredIsThere, Ids

-----------------------------------------------------------------------------
(* The steps of a client.                                                  *)

LEMMA ParticularsKept ==
    ASSUME UploadsInv
    PROVE  /\ arriving \subseteq Ids \X Parts
           /\ faults \in 0..MaxFaults
           /\ Fault => faults' \in 0..MaxFaults
BY UploadsAssumption DEF UploadsInv, TypeOK, Fault

LEMMA BeginStep ==
    ASSUME UploadsInv, NEW c \in Clients, Begin(c)
    PROVE  UploadsInv'
<1> DEFINE me == clients[c]
           n == IF me.resumes THEN me.tries ELSE me.tries + 1
           x == [me EXCEPT !.doing = "opening", !.resumes = TRUE, !.tries = n]
<1>1. me \in Client /\ ClientIsSound(c, me)
  BY ClientFacts
<1>2. <<c, n>> \in Ids /\ n \in 0..MaxTries
  <2>1. CASE me.resumes
    BY <1>1, <2>1 DEF ClientIsSound, Client
  <2>2. CASE ~me.resumes
    <3>1. c \in Browsers
      BY <1>1, <2>2 DEF ClientIsSound, Clients
    <3>2. me.tries \in Nat /\ me.tries < MaxTries
      BY <1>1, <2>2, UploadsAssumption DEF Begin, Client
    <3>3. n \in 1..MaxTries
      BY <2>2, <3>2, UploadsAssumption
    <3> QED BY <3>1, <3>3, UploadsAssumption DEF Ids
  <2> QED BY <2>1, <2>2
<1> HIDE DEF n
<1>3. x \in Client /\ x.tries = n /\ x.resumes
  BY <1>1, <1>2 DEF Client
<1>4. ClientIsSound(c, x)
  BY <1>2, <1>3 DEF ClientIsSound
<1>5. clients' = [clients EXCEPT ![c] = x]
  BY DEF Begin, n
<1>6. UNCHANGED <<sessions, arriving, requests, store, register, scanner, tick, faults>>
  BY DEF Begin
<1> QED BY <1>4, <1>5, <1>6, OneClientChanges, ParticularsKept, ClientStep

\* An answer that is read leaves the client with parts to send, or at the end.
LEMMA OpenStep ==
    ASSUME UploadsInv, NEW c \in Clients, Open(c)
    PROVE  UploadsInv'
<1> DEFINE u == IdOf(c)
           s == Opened(sessions[u])
           need == missingChunks(s)
           x == IF c \in Photos THEN Ended(clients[c])
                ELSE IF need = {} THEN [clients[c] EXCEPT !.doing = "finishing"]
                ELSE [clients[c] EXCEPT !.doing = "sending", !.need = need, !.pass = 1]
<1>1. /\ clients[c] \in Client /\ ClientIsSound(c, clients[c])
      /\ clients[c].doing = "opening" /\ u \in Ids
  BY ClientFacts DEF Open
<1>2. /\ sessions' = [sessions EXCEPT ![u] = s]
      /\ UNCHANGED <<arriving, requests, store, register, scanner, tick, faults>>
  BY DEF Open
<1>3. clients' = [clients EXCEPT ![c] = x]
  BY DEF Open, Reads, InitAnswer, ToSend
<1>4. ClientIsSound(c, x)
  <2>1. need \subseteq Parts
    BY DEF missingChunks
  <2> HIDE DEF need
  <2>2. ClientIsSound(c, Ended(clients[c]))
    BY <1>1, EndedIsSound
  <2> DEFINE y == [clients[c] EXCEPT !.doing = "finishing"]
             z == [clients[c] EXCEPT !.doing = "sending", !.need = need, !.pass = 1]
  <2>3. y \in Client /\ y.tries = clients[c].tries /\ y.resumes = clients[c].resumes
    BY <1>1 DEF Client
  <2>4. z \in Client /\ z.tries = clients[c].tries /\ z.resumes = clients[c].resumes
    <3>1. ASSUME NEW p \in 0..3
          PROVE  LET w == [clients[c] EXCEPT !.doing = "sending", !.need = need, !.pass = p]
                 IN  /\ w \in Client
                     /\ w.tries = clients[c].tries /\ w.resumes = clients[c].resumes
      BY <1>1, <2>1 DEF Client
    <3> QED BY <3>1, PassNumbers
  <2>5. ClientIsSound(c, y) /\ ClientIsSound(c, z)
    BY <1>1, <2>3, <2>4 DEF ClientIsSound, IdOf
  <2> QED BY <2>2, <2>5
<1>5. SessionIsSound(u, s, store) /\ StaysCleared(sessions[u], s)
  <2>1. SessionIsSound(u, sessions[u], store) /\ sessions[u] \in Session
    BY <1>1, SessionFacts
  <2> DEFINE o == [sessions[u] EXCEPT !.status = "open"]
  <2>2. /\ o \in Session /\ o.status = "open" /\ o.scan = sessions[u].scan
    BY <2>1 DEF Session, Statuses
  <2>3. sessions[u].status = "none" =>
           SessionIsSound(u, o, store) /\ StaysCleared(sessions[u], o)
    BY <2>1, <2>2 DEF SessionIsSound, StaysCleared
  <2>4. s = IF sessions[u].status = "none" THEN o ELSE sessions[u]
    BY DEF Opened
  <2> QED BY <2>1, <2>3, <2>4 DEF StaysCleared
<1> HIDE DEF u, s, x
<1>6. clients' \in [Clients -> Client] /\ ClientsAreSound'
  BY <1>3, <1>4, OneClientChanges
<1>7. /\ sessions' \in [Ids -> Session]
      /\ \A v \in Ids : /\ SessionIsSound(v, sessions'[v], store)
                        /\ StaysCleared(sessions[v], sessions'[v])
  BY <1>1, <1>2, <1>5, OneSessionChanges
<1>8. arriving' \subseteq Ids \X Parts
  BY <1>2, ParticularsKept
<1> QED BY <1>2, <1>6, <1>7, <1>8, SessionStep

\* The client that has tried a part.
LEMMA TriedIsSound ==
    ASSUME UploadsInv, NEW c \in Clients, NEW i, clients' = Tried(c, i)
    PROVE  clients' \in [Clients -> Client] /\ ClientsAreSound'
<1> DEFINE x == [clients[c] EXCEPT !.need = clients[c].need \ {i}]
<1>1. clients[c] \in Client /\ ClientIsSound(c, clients[c])
  BY ClientFacts
<1>2. /\ x \in Client /\ x.tries = clients[c].tries /\ x.resumes = clients[c].resumes
      /\ x.doing = clients[c].doing
  BY <1>1 DEF Client
<1>3. ClientIsSound(c, x)
  BY <1>1, <1>2 DEF ClientIsSound
<1>4. clients' = [clients EXCEPT ![c] = x]
  BY DEF Tried
<1> QED BY <1>3, <1>4, OneClientChanges

LEMMA PartStep ==
    ASSUME UploadsInv, NEW c \in Clients, NEW i \in Parts, SendPart(c, i) \/ PartRefused(c, i)
    PROVE  UploadsInv'
<1>1. clients[c].doing = "sending" /\ IdOf(c) \in Ids /\ ClientIsSound(c, clients[c])
  BY ClientFacts DEF SendPart, PartRefused
<1>2. /\ UNCHANGED <<sessions, requests, store, register, scanner, tick, faults>>
      /\ arriving' \in {arriving, arriving \cup {<<IdOf(c), i>>}}
  BY DEF SendPart, PartRefused
<1>3. arriving' \subseteq Ids \X Parts
  BY <1>1, <1>2, ParticularsKept
<1>4. clients' = Tried(c, i) \/ clients' = [clients EXCEPT ![c] = Ended(clients[c])]
  BY DEF SendPart, PartRefused
<1>5. clients' \in [Clients -> Client] /\ ClientsAreSound'
  BY <1>1, <1>4, TriedIsSound, EndedIsSound, OneClientChanges
<1> QED BY <1>2, <1>3, <1>5, ParticularsKept, ClientStep

LEMMA CheckStep ==
    ASSUME UploadsInv, NEW c \in Clients, Check(c)
    PROVE  UploadsInv'
<1> DEFINE me == clients[c]
           missing == IF c \in Photos THEN {} ELSE missingChunks(sessions[IdOf(c)])
           y == [me EXCEPT !.doing = "finishing", !.pass = 0]
           z == [me EXCEPT !.need = missing, !.pass = me.pass + 1]
           x == IF missing = {} THEN y ELSE IF me.pass < 3 THEN z ELSE Ended(me)
<1>1. me \in Client /\ ClientIsSound(c, me) /\ me.doing = "sending"
  BY ClientFacts DEF Check
<1>2. clients' = [clients EXCEPT ![c] = x]
  BY DEF Check
<1>3. missing \subseteq Parts
  BY DEF missingChunks
<1> HIDE DEF missing
<1>4. y \in Client /\ y.tries = me.tries /\ y.resumes = me.resumes
  <2>1. ASSUME NEW p \in 0..3
        PROVE  LET w == [me EXCEPT !.doing = "finishing", !.pass = p]
               IN  w \in Client /\ w.tries = me.tries /\ w.resumes = me.resumes
    BY <1>1 DEF Client
  <2> QED BY <2>1, PassNumbers
<1>5. me.pass < 3 => z \in Client /\ z.tries = me.tries /\ z.resumes = me.resumes
  <2>1. me.pass \in 0..3
    BY <1>1 DEF Client
  <2>2. me.pass < 3 => me.pass + 1 \in 0..3
    BY <2>1
  <2> QED BY <1>1, <1>3, <2>2 DEF Client
<1>6. ClientIsSound(c, Ended(me))
  BY <1>1, EndedIsSound
<1>7. ClientIsSound(c, x)
  BY <1>1, <1>4, <1>5, <1>6 DEF ClientIsSound
<1> HIDE DEF x
<1>8. UNCHANGED <<sessions, arriving, requests, store, register, scanner, tick, faults>>
  BY DEF Check
<1> QED BY <1>2, <1>7, <1>8, OneClientChanges, ParticularsKept, ClientStep

\* An attempt that comes to its end without the office.
LEMMA EndStep ==
    ASSUME UploadsInv, NEW c \in Clients, GiveUp(c) \/ NotStaged(c) \/ AlreadyDone(c)
    PROVE  UploadsInv'
<1>1. PICK x : x \in {Ended(clients[c])} \cup
                    (IF AlreadyDone(c) THEN {AfterComplete(c)} ELSE {})
               /\ clients' = [clients EXCEPT ![c] = x]
  BY DEF GiveUp, NotStaged, AlreadyDone
<1>2. ClientIsSound(c, x)
  BY <1>1, ClientFacts, EndedIsSound, AfterCompleteIsSound DEF AlreadyDone
<1>3. /\ UNCHANGED <<sessions, arriving, requests, store, register, scanner, tick>>
      /\ faults' \in 0..MaxFaults
  BY ParticularsKept DEF GiveUp, NotStaged, AlreadyDone
<1> QED BY <1>1, <1>2, <1>3, OneClientChanges, ParticularsKept, ClientStep

LEMMA StageStep ==
    ASSUME UploadsInv, NEW c \in Clients, NEW r \in Requests, Stage(c, r)
    PROVE  UploadsInv'
<1> DEFINE x == [clients[c] EXCEPT !.asked = r]
<1>1. /\ clients[c] \in Client /\ ClientIsSound(c, clients[c]) /\ IdOf(c) \in Ids
      /\ clients' = [clients EXCEPT ![c] = x]
  BY ClientFacts DEF Stage
<1>2. /\ x \in Client /\ x.tries = clients[c].tries /\ x.resumes = clients[c].resumes
      /\ x.doing = clients[c].doing
  BY <1>1 DEF Client
<1>3. ClientIsSound(c, x)
  BY <1>1, <1>2 DEF ClientIsSound
<1> HIDE DEF x
<1>4. clients' \in [Clients -> Client] /\ ClientsAreSound'
  BY <1>1, <1>3, OneClientChanges
<1>5. /\ requests' = [requests EXCEPT ![IdOf(c)][r] = "staged"]
      /\ UNCHANGED <<sessions, arriving, store, register, scanner, tick, faults>>
  BY DEF Stage
<1>6. /\ requests' \in [Ids -> [Requests -> {"free", "staged", "stored"}]]
      /\ StoredIsThere'
  BY <1>1, <1>5, RequestFreed
<1>7. \A u \in Ids : /\ SessionIsSound(u, sessions'[u], store')
                     /\ StaysCleared(sessions[u], sessions'[u])
  BY <1>5, SessionFacts DEF StaysCleared
<1>8. /\ sessions' \in [Ids -> Session] /\ store' \subseteq Ids
      /\ arriving' \subseteq Ids \X Parts /\ faults' \in 0..MaxFaults
  BY <1>5 DEF UploadsInv, TypeOK
<1> QED BY <1>4, <1>5, <1>6, <1>7, <1>8, SoundStep

-----------------------------------------------------------------------------
(* The steps of the office.                                                *)

\* A part is added to an open session or to none (receiveChunk's counting UPDATE).
LEMMA ReceiveStep ==
    ASSUME UploadsInv, NEW u \in Ids, NEW i \in Parts, receiveChunk(u, i)
    PROVE  UploadsInv'
<1> DEFINE s == IF TakesParts(sessions[u])
                THEN [sessions[u] EXCEPT !.parts = sessions[u].parts \cup {i}]
                ELSE sessions[u]
<1>1. SessionIsSound(u, sessions[u], store) /\ sessions[u] \in Session
  BY SessionFacts
<1>2. SessionIsSound(u, s, store) /\ StaysCleared(sessions[u], s)
  <2> DEFINE p == [sessions[u] EXCEPT !.parts = sessions[u].parts \cup {i}]
  <2>1. p \in Session /\ p.status = sessions[u].status /\ p.scan = sessions[u].scan
    BY <1>1 DEF Session
  <2>2. sessions[u].status = "open" => SessionIsSound(u, p, store) /\ StaysCleared(sessions[u], p)
    BY <1>1, <2>1 DEF SessionIsSound, StaysCleared
  <2> QED BY <1>1, <2>2 DEF TakesParts, StaysCleared
<1>3. sessions' = [sessions EXCEPT ![u] = s]
  BY DEF receiveChunk, UploadsInv, TypeOK
<1> HIDE DEF s
<1>4. /\ UNCHANGED <<clients, requests, store, register, scanner, tick, faults>>
      /\ arriving' \subseteq Ids \X Parts
  BY ParticularsKept DEF receiveChunk
<1>5. clients' \in [Clients -> Client] /\ ClientsAreSound'
  BY <1>4 DEF UploadsInv, TypeOK, ClientsAreSound, ClientIsSound, Ids
<1> QED BY <1>2, <1>3, <1>4, <1>5, OneSessionChanges, SessionStep

\* What abortUpload makes of a session.
LEMMA AbortedIsSound ==
    ASSUME NEW u \in Ids, NEW s \in Session, SessionIsSound(u, s, store),
           NEW status \in {"failed", "aborted"}
    PROVE  SessionIsSound(u, Aborted(s, status), store) /\ StaysCleared(s, Aborted(s, status))
<1> DEFINE a == [s EXCEPT !.status = status, !.parts = {}]
<1>1. a \in Session /\ a.status = status /\ a.scan = s.scan /\ a.parts = {}
  BY DEF Session, Statuses
<1>2. s.status = "open" => SessionIsSound(u, a, store) /\ StaysCleared(s, a)
  BY <1>1 DEF SessionIsSound, StaysCleared
<1> QED BY <1>2 DEF Aborted, StaysCleared

LEMMA DiscardStep ==
    ASSUME UploadsInv, NEW u \in Ids, NEW r \in Requests, Discard(u, r)
    PROVE  UploadsInv'
<1> DEFINE s == Aborted(sessions[u], "failed")
<1>1. SessionIsSound(u, s, store) /\ StaysCleared(sessions[u], s)
  BY SessionFacts, AbortedIsSound
<1>2. /\ sessions' = [sessions EXCEPT ![u] = s] /\ clients' = Refuse(u, r)
      /\ requests' = [requests EXCEPT ![u][r] = "free"]
      /\ UNCHANGED <<arriving, store, register, scanner, tick>>
  BY DEF Discard
<1> HIDE DEF s
<1>3. faults' \in 0..MaxFaults /\ arriving' \subseteq Ids \X Parts /\ store' \subseteq Ids
  BY <1>2, ParticularsKept DEF Discard, UploadsInv, TypeOK
<1>4. clients' \in [Clients -> Client] /\ ClientsAreSound'
  BY <1>2, AnswerIsSound
<1>5. /\ requests' \in [Ids -> [Requests -> {"free", "staged", "stored"}]]
      /\ StoredIsThere'
  BY <1>2, RequestFreed
<1>6. /\ sessions' \in [Ids -> Session]
      /\ \A v \in Ids : /\ SessionIsSound(v, sessions'[v], store)
                        /\ StaysCleared(sessions[v], sessions'[v])
  BY <1>1, <1>2, OneSessionChanges
<1> QED BY <1>2, <1>3, <1>4, <1>5, <1>6, SoundStep

LEMMA RequestDiesStep ==
    ASSUME UploadsInv, NEW u \in Ids, NEW r \in Requests, RequestDies(u, r)
    PROVE  UploadsInv'
<1>1. /\ clients' = Refuse(u, r) /\ requests' = [requests EXCEPT ![u][r] = "free"]
      /\ UNCHANGED <<sessions, arriving, store, register, scanner, tick>>
  BY DEF RequestDies
<1>2. faults' \in 0..MaxFaults /\ arriving' \subseteq Ids \X Parts /\ store' \subseteq Ids
      /\ sessions' \in [Ids -> Session]
  BY <1>1, ParticularsKept DEF RequestDies, UploadsInv, TypeOK
<1>3. clients' \in [Clients -> Client] /\ ClientsAreSound'
  BY <1>1, AnswerIsSound
<1>4. /\ requests' \in [Ids -> [Requests -> {"free", "staged", "stored"}]]
      /\ StoredIsThere'
  BY <1>1, RequestFreed
<1>5. \A v \in Ids : /\ SessionIsSound(v, sessions'[v], store')
                     /\ StaysCleared(sessions[v], sessions'[v])
  BY <1>1, SessionFacts DEF StaysCleared
<1> QED BY <1>1, <1>2, <1>3, <1>4, <1>5, SoundStep

\* The store only grows.
LEMMA PutStep ==
    ASSUME UploadsInv, NEW u \in Ids, NEW r \in Requests, Put(u, r)
    PROVE  UploadsInv'
<1>1. /\ store' = store \cup {u} /\ requests' = [requests EXCEPT ![u][r] = "stored"]
      /\ UNCHANGED <<clients, sessions, arriving, register, scanner, tick, faults>>
  BY DEF Put
<1>2. requests \in [Ids -> [Requests -> {"free", "staged", "stored"}]]
  BY DEF UploadsInv, TypeOK
<1>3. requests' \in [Ids -> [Requests -> {"free", "staged", "stored"}]]
  BY <1>1, <1>2
<1>4. StoredIsThere'
  <2>1. ASSUME NEW v \in Ids, NEW q \in Requests, requests'[v][q] = "stored"
        PROVE  v \in store'
    <3>1. v = u \/ requests'[v][q] = requests[v][q]
      BY <1>1, <1>2
    <3> QED BY <1>1, <2>1, <3>1 DEF UploadsInv, StoredIsThere
  <2> QED BY <2>1 DEF StoredIsThere, Ids
<1>5. \A v \in Ids : /\ SessionIsSound(v, sessions'[v], store')
                     /\ StaysCleared(sessions[v], sessions'[v])
  BY <1>1, SessionFacts DEF StaysCleared, SessionIsSound
<1>6. /\ clients' \in [Clients -> Client] /\ ClientsAreSound'
      /\ sessions' \in [Ids -> Session] /\ store' \subseteq Ids
      /\ arriving' \subseteq Ids \X Parts /\ faults' \in 0..MaxFaults
  BY <1>1 DEF UploadsInv, TypeOK, ClientsAreSound, ClientIsSound, Ids
<1> QED BY <1>1, <1>3, <1>4, <1>5, <1>6, SoundStep

\* The row is written by a request that is past the store, and drops the parts.
LEMMA CompleteStep ==
    ASSUME UploadsInv, NEW u \in Ids, NEW r \in Requests, completeUpload(u, r)
    PROVE  UploadsInv'
<1> DEFINE s == IF sessions[u].status = "open" THEN Completed(sessions[u]) ELSE sessions[u]
<1>1. SessionIsSound(u, sessions[u], store) /\ sessions[u] \in Session /\ u \in store
  BY SessionFacts DEF completeUpload, Recordable, UploadsInv, StoredIsThere
<1>2. SessionIsSound(u, s, store) /\ StaysCleared(sessions[u], s)
  <2> DEFINE d == Completed(sessions[u])
  <2>1. /\ d \in Session /\ d.status = "complete" /\ d.scan \in {"pending", "skipped"}
        /\ d.parts = {}
    BY <1>1 DEF Completed, Session, Statuses
  <2>2. sessions[u].status = "open" => SessionIsSound(u, d, store) /\ StaysCleared(sessions[u], d)
    BY <1>1, <2>1 DEF SessionIsSound, StaysCleared
  <2> QED BY <1>1, <2>2 DEF StaysCleared
<1>3. sessions' = [sessions EXCEPT ![u] = s]
  BY DEF completeUpload, UploadsInv, TypeOK
<1> HIDE DEF s
<1>4. /\ clients' = Refuse(u, r) \/ clients' = Finished(u, r)
      /\ requests' = [requests EXCEPT ![u][r] = "free"]
      /\ UNCHANGED <<arriving, store, register, scanner, tick, faults>>
  BY DEF completeUpload
<1>5. faults' \in 0..MaxFaults /\ arriving' \subseteq Ids \X Parts /\ store' \subseteq Ids
  BY <1>4 DEF UploadsInv, TypeOK
<1>6. clients' \in [Clients -> Client] /\ ClientsAreSound'
  BY <1>4, AnswerIsSound
<1>7. /\ requests' \in [Ids -> [Requests -> {"free", "staged", "stored"}]]
      /\ StoredIsThere'
  BY <1>4, RequestFreed
<1>8. /\ sessions' \in [Ids -> Session]
      /\ \A v \in Ids : /\ SessionIsSound(v, sessions'[v], store)
                        /\ StaysCleared(sessions[v], sessions'[v])
  BY <1>2, <1>3, OneSessionChanges
<1> QED BY <1>4, <1>5, <1>6, <1>7, <1>8, SoundStep

\* The clock: one session's row, and no client.
LEMMA ExpireStep ==
    ASSUME UploadsInv, NEW u \in Ids, Expire(u)
    PROVE  UploadsInv'
<1> DEFINE s == [sessions[u] EXCEPT !.expired = TRUE]
<1>1. SessionIsSound(u, sessions[u], store) /\ sessions[u] \in Session
  BY SessionFacts
<1>2. /\ s \in Session /\ s.status = sessions[u].status /\ s.scan = sessions[u].scan
      /\ s.parts = sessions[u].parts
  BY <1>1 DEF Session
<1>3. SessionIsSound(u, s, store) /\ StaysCleared(sessions[u], s)
  BY <1>1, <1>2 DEF SessionIsSound, StaysCleared
<1>4. /\ sessions' = [sessions EXCEPT ![u] = s]
      /\ UNCHANGED <<clients, arriving, requests, store, register, scanner, tick, faults>>
  BY DEF Expire
<1> HIDE DEF s
<1>5. clients' \in [Clients -> Client] /\ ClientsAreSound' /\ arriving' \subseteq Ids \X Parts
  BY <1>4 DEF UploadsInv, TypeOK, ClientsAreSound, ClientIsSound, Ids
<1> QED BY <1>3, <1>4, <1>5, OneSessionChanges, SessionStep

\* A verdict is written on a row that waits for one, or on none.
LEMMA ScanStep ==
    ASSUME UploadsInv, NEW u \in Ids, NEW verdict \in {"clean", "infected"}, Scan(u, verdict)
    PROVE  UploadsInv'
<1> DEFINE w == [sessions[u] EXCEPT !.scan = verdict]
           s == IF u \in store /\ sessions[u].scan = "pending" THEN w ELSE sessions[u]
<1>1. SessionIsSound(u, sessions[u], store) /\ sessions[u] \in Session
  BY SessionFacts
<1>2. /\ w \in Session /\ w.status = sessions[u].status /\ w.scan = verdict
      /\ w.parts = sessions[u].parts
  BY <1>1 DEF Session
<1>3. SessionIsSound(u, s, store) /\ StaysCleared(sessions[u], s)
  BY <1>1, <1>2 DEF SessionIsSound, StaysCleared, Cleared
<1>4. /\ sessions' = [sessions EXCEPT ![u] = s]
      /\ tick' = [tick EXCEPT !.scans = tick.scans \ {u}]
      /\ UNCHANGED <<clients, arriving, requests, store, register, scanner, faults>>
  BY DEF Scan, UploadsInv, TypeOK
<1>5. tick' \in Tick
  BY <1>4 DEF UploadsInv, TypeOK, Tick
<1> HIDE DEF s
<1>6. clients' \in [Clients -> Client] /\ ClientsAreSound' /\ arriving' \subseteq Ids \X Parts
  BY <1>4 DEF UploadsInv, TypeOK, ClientsAreSound, ClientIsSound, Ids
<1> QED BY <1>3, <1>4, <1>5, <1>6, OneSessionChanges, SessionStep

\* The ticks that start, throw and die: no session is touched.
LEMMA TickStep ==
    ASSUME UploadsInv, StartTick \/ TickDies \/ \E u \in Ids : ScanThrows(u)
    PROVE  UploadsInv'
<1>1. UNCHANGED <<clients, sessions, arriving, requests, store, register, scanner>>
      /\ faults' \in 0..MaxFaults
  BY ParticularsKept DEF StartTick, TickDies, ScanThrows, EndTick
<1>2. tick' \in Tick
  <2>1. CASE StartTick
    <3> DEFINE scans == IF scanner = "none" THEN {}
                        ELSE {u \in Ids : sessions[u].scan = "pending"}
    <3>1. tick' = [running |-> TRUE, scans |-> scans] /\ scans \in SUBSET Ids
      BY <2>1 DEF StartTick
    <3> HIDE DEF scans
    <3> QED BY <3>1 DEF Tick
  <2>2. CASE TickDies \/ \E u \in Ids : ScanThrows(u)
    <3>1. tick' = NoTick
      BY <2>2 DEF TickDies, ScanThrows, EndTick
    <3> QED BY <3>1 DEF NoTick, Tick
  <2> QED BY <2>1, <2>2
<1>3. \A u \in Ids : /\ SessionIsSound(u, sessions'[u], store')
                     /\ StaysCleared(sessions[u], sessions'[u])
  BY <1>1, SessionFacts DEF StaysCleared
<1>4. /\ clients' \in [Clients -> Client] /\ ClientsAreSound' /\ arriving' \subseteq Ids \X Parts
      /\ sessions' \in [Ids -> Session] /\ store' \subseteq Ids
      /\ requests' \in [Ids -> [Requests -> {"free", "staged", "stored"}]]
  BY <1>1 DEF UploadsInv, TypeOK, ClientsAreSound, ClientIsSound, Ids
<1>5. StoredIsThere'
  BY <1>1 DEF UploadsInv, StoredIsThere, Ids
<1> QED BY <1>1, <1>2, <1>3, <1>4, <1>5, SoundStep

LEMMA SweepStep ==
    ASSUME UploadsInv, sweepAbandonedUploads
    PROVE  UploadsInv'
<1>1. ASSUME NEW u \in Ids
      PROVE  SessionIsSound(u, sessions'[u], store) /\ StaysCleared(sessions[u], sessions'[u])
  <2>1. SessionIsSound(u, sessions[u], store) /\ sessions[u] \in Session
    BY SessionFacts
  <2>2. sessions'[u] \in {sessions[u], Aborted(sessions[u], "aborted")}
    BY DEF sweepAbandonedUploads
  <2> QED BY <2>1, <2>2, AbortedIsSound DEF StaysCleared
<1>2. sessions' \in [Ids -> Session]
  <2>1. sessions' = [u \in Ids |-> sessions'[u]]
    BY DEF sweepAbandonedUploads
  <2> QED BY <1>1, <2>1 DEF SessionIsSound
<1>3. /\ UNCHANGED <<clients, arriving, requests, store, register, scanner, faults>>
      /\ tick' \in Tick
  BY DEF sweepAbandonedUploads, NoTick, Tick
<1>4. clients' \in [Clients -> Client] /\ ClientsAreSound' /\ arriving' \subseteq Ids \X Parts
  BY <1>3 DEF UploadsInv, TypeOK, ClientsAreSound, ClientIsSound, Ids
<1> QED BY <1>1, <1>2, <1>3, <1>4, SessionStep

\* What goes on the register is complete and cleared when it does.
LEMMA AttachStep ==
    ASSUME UploadsInv, NEW b \in Clients, Attach(b)
    PROVE  UploadsInv'
<1>1. /\ b \in Browsers /\ IdOf(b) \in Ids /\ ClientIsSound(b, clients[b])
      /\ clients' = [clients EXCEPT ![b] = Ended(clients[b])]
      /\ UNCHANGED <<sessions, arriving, requests, store, scanner, tick, faults>>
  BY ClientFacts DEF Attach
<1>2. clients' \in [Clients -> Client] /\ ClientsAreSound'
  BY <1>1, EndedIsSound, OneClientChanges
<1>3. register \in [Browsers -> Ids \cup {None}]
  BY DEF UploadsInv, TypeOK
<1>4. /\ register' \in [Browsers -> Ids \cup {None}]
      /\ \A d \in Browsers : \/ register'[d] = register[d]
                             \/ register'[d] = IdOf(b) /\ Attachable(sessions[IdOf(b)])
  BY <1>1, <1>3 DEF Attach
<1>5. TypeOK'
  BY <1>1, <1>2, <1>4 DEF UploadsInv, TypeOK, Ids
<1>6. PartsAreReclaimed' /\ StoredIsThere'
  BY <1>1 DEF UploadsInv, PartsAreReclaimed, StoredIsThere, Ids
<1>7. CitedIsOnFile'
  <2>1. \A u \in Ids : sessions'[u].status = "complete" => u \in store'
    BY <1>1 DEF UploadsInv, CitedIsOnFile
  <2>2. ASSUME NEW d \in Browsers, register'[d] # None
        PROVE  sessions'[register'[d]].status = "complete"
               /\ sessions'[register'[d]].scan \in Cleared
    BY <1>1, <1>4, <2>2 DEF UploadsInv, CitedIsOnFile, Attachable
  <2> QED BY <2>1, <2>2 DEF CitedIsOnFile, Ids, Cleared
<1> QED BY <1>2, <1>5, <1>6, <1>7 DEF UploadsInv

-----------------------------------------------------------------------------
LEMMA InitStep == Init => UploadsInv
<1> SUFFICES ASSUME Init PROVE UploadsInv
  OBVIOUS
<1>1. ASSUME NEW c \in Clients PROVE ClientIsSound(c, NewClient(c))
  <2>1. NewClient(c) \in Client
    BY UploadsAssumption DEF NewClient, Client
  <2>2. c \in Photos => <<c, NewClient(c).tries>> \in Ids /\ NewClient(c).resumes
    BY DEF NewClient, Ids
  <2>3. c \notin Photos => NewClient(c).doing = "idle" /\ ~NewClient(c).resumes
    BY DEF NewClient
  <2> QED BY <2>1, <2>2, <2>3 DEF ClientIsSound
<1>2. clients \in [Clients -> Client] /\ ClientsAreSound
  BY <1>1 DEF Init, ClientsAreSound, ClientIsSound
<1>3. NoSession \in Session /\ NoSession.status = "none" /\ NoSession.scan = "none"
      /\ NoSession.parts = {}
  BY DEF NoSession, Session, Statuses
<1>4. \A u \in Ids : sessions[u] = NoSession
  BY DEF Init
<1>5. TypeOK
  BY <1>2, <1>3, <1>4, UploadsAssumption DEF Init, TypeOK, Scanners, NoTick, Tick
<1>6. PartsAreReclaimed
  BY <1>3, <1>4 DEF PartsAreReclaimed
<1>7. StoredIsThere
  BY DEF Init, StoredIsThere
<1>8. CitedIsOnFile
  BY <1>3, <1>4 DEF Init, CitedIsOnFile
<1> QED BY <1>2, <1>5, <1>6, <1>7, <1>8 DEF UploadsInv

LEMMA NextStep == UploadsInv /\ [Next]_vars => UploadsInv'
<1> SUFFICES ASSUME UploadsInv, [Next]_vars PROVE UploadsInv'
  OBVIOUS
<1>1. ASSUME NEW c \in Clients,
             Begin(c) \/ Open(c) \/ Check(c) \/ GiveUp(c) \/ NotStaged(c) \/ AlreadyDone(c)
                \/ Attach(c)
      PROVE  UploadsInv'
  BY <1>1, BeginStep, OpenStep, CheckStep, EndStep, AttachStep
<1>2. ASSUME NEW c \in Clients, NEW i \in Parts, SendPart(c, i) \/ PartRefused(c, i)
      PROVE  UploadsInv'
  BY <1>2, PartStep
<1>3. ASSUME NEW c \in Clients, NEW r \in Requests, Stage(c, r)
      PROVE  UploadsInv'
  BY <1>3, StageStep
<1>4. ASSUME NEW u \in Ids, NEW i \in Parts, receiveChunk(u, i)
      PROVE  UploadsInv'
  BY <1>4, ReceiveStep
<1>5. ASSUME NEW u \in Ids, NEW r \in Requests,
             Discard(u, r) \/ Put(u, r) \/ completeUpload(u, r) \/ RequestDies(u, r)
      PROVE  UploadsInv'
  BY <1>5, DiscardStep, PutStep, CompleteStep, RequestDiesStep
<1>6. ASSUME NEW u \in Ids, Expire(u) PROVE UploadsInv'
  BY <1>6, ExpireStep
<1>7. CASE StartTick \/ TickWorks \/ TickDies
  BY <1>7, TickStep, ScanStep, SweepStep DEF TickWorks
<1>8. CASE UNCHANGED vars
  <2>1. /\ clients' \in [Clients -> Client] /\ ClientsAreSound'
        /\ arriving' \subseteq Ids \X Parts /\ faults' \in 0..MaxFaults
        /\ UNCHANGED <<sessions, requests, store, register, scanner, tick>>
    BY <1>8 DEF vars, UploadsInv, TypeOK, ClientsAreSound, ClientIsSound, Ids
  <2> QED BY <2>1, ClientStep
<1> QED BY <1>1, <1>2, <1>3, <1>4, <1>5, <1>6, <1>7, <1>8 DEF Next

\* UploadsInv holds in every reachable state: besides what follows, that a client at
\* work has an id, and that a request is past the store only if the object is in it.
THEOREM Invariance == Spec => []UploadsInv
BY InitStep, NextStep, PTL DEF Spec

\* The shape of the state, for any clients, parts and requests (the tables and the
\* machines of upload-file.ts and upload-runner.ts).
THEOREM TypeCorrect == Spec => []TypeOK
<1>1. UploadsInv => TypeOK
  BY DEF UploadsInv
<1> QED BY <1>1, Invariance, PTL

\* However many requests overlap and however late a part commits, no part is left to
\* a session that has ended (receiveChunk, completeUpload, abortUpload, the sweep).
THEOREM NoPartIsOrphaned == Spec => []PartsAreReclaimed
<1>1. UploadsInv => PartsAreReclaimed
  BY DEF UploadsInv
<1> QED BY <1>1, Invariance, PTL

\* Whatever dies between the store and the row, a complete session has its object,
\* and the register shows only what was cleared and stays so (completeStagedUpload,
\* resolveUploadedFile, recordUploadScan).
THEOREM CitationsHold == Spec => []CitedIsOnFile
<1>1. UploadsInv => CitedIsOnFile
  BY DEF UploadsInv
<1> QED BY <1>1, Invariance, PTL
=============================================================================
