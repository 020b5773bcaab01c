----------------------- MODULE NotificationQueue_proofs -----------------------
(***************************************************************************)
(* Proofs about NotificationQueue for any number of rows, dispatchers,     *)
(* attempts and deaths.                                                    *)
(***************************************************************************)
EXTENDS NotificationQueue, TLAPS

\* The rows a dispatcher has still to send or to mark.
InHand(d) ==
    dispatchers[d].claimed \cup
    (IF dispatchers[d].at = None THEN {} ELSE {dispatchers[d].at})

\* A claim is the status: whatever is in a dispatcher's hands is `sending`, is in
\* no other's, and is either to be sent or to be marked.
HeldIsSending ==
    \A d \in Dispatchers : \A n \in InHand(d) : queue[n].status = "sending"

OneHolder ==
    \A d, e \in Dispatchers : d # e => InHand(d) \cap InHand(e) = {}

SentIsNotClaimed ==
    \A d \in Dispatchers :
        dispatchers[d].at # None => dispatchers[d].at \notin dispatchers[d].claimed

\* Each attempt asks the provider at most once.
AskedIsCounted ==
    /\ \A n \in Notifications : provider[n].asked <= queue[n].attempts
    /\ \A d \in Dispatchers : \A n \in dispatchers[d].claimed :
          provider[n].asked < queue[n].attempts

QueueInv ==
    /\ TypeOK
    /\ HeldIsSending
    /\ OneHolder
    /\ SentIsNotClaimed
    /\ AskedIsCounted

-----------------------------------------------------------------------------
\* What the types say of one row and one dispatcher.
LEMMA RowFacts ==
    ASSUME TypeOK, NEW n \in Notifications
    PROVE  /\ queue[n] \in Row /\ provider[n] \in Provider
           /\ queue[n].status \in Statuses
           /\ queue[n].attempts \in Nat /\ queue[n].attempts <= MaxAttempts
           /\ provider[n].asked \in Nat /\ provider[n].taken \in BOOLEAN
<1>1. queue[n] \in Row /\ provider[n] \in Provider
  BY DEF TypeOK
<1> QED BY <1>1, NotificationQueueAssumption DEF Row, Provider

LEMMA DispatcherFacts ==
    ASSUME TypeOK, NEW d \in Dispatchers
    PROVE  /\ dispatchers[d] \in Dispatcher
           /\ dispatchers[d].claimed \subseteq Notifications
           /\ dispatchers[d].at \in Notifications \cup {None}
           /\ dispatchers[d].result \in Results \cup {None}
           /\ InHand(d) \subseteq Notifications
<1>1. dispatchers[d] \in Dispatcher
  BY DEF TypeOK
<1> QED BY <1>1 DEF Dispatcher, InHand

\* A dispatcher that lets go of rows, and writes none, preserves the invariant.
LEMMA LetGoStep ==
    ASSUME QueueInv, NEW d \in Dispatchers, NEW x \in Dispatcher,
           UNCHANGED <<queue, provider>>, faults' \in 0..MaxFaults,
           dispatchers' = [dispatchers EXCEPT ![d] = x],
           x.at # None => x.at \in InHand(d) /\ x.at \notin x.claimed,
           x.claimed \subseteq dispatchers[d].claimed
    PROVE  QueueInv'
<1>1. /\ dispatchers' \in [Dispatchers -> Dispatcher] /\ dispatchers'[d] = x
      /\ \A e \in Dispatchers \ {d} : dispatchers'[e] = dispatchers[e]
  BY DEF QueueInv, TypeOK
<1>2. TypeOK'
  BY <1>1 DEF QueueInv, TypeOK
<1>3. \A e \in Dispatchers : InHand(e)' \subseteq InHand(e)
  BY <1>1 DEF InHand
<1>4. HeldIsSending' /\ OneHolder'
  BY <1>3 DEF QueueInv, HeldIsSending, OneHolder
<1>5. SentIsNotClaimed'
  BY <1>1 DEF QueueInv, SentIsNotClaimed
<1>6. AskedIsCounted'
  BY <1>1 DEF QueueInv, AskedIsCounted
<1> QED BY <1>2, <1>4, <1>5, <1>6 DEF QueueInv

LEMMA EnqueueStep ==
    ASSUME QueueInv, NEW n \in Notifications, enqueue(n)
    PROVE  QueueInv'
<1>1. /\ queue[n] \in Row /\ queue[n].status = "none"
      /\ queue' = [queue EXCEPT ![n] = [queue[n] EXCEPT !.status = "queued"]]
      /\ UNCHANGED <<provider, dispatchers, faults>>
  BY RowFacts DEF enqueue, QueueInv
<1>2. /\ [queue[n] EXCEPT !.status = "queued"] \in Row
      /\ [queue[n] EXCEPT !.status = "queued"].attempts = queue[n].attempts
  BY <1>1 DEF Row, Statuses
<1>3. /\ queue' \in [Notifications -> Row]
      /\ \A m \in Notifications \ {n} : queue'[m] = queue[m]
      /\ \A m \in Notifications : queue'[m].attempts = queue[m].attempts
  BY <1>1, <1>2 DEF QueueInv, TypeOK
<1>4. \A d \in Dispatchers : InHand(d)' = InHand(d) /\ n \notin InHand(d)
                             /\ InHand(d) \subseteq Notifications
  BY <1>1, DispatcherFacts DEF QueueInv, HeldIsSending, InHand
<1>5. TypeOK'
  BY <1>1, <1>3 DEF QueueInv, TypeOK
<1>6. HeldIsSending' /\ OneHolder' /\ SentIsNotClaimed'
  BY <1>1, <1>3, <1>4 DEF QueueInv, HeldIsSending, OneHolder, SentIsNotClaimed
<1>7. AskedIsCounted'
  BY <1>1, <1>3, DispatcherFacts DEF QueueInv, AskedIsCounted
<1> QED BY <1>5, <1>6, <1>7 DEF QueueInv

\* SKIP LOCKED and the status together: what is claimed was in nobody's hands.
LEMMA ClaimStep ==
    ASSUME QueueInv, NEW d \in Dispatchers, NEW rows \in SUBSET Notifications, Claim(d, rows)
    PROVE  QueueInv'
<1> DEFINE x == [dispatchers[d] EXCEPT !.claimed = rows]
<1>1. dispatchers[d] \in Dispatcher /\ dispatchers[d].claimed = {} /\ dispatchers[d].at = None
  BY DispatcherFacts DEF QueueInv, Claim, Busy
<1>2. x \in Dispatcher /\ x.claimed = rows /\ x.at = None
  BY <1>1 DEF Dispatcher
<1>3. dispatchers' = [dispatchers EXCEPT ![d] = x] /\ UNCHANGED <<provider, faults>>
  BY DEF Claim
<1> HIDE DEF x
<1>4. /\ dispatchers' \in [Dispatchers -> Dispatcher] /\ dispatchers'[d] = x
      /\ \A e \in Dispatchers \ {d} : dispatchers'[e] = dispatchers[e]
  BY <1>2, <1>3 DEF QueueInv, TypeOK
<1>5. \A n \in rows : /\ queue'[n] = [status |-> "sending", attempts |-> queue[n].attempts + 1]
                      /\ queue[n].attempts < MaxAttempts
                      /\ queue[n].status # "sending"
  BY DEF Claim, Claimable
<1>6. \A n \in Notifications \ rows : queue'[n] = queue[n]
  BY DEF Claim
<1>7. \A n \in rows : /\ queue'[n] \in Row /\ queue'[n].status = "sending"
                      /\ queue'[n].attempts = queue[n].attempts + 1
  <2>1. ASSUME NEW n \in rows
        PROVE  queue[n].attempts \in Nat /\ queue[n].attempts + 1 \in 0..MaxAttempts
    <3>1. n \in Notifications /\ queue[n].attempts < MaxAttempts
      BY <1>5
    <3>2. queue[n].attempts \in Nat
      BY <3>1, RowFacts DEF QueueInv
    <3> QED BY <3>1, <3>2, NotificationQueueAssumption
  <2>2. ASSUME NEW a \in 0..MaxAttempts PROVE [status |-> "sending", attempts |-> a] \in Row
    BY DEF Row, Statuses
  <2>3. \A n \in rows : queue'[n] \in Row
    BY <1>5, <2>1, <2>2
  <2>4. \A n \in rows : queue'[n].status = "sending" /\ queue'[n].attempts = queue[n].attempts + 1
    <3>1. ASSUME NEW n \in rows, NEW a, queue'[n] = [status |-> "sending", attempts |-> a]
          PROVE  queue'[n].status = "sending" /\ queue'[n].attempts = a
      BY <3>1
    <3> QED BY <1>5, <3>1, Zenon
  <2> QED BY <2>3, <2>4
<1>8. queue' \in [Notifications -> Row]
  <2>1. \A n \in Notifications : queue'[n] \in Row
    BY <1>6, <1>7, RowFacts DEF QueueInv
  <2> QED BY <2>1 DEF Claim
<1>9. /\ InHand(d)' = rows
      /\ \A e \in Dispatchers \ {d} : InHand(e)' = InHand(e) /\ InHand(e) \cap rows = {}
                                      /\ InHand(e) \subseteq Notifications
  <2>1. InHand(d)' = rows
    BY <1>2, <1>4 DEF InHand
  <2>2. ASSUME NEW e \in Dispatchers \ {d}
        PROVE  InHand(e)' = InHand(e) /\ InHand(e) \cap rows = {} /\ InHand(e) \subseteq Notifications
    <3>1. InHand(e)' = InHand(e)
      BY <1>4 DEF InHand
    <3>2. InHand(e) \subseteq Notifications
      BY DispatcherFacts DEF QueueInv
    <3>3. \A n \in InHand(e) : queue[n].status = "sending"
      BY DEF QueueInv, HeldIsSending
    <3> QED BY <1>5, <3>1, <3>2, <3>3
  <2> QED BY <2>1, <2>2
<1>10. TypeOK'
  BY <1>3, <1>4, <1>8 DEF QueueInv, TypeOK
<1>11. HeldIsSending'
  <2>1. ASSUME NEW e \in Dispatchers, NEW n \in InHand(e)' PROVE queue'[n].status = "sending"
    <3>1. CASE e = d
      BY <1>7, <1>9, <3>1
    <3>2. CASE e # d
      <4>1. n \in InHand(e) /\ n \in Notifications \ rows
        BY <1>9, <2>1, <3>2
      <4> QED BY <1>6, <4>1 DEF QueueInv, HeldIsSending
    <3> QED BY <3>1, <3>2
  <2> QED BY <2>1 DEF HeldIsSending
<1>12. OneHolder'
  BY <1>9 DEF QueueInv, OneHolder
<1>13. SentIsNotClaimed'
  BY <1>2, <1>4 DEF QueueInv, SentIsNotClaimed
<1>14. AskedIsCounted'
  <2>1. \A n \in Notifications : provider[n].asked \in Nat /\ queue[n].attempts \in Nat
                                 /\ provider[n].asked <= queue[n].attempts
    BY RowFacts DEF QueueInv, AskedIsCounted
  <2>2. \A n \in Notifications : provider'[n].asked <= queue'[n].attempts
    BY <1>3, <1>6, <1>7, <2>1
  <2>3. ASSUME NEW e \in Dispatchers, NEW n \in dispatchers'[e].claimed
        PROVE  provider'[n].asked < queue'[n].attempts
    <3>1. CASE e = d
      BY <1>2, <1>3, <1>4, <1>7, <2>1, <2>3, <3>1
    <3>2. CASE e # d
      <4>1. n \in dispatchers[e].claimed
        BY <1>4, <2>3, <3>2
      <4>2. n \in Notifications \ rows
        BY <1>9, <3>2, <4>1 DEF InHand
      <4> QED BY <1>3, <1>6, <4>1, <4>2 DEF QueueInv, AskedIsCounted
    <3> QED BY <3>1, <3>2
  <2> QED BY <2>2, <2>3 DEF AskedIsCounted
<1> QED BY <1>10, <1>11, <1>12, <1>13, <1>14 DEF QueueInv

\* What Send, Unsendable and Log do to the dispatcher.
LEMMA SentFacts ==
    ASSUME QueueInv, NEW d \in Dispatchers, NEW n \in Notifications, NEW result \in Results,
           Sent(d, n, result)
    PROVE  \E x \in Dispatcher :
              /\ dispatchers' = [dispatchers EXCEPT ![d] = x]
              /\ x.claimed = dispatchers[d].claimed \ {n} /\ x.at = n
              /\ n \in dispatchers[d].claimed /\ dispatchers[d].at = None
              /\ UNCHANGED <<queue, faults>>
<1> DEFINE x == [claimed |-> dispatchers[d].claimed \ {n}, at |-> n, result |-> result]
<1>1. x \in Dispatcher
  BY DispatcherFacts DEF QueueInv, Dispatcher
<1>2. dispatchers' = [dispatchers EXCEPT ![d] = x]
  BY DEF Sent
<1> QED BY <1>1, <1>2 DEF Sent

\* A row that is answered without asking the provider only changes hands.
LEMMA QuietStep ==
    ASSUME QueueInv, NEW d \in Dispatchers, NEW n \in Notifications, NEW result \in Results,
           Sent(d, n, result), UNCHANGED provider
    PROVE  QueueInv'
<1>1. PICK x \in Dispatcher :
              /\ dispatchers' = [dispatchers EXCEPT ![d] = x]
              /\ x.claimed = dispatchers[d].claimed \ {n} /\ x.at = n
              /\ n \in dispatchers[d].claimed /\ dispatchers[d].at = None
              /\ UNCHANGED <<queue, faults>>
  BY SentFacts
<1>2. faults' \in 0..MaxFaults
  BY <1>1 DEF QueueInv, TypeOK
<1>3. n \in InHand(d)
  BY <1>1 DEF InHand
<1> QED BY <1>1, <1>2, <1>3, LetGoStep

\* The provider is asked for a row that is `sending` and is claimed by nobody then.
LEMMA SendStep ==
    ASSUME QueueInv, NEW d \in Dispatchers, NEW n \in Notifications, NEW result \in Results,
           Send(d, n, result)
    PROVE  QueueInv'
<1>1. PICK x \in Dispatcher :
              /\ dispatchers' = [dispatchers EXCEPT ![d] = x]
              /\ x.claimed = dispatchers[d].claimed \ {n} /\ x.at = n
              /\ n \in dispatchers[d].claimed /\ dispatchers[d].at = None
              /\ UNCHANGED <<queue, faults>>
  BY SentFacts DEF Send
<1>2. /\ dispatchers' \in [Dispatchers -> Dispatcher] /\ dispatchers'[d] = x
      /\ \A e \in Dispatchers \ {d} : dispatchers'[e] = dispatchers[e]
  BY <1>1 DEF QueueInv, TypeOK
<1>3. PICK taken \in BOOLEAN :
         provider' = [provider EXCEPT
                         ![n] = [asked |-> @.asked + 1, taken |-> @.taken \/ taken]]
  BY DEF Send
<1> DEFINE y == [asked |-> provider[n].asked + 1, taken |-> provider[n].taken \/ taken]
<1>4. provider' = [provider EXCEPT ![n] = y]
  BY <1>3
<1>6. provider[n].asked < queue[n].attempts
  BY <1>1 DEF QueueInv, AskedIsCounted
<1>7. y \in Provider
  <2>1. provider[n].asked + 1 \in 0..MaxAttempts
    BY <1>6, RowFacts, NotificationQueueAssumption DEF QueueInv
  <2>2. (provider[n].taken \/ taken) \in BOOLEAN
    OBVIOUS
  <2> QED BY <2>1, <2>2 DEF Provider
<1>8. /\ provider' \in [Notifications -> Provider] /\ provider'[n].asked = provider[n].asked + 1
      /\ \A m \in Notifications \ {n} : provider'[m] = provider[m]
  BY <1>4, <1>7 DEF QueueInv, TypeOK
<1>9. \A e \in Dispatchers : InHand(e)' \subseteq InHand(e)
  BY <1>1, <1>2 DEF InHand
<1>10. TypeOK'
  BY <1>1, <1>2, <1>8 DEF QueueInv, TypeOK
<1>11. HeldIsSending' /\ OneHolder'
  BY <1>1, <1>9 DEF QueueInv, HeldIsSending, OneHolder
<1>12. SentIsNotClaimed'
  BY <1>1, <1>2 DEF QueueInv, SentIsNotClaimed
<1>13. AskedIsCounted'
  <2>1. \A m \in Notifications : provider'[m].asked <= queue'[m].attempts
    BY <1>1, <1>6, <1>8, RowFacts DEF QueueInv, AskedIsCounted
  <2>2. ASSUME NEW e \in Dispatchers, NEW m \in dispatchers'[e].claimed
        PROVE  provider'[m].asked < queue'[m].attempts
    <3>1. m \in dispatchers[e].claimed /\ (e = d => m # n)
      BY <1>1, <1>2, <2>2
    <3>2. e # d => m # n
      <4>1. e # d => InHand(d) \cap InHand(e) = {}
        BY DEF QueueInv, OneHolder
      <4>2. n \in InHand(d) /\ m \in InHand(e)
        BY <1>1, <3>1 DEF InHand
      <4> QED BY <4>1, <4>2
    <3>3. m \in Notifications
      BY <3>1, DispatcherFacts DEF QueueInv
    <3> QED BY <1>1, <1>8, <3>1, <3>2, <3>3 DEF QueueInv, AskedIsCounted
  <2> QED BY <2>1, <2>2 DEF AskedIsCounted
<1> QED BY <1>10, <1>11, <1>12, <1>13 DEF QueueInv

\* mark writes by id; the row is still this dispatcher's.
LEMMA MarkStep ==
    ASSUME QueueInv, NEW d \in Dispatchers, Mark(d)
    PROVE  QueueInv'
<1> DEFINE n == dispatchers[d].at
           x == [dispatchers[d] EXCEPT !.at = None, !.result = None]
           row == [status   |-> IF dispatchers[d].result = "ok" THEN "sent" ELSE "failed",
                   attempts |-> IF GivesUp(dispatchers[d]) THEN MaxAttempts ELSE queue[n].attempts]
<1>1. /\ n \in Notifications /\ n # None
      /\ dispatchers[d] \in Dispatcher
      /\ n \notin dispatchers[d].claimed
      /\ n \in InHand(d)
  BY DispatcherFacts DEF QueueInv, Mark, SentIsNotClaimed, InHand
<1>2. x \in Dispatcher /\ x.at = None /\ x.claimed = dispatchers[d].claimed
  BY <1>1 DEF Dispatcher
<1>3. /\ queue' = [queue EXCEPT ![n] = row] /\ dispatchers' = [dispatchers EXCEPT ![d] = x]
      /\ UNCHANGED <<provider, faults>>
  BY DEF Mark
<1>4. row \in Row /\ row.attempts \in Nat /\ queue[n].attempts <= row.attempts
  <2>1. row.attempts \in {MaxAttempts, queue[n].attempts}
    OBVIOUS
  <2>2. row.status \in Statuses
    BY DEF Statuses
  <2>3. row.attempts \in 0..MaxAttempts /\ queue[n].attempts <= row.attempts
    BY <1>1, <2>1, RowFacts, NotificationQueueAssumption DEF QueueInv
  <2> QED BY <2>2, <2>3 DEF Row
<1> HIDE DEF n, x, row
<1>5. /\ dispatchers' \in [Dispatchers -> Dispatcher] /\ dispatchers'[d] = x
      /\ \A e \in Dispatchers \ {d} : dispatchers'[e] = dispatchers[e]
      /\ queue' \in [Notifications -> Row] /\ queue'[n] = row
      /\ \A m \in Notifications \ {n} : queue'[m] = queue[m]
  BY <1>1, <1>2, <1>3, <1>4 DEF QueueInv, TypeOK
<1>6. TypeOK'
  BY <1>3, <1>5 DEF QueueInv, TypeOK
<1>7. \A e \in Dispatchers : InHand(e)' \subseteq InHand(e) \ {n}
  <2>1. InHand(d)' \subseteq InHand(d) \ {n}
    BY <1>1, <1>2, <1>5 DEF InHand
  <2>2. ASSUME NEW e \in Dispatchers \ {d} PROVE InHand(e)' \subseteq InHand(e) \ {n}
    <3>1. InHand(e)' = InHand(e)
      BY <1>5 DEF InHand
    <3>2. InHand(d) \cap InHand(e) = {}
      BY DEF QueueInv, OneHolder
    <3> QED BY <1>1, <3>1, <3>2
  <2> QED BY <2>1, <2>2
<1>8. HeldIsSending'
  <2>1. ASSUME NEW e \in Dispatchers, NEW m \in InHand(e)' PROVE queue'[m].status = "sending"
    <3>1. m \in InHand(e) /\ m # n /\ m \in Notifications
      BY <1>7, <2>1, DispatcherFacts DEF QueueInv
    <3> QED BY <1>5, <3>1 DEF QueueInv, HeldIsSending
  <2> QED BY <2>1 DEF HeldIsSending
<1>9. OneHolder'
  BY <1>7 DEF QueueInv, OneHolder
<1>10. SentIsNotClaimed'
  BY <1>2, <1>5 DEF QueueInv, SentIsNotClaimed
<1>11. AskedIsCounted'
  <2>1. \A m \in Notifications : provider'[m].asked <= queue'[m].attempts
    BY <1>1, <1>3, <1>4, <1>5, RowFacts DEF QueueInv, AskedIsCounted
  <2>2. ASSUME NEW e \in Dispatchers, NEW m \in dispatchers'[e].claimed
        PROVE  provider'[m].asked < queue'[m].attempts
    <3>1. m \in dispatchers[e].claimed /\ m \in InHand(e)'
      BY <1>2, <1>5, <2>2 DEF InHand
    <3>2. m \in Notifications \ {n}
      BY <1>7, <3>1, DispatcherFacts DEF QueueInv
    <3> QED BY <1>3, <1>5, <3>1, <3>2 DEF QueueInv, AskedIsCounted
  <2> QED BY <2>1, <2>2 DEF AskedIsCounted
<1> QED BY <1>6, <1>8, <1>9, <1>10, <1>11 DEF QueueInv

\* A dispatcher that dies leaves its rows `sending`, in nobody's hands.
LEMMA DieStep ==
    ASSUME QueueInv, NEW d \in Dispatchers, Die(d)
    PROVE  QueueInv'
<1>1. Idle \in Dispatcher /\ Idle.at = None /\ Idle.claimed = {}
  BY DEF Idle, Dispatcher
<1>2. faults' \in 0..MaxFaults
  BY NotificationQueueAssumption DEF QueueInv, TypeOK, Die
<1> QED BY <1>1, <1>2, LetGoStep DEF Die

-----------------------------------------------------------------------------
LEMMA InitStep == Init => QueueInv
<1> SUFFICES ASSUME Init PROVE QueueInv
  OBVIOUS
<1>1. TypeOK
  BY NotificationQueueAssumption
  DEF Init, TypeOK, Row, Statuses, Provider, Dispatcher, Idle, Results
<1>2. \A d \in Dispatchers : InHand(d) = {} /\ dispatchers[d].claimed = {}
  BY DEF Init, Idle, InHand
<1>3. \A n \in Notifications : provider[n].asked = 0 /\ queue[n].attempts = 0
  BY DEF Init
<1>4. \A d \in Dispatchers : dispatchers[d].at = None
  BY DEF Init, Idle
<1> QED BY <1>1, <1>2, <1>3, <1>4
        DEF QueueInv, HeldIsSending, OneHolder, SentIsNotClaimed, AskedIsCounted

\* An action of a dispatcher, or the commit of what is announced.
LEMMA Steps ==
    ASSUME Next
    PROVE  \/ \E n \in Notifications : enqueue(n)
           \/ \E d \in Dispatchers, rows \in SUBSET Notifications : Claim(d, rows)
           \/ \E d \in Dispatchers, n \in Notifications, result \in Results :
                 Send(d, n, result) \/ (Sent(d, n, result) /\ UNCHANGED provider)
           \/ \E d \in Dispatchers : Mark(d) \/ Die(d)
<1>1. "ok" \in Results
  BY DEF Results
<1>2. ASSUME NEW d \in Dispatchers, NEW n \in Notifications, Log(d, n)
      PROVE  Sent(d, n, "ok") /\ UNCHANGED provider
  BY <1>2 DEF Log
<1>3. ASSUME NEW d \in Dispatchers, NEW n \in Notifications, NEW result \in Results,
             Unsendable(d, n, result)
      PROVE  Sent(d, n, result) /\ UNCHANGED provider
  BY <1>3 DEF Unsendable
<1> QED BY <1>1, <1>2, <1>3 DEF Next, Work, Claims

LEMMA NextStep == QueueInv /\ [Next]_vars => QueueInv'
<1> SUFFICES ASSUME QueueInv, [Next]_vars PROVE QueueInv'
  OBVIOUS
<1>1. CASE Next
  BY <1>1, Steps, EnqueueStep, ClaimStep, SendStep, QuietStep, MarkStep, DieStep
<1>2. CASE UNCHANGED vars
  BY <1>2 DEF vars, QueueInv, TypeOK, HeldIsSending, OneHolder, SentIsNotClaimed,
              AskedIsCounted, InHand
<1> QED BY <1>1, <1>2

\* QueueInv holds in every reachable state: a row in a dispatcher's hands is
\* `sending` and in nobody else's, and the provider was asked no more than counted.
THEOREM Invariance == Spec => []QueueInv
BY InitStep, NextStep, PTL DEF Spec

\* No row is claimed, and no provider asked, more than MAX_ATTEMPTS times, however
\* many dispatchers run and die (dispatchPending).
THEOREM TypeCorrect == Spec => []TypeOK
<1>1. QueueInv => TypeOK
  BY DEF QueueInv
<1> QED BY <1>1, Invariance, PTL

-----------------------------------------------------------------------------
\* A row that is marked sent is in nobody's hands, so that nobody writes or sends it.
LEMMA FinalStep ==
    ASSUME QueueInv, [Next]_vars, NEW n \in Notifications, queue[n].status = "sent"
    PROVE  queue'[n] = queue[n] /\ provider'[n] = provider[n]
<1>1. \A d \in Dispatchers : n \notin InHand(d)
  BY DEF QueueInv, HeldIsSending
<1>2. queue \in [Notifications -> Row] /\ provider \in [Notifications -> Provider]
  BY DEF QueueInv, TypeOK
<1>3. ASSUME NEW m \in Notifications, enqueue(m) PROVE queue'[n] = queue[n] /\ provider'[n] = provider[n]
  BY <1>2, <1>3 DEF enqueue
<1>4. ASSUME NEW d \in Dispatchers, NEW rows \in SUBSET Notifications, Claim(d, rows)
      PROVE  queue'[n] = queue[n] /\ provider'[n] = provider[n]
  BY <1>4 DEF Claim, Claimable
<1>5. ASSUME NEW d \in Dispatchers, NEW m \in Notifications, NEW result \in Results,
             Send(d, m, result)
      PROVE  queue'[n] = queue[n] /\ provider'[n] = provider[n]
  <2>1. m # n
    BY <1>1, <1>5 DEF Send, Sent, InHand
  <2> QED BY <1>2, <1>5, <2>1 DEF Send, Sent
<1>6. ASSUME NEW d \in Dispatchers, NEW m \in Notifications, NEW result \in Results,
             Sent(d, m, result), UNCHANGED provider
      PROVE  queue'[n] = queue[n] /\ provider'[n] = provider[n]
  BY <1>6 DEF Sent
<1>7. ASSUME NEW d \in Dispatchers, Mark(d) PROVE queue'[n] = queue[n] /\ provider'[n] = provider[n]
  <2>1. dispatchers[d].at # n
    BY <1>1, <1>7 DEF Mark, InHand
  <2> QED BY <1>2, <1>7, <2>1 DEF Mark
<1>8. ASSUME NEW d \in Dispatchers, Die(d) PROVE queue'[n] = queue[n] /\ provider'[n] = provider[n]
  BY <1>8 DEF Die
<1>9. CASE UNCHANGED vars
  BY <1>9 DEF vars
<1> QED BY <1>3, <1>4, <1>5, <1>6, <1>7, <1>8, <1>9, Steps

\* What one dispatcher has marked sent is neither written nor asked for again by
\* any other, however they overlap (dispatchPending's claim, mark).
THEOREM SentStaysSent == Spec => SentIsFinal
<1> DEFINE Final(n) ==
      queue[n].status = "sent" =>
          /\ queue'[n] = queue[n]
          /\ provider'[n] = provider[n]
<1>1. QueueInv /\ [Next]_vars => [\A n \in Notifications : Final(n)]_vars
  BY FinalStep
<1> QED BY <1>1, Invariance, PTL DEF Spec, SentIsFinal
=============================================================================
