---------------------------- MODULE OutboxProofs ----------------------------
(***************************************************************************)
(* Proofs about the outbox, for every set of events and workers, every     *)
(* batch size, attempt limit and number of faults.                         *)
(*                                                                         *)
(* The safety properties follow from IInv; that the relay implements       *)
(* EventDelivery follows from it step by step; how many copies the broker  *)
(* takes is counted at the end (CopiesCounted).                            *)
(***************************************************************************)
EXTENDS Outbox, FiniteSetTheorems, TLAPS

(* The initial tables and workers are typed. *)
LEMMA TypeInit == Init => TypeOK
  BY SizesAssumption DEF Init, TypeOK, AbsentRow, Row, Status, PC, Told

(* Every action keeps the types. *)
LEMMA TypeStep ==
  ASSUME TypeOK, [Next]_vars
  PROVE  TypeOK'
<1> USE SizesAssumption DEF TypeOK
<1>1. ASSUME NEW S \in SUBSET Events, Store(S) PROVE TypeOK'
  BY <1>1 DEF Store, AbsentRow, Row, Status
<1>2. ASSUME NEW w \in Workers, ClaimSelect(w) PROVE TypeOK'
  BY <1>2 DEF ClaimSelect, PC, Claimable
<1>3. ASSUME NEW w \in Workers, ClaimUpdate(w) PROVE TypeOK'
  <2>0. outbox' = [e \in Events |-> IF e \in batch[w]
                                   THEN [outbox[e] EXCEPT !.lock = "fresh", !.lockedBy = w]
                                   ELSE outbox[e]]
    BY <1>3 DEF ClaimUpdate
  <2>a. \A e \in Events : [outbox[e] EXCEPT !.lock = "fresh", !.lockedBy = w] \in Row
    BY ZenonT(60) DEF Row
  <2>1. outbox' \in [Events -> Row]
    BY <2>0, <2>a, Zenon
  <2>2. seen' \in [Workers -> [Events -> Nat]]
    BY <1>3 DEF ClaimUpdate, Row
  <2>3. overlaps' \in [Events -> Nat]
    <3>1. overlaps' = [e \in Events |-> IF e \in batch[w] /\ ~Claimable(e)
                                       THEN overlaps[e] + 1 ELSE overlaps[e]]
      BY <1>3 DEF ClaimUpdate
    <3>2. \A e \in Events : overlaps[e] \in Nat /\ overlaps[e] + 1 \in Nat
      OBVIOUS
    <3> QED BY <3>1, <3>2, Zenon
  <2> QED BY <1>3, <2>1, <2>2, <2>3 DEF ClaimUpdate, PC
<1>4. ASSUME NEW w \in Workers, ListenersSucceed(w) PROVE TypeOK'
  BY <1>4 DEF ListenersSucceed, PC, Told
<1>5. ASSUME NEW w \in Workers, ListenerThrows(w) PROVE TypeOK'
  BY <1>5 DEF ListenerThrows, PC, Told
<1>6. ASSUME NEW w \in Workers, PublishReturns(w) PROVE TypeOK'
  BY <1>6 DEF PublishReturns, PC
<1>7. ASSUME NEW w \in Workers, PublishThrows(w) PROVE TypeOK'
  BY <1>7 DEF PublishThrows, Fail, PC
<1>8. ASSUME NEW w \in Workers, MarkPublished(w) PROVE TypeOK'
  <2>1. PICK e \in Events :
          /\ outbox' = IF outbox[e].lockedBy = w
                       THEN [outbox EXCEPT ![e] = PublishedRow(@)]
                       ELSE outbox
          /\ Settle(w, e)
    BY <1>8 DEF MarkPublished
  <2>2. outbox' \in [Events -> Row]
    BY <2>1, ZenonT(60) DEF PublishedRow, Row, Status
  <2> QED BY <1>8, <2>1, <2>2 DEF MarkPublished, Settle, PC
<1>9. ASSUME NEW w \in Workers, MarkFailed(w) PROVE TypeOK'
  <2>1. PICK e \in Events :
          /\ outbox' = IF outbox[e].lockedBy = w
                       THEN [outbox EXCEPT ![e] = FailedRow(seen[w][e])]
                       ELSE outbox
          /\ Settle(w, e)
    BY <1>9 DEF MarkFailed
  <2>2. FailedRow(seen[w][e]) \in Row
    <3>1. CASE seen[w][e] + 1 >= MaxAttempts
      BY <3>1 DEF FailedRow, Row, Status
    <3>2. CASE ~(seen[w][e] + 1 >= MaxAttempts)
      BY <3>2 DEF FailedRow, Row, Status
    <3> QED BY <3>1, <3>2
  <2>3. outbox' \in [Events -> Row]
    BY <2>1, <2>2
  <2> QED BY <1>9, <2>1, <2>3 DEF MarkFailed, Settle, PC
<1>10. ASSUME NEW w \in Workers, MarkPublishedThrows(w) PROVE TypeOK'
  BY <1>10 DEF MarkPublishedThrows, Fault, Fail, PC
<1>11. ASSUME NEW w \in Workers, Abandon(w) PROVE TypeOK'
  BY <1>11 DEF Abandon, Fault, PC
<1>12. ASSUME NEW e \in Events, LeaseOverrun(e) PROVE TypeOK'
  <2>1. outbox' \in [Events -> Row]
    BY <1>12 DEF LeaseOverrun, Expire, Row
  <2>2. faults' \in 0 .. MaxFaults
    BY <1>12 DEF LeaseOverrun, Fault
  <2> QED BY <1>12, <2>1, <2>2 DEF LeaseOverrun
<1>13. ASSUME NEW e \in Events, OrphanLeaseExpires(e) PROVE TypeOK'
  BY <1>13 DEF OrphanLeaseExpires, Expire, Row
<1>14. ASSUME NEW e \in Events, RetryDue(e) PROVE TypeOK'
  BY <1>14 DEF RetryDue, Row
<1>15. UNCHANGED vars => TypeOK'
  BY DEF vars
<1> QED
  BY <1>1, <1>2, <1>3, <1>4, <1>5, <1>6, <1>7, <1>8, <1>9, <1>10, <1>11, <1>12,
     <1>13, <1>14, <1>15 DEF Next, Tick

(* Every variable keeps its type. *)
THEOREM TypeCorrect == Spec => []TypeOK
  BY TypeInit, TypeStep, PTL DEF Spec

(* The message of the loop is one message. *)
LEMMA CurrentUnique ==
  ASSUME TypeOK, NEW w \in Workers, NEW e \in Events, NEW f \in Events,
         Current(w, e), Current(w, f)
  PROVE  e = f
  BY EventsAssumption DEF TypeOK, Current

(* A row is marked PUBLISHED only behind a broker that took its event. *)
LEMMA SentStep ==
  ASSUME TypeOK, SentBeforeMark, [Next]_vars
  PROVE  SentBeforeMark'
<1> USE DEF TypeOK, Row, PC, PublishedWasSent, SentBeforeMark, Current
<1>1. ASSUME NEW S \in SUBSET Events, Store(S)
      PROVE  SentBeforeMark'
  BY <1>1 DEF Store, AbsentRow
<1>2. ASSUME NEW v \in Workers, ClaimSelect(v)
      PROVE  SentBeforeMark'
  BY <1>2 DEF ClaimSelect
<1>3. ASSUME NEW v \in Workers, ClaimUpdate(v)
      PROVE  SentBeforeMark'
  BY <1>3 DEF ClaimUpdate
<1>4. ASSUME NEW v \in Workers, ListenersSucceed(v)
      PROVE  SentBeforeMark'
  BY <1>4 DEF ListenersSucceed
<1>5. ASSUME NEW v \in Workers, ListenerThrows(v)
      PROVE  SentBeforeMark'
  BY <1>5 DEF ListenerThrows
<1>6. ASSUME NEW v \in Workers, PublishReturns(v)
      PROVE  SentBeforeMark'
  BY <1>6, CurrentUnique DEF PublishReturns
<1>7. ASSUME NEW v \in Workers, PublishThrows(v)
      PROVE  SentBeforeMark'
  <2>1. \A f \in Events : sent'[f] \in Nat /\ sent'[f] >= sent[f]
    BY <1>7 DEF PublishThrows
  <2>2. outbox' = outbox /\ batch' = batch /\ pc' = [pc EXCEPT ![v] = "failing"]
    BY <1>7 DEF PublishThrows, Fail
  <2> QED BY <2>1, <2>2
<1>8. ASSUME NEW v \in Workers, MarkPublished(v)
      PROVE  SentBeforeMark'
  BY <1>8 DEF MarkPublished, Settle, PublishedRow
<1>9. ASSUME NEW v \in Workers, MarkFailed(v)
      PROVE  SentBeforeMark'
  BY <1>9 DEF MarkFailed, Settle, FailedRow
<1>10. ASSUME NEW v \in Workers, MarkPublishedThrows(v)
      PROVE  SentBeforeMark'
  BY <1>10 DEF MarkPublishedThrows, Fail
<1>11. ASSUME NEW v \in Workers, Abandon(v)
      PROVE  SentBeforeMark'
  BY <1>11 DEF Abandon
<1>12. ASSUME NEW e \in Events, LeaseOverrun(e)
      PROVE  SentBeforeMark'
  BY <1>12 DEF LeaseOverrun, Expire
<1>13. ASSUME NEW e \in Events, OrphanLeaseExpires(e)
      PROVE  SentBeforeMark'
  BY <1>13 DEF OrphanLeaseExpires, Expire
<1>14. ASSUME NEW e \in Events, RetryDue(e)
      PROVE  SentBeforeMark'
  BY <1>14 DEF RetryDue
<1>15. UNCHANGED vars => SentBeforeMark'
  BY DEF vars
<1> QED
  BY <1>1, <1>2, <1>3, <1>4, <1>5, <1>6, <1>7, <1>8,
     <1>9, <1>10, <1>11, <1>12, <1>13, <1>14, <1>15 DEF Next, Tick

(* Publishing starts only after the listeners of the message of the loop were called. *)
LEMMA ToldStep ==
  ASSUME TypeOK, ToldBeforePublish, [Next]_vars
  PROVE  ToldBeforePublish'
<1> USE DEF TypeOK, Row, PC, ToldBeforePublish, Current
<1>1. ASSUME NEW S \in SUBSET Events, Store(S)
      PROVE  ToldBeforePublish'
  BY <1>1 DEF Store, AbsentRow
<1>2. ASSUME NEW v \in Workers, ClaimSelect(v)
      PROVE  ToldBeforePublish'
  BY <1>2 DEF ClaimSelect
<1>3. ASSUME NEW v \in Workers, ClaimUpdate(v)
      PROVE  ToldBeforePublish'
  BY <1>3 DEF ClaimUpdate
<1>4. ASSUME NEW v \in Workers, ListenersSucceed(v)
      PROVE  ToldBeforePublish'
  BY <1>4, CurrentUnique DEF ListenersSucceed
<1>5. ASSUME NEW v \in Workers, ListenerThrows(v)
      PROVE  ToldBeforePublish'
  <2>1. PICK e \in Events :
          Current(v, e) /\ told' = [told EXCEPT ![e] = IF told[e] = "heard" THEN "heard"
                                                                         ELSE "failed"]
    BY <1>5 DEF ListenerThrows
  <2>2. \A f \in Events : told[f] # "never" => told'[f] # "never"
    BY <2>1
  <2>3. told'[e] # "never"
    BY <2>1
  <2>4. pc' = [pc EXCEPT ![v] = "publish"] /\ UNCHANGED batch
    BY <1>5 DEF ListenerThrows
  <2> QED BY <2>1, <2>2, <2>3, <2>4, CurrentUnique
<1>6. ASSUME NEW v \in Workers, PublishReturns(v)
      PROVE  ToldBeforePublish'
  BY <1>6 DEF PublishReturns
<1>7. ASSUME NEW v \in Workers, PublishThrows(v)
      PROVE  ToldBeforePublish'
  BY <1>7 DEF PublishThrows, Fail
<1>8. ASSUME NEW v \in Workers, MarkPublished(v)
      PROVE  ToldBeforePublish'
  BY <1>8 DEF MarkPublished, Settle, PublishedRow
<1>9. ASSUME NEW v \in Workers, MarkFailed(v)
      PROVE  ToldBeforePublish'
  BY <1>9 DEF MarkFailed, Settle, FailedRow
<1>10. ASSUME NEW v \in Workers, MarkPublishedThrows(v)
      PROVE  ToldBeforePublish'
  BY <1>10 DEF MarkPublishedThrows, Fail
<1>11. ASSUME NEW v \in Workers, Abandon(v)
      PROVE  ToldBeforePublish'
  BY <1>11 DEF Abandon
<1>12. ASSUME NEW e \in Events, LeaseOverrun(e)
      PROVE  ToldBeforePublish'
  BY <1>12 DEF LeaseOverrun, Expire
<1>13. ASSUME NEW e \in Events, OrphanLeaseExpires(e)
      PROVE  ToldBeforePublish'
  BY <1>13 DEF OrphanLeaseExpires, Expire
<1>14. ASSUME NEW e \in Events, RetryDue(e)
      PROVE  ToldBeforePublish'
  BY <1>14 DEF RetryDue
<1>15. UNCHANGED vars => ToldBeforePublish'
  BY DEF vars
<1> QED
  BY <1>1, <1>2, <1>3, <1>4, <1>5, <1>6, <1>7, <1>8,
     <1>9, <1>10, <1>11, <1>12, <1>13, <1>14, <1>15 DEF Next, Tick

(* A claim reads the row it leases, and only a holder writes attempt_count. *)
LEMMA HolderStep ==
  ASSUME TypeOK, HolderReadIsCurrent, [Next]_vars
  PROVE  HolderReadIsCurrent'
<1> USE DEF TypeOK, Row, PC, HolderReadIsCurrent, AtWork
<1>1. ASSUME NEW S \in SUBSET Events, Store(S)
      PROVE  HolderReadIsCurrent'
  BY <1>1, WorkersAssumption DEF Store, AbsentRow
<1>2. ASSUME NEW v \in Workers, ClaimSelect(v)
      PROVE  HolderReadIsCurrent'
  BY <1>2 DEF ClaimSelect
<1>3. ASSUME NEW v \in Workers, ClaimUpdate(v)
      PROVE  HolderReadIsCurrent'
  <2> SUFFICES ASSUME NEW w \in Workers, NEW e \in Events,
                      AtWork(w, e)', (outbox[e].lockedBy = w)'
               PROVE  (seen[w][e] = outbox[e].attemptCount)'
    OBVIOUS
  <2>0. outbox'[e] = IF e \in batch[v]
                     THEN [outbox[e] EXCEPT !.lock = "fresh", !.lockedBy = v] ELSE outbox[e]
    BY <1>3 DEF ClaimUpdate
  <2>1. outbox'[e].attemptCount = outbox[e].attemptCount
    BY <2>0
  <2>2. CASE e \in batch[v]
    <3>1. w = v
      BY <2>0, <2>2
    <3> QED BY <1>3, <2>1, <2>2, <3>1 DEF ClaimUpdate
  <2>3. CASE e \notin batch[v]
    <3>1. w # v /\ outbox'[e] = outbox[e]
      BY <1>3, <2>3 DEF ClaimUpdate
    <3>2. AtWork(w, e) /\ seen'[w] = seen[w]
      BY <1>3, <3>1 DEF ClaimUpdate
    <3> QED BY <2>1, <3>1, <3>2
  <2> QED BY <2>2, <2>3
<1>4. ASSUME NEW v \in Workers, ListenersSucceed(v)
      PROVE  HolderReadIsCurrent'
  BY <1>4 DEF ListenersSucceed
<1>5. ASSUME NEW v \in Workers, ListenerThrows(v)
      PROVE  HolderReadIsCurrent'
  BY <1>5 DEF ListenerThrows
<1>6. ASSUME NEW v \in Workers, PublishReturns(v)
      PROVE  HolderReadIsCurrent'
  BY <1>6 DEF PublishReturns
<1>7. ASSUME NEW v \in Workers, PublishThrows(v)
      PROVE  HolderReadIsCurrent'
  BY <1>7 DEF PublishThrows, Fail
<1>8. ASSUME NEW v \in Workers, MarkPublished(v)
      PROVE  HolderReadIsCurrent'
  BY <1>8, WorkersAssumption DEF MarkPublished, Settle, PublishedRow
<1>9. ASSUME NEW v \in Workers, MarkFailed(v)
      PROVE  HolderReadIsCurrent'
  BY <1>9, WorkersAssumption DEF MarkFailed, Settle, FailedRow
<1>10. ASSUME NEW v \in Workers, MarkPublishedThrows(v)
      PROVE  HolderReadIsCurrent'
  BY <1>10 DEF MarkPublishedThrows, Fail
<1>11. ASSUME NEW v \in Workers, Abandon(v)
      PROVE  HolderReadIsCurrent'
  BY <1>11 DEF Abandon
<1>12. ASSUME NEW e \in Events, LeaseOverrun(e)
      PROVE  HolderReadIsCurrent'
  BY <1>12 DEF LeaseOverrun, Expire
<1>13. ASSUME NEW e \in Events, OrphanLeaseExpires(e)
      PROVE  HolderReadIsCurrent'
  BY <1>13 DEF OrphanLeaseExpires, Expire
<1>14. ASSUME NEW e \in Events, RetryDue(e)
      PROVE  HolderReadIsCurrent'
  BY <1>14 DEF RetryDue
<1>15. UNCHANGED vars => HolderReadIsCurrent'
  BY DEF vars
<1> QED
  BY <1>1, <1>2, <1>3, <1>4, <1>5, <1>6, <1>7, <1>8,
     <1>9, <1>10, <1>11, <1>12, <1>13, <1>14, <1>15 DEF Next, Tick

(* A claim takes stored rows, and a stored row never disappears. *)
LEMMA BatchStep ==
  ASSUME TypeOK, BatchIsStored, [Next]_vars
  PROVE  BatchIsStored'
<1> USE DEF TypeOK, Row, BatchIsStored, Claimable
<1>1. ASSUME NEW S \in SUBSET Events, Store(S)
      PROVE  BatchIsStored'
  BY <1>1 DEF Store, AbsentRow
<1>2. ASSUME NEW v \in Workers, ClaimSelect(v)
      PROVE  BatchIsStored'
  BY <1>2 DEF ClaimSelect
<1>3. ASSUME NEW v \in Workers, ClaimUpdate(v)
      PROVE  BatchIsStored'
  BY <1>3, ZenonT(60) DEF ClaimUpdate
<1>4. ASSUME NEW v \in Workers, ListenersSucceed(v)
      PROVE  BatchIsStored'
  BY <1>4 DEF ListenersSucceed
<1>5. ASSUME NEW v \in Workers, ListenerThrows(v)
      PROVE  BatchIsStored'
  BY <1>5 DEF ListenerThrows
<1>6. ASSUME NEW v \in Workers, PublishReturns(v)
      PROVE  BatchIsStored'
  BY <1>6 DEF PublishReturns
<1>7. ASSUME NEW v \in Workers, PublishThrows(v)
      PROVE  BatchIsStored'
  BY <1>7 DEF PublishThrows, Fail
<1>8. ASSUME NEW v \in Workers, MarkPublished(v)
      PROVE  BatchIsStored'
  BY <1>8 DEF MarkPublished, Settle, PublishedRow
<1>9. ASSUME NEW v \in Workers, MarkFailed(v)
      PROVE  BatchIsStored'
  BY <1>9 DEF MarkFailed, Settle, FailedRow
<1>10. ASSUME NEW v \in Workers, MarkPublishedThrows(v)
      PROVE  BatchIsStored'
  BY <1>10 DEF MarkPublishedThrows, Fail
<1>11. ASSUME NEW v \in Workers, Abandon(v)
      PROVE  BatchIsStored'
  BY <1>11 DEF Abandon
<1>12. ASSUME NEW e \in Events, LeaseOverrun(e)
      PROVE  BatchIsStored'
  BY <1>12 DEF LeaseOverrun, Expire
<1>13. ASSUME NEW e \in Events, OrphanLeaseExpires(e)
      PROVE  BatchIsStored'
  BY <1>13 DEF OrphanLeaseExpires, Expire
<1>14. ASSUME NEW e \in Events, RetryDue(e)
      PROVE  BatchIsStored'
  BY <1>14 DEF RetryDue
<1>15. UNCHANGED vars => BatchIsStored'
  BY DEF vars
<1> QED
  BY <1>1, <1>2, <1>3, <1>4, <1>5, <1>6, <1>7, <1>8,
     <1>9, <1>10, <1>11, <1>12, <1>13, <1>14, <1>15 DEF Next, Tick

(* A worker is idle again only when its batch is done or given up. *)
LEMMA IdleStep ==
  ASSUME TypeOK, IdleHandsEmpty, [Next]_vars
  PROVE  IdleHandsEmpty'
<1> USE DEF TypeOK, PC, IdleHandsEmpty
<1>1. ASSUME NEW v \in Workers, pc'[v] # "idle",
             \A w \in Workers \ {v} : pc'[w] = pc[w] /\ batch'[w] = batch[w]
      PROVE  IdleHandsEmpty'
  BY <1>1
<1>2. ASSUME NEW v \in Workers, NEW e \in Events, Settle(v, e)
      PROVE  IdleHandsEmpty'
  BY <1>2 DEF Settle
<1>3. ASSUME NEW v \in Workers, Abandon(v) PROVE IdleHandsEmpty'
  BY <1>3 DEF Abandon
<1>4. ASSUME UNCHANGED <<pc, batch>> PROVE IdleHandsEmpty'
  BY <1>4
<1>5. ASSUME NEW v \in Workers,
             \/ ClaimSelect(v) \/ ClaimUpdate(v) \/ ListenersSucceed(v) \/ ListenerThrows(v)
             \/ PublishReturns(v) \/ PublishThrows(v) \/ MarkPublishedThrows(v)
      PROVE  IdleHandsEmpty'
  <2>1. /\ pc'[v] # "idle"
        /\ \A w \in Workers \ {v} : pc'[w] = pc[w] /\ batch'[w] = batch[w]
    BY <1>5 DEF ClaimSelect, ClaimUpdate, ListenersSucceed, ListenerThrows, PublishReturns,
                PublishThrows, MarkPublishedThrows, Fail
  <2> QED BY <1>1, <2>1
<1> QED
  BY <1>2, <1>3, <1>4, <1>5
     DEF Next, Tick, vars, Store, MarkPublished, MarkFailed, LeaseOverrun, OrphanLeaseExpires,
         RetryDue

(* Entering the catch block counts a failure of the message of the loop. *)
LEMMA FailRecords ==
  ASSUME TypeOK, AttemptsAreFailures, NEW v \in Workers, NEW e \in Events,
         Current(v, e), Fail(v, e), UNCHANGED <<outbox, batch>>
  PROVE  AttemptsAreFailures'
<1> USE DEF TypeOK, AttemptsAreFailures
<1>1. \A f \in Events : /\ fails'[f] \in Nat /\ outbox[f].attemptCount \in Nat
                       /\ fails'[f] = IF f = e THEN fails[f] + 1 ELSE fails[f]
  BY DEF Fail, Row
<1>2. ASSUME NEW w \in Workers, NEW f \in Events,
             (pc[w] = "failing" /\ Current(w, f) /\ outbox[f].lockedBy = w)'
      PROVE  outbox'[f].attemptCount < fails'[f]
  <2>1. Current(w, f)
    BY <1>2 DEF Current
  <2>2. CASE w = v
    BY <1>1, <2>1, <2>2, CurrentUnique
  <2>3. CASE w # v
    BY <1>1, <1>2, <2>1, <2>3 DEF Fail
  <2> QED BY <2>2, <2>3
<1> QED BY <1>1, <1>2

(* attempt_count follows the failures and stays below those a holder has yet to record. *)
LEMMA AttemptsStep ==
  ASSUME TypeOK, HolderReadIsCurrent, AttemptsAreFailures, [Next]_vars
  PROVE  AttemptsAreFailures'
<1> USE DEF TypeOK, AttemptsAreFailures, Current
<1>1. ASSUME NEW S \in SUBSET Events, Store(S)
      PROVE  AttemptsAreFailures'
  <2>1. \A e \in Events : \/ outbox'[e] = outbox[e]
                          \/ outbox'[e] = [AbsentRow EXCEPT !.status = "PENDING"]
    BY <1>1 DEF Store
  <2> QED BY <1>1, <2>1, WorkersAssumption DEF Store, AbsentRow
<1>2. ASSUME NEW v \in Workers, ClaimSelect(v)
      PROVE  AttemptsAreFailures'
  BY <1>2 DEF ClaimSelect
<1>3. ASSUME NEW v \in Workers, ClaimUpdate(v)
      PROVE  AttemptsAreFailures'
  <2>1. \A e \in Events : outbox'[e] = IF e \in batch[v]
                     THEN [outbox[e] EXCEPT !.lock = "fresh", !.lockedBy = v] ELSE outbox[e]
    BY <1>3 DEF ClaimUpdate
  <2>2. \A e \in Events : /\ outbox'[e].attemptCount = outbox[e].attemptCount
                         /\ outbox'[e].status = outbox[e].status
                         /\ outbox'[e].lockedBy \in {v, outbox[e].lockedBy}
    BY <2>1 DEF Row
  <2>3. pc'[v] = "emit" /\ UNCHANGED <<batch, fails>> /\ \A w \in Workers \ {v} : pc'[w] = pc[w]
    BY <1>3 DEF ClaimUpdate
  <2> QED BY <2>2, <2>3
<1>4. ASSUME NEW v \in Workers, ListenersSucceed(v)
      PROVE  AttemptsAreFailures'
  BY <1>4 DEF ListenersSucceed
<1>5. ASSUME NEW v \in Workers, ListenerThrows(v)
      PROVE  AttemptsAreFailures'
  BY <1>5 DEF ListenerThrows
<1>6. ASSUME NEW v \in Workers, PublishReturns(v)
      PROVE  AttemptsAreFailures'
  BY <1>6 DEF PublishReturns
<1>7. ASSUME NEW v \in Workers, PublishThrows(v)
      PROVE  AttemptsAreFailures'
  <2>1. PICK e \in Events : Current(v, e) /\ Fail(v, e)
    BY <1>7 DEF PublishThrows
  <2> QED BY <1>7, <2>1, FailRecords DEF PublishThrows
<1>8. ASSUME NEW v \in Workers, MarkPublished(v)
      PROVE  AttemptsAreFailures'
  <2>1. PICK e \in Events :
          /\ Current(v, e)
          /\ outbox' = IF outbox[e].lockedBy = v
                       THEN [outbox EXCEPT ![e] = PublishedRow(outbox[e])]
                       ELSE outbox
          /\ Settle(v, e)
          /\ UNCHANGED fails
    BY <1>8 DEF MarkPublished
  <2>2. pc'[v] # "failing" /\ \A w \in Workers \ {v} : pc'[w] = pc[w] /\ batch'[w] = batch[w]
    BY <2>1 DEF Settle
  <2>3. CASE outbox[e].lockedBy = v
    <3>1. /\ outbox'[e].attemptCount = outbox[e].attemptCount
          /\ outbox'[e].status = "PUBLISHED"
          /\ outbox'[e].lockedBy = NoWorker
      BY <2>1, <2>3 DEF PublishedRow, Row
    <3>2. \A f \in Events \ {e} : outbox'[f] = outbox[f]
      BY <2>1, <2>3
    <3>3. outbox[e].attemptCount \in Nat /\ fails'[e] \in Nat /\ fails' = fails
      BY <2>1 DEF Row
    <3>4. \A f \in Events : /\ outbox'[f].attemptCount = outbox[f].attemptCount
                             /\ outbox'[f].status \in {outbox[f].status, "PUBLISHED"}
                             /\ outbox'[f].lockedBy \in {outbox[f].lockedBy, NoWorker}
      BY <3>1, <3>2
    <3> QED BY <2>1, <2>2, <3>4, WorkersAssumption
  <2>4. CASE outbox[e].lockedBy # v
    BY <2>1, <2>2, <2>4
  <2> QED BY <2>3, <2>4
<1>9. ASSUME NEW v \in Workers, MarkFailed(v)
      PROVE  AttemptsAreFailures'
  <2>1. PICK e \in Events :
          /\ Current(v, e)
          /\ outbox' = IF outbox[e].lockedBy = v
                       THEN [outbox EXCEPT ![e] = FailedRow(seen[v][e])] ELSE outbox
          /\ Settle(v, e)
          /\ UNCHANGED fails
    BY <1>9 DEF MarkFailed
  <2>2. \A f \in Events \ {e} : outbox'[f] = outbox[f]
    BY <2>1
  <2>3. pc'[v] # "failing" /\ \A w \in Workers \ {v} : pc'[w] = pc[w] /\ batch'[w] = batch[w]
    BY <2>1 DEF Settle
  <2>4. CASE outbox[e].lockedBy = v
    <3>1. outbox[e].attemptCount < fails[e]
      BY <1>9, <2>1, <2>4 DEF MarkFailed
    <3>2. seen[v][e] = outbox[e].attemptCount
      BY <1>9, <2>1, <2>4 DEF MarkFailed, HolderReadIsCurrent, AtWork, PC
    <3>3. /\ outbox'[e].attemptCount = outbox[e].attemptCount + 1
          /\ outbox'[e].status = "FAILED" => outbox[e].attemptCount + 1 >= MaxAttempts
          /\ outbox'[e].status # "ABSENT"
          /\ outbox'[e].lockedBy = NoWorker
      BY <2>1, <2>4, <3>2 DEF FailedRow
    <3>4. outbox[e].attemptCount \in Nat /\ fails[e] \in Nat
      BY DEF Row
    <3> QED BY <2>1, <2>2, <2>3, <3>1, <3>3, <3>4, WorkersAssumption, SizesAssumption
  <2>5. CASE outbox[e].lockedBy # v
    BY <2>1, <2>3, <2>5
  <2> QED BY <2>4, <2>5
<1>10. ASSUME NEW v \in Workers, MarkPublishedThrows(v)
      PROVE  AttemptsAreFailures'
  <2>1. PICK e \in Events : Current(v, e) /\ Fail(v, e)
    BY <1>10 DEF MarkPublishedThrows
  <2> QED BY <1>10, <2>1, FailRecords DEF MarkPublishedThrows
<1>11. ASSUME NEW v \in Workers, Abandon(v)
      PROVE  AttemptsAreFailures'
  BY <1>11 DEF Abandon
<1>12. ASSUME NEW e \in Events, LeaseOverrun(e)
      PROVE  AttemptsAreFailures'
  BY <1>12 DEF LeaseOverrun, Expire
<1>13. ASSUME NEW e \in Events, OrphanLeaseExpires(e)
      PROVE  AttemptsAreFailures'
  BY <1>13 DEF OrphanLeaseExpires, Expire
<1>14. ASSUME NEW e \in Events, RetryDue(e)
      PROVE  AttemptsAreFailures'
  BY <1>14 DEF RetryDue
<1>15. UNCHANGED vars => AttemptsAreFailures'
  BY DEF vars
<1> QED
  BY <1>1, <1>2, <1>3, <1>4, <1>5, <1>6, <1>7, <1>8,
     <1>9, <1>10, <1>11, <1>12, <1>13, <1>14, <1>15 DEF Next, Tick

-----------------------------------------------------------------------------
(* Nothing is stored, claimed or sent initially. *)
LEMMA InvInit == Init => IInv
<1> SUFFICES ASSUME Init PROVE IInv
  OBVIOUS
<1>1. \A e \in Events : outbox[e] = AbsentRow /\ fails[e] = 0
  BY DEF Init
<1>2. \A w \in Workers : pc[w] = "idle" /\ batch[w] = {}
  BY DEF Init
<1>3. SentBeforeMark /\ ToldBeforePublish
  BY <1>1, <1>2 DEF SentBeforeMark, PublishedWasSent, ToldBeforePublish,
                    AbsentRow
<1>4. HolderReadIsCurrent /\ AttemptsAreFailures /\ BatchIsStored /\ IdleHandsEmpty
  BY <1>1, <1>2 DEF HolderReadIsCurrent, AtWork, AttemptsAreFailures, BatchIsStored,
                    IdleHandsEmpty, AbsentRow
<1> QED BY TypeInit, <1>3, <1>4 DEF IInv

(* Every step keeps the invariant, part by part. *)
LEMMA InvStep == IInv /\ [Next]_vars => IInv'
  BY TypeStep, SentStep, ToldStep, HolderStep, AttemptsStep, BatchStep, IdleStep
     DEF IInv

(* The strengthening every safety theorem below rests on. *)
THEOREM Invariance == Spec => []IInv
  BY InvInit, InvStep, PTL DEF Spec

(* A row is PUBLISHED only if the broker took its event: no crash, expired *)
(* lease or doubled claim makes the relay skip the broker.                 *)
THEOREM AtLeastOnceToBroker == Spec => []PublishedWasSent
<1>1. IInv => PublishedWasSent
  BY DEF IInv, SentBeforeMark
<1> QED BY Invariance, <1>1, PTL

(* A row is given up only behind MaxAttempts failed passes over it.        *)
THEOREM GiveUpIsJustified == Spec => []GivesUpOnlyWhenExhausted
<1>1. IInv => GivesUpOnlyWhenExhausted
  BY SizesAssumption DEF IInv, TypeOK, Row, AttemptsAreFailures, GivesUpOnlyWhenExhausted
<1> QED BY Invariance, <1>1, PTL

(* A worker never writes an older attempt_count over a later one.          *)
THEOREM AttemptsOnlyGrow == Spec => AttemptsNeverForgotten
<1> DEFINE Grows == \A e \in Events : outbox'[e].attemptCount >= outbox[e].attemptCount
<1>1. ASSUME IInv, [Next]_vars PROVE [Grows]_vars
  <2>0. /\ TypeOK /\ HolderReadIsCurrent /\ AttemptsAreFailures
        /\ \A e \in Events : outbox[e] \in Row /\ outbox[e].attemptCount \in Nat
    BY <1>1 DEF IInv, TypeOK, Row
  <2>1. ASSUME NEW S \in SUBSET Events, Store(S) PROVE Grows
    <3>1. \A e \in S : outbox[e].attemptCount = 0
      BY <2>0, <2>1 DEF Store, AttemptsAreFailures
    <3>2. \A e \in Events \ S : outbox'[e] = outbox[e]
      BY <2>1 DEF Store
    <3>3. \A e \in S : outbox'[e].attemptCount = 0
      BY <2>1 DEF Store, AbsentRow
    <3> QED BY <2>0, <3>1, <3>2, <3>3
  <2>2. ASSUME NEW v \in Workers, ClaimUpdate(v) PROVE Grows
    <3>1. \A e \in Events : outbox'[e] = outbox[e]
                           \/ outbox'[e] = [outbox[e] EXCEPT !.lock = "fresh", !.lockedBy = v]
      BY <2>2 DEF ClaimUpdate
    <3>2. \A e \in Events : outbox'[e].attemptCount = outbox[e].attemptCount
      BY <2>0, <3>1 DEF Row
    <3> QED BY <2>0, <3>2
  <2>3. ASSUME NEW v \in Workers, MarkPublished(v) PROVE Grows
    <3>1. \A e \in Events : outbox'[e] = outbox[e] \/ outbox'[e] = PublishedRow(outbox[e])
      BY <2>0, <2>3 DEF MarkPublished, TypeOK
    <3>2. \A e \in Events : outbox'[e].attemptCount = outbox[e].attemptCount
      BY <2>0, <3>1 DEF PublishedRow, Row
    <3> QED BY <2>0, <3>2
  <2>4. ASSUME NEW v \in Workers, MarkFailed(v) PROVE Grows
    <3>1. PICK e \in Events :
            /\ Current(v, e)
            /\ outbox' = IF outbox[e].lockedBy = v
                         THEN [outbox EXCEPT ![e] = FailedRow(seen[v][e])] ELSE outbox
      BY <2>4 DEF MarkFailed
    <3>2. CASE outbox[e].lockedBy = v
      <4>1. seen[v][e] = outbox[e].attemptCount
        BY <2>0, <2>4, <3>1, <3>2 DEF MarkFailed, HolderReadIsCurrent, AtWork, PC, Current
      <4>2. outbox'[e].attemptCount = outbox[e].attemptCount + 1
        BY <2>0, <3>1, <3>2, <4>1 DEF FailedRow, TypeOK
      <4>3. \A f \in Events \ {e} : outbox'[f] = outbox[f]
        BY <3>1, <3>2
      <4> QED BY <2>0, <4>2, <4>3
    <3>3. CASE outbox[e].lockedBy # v
      BY <2>0, <3>1, <3>3
    <3> QED BY <3>2, <3>3
  <2>5. ASSUME NEW e \in Events, LeaseOverrun(e) \/ OrphanLeaseExpires(e) \/ RetryDue(e)
        PROVE  Grows
    <3>1. \A f \in Events : \/ outbox'[f] = outbox[f]
                           \/ outbox'[f] = [outbox[f] EXCEPT !.lock = "stale"]
                           \/ outbox'[f] = [outbox[f] EXCEPT !.due = TRUE]
      BY <2>0, <2>5 DEF LeaseOverrun, OrphanLeaseExpires, Expire, RetryDue, TypeOK
    <3>2. \A f \in Events : outbox'[f].attemptCount = outbox[f].attemptCount
      BY <2>0, <3>1 DEF Row
    <3> QED BY <2>0, <3>2
  <2>6. outbox' = outbox => Grows
    BY <2>0
  <2> QED
    BY <1>1, <2>1, <2>2, <2>3, <2>4, <2>5, <2>6
       DEF Next, Tick, vars, ClaimSelect, ListenersSucceed, ListenerThrows, PublishReturns,
           PublishThrows, MarkPublishedThrows, Abandon
<1> QED BY Invariance, <1>1, PTL DEF Spec, AttemptsNeverForgotten

-----------------------------------------------------------------------------
(* The refinement. *)

(* Relaying the message of the loop is a delivery of its event, failed or  *)
(* not.                                                                    *)
LEMMA RelayDelivers ==
  ASSUME TypeOK, NEW v \in Workers, NEW e \in Events, Current(v, e),
         outbox' = outbox, batch' = batch,
         told' = told \/ (told' = [told EXCEPT ![e] = told'[e]] /\ told'[e] # "never"),
         sent' = sent \/ sent' = [sent EXCEPT ![e] = @ + 1],
         fails' = fails \/ fails' = [fails EXCEPT ![e] = @ + 1],
         told' = told \/ sent' = sent
  PROVE  Promise!Deliver(e)
<1> USE DEF TypeOK
<1>1. Verdict' = Verdict /\ InHand' = InHand
  BY DEF Verdict, InHand
<1>2. e \in InHand
  BY DEF InHand, Current
<1>3. \A f \in Events : /\ sent[f] \in Nat
                        /\ f # e => sent'[f] = sent[f] /\ told'[f] = told[f]
  OBVIOUS
<1>4. /\ sent[e] > 0 => sent'[e] > 0
      /\ told[e] # "never" => told'[e] # "never"
  BY <1>3
<1>5. Delivered' \in {Delivered, Delivered \cup {e}}
  BY <1>3, <1>4 DEF Delivered
<1>6. fails' \in {fails, [fails EXCEPT ![e] = @ + 1]}
  OBVIOUS
<1> QED BY <1>1, <1>2, <1>5, <1>6 DEF Promise!Deliver, Verdict, InHand, Delivered

(* Leaving a message of the batch behind releases its event, unless another *)
(* worker has it in hand too.                                              *)
LEMMA SettleReleases ==
  ASSUME TypeOK, NEW v \in Workers, NEW e \in Events, Current(v, e), Settle(v, e)
  PROVE  e \in InHand /\ InHand' \in {InHand, InHand \ {e}}
<1>1. /\ \A w \in Workers \ {v} : batch'[w] = batch[w]
      /\ batch'[v] = batch[v] \ {e} /\ e \in batch[v]
  BY DEF TypeOK, Settle, Current
<1> QED BY <1>1 DEF InHand

(* Giving a row another status and leaving its message behind settles its  *)
(* event, whatever the verdict was.                                        *)
LEMMA StatusSettles ==
  ASSUME TypeOK, NEW v \in Workers, NEW e \in Events, Current(v, e), Settle(v, e),
         NEW row \in Row, outbox' = [outbox EXCEPT ![e] = row],
         UNCHANGED <<told, sent, fails>>
  PROVE  Promise!Settle(e, row.status)
<1>1. e \in InHand /\ InHand' \in {InHand, InHand \ {e}}
  BY SettleReleases
<1>2. Verdict' = [Verdict EXCEPT ![e] = row.status]
  BY DEF TypeOK, Verdict
<1>3. Delivered' = Delivered
  BY DEF Delivered
<1> QED BY <1>1, <1>2, <1>3 DEF Promise!Settle, Verdict, InHand, Delivered

(* The relay implements the promise of EventDelivery, doubled claims,      *)
(* swallowed listener errors, crashes and overrun leases included.         *)
THEOREM RelayImplementsPromise == Spec => ImplementsPromise
<1>1. Init => Promise!Init
  <2> SUFFICES ASSUME Init PROVE Promise!Init
    OBVIOUS
  <2>1. Verdict = [e \in Events |-> "ABSENT"]
    BY DEF Init, AbsentRow, Verdict
  <2>2. Delivered = {} /\ InHand = {}
    BY DEF Init, Delivered, InHand
  <2> QED BY <2>1, <2>2 DEF Promise!Init, Init, Verdict, InHand, Delivered
<1>2. ASSUME IInv, [Next]_vars PROVE [Promise!Next]_(Promise!vars)
  <2>0. /\ TypeOK /\ \A e \in Events : outbox[e] \in Row
        /\ outbox \in [Events -> Row]
    BY <1>2 DEF IInv, TypeOK
  <2>a. UNCHANGED <<told, sent, fails>> => Delivered' = Delivered
    BY DEF Delivered
  <2>b. UNCHANGED batch => InHand' = InHand
    BY DEF InHand
  <2>1. (Verdict' = Verdict /\ UNCHANGED <<batch, told, sent, fails>>) => UNCHANGED Promise!vars
    BY <2>a, <2>b DEF Promise!vars, Verdict, InHand, Delivered
  <2>2. ASSUME NEW S \in SUBSET Events, Store(S) PROVE Promise!Commit(S)
    <3>1. \A e \in S : Verdict[e] = "ABSENT"
      BY <2>2 DEF Store, Verdict
    <3>2. \A e \in Events : outbox'[e].status = IF e \in S THEN "PENDING" ELSE outbox[e].status
      BY <2>2 DEF Store, AbsentRow
    <3>3. Verdict' = [e \in Events |-> IF e \in S THEN "PENDING" ELSE Verdict[e]]
      BY <3>2 DEF Verdict
    <3> QED
      BY <2>2, <2>a, <2>b, <3>1, <3>3 DEF Promise!Commit, Store, Verdict, InHand, Delivered
  <2>3. ASSUME NEW v \in Workers, ClaimSelect(v) 
        PROVE  \E S \in SUBSET Events : Promise!Take(S)
    <3>1. /\ batch[v] \subseteq InHand /\ outbox' = outbox
          /\ \A w \in Workers \ {v} : batch'[w] = batch[w]
          /\ \A e \in batch'[v] : e \in Events /\ outbox[e].status = "PENDING"
      BY <2>0, <2>3 DEF ClaimSelect, Claimable, TypeOK, InHand
    <3>2. batch[v] = {}
      BY <1>2, <2>3 DEF IInv, IdleHandsEmpty, ClaimSelect
    <3>3. InHand' = InHand \cup batch'[v]
      BY <3>1, <3>2 DEF InHand
    <3>4. Verdict' = Verdict /\ \A e \in batch'[v] : Verdict[e] = "PENDING"
      BY <3>1 DEF Verdict
    <3>5. batch'[v] \in SUBSET Events
      BY <3>1
    <3>6. Promise!Take(batch'[v])
      BY <2>3, <2>a, <3>3, <3>4 DEF ClaimSelect, Promise!Take, Verdict, InHand, Delivered
    <3> QED BY <3>5, <3>6
  <2>4. ASSUME NEW v \in Workers, ClaimUpdate(v) PROVE UNCHANGED Promise!vars
    <3>1. \A e \in Events : \/ outbox'[e] = outbox[e]
                           \/ outbox'[e] = [outbox[e] EXCEPT !.lock = "fresh", !.lockedBy = v]
      BY <2>4 DEF ClaimUpdate
    <3>2. \A e \in Events : outbox'[e].status = outbox[e].status
      BY <2>0, <3>1 DEF Row
    <3> QED BY <2>1, <2>4, <3>2 DEF ClaimUpdate, Verdict
  <2>5. ASSUME NEW v \in Workers, ListenersSucceed(v) \/ ListenerThrows(v)
        PROVE  \E e \in Events : Promise!Deliver(e)
    <3>1. PICK e \in Events :
            /\ Current(v, e)
            /\ \/ told' = [told EXCEPT ![e] = "heard"]
               \/ told' = [told EXCEPT ![e] = IF told[e] = "heard" THEN "heard" ELSE "failed"]
      BY <2>0, <2>5 DEF ListenersSucceed, ListenerThrows, TypeOK
    <3>2. told' = [told EXCEPT ![e] = told'[e]] /\ told'[e] # "never"
      BY <2>0, <3>1 DEF TypeOK
    <3> QED BY <2>0, <2>5, <3>1, <3>2, RelayDelivers DEF ListenersSucceed, ListenerThrows
  <2>6. ASSUME NEW v \in Workers, PublishReturns(v)
        PROVE  \E e \in Events : Promise!Deliver(e)
    <3>1. PICK e \in Events :
            Current(v, e) /\ (sent' = sent \/ sent' = [sent EXCEPT ![e] = @ + 1])
      BY <2>6 DEF PublishReturns
    <3> QED BY <2>0, <2>6, <3>1, RelayDelivers DEF PublishReturns
  <2>7. ASSUME NEW v \in Workers, PublishThrows(v)
        PROVE  \E e \in Events : Promise!Deliver(e)
    <3>1. PICK e \in Events : /\ Current(v, e) /\ Fail(v, e)
                              /\ sent' = sent \/ sent' = [sent EXCEPT ![e] = @ + 1]
      BY <2>7 DEF PublishThrows
    <3> QED BY <2>0, <2>7, <3>1, RelayDelivers DEF PublishThrows, Fail
  <2>8. ASSUME NEW v \in Workers, MarkPublishedThrows(v)
        PROVE  \E e \in Events : Promise!Deliver(e)
    <3>1. PICK e \in Events : Current(v, e) /\ Fail(v, e)
      BY <2>8 DEF MarkPublishedThrows
    <3> QED BY <2>0, <2>8, <3>1, RelayDelivers DEF MarkPublishedThrows, Fail
  <2>9. ASSUME NEW v \in Workers, NEW e \in Events, Current(v, e), Settle(v, e),
               outbox' = outbox, UNCHANGED <<told, sent, fails>>
        PROVE  \E S \in SUBSET Events : Promise!Release(S)
    <3>1. InHand' = InHand \ (InHand \ InHand') /\ Verdict' = Verdict
      BY <2>0, <2>9, SettleReleases DEF Verdict
    <3>2. (InHand \ InHand') \in SUBSET Events
      BY DEF InHand
    <3> QED BY <2>9, <2>a, <3>1, <3>2 DEF Promise!Release, Verdict, InHand, Delivered
  <2>10. ASSUME NEW v \in Workers, MarkPublished(v)
         PROVE  \/ \E e \in Events : Promise!Publish(e)
                \/ \E S \in SUBSET Events : Promise!Release(S)
    <3>1. PICK e \in Events : /\ Current(v, e) /\ Settle(v, e)
                              /\ outbox' = IF outbox[e].lockedBy = v
                                           THEN [outbox EXCEPT ![e] = PublishedRow(outbox[e])]
                                           ELSE outbox
                              /\ pc[v] = "mark" /\ UNCHANGED <<told, sent, fails>>
      BY <2>10 DEF MarkPublished
    <3>2. CASE outbox[e].lockedBy = v
      <4>1. e \in Delivered
        BY <1>2, <3>1 DEF IInv, SentBeforeMark, ToldBeforePublish, Delivered
      <4>2. outbox[e] \in Row
        BY <2>0
      <4>3. PublishedRow(outbox[e]) \in Row /\ PublishedRow(outbox[e]).status = "PUBLISHED"
        BY <4>2, ZenonT(60) DEF PublishedRow, Row, Status
      <4>4. Promise!Settle(e, "PUBLISHED")
        BY <2>0, <3>1, <3>2, <4>3, StatusSettles
      <4> QED BY <4>1, <4>4 DEF Promise!Publish
    <3>3. CASE outbox[e].lockedBy # v
      BY <2>9, <3>1, <3>3
    <3> QED BY <3>2, <3>3
  <2>11. ASSUME NEW v \in Workers, MarkFailed(v)
         PROVE  \/ \E e \in Events : Promise!GiveUp(e) \/ Promise!Postpone(e)
                \/ \E S \in SUBSET Events : Promise!Release(S)
    <3>1. PICK e \in Events : /\ Current(v, e) /\ Settle(v, e)
                              /\ outbox' = IF outbox[e].lockedBy = v
                                           THEN [outbox EXCEPT ![e] = FailedRow(seen[v][e])]
                                           ELSE outbox
                              /\ pc[v] = "failing" /\ UNCHANGED <<told, sent, fails>>
      BY <2>11 DEF MarkFailed
    <3>2. CASE outbox[e].lockedBy = v
      <4>1. seen[v][e] = outbox[e].attemptCount
        BY <1>2, <3>1, <3>2 DEF IInv, HolderReadIsCurrent, AtWork, PC, Current
      <4>2. outbox[e].attemptCount < fails[e]
        BY <1>2, <3>1, <3>2 DEF IInv, AttemptsAreFailures
      <4>3. outbox[e].attemptCount \in Nat /\ fails[e] \in Nat
        BY <2>0 DEF TypeOK, Row
      <4>4. outbox' = [outbox EXCEPT ![e] = FailedRow(outbox[e].attemptCount)]
        BY <3>1, <3>2, <4>1
      <4>5. CASE outbox[e].attemptCount + 1 >= MaxAttempts
        <5>1. /\ FailedRow(outbox[e].attemptCount) \in Row
              /\ FailedRow(outbox[e].attemptCount).status = "FAILED"
          BY <4>3, <4>5 DEF FailedRow, Row, Status
        <5>2. fails[e] >= MaxAttempts
          BY <4>2, <4>3, <4>5, SizesAssumption
        <5>3. Promise!Settle(e, "FAILED")
          BY <2>0, <3>1, <4>4, <5>1, StatusSettles
        <5> QED BY <5>2, <5>3 DEF Promise!GiveUp
      <4>6. CASE ~(outbox[e].attemptCount + 1 >= MaxAttempts)
        <5>1. /\ FailedRow(outbox[e].attemptCount) \in Row
              /\ FailedRow(outbox[e].attemptCount).status = "PENDING"
          BY <4>3, <4>6 DEF FailedRow, Row, Status
        <5>2. fails[e] > 0
          BY <4>2, <4>3
        <5>3. Promise!Settle(e, "PENDING")
          BY <2>0, <3>1, <4>4, <5>1, StatusSettles
        <5> QED BY <5>2, <5>3 DEF Promise!Postpone
      <4> QED BY <4>5, <4>6
    <3>3. CASE outbox[e].lockedBy # v
      BY <2>9, <3>1, <3>3
    <3> QED BY <3>2, <3>3
  <2>12. ASSUME NEW v \in Workers, Abandon(v)
         PROVE  \E S \in SUBSET Events : Promise!Release(S)
    <3>1. /\ \A w \in Workers \ {v} : batch'[w] = batch[w]
          /\ batch'[v] = {}
      BY <2>0, <2>12 DEF Abandon, TypeOK
    <3>2. InHand' \subseteq InHand /\ InHand \in SUBSET Events
      BY <3>1 DEF InHand
    <3>3. InHand' = InHand \ (InHand \ InHand')
      BY <3>2
    <3>4. (InHand \ InHand') \in SUBSET Events
      BY <3>2
    <3>5. Verdict' = Verdict /\ UNCHANGED <<told, sent, fails>>
      BY <2>12 DEF Abandon, Verdict
    <3> QED BY <2>a, <3>3, <3>4, <3>5 DEF Promise!Release, Verdict, InHand, Delivered
  <2>13. ASSUME NEW e \in Events, LeaseOverrun(e) \/ OrphanLeaseExpires(e) \/ RetryDue(e)
         PROVE  UNCHANGED Promise!vars
    <3>1. \A f \in Events : \/ outbox'[f] = outbox[f]
                           \/ outbox'[f] = [outbox[f] EXCEPT !.lock = "stale"]
                           \/ outbox'[f] = [outbox[f] EXCEPT !.due = TRUE]
      BY <2>0, <2>13 DEF LeaseOverrun, OrphanLeaseExpires, Expire, RetryDue
    <3>2. \A f \in Events : outbox'[f].status = outbox[f].status
      BY <2>0, <3>1 DEF Row
    <3> QED BY <2>1, <2>13, <3>2
            DEF LeaseOverrun, OrphanLeaseExpires, RetryDue, Verdict
  <2>14. UNCHANGED vars => UNCHANGED Promise!vars
    BY <2>1 DEF vars, Verdict
  <2> QED
    BY <1>2, <2>2, <2>3, <2>4, <2>5, <2>6, <2>7, <2>8, <2>10, <2>11, <2>12, <2>13, <2>14
       DEF Next, Tick, Promise!Next
<1> QED BY Invariance, <1>1, <1>2, PTL DEF Spec, ImplementsPromise, Promise!Spec
-----------------------------------------------------------------------------
(* Duplicates: who may still send a copy of e.  A worker that has e at work *)
(* and is not past publishing it may; so may whoever claims e next, when   *)
(* the row is not settled and no lease in use keeps claims away from it, or *)
(* its holder is about to give it back.                                    *)
Passed(w, e)  == pc[w] \in {"mark", "failing"} /\ Current(w, e)
Failing(w, e) == pc[w] = "failing" /\ Current(w, e)
MaySend(e)    == {w \in Workers : AtWork(w, e) /\ ~Passed(w, e)}

Unsettled(e) == /\ outbox[e].status \notin {"PUBLISHED", "FAILED"}
                /\ \A w \in Workers :
                     ~(outbox[e].lockedBy = w /\ outbox[e].lock = "fresh" /\ AtWork(w, e))
GivenBack(e) == \E w \in Workers : outbox[e].lockedBy = w /\ Failing(w, e)
Open(e)      == Unsettled(e) \/ GivenBack(e)

Senders(e) == MaySend(e) \cup {x \in {NoWorker} : Open(e)}

(* Every copy sent and every sender left is paid for: the first by nothing, *)
(* the others by a failed pass over the event, an overlap or a fault.       *)
CopiesCounted ==
  \A e \in Events : /\ IsFiniteSet(Senders(e))
                    /\ sent[e] + Cardinality(Senders(e)) <= 1 + fails[e] + overlaps[e] + faults

CountInv == IInv /\ CopiesCounted

(* What a step may do to the senders of e and to the counters. *)
Kept(e)   == /\ Senders(e)' \subseteq Senders(e)
             /\ sent'[e] = sent[e] /\ fails'[e] = fails[e]
             /\ overlaps'[e] = overlaps[e] /\ faults' = faults
Passes(e) == /\ \E w \in Workers : Senders(e)' \subseteq (Senders(e) \ {NoWorker}) \cup {w}
             /\ NoWorker \in Senders(e)
             /\ sent'[e] = sent[e] /\ fails'[e] = fails[e]
             /\ overlaps'[e] = overlaps[e] /\ faults' = faults
Doubles(e) == /\ \E w \in Workers : Senders(e)' \subseteq Senders(e) \cup {w}
              /\ sent'[e] = sent[e] /\ fails'[e] = fails[e]
              /\ overlaps'[e] = overlaps[e] + 1 /\ faults' = faults
Fails(e)  == /\ \E w \in Senders(e) : Senders(e)' \subseteq (Senders(e) \ {w}) \cup {NoWorker}
             /\ sent'[e] \in {sent[e], sent[e] + 1} /\ fails'[e] = fails[e] + 1
             /\ overlaps'[e] = overlaps[e] /\ faults' = faults
Sends(e)  == /\ \E w \in Senders(e) : Senders(e)' \subseteq Senders(e) \ {w}
             /\ sent'[e] \in {sent[e], sent[e] + 1} /\ fails'[e] = fails[e]
             /\ overlaps'[e] = overlaps[e] /\ faults' = faults
Strays(e) == /\ Senders(e)' \subseteq Senders(e) \cup {NoWorker}
             /\ sent'[e] = sent[e] /\ fails'[e] >= fails[e]
             /\ overlaps'[e] = overlaps[e] /\ faults' = faults + 1

(* Adding a member enlarges a set by one at most. *)
LEMMA AdditionAddsOne ==
  ASSUME NEW S, NEW x, IsFiniteSet(S)
  PROVE  /\ IsFiniteSet(S \cup {x}) /\ Cardinality(S) \in Nat
         /\ Cardinality(S \cup {x}) \in Nat
         /\ Cardinality(S \cup {x}) <= Cardinality(S) + 1
<1> DEFINE n == Cardinality(S)
           m == Cardinality(S \cup {x})
<1>1. IsFiniteSet(S \cup {x}) /\ m = IF x \in S THEN n ELSE n + 1
  BY FS_AddElement
<1>2. n \in Nat
  BY FS_CardinalityType
<1>3. m \in Nat
  BY <1>1, FS_CardinalityType
<1> HIDE DEF n, m
<1>4. m <= n + 1
  BY <1>1, <1>2, <1>3
<1> QED BY <1>1, <1>2, <1>3, <1>4 DEF n, m

(* Taking a member out and putting another in does not enlarge a set. *)
LEMMA ExchangeKeepsSize ==
  ASSUME NEW S, NEW T, NEW x, NEW y, IsFiniteSet(S), x \in S, T \subseteq (S \ {x}) \cup {y}
  PROVE  /\ IsFiniteSet(T) /\ Cardinality(S) \in Nat /\ Cardinality(T) \in Nat
         /\ Cardinality(T) <= Cardinality(S)
<1>1. /\ IsFiniteSet(S \ {x}) /\ Cardinality(S \ {x}) = Cardinality(S) - 1
      /\ Cardinality(S) \in Nat /\ Cardinality(S \ {x}) \in Nat
  BY FS_RemoveElement, FS_CardinalityType
<1> DEFINE R == S \ {x}
<1>2. /\ IsFiniteSet(R \cup {y}) /\ Cardinality(R \cup {y}) \in Nat
      /\ Cardinality(R \cup {y}) <= Cardinality(R) + 1
  BY <1>1, AdditionAddsOne
<1>3. IsFiniteSet(T) /\ Cardinality(T) <= Cardinality(R \cup {y})
  BY <1>2, FS_Subset
<1>4. Cardinality(T) \in Nat
  BY <1>3, FS_CardinalityType
<1> HIDE DEF R
<1>5. Cardinality(T) <= Cardinality(S)
  BY <1>1, <1>2, <1>3, <1>4 DEF R
<1> QED BY <1>1, <1>3, <1>4, <1>5

(* Any of those effects keeps the count of an event. *)
LEMMA CountKept ==
  ASSUME TypeOK, TypeOK', NEW e \in Events,
         IsFiniteSet(Senders(e)),
         sent[e] + Cardinality(Senders(e)) <= 1 + fails[e] + overlaps[e] + faults,
         Kept(e) \/ Passes(e) \/ Doubles(e) \/ Fails(e) \/ Sends(e) \/ Strays(e)
  PROVE  /\ IsFiniteSet(Senders(e)')
         /\ sent'[e] + Cardinality(Senders(e)') <= 1 + fails'[e] + overlaps'[e] + faults'
<1> DEFINE S == Senders(e)
           T == Senders(e)'
<1>0. /\ sent[e] \in Nat /\ fails[e] \in Nat /\ overlaps[e] \in Nat /\ faults \in Nat
      /\ sent'[e] \in Nat /\ fails'[e] \in Nat /\ overlaps'[e] \in Nat /\ faults' \in Nat
  BY SizesAssumption DEF TypeOK
<1>1. IsFiniteSet(S) /\ Cardinality(S) \in Nat
  BY FS_CardinalityType
<1>2. sent[e] + Cardinality(S) <= 1 + fails[e] + overlaps[e] + faults
  OBVIOUS
<1>3. CASE Kept(e)
  <2>1. T \subseteq S
    BY <1>3 DEF Kept
  <2>2. IsFiniteSet(T) /\ Cardinality(T) <= Cardinality(S) /\ Cardinality(T) \in Nat
    BY <1>1, <2>1, FS_Subset, FS_CardinalityType
  <2>3. sent'[e] = sent[e] /\ fails'[e] = fails[e] /\ overlaps'[e] = overlaps[e] /\ faults' = faults
    BY <1>3 DEF Kept
  <2> HIDE DEF S, T
  <2>4. sent'[e] + Cardinality(T) <= 1 + fails'[e] + overlaps'[e] + faults'
    BY <1>0, <1>1, <1>2, <2>2, <2>3
  <2> QED BY <2>2, <2>4 DEF T
<1>4. CASE Passes(e)
  <2>1. PICK w \in Workers : T \subseteq (S \ {NoWorker}) \cup {w}
    BY <1>4 DEF Passes
  <2>2. NoWorker \in S /\ sent'[e] = sent[e] /\ fails'[e] = fails[e] /\ overlaps'[e] = overlaps[e] /\ faults' = faults
    BY <1>4 DEF Passes
  <2> HIDE DEF S, T
  <2>3. IsFiniteSet(T) /\ Cardinality(T) <= Cardinality(S) /\ Cardinality(T) \in Nat
    BY <1>1, <2>1, <2>2, ExchangeKeepsSize
  <2>4. sent'[e] + Cardinality(T) <= 1 + fails'[e] + overlaps'[e] + faults'
    BY <1>0, <1>1, <1>2, <2>2, <2>3
  <2> QED BY <2>3, <2>4 DEF T
<1>5. CASE Fails(e)
  <2>1. PICK w \in S : T \subseteq (S \ {w}) \cup {NoWorker}
    BY <1>5 DEF Fails
  <2>2. sent'[e] \in {sent[e], sent[e] + 1} /\ fails'[e] = fails[e] + 1 /\ overlaps'[e] = overlaps[e] /\ faults' = faults
    BY <1>5 DEF Fails
  <2> HIDE DEF S, T
  <2>3. IsFiniteSet(T) /\ Cardinality(T) <= Cardinality(S) /\ Cardinality(T) \in Nat
    BY <1>1, <2>1, ExchangeKeepsSize
  <2>4. sent'[e] + Cardinality(T) <= 1 + fails'[e] + overlaps'[e] + faults'
    BY <1>0, <1>1, <1>2, <2>2, <2>3
  <2> QED BY <2>3, <2>4 DEF T
<1>6. CASE Sends(e)
  <2>1. PICK w \in S : T \subseteq S \ {w}
    BY <1>6 DEF Sends
  <2>2. sent'[e] \in {sent[e], sent[e] + 1} /\ fails'[e] = fails[e] /\ overlaps'[e] = overlaps[e] /\ faults' = faults
    BY <1>6 DEF Sends
  <2> HIDE DEF S, T
  <2>3. IsFiniteSet(S \ {w}) /\ Cardinality(S \ {w}) = Cardinality(S) - 1
    BY <1>1, FS_RemoveElement
  <2>4. IsFiniteSet(T) /\ Cardinality(T) <= Cardinality(S) - 1 /\ Cardinality(T) \in Nat
    BY <2>1, <2>3, FS_Subset, FS_CardinalityType
  <2>5. sent'[e] + Cardinality(T) <= 1 + fails'[e] + overlaps'[e] + faults'
    BY <1>0, <1>1, <1>2, <2>2, <2>4
  <2> QED BY <2>4, <2>5 DEF T
<1>7. CASE Strays(e)
  <2>1. T \subseteq S \cup {NoWorker}
    BY <1>7 DEF Strays
  <2>2. sent'[e] = sent[e] /\ fails'[e] >= fails[e] /\ overlaps'[e] = overlaps[e] /\ faults' = faults + 1
    BY <1>7 DEF Strays
  <2> HIDE DEF S, T
  <2>3. /\ IsFiniteSet(S \cup {NoWorker})
        /\ Cardinality(S \cup {NoWorker}) <= Cardinality(S) + 1
        /\ Cardinality(S \cup {NoWorker}) \in Nat
    BY <1>1, AdditionAddsOne
  <2>4. IsFiniteSet(T) /\ Cardinality(T) <= Cardinality(S) + 1 /\ Cardinality(T) \in Nat
    BY <1>1, <2>1, <2>3, FS_Subset, FS_CardinalityType
  <2>5. sent'[e] + Cardinality(T) <= 1 + fails'[e] + overlaps'[e] + faults'
    BY <1>0, <1>1, <1>2, <2>2, <2>4
  <2> QED BY <2>4, <2>5 DEF T
<1>8. CASE Doubles(e)
  <2>1. PICK w \in Workers : T \subseteq S \cup {w}
    BY <1>8 DEF Doubles
  <2>2. /\ sent'[e] = sent[e] /\ fails'[e] = fails[e]
        /\ overlaps'[e] = overlaps[e] + 1 /\ faults' = faults
    BY <1>8 DEF Doubles
  <2> HIDE DEF S, T
  <2>3. /\ IsFiniteSet(S \cup {w})
        /\ Cardinality(S \cup {w}) <= Cardinality(S) + 1
        /\ Cardinality(S \cup {w}) \in Nat
    BY <1>1, AdditionAddsOne
  <2>4. IsFiniteSet(T) /\ Cardinality(T) <= Cardinality(S) + 1 /\ Cardinality(T) \in Nat
    BY <1>1, <2>1, <2>3, FS_Subset, FS_CardinalityType
  <2>5. sent'[e] + Cardinality(T) <= 1 + fails'[e] + overlaps'[e] + faults'
    BY <1>0, <1>1, <1>2, <2>2, <2>4
  <2> QED BY <2>4, <2>5 DEF T
<1> QED BY <1>3, <1>4, <1>5, <1>6, <1>7, <1>8

(* A step that changes neither who is at work on what nor how open a row   *)
(* is leaves the senders alone.                                            *)
LEMMA SendersKept ==
  ASSUME NEW e \in Events,
         \A w \in Workers : (AtWork(w, e) /\ ~Passed(w, e))' => AtWork(w, e) /\ ~Passed(w, e),
         Open(e)' => Open(e)
  PROVE  Senders(e)' \subseteq Senders(e)
  BY DEF Senders, MaySend

(* A step that leaves the row's verdict and lease alone, keeps whoever is  *)
(* at work on it there and lets nobody fail does not open it.              *)
LEMMA OpenKept ==
  ASSUME NEW e \in Events,
         outbox'[e].status = outbox[e].status,
         outbox'[e].lock = outbox[e].lock,
         outbox'[e].lockedBy = outbox[e].lockedBy,
         \A w \in Workers : outbox[e].lockedBy = w =>
           (AtWork(w, e) => AtWork(w, e)') /\ (Failing(w, e)' => Failing(w, e))
  PROVE  Open(e)' => Open(e)
<1>1. Unsettled(e)' => Unsettled(e)
  BY DEF Unsettled
<1>2. GivenBack(e)' => GivenBack(e)
  BY DEF GivenBack
<1> QED BY <1>1, <1>2 DEF Open

(* What each step does to the senders of an event and to its counters. *)
LEMMA CountStep ==
  ASSUME IInv, [Next]_vars, NEW e \in Events
  PROVE  Kept(e) \/ Passes(e) \/ Doubles(e) \/ Fails(e) \/ Sends(e) \/ Strays(e)
<1> USE DEF TypeOK, Row, PC
<1>0. TypeOK
  BY DEF IInv
<1>a. /\ outbox[e] \in Row /\ sent[e] \in Nat /\ fails[e] \in Nat /\ overlaps[e] \in Nat
      /\ faults \in Nat
  BY <1>0, SizesAssumption
<1>1. ASSUME NEW S \in SUBSET Events, Store(S) PROVE Kept(e)
  <2>0. pc' = pc /\ batch' = batch
    BY <1>1 DEF Store
  <2>1. \A w \in Workers : (AtWork(w, e) /\ ~Passed(w, e))' => AtWork(w, e) /\ ~Passed(w, e)
    BY <2>0 DEF AtWork, Passed, Current
  <2>2. Open(e)' => Open(e)
    <3>1. CASE e \in S
      <4>1. outbox[e].status = "ABSENT" /\ \A w \in Workers : e \notin batch[w]
        BY <1>1, <3>1 DEF Store, IInv, BatchIsStored
      <4> QED BY <4>1 DEF Open, Unsettled, AtWork
    <3>2. CASE e \notin S
      <4>1. outbox'[e] = outbox[e]
        BY <1>1, <3>2 DEF Store
      <4> QED BY <2>0, <4>1, OpenKept DEF AtWork, Failing, Current
    <3> QED BY <3>1, <3>2
  <2> QED BY <1>1, <2>1, <2>2, SendersKept DEF Kept, Store
<1>2. ASSUME NEW v \in Workers, ClaimSelect(v) PROVE Kept(e)
  <2>0. /\ pc[v] = "idle" /\ pc' = [pc EXCEPT ![v] = "selected"] /\ outbox' = outbox
        /\ \A w \in Workers \ {v} : batch'[w] = batch[w]
    BY <1>0, <1>2 DEF ClaimSelect
  <2>1. \A w \in Workers : /\ (AtWork(w, e) /\ ~Passed(w, e))' => AtWork(w, e) /\ ~Passed(w, e)
                           /\ AtWork(w, e) => AtWork(w, e)'
                           /\ Failing(w, e)' => Failing(w, e)
    BY <1>0, <2>0 DEF AtWork, Passed, Failing, Current
  <2>2. Open(e)' => Open(e)
    BY <2>0, <2>1, OpenKept
  <2> QED BY <1>2, <2>1, <2>2, SendersKept DEF Kept, ClaimSelect
<1>3. ASSUME NEW v \in Workers, ClaimUpdate(v) PROVE Kept(e) \/ Passes(e) \/ Doubles(e)
  <2>0. /\ pc[v] = "selected" /\ pc' = [pc EXCEPT ![v] = "emit"] /\ batch' = batch
        /\ sent' = sent /\ fails' = fails /\ faults' = faults
        /\ overlaps'[e] = IF e \in batch[v] /\ ~Claimable(e) THEN overlaps[e] + 1
                                                             ELSE overlaps[e]
    BY <1>3 DEF ClaimUpdate
  <2>1. CASE e \in batch[v]
    <3>1. outbox'[e].lockedBy = v /\ outbox'[e].lock = "fresh"
      BY <1>a, <1>3, <2>1 DEF ClaimUpdate
    <3>2. AtWork(v, e)' /\ ~Failing(v, e)'
      BY <1>0, <2>0, <2>1 DEF AtWork, Failing
    <3>3. ~Open(e)'
      BY <3>1, <3>2 DEF Open, Unsettled, GivenBack
    <3>4. \A w \in Workers \ {v} :
            (AtWork(w, e) /\ ~Passed(w, e))' => AtWork(w, e) /\ ~Passed(w, e)
      BY <1>0, <2>0 DEF AtWork, Passed, Current
    <3>5. Senders(e)' \subseteq (Senders(e) \ {NoWorker}) \cup {v}
      BY <3>3, <3>4, WorkersAssumption DEF Senders, MaySend
    <3>6. CASE Claimable(e)
      <4>1. NoWorker \in Senders(e)
        BY <3>6 DEF Claimable, Senders, Open, Unsettled
      <4> QED BY <2>0, <3>5, <3>6, <4>1 DEF Passes
    <3>7. CASE ~Claimable(e)
      BY <2>0, <2>1, <3>5, <3>7 DEF Doubles
    <3> QED BY <3>6, <3>7
  <2>2. CASE e \notin batch[v]
    <3>1. outbox'[e] = outbox[e]
      BY <1>3, <2>2 DEF ClaimUpdate
    <3>2. \A w \in Workers : /\ (AtWork(w, e) /\ ~Passed(w, e))' => AtWork(w, e) /\ ~Passed(w, e)
                             /\ AtWork(w, e) => AtWork(w, e)'
                             /\ Failing(w, e)' => Failing(w, e)
      BY <1>0, <2>0, <2>2 DEF AtWork, Passed, Failing, Current
    <3>3. Open(e)' => Open(e)
      BY <3>1, <3>2, OpenKept
    <3> QED BY <2>0, <2>2, <3>2, <3>3, SendersKept DEF Kept
  <2> QED BY <2>1, <2>2
<1>4. ASSUME NEW v \in Workers, ListenersSucceed(v) \/ ListenerThrows(v) PROVE Kept(e)
  <2>0. /\ pc[v] = "emit" /\ pc' = [pc EXCEPT ![v] = "publish"]
        /\ UNCHANGED <<outbox, batch, sent, fails, overlaps, faults>>
    BY <1>4 DEF ListenersSucceed, ListenerThrows
  <2>1. \A w \in Workers : /\ (AtWork(w, e) /\ ~Passed(w, e))' => AtWork(w, e) /\ ~Passed(w, e)
                           /\ AtWork(w, e) => AtWork(w, e)'
                           /\ Failing(w, e)' => Failing(w, e)
    BY <1>0, <2>0 DEF AtWork, Passed, Failing, Current
  <2>2. Open(e)' => Open(e)
    BY <2>0, <2>1, OpenKept
  <2> QED BY <2>0, <2>1, <2>2, SendersKept DEF Kept
<1>5. ASSUME NEW v \in Workers, PublishThrows(v) PROVE Kept(e) \/ Fails(e)
  <2>0. /\ pc[v] = "publish" /\ pc' = [pc EXCEPT ![v] = "failing"]
        /\ UNCHANGED <<outbox, batch, overlaps, faults>>
    BY <1>5 DEF PublishThrows, Fail
  <2>1. PICK f \in Events : /\ Current(v, f) /\ fails' = [fails EXCEPT ![f] = @ + 1]
                            /\ sent' \in {sent, [sent EXCEPT ![f] = @ + 1]}
    BY <1>5 DEF PublishThrows, Fail
  <2>2. \A w \in Workers : /\ (AtWork(w, e) /\ ~Passed(w, e))' => AtWork(w, e) /\ ~Passed(w, e)
                           /\ AtWork(w, e) => AtWork(w, e)'
    BY <1>0, <2>0 DEF AtWork, Passed, Current
  <2>3. CASE e = f
    <3>1. v \in Senders(e)
      BY <2>0, <2>1, <2>3 DEF Senders, MaySend, AtWork, Passed, Current
    <3>2. ~(AtWork(v, e) /\ ~Passed(v, e))'
      BY <1>0, <2>0, <2>1, <2>3 DEF Passed, Current
    <3>3. Senders(e)' \subseteq (Senders(e) \ {v}) \cup {NoWorker}
      BY <2>2, <3>2 DEF Senders, MaySend
    <3>4. sent'[e] \in {sent[e], sent[e] + 1} /\ fails'[e] = fails[e] + 1
      BY <1>0, <2>1, <2>3
    <3> QED BY <2>0, <3>1, <3>3, <3>4 DEF Fails
  <2>4. CASE e # f
    <3>1. ~Current(v, e)
      BY <1>0, <2>1, <2>4, CurrentUnique
    <3>2. \A w \in Workers : Failing(w, e)' => Failing(w, e)
      BY <1>0, <2>0, <3>1 DEF Failing, Current
    <3>3. Open(e)' => Open(e)
      BY <2>0, <2>2, <3>2, OpenKept
    <3>4. sent'[e] = sent[e] /\ fails'[e] = fails[e]
      BY <1>0, <2>1, <2>4
    <3> QED BY <2>0, <2>2, <3>3, <3>4, SendersKept DEF Kept
  <2> QED BY <2>3, <2>4
<1>6. ASSUME NEW v \in Workers, PublishReturns(v) PROVE Kept(e) \/ Sends(e)
  <2>0. /\ pc[v] = "publish" /\ pc' = [pc EXCEPT ![v] = "mark"]
        /\ UNCHANGED <<outbox, batch, fails, overlaps, faults>>
    BY <1>6 DEF PublishReturns
  <2>1. PICK f \in Events : Current(v, f) /\ sent' \in {sent, [sent EXCEPT ![f] = @ + 1]}
    BY <1>6 DEF PublishReturns
  <2>2. \A w \in Workers : /\ (AtWork(w, e) /\ ~Passed(w, e))' => AtWork(w, e) /\ ~Passed(w, e)
                           /\ AtWork(w, e) => AtWork(w, e)'
                           /\ Failing(w, e)' => Failing(w, e)
    BY <1>0, <2>0 DEF AtWork, Passed, Failing, Current
  <2>3. Open(e)' => Open(e)
    BY <2>0, <2>2, OpenKept
  <2>4. CASE e = f
    <3>1. v \in Senders(e)
      BY <2>0, <2>1, <2>4 DEF Senders, MaySend, AtWork, Passed, Current
    <3>2. ~(AtWork(v, e) /\ ~Passed(v, e))'
      BY <1>0, <2>0, <2>1, <2>4 DEF Passed, Current
    <3>3. Senders(e)' \subseteq Senders(e) \ {v}
      BY <2>2, <2>3, <3>2, WorkersAssumption DEF Senders, MaySend
    <3>4. sent'[e] \in {sent[e], sent[e] + 1}
      BY <1>0, <2>1, <2>4
    <3> QED BY <2>0, <3>1, <3>3, <3>4 DEF Sends
  <2>5. CASE e # f
    <3>1. sent'[e] = sent[e]
      BY <1>0, <2>1, <2>5
    <3> QED BY <2>0, <2>2, <2>3, <3>1, SendersKept DEF Kept
  <2> QED BY <2>4, <2>5
<1>7. ASSUME NEW v \in Workers, MarkPublished(v) \/ MarkFailed(v) PROVE Kept(e)
  <2>0. /\ pc[v] \in {"mark", "failing"}
        /\ UNCHANGED <<sent, fails, overlaps, faults>>
    BY <1>7 DEF MarkPublished, MarkFailed
  <2>1. PICK f \in Events :
          /\ Current(v, f) /\ Settle(v, f)
          /\ \/ outbox[f].lockedBy # v /\ outbox' = outbox
             \/ /\ outbox[f].lockedBy = v
                /\ \/ outbox' = [outbox EXCEPT ![f] = PublishedRow(outbox[f])]
                   \/ /\ pc[v] = "failing"
                      /\ outbox' = [outbox EXCEPT ![f] = FailedRow(seen[v][f])]
    <3>1. CASE MarkPublished(v)
      BY <3>1 DEF MarkPublished
    <3>2. CASE MarkFailed(v)
      BY <3>2 DEF MarkFailed
    <3> QED BY <1>7, <3>1, <3>2
  <2>2. /\ \A w \in Workers \ {v} : batch'[w] = batch[w] /\ pc'[w] = pc[w]
        /\ batch'[v] = batch[v] \ {f} /\ pc'[v] \in {"idle", "emit"}
    BY <1>0, <2>1 DEF Settle
  <2>3. \A w \in Workers : (AtWork(w, e) /\ ~Passed(w, e))' => AtWork(w, e) /\ ~Passed(w, e)
    <3>1. e # f => ~Passed(v, e)
      BY <1>0, <2>1, CurrentUnique DEF Passed
    <3>2. AtWork(v, e)' => AtWork(v, e) /\ e # f
      BY <2>0, <2>2 DEF AtWork
    <3>3. ASSUME NEW w \in Workers \ {v}
          PROVE  (AtWork(w, e) /\ ~Passed(w, e))' => AtWork(w, e) /\ ~Passed(w, e)
      BY <2>2, <3>3 DEF AtWork, Passed, Current
    <3> QED BY <3>1, <3>2, <3>3
  <2>4. \A w \in Workers \ {v} : /\ AtWork(w, e) => AtWork(w, e)'
                                 /\ Failing(w, e)' => Failing(w, e)
    BY <2>2 DEF AtWork, Failing, Current
  <2>5. Open(e)' => Open(e)
    <3>1. CASE e = f /\ outbox[e].lockedBy = v
      <4>1. CASE pc[v] = "failing"
        BY <2>1, <3>1, <4>1 DEF Open, GivenBack, Failing
      <4>2. CASE pc[v] # "failing"
        <5>1. outbox'[e] = PublishedRow(outbox[e])
          BY <1>0, <2>1, <3>1, <4>2
        <5>2. outbox'[e].status = "PUBLISHED" /\ outbox'[e].lockedBy = NoWorker
          BY <1>a, <5>1 DEF PublishedRow
        <5> QED BY <5>2, WorkersAssumption DEF Open, Unsettled, GivenBack
      <4> QED BY <4>1, <4>2
    <3>2. CASE e = f /\ outbox[e].lockedBy # v
      <4>1. outbox'[e] = outbox[e]
        BY <2>1, <3>2
      <4> QED BY <2>4, <3>2, <4>1, OpenKept
    <3>3. CASE e # f
      <4>1. outbox'[e] = outbox[e]
        BY <1>0, <2>1, <3>3
      <4>2. AtWork(v, e) => AtWork(v, e)'
        BY <1>0, <2>1, <2>2, <3>3 DEF AtWork, Settle
      <4>3. ~Failing(v, e)'
        BY <2>2 DEF Failing
      <4> QED BY <2>4, <4>1, <4>2, <4>3, OpenKept
    <3> QED BY <3>1, <3>2, <3>3
  <2> QED BY <2>0, <2>3, <2>5, SendersKept DEF Kept
<1>8. ASSUME NEW v \in Workers, MarkPublishedThrows(v) PROVE Strays(e)
  <2>0. /\ pc[v] = "mark" /\ pc' = [pc EXCEPT ![v] = "failing"] /\ batch' = batch
        /\ sent' = sent /\ overlaps' = overlaps /\ faults' = faults + 1
    BY <1>8 DEF MarkPublishedThrows, Fault, Fail
  <2>1. fails'[e] >= fails[e]
    <3>1. PICK f \in Events : fails' = [fails EXCEPT ![f] = @ + 1]
      BY <1>8 DEF MarkPublishedThrows, Fail
    <3> QED BY <1>0, <1>a, <3>1
  <2>2. \A w \in Workers : (AtWork(w, e) /\ ~Passed(w, e))' => AtWork(w, e) /\ ~Passed(w, e)
    BY <1>0, <2>0 DEF AtWork, Passed, Current
  <2> QED BY <2>0, <2>1, <2>2 DEF Strays, Senders, MaySend
<1>9. ASSUME NEW v \in Workers, Abandon(v) PROVE Strays(e)
  <2>0. /\ pc' = [pc EXCEPT ![v] = "idle"] /\ batch' = [batch EXCEPT ![v] = {}]
        /\ sent' = sent /\ fails' = fails /\ overlaps' = overlaps /\ faults' = faults + 1
    BY <1>9 DEF Abandon, Fault
  <2>1. \A w \in Workers : (AtWork(w, e) /\ ~Passed(w, e))' => AtWork(w, e) /\ ~Passed(w, e)
    BY <1>0, <2>0 DEF AtWork, Passed, Current
  <2> QED BY <1>a, <2>0, <2>1 DEF Strays, Senders, MaySend
<1>10. ASSUME NEW f \in Events, LeaseOverrun(f) PROVE Strays(e)
  <2>0. /\ pc' = pc /\ batch' = batch /\ sent' = sent /\ fails' = fails
        /\ overlaps' = overlaps /\ faults' = faults + 1
    BY <1>10 DEF LeaseOverrun, Fault
  <2>1. \A w \in Workers : (AtWork(w, e) /\ ~Passed(w, e))' => AtWork(w, e) /\ ~Passed(w, e)
    BY <2>0 DEF AtWork, Passed, Current
  <2> QED BY <1>a, <2>0, <2>1 DEF Strays, Senders, MaySend
<1>11. ASSUME NEW f \in Events, OrphanLeaseExpires(f) PROVE Kept(e)
  <2>0. UNCHANGED <<pc, batch, sent, fails, overlaps, faults>>
    BY <1>11 DEF OrphanLeaseExpires
  <2>1. \A w \in Workers : (AtWork(w, e) /\ ~Passed(w, e))' => AtWork(w, e) /\ ~Passed(w, e)
    BY <2>0 DEF AtWork, Passed, Current
  <2>2. Open(e)' => Open(e)
    <3>1. CASE e = f
      <4>1. \A w \in Workers : ~(outbox[e].lockedBy = w /\ AtWork(w, e))
        BY <1>11, <3>1 DEF OrphanLeaseExpires, HolderAtWork
      <4>2. outbox'[e].status = outbox[e].status /\ outbox'[e].lockedBy = outbox[e].lockedBy
        BY <1>0, <1>a, <1>11, <3>1 DEF OrphanLeaseExpires, Expire
      <4>3. Unsettled(e)' => Unsettled(e)
        BY <4>1, <4>2 DEF Unsettled
      <4>4. GivenBack(e)' => GivenBack(e)
        BY <2>0, <4>2 DEF GivenBack, Failing, Current
      <4> QED BY <4>3, <4>4 DEF Open
    <3>2. CASE e # f
      <4>1. outbox'[e] = outbox[e]
        BY <1>0, <1>11, <3>2 DEF OrphanLeaseExpires, Expire
      <4> QED BY <2>0, <4>1, OpenKept DEF AtWork, Failing, Current
    <3> QED BY <3>1, <3>2
  <2> QED BY <2>0, <2>1, <2>2, SendersKept DEF Kept
<1>12. ASSUME NEW f \in Events, RetryDue(f) PROVE Kept(e)
  <2>0. UNCHANGED <<pc, batch, sent, fails, overlaps, faults>>
    BY <1>12 DEF RetryDue
  <2>1. /\ outbox'[e].status = outbox[e].status /\ outbox'[e].lock = outbox[e].lock
        /\ outbox'[e].lockedBy = outbox[e].lockedBy
    BY <1>0, <1>a, <1>12 DEF RetryDue
  <2>2. \A w \in Workers : (AtWork(w, e) /\ ~Passed(w, e))' => AtWork(w, e) /\ ~Passed(w, e)
    BY <2>0 DEF AtWork, Passed, Current
  <2>3. Open(e)' => Open(e)
    BY <2>0, <2>1, OpenKept DEF AtWork, Failing, Current
  <2> QED BY <2>0, <2>2, <2>3, SendersKept DEF Kept
<1>13. UNCHANGED vars => Kept(e)
  <2> SUFFICES ASSUME UNCHANGED vars PROVE Kept(e)
    OBVIOUS
  <2>1. \A w \in Workers : (AtWork(w, e) /\ ~Passed(w, e))' => AtWork(w, e) /\ ~Passed(w, e)
    BY DEF vars, AtWork, Passed, Current
  <2>2. Open(e)' => Open(e)
    BY OpenKept DEF vars, AtWork, Failing, Current
  <2> QED BY <2>1, <2>2, SendersKept DEF vars, Kept
<1> QED
  BY <1>1, <1>2, <1>3, <1>4, <1>5, <1>6, <1>7, <1>8, <1>9, <1>10, <1>11, <1>12, <1>13
     DEF Next, Tick

(* Before anything is stored, one delivery of each event is open. *)
LEMMA CountInit == Init => CopiesCounted
<1> SUFFICES ASSUME Init PROVE CopiesCounted
  OBVIOUS
<1>1. ASSUME NEW e \in Events
      PROVE  /\ IsFiniteSet(Senders(e))
             /\ sent[e] + Cardinality(Senders(e)) <= 1 + fails[e] + overlaps[e] + faults
  <2>1. Senders(e) \subseteq {NoWorker} /\ sent[e] = 0 /\ fails[e] = 0 /\ overlaps[e] = 0
        /\ faults = 0
    BY DEF Init, Senders, MaySend, AtWork
  <2>2. IsFiniteSet({NoWorker}) /\ Cardinality({NoWorker}) = 1
    BY FS_Singleton
  <2>3. IsFiniteSet(Senders(e)) /\ Cardinality(Senders(e)) <= 1
    BY <2>1, <2>2, FS_Subset
  <2>4. Cardinality(Senders(e)) \in Nat
    BY <2>3, FS_CardinalityType
  <2> HIDE DEF Senders
  <2> QED BY <2>1, <2>3, <2>4
<1> QED BY <1>1 DEF CopiesCounted

(* Consumers see an event again only for a cause: every copy beyond the    *)
(* first is paid for by a failed pass over the event, by a fault, or by a  *)
(* claim whose update came too late, however often leases run out and rows *)
(* are claimed again.                                                      *)
THEOREM CopiesHaveCause == Spec => []DuplicatesHaveCause
<1>1. CountInv /\ [Next]_vars => CountInv'
  <2> SUFFICES ASSUME CountInv, [Next]_vars PROVE CountInv'
    OBVIOUS
  <2>1. IInv'
    BY InvStep DEF CountInv
  <2>2. ASSUME NEW e \in Events
        PROVE  /\ IsFiniteSet(Senders(e)')
               /\ sent'[e] + Cardinality(Senders(e)')
                    <= 1 + fails'[e] + overlaps'[e] + faults'
    <3>1. TypeOK /\ TypeOK'
      BY <2>1 DEF CountInv, IInv
    <3>2. /\ IsFiniteSet(Senders(e))
          /\ sent[e] + Cardinality(Senders(e)) <= 1 + fails[e] + overlaps[e] + faults
      BY DEF CountInv, CopiesCounted
    <3>3. Kept(e) \/ Passes(e) \/ Doubles(e) \/ Fails(e) \/ Sends(e) \/ Strays(e)
      BY CountStep DEF CountInv
    <3> QED BY <3>1, <3>2, <3>3, CountKept
  <2> QED BY <2>1, <2>2 DEF CountInv, CopiesCounted
<1>2. CountInv => DuplicatesHaveCause
  <2> SUFFICES ASSUME CountInv, NEW e \in Events
               PROVE  sent[e] <= 1 + fails[e] + overlaps[e] + faults
    BY DEF DuplicatesHaveCause
  <2>1. /\ Cardinality(Senders(e)) \in Nat
        /\ sent[e] + Cardinality(Senders(e)) <= 1 + fails[e] + overlaps[e] + faults
    BY FS_CardinalityType DEF CountInv, CopiesCounted
  <2>2. sent[e] \in Nat /\ fails[e] \in Nat /\ overlaps[e] \in Nat /\ faults \in Nat
    BY SizesAssumption DEF CountInv, IInv, TypeOK
  <2> QED BY <2>1, <2>2
<1>3. Init => CountInv
  BY InvInit, CountInit DEF CountInv
<1> QED BY <1>1, <1>2, <1>3, PTL DEF Spec
=============================================================================
