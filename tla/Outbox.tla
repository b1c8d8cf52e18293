------------------------------- MODULE Outbox -------------------------------
(***************************************************************************)
(* The transactional outbox and the workers that relay it.                 *)
(*                                                                         *)
(* A command handler writes its domain change and its outbox rows in one   *)
(* transaction (Store).  Every application process runs a relay worker on  *)
(* a one-second timer and the dispatch CLI runs one more: a worker claims  *)
(* a batch of due rows with a lease (locked_at, locked_by), and for each   *)
(* row in order runs the in-process listeners, publishes to RabbitMQ and   *)
(* marks the row.  Leases, retries and crashes make the delivery           *)
(* at-least-once; this module says what survives them.                     *)
(*                                                                         *)
(* Two habits of the libraries are part of the code's behaviour.  The      *)
(* claim's SELECT ... FOR UPDATE SKIP LOCKED is executed on the bare       *)
(* connection, outside the transaction around it, so its row locks are     *)
(* gone before the UPDATE: two claims may take the same row.  And an       *)
(* @OnEvent listener's exception is logged by the event emitter and never  *)
(* reaches emitAsync: the relay cannot tell that a listener failed.        *)
(*                                                                         *)
(* Time is kept only as far as the code compares it: a lease is "fresh" or *)
(* "stale" (older than lockTtlMs), a retry is due or not.                  *)
(***************************************************************************)
EXTENDS Integers, FiniteSets

CONSTANTS
  Events,         \* event ids, numbered in (occurred_at, id) order
  Workers,        \* relay workers, one per process
  NoWorker,       \* null in the column locked_by
  BatchSize,      \* OUTBOX_RELAY_BATCH_SIZE
  MaxAttempts,    \* OUTBOX_RELAY_MAX_ATTEMPTS
  RabbitEnabled,  \* RABBITMQ_DISPATCH_ENABLED = 'true'
  MaxFaults       \* bound: crashes, database errors and overrun leases together

ASSUME EventsAssumption  == Events \subseteq Nat
ASSUME WorkersAssumption == NoWorker \notin Workers
ASSUME SizesAssumption   == /\ BatchSize \in Nat \ {0}
                            /\ MaxAttempts \in Nat \ {0}
                            /\ MaxFaults \in Nat
ASSUME FlagsAssumption   == RabbitEnabled \in BOOLEAN

VARIABLES
  outbox,   \* the table outbox_messages, one row per event id
  pc,       \* where each worker is in relayBatch
  batch,    \* ids a worker selected, then the messages it has still to settle
  seen,     \* attemptCount of those messages, as the worker's claim read it
  told,     \* history: whether the listeners of each event were ever called, ever all succeeded
  sent,     \* history: how often the broker accepted each event
  fails,    \* history: how many passes over each event failed
  overlaps, \* history: how many claims took each event when it was not claimable any more
  faults    \* crashes, database errors and overrun leases so far

vars == <<outbox, pc, batch, seen, told, sent, fails, overlaps, faults>>

Status == {"ABSENT", "PENDING", "PUBLISHED", "FAILED"}
Row    == [status: Status, attemptCount: Nat, due: BOOLEAN,
           lock: {"none", "fresh", "stale"}, lockedBy: Workers \cup {NoWorker}]
PC     == {"idle", "selected", "emit", "publish", "mark", "failing"}
Told   == {"never", "failed", "heard"}

AbsentRow == [status |-> "ABSENT", attemptCount |-> 0, due |-> TRUE,
              lock |-> "none", lockedBy |-> NoWorker]

(* The message of the loop: the oldest one the worker has still to settle. *)
Current(w, e) == e \in batch[w] /\ \A f \in batch[w] : e <= f

(* Claimed by w and not settled yet. *)
AtWork(w, e) == pc[w] \in PC \ {"idle", "selected"} /\ e \in batch[w]

(* Mutant of the claim's where clause: a dead worker's lease is kept.       *)
MutantClaimableKeepsDeadLease(e) ==
  outbox[e].status = "PENDING" /\ outbox[e].due /\ outbox[e].lock = "none"

Claimable(e) == /\ outbox[e].status = "PENDING"
                /\ outbox[e].due
                /\ outbox[e].lock # "fresh"
-----------------------------------------------------------------------------
Init ==
  /\ outbox = [e \in Events |-> AbsentRow]
  /\ pc     = [w \in Workers |-> "idle"]
  /\ batch  = [w \in Workers |-> {}]
  /\ seen   = [w \in Workers |-> [e \in Events |-> 0]]
  /\ told   = [e \in Events |-> "never"]
  /\ sent   = [e \in Events |-> 0]
  /\ fails  = [e \in Events |-> 0]
  /\ overlaps = [e \in Events |-> 0]
  /\ faults = 0

(* A handler's transaction commits its domain change with the rows of the  *)
(* events it raised.                                                       *)
Store(S) ==
  /\ S # {}
  /\ \A e \in S : outbox[e].status = "ABSENT"
  /\ outbox' = [e \in Events |-> IF e \in S THEN [AbsentRow EXCEPT !.status = "PENDING"]
                                            ELSE outbox[e]]
  /\ UNCHANGED <<pc, batch, seen, told, sent, fails, overlaps, faults>>

(* claimPendingBatch, its select: the BatchSize oldest claimable rows.     *)
ClaimSelect(w) ==
  /\ pc[w] = "idle"
  /\ LET due == {e \in Events : Claimable(e)}
     IN \E S \in SUBSET due :
          /\ S # {}
          /\ Cardinality(S) <= BatchSize
          /\ S # due => Cardinality(S) = BatchSize
          /\ \A e \in S, f \in due \ S : e < f
          /\ batch' = [batch EXCEPT ![w] = S]
  /\ pc' = [pc EXCEPT ![w] = "selected"]
  /\ UNCHANGED <<outbox, seen, told, sent, fails, overlaps, faults>>

(* claimPendingBatch, its update by id alone, the read of the entities,     *)
(* commit.  A row settled or leased since the select is taken all the same. *)
ClaimUpdate(w) ==
  /\ pc[w] = "selected"
  /\ outbox' = [e \in Events |->
                  IF e \in batch[w]
                  THEN [outbox[e] EXCEPT !.lock = "fresh", !.lockedBy = w]
                  ELSE outbox[e]]
  /\ seen' = [seen EXCEPT ![w] = [e \in Events |-> IF e \in batch[w]
                                                   THEN outbox[e].attemptCount ELSE 0]]
  /\ overlaps' = [e \in Events |-> IF e \in batch[w] /\ ~Claimable(e)
                                   THEN overlaps[e] + 1 ELSE overlaps[e]]
  /\ pc' = [pc EXCEPT ![w] = "emit"]
  /\ UNCHANGED <<batch, told, sent, fails, faults>>

(* The catch block of relayBatch takes over. *)
Fail(w, e) == /\ pc' = [pc EXCEPT ![w] = "failing"]
              /\ fails' = [fails EXCEPT ![e] = @ + 1]

(* emitAsync resolves: every listener of the event returned.               *)
ListenersSucceed(w) ==
  /\ pc[w] = "emit"
  /\ \E e \in Events : Current(w, e) /\ told' = [told EXCEPT ![e] = "heard"]
  /\ pc' = [pc EXCEPT ![w] = "publish"]
  /\ UNCHANGED <<outbox, batch, seen, sent, fails, overlaps, faults>>

(* A listener throws: the emitter logs it and emitAsync resolves as well.  *)
ListenerThrows(w) ==
  /\ pc[w] = "emit"
  /\ \E e \in Events :
       /\ Current(w, e)
       /\ told' = [told EXCEPT ![e] = IF @ = "heard" THEN "heard" ELSE "failed"]
  /\ pc' = [pc EXCEPT ![w] = "publish"]
  /\ UNCHANGED <<outbox, batch, seen, sent, fails, overlaps, faults>>

(* publish returns: the broker confirmed, or dispatch is disabled.         *)
PublishReturns(w) ==
  /\ pc[w] = "publish"
  /\ \E e \in Events :
       /\ Current(w, e)
       /\ sent' = IF RabbitEnabled THEN [sent EXCEPT ![e] = @ + 1] ELSE sent
  /\ pc' = [pc EXCEPT ![w] = "mark"]
  /\ UNCHANGED <<outbox, batch, seen, told, fails, overlaps, faults>>

(* Mutant: publish catches its own error and returns.                      *)
MutantPublishErrorCaught(w) ==
  /\ pc[w] = "publish"
  /\ RabbitEnabled
  /\ pc' = [pc EXCEPT ![w] = "mark"]
  /\ UNCHANGED <<outbox, batch, seen, told, sent, fails, overlaps, faults>>

(* publish throws: no connection, a negative confirm, or a confirm lost    *)
(* after the broker took the message.                                      *)
PublishThrows(w) ==
  /\ pc[w] = "publish"
  /\ RabbitEnabled
  /\ \E e \in Events :
       /\ Current(w, e)
       /\ sent' \in {sent, [sent EXCEPT ![e] = @ + 1]}
       /\ Fail(w, e)
  /\ UNCHANGED <<outbox, batch, seen, told, overlaps, faults>>

(* On to the next message of the batch, or the batch is done.              *)
Settle(w, e) ==
  /\ batch' = [batch EXCEPT ![w] = @ \ {e}]
  /\ seen' = [seen EXCEPT ![w][e] = 0]
  /\ pc' = [pc EXCEPT ![w] = IF batch[w] = {e} THEN "idle" ELSE "emit"]

(* Mutants of the published row: the status is another enum's, or is not   *)
(* written.                                                                *)
MutantPublishedRowProcessed(row) ==
  [row EXCEPT !.status = "PROCESSED", !.lock = "none", !.lockedBy = NoWorker]
MutantPublishedRowPending(row) == [row EXCEPT !.lock = "none", !.lockedBy = NoWorker]

PublishedRow(row) ==
  [row EXCEPT !.status = "PUBLISHED", !.lock = "none", !.lockedBy = NoWorker]

MarkPublished(w) ==
  /\ pc[w] = "mark"
  /\ \E e \in Events :
       /\ Current(w, e)
       /\ outbox' = IF outbox[e].lockedBy = w
                    THEN [outbox EXCEPT ![e] = PublishedRow(@)]
                    ELSE outbox
       /\ Settle(w, e)
  /\ UNCHANGED <<told, sent, fails, overlaps, faults>>

(* Mutant: attempts are counted from one.                                  *)
MutantFailedRowEarly(n) ==
  LET terminal == n + 2 >= MaxAttempts
  IN [status |-> IF terminal THEN "FAILED" ELSE "PENDING", attemptCount |-> n + 1,
      due |-> terminal, lock |-> "none", lockedBy |-> NoWorker]

(* The row that markFailed leaves when the worker's claim read attemptCount n. *)
FailedRow(n) ==
  LET terminal == n + 1 >= MaxAttempts
  IN [status |-> IF terminal THEN "FAILED" ELSE "PENDING", attemptCount |-> n + 1,
      due |-> terminal, lock |-> "none", lockedBy |-> NoWorker]

(* Mutant: markFailed writes whoever holds the lease.                      *)
MutantMarkFailedUnguarded(w) ==
  /\ pc[w] = "failing"
  /\ \E e \in Events :
       /\ Current(w, e)
       /\ outbox' = [outbox EXCEPT ![e] = FailedRow(seen[w][e])]
       /\ Settle(w, e)
  /\ UNCHANGED <<told, sent, fails, overlaps, faults>>

MarkFailed(w) ==
  /\ pc[w] = "failing"
  /\ \E e \in Events :
       /\ Current(w, e)
       /\ outbox' = IF outbox[e].lockedBy = w
                    THEN [outbox EXCEPT ![e] = FailedRow(seen[w][e])]
                    ELSE outbox
       /\ Settle(w, e)
  /\ UNCHANGED <<told, sent, fails, overlaps, faults>>
-----------------------------------------------------------------------------
(* Faults.                                                                 *)

Fault == faults < MaxFaults /\ faults' = faults + 1

(* markPublished fails in the database and the catch block takes over.     *)
MarkPublishedThrows(w) ==
  /\ Fault
  /\ pc[w] = "mark"
  /\ \E e \in Events : Current(w, e) /\ Fail(w, e)
  /\ UNCHANGED <<outbox, batch, seen, told, sent, overlaps>>

(* The process stops, or the claim or markFailed throws out of relayBatch  *)
(* and tick logs it: the batch is forgotten, its leases stay.              *)
Abandon(w) ==
  /\ Fault
  /\ pc[w] # "idle"
  /\ pc' = [pc EXCEPT ![w] = "idle"]
  /\ batch' = [batch EXCEPT ![w] = {}]
  /\ seen' = [seen EXCEPT ![w] = [e \in Events |-> 0]]
  /\ UNCHANGED <<outbox, told, sent, fails, overlaps>>

HolderAtWork(e) == \E w \in Workers : outbox[e].lockedBy = w /\ AtWork(w, e)

Expire(e) == /\ outbox[e].lock = "fresh"
             /\ outbox' = [outbox EXCEPT ![e].lock = "stale"]

(* The batch takes longer than lockTtlMs: nothing renews the lease.        *)
LeaseOverrun(e) ==
  /\ Fault
  /\ HolderAtWork(e)
  /\ Expire(e)
  /\ UNCHANGED <<pc, batch, seen, told, sent, fails, overlaps>>

(* Time passes. *)
OrphanLeaseExpires(e) ==
  /\ ~HolderAtWork(e)
  /\ Expire(e)
  /\ UNCHANGED <<pc, batch, seen, told, sent, fails, overlaps, faults>>

RetryDue(e) ==
  /\ ~outbox[e].due
  /\ outbox' = [outbox EXCEPT ![e].due = TRUE]
  /\ UNCHANGED <<pc, batch, seen, told, sent, fails, overlaps, faults>>
-----------------------------------------------------------------------------
(* One run of tick, split where another process can come between.          *)
Tick(w) ==
  \/ ClaimSelect(w)
  \/ ClaimUpdate(w)
  \/ ListenersSucceed(w)
  \/ ListenerThrows(w)
  \/ PublishReturns(w)
  \/ PublishThrows(w)
  \/ MarkPublished(w)
  \/ MarkFailed(w)

Next ==
  \/ \E S \in SUBSET Events : Store(S)
  \/ \E w \in Workers : Tick(w) \/ MarkPublishedThrows(w) \/ Abandon(w)
  \/ \E e \in Events : LeaseOverrun(e) \/ OrphanLeaseExpires(e) \/ RetryDue(e)

Spec == Init /\ [][Next]_vars

(* The timer fires every second in every live process and time passes;     *)
(* handlers and faults owe nothing.                                        *)
Fairness == /\ \A w \in Workers : WF_vars(Tick(w))
            /\ \A e \in Events : WF_vars(OrphanLeaseExpires(e)) /\ WF_vars(RetryDue(e))

FairSpec == Spec /\ Fairness
-----------------------------------------------------------------------------
(* What the code promises.                                                 *)

(* Every variable keeps its type.                                          *)
TypeOK ==
  /\ outbox \in [Events -> Row]
  /\ pc \in [Workers -> PC]
  /\ batch \in [Workers -> SUBSET Events]
  /\ seen \in [Workers -> [Events -> Nat]]
  /\ told \in [Events -> Told]
  /\ sent \in [Events -> Nat]
  /\ fails \in [Events -> Nat]
  /\ overlaps \in [Events -> Nat]
  /\ faults \in 0 .. MaxFaults

(* relayBatch marks a row PUBLISHED only after the broker took the event,  *)
(* whatever crashed, expired or was claimed twice in between.              *)
PublishedWasSent ==
  RabbitEnabled =>
    \A e \in Events : outbox[e].status = "PUBLISHED" => sent[e] > 0

(* What the relay's test says: a listener's failure is marked for retry,   *)
(* so a row is PUBLISHED only once every listener has handled its event.   *)
PublishedWasHeard ==
  \A e \in Events : outbox[e].status = "PUBLISHED" => told[e] = "heard"

(* A row is given up (FAILED, never relayed again) only after MaxAttempts  *)
(* passes over it really failed, although attempt_count is computed from   *)
(* a value read at claim time and written by whoever holds the lease.      *)
GivesUpOnlyWhenExhausted ==
  \A e \in Events : outbox[e].status = "FAILED" => fails[e] >= MaxAttempts

(* A worker that lost its lease never writes its older attempt_count over  *)
(* the one a later holder wrote.                                           *)
AttemptsNeverForgotten ==
  [][\A e \in Events : outbox'[e].attemptCount >= outbox[e].attemptCount]_vars

(* What the claim's FOR UPDATE SKIP LOCKED says: two workers are never at  *)
(* work on the same row, unless a crash, a database error or an overrun    *)
(* lease interfered.                                                       *)
ExclusiveClaim ==
  faults = 0 =>
    \A e \in Events, v, w \in Workers : AtWork(v, e) /\ AtWork(w, e) => v = w

(* Consumers see an event again only for a cause: each copy beyond the     *)
(* first is paid for by a failed pass over the event, by a fault, or by a  *)
(* claim whose update came too late for its select.  The lease keeps every *)
(* other worker away.                                                      *)
DuplicatesHaveCause ==
  \A e \in Events : sent[e] <= 1 + fails[e] + overlaps[e] + faults

(* Every stored row leaves PENDING for good, with no operator's help.      *)
EventuallySettled ==
  \A e \in Events : <>[](outbox[e].status # "PENDING")
-----------------------------------------------------------------------------
(* Why it holds: the parts of the inductive invariant.    *)

(* The order emit, publish, mark is kept for the message of the loop. *)
SentBeforeMark ==
  /\ PublishedWasSent
  /\ RabbitEnabled =>
       \A w \in Workers, e \in Events :
         pc[w] = "mark" /\ Current(w, e) => sent[e] > 0

ToldBeforePublish ==
  \A w \in Workers, e \in Events :
    pc[w] \in {"publish", "mark"} /\ Current(w, e) => told[e] # "never"

(* Whoever still holds the lease read the attempt_count the row has now. *)
HolderReadIsCurrent ==
  \A w \in Workers, e \in Events :
    AtWork(w, e) /\ outbox[e].lockedBy = w => seen[w][e] = outbox[e].attemptCount

(* attempt_count never overstates the failures, and leaves room for the    *)
(* one a holder is about to record.                                        *)
AttemptsAreFailures ==
  /\ \A e \in Events :
       /\ outbox[e].attemptCount <= fails[e]
       /\ outbox[e].status = "ABSENT" => outbox[e].attemptCount = 0
       /\ outbox[e].status = "FAILED" => outbox[e].attemptCount >= MaxAttempts
  /\ \A w \in Workers, e \in Events :
       pc[w] = "failing" /\ Current(w, e) /\ outbox[e].lockedBy = w
         => outbox[e].attemptCount < fails[e]

(* Workers hold only rows that were stored. *)
BatchIsStored ==
  \A w \in Workers : \A e \in batch[w] : outbox[e].status # "ABSENT"

(* A worker between two batches has none in hand. *)
IdleHandsEmpty == \A w \in Workers : pc[w] = "idle" => batch[w] = {}

IInv == /\ TypeOK
        /\ SentBeforeMark /\ ToldBeforePublish
        /\ HolderReadIsCurrent /\ AttemptsAreFailures
        /\ BatchIsStored /\ IdleHandsEmpty
-----------------------------------------------------------------------------
(* The relay implements EventDelivery: whatever the workers do to each     *)
(* other's rows, a verdict is honest when it is written, and one that no   *)
(* worker has in hand any more is final.                                   *)
Verdict   == [e \in Events |-> outbox[e].status]
InHand    == {e \in Events : \E w \in Workers : e \in batch[w]}
Delivered == {e \in Events : told[e] # "never" /\ (RabbitEnabled => sent[e] > 0)}

Promise == INSTANCE EventDelivery WITH
             verdict <- Verdict, inHand <- InHand, delivered <- Delivered, failures <- fails

ImplementsPromise == Promise!Spec
=============================================================================
