------------------------------ MODULE Consumer ------------------------------
(***************************************************************************)
(* The RabbitMQ consumer and its inbox table.                              *)
(*                                                                         *)
(* The outbox relay publishes an event at least once, so the queue can     *)
(* hold several copies of a message.  Consumer processes take copies, up   *)
(* to Prefetch at a time, each handled by an asynchronous handleMessage of *)
(* its own.  handleMessage claims the message in the inbox table, calls    *)
(* the in-process listeners, marks the row and acknowledges the copy; on a *)
(* failure it sends the copy to the retry queue or to the dead-letter      *)
(* queue.  A copy that is taken and not acknowledged returns to the queue  *)
(* when its connection or its process goes.                                *)
(*                                                                         *)
(* What an @OnEvent listener throws is logged by the event emitter and     *)
(* never reaches emitAsync: a pass of the listeners always ends well here, *)
(* and the only failures handleMessage sees are of markProcessed and ack.  *)
(*                                                                         *)
(* Time is kept as far as the code compares it: a lock of the inbox is     *)
(* "fresh" or "stale" (older than lockTtlMs).                              *)
(***************************************************************************)
EXTENDS Integers, FiniteSets

CONSTANTS
  Msgs,         \* message ids: the event ids of the outbox
  Workers,      \* consumer processes
  NoWorker,     \* null in the column locked_by
  Gone,         \* the worker id of a process that has exited
  Prefetch,     \* of each process: --prefetch, RABBITMQ_CONSUMER_PREFETCH
  MaxAttempts,  \* RABBITMQ_MAX_DELIVERY_ATTEMPTS (0 acts as 1)
  Disconnects,  \* whether a connection to the broker may be lost
  MaxPublished, \* bound: copies of a message the relay publishes
  MaxFaults     \* bound: crashes, lost connections, database errors, overrun locks

ASSUME IdsAssumption    == /\ NoWorker \notin Workers \cup Msgs
                           /\ Gone \notin Workers /\ NoWorker # Gone
ASSUME LimitsAssumption == /\ Prefetch \in [Workers -> Nat \ {0}]
                           /\ MaxAttempts \in Nat \ {0}
                           /\ MaxPublished \in Nat /\ MaxFaults \in Nat
                           /\ Disconnects \in BOOLEAN

VARIABLES
  inbox,      \* the table inbox_messages, one row per message id
  ready,      \* primary queue: how many of each copy
  retrying,   \* retry queue
  dead,       \* dead-letter queue: how many copies of each message
  pc,         \* where each handleMessage is
  held,       \* the copy it handles
  found,      \* the row as its claim read it, until the claim writes
  link,       \* each process's channel to the broker, "down" without a process
  published,  \* history: copies published by the relay
  done,       \* history: passes over a message in which every listener was called
  fails,      \* history: passes over a message that ended in the catch block
  repeats,    \* history: copies of a message that came back with its listeners run,
              \* or with no answer to the broker
  faults      \* faults so far

queues  == <<ready, retrying, dead>>
history == <<published, done, fails, repeats>>
task    == <<pc, held, found>>
vars    == <<inbox, queues, task, link, history, faults>>

Slots == UNION {{w} \X (1 .. Prefetch[w]) : w \in Workers}
Of(s) == s[1]

Tries  == 0 .. MaxAttempts - 1
Copy   == [msg : Msgs, tries : Tries]   \* tries: the header redelivery_count
NoCopy == [msg |-> NoWorker, tries |-> 0]
PC     == {"idle", "begin", "insert", "overwrite", "work", "mark", "ack", "failing", "forward"}
Row    == [status : {"ABSENT", "PROCESSING", "PROCESSED", "FAILED"},
           lock : {"none", "fresh", "stale"}, lockedBy : Workers \cup {NoWorker, Gone},
           attemptCount : Nat]
NoRow  == [status |-> "ABSENT", lock |-> "none", lockedBy |-> NoWorker, attemptCount |-> 0]

Put(q, c)  == [q EXCEPT ![c] = @ + 1]
Take(q, c) == [q EXCEPT ![c] = @ - 1]

Handles(s, m) == pc[s] # "idle" /\ held[s].msg = m
Connected(s)  == link[Of(s)] = "open"

(* The slots of w whose copies the broker still counts as delivered. *)
Unacked(w) == {s \in Slots : Of(s) = w /\ pc[s] # "idle" /\ link[w] = "open"}

(* The broker puts the unacknowledged copies of w back. *)
Requeue(w) ==
  /\ ready' = [c \in Copy |-> ready[c] + Cardinality({s \in Unacked(w) : held[s] = c})]
  /\ repeats' = [m \in Msgs |-> repeats[m] + Cardinality({s \in Unacked(w) : held[s].msg = m})]

(* The process of w exits; its successor comes back under the same worker  *)
(* id (--worker-id) or under another (consumer-<pid>).                     *)
Exit(w) ==
  /\ Requeue(w)
  /\ pc' = [s \in Slots |-> IF Of(s) = w THEN "idle" ELSE pc[s]]
  /\ held' = [s \in Slots |-> IF Of(s) = w THEN NoCopy ELSE held[s]]
  /\ found' = [s \in Slots |-> IF Of(s) = w THEN NoRow ELSE found[s]]
  /\ link' = [link EXCEPT ![w] = "down"]
  /\ \E id \in {w, Gone} :
       inbox' = [m \in Msgs |-> IF inbox[m].lockedBy = w
                                THEN [inbox[m] EXCEPT !.lockedBy = id] ELSE inbox[m]]

Goto(s, l) == pc' = [pc EXCEPT ![s] = l] /\ UNCHANGED <<held, found>>
Finish(s)  == /\ pc' = [pc EXCEPT ![s] = "idle"]
              /\ held' = [held EXCEPT ![s] = NoCopy]
              /\ UNCHANGED found
-----------------------------------------------------------------------------
Init ==
  /\ inbox = [m \in Msgs |-> NoRow]
  /\ ready = [c \in Copy |-> 0]
  /\ retrying = [c \in Copy |-> 0]
  /\ dead = [m \in Msgs |-> 0]
  /\ pc = [s \in Slots |-> "idle"]
  /\ held = [s \in Slots |-> NoCopy]
  /\ found = [s \in Slots |-> NoRow]
  /\ link = [w \in Workers |-> "open"]
  /\ published = [m \in Msgs |-> 0]
  /\ done = [m \in Msgs |-> 0]
  /\ fails = [m \in Msgs |-> 0]
  /\ repeats = [m \in Msgs |-> 0]
  /\ faults = 0

(* The broker. *)
Publish(m) ==
  /\ published[m] < MaxPublished
  /\ published' = [published EXCEPT ![m] = @ + 1]
  /\ ready' = Put(ready, [msg |-> m, tries |-> 0])
  /\ UNCHANGED <<inbox, retrying, dead, task, link, done, fails, repeats, faults>>

(* The retry queue dead-letters an expired copy to the primary exchange.   *)
RetryExpires(c) ==
  /\ retrying[c] > 0
  /\ retrying' = Take(retrying, c)
  /\ ready' = Put(ready, c)
  /\ UNCHANGED <<inbox, dead, task, link, history, faults>>

(* Slots are only names for the running handleMessage calls: the first     *)
(* free one is taken.                                                      *)
FirstFree(s) == pc[s] = "idle" /\ \A n \in 1 .. s[2] - 1 : pc[<<s[1], n>>] # "idle"

Deliver(s, c) ==
  /\ Connected(s)
  /\ FirstFree(s)
  /\ ready[c] > 0
  /\ ready' = Take(ready, c)
  /\ pc' = [pc EXCEPT ![s] = "begin"]
  /\ held' = [held EXCEPT ![s] = c]
  /\ UNCHANGED <<inbox, retrying, dead, found, link, history, faults>>
-----------------------------------------------------------------------------
(* Mutant: a lock never goes stale.                                        *)
MutantBusyForever(s, m) == inbox[m].lock # "none" /\ inbox[m].lockedBy # Of(s)

(* startProcessing, its read of the row: no row lock is taken.             *)
Busy(s, m) == inbox[m].lock = "fresh" /\ inbox[m].lockedBy # Of(s)

FindsProcessed(s) ==
  /\ pc[s] = "begin"
  /\ Connected(s)
  /\ inbox[held[s].msg].status = "PROCESSED"
  /\ Finish(s)
  /\ UNCHANGED <<inbox, queues, link, history, faults>>

(* Mutant: a copy another worker seems to handle is acknowledged.          *)
MutantBusyAcked(s) ==
  /\ pc[s] = "begin"
  /\ Connected(s)
  /\ inbox[held[s].msg].status # "PROCESSED"
  /\ Busy(s, held[s].msg)
  /\ Finish(s)
  /\ UNCHANGED <<inbox, queues, link, history, faults>>

FindsBusy(s) ==
  /\ pc[s] = "begin"
  /\ Connected(s)
  /\ inbox[held[s].msg].status # "PROCESSED"
  /\ Busy(s, held[s].msg)
  /\ ready' = Put(ready, held[s])
  /\ Finish(s)
  /\ UNCHANGED <<inbox, retrying, dead, link, history, faults>>

FindsFree(s) ==
  /\ pc[s] = "begin"
  /\ LET row == inbox[held[s].msg]
     IN /\ row.status # "PROCESSED"
        /\ ~Busy(s, held[s].msg)
        /\ pc' = [pc EXCEPT ![s] = IF row.status = "ABSENT" THEN "insert" ELSE "overwrite"]
        /\ found' = [found EXCEPT ![s] = row]
  /\ UNCHANGED <<inbox, queues, held, link, history, faults>>

Claim(s, row) ==
  /\ inbox' = [inbox EXCEPT ![held[s].msg] = row]
  /\ pc' = [pc EXCEPT ![s] = "work"]
  /\ found' = [found EXCEPT ![s] = NoRow]
  /\ UNCHANGED <<queues, held, link, history, faults>>

Insert(s) ==
  /\ pc[s] = "insert"
  /\ inbox[held[s].msg].status = "ABSENT"
  /\ Claim(s, [NoRow EXCEPT !.status = "PROCESSING", !.lock = "fresh", !.lockedBy = Of(s)])

(* The unique index on (message_id, handler_name) rejects the insert; the  *)
(* rejection is handled by nobody and ends the process.                    *)
InsertCollides(s) ==
  /\ pc[s] = "insert"
  /\ inbox[held[s].msg].status # "ABSENT"
  /\ Exit(Of(s))
  /\ UNCHANGED <<retrying, dead, published, done, fails, faults>>

(* The flush updates the row by id, whatever it has become, in the columns *)
(* the claim changed since its read.                                       *)
Overwrite(s) ==
  /\ pc[s] = "overwrite"
  /\ LET row == inbox[held[s].msg]
     IN Claim(s, [row EXCEPT
          !.status   = IF found[s].status = "PROCESSING" THEN @ ELSE "PROCESSING",
          !.lockedBy = IF found[s].lockedBy = Of(s) THEN @ ELSE Of(s),
          !.lock     = "fresh"])
-----------------------------------------------------------------------------
(* executeWithImmediateRetries: its first round resolves, whether or not a *)
(* listener threw.                                                         *)
ListenersReturn(s) ==
  /\ pc[s] = "work"
  /\ done' = [done EXCEPT ![held[s].msg] = @ + 1]
  /\ Goto(s, "mark")
  /\ UNCHANGED <<inbox, queues, link, published, fails, repeats, faults>>

(* The catch block of handleMessage takes over. *)
Fail(s) == Goto(s, "failing") /\ fails' = [fails EXCEPT ![held[s].msg] = @ + 1]

(* Mutant: whoever holds the lock.                                         *)
MutantUpdateAny(s, row) == inbox' = [inbox EXCEPT ![held[s].msg] = row]

(* An update of the row where locked_by is the worker. *)
UpdateHeld(s, row) ==
  inbox' = IF inbox[held[s].msg].lockedBy = Of(s)
           THEN [inbox EXCEPT ![held[s].msg] = row] ELSE inbox

(* Mutant: the status is the outbox's.                                     *)
MutantMarkPublished(s) ==
  /\ pc[s] = "mark"
  /\ UpdateHeld(s, [inbox[held[s].msg] EXCEPT !.status = "PUBLISHED", !.lock = "none",
                                              !.lockedBy = NoWorker])
  /\ Goto(s, "ack")
  /\ UNCHANGED <<queues, link, history, faults>>

MarkProcessed(s) ==
  /\ pc[s] = "mark"
  /\ UpdateHeld(s, [inbox[held[s].msg] EXCEPT !.status = "PROCESSED", !.lock = "none",
                                              !.lockedBy = NoWorker])
  /\ Goto(s, "ack")
  /\ UNCHANGED <<queues, link, history, faults>>

Ack(s) ==
  /\ pc[s] = "ack"
  /\ Connected(s)
  /\ Finish(s)
  /\ UNCHANGED <<inbox, queues, link, history, faults>>

(* ack throws on a closed channel, inside the try block. *)
AckThrows(s) ==
  /\ pc[s] = "ack"
  /\ ~Connected(s)
  /\ Fail(s)
  /\ UNCHANGED <<inbox, queues, link, published, done, repeats, faults>>

MarkFailed(s) ==
  /\ pc[s] = "failing"
  /\ UpdateHeld(s, [status |-> "FAILED", lock |-> "none", lockedBy |-> NoWorker,
                    attemptCount |-> held[s].tries + 1])
  /\ Goto(s, "forward")
  /\ UNCHANGED <<queues, link, history, faults>>

(* Mutant: the limit is one attempt early.                                 *)
MutantResendEarly(c) ==
  IF c.tries + 2 >= MaxAttempts
  THEN dead' = [dead EXCEPT ![c.msg] = @ + 1] /\ UNCHANGED retrying
  ELSE retrying' = Put(retrying, [c EXCEPT !.tries = @ + 1]) /\ UNCHANGED dead

(* retry or deadLetter. *)
Resend(c) ==
  IF c.tries + 1 >= MaxAttempts
  THEN dead' = [dead EXCEPT ![c.msg] = @ + 1] /\ UNCHANGED retrying
  ELSE retrying' = Put(retrying, [c EXCEPT !.tries = @ + 1]) /\ UNCHANGED dead

(* Mutant: the copy is sent on and rejected with requeue.                  *)
MutantForwardNacks(s) ==
  /\ pc[s] = "forward"
  /\ Connected(s)
  /\ Resend(held[s])
  /\ ready' = Put(ready, held[s])
  /\ Finish(s)
  /\ UNCHANGED <<inbox, link, history, faults>>

(* The copy is sent on, then acknowledged. *)
Forward(s) ==
  /\ pc[s] = "forward"
  /\ Connected(s)
  /\ Resend(held[s])
  /\ Finish(s)
  /\ UNCHANGED <<inbox, ready, link, history, faults>>

(* ack, nack and publish throw on a closed channel outside any try block:  *)
(* the rejection is handled by nobody and ends the process.                *)
ChannelThrows(s) ==
  /\ ~Connected(s)
  /\ \/ pc[s] = "forward"
     \/ pc[s] = "begin" /\ (inbox[held[s].msg].status = "PROCESSED" \/ Busy(s, held[s].msg))
  /\ Exit(Of(s))
  /\ UNCHANGED <<retrying, dead, published, done, fails, faults>>
-----------------------------------------------------------------------------
Fault == faults < MaxFaults /\ faults' = faults + 1

(* The process stops, or a database error outside the try block ends it.   *)
Crash(w) ==
  /\ Fault
  /\ link[w] # "down"
  /\ Exit(w)
  /\ UNCHANGED <<retrying, dead, published, done, fails>>

(* The same between the two frames of Forward. *)
CrashAfterResend(s) ==
  /\ Fault
  /\ pc[s] = "forward"
  /\ Connected(s)
  /\ Resend(held[s])
  /\ Exit(Of(s))
  /\ UNCHANGED <<published, done, fails>>

(* resetConnection drops the channel; nothing opens another one, and the   *)
(* handlers that run keep the closed one.                                  *)
Disconnect(w) ==
  /\ Disconnects
  /\ Fault
  /\ link[w] = "open"
  /\ Requeue(w)
  /\ link' = [link EXCEPT ![w] = "closed"]
  /\ UNCHANGED <<inbox, retrying, dead, task, published, done, fails>>

(* markProcessed fails in the database: the listeners ran, the copy will   *)
(* come back.                                                              *)
MarkProcessedThrows(s) ==
  /\ Fault
  /\ pc[s] = "mark"
  /\ Fail(s)
  /\ repeats' = [repeats EXCEPT ![held[s].msg] = @ + 1]
  /\ UNCHANGED <<inbox, queues, link, published, done>>

HolderAtWork(m) == \E s \in Slots : Handles(s, m) /\ inbox[m].lockedBy = Of(s)

Expire(m) == inbox[m].lock = "fresh" /\ inbox' = [inbox EXCEPT ![m].lock = "stale"]

LockOverrun(m) ==
  /\ Fault
  /\ HolderAtWork(m)
  /\ Expire(m)
  /\ UNCHANGED <<queues, task, link, history>>

(* Time passes; somebody starts a process that exited, or nobody does. *)
OrphanLockExpires(m) ==
  /\ ~HolderAtWork(m)
  /\ Expire(m)
  /\ UNCHANGED <<queues, task, link, history, faults>>

Restart(w) ==
  /\ link[w] = "down"
  /\ link' = [link EXCEPT ![w] = "open"]
  /\ UNCHANGED <<inbox, queues, task, history, faults>>
-----------------------------------------------------------------------------
(* handleMessage, split where another handler can come between.            *)
HandleMessage(s) ==
  \/ FindsProcessed(s)
  \/ FindsBusy(s)
  \/ FindsFree(s)
  \/ Insert(s)
  \/ InsertCollides(s)
  \/ Overwrite(s)
  \/ ListenersReturn(s)
  \/ MarkProcessed(s)
  \/ Ack(s)
  \/ AckThrows(s)
  \/ MarkFailed(s)
  \/ Forward(s)
  \/ ChannelThrows(s)

Receive(s) == \E c \in Copy : Deliver(s, c)

Next ==
  \/ \E m \in Msgs : Publish(m) \/ LockOverrun(m) \/ OrphanLockExpires(m)
  \/ \E c \in Copy : RetryExpires(c)
  \/ \E s \in Slots : Receive(s) \/ HandleMessage(s) \/ CrashAfterResend(s) \/ MarkProcessedThrows(s)
  \/ \E w \in Workers : Crash(w) \/ Disconnect(w) \/ Restart(w)

Spec == Init /\ [][Next]_vars

(* Every handler goes on, the broker delivers what is ready to a free slot, *)
(* retries and locks expire.  Nothing restarts a consumer: the repository  *)
(* supervises the application only.                                        *)
Fairness == /\ \A s \in Slots : WF_vars(HandleMessage(s))
            /\ WF_vars(\E s \in Slots : Receive(s))
            /\ \A c \in Copy : WF_vars(RetryExpires(c))
            /\ \A m \in Msgs : WF_vars(OrphanLockExpires(m))

FairSpec == Spec /\ Fairness
-----------------------------------------------------------------------------
(* What the code promises.                                                 *)

(* Every variable keeps its type.                                          *)
TypeOK ==
  /\ inbox \in [Msgs -> Row]
  /\ ready \in [Copy -> Nat]
  /\ retrying \in [Copy -> Nat]
  /\ dead \in [Msgs -> Nat]
  /\ pc \in [Slots -> PC]
  /\ held \in [Slots -> Copy \cup {NoCopy}]
  /\ \A s \in Slots : pc[s] = "idle" <=> held[s] = NoCopy
  /\ found \in [Slots -> Row]
  /\ link \in [Workers -> {"open", "closed", "down"}]
  /\ published \in [Msgs -> Nat]
  /\ done \in [Msgs -> Nat]
  /\ fails \in [Msgs -> Nat]
  /\ repeats \in [Msgs -> Nat]
  /\ faults \in 0 .. MaxFaults

(* A copy of m the broker will deliver, or has delivered and may again.    *)
Alive(m) == \/ \E c \in Copy : c.msg = m /\ ready[c] + retrying[c] > 0
            \/ \E s \in Slots : Handles(s, m) /\ Connected(s)

(* The last copy of a message leaves the queues only behind a pass of all  *)
(* its listeners or into the dead-letter queue, whichever handlers lost    *)
(* their lock, process or connection on the way.  That a listener failed   *)
(* in that pass, nobody here can tell.                                     *)
NothingLost ==
  \A m \in Msgs : published[m] > 0 /\ ~Alive(m) => done[m] > 0 \/ dead[m] > 0

(* The inbox says PROCESSED only behind a pass of the listeners, and a copy *)
(* is dead-lettered only after MaxAttempts passes that failed to be marked *)
(* or acknowledged, whoever took the lock over and whichever copy was      *)
(* counted.                                                                *)
SettledWithCause ==
  \A m \in Msgs : /\ inbox[m].status = "PROCESSED" => done[m] > 0
                  /\ dead[m] > 0 => fails[m] >= MaxAttempts

(* The listeners run again on a message only for a cause: another copy was *)
(* published, or one came back after they ran or without an answer.        *)
RepeatsHaveCause ==
  \A m \in Msgs : done[m] <= published[m] + repeats[m]

(* Once a message is PROCESSED, unlocked, and no handler that claimed it   *)
(* earlier has its listeners still to call, it is so for good and they are *)
(* never called again: whichever copy comes back from a crash, a lost      *)
(* connection or an ack that failed behind the mark, and whoever still     *)
(* means to mark the row as failed.                                        *)
Settled(m) ==
  /\ inbox[m].status = "PROCESSED" /\ inbox[m].lockedBy = NoWorker
  /\ \A s \in Slots : Handles(s, m) => pc[s] \notin {"overwrite", "work"}

ProcessedRests ==
  [][\A m \in Msgs : Settled(m) => Settled(m)' /\ done'[m] = done[m]]_vars

(* As long as one process stays connected in the end, a message published  *)
(* is given to every listener or dead-lettered.  Nothing more is certain:  *)
(* a lost connection is never opened again, by a process that lives on.    *)
EventuallyHandled ==
  (\E w \in Workers : <>[](link[w] = "open")) =>
    \A m \in Msgs : published[m] > 0 ~> done[m] > 0 \/ dead[m] > 0
=============================================================================
