# Flowboard server: TLA+ models, checks and proofs

Flowboard is a NestJS / GraphQL / PostgreSQL / RabbitMQ backend for workspaces,
projects and tasks. Its code is written as short command handlers, each one
database transaction, that leave domain events in a transactional outbox; a relay
delivers the events to listeners in the same process and to RabbitMQ, and a consumer
process feeds them to the same listeners again. What is hard about it is not any one
handler but what happens when several of them, or several workers, or a worker and
a crash, meet. That is what is modelled here.

Paths below are relative to the repository's root.

## 1. Inventory

| Component | State it keeps | Operations | What must be true of it | Here |
|---|---|---|---|---|
| Transactional outbox and relay (`src/infrastructure/message-bus/outbox`) | `outbox_messages`: status, attempt count, next attempt, lease; one pass in memory per process | store with the domain change, claim a batch, call listeners, publish with confirm, mark published or failed; timer and CLI | PUBLISHED only behind a confirmed send, none given up early, duplicates only for a cause, every row settles | `Outbox`, `EventDelivery`, `OutboxProofs` |
| Inbox and RabbitMQ consumer (`message-bus/inbox`, `message-bus/rabbitmq`) | `inbox_messages`, primary / retry / dead-letter queues, prefetched deliveries | start processing, listeners with immediate retries, mark, ack, nack-requeue, retry, dead-letter | no message lost before its listeners were called, processed stays processed, dead letters are exhausted | `Consumer`, `ConsumerProofs` |
| Membership (`src/modules/membership`) | `workspace_members`, `workspace_invitations`, profile projection | invite, accept, reject, cancel, leave, remove, change role, transfer, listener of `workspace.created` | one owner; an invitation is answered once and admits once; members are not invited | `Membership`, `MembershipProofs` |
| Project, its members and sections (`src/modules/project`) | `projects`, `project_members`, `project_sections` | create, edit, archive, restore, delete; add, remove, transfer; sections: create, rename, reorder, delete, restore | owner and OWNER row agree; a used section stays; an archived project is frozen | `Board`, `BoardProofs`; columns and events in `Activity` |
| Tasks (`src/modules/task`) | `tasks` | create, edit, move, reorder, assign, complete, delete | a live task is in an active section; assignees are members | `Board`; columns and events in `Activity` |
| Project list view (`src/modules/task/infrastructure/services`) | none: a query of four statements outside any transaction | find the project twice, list its sections, list its tasks, group them | no live task falls out of the view but for a section that came meanwhile | `ListView`, `BoardProofs` |
| Positions of sections and tasks | a decimal column each | append, between, rebalance, on the handlers that place | an item lands where it was asked; the others keep their order; a rebalance ends | `Ordering`, `OrderingProofs` |
| Identity: sessions (`src/modules/identity`) | `sessions`, refresh token hashes | login, rotate, revoke, revoke all, the guard of every request | a refresh token works once; a session ended stays ended; revoke-all reaches every session | `Identity`, `IdentityProofs` |
| Identity: users, passwords, verification | `users` with its two token columns | sign-up, verify, reset, change, edit the profile | a mailed token works once; the newest mail's token is the stored one; a verified address stays so | `Identity`, `IdentityProofs` |
| Activity feed (`src/modules/activity`) | `activities`, unique `event_id` | listeners of task, project and section events, append from the relay and the consumer, page | an event appears once; the feed agrees with the row; pages skip and repeat nothing | `Activity`, `ActivityProofs` |
| User profile projections | one table in each of three modules | upsert from identity events | an event a listener took in leaves a profile; the newest event's profile is the user's | `Profiles`, `IdentityProofs`; lateness in `Membership` |
| Workspace (`src/modules/workspace`) | `workspaces` with its preferences | create, update, preferences, archive, restore, delete | edits do not undo each other; a slug is one workspace's; archived and deleted rows rest | `Workspace`, `WorkspaceProofs` |
| Transaction adapter (`src/infrastructure/database`) | the transaction bound to the request | begin, commit, roll back | all of a handler's writes, or none | as the read, flush, commit and abort steps of every module of handlers |
| Mail | none | send a mail with a token | it leaves before the commit | `SendMail` of `Identity` |
| GraphQL resolvers, DTOs, configuration, migrations | none, or I/O | | | not modelled |

How they interact. A handler and its outbox rows commit together (`@Transactional`
over MikroORM's `em.transactional`). The relay calls `EventEmitter2.emitAsync` and then
publishes; the consumer calls the same emitter. So a listener can run any number of
times for one event, in the relay's process and in the consumer's, and every
listener has to stand that. The emitter logs what an `@OnEvent` listener throws and
resolves (`EventEmitterModule.forRoot` in `app.module.ts`, with the default
`suppressErrors`), so neither relay nor consumer ever learns that a listener failed; and
listeners run outside of any request, on the one entity manager their process keeps. Modules read one another's tables through lookups
(projects look up workspace members, tasks look up sections), always with a plain
read.

Hard behaviours, in the order of the risk they carry:

1. Concurrency of transactions at READ COMMITTED: rows have no version column, the
   handlers take no row locks, a flush writes changed columns by id. A rule checked
   by a read can be false when the write commits.
2. Leases and locks that are only timestamps: a slow worker is overtaken and goes on.
3. Partial failure in the middle of deliver, publish, mark.
4. Crash between two steps of the relay or of the consumer, lost connections,
   redelivery.
5. Errors that vanish: a listener's exception, an update rolled back with the error
   that reported it.
6. Order: events of one row delivered late, twice and in any order, by two paths.
7. Numbers: positions halved until they collide, retry counts in message headers.

`PROJECT.json` lists each hazard at its line with the properties that watch it.

## 2. The modules

### Outbox (`Outbox.tla`, `EventDelivery.tla`, `OutboxProofs.tla`)

State: one `outbox` row per event (status, `attempt_count`, whether the retry is due,
lease none/fresh/stale, `locked_by`) and, per worker, where it is in `relayBatch`
(`pc`), the messages it has still to settle (`batch`) and the attempt counts its
claim read (`seen`). The rest is history: events heard by listeners, broker copies,
failed passes, faults.

| Action | Code |
|---|---|
| `Store` | a handler's transaction, `DomainEventOutboxService.store` |
| `ClaimSelect`, `ClaimUpdate` | `claimPendingBatch`: the select, then the update by id. They are two steps because another worker can come between |
| `ListenersSucceed`, `ListenerThrows` | `emitAsync` in `relayBatch`; it resolves either way |
| `PublishReturns`, `PublishThrows` | `RabbitMqOutboxPublisherService.publish` and its confirm, or the early return when dispatch is disabled |
| `MarkPublished`, `MarkFailed` | the guarded updates `where id and locked_by`, back-off and terminal rule included |
| `MarkPublishedThrows`, `Abandon`, `LeaseOverrun` | a database error, a crash or an error out of the pass, a pass slower than `lockTtlMs` |
| `OrphanLeaseExpires`, `RetryDue` | the passing of time |

Two habits of the libraries are modelled as they are. `FOR UPDATE SKIP LOCKED` is executed
through `getConnection().execute` without the transaction's context, so its row locks are
gone before the update: `ClaimUpdate` takes whatever its select saw, even a row settled or
leased since, and `overlaps` counts such claims. And a listener's exception is swallowed:
`told` records that the listeners of an event were called and whether they ever all
succeeded, but nothing in the relay depends on it. Two documented claims fail for these
reasons (`ExclusiveClaim`, `PublishedWasHeard`), each shown by a run of its own.

`EventDelivery` is what the outbox can promise a handler all the same. Relays take pending
events in hand, possibly the same one; only an event in hand changes its verdict:
`PUBLISHED` behind a delivery to every carrier (listeners called, broker confirmed), `FAILED`
behind `MaxAttempts` failed ones, back to `PENDING` behind one. A settled event nobody has in hand
is final. `Outbox` instantiates it with `Verdict`, `InHand`, `Delivered`, `fails`
(property `ImplementsPromise`).

### Consumer (`Consumer.tla`, `ConsumerProofs.tla`)

Each process `w` takes up to `Prefetch[w]` copies, each handled by its own asynchronous
`handleMessage` (a slot). `startProcessing` is a read (`FindsProcessed`, `FindsBusy`,
`FindsFree`) and a write (`Insert`, `InsertCollides`, `Overwrite`), since it takes
no row lock; the listeners, `markProcessed`, `ack`, `markFailed`, and the retry or
dead-letter publish with its ack are one action each. All slots of a process share
its worker id, as in the code, so the lock of one does not stop another. Queues are
bags of copies that carry `redelivery_count`; the retry queue returns expired
copies. A process that exits (crash, or a rejected floating promise) or loses its
connection gives its unacknowledged copies back; one that only lost the connection
never subscribes again, as in the code, and lives on.

`executeWithImmediateRetries` is one step with one outcome (`ListenersReturn`): its first
round resolves whether or not a listener threw. So `done` counts passes in which every
listener was called, and the failures that lead to retries and dead letters are those of
`markProcessed` and of `ack`. The broker accepts a publish on an open channel at once.

### Membership (`Membership.tla`, `MembershipProofs.tla`)

A handler is two steps: `Decide` (its reads and rules, recorded in `txn`) and a commit
action (its writes, applied to the rows as they have become), or `Abort`. The reads of
one handler are one step, and so are its writes: races inside the reads are left out.
A row has an identity (`rowId`): a delete of a row that was already replaced hits
nothing. The unique key on (workspace, user) is `Insert`'s guard.

Races at READ COMMITTED break several of the rules, so a plain invariant would
just fail. `stale` holds the handlers whose reads are older than another's commit and
`raced` the kinds of handlers that committed in that state; each property names the
kinds it can be lost to and so claims that all others are harmless: no race between
invitations can cost the owner, and no race between members can answer an
invitation twice. `LastOwnerStays` is the documented claim without that condition, and
fails. An expired invitation is refused by a transaction that saves `EXPIRED` and then
throws, so nothing changes: in the model, as in the database, no invitation is ever
`EXPIRED`, and one that nobody answered stays `PENDING`.

### Board (`Board.tla`, `BoardProofs.tla`)

One project with its members, sections and tasks, in the style of Membership: `Decide`
with the rules of the access services, one commit action per table, `Abort`.
`Init` is the project as `CreateProject` leaves it. The handlers that write only fields no
rule reads (names, dates, priority, completion, positions) read and are refused like the
others and commit without a trace here; what they write is in `Activity`. Section deletion
counts the section's tasks in one transaction while `createTask` and `moveTaskToSection`
check the section in another; ownership is kept both in `projects` and in
`project_members`.

### ListView (`ListView.tla`, `BoardProofs.tla`)

Extends `Board` with one reader of the project's list view. Each statement of
`ProjectListViewQueryService.get` is a step that sees what is committed then, and the
handlers of Board go on in between (`Write`). `joined` remembers the sections created or
restored between the two lists. The order of the lists is what saves a task that is moved
while its old section is deleted: read the other way round, or at once, the view would lose
it. The names of the assignees, read last, are left out.

### Identity (`Identity.tla`) and Profiles (`Profiles.tla`), with `IdentityProofs.tla`

A request passes the guard (`Validate`, once, outside the handler's transaction), reads
and checks (`Login`, `RefreshToken`, `ChangePassword`, ...), and a handler that updates
the user's row then flushes it and holds its row lock (`FlushPassword`, `FlushProfile`,
`SendPasswordResetEmail`, ...) until its commit (`CommitPassword`, ...). What happens between
flush and commit matters twice: the statement that revokes every session sees only the
sessions committed by then, and a mail leaves before the commit that makes its token
valid. A flush writes the columns that differ from what was read (`SaveUser`). The
guarded update of the token rotation is `RevokeActiveById`. Time passes in `ExpireSession`
and `ExpireToken`; `Fail` is a failed check after the guard, a failed statement or mail.

History variables say what a property needs: how often all of a user's sessions were
revoked, and how many of those a session had seen or overlapped when it was issued
(`excused`); whether a logout was answered with success while no exchange of its token
went on (`ended`); how often a token was used by requests that did not overlap (`uses`).

`Profiles` extends `Identity` with the listeners that copy profiles into the workspace,
membership and project modules. Each event is delivered by the relay and by the
consumer, in any order and any number of times. A listener looks up (`FindByUserId`) and
writes (`Upsert`); the unique user id refuses the second of two inserts (`InsertRefused`); any
other error (`ListenerFails`) writes nothing. The emitter forgets both, and `heard` keeps the
events of listeners that got as far as the table. A path's process finds a profile it has found
before as it was then (`copy`), until it restarts.

### Activity (`Activity.tla`, `ActivityProofs.tla`)

One subject, a task, a project or a section, with every operation its model offers as an
operator from a row to the rows it may become (`CompleteTask`, `UpdateProjectHealth`,
`RestoreSection`, ...; an operation that changes nothing has no event, and a
rebalance drops the events of the rows it moves: `Silent`). A handler reads,
saves (`Save`: the row lock is taken, then the event gets its time) and commits. Two
paths deliver the events to the listener, which reads the subject again for the
metadata and looks for an activity of the event (`FindByEventId`), then appends
(`AppendActivity`), is refused by the unique event id (`AppendRefused`) or fails otherwise
(`ListenerFails`); the emitter forgets both errors. A task or a section found once by its id is
found again as it was then (`held`), until the process restarts; a section may have been found
for a task's event (`SectionName`). A reader walks
the feed by its cursor (`ListActivity`) meanwhile. `TaskReports`, `ProjectReports` and
`SectionReports` are what the three listeners take from the event itself; the rest of
the metadata stands in the model as the version it was read from and the event it was
read for.

### Ordering (`Ordering.tla`, `OrderingProofs.tla`)

One list, of tasks or of sections, with `Between`, `AppendAfter`, `NeedsRebalance` and
`Rebalance` as operators on positions and the handlers that create, move, reorder, restore
and remove on top of them. Positions are counted in units so small that every half a
run can reach is a whole number (`OrderingAssumption`). A handler that finds its
neighbours too close reads the list (`ListItems`), saves it (`SaveMany`) and computes again;
where that changes nothing it calls itself for ever (phase `loops`).

### Workspace (`Workspace.tla`, `WorkspaceProofs.tla`)

The table of workspaces with the six handlers as read-decide-commit transactions, the
unique index on the slug (`Insert`, `InsertRefused`), column-wise flush (`Written`) and the
events each workspace announced. Queries leave deleted rows out, the index does not.

### How the modules compose

`Outbox` and `Consumer` meet in the number of copies: `Outbox` allows duplicates
(`sent` may exceed one), and `Consumer`'s `Publish` may put up to `MaxPublished`
copies of a message in the queue. `HandleWorkspaceCreated` in `Membership` may be
delivered `MaxDeliveries` times for the same reason, and `Profiles` and `Activity` take from
the two only that each path delivers stored events, in any order, as often as it likes, and
never learns of a listener's error. `Profiles` is the composition of `Identity` with its listeners, `ListView` of `Board` with a
query; `Activity`
composes handlers, listeners and reader.

## 3. The runs

| Run (`.cfg`) | Instance | Properties | States | Shows |
|---|---|---|---|---|
| `outbox_as_built` (`OutboxAsBuilt.cfg`) | 1 event, 3 workers, 1 fault | `TypeOK`, `PublishedWasSent`, `DuplicatesHaveCause`, `AttemptsNeverForgotten`, `EventuallySettled`, `ImplementsPromise` | 782,449 | The relay as it behaves, with row locks released at once and listener errors swallowed: three workers that take each other's rows, and a crash, database error or overrun lease. PUBLISHED follows a confirmed send, attempts are not forgotten, copies have a cause, every row settles, and the relay implements EventDelivery. |
| `outbox_unheard` (`OutboxUnheard.cfg`) | 1 event, 1 worker, no fault | `PublishedWasHeard` | violated | One row, one worker, no fault: a listener throws, the emitter resolves, and the row is PUBLISHED although the event was never handled. |
| `outbox_double_claim` (`OutboxDoubleClaim.cfg`) | 2 events, 2 workers, no fault | `ExclusiveClaim` | violated | Without the transaction context the select's row locks are gone before the update, and two workers claim the same rows with no fault at all. |
| `consumer` (`Consumer.cfg`) | 2 processes with 2 and 1 deliveries, 1 message, 2 copies, 2 faults | `TypeOK`, `NothingLost`, `SettledWithCause`, `RepeatsHaveCause`, `ProcessedRests`, `EventuallyHandled` | 487,847 | Two consumer processes, one with two deliveries at a time, two copies of a message and two faults (crash, lost connection, database error, overrun lock): no copy is lost before the listeners were called, settlements and repeats have their cause, PROCESSED stays, and every message ends while one process still listens. |
| `membership` (`Membership.cfg`) | 2 users, 2 invitations, 2 handlers | `TypeOK`, `OneOwner`, `AcceptedAdmitsOnce`, `PendingIsSound`, `AnswersAreFinal` | 1,396,400 | Two handlers at a time, racing and aborting, with two invitations and workspace.created delivered twice: which races can cost a workspace its one owner or an invitation its one answer, and that none of the others can. |
| `membership_last_owner` (`MembershipLastOwner.cfg`) | 2 users, 2 invitations, 2 handlers | `LastOwnerStays` | violated | Two overlapping handlers leave a workspace without an owner. |
| `board` (`ListView.cfg`) | 2 users, 2 sections, 1 task, 2 handlers, 1 query | `TypeOK`, `LiveTasksHaveSections`, `OneProjectOwner`, `AssigneesWereMembers`, `FrozenProject`, `ViewLosesNoTask` | 2,114,929 | Two handlers at a time on one project, its members, sections and a task, and a list view read meanwhile: which races can leave a task in a deleted section, out of the view or split the owner from its membership, and that archived projects stay frozen but for handlers already under way. |
| `identity` (`Identity.cfg`) | 1 user, 3 sessions, 2 mails, 2 requests | `TokensWorkOnce`, `RevokeAllIsComplete`, `EndedForGood`, `NewestMailWorks` | 730,623 | Two requests at a time on one account's password, sessions and mailed tokens: tokens work once, revoke-all reaches every session but those it overlaps, a logged out session has no heir, and the newest reset mail works. |
| `profiles` (`Profiles.cfg`) | 1 user, 2 names, 3 events, 2 paths, 2 requests | `ProfilesTypeOK`, `ProfilesFollow`, `VerifiedStays` | 774,788 | Registration, profile updates and verification of one account, each event delivered by relay and consumer in any order to listeners that may fail unnoticed or hold an old profile: what the profile copies of the other modules may say, and that a verified address stays verified. |
| `activity` (`Activity.cfg`) | 19 scenes of operations, 2 handlers, 2 paths, 2 or 3 commits | `DeliveredAppearsOnce`, `FeedTellsTheRow`, `ShowsTheChange`, `PagesCoverTheFeed` | 3,440,830 | Every operation of the task, project and section models with its event, and the rebalance without one; two handlers and two deliveries at a time, by listeners that may fail unnoticed or hold an old subject, and a reader paging meanwhile: the feed has each event a listener took in once, and agrees with the row but for what was rebalanced since. |
| `ordering` (`Ordering.cfg`) | 3 items, 2 handlers, 3 writes, both kinds of list | `TypeOK`, `LoopsOnlyIfReversed`, `PlacedAsAsked` | 213,245 | Three items of one list and two handlers that place, move and rebalance them, for tasks and for sections: an item lands where the request asked, and the handler's self-call ends but for neighbours named in reverse. |
| `workspace` (`Workspace.cfg`) | 2 users, 1 slug, 1 workspace, 2 handlers | `RefusedForDeleted`, `EditsKeepApart` | 293,411 | Two handlers at a time on the table of workspaces: edits do not undo each other, deleted and archived rows rest, and a slug is refused by the index only for a deleted workspace. |

Bounds and why they are enough.

- Outbox: races of leases need two workers and one row; three workers let a third claim
  while two others disagree. `MaxAttempts = 2` has one retry and one terminal failure. One
  fault is a crash, a database error or an overrun lease, on top of claims that overlap without
  any. Two rows with two workers are beyond the time of a run (more than 15 million states):
  what a batch adds, its order and its remainder, is in `OutboxDoubleClaim` and in the proofs,
  which hold for every batch size. No symmetry is used because the run checks liveness.
- Consumer: two processes, one message, two published copies and two faults are the
  smallest instance in which a copy is redelivered while another worker's lock is overrun.
  One process takes two deliveries at a time (`TwoAndOne`), so two handlers share a worker id
  while a third has another; the code's default is ten. Slots are names for the running
  calls of `handleMessage`, so the first free one is taken (`FirstFree`).
- Membership: two handlers at a time are what a race needs. `Crowded`: once there is a
  second invitation, handlers run one at a time; `MaxRaces`: one kind of handler races in a
  behaviour, since a property speaks of what is lost to each kind. `Invitations` bounds
  how many are ever created. Nothing bounds the number of handlers that run one after
  the other.
- Board: two handlers at a time, an owner and an administrator, two sections, one task.
  `MaxRows` bounds the rows ever inserted in `project_members`, so a member can leave and
  come back while a handler still holds the old row. In the behaviours that read a list view
  (`reading`), only the handlers run that place the task or make sections and the project come
  and go (`Placing`): nothing else is in the view.
- Identity: one account, since no handler reads two. Three sessions are a login, its
  successor and one more; two mails an older and a newer token; two revocations let a
  session see one and overlap the other. `MaxTotal` bounds the three together, because a
  behaviour that uses all of them is a mix of smaller ones. `Offers` are the operations that meet
  in a behaviour: sessions and passwords, or the profile and its verification; the latter
  go on in `Profiles.cfg`. Three events are a registration, an update and a verification.
- Profiles: three events are a registration and two updates that can be delivered in
  every order. The three modules share no state, so one is watched at a time; membership
  keeps the same columns as project and is left out of `Watched`.
- Activity: a scene is the set of operations that meet in a behaviour, chosen so that every
  operation occurs and those that write one column meet; a behaviour has two commits
  (`MaxShort`), or three (`MaxCommits`) in the scene of `Long`, where a reader needs a feed longer
  than its page. A path may fail or restart at any time, without a bound. A page of `first = 0` is the least the code grants, one row;
  in the scenes with a reader one handler and one listener are at work at a time. Two times
  are an order and a tie.
- Ordering: a gap of 16 over a minimum of 8 units makes the first halving reach the limit,
  so a rebalance, a second one and a race with it fit in three writes.
- Workspace: two users, of whom one owns; one slug, which is all the look-up and the index
  can disagree about. The `TypeOK` of `Workspace` and of `Identity` is proved and not among
  the properties of a run.
- Deadlock is not checked: every one of these systems may come to rest with nothing to do
  (all events settled, queues empty, project deleted). That the rest is not a stuck
  state is what the liveness properties say.

### Fairness

`FairSpec` of `Outbox`: each worker's `Tick` is weakly fair, because the timer fires every
second in every live process (`setInterval` in `outbox-local-relay.worker.ts`) and a
crashed process's successor is the same worker here; leases and retries become old
because time passes. Handlers and faults owe nothing. A listener or a broker that never
answers is excluded by this: nothing in the code bounds them, and the hazard is listed.

`FairSpec` of `Consumer`: a handler that can go on does, the broker delivers to some free
slot, retry copies and locks expire. Nothing is assumed to restart a consumer: the repository
supervises the application (`restart: unless-stopped` in `docker-compose.yml`), and the consumer is
a command somebody starts. Nor is there fairness on reconnecting, because the code never
does. `EventuallyHandled` therefore says that a message ends if some process stays connected
in the end, and it is checked with processes and connections being lost.

### Where the code and its documents disagree

| Where | What it shows |
|---|---|
| run `outbox_double_claim` | two workers claim the same rows with no fault: the select's row locks are not the transaction's |
| run `membership_last_owner` | overlapping handlers leave a workspace without an owner, where the documents say the last owner cannot go |
| run `outbox_unheard` | a listener's failure ends as `PUBLISHED`, where the relay's test "marks listener failures for retry": the emitter swallows it, here and in the consumer |
| `ListenerFails` of `Profiles` and `Activity` | so a profile or an activity can be missing for good, as the audit document says of activity; the properties speak of the events a listener took in |
| `held` in `ShowsTheChange`, `copy` in `ProfilesFollow` | a listener's process shows a task or a section as it first found it, and updates a profile from the copy it holds |
| `Rewritten` in `FeedTellsTheRow` | a rebalance moves tasks and sections and drops their events, so the feed's last position is not the row's |
| `Membership` | `EXPIRED` is written and rolled back with the refusal, so an expired invitation blocks later ones of its address |
| `raced` in `LiveTasksHaveSections` | a task created while its section is deleted stays live in a deleted section, where the audit document says that deletion is blocked |
| `RefusedForDeleted` | the slug of a deleted workspace passes the look-up and is refused by the index |
| `LoopsOnlyIfReversed` | a task reordered between neighbours named in reverse keeps its handler in a self-call without end |
| `Unsure` in `FeedTellsTheRow` | a move or a health report made on an old read may name a value its save did not write |
| `crossed` in `NewestMailWorks` | a use of an old token that overlaps a new request clears the new token |

## 4. What is proved

Eight modules hold theorems, one for each component's module and what extends it. Every
invariant and every action property a passing run checks is also a theorem: the run shows
it on a small instance, the theorem for every value of the constants that the module's
assumptions allow. Nothing is assumed beyond those: a null is none of the values it stands
beside, sizes and bounds are numbers, flags are Booleans, and, where a proof counts,
the requests of `Identity` and the items of `Ordering` are finite sets. Bounds such as
`MaxFaults` or `MaxSessions` are constants too, so the theorems hold for each of them, and
with them for any finite behaviour. `Ordering` counts positions in units; its assumption
that `MinGap` can be halved `MaxWrites` times says that the unit is fine enough for that many
writes, whatever their number. A lemma is stated once and cited by name; each proof of a
step has one case per action.

### Outbox

| Theorem | States |
|---|---|
| `TypeCorrect` | `Spec => []TypeOK` |
| `Invariance` | `Spec => []IInv` |
| `AtLeastOnceToBroker` | `Spec => []PublishedWasSent` |
| `GiveUpIsJustified` | `Spec => []GivesUpOnlyWhenExhausted` |
| `AttemptsOnlyGrow` | `Spec => AttemptsNeverForgotten` |
| `CopiesHaveCause` | `Spec => []DuplicatesHaveCause` |
| `RelayImplementsPromise` | `Spec => ImplementsPromise` |

All of them speak of the relay as it is, with claims that overlap and listener errors that
vanish. None of the properties is inductive. `IInv` adds what the code relies on:

- `SentBeforeMark`, `ToldBeforePublish`: the order emit, publish, mark for the message
  of the loop, so that a worker about to mark has delivered.
- `HolderReadIsCurrent`: whoever still holds the lease read the attempt count the row has
  now. It is the heart of the matter: `markFailed` writes a count computed from an old
  read, and it is right only because its guard on `locked_by` fails for a worker that
  was overtaken.
- `AttemptsAreFailures`: the attempt count never exceeds the real failures, and leaves
  room for the one a holder is about to record.
- `BatchIsStored`, `IdleHandsEmpty`: needed by the refinement, where only a stored event is
  in hand, and only of a worker in a pass.

The refinement maps every step of the relay to a step of `EventDelivery` or a
stutter, from `IInv` before and after the step. A late update of a row settled meanwhile is a
stutter there, because the events of the batch are in hand since the select.

`DuplicatesHaveCause` compares counters, and its invariant counts too (`CopiesCounted`):
the copies sent of an event and the senders it has left (`Senders`: the workers that have it at
work and have not published it, and whoever claims it next, if no live lease keeps claims
away) are together at most one more than failures, overlaps and faults. A claim turns the second
kind of sender into the first, publishing spends one, and only a failed pass, a fault or a
claim that comes too late makes a new one.

`GivesUpOnlyWhenExhausted` is proved and not checked by a run of its own: `EventDelivery`,
which `outbox_as_built` checks the relay to implement, has it for an event's verdict.

### Consumer

| Theorem | States |
|---|---|
| `ConsumerTypeOK` | `Spec => []TypeOK` |
| `NoMessageLost` | `Spec => []NothingLost` |
| `SettlementHasCause` | `Spec => []SettledWithCause` |
| `MarkedForGood` | `Spec => ProcessedRests` |
| `RepetitionHasCause` | `Spec => []RepeatsHaveCause` |

Copies of one message fail on their own, and `attempt_count` is written by whoever holds
the lock, so the number of failures is known only from below: the header of each copy
counts no more failures than there were (`HeadersCount`). With what a handler has behind it at
each of its places (`Passed`), that gives `SettledWithCause`, and it gives `NothingLost` when a copy is
acknowledged or dead-lettered. `ProcessedRests` needs no more than the types: `Settled` names the
handlers that could still undo a mark, and every update of the row but the claim's is guarded by
`locked_by`. For `RepeatsHaveCause` every chance of another pass is named
once (`Chances`: the places in both queues, and the handlers that have the listeners before
them or will send their copy on): passes and chances together are at most the copies
published and returned (`PassesCounted`). The copies that come back with a lost process or
connection are counted against the handlers they come from (`RequeuePays`).

### Membership

| Theorem | States |
|---|---|
| `MembershipTypeOK` | `Spec => []TypeOK` |
| `OwnershipIsKept` | `Spec => []OneOwner` |
| `InvitationsAdmitOnce` | `Spec => []AcceptedAdmitsOnce` |
| `InvitationsArePlausible` | `Spec => []PendingIsSound` |
| `AnswersExclude` | `Spec => AnswersAreFinal` |

`Crowded` and `MaxRaces` are part of the specification, for the runs' sake, and so of these
theorems: they cover any number of overlapping handlers while there is one invitation, of as
many racing kinds as `MaxRaces` says, and handlers one at a time once there is a second
invitation. Two invitations and a race between handlers are not covered by any of them.

A handler's decision is made from its reads and written later, so the invariant says of
every decision what still holds of it (`Decisions`): all it rests on, until another handler commits
and makes it stale (`StillTrue`), and some of it for ever (`Lasting`, for example that the
invitation a handler is about to answer has been stored). A commit of a handler that is not stale
uses the first; one that is stale adds its kind to `raced`, and the properties that can be
lost to that kind say so. `OwnerNamed` states `OneOwner` with the owner named, since a
provable step speaks of one owner and not of a cardinality.

### Board and ListView

| Theorem | States |
|---|---|
| `BoardTypeOK` | `Spec => []TypeOK` |
| `TasksStayPlaced` | `Spec => []LiveTasksHaveSections` |
| `OwnershipAgrees` | `Spec => []OneProjectOwner` |
| `NoStrangerAssigned` | `Spec => []AssigneesWereMembers`, in any race |
| `ArchivedRests` | `Spec => FrozenProject` |
| `ReadersChangeNothing` | `ListViewSpec => Spec`: the board under a reader is the board |
| `ViewShowsEveryTask` | `ListViewSpec => []ViewLosesNoTask` |

The invariant has the shape of Membership's. `AssigneesWereMembers` is the one that no race can
cost, from `Lasting`: a row that was read existed, and its identity does not come back. The list
view needs one more (`ViewInv`): whatever has been listed so far, or has joined since, has
a place for every live task.

### Identity and Profiles

| Theorem | States |
|---|---|
| `IdentityTypeOK` | `Spec => []TypeOK` |
| `AddressesStayVerified` | `Spec => VerifiedStays` |
| `EndedSessionsRest` | `Spec => []EndedForGood` |
| `RevocationsReachAll` | `Spec => []RevokeAllIsComplete` |
| `TokensUsedOnce` | `Spec => []TokensWorkOnce` |
| `NewestMailsWork` | `Spec => []NewestMailWorks` |
| `ProfilesOnlyListen` | `ProfilesSpec => Spec` |
| `ProfilesTyped` | `ProfilesSpec => []ProfilesTypeOK` |
| `ProfilesKeepUp` | `ProfilesSpec => []ProfilesFollow` |

The invariant comes in layers, each with its own step lemmas on top of the first:

- `TypeInv`: the tables, and what each request wants of the row it read: a column that no
  operation of its kind writes is the one it read (`Wants`). `VerifiedStays` follows from it.
- `SessionInv`: a session with a successor is not active, so a refresh token is exchanged
  once; a request that ends a session has missed no successor unless it was told (`Ends`);
  a session is excused for every revocation counted and for every one under way that will
  not see it (`RevocationsCounted`, a cardinality of `Missing`).
- `TokenInv`: one request at a time has flushed a user's row (`RowLocked`), the token stored
  there has never worked (`StoredUnused`), and the newest mail whose request succeeded holds it,
  or was used, or was crossed (`NewestWorks`).
- `EventInv` and `ProfileInv`: who read a user's row and was not overlapped says what the row says;
  a profile whose `applied` event is known was written by a process that held the row as it
  was, whatever other listeners failed, restarted or wrote from an old copy; and an event in `heard`
  has left its user a profile, since a profile is never removed.

### Activity

| Theorem | States |
|---|---|
| `EventsAppearOnce` | `Spec => []DeliveredAppearsOnce` |
| `ActivitiesAreRecent` | `Spec => []ShowsTheChange` |
| `PagesCover` | `Spec => []PagesCoverTheFeed` |
| `NewestActivityTells` | `Spec => []FeedTellsTheRow` |

`RowsInv` is about the handlers: the row lock lets one of them at a time have saved, so the times
of the events never decrease (`Clock`); a handler wants to write a column just when it
reports it (`Intends`) and its save writes just that (`Holds`); so the last event of a column
names the row's value (`LastEventTells`), unless it is one of the two operations that report two
columns and save one (`Unsure`). For these, every operation of the three
models is a case, and a rebalance one that moves `rebalanced` instead of reporting. `ListenersInv` is
about the feed: an activity is its event's, an event in `heard` has one, and a subject a process
holds is no older than the event it was read for (`Recent`). `ReaderInv` is about the cursor: nothing
shown is below it, and what was there at the start is below it or shown (`Walk`). That a page has a least element
and that the newest activity exists is an induction over finite sets of keys,
done with the library's theorem on well-founded relations.

### Ordering

| Theorem | States |
|---|---|
| `OrderingTypeOK` | `Spec => []TypeOK` |
| `LoopsHaveCause` | `Spec => []LoopsOnlyIfReversed` |
| `ItemsGoWhereAsked` | `Spec => PlacedAsAsked` |

`OrderInv` says of a handler that nobody raced that the list still is as it read it and that
what it holds is what the list asks for (`Knows`). The lemmas are about the operators:
`Between` of neighbours far enough apart lies between them, `AppendAfter` lies behind
all, and a `Rebalance` keeps the order and leaves a whole `Gap` between neighbours: it
counts, for each item, those up to it, so an item behind another counts one more at least.
So after one rebalance neighbours named in their order are never too close again, and the
self-call ends.

### Workspace

| Theorem | States |
|---|---|
| `WorkspaceTypeOK` | `Spec => []TypeOK` |
| `SlugsStayTaken` | `Spec => []RefusedForDeleted` |
| `EditsNeverUndo` | `Spec => EditsKeepApart` |

What an edit is going to write differs from what it read in the columns its client asked
for and no others (`EditOf`), and what it read is the row for as long as nobody else has committed
(`CurrentEdit`). A flush writes the columns that differ, so a commit on an old read changes only
what was asked for.

### Only model-checked

- Liveness: `EventuallySettled` of `Outbox` and `EventuallyHandled` of `Consumer`, under the fairness of
  section 3. The prover has neither fairness nor ENABLED here.
- The two runs that expect a violation: their traces are the result.
- That each property can be broken by a plausible change of the code (the mutants
  of `PROJECT.json`).

## 5. Not modelled

- Content: texts, e-mail wording, GraphQL shapes, error codes, time zones, user agents.
- Queries other than the paging of the feed: they change nothing.
- A listener or a broker call that hangs for ever.
- What the entity manager shared by all listeners of a process does beyond holding what it
  found: an update that failed leaves its entity dirty, and a later flush there may write it after
  all; and the consumer's inbox rows are read through it, so their lock columns may be old too.
  Whether it may be used outside of a request at all depends on `allowGlobalContext`, which no
  configuration sets: where the library refuses a listener's look-up, the listener fails,
  which is `ListenerFails` in `Profiles` and `Activity`, and a listener that throws in `Outbox`.
- Start and due date of a project, which are validated as a pair and written by column: two
  overlapping handlers can leave the start after the due date. They are one column here.
- Races inside the reads of one handler, and rounding of positions to `decimal(20,6)`.
- A database deadlock between two rebalances: the rows of a list are taken in one step.
- Migrations, seeders and configuration. The unique keys they create are modelled where a
  handler can meet them. No migration creates the table `workspaces`; its columns and its
  unique slug are taken from the entity.
- Formatting, DTO validation, resolvers: they pass arguments on.

## 6. Plan

Done, in this order: `Outbox` with `EventDelivery` and the proofs, `Consumer`, `Membership`,
`Board`, `ListView`, `Identity`, `Profiles`, `Activity`, `Ordering`, `Workspace`.

All of these have their safety properties proved as well as checked; section 4 has the
theorems.

Left, the most valuable first:

1. The rest of the refinement: `Consumer` as an implementation of a promise like
   `EventDelivery`'s (handled or dead-lettered, honestly), with the mapping proved.
2. Action properties that no run states so far: a session's columns never go back, an
   activity never changes, a workspace's announced events only grow.
3. Races inside the reads of one handler of `Membership` and `Board`, which are one step now.
4. Start and due date of a project as two columns, the listed hazard that no property covers.
