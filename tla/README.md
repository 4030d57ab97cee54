# A verification project for ThisSecure's server

TLA+ models of the backend under `src/`, TLC configurations that check them on
small instances, and proofs, checked by TLAPS, that hold for every size. The
first part of this file is the inventory of the system, then come the modules
and what corresponds to what, the runs, the proofs, what the runs refute, and
what is left.

`PROJECT.json` is the index: components, runs, the lines of the source that
every definition models (`map`), the hazards of the code with the properties
that would catch them, the theorems, and for each property a slip of the code
that it catches (`mutants`).

## 1. The system

Three Go services and one NestJS service, one repository:

| part | source | state it keeps | operations |
| --- | --- | --- | --- |
| note service, 8083 | `services/note` | table `notes` (PostgreSQL), with a version per row | list, get, create (upsert), update (optimistic), delete, import |
| password service, 8084 | `services/password` | table `passwords` | list, get, create (locking upsert), update, delete, import, analyze and remove duplicates |
| otp service, 8085 | `services/otp` | table `otp`; failed attempts in memory | list, create, update, delete, validate; decode a QR image; consume `auth-events` |
| messaging service | `services/messaging` | MongoDB: conversations, messages, LDAP users; sockets in memory | create conversation, send, mark read, typing, connect, disconnect; LDAP photos; consume LDAP events |
| `pkg/kafka` | producer, consumer | reader position, group offset | publish, run |
| `pkg/middleware` | rate limiter, JWT auth, CORS, security headers, timeout | token buckets in memory | one check per request, a sweep every five minutes |
| `pkg/crypto`, `pkg/jwt`, `pkg/database`, `pkg/discovery`, `pkg/metrics`, `pkg/models` | helpers | keys, pool, counters | encrypt, decrypt, verify, connect |

How the parts interact:

- A client's request passes the middleware (rate limit, token), the handler
  calls the service, the service runs SQL statements **without a transaction
  around them** (the password upsert is the one exception) and, after a change
  was committed, publishes an event on `sync-events`; the otp service publishes
  on `otp-events` too when an OTP is created. A publish that fails is logged,
  never retried, and the client is told of success.
- Clients learn of each other's changes from `sync-events`.
- The authentication service (not in this repository) publishes on
  `auth-events`, which the otp service consumes, and user changes in LDAP,
  which the messaging service consumes. Messages carry an HMAC in a header.
- The messaging service writes MongoDB, one `await` after the other, and emits
  to the sockets its in-memory registry knows at that moment.

### Components, what is hard in them, what makes them correct

**Note service.** Every HTTP request is a goroutine; two requests meet in the
table between the statements of either. *Hard:* read, encrypt, then write
(Update, Delete); upserts and renames racing for one title; events published in
another order than the commits; commits whose answer is lost; crashes between
commit and publish; imports that fail half way. *Correct:* no committed write is
overwritten unseen, one row per title and user, a conflict is answered only if
there was one, events and table tell the same story unless there was a failure.

**OTP validation.** Failed attempts live in a map behind a mutex, which is let
go while the database is read. *Hard:* validations that overlap; an entry that
expires, is dropped or is made anew between test and count; restarts.
*Correct:* the number of guesses per window is bounded, however they are timed.

**OTP store and shutdown.** Rows have no version. Names are unique by a check
before the insert and by a constraint. *Hard:* check then insert; an update of
a row that is being deleted; main closes the Kafka producers, which wait for
writes in flight, before the HTTP server has drained, and the pool, which waits
for connections, last. *Correct:* unique names, deletions final, every change
announced or with a reason, and none of main's waits is for ever.

**Password service and the removal of duplicates.** *Hard:* `SELECT ... FOR
UPDATE` locks nothing when there is no row; a rename between the select and the
update; rollbacks; counts of an import whose answers are lost; duplicates
compared in one statement and deleted in another;
removals that overlap; labels of groups that coincide. *Correct:* one row per
name and website, no row mixes two requests, a deletion is announced by the
request that made it, removals never take the last copy.

**Kafka consumer.** *Hard:* a message passed over without a commit, and then
committed by its successor; a reassignment with a message in hand; an error that
ends the loop for good while the process lives. *Correct:* nothing is committed
unseen, and good messages are handled in the end.

**Rate limiter.** *Hard:* integer arithmetic of intervals, the sweep.
*Correct:* an address is admitted within its rate and burst, and the sweep
gives nothing away. What the arithmetic costs a client that never pauses is
stated too: its burst, and nothing more.

**Chat.** *Hard:* every `await` lets another handler in: find then create,
save the message then the conversation, find the unread then mark them; sockets
that come and go. *Correct:* messages reach members only, readers are recorded
once, who is told "read" was read, `lastMessage` does not go back.

**LDAP directory.** Events and photo requests write the same documents; errors
of the database are logged and the offset is committed all the same. *Hard:*
kafkajs commits after several events, so a crash has them handled again on a
directory that later events have changed already; an error half way through a
domain; photos set in between; a photo that is deleted. *Correct:* once the
process has caught up, each user whom no failed event concerned is where the
topic, handled once, puts them; no event holds up the others; what a client was
told of a photo is so (it is not: section 5).

**Stateless parts.** Token and signature verification, CORS and security
headers, encryption of single values, discovery, metrics, configuration, QR
decoding: functions of one request or of the environment; there is nothing for
a model checker in them that a unit test does not reach.

## 2. The modules

| module | models | used by |
| --- | --- | --- |
| `NoteService` | `note_service.go`, `note_repo.go` | `MCNoteService`, `NoteServiceProofs` |
| `NoteBook` | what the note service promises: each request at one instant | `NoteService` (instance) |
| `OtpLockout` | `Validate` in `otp_service.go` | `MCOtpLockout`, `OtpLockoutProofs` |
| `OtpVault` | the rest of `otp_service.go`, `otp_repo.go`, the end of `main.go` | `MCOtpVault`, `OtpVaultProofs` |
| `KafkaConsumer` | `pkg/kafka/consumer.go` in the processes of a group | `MCKafkaConsumer`, `KafkaConsumerProofs` |
| `Delivery` | what a consumer group promises of a partition: messages settle in order, the mark follows | `KafkaConsumer` (instance) |
| `PasswordVault` | `password_service.go`, `password_repo.go`, `dedup_service.go` | `MCPasswordVault`, `PasswordVaultProofs` |
| `ChatService` | `chat.service.ts`, `chat.gateway.ts`, `chat.controller.ts` | `MCChatService`, `ChatServiceProofs` |
| `LdapDirectory` | `ldap.consumer.ts`, `ldap.service.ts`, the photo requests of `ldap-users.controller.ts` | `MCLdapDirectory`, `MCLdapPhotos`, `LdapDirectoryProofs` |
| `RateLimiter` | `ratelimit.go` | `MCRateLimiter`, `RateLimiterProofs` |

Conventions:

- A request is a member of `Request` that is served once; `pc[r]` is the
  statement or `await` at which its goroutine or handler is about to run. What
  happens between two such points is one step: nobody else can see it. `OtpLockout`
  has slots (`Validator`) instead, which validate any number of times.
- A database statement that fails before it takes effect, one that takes effect
  but whose answer is lost, a publish that fails and a crash of the process are
  steps, switched on by the constant `Faults`.
- Variables marked *ghost* record what happened, for the properties; no guard
  reads them.
- Constants marked *bound* (`MaxNotes`, `MaxItems`, `MaxTime`, `MaxLog`,
  `MaxGenerations`, `MaxOtps`, `MaxId`, `MaxCalls`) only keep the instances finite.
- A definition after a comment "Slip:" is a mistake the code could plausibly
  have (a dropped guard, an error swallowed, a lock not taken). Nothing uses it;
  a `mutants` entry says which definition it replaces, and which property TLC
  then finds violated.

### NoteService

`row` is the table, `lastId` its sequence, `seen[r]` what `FindByID` returned to
request `r`, `outbox[r]` the event that `publishEvent` is about to send,
`tally[r]` the `ImportResult`. A note's content is not kept: its version names the write that stored it.

| action | code |
| --- | --- |
| `Create`, `Upsert` | `NoteService.Create`, the `INSERT ... ON CONFLICT (title, user_id) DO UPDATE` |
| `UpdateFind`, `DeleteFind` | `FindByID` and the test of the owner |
| `UpdateWrite` | `UPDATE ... WHERE id AND user_id AND version`; no row is `ErrConflict`, a title that is taken an error |
| `DeleteWrite` | `DELETE ... WHERE id AND user_id` |
| `ImportBegin`, `ImportItem` | the loop of `Import` |
| `Publish` | `publishEvent`, and where the handler goes then |
| `DbError`, `Crash` | failures |

Answers are those of the service: `conflict` is `ErrConflict`, `refused` any
other error of the request. The handler has a case for neither a conflict nor a
title that is taken, and answers both with status 500 (`note_handler.go:33`), so
a client cannot tell them apart; `ConflictJustified` and `NoteBook` are about the
service's own results.

`NoteBook` has the same table and answers, and no request that has read and not
yet written. `Edit` replaces a note by its *successor* whatever version the
client had in mind: that the code's two steps amount to this is what has to be
shown.

### OtpLockout

`failed[k]` is the entry for a user and an OTP id (`failedAttempts`), `now` a
clock in ticks. `Check` is the first critical section of `Validate`, `Lookup`
the read of the row and the comparison with no lock held, `Fail` and `Succeed`
the second critical section. `wrong` and `since` are ghosts: wrong codes
answered since the last success.

### OtpVault

As `NoteService`, without versions and with two topics, and with the calls'
duration: `Begin` starts a request's next database statement or publish, which
takes effect and returns in a later step; `busy` are the requests in such a call,
each with a connection of the pool or a write its producer knows of. `phase` is
how far `main` has come after the signal, and each of its steps waits for what
the code waits for:

| action | code | waits for |
| --- | --- | --- |
| `CloseSync` | `consumer.Close()`, then `syncProd.Close()` begins and refuses writes | nothing of a request (kafka-go's own goroutines) |
| `CloseEvents` | `syncProd.Close()` returns, `eventProd.Close()` begins | writes on `sync-events` that had begun |
| `Shutdown` | `eventProd.Close()` returns, `srv.Shutdown` begins | writes on `otp-events` that had begun |
| `ClosePool` | `srv.Shutdown` returns, the deferred `pool.Close()` begins and refuses connections | nothing for certain: the requests in flight, or ten seconds |
| `Exit` | `pool.Close()` returns, the process ends and cuts off what is left | every connection that is out, with no limit |

A publish on a producer that was closed fails (`late`), a statement on a closed
pool too (`NoConnection`). A handler whose statement hangs keeps `main` in
`pool.Close`, whatever `srv.Shutdown` did.

### KafkaConsumer

One partition. `owner` is the process that has it, `position[c]` how far the
reader of process `c` has fetched, `msg[c]` the offset in hand. `Fetch`,
`Verify`, `Handle` and `Commit` are the statements of `Run`; `PassOver` is its
`continue`; errors of fetch and commit end it. Crashes, restarts and
reassignments are the environment's, and follow what kafka-go does: a new
assignment starts at the committed offset, a commit of a process that no longer
owns the partition may still be recorded.

`Delivery` has neither processes nor assignments: a log, the set of messages
that are settled (handled, or turned down for good) and the group's mark. A
message settles only after all before it; the mark is set, forwards or back,
only where everything up to it is settled. `ImplementsDelivery` maps
`Settled` and `committed` to them: two processes that both have a message in
hand, one of them on an assignment that has ended, still amount to that.

### PasswordVault

`rows` is the table, `locks` the row locks of open transactions. A `Place` is a
name with a website, on which migration 003 puts its constraint (`UniqueKey`).
`Label[p][n]` is the key `dedup_service.go` puts together with `::`; in the
instances two places share one. `SelectForUpdate`, `UpsertUpdate` and
`UpsertInsert` are the transaction of `Upsert`; `Find`, `UpdateWrite`,
`DeleteWrite` the two halves of `Update` and `Delete`; `NextItem` the loop of
`Import`; `Analyze`, `NextGroup`, `Compare`, `Remove` are `RemoveDuplicates`. The
ghosts `stored` and `remover` say what a request's statements really did to the
table, which `ItemsCounted` holds against its counts and `DeletedIsGone` against
what it announced.

### ChatService

`socketUser` and `userSockets` are the two maps of the gateway; `conversations`,
`last`, `messages` are MongoDB. One action per `await`: `FindOne`, `SaveNew`
(create), `FindById`, `SaveMessage`, `SaveLast`, `Emit` (send), `FindUnread`,
`UpdateMany`, `Notify` (mark). `readBy` counts how often a reader was recorded.
Any call of MongoDB may fail; a save or an update may also take effect though its answer is lost, and
`updateMany` on some of its messages only. A member of `Socket` is a place for
one connection at a time: on `Disconnect` it is free for the next, of any user,
where socket.io would make up a new id. The registry drops what it knows of the
old one in that step, so this is wider than the program and never helps a
property. Left out are the events `conversationCreated` and `messageSent`, which
go to the sockets of a request's own sender and participants once and are not
kept.

### LdapDirectory

`directory` is the collection, `topic` the partition of `ldap-user-events`,
`position` the last event `eachMessage` has returned on, `committed` the offset
from which kafkajs starts after a `Crash`. `Handled` is the switch on the
action, and the same operator says what the topic, handled once from the start,
comes to (`once`). `HandleError` is the `catch`: the effect on any set of the
documents concerned was made before the error; a `Crash` may leave half of an
event in the same way. `SetPhoto` is `uploadPhoto` and `deletePhoto`;
`MCLdapPhotos` adds a history variable for what their callers were told. An
event without a signature is handled like a signed one, as in the code; what makes `eachMessage` return at once is an `"other"` event.

Of libraries the module relies on this: kafkajs calls `eachMessage` in the
order of the partition and commits what it has resolved, not more; Mongoose 8
leaves `undefined` out of an update, so the `$set` of `deletePhoto` does not
touch the photo. A change of the group (a second process) is not modelled: the
messaging service runs as one process. Nor are several partitions, over which
events of one user could overtake each other only if their producer, which is
not in this repository, used another key than the user.

### RateLimiter

`visitors` is the map; `Allow` and `Cleanup` hold the mutex throughout and are
one step each. `Tick` is time. The ghost `busy` says that no call of an address
came an interval or more after the one before.

## 3. The runs

Two workers; seconds to three minutes each (560,520 distinct states for `notes`,
634,417 for `otp_vault`, 747,599 for `chat`, 145,140 for `vault_writes`).

| run | module and configuration | question |
| --- | --- | --- |
| `notes` | `MCNotes`: 3 requests, 1 user, 2 titles, an import of 2, all faults, fair | do requests that overlap and fail lose writes, duplicate titles, answer conflicts without cause, revive notes, miscount imports, or mislead a client that follows the events? Is `IndInv` an invariant? Refinement of `NoteBook`, also where a rename meets a taken title; is every change announced? |
| `lockout` | `MCOtpLockout`: 3 validations at once, limit 3, 6 ticks | how far can a race overshoot, how many guesses per window, what ends a lock? |
| `otp_vault` | `MCOtpVault`: 3 requests, all faults, shutdown at any time, fair | names, deletions, announcements; what can be known from events without versions; do `main`'s waits end? |
| `consumer_group` | `MCKafkaGroup`: 2 processes, 3 messages, 4 changes of the group, all faults, fair | refinement of `Delivery` (at least once); repeats; is every good message handled? |
| `vault_writes` | `MCVaultWrites`: 2 requests, 2 places, 2 secrets, imports of 2, all faults, fair | one row per place, rows of one request, deletions and who announces them, the counts of imports, locks left behind |
| `vault_removal` | `MCVaultRemoval`: 2 removals, every table of 3 rows, all faults | is a copy always left? |
| `chat` | `MCChat`: 2 requests, 3 users, 2 sockets, calls that fail, answers that are lost | who receives a message while sockets come and go; readers, notices, `lastMessage`; is the conversation answered the one asked for? |
| `limiter` | `MCRateLimiter`: 2 addresses, 8 ticks | the rate, the sweep, and what a client that never pauses gets |
| `ldap` | `MCLdapDirectory`: 2 users, 2 domains, 3 events, 2 crashes, errors, photo requests, fair | where does redelivery leave each user; is every event over in the end? |
| `consumer_doc`, `vault_doc`, `ldap_photos` | | refuted, section 5 |

**Bounds.** The sequences of ids end where the requests of an instance can use
them up, or above, so no insert is disabled by its bound. Two requests are
needed for every race in this code, and a third to make a row for the other two
to race on or to disturb the pair; `MCVaultWrites` and `MCChat` start from a
table, or a database, with something in it instead, so that two will do. An
import of two items can fail half way. `Limit` and `Window` are lowered in
`OtpLockout` so that a key is locked, unlocked and locked again within
`MaxTime`; the code's numbers are covered by the proofs, which have them as
constants. The same goes for `Rate`, `Burst`, `Interval` and `Every`. In
`RateLimiter` one tick is a part of an interval, so that fractions occur.
`MaxGenerations` lets each of two processes lose the partition and get it back.
Three LDAP events let a user be provisioned, moved or deleted, and one of these
be handled again after the others, twice with `MaxCrashes = 2`.
The type invariants are checked as parts of `IndInv`, `LockoutInv`, `OtpInv`,
`ConsumerInv`, `VaultInv`, `ChatInv`, `LimiterInv` and `DirectoryInv`.
`vault_removal` starts from *every* table of three rows, unreadable secrets and
rows from before the constraint included (`UniqueKey = FALSE`); `vault_writes`
has the constraint, without which `OnePerPlace` fails at once (that is
`Taken_Never`, a mutant). `UniqueTitles` and `VersionsCountWrites` are checked as parts of `IndInv`.
Where two users are not needed for a property,
one is enough: no statement of one user matches a row of another, which for notes
is the theorem `RowsOwned`, for every number of users.
Three configurations have a `CONSTRAINT` (`notes`, `vault_writes`, `otp_vault`):
requests, being interchangeable, are named in the order in which they arrive
(`Numbered`), and in `otp_vault` the first name in use is `n1` (`Renamed`). This
takes the place of symmetry, which is not sound for liveness, and loses no
behaviour up to names. They bound the instance besides: only one request is an
import of two entries, the others import one or none (`OneLongImport`); and at
most two requests of `otp_vault` are not over when `main` is signalled
(`TwoLeft`), since its waits are for one topic and one pool each. What is cut off
is the arrival of a request or a signal, of which nothing is assumed to be fair,
or one of two names a request may look for, where the other remains; so no
behaviour is taken for unfair because of it. The proofs know no such bound.

**Symmetry** is used where the members of a set are interchangeable, and never
in a run with a liveness property. Places are not symmetric (two share a
label), nor are users in `ChatService` (the first conversations name them).

**Deadlock** is checked in the lockout run, which can always go on (restart).
Elsewhere requests, messages or time are finite in an instance, and the system
may rest when they are used up; that nothing is stuck before is what
`ChangesAnnounced`, `RequestsFinish`, `Stops` and `GoodEventuallyHandled` say.

**Fairness.**

- `NoteService`: weak fairness of what each request in flight does next. The Go
  scheduler runs every goroutine; a statement or a publish returns or fails in
  the end (the drivers' own timeouts, or the end of the connection).
- `PasswordVault`: the same; no failure is relied on, so that a request which
  waits for a lock is not rescued by an error. A step that waits is not
  enabled; that it becomes enabled again is part of what is checked.
- `KafkaConsumer`: `Run` goes on, processes are restarted, and the group does
  not leave the partition unassigned for ever. `GoodEventuallyHandled` excepts
  behaviours in which an error of a fetch or a commit has ended `Run` in some
  process: `main.go` logs "consumer stopped", and the process keeps its partition
  and reads no more of it.
- `LdapDirectory`: kafkajs goes on to the next event and commits, docker starts
  the process again. Whether the calls of MongoDB succeed is left open: an event
  that fails is over as well.
- `OtpVault`: `main` goes on when what it waits for is there, and as long as calls
  are in progress, one of them ends, well or badly. For a write that is
  kafka-go's doing, which counts its attempts and times each out. For a statement
  it is assumed: neither the pool nor the handlers give statements a time limit,
  so while a database does not answer, `pool.Close` does not return. Nothing is
  assumed of requests between their calls: one that is not scheduled, or not
  read by its client, does not keep `main`.

## 4. The proofs

| theorem | module | says |
| --- | --- | --- |
| `Invariance`, `TypeCorrect`, `TitlesUnique`, `NoUpdateLost`, `VersionsGapless`, `RemovalFinal`, `ConflictHasCause`, `EventsFaithful` | `NoteServiceProofs` | `IndInv` is inductive, and the safety properties follow |
| `RowsOwned` | `NoteServiceProofs` | `[][...]_vars`: a row is changed only for its owner (`OwnersOnly`, which no run checks) |
| `ReplicaConverges` | `NoteServiceProofs` | a client that replays the events, in any order, ends with the table |
| `ImportsCounted` | `NoteServiceProofs` | the reply to an import counts what was stored, up to lost replies |
| `Refinement` | `NoteServiceProofs` | `Spec => Book!Spec`: every step is a step of the note book or stutters |
| `LockoutInvariance`, `Overshoot`, `GuessRate` | `OtpLockoutProofs` | the count of a key, and wrong codes per window, for any number of validations at once |
| `LockedStays` | `OtpLockoutProofs` | `[][...]_vars`: what may unlock a key |
| `OtpNamesUnique`, `OtpRemovalFinal`, `OtpLossesExplained`, `OtpFollowersKnow` | `OtpVaultProofs` | the table of OTPs, what is announced of it, and what a follower of the topic knows |
| `PlacesAndLocks` | `PasswordVaultProofs` | with the constraint installed, one row per place and locks held by open upserts only |
| `LocksLetGo`, `RowsUntorn`, `RemovalFinal`, `ImportsCountTruly` | `PasswordVaultProofs` | with or without the constraint: locks end with their upsert, rows in one piece, removals for good and announced by who made them, the counts of imports |
| `CopiesKept` | `PasswordVaultProofs` | removals of duplicates, by themselves, never remove the last row that reads so |
| `ReadersOnce`, `OnlyMembersReceive`, `DirectExact`, `NotificationsTrue`, `LastIsForward` | `ChatServiceProofs` | read marks, deliveries, direct conversations, read notices, last messages |
| `ConsumerInvariance`, `NoMessageLost` | `KafkaConsumerProofs` | at least once, for any number of processes, messages and crashes |
| `RepeatsPaidFor` | `KafkaConsumerProofs` | a message is handled at most as often as the group changed |
| `Refinement` | `KafkaConsumerProofs` | `Spec => Partition!Spec`: every step of the group is a step of `Delivery` or stutters |
| `LimiterTypeCorrect`, `AdmittedWithinRate`, `SweepLosesNothing`, `BusyAreRefused` | `RateLimiterProofs` | the rate, the sweep, and what a client that never pauses gets, for every rate, burst and interval |
| `DirectoryInvariance`, `RedeliveryHarmless` | `LdapDirectoryProofs` | events handled again after any number of crashes, half handled or not |

Assumptions are those of the modules' `ASSUME`s: bounds are naturals (and
`MaxOtps` at least one), "no value" constants are not values, `Validator` and the
users of the chat are finite sets, the tables that `PasswordVault` may start from
are tables of rows, `Limit` is at least one,
and in `RateLimiter` that `Burst <= Rate * (Every \div Interval)` — an address
that has been idle long enough to be swept has earned a full bucket. In the code
that is 20 <= 10 * 300.

**Notes.** `IndInv` has two halves. `TableInv` is about the table and its
history alone: ids come from the sequence, a row is at least as new as every
write of it, versions have no gaps, no two writes share one, a removed id is
never used again. `RequestInv` ties requests to it: the row a request has seen
still has the owner it had and never goes back to an older version
(`SeenOwned`), so when the `WHERE` clause matches, nothing has happened in
between; and `InStep` says what each `pc` implies. Without `SeenOwned`,
`UpdatesWhatWasRead` is not inductive; without `IdsAllocated`, `RemovedOnce` is
not. The proof has a lemma per half and kind of change. `ReplicaAgrees` needs
one thing more, that the write which gave a row its version gave it its title
(`LatestTitle`); then every change is on the topic once nothing is in flight, and
the highest version told of a note is that of its row. `ImportCounts` is
about the size of a set of changes: by `ImportExact`, what an import has stored
lies between what it counts as imported and what it has dealt with, and each
write is new to the history because its version is (`WriteIsNew`). `Refinement` maps the variables to
themselves: `Create`, `ImportItem`, `UpdateWrite` and `DeleteWrite` are the
instants at which a request takes effect, finds and publishes stutter or
decline.

**Lockout.** `OvershootBounded` counts the entry and the validations past the
check together and is inductive with types: a check admits only below the limit,
a failure moves one from one summand to the other. `GuessRateBounded` follows
from `EntriesPaced`: wrong codes are those of the entry in the table and those
of `m` entries dropped before, each of which stayed for more than `Window`; `m`
is bounded by the clock. Arithmetic with a product of two variables is in a
lemma of its own. `LockHolds` needs the types only: a failure that comes late
makes a locked entry no younger and no smaller.

**Consumer.** `ReadersSettle`: everything before what a reader has in hand is
settled, and a reader about to commit has settled it. That survives
reassignments, because a new assignment starts at an offset that was committed.
The refinement needs it twice: a verification or a handling is a `Settle` because
all before the message in hand is settled already, and a commit is a `Mark`
because the message in hand is. `RepeatsBounded` is counted by `Paid`: for each message, the times it
was handled, the processes that have it in hand unhandled, and one if the owner
has yet to come to it, are together at most the changes of the group. A fetch
moves one from the last summand to the second, a handling from the second to the
first, and only a change of the group adds one; a process that lost the
partition with the message in hand is still in the second.

**OTP store.** `VaultIInv` says of the table that ids come from the sequence, rows go only
by being deleted, and a row's name is that of an update or else of its creation
(`NameWritten`, which is what a follower can know, events of updates carrying
no version); of each request that it changes one row at most, has changed nothing
before its statement, and tells its own change afterwards. That calls begin and
return in different steps touches none of it. The end of `main.go`
is in `LossesExplained`: an event may be missing because its producer was closed
before the handler came to it.

**Passwords.** `WritesInv`: an upsert past its `SELECT ... FOR UPDATE` holds the
lock of the row it found, and that row is live and still of its user and place
(`Holds`). This is what makes its `UPDATE` by id touch the right row: every
other writer waits for the lock. Without it `Untorn` and `OnePerPlace` are not
inductive. `PlacesAndLocks` assumes `UniqueKey`, that migration 003 is in
place; without its constraint two inserts of one place both succeed. The other
theorems do not need it. `DeletedIsGone` rests on `RemovedStay`: a row that a
request took away is not in the table again, and only one of two statements that
race for it does. `ItemsCounted` follows from how counts and the table move
together, statement by statement: an upsert that took effect is counted as
imported or, if its answer was lost, as an error (`CountsInv`). `CopiesKept` assumes that
only removals of duplicates run: with an `UPDATE` between comparison and
deletion it is false (section 5). Its invariant, `DedupInv`: the row with the
highest id of a user and label is live, kept by every removal whose group it
is in, and every row still to be compared or removed has a lower id and the
same label.

**Chat.** `ChatIInv` says that the two maps of the registry are each other's
inverse whenever a handler looks, that a conversation once saved does not change
and a message only gains readers; so what a request found before an `await`
(`AtPc`) still holds after it. That the users are finite makes MongoDB's `$all`
and `$size` on participants an equality of sets (`DirectIsExact`).

**Limiter.** Tokens spent and tokens left never exceed the burst plus what whole intervals
since the first call have added, up to the last check; an address that was swept
is covered because its bucket was full. The lemmas say that whole intervals of two
spans add up to at most those of the span. For `BusyStarves`, tokens left and
tokens spent are exactly the burst while no whole interval has passed between calls.

**Directory.** `LdapInv` is `DirectoryInv` and `OnceChain` (each state of `once`
is the one before it and its event). Where an event takes a user depends on the
user's domain alone (`HandledDoes`). An event that settles a user makes the
directory and `once` agree; between two such events a user can only go
(`OnceMonotone`), and an event handled again that takes the user away would have
done so the first time (`AfterLeaves`), so that `Converging` survives `Handle`
and, by monotony, the step back of `Start`. `FollowsTopic` is `Converging` at
`position = high`.

Only model-checked: liveness under fairness, which the prover cannot do:
`RequestsFinish` (passwords), `ChangesAnnounced` (notes),
`GoodEventuallyHandled`, `EventsCommitted` and `Stops`. Every invariant, action
property and refinement that a passing run checks is a theorem. No module uses
recursive operators.

## 5. What the runs refute

Each of these is a sentence of the documentation or of a comment, stated as a
property, and a run in which TLC shows a behaviour of the code against it.

| run | sentence | behaviour |
| --- | --- | --- |
| `consumer_doc` | `SECURITY.md:583`, `585`: messages that fail are not committed, and delivered again after a restart | the next message that succeeds commits an offset past them |
| `vault_doc` | `dedup_service.go:86` "skipping duplicate ...: password content differs" | an update between the comparison and the deletion: the row deleted differs from the one kept. (`LastCopyKept` holds while only removals run.) |
| `ldap_photos` | `ldap-users.controller.ts:107`, "Photo deleted" | `deletePhoto` sets `jpegPhoto` to `undefined` (`ldap.service.ts:88`), which Mongoose leaves out of the `$set`: the document keeps its photo |

More disagreements show in what the properties that hold have to admit:

- `REVIEW.md:843`, "10 rps, burst 20": `Allow` adds tokens for whole intervals
  since the last call only (`ratelimit.go:62`) and sets `lastCheck` with every
  call (64). A client at nine calls per second, evenly spaced, never gains a
  token, and is refused for good after its burst. `BusyStarves` says so as a
  property that holds, and is proved; it contradicts "10 rps" for every client
  that calls more than once per interval, and the "slight inaccuracy" that
  `REVIEW.md:1000` expects of short intervals is a refusal for good.
- `ldap-users.controller.ts:92`: `uploadPhoto` answers "Photo updated" whether or
  not a document matched.
- `REVIEW.md:891`, "5 failed attempts → 6th attempt blocked for 15 minutes":
  validations that overlap pass the check together, so the count of a key may
  reach `Limit - 1 + N`; `OvershootBounded` is the bound that holds. (The window
  is five minutes in the code.)
- `SECURITY.md:966` lists the closing of Kafka connections and HTTP server; the
  otp service closes its producers *before* `srv.Shutdown`, so a request in
  flight commits its change and cannot announce it, though nothing failed:
  the set `late` in `LossesExplained`. Note and password close theirs afterwards.
  The "10-second shutdown timeout" it names bounds `srv.Shutdown` alone: the
  closes before it and the deferred `pool.Close()` after it (`main.go:49`) have no
  limit of time (`Exit`).
- `chat.gateway.ts:56`, "Notify affected senders that their messages were read":
  a message saved between `find` and `updateMany` is marked as read and its
  sender is not told. `ReadUpdatedTrue` says only that what senders are told is true.

## 6. Abstractions, and what is not modelled

- Contents (note bodies, secrets beyond equality, message texts) and their
  encryption; wording of answers; logging; metrics.
- Reads that change nothing (`FindAll`, `Search`, `Export`, history of a
  conversation): there is no state for them to get wrong.
- The identity of a request's user is taken as given: token verification is a function
  of the request.
- A statement is atomic, and statements see what is committed (PostgreSQL's read
  committed); `updateMany` of MongoDB is taken as one step, since nothing that
  can come between its documents makes a difference to another handler here.
- Inside kafka-go: batching, retries, its own timeouts. A publish succeeds or fails.
- A crash in `NoteService` and `OtpVault` loses what is in flight. In
  `PasswordVault` a crash is a `Fault` of each request in flight with respect to
  the table (PostgreSQL rolls back and releases its locks), and is not a step of
  its own.
- The process's shutdown is modelled where the order matters, in the otp service.
- The limit of 25 connections of the pool delays statements, which the models
  allow anyway; no request holds a connection while it waits for another.

- Several processes of the messaging service, and several partitions of
  `ldap-user-events`: see `LdapDirectory`. Removal of duplicates publishes
  nothing (`dedup_service.go:90`), so there is no event to state a property of.
- Metrics: counters that only the metrics endpoints read. `Dec` of the gauge of
  requests in flight (`metrics.go:52`) is not deferred, so a handler that
  panics leaves it one too high; nothing depends on the gauge.
- Token checks, encryption, CORS and security headers, discovery, QR decoding
  and configuration are functions of one request or of the environment.
- `kafka.producer.ts` of the messaging service is called by nothing.

## 7. Plan

Done, in this order because the note service has the most elaborate promise
(versions, conflicts, events) and the lockout the most delicate race: notes and
their refinement; lockout; consumer; passwords; chat; limiter; otp store; the
abstract delivery and the consumer's refinement of it; the LDAP directory.
Proofs of every safety property of notes, lockout, otp store, consumer,
passwords, chat, limiter and directory.

Next, models:

1. An abstract specification of the lockout (attempts per window), with
   `OtpLockout` shown to implement it.
2. What `auth-events` does in the otp service: the design document says that an
   OTP is created for a new user; the handler logs.

Next, proofs:

1. What the abstract specifications themselves promise: that a note of
   `NoteBook` gains a version per change, and that the mark of `Delivery` never
   covers an unsettled message, so that the refinements carry them over.
2. The abstract lockout, once it is written: that `OtpLockout` implements it.

`CopiesKept` cannot be had for more operations: a delete removes a last copy on
purpose, and an update or an upsert between comparison and removal changes one.
