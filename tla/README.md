# A TLA+ model of the GitHub release notification system

The repository is three Node services over PostgreSQL and RabbitMQ. People
subscribe an email address to a GitHub repository, confirm by a mailed link, and
are mailed when the repository has a new release. These modules model what is hard
about it: the subscribe saga that spans two services, the handlers that interleave
at every `await`, the relay of messages through outbox tables, the scanner that
works on stale copies, the page whose requests overlap, and what is left of all that when a statement fails, the
AMQP channel closes or the process ends.

Paths below are relative to the repository; `sub/` stands for
`services/subscription-service/`, `repo/` for `services/repo-manager-service/`,
`email/` for `services/email-service/`.

## The system

| Component | State | Operations | Talks to |
| --- | --- | --- | --- |
| Subscribe saga: `sub/src/services/sagaOrchestrator.ts`, `subscriptionService.ts` | tables `subscriptions`, `sagas`, `outbox`; `SagaRegistry.resolvers` (memory, with timers) | `POST /subscribe`; consumers of `repository.registered` and `repository.failed`; the 10 s timer | outbox → `repository.register`; publishes `email.confirmation` |
| Confirm, unsubscribe: `subscriptionService.ts` | `subscriptions` | `GET /confirm/:token`, `GET /unsubscribe/:token` | publishes `repository.untrack` |
| Release fan-out: `handleReleasePublishedEvent` | reads `subscriptions` | consumer of `release.*` | publishes `email.notification` |
| Latest-tag lookups: `sub/src/services/repo-manager/*`, `repo/src/grpcServer.ts`, `repo/src/routes/api.ts` | none | `GET /subscriptions`; `FetchLatestTag(s)`; `GET /internal/repositories` | gRPC or REST to the repo-manager |
| Web dashboard: `sub/public/app.js` | `currentEmail`, `localStorage`, the views and the form of the page | login, change of email, refresh, subscribe, reload | `GET /subscriptions`, `POST /subscribe` |
| Validators, errors: `validatorService.ts`, `packages/errors`, `errorMiddleware.ts` | none | names of repositories; exception → status | |
| Registration: `repo/server.ts`, `repo/src/routes/api.ts` | tables `repositories`, `outbox` | consumer of `repository.register`; `POST /internal/repositories` | GitHub; outbox → `repository.registered` / `.failed` |
| Scanner and untracking: `repo/src/services/scannerService.ts` | `repositories.last_seen_tag` | `scan()` on a timer; consumer of `repository.untrack` | GitHub; publishes `release.published` |
| Outbox relay: `packages/amqp/src/outboxService.ts` (in both services) | `outbox.processed`, the poll's timer | `start`, `poll`, `stop` | RabbitMQ |
| AMQP client: `packages/amqp/src/index.ts` | connection, channel | `connect`, `publish`, `setupQueue`, `consume`, `close` | RabbitMQ |
| Email service: `email/` | none | consumer of `email.*` | SMTP |
| Start and shutdown: the three `server.ts` | flags, timers | start order, `shutdown()` | all of the above |
| Express wiring, metrics, logger, configuration, protobuf | none that matters | | |

What is hard, and where: the hazards are listed with their lines in
`PROJECT.json`. In short:

- **Interleaving.** A handler is interrupted at every `await`. Two replies to one
  saga are handled side by side (the channel sets no prefetch), a request's timeout
  runs against a late reply, a rollback against a confirmation of the same row, the
  scanner against registration and untracking.
- **Messages.** Outbox and broker are at-least-once. A repeated
  `repository.register` may be answered twice and differently: the two deliveries
  race on a unique constraint, one is answered `registered`, the other `failed`.
  A `nack` without requeue loses a message.
- **Failure.** Any statement may fail, or fail after it took effect. The channel may
  close, and is never opened again. `ack` on a closed channel throws, the `nack` in
  the catch block throws, too, and nothing catches that.
- **The process.** Node ends on an unhandled rejection. Timers, promises and
  handlers vanish, connections are reset; tables, queues and outbox records stay.
- **The page.** Requests for the list overlap and are answered in any order; a handler
  goes on after its `await` with the email of that moment, another one's perhaps.

### What makes each component correct

- *Saga*: what a client is told is true and stays true; a finished saga agrees with
  its row and its email; one row per pair; every request ends.
- *Confirm, unsubscribe*: no row comes back, no activation without a mailed token,
  only unused repositories are untracked.
- *Registration*: every delivery is answered, and truly.
- *Scanner*: no release is skipped, none announced that is not news, few twice; the
  seen tag only moves forward; the scanner catches up.
- *Outbox*: nothing uncommitted is published, nothing unpublished is marked, marked
  is final, everything committed goes out.
- *Fan-out and email service*: everybody due an email has one under way when its event is
  acknowledged or dropped, nobody uninvited is mailed, emails are repeated only so often and sent in the
  end.
- *Both services together*: a completed saga's repository is tracked, and what a client
  is told of GitHub is so.
- *Lookups*: both transports give the same tags, and no wrong ones.
- *Dashboard*: it always shows something; while requests do not overlap, exactly one
  view, and the own, fresh list; the form comes back.

## Modules

| Module | What it is |
| --- | --- |
| `DoubleOptIn` | What the subscription service promises, with nothing of how: a subscription is stored once per pair, mailed, activated only if mailed, removed for good; "created" is answered only for a mailed one. |
| `SubscriptionService` | The service: saga, replies, clicks, registry, process. |
| `MCSubscriptionService` | Its instances for TLC. |
| `SubscriptionServiceProofs` | The inductive invariant proved, and from it the properties and the refinement of `DoubleOptIn`. |
| `RepoManager` | Registration, untracking, the scanner, process. |
| `MCRepoManager` | Its instances for TLC. |
| `ReleaseFeed` | What the repo-manager promises, with nothing of how: a repository is watched under a number never given out again, only the latest release is announced, only if it is news, and recorded as seen only once announced. |
| `RepoManagerProofs` | Its inductive invariant and all its safety properties proved, and the refinement of `ReleaseFeed`. |
| `AtLeastOnce` | What an outbox promises: a message is sent once it is due, any number of times until it is settled, never after; it is settled only after it was sent. |
| `OutboxRelay` | The outbox table, the polling loop, the channel, shutdown and restart. It is its own instance. |
| `OutboxRelayProofs` | Its inductive invariant and safety properties proved, and the refinement of `AtLeastOnce`. |
| `Mailing` | What fan-out and email service promise together: an event is closed only once everybody due was promised an email, promised emails alone are sent, and only the mailed get confirmed. |
| `Notifier` | From a release to the mailboxes: the fan-out, the email queue, the email service, their start and their failures. It is its own instance. |
| `NotifierProofs` | Its inductive invariant proved, and that nobody is forgotten and nobody mailed uninvited. |
| `MailingProofs` | The refinement of `Mailing` by `Notifier`, above `NotifierProofs`. |
| `RepeatsProofs` | How many copies of an email there can be: `FewRepeats` proved, above `NotifierProofs`. |
| `Tracking` | `SubscriptionService` and the registrar of `RepoManager` composed, with the messages between them. |
| `MCTracking` | Its instance for TLC. |
| `TrackingProofs` | Its inductive invariant and both its properties proved, above `SubscriptionServiceProofs`; and that either part behaves as its own module says. |
| `TagLookup` | Operators: what becomes of the name of a repository from the form to both transports of a lookup, and of an exception on its way to a status. |
| `Dashboard` | The page and `GET /subscriptions`, above `TagLookup`. |
| `MCDashboard` | Its instance for TLC. |
| `DashboardProofs` | Its inductive invariant proved, what the page shows, and that the transports agree. |

**Granularity.** Node runs a handler without interruption from one `await` to the
next. An action is one database statement (or one GitHub request) with the code
that runs up to the next one; the program counter `at[h]` of a handler says for
which statement it waits. Whatever else happens may happen between two actions of a
handler. `publish()` is asynchronous by its signature only, and no wait. A
statement in flight when the process ends either took effect before or never does:
the models assume that the database has finished what it was sent before the next
process reads it.

**`SubscriptionService`.** A request *r* names what it creates: `row[r]` in
`subscriptions` (deleted rows keep how they went), `saga[r]` in `sagas`, and its
tokens, mailed once `r \in emailed`. `registry` is the set of sagas with an entry in
`SagaRegistry.resolvers`; an entry and its armed timer are one thing. Requests go
through `idle → tx → committed → await → check → mark → remove → fail → reject →
done`; `resolved` is a saga resolved before `start()` awaits it. Workers are slots
for the other handlers: a consumer goes `read → send → complete → resolve`, or `read → mark →
remove → fail → reject`; a click `confirm`, or `delete → count → untrack`. At `read` it has
its message and waits for `getSaga`, and the channel may close meanwhile; an `ack` and a `nack` that both throw
end the process wherever a handler returns (`HandlerReturns`). A statement fails without effect, or takes effect
and loses its acknowledgement (`Acknowledged`): the handler gets the same exception, so that a saga that is
COMPLETED in the table may be rolled back. `Reply`
stands for everything the repo-manager may send: any message about any committed
saga, repeated or contradictory; which of these it really sends is `RepoManager`'s
business. Left out: the payload of rows and messages, metrics, logging.

**`RepoManager`.** A handler is one delivery or one POST request. `rows` is the
`repositories` table with one row at most per name, as its unique constraint has it;
ids are never used again. `baseline` remembers with which tag a row was inserted,
`announced` counts `release.published` per row and tag: both are for the properties. Announced is
what the channel has taken; that a dying process may lose it in its socket is not modelled here (in `OutboxRelay`
and `Notifier` it is). An acknowledgement of `queueOutbox` that is lost sends the handler to its catch block,
which queues a `failed` beside the `registered` (`QueueReply`).
The scanner's snapshot is `todo`; `news` is a release published and not yet recorded.
GitHub numbers its releases upwards and takes none back (assumption; when it does,
an older release is announced as new). The order in which a scan takes its rows is
left open, as the query leaves it. Of `ReleaseFeed` it keeps rows and announcements as
they are; the numbers given out are the ids below `nextId`, each since its `baseline`.

**`OutboxRelay`.** Records are inserted in open transactions in the order of their
numbers, and commit or roll back in any order. A batch is published in one step,
because no event is handled while the loop runs. `wire` is what has been published
and not yet been read by the broker; it is lost when the process dies or the channel
is closed. `Stop`, `CloseAmqp`, `Exit` are `shutdown()`. A record is due in
`AtLeastOnce` from its commit, and settled when it is marked; polls, sockets, failures
and restarts are stutters but for the publishing, marking and reading in them.

**`Notifier`.** The rows are those of one repository; an *event* is one
`release.published` message, so that an announcement the scanner repeats is a second
event. `event[e]` is what the broker knows of it, `handlers` are the events whose
query is under way. The loop of `handleReleasePublishedEvent` waits for nothing but
resolved promises: it writes all its messages and then the acknowledgement, in one
step, to one socket. `wire` is that socket; the broker reads it in order and one
message at a time, and is cut short when the process dies or the channel closes. An
email message is a pair of what it is about and for whom: `ready` copies are in the
queue, `unacked` with the email service, of which `sending` still have a handler.
`due` and `late` remember who was confirmed, and who was gone, when an event was
announced. A queue exists from its service's first start on; before, the exchange
drops what is routed to it, silently (`Route`): `lost` holds only the emails given up in a broken dialogue
with the SMTP server. `connect()` and the declaration are one step (a service
that has only connected is seen by nobody), as are `render()` and the SMTP dialogue,
and the lookup of a token and the statement behind it: what happens between those two
is `SubscriptionService`'s business, and an update of a deleted row does nothing.
`shutdown()` is a closed channel followed by the end of the process. An event is open in
`Mailing` from its announcement to what the broker makes of its answer or of a missing queue (`Fate`); an
email is promised as soon as a copy of it is ready, with the email service, or given up in the SMTP dialogue
(`Delivery`), and sent once it is in the mailbox.

**`Tracking`.** Every step is one of the subscription service or one of the
repo-manager; three conditions connect them. A reply that arrives must be in the
repo-manager's outbox (as often as it likes: relay and broker are at-least-once, and
lose what they like), a `repository.register` is delivered only for a committed saga,
a `repository.untrack` only once published. This discharges what each module alone
leaves open: `SubscriptionService` takes any reply, `RepoManager` any delivery. The
scanner rests, because it neither inserts nor deletes a row; so do the direct POSTs.

**`TagLookup`.** A name is the sequence of its parts between slashes; `Pieces` is what
a name falls into at its commas, because REST sends a batch as one string
(`repo/src/routes/api.ts:43`) and gRPC as a list. Of the page's `new URL()` (`app.js:211`) `CleanRepoInput` keeps
what `PastedUrlsWork` asks about: two hosts stand for `github.com` and `*.github.com`, none is in capitals, there is no query
and no hash, and every URL can be parsed. A table of the
repo-manager is a function from the tracked names to tags. `null`, `undefined` and
`''` are one value, `Unset`: every reader of a tag treats them alike.

**`Dashboard`.** An action is the code of the page from one event (a click, a
response) to its next `await`; the handlers of `GET /subscriptions` are `ReadRows`,
`LookedUp` and `FetchFails`. `fetch` holds the requests in flight, `post` the one
subscription under way: its button is disabled meanwhile, the others are not.
`loading`, `empty` and `listed` say which of the three views are not hidden; `table`
says whose rows are listed and which version of the subscriptions table they are of.
What is written by the rest of the service is a change of that table (`RowsChange`).
`alone` remembers whether a request was sent beside another since the last one sent
alone, `asked` the version of the table at the last click: both are for the
properties. A reload forgets all requests; their answers reach nobody.

Each model has a section of *slips*: actions as a plausible mistake would have
them. No specification uses them. Put in the place of the action they are named
after, each makes TLC refute a property, which shows that the property says
something about the code.

## Runs

All with `tlc -config <cfg> <module>`.

| Run | cfg | Shows |
| --- | --- | --- |
| `subscribe` | `Subscribe.cfg` | With two requests for one pair, two workers, two replies and one fault (a failed statement, a lost acknowledgement or a closed channel): `CreatedMeansEmailed`, `CompletedMeansEmailed`, `FailedMeansGone`, `NotFoundMeansGone`, `TimeoutIsFinal`, `SagaStartsOnce`, and that the service implements `DoubleOptIn`. 3.9 M states. |
| `requests_end` | `Ends.cfg` | Under fairness, with a fault and a crash: every request received is answered or its connection reset. |
| `registration` | `Registration.cfg` | Two register deliveries and an untrack of one repository against the scanner: every delivery is answered, the seen tag was announced or was there at registration, nothing that was out when the registration asked GitHub is announced, duplicates are bounded by faults and crashes, the seen tag moves forward; the repo-manager implements `ReleaseFeed`. 0.9 M states. |
| `scanning` | `Scanning.cfg` | Two repositories on GitHub, one of them registered by a POST, a name with none behind it, and a fault: answers are true, and none contradicts another to the same delivery; the scanner catches up with either repository, although a failure skips one and a rate limit all that follow. 0.26 M states. |
| `outbox` | `Outbox.cfg` | With three records, a fault and two ends of the process: nothing uncommitted is published, copies are few, none follows the mark; everything committed is processed and arrives; the relay implements `AtLeastOnce`. |
| `notifying` | `Notifying.cfg` | With two subscribers, a release and a failure of either service: `NobodyForgotten`, `OnlyInvited`, `FewRepeats`, that an email that is due is sent in the end (`EverybodyHears`), and that the services implement `Mailing`. 1.8 M states. |
| `tracking` | `Tracking.cfg` | Two subscribers of a repository on GitHub and of a name with none behind it, an untrack, a fault of the repo-manager: a completed saga's repository is tracked unless an untrack was published, 404 and success are said of the right ones. 2.0 M states. |
| `dashboard` | `Dashboard.cfg` | Two emails at one browser, three requests for the list in flight, a change of the table, a reload or a change of email at any point, over REST: what the page shows; that the form comes back; that pasted addresses become the names in them; and, for all sets of names and tables of the instance, that the transports agree. 0.24 M states. |
| `compensates_unconfirmed`, `created_kept`, `stays_up`, `untracks_unused` | `Compensates.cfg`, … | Four statements of the repository that the code does not keep; see below. |

**Bounds.** Two requests of one pair are what the unique index, the resend and the
rollback by pair can confuse; a third adds no new kind of conflict. Two workers let
two replies, or a reply and a click, run side by side; two messages are a repetition
or a contradiction. One fault or one crash hits any statement of any of them, and
the proofs lift every bound. On the repo-manager's side two deliveries race for the
insert, an untrack and a second insert give the scanner a name with a new id, and
two releases let it hold an old one. Three outbox records let one commit between two
others. Two subscribers let a fan-out be cut in the middle; a failure of the one
service and one of the other multiply the copies of an email. The instances
leave out a POST that races a delivery for the same repository, and a crash of the repo-manager in `scanning`: for the safety
properties the proofs cover both. In `Tracking` one fault of
the repo-manager makes it answer twice and differently, and two messages carry that. In
`Dashboard` three requests are the one behind a subscription and two others, so that an
answer is overtaken by two; one of the three names has a comma in it; one change of the
table (`MaxVersion`) tells a fresh list from an old one. `MaxFaults`, `MaxCrashes` and `MaxFailures` bound failures, `MaxRequests` the emails asked for, `MaxTag` releases, `MaxId` rows.

**Fairness.** Weak fairness of the steps of a handler that has been called: Node
runs every callback whose statement has answered, and its timers fire. The broker
reads its sockets. Not assumed: that replies come, that clients click, that a
process restarts, and, except in `Notifier`, that the broker delivers; there it hands
messages to a consumer that is connected, and the SMTP server answers. In `Dashboard` the
browser runs its callbacks, a query ends, and so does every request to subscribe
(`EveryRequestEnds`); a lookup of tags ends over REST, where it is aborted after five
seconds (`repoManagerService.ts`), and need not end over gRPC, which sets no deadline:
`ButtonComesBack` speaks of REST only. `ReleasesAreSeen`,
`RecordsAreProcessed` and `EverybodyHears` speak of processes that stay up with an open channel from some
time on, because a service with a closed channel keeps running and publishes nothing.

**Deadlock** is checked except for the subscription service and the notifier, which
have nothing to do when all their requests and events are over, and their composition.

### Where the code and the repository's words part

- *A confirmed subscription is compensated away* (`compensates_unconfirmed`). The
  comment at `sagaOrchestrator.ts:156` says "Delete the unconfirmed subscription";
  the statement deletes by email and repository. The run has no replies and no failures. The saga's timer
  fires and `start()` goes to its rollback; before the deletion a second POST of the same pair has the links mailed again
  (`subscriptionService.ts:15`) and the client confirms; the deletion takes the confirmed row. By the same code one
  late `repository.failed` does it, too, in the place of the timer.
- *"Subscription successful" for a subscription that is gone* (`created_kept`). Two
  replies both read STARTED; one mails and waits, the other compensates; the first
  then records COMPLETED and answers 200 (`swagger.yaml:40`).
- *The process ends by itself* (`stays_up`). The timer is armed before the
  transaction is awaited. If the transaction fails (two concurrent requests for one
  pair suffice) or takes longer than the timer, the rejection has no handler.
  `docs/v1.0/sdd.md:25` asks to handle interruptions of external services, the
  database among them, "without system failure".
- *A repository in use is untracked* (`untracks_unused`). The comment at
  `subscriptionService.ts:49` speaks of repositories without remaining
  subscriptions; one may be committed between the count and the publication. If its own
  `repository.register` was delivered before the untracking, its subscriber hears of no release.

Met on the way, and visible in the models: a second `POST /internal/repositories`
for a new repository is answered 500 when it loses the race (`CreateConflicts`; the
comment at `repo/src/routes/api.ts:15` says "Registers a repository if it doesn't
exist"); a crash between `release.published` and the update of the seen tag repeats
the announcement (`FewDuplicates` bounds it; `adr-3-polling-confirmation.md:20` wants
the seen tag "to avoid duplicate notifications"); a rollback untracks nothing, and
the self-healing scanner of `README.md:18` is not in the code.

## Proofs

`tlapm SubscriptionServiceProofs.tla`, and so on for `RepoManagerProofs`,
`OutboxRelayProofs`, `NotifierProofs`, `MailingProofs`, `RepeatsProofs`, `TrackingProofs` and
`DashboardProofs`. They prove their theorems for
every set of requests, workers, messages, deliveries, repositories, records, subscribers,
events and names, and for every bound, from the assumptions that the modules state
(`ConstantsAssumption`, `NoneAssumption`, `TrackingAssumption`, `DashboardAssumption`,
`PiecesAssumption`) alone. TLC finds the inductive invariants true on the instances
above, too; the runs keep what follows from them.

*Subscription service.* None of the properties is inductive by itself. That whoever
was told CREATED was mailed, say, rests on where every handler is: `resolve` is
reached only behind the publication, and a request `resolved` early stays mailed.
`Invariant` in `SubscriptionService` therefore adds what the program counters say:
`RequestsInOrder`, `WorkersInOrder` (the saga a worker works on exists; behind the
publication it is mailed; behind a deletion its row is gone), `RollbacksInOrder` (how
far a rollback has come, and that without faults a saga behind its first statement
is not STARTED, and behind its deletion has no row) and `OnlyCommitted` (only committed sagas are answered or mailed).
The proof goes action by action, one lemma each, and under it conjunct by conjunct.
From `InvariantHolds` follow the safety properties and the action property
`SagaStartsOnce`. `TimeoutIsFinal` does not say that nobody goes on with the saga: a handler that read
STARTED before the timeout was answered still mails and completes. It says that no reply can start on it, and
that a row that is still there was mailed by such a handler or is marked for compensation. `ServiceKeepsPromise` shows that every step is a step of
`DoubleOptIn` or a stutter under the mapping `Status`.

*Repo-manager.* The scanner compares tags for equality and works on copies that may be of
rows long deleted; that it never announces what is old or skips what is new rests on
numbers and order. `RowsInOrder`: a row's tag lies between the one it was inserted with
and the latest, and its id is its own. `ScanInOrder`: so does the tag of every copy the
scanner holds, whose id belongs to its repository if to any, and no two copies share an
id. `NewsInOrder`: the release to be recorded was announced, is newer than its row, and
has no other copy. From these follow `SeenWasAnnounced`, `NothingOldAnnounced` and
`SeenMovesForward`. `FewDuplicates` is not inductive: a release that may be announced once
more for a row (`Open`: a copy, or the row itself, is older), or whose record a closed
channel may yet cost, has one announcement less to its account (`CopiesInOrder`).
`HandlersInOrder` says what a registering handler knows of GitHub at each place, which
gives `RegisterIsAnswered` and `RepliesAreTrue`. `FeedImplemented` maps every statement to
a step of `ReleaseFeed` or a stutter. It needs the same parts: that a copy's id belongs to no other repository
makes an announcement one of its own repository, that the recorded release is still newer than its row makes
the update an advance and never a return.

*Outbox.* That copies are bounded is not inductive: a record that may still be
published must have one copy less to its account (`CopiesInOrder`), and one less again
while a stopped process may finish its last poll, because the end that follows has been
counted already (`Stopping`). `BatchInOrder` says that a poll holds unprocessed records
only: no second poll is under way. `RelayImplementsAtLeastOnce` maps a publication
to the sending of a whole batch and a mark to its settling; that a marked batch was published is part of the
invariant. `OnlyPublishedProcessed` and `OnlyCommittedArrives` say in the words of the tables what follows:
the latter is the condition under which `Tracking` lets a reply arrive.

*Both services together.* `ServiceIsItself`: every step of `Tracking` is one of
`SubscriptionService` or none, so that the invariant of that service holds here without a
new proof. Beside it, `TrackingInvariant` says what either knows of the other: a reply on
its way was queued by the repo-manager (`RepliesQueued`), whoever mails, completes or
answers 200 was told "registered" (`CompletionsTold`), only what GitHub has is tracked,
each under an id of its own (`RowsApart`), and what a registering handler and the replies it queued say of GitHub and
of the table is so (`DeliveriesInOrder`, `RepliesInOrder`). The two properties follow: from
the client back over the saga, the reply and the outbox to the row. The parts keep their own
promises, too. `ServicePromisesHold` states the properties of the subscription service and its refinement of
`DoubleOptIn` for the composition. `RepoManagerIsItself` shows that the composition's other half satisfies
the assumptions and the specification of `RepoManager`, so that every theorem of `RepoManagerProofs` holds of
it by substitution; `tlapm` cannot cite a theorem of a module that is instantiated, so they are not stated again.

*Notifier.* `NobodyForgotten` speaks of what the broker has read, and rests on what it has
not read yet: every acknowledgement on the wire has in front of it, or already behind
it, a message to everybody due (`WireInOrder`), because a handler writes to everybody
confirmed, and whoever is due stays confirmed until then (`DueInOrder`); an event dropped
for want of a queue was due to nobody, because the queue is declared before anybody can
ask for a token (`ProcessesInOrder`, `DueInOrder`); no message to somebody due is dropped for want of the email
queue, because its recipient could not have confirmed before there was one (`QueueInOrder`, `InvitedInOrder`); and a message
that leaves the queue for good has been sent or has failed (`MailInOrder`). Under way in `NobodyForgotten` means queued, with the
email service or sent; what failed in the SMTP dialogue is excepted, because the code nacks it for good.
`OnlyInvited` follows a message back from the mailbox over queue and wire to the row
(`InvitedInOrder`). `FewRepeats` bounds a product, and `RepeatsProofs` counts either factor
where it is made. The queue is given a copy for each request that is not on the wire any
more, or for each delivery of an event whose message to this subscriber has been
published (`Copies`); a copy is sent once (`Sendable`), and a failure of the email
service makes at most as many sendings possible again as there are copies
(`CopiesInOrder`). That an event is not published twice for one delivery needs that there
is one answer on the wire to each event, and none without a channel (`AnswersInOrder`).
`MailingImplemented` shows that the two services keep the promise of `Mailing`. Most steps (a
query, a crash, a redelivery, the rendering) are stutters; the work is in the others. An event is closed by
the broker's reading of an answer, which comes behind the messages to everybody due, so that their emails are
promised by then. A handler whose answer is refused leaves its emails promised, and its event open or refused.
Beside `Invariant` this needs `MailingInOrder`: who was due to an event that is dropped for
want of a queue (nobody), that what is being sent is still with the service, and that a message on the wire is
for somebody who had confirmed.

*Dashboard.* While no request was sent beside another, at most one is in flight, the
spinner is shown exactly as long as it is, and the email above the list is the one it was
sent for: with that, the properties of the views are kept by every response.
`TransportsAgree` is a statement about operators: it holds for every table and every set
of names, without regard to the state.

Only model-checked: `PastedUrlsWork`, which is about the concatenation and the
filtering of sequences, and everything with fairness (`EveryRequestEnds`,
`ReleasesAreSeen`, `RecordsAreProcessed`, `CommittedArrives`, `EverybodyHears`,
`ButtonComesBack`), which is out of the prover's reach.

## Not modelled

- The patterns for emails and tokens: the models begin behind them.
- The wiring of Express, CORS, static files, metrics, logging and configuration; the
  markup of the page and of the emails: nothing the models tell apart depends on them.
- The generated protobuf code: the models keep the two calls it carries.
- The topology of the saga's queues at a first start: what `repository.register` and the
  replies lose before their queues exist is a lost reply in `SubscriptionService`, which
  the timer answers (`EveryRequestEnds`) for good (`TimeoutIsFinal`).
- Schema migrations, containers, the load generator in `scratch/`, the browser tests.

## Plan

1. `DoubleOptIn`, `SubscriptionService`, its proofs. Done.
2. `RepoManager`, its proofs. Done.
3. `OutboxRelay`, its proofs. Done.
4. `Notifier`, its proofs. Done.
5. `Tracking`, its proofs. Done.
6. `TagLookup`, `Dashboard`, their proofs. Done.
7. `AtLeastOnce`, `ReleaseFeed`, `Mailing`: what the other services promise, and the
   proofs that they keep it. Done.
8. The topology of the saga's queues at a first start.
9. The compensated subscription that leaves its repository tracked, as a run of its own
   against the self-healing of `README.md:18`.
10. The scanner and the fan-out composed: `ReleaseFeed` announcing what `Mailing` delivers,
    from GitHub to the mailbox.
