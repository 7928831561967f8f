# TLA+ specifications of codebase-be-nestjs

This directory specifies the parts of the NestJS backend that are hard to get right
and hard to test: login sessions in Redis with their permissions, the way of a request
from boot to answer, the AMQP consumer with its credits, retries and dead-lettering, the
connections, queues and bindings under it, the Redis commands all of them share, cached
profiles, paging, and the streaming of query results. TLC checks the modules on small
instances; TLAPS proves their safety properties for every instance. `PROJECT.json`
maps each definition to the lines it models.

    tlc -workers 2 -config AuthSessionExpiry.cfg MCAuthSession.tla
    tlc -workers 2 -config AmqpRouting.cfg AmqpRouting.tla
    tlapm AuthSessionProofs.tla

## 1. The system

| Component | State | Operations | Interacts with |
|---|---|---|---|
| Login and token issue (`core/auth`, `module/auth`) | TOKEN records in Redis | `authenticate`, `createToken`, `clearSession`, `logout` | session store |
| Session store (`core/session`, `core/auth-gateway/auth-session.service.ts`) | SESSION records in Redis | `addSession`, `getSessionValue`, `addPermissions`, `addFlowSession`, `addFlowPermissions` | Redis, one command at a time |
| JWT guard (`core/auth-gateway/auth.guard.ts`) | `request.user`, `request.session` (a snapshot) | `canActivate` | reads TOKEN, then SESSION |
| Permission interceptor (`core/permission`) | none; endpoint metadata | checks before, grants after the handler | snapshot of the guard, session store, response interceptor |
| Response interceptor (`core/interceptor`) | none | turns results and errors into status and `systemCode` | inside the permission interceptor |
| Sign-contract flow (`module/sign-contract`) | one flow entry in the SESSION record | `requestOtp`, `checkOtp`, `checkSelfie` | session store, interceptor |
| Environment and bootstrap (`core/environment`, `main.ts`, `app.module.ts`) | `ENVIRONMENT` of three constructions | convert, validate, write the template, serve | every module's configuration |
| AMQP consumer (`core/amqp/amqp.service.ts`, `example.ts`, `module/rabbitmq-test`) | receiver, credits, deliveries in a `concatMap`, timers | `receiveMessage`, `accept`, `addCredit`, `release`, `reject` | RabbitMQ through rhea, delivery counter |
| Delivery counter (`amqp-cache.service.ts`) | `dlvr-count-<message id>` in Redis | `increaseDeliveryCount`, `isValidDeliveryCount` | Redis |
| AMQP sender (`AmqpService.sendMessage`, `enqueue`, `reply`) | one link per message | open, quota check, send, wait for `accepted` | RabbitMQ, management |
| AMQP routing (`example.ts`, `assertAMQPAddress`, `assertTemporaryQueue`) | exchange, queues, bindings in the broker | names, declarations, addresses | listeners and senders, by name only |
| AMQP management (`amqp-management.service.ts`) | one connection and channel | connect, reconnect loop, declare queues | RabbitMQ |
| Redis base service (`core/redis`, `core/cache`) | strings, hashes, sets, lifetimes | `set`, `setNX`, `setEX`, `hIncrBy`, `incr`, ... | one ioredis connection per service |
| Profile and query cache (`module/user`) | rows; cached results for 20 s | `getProfile`, `updateProfile`, `removeUser` | PostgreSQL, TypeORM's cache in Redis |
| Paging (`shared/dto/paging.dto.ts`, `getUserList`) | none | page, count, `totalPages` | PostgreSQL |
| Query streams (`module/stream`) | query runner, a paused or flowing stream | `handleDataStream` | database |
| Logging (`core/logger`, `db-log`) | rows on their way to the log database | `debug`, `logQuery`, `insertLog` | every request, unawaited |
| HTTP client, URL DTOs, crypto, dynamic modules | none | | |

What is hard here: HTTP requests of one client overlap at every `await`, and all of
them rewrite one Redis record by read-modify-write; the deletion of old sessions is
not awaited; records expire under requests; the process may die between two Redis
commands. On the AMQP side links are lost while deliveries are still being handled,
dispositions are lost with them, credits must be given back on every path, a
counter in Redis decides when a message is given up, and listeners and senders agree on
queues only because each builds the same names. ioredis sends unanswered commands again
after a reconnect, gives some up after a long outage, and lets a caller's wait time out while
the command is still executed. A cached profile is stored after it was read, while others write.
`PROJECT.json` lists each such hazard at its line with the property that covers it, or why
none does.

## 2. Modules

| Module | What it is |
|---|---|
| `AuthSession` | login, logout, guard, interceptor, flow, as concurrent requests over Redis |
| `SessionLifecycle` | the promise of `AuthSession`: an id is opened once, closed once, taken into use only while open |
| `MCAuthSession` | symmetry, ordered initial states and the restricted specification for TLC |
| `Environment` | the settings: constructions, conversion, validation, `main.ts` |
| `RequestPipeline` | `Environment` composed with the way of requests through throttler, guard, interceptors, pipes and handler, and their log rows |
| `AmqpConsumer` | receiver, credits, deliveries, retries, delivery counter, crashes |
| `BoundedRetry` | the promise of `AmqpConsumer`: at-least-once handling, a bounded number of tries |
| `MCAmqpConsumer` | symmetry for TLC, behaviours in which first deliveries come in order |
| `AmqpManagement` | the management connection: channel, close handlers, reconnect loop |
| `AmqpLinks` | `AmqpManagement` composed with the AMQP 1.0 connection, the receiver of a temporary queue and senders |
| `AmqpRouting` | exchange, queues and bindings that listeners declare, addresses that senders make, losses of all of them |
| `MCAmqpRouting` | a bound for TLC on the classes that listen at a time |
| `RedisService` | Redis commands of several services: order, resends, commands given up, timeouts, lifetimes, crashes |
| `UserProfile` | `getProfile` through the query cache against `updateProfile` and `removeUser` |
| `UserList` | a client that walks the pages of `getUserList` while users are removed |
| `StreamBackpressure` | a query's rows, the stream that emits them, the calls that handle them |
| `AuthSessionProofs`, `RequestPipelineProofs`, `AmqpConsumerProofs`, `AmqpLinksProofs`, `AmqpRoutingProofs`, `RedisServiceProofs`, `StreamBackpressureProofs` | the theorems of the module they are named after |
| `UserProofs` | the theorems of `UserProfile` and `UserList` |

Definitions introduced by a comment `Mutant:` are not part of the model. Each is a
wrong version of the definition it precedes, named after it; put in its place, it makes
TLC find the property it is listed with in `PROJECT.json` violated.

### AuthSession

One step is one Redis command together with the code that runs from its reply to the
next command, because nothing in between yields. `pc` says which command a request
sends next; the stage names follow the operations (`login_keys` is the `KEYS` of
`createToken`, `flow_get` and `flow_set` the two halves of `addFlowSession`,
`grant_get` and `grant_set` those of `addPermissions` and `addFlowPermissions`).

* `token[i]` and `session[i]` are the two Redis records under id `i`. The id drawn by
  `uuid.v4` is the login request itself, so ids are never reused.
* Each record carries the instant at which Redis drops it; a SESSION record also has the
  `exp` of its JSON value. `addSession` spreads the old value over the new `exp`
  (`session.service.ts:26-28`), so a rewrite keeps it and recomputes the ttl from it.
* A step is the instant at which Redis executes a command. What the code computes from the
  clock it computes before it sends: `asked[r]` is when the command before was executed, and
  `Sent(r)` are the instants from then to now at which the one under way may have been sent.
  `Ttl(s, sent)` is of such an instant (`auth-session.service.ts:42`, 58 and 127), so a
  `SETEX` that waited, in ioredis' queue or for a reconnect, prolongs its record by its wait.
* `LoginRevoke` sends the `DEL`s of the TOKEN records, which reach Redis before the later
  `SETEX` of the same connection; the `DEL`s of the SESSION records (`cleanup`) follow
  whenever, as `clearSession` is not awaited.
* `GuardAdmit` is the guard's second read, the permission checks on that snapshot and a
  handler without Redis commands, which all run without another await on Redis.
* `GrantThrows`: a grant runs inside `new Promise(async ...)`, so what it throws settles
  nothing. Its request is `Hung`; the rejection is unhandled, nothing listens to
  `unhandledRejection`, and Node (20, in `docker/Dockerfile`) exits: `ProcessExit`.
* `RedisFails`: any awaited command may be answered with an error or run into the
  `commandTimeout` (`base-redis.service.ts:21`), and may have been executed all the same
  (`ExecutedUnheard`). In a grant that is one more throw inside the executor, and the process
  exits with a session that lives; anywhere else the request is answered with the error.
* `Crash` ends the process at any other time: requests are `Lost` and un-awaited work
  dies, the records stay. A `DEL` of the un-awaited `clearSession` that fails is such a crash.
* `revoked`, `late`, `prior`, `handled`, `failed` and `round` are history variables for the
  properties; no action's guard reads them.

Assumptions: Redis executes the commands of one connection in order and does not lose
records; a command whose call has timed out is executed by then or never, and one that is
sent again after a reconnect is executed once (`RedisService` is about those that are executed
twice); the seconds between the GET and the SETEX of a rewrite are counted in the
`Tick`s that happen between the two; JWTs are not forged; the two halves of a login do not
straddle the bound of the clock.

### AmqpConsumer

`place` is where the broker has each message, `Deliveries` are the pairs (message, n) of
its n-th delivery. `credit` is what the broker may still push on the current receiver,
`buffer` the queue in front of `concatMap`, `stage` what each delivery is doing. A
disposition (`sent`) takes effect at the broker in `Settle`, and never if the link
is lost first (`Owned` then fails).

`createReceiver` opens and credits a receiver only when there is none or the last one
`is_closed()` (`amqp.service.ts:329`), and it looks when a connection opens and at
`receiverClose`. So a link ends in two ways. `Reconnect` is a lost connection that comes
back: a receiver that is open is attached again by rhea, `createReceiver` does nothing, and
as `credit_window` is 0 nobody gives the new link the credits the old one had (`forfeited`);
a closed one is replaced, with fresh credits. `Detach` is a link that the broker ends:
whether `is_closed()` is true already at `receiverClose` depends on rhea, so the receiver is
replaced or stays `closed` until the next connection. `receiver` numbers the links, `opened`
is the link with which the current receiver began. Deliveries of an old link stay in the
process and finish there. The loss of a connection and its return are one step: what a
handler does during the outage is covered by its doing so before the loss or after the
return. `Crash` loses the process, `Listen` starts it again. `Eager` chooses between the two
modes of the subscribers, `Identified` whether producers set `message_id`.

Assumptions: rhea attaches open links again and keeps no credits for them, ignores
`add_credit` on a closed link, and tells of an attach (`receiverOpen`) before a detach; it
ignores a second disposition of a delivery; `INCR` reaches Redis before a later `GET` of the
process, both being sent on one connection; one process consumes the queue; no message
pauses for the 12 hours after which its counter expires; a receiver is not closed between
its attach and its `receiverOpen`; the queue is durable, the default of `AbstractMessaging`
(a temporary one is deleted with its last consumer, and what it held with it). When `INCR`
fails, its rejection is unhandled and the process exits: that is a `Crash`, which the model
lets happen at any time after.

What the code does there and no property asks for: `start()` adds `concurrentLimit` credits
to those `createReceiver` gave, twice what the log line at `amqp.service.ts:355` announces;
a `release` after an eager accept backs nothing off, as the message is already gone; and a
`reply` that fails after its message was accepted gives two credits back. So `NoCreditLeak`
bounds credits from below only. After a lost connection the consumer may have fewer credits
than configured, or none, for as long as the receiver is not closed: the comment at line
338, "Replace receiver once close by any reason", is about a receiver that is closed.
`NoCreditLeak` counts what the connection took apart from what the code gives back, and
`EventuallySettled` excuses a consumer that nobody credits (`Starved`). `BoundedRetry`
counts on an `INCR` that is executed once; a resend, which `RedisService` models, may
execute it twice, and then a message is given up one try early.

### AmqpManagement and AmqpLinks

The AMQP service has two connections to one broker. `AmqpManagement` is the amqplib
connection that declares queues: `stage[l]` follows the call of `connect()` that repairs
the loss of connection `l` (0 is `onModuleInit`'s), through `Dial`, the wait for its
channel and the delay of the loop. `connection`, `channel` and `watched` are
`this.connection`, the connection `this.channel` was made on, and the connections with
handlers. `Attach` reads `this.connection` after the await, as the code does. A loss
before `Attach` is heard by nobody: an error event then ends the process, a close event
alone makes `createChannel` reject, unless it arrives in the very read that carries the
channel's open-ok (`ChannelOpensAndCloses`): then the service keeps a dead channel
for ever, which `missed` records.

`AmqpLinks` EXTENDS it with the AMQP 1.0 connection (`link`), `receiveMessage` for a
temporary queue (`subscriber`, `receiver`, `asserting`, `queue`) and calls of
`sendMessage` (`send`, `via`, `sender`). At `connectionOpen` the first listener
declares the queue over the management channel and the second attaches the receiver,
without waiting for the first. When that channel is closed, `assertQueue` throws in an
async listener, the rejection is unhandled and the process exits: the service survives
a broker restart only if the management connection is back first.
`ExitsOnlyWithoutChannel` says that nothing else on this side ends the process. A rejected
`assertQueue` ends it in the same turn of the event loop, so `ProcessExits` comes before
any other step.

The receiver goes the same ways as in `AmqpConsumer`: `LinkLost` leaves an open one to rhea,
which attaches it again (`attaching`), and a closed one closed until `LinkOpens` replaces it.
An attach that comes before the queue is declared again is refused (`AttachRefused`), and
the deletion of the queue detaches the receiver (`QueueDeleted`): in both cases `ReceiverCloses`
has it replaced at `receiverClose`, or left closed if `is_closed()` was not true yet. Nobody
looks at it then before the next connection (`Abandoned`), which `ReceiverReturns` states.

Assumptions: rhea reconnects by itself and attaches open links again, and an unsettled
delivery of the old connection never hears `accepted`; the broker removes the consumer of
a lost connection before the next one opens; declarations are not refused and the target
of a sender exists (`AmqpRouting` is about both); whether the first credits arrive in the read
of the attach, which is what `sendable()` depends on, is open. `closeSession` of `enqueue`
is TRUE only when there is no session, so it closes nothing.

### StreamBackpressure

One step is one callback from the event loop with all it calls. `Open` is
`queryRunner.stream` and the handlers attached after it; `DataEvent`, `EndEvent` and
`ErrorEvent` are those handlers, `HandleResolves` and `HandleRejects` the `then` and
`catch` of `handleData`, `Finally` what follows the inner promise. The stream itself
(`Fetch`, `Flow`, `FlowEnds`) is Node's object-mode readable over a cursor: it asks for
`BatchSize` rows while it holds fewer, and an answer with fewer rows than asked for is
the last.

Reading the last row of an ended stream schedules the `end` event for the next tick,
which comes before any promise callback and does not look at `pause()`. So
`handleDataStream` may succeed while the last row is being handled, and a failure of that
row is lost, depending only on whether the number of rows is a multiple of the batch;
`ResolvedAfterRows` and `FailureReported` say exactly that. Both hold with no stronger
wording; the only caller, `StreamTestService`, passes a handler that resolves at once.

### Environment and RequestPipeline

`Construct` is one `new` of the environment service; there are three, in the order of the
imports. One setting stands for all those declared in its form: `PORT` for a number that
must be there, `REDIS_SSL_ENABLED` for a boolean, and so on. `plainToClass` and
`validateSync` are modelled by what they make of a missing, empty, wordy or numeric
variable; `@IsNotEmpty` on a number accepts the empty variable, which was converted to 0
before. Outside production a construction starts a write of `env-template.sh` that nobody
awaits, and a failure of it ends the process; what the overlapping writes leave in the file
is not modelled.

`RequestPipeline` EXTENDS it with requests. `stage[r]` follows the order of the providers in
`app.module.ts`: throttler, guard, permission interceptor, response interceptor, pipes,
handler, and back. What the guard and the grant do in Redis command by command is in
`AuthSession`; here each is a step, and one session stands for the client's. A grant may fail
with the session live, when Redis fails it, and then ends the process too. Whatever the
guard throws is a 401; what the pipes throw passes through the response interceptor as a
400 with `PLEASE_THROW_SYSTEM_CODE`, as its message is no system code. `inserting` are the
log rows that requests have left behind.

### AmqpRouting

`stage[c]` is how far class `c` has come in `listen`: exchange, queue, binding, then the
receiver (`attach`), before which a class that is not durable asserts its temporary queue.
Names are tuples of the parts that the code joins, so that two names are equal when the
code's strings are. `Reaches` is what the broker makes of an address: the bindings of an
exchange, or a queue. A message that reaches nothing is `unheard`: `sendMessage` waits for an
`accepted` that never comes. `receiver[c]` is what became of the class's receiver: `new` until
`start()` credits it, `open`, `dry` once rhea has attached it again without credits, or `closed`
by a refused attach (`AttachRefused`) with nobody to replace it before the next connection. What
is stored for a `dry` receiver may be read, with credits of deliveries still under way, and
need not be. `Lose` deletes what goes with a receiver or with the broker,
`Refused` ends the process, because the channel's error event has no listener.

Two things follow from the code that no text of the repository speaks of, so that
`ListenerReached` leaves them out: `enqueue` without an `options.address` goes to an address
named `undefined`, and a class with a ROUTING that is not durable declares its queue again
after the loss of the broker, but not its binding. Its two declarations also contradict
each other (`assertAMQPAddress` and `assertTemporaryQueue` ask for other options), so that its
second one is refused: `RefusedOnlyRoutedTemporary` says that nothing else is.

### RedisService

Each service has a namespace and a connection; a connection is the queue of its commands
that have no reply yet. `Execute` is Redis, `Receive` the reply, `TimeOut` ioredis'
`commandTimeout`, which rejects the call and leaves the command where it is. After
`Lose` the commands in the queue are sent once more, executed or not; a `MULTI` is aborted.
`maxRetriesPerRequest` is not set (`base-redis.service.ts:17-37`), so at the 21st attempt to
reconnect ioredis gives up what still has no reply and rejects its calls. Which commands that
concerns depends on how long the outage lasts and what was called in it: any number of the last
ones, none in a short outage. Some of them may have been executed. A rejected `EXPIRE` is
handled by nobody and ends the process, which is a `Crash`.
A hash is seen through one field and a set through one member. `increaseDeliveryCount` sends
its `EXPIRE` after the reply to `INCR`, unawaited.
`Kept` selects commands from a queue by their position, which keeps their order by
definition and can be reasoned about; `RawAssumption` says that no namespace makes a name of
those that `incr` uses, which adds none.

### UserProfile and UserList

A step of `UserProfile` ends where the code awaits the database or Redis: `CacheGet`,
`Select`, `Store` for a read, `Write`, `Commit` for a transaction, with the row lock that
PostgreSQL holds in between. No writer touches the cache. `age` is a history variable: how
long ago each value was the user's profile. A commit may be done and its answer lost
(`WriteFails`).

`UserList` is `findAndCount` as TypeORM runs it, the page first and the count after, each with
its own snapshot, for a client that asks for page after page up to `totalPages`. `@IsNumber`
lets fractions through, so sizes are counted in parts of 1/`Unit`; the promises are about
whole sizes, but every walk ends.

## 3. Runs

| Run | Instance | What it shows |
|---|---|---|
| `auth_expiry` | 4 requests, all 7 endpoints, one or two logins, lifetime 1, one crash or failed command, fairness | revoked ids are refused; later logins win; no interleaving of lost updates lets `checkSelfie` through without its OTP; a late rewrite prolongs a record by no more than its own wait; `SessionLifecycle` is implemented; a resurrected SESSION record is in the end gone |
| `auth_sequential` | 5 requests, one at a time, up to two of them logins, lifetime 2, one crash or failed command | OTP_VERIFIED belongs to the current contract; grants survive flow rewrites; a grant takes the process down only when its session ended under it or Redis failed it; the waits of several late rewrites do not add up |
| `pipeline` | 2 requests to any endpoint, limit 1, every value of three settings, fairness | a process serves only with its settings; grants follow exactly the handlers that returned; boot settles and requests are answered; logging never feeds itself |
| `amqp_credit` | eager acceptance, 3 messages, one unparsable, Redis fails, limit 2, 2 links | no credit leaks but what a lost link took along; at most one attempt per link |
| `amqp_live` | acceptance after `onMessage`, 2 messages, 5 deliveries each, 2 links, fairness | `BoundedRetry` is implemented; no message is in two handlers of one link; every message is settled, stranded or waits for a receiver without credits |
| `amqp_links` | 3 management connections, 2 losses of the AMQP 1.0 connection, one deletion of the queue, one durable and one temporary send, fairness | one reconnect loop, no connection left behind, handlers always attached; only a missing channel ends the process; lost channels are replaced, a receiver returns unless the code has given it up, sends settle |
| `routing` | two partitions (one not durable), a fanout, a temporary queue, one message, one loss, fairness | nothing stored astray; listeners are reached; only one kind of class is refused; durable queues are read in the end, unless the receiver was attached again without credits |
| `redis` | 2 services, one key, 3 calls, one loss or crash, fairness | one `setNX` wins; no counted increment is lost; writes that were not given up stay in order; a delivery counter gets its lifetime |
| `user_profile` | 2 clients, a known and an unknown id, lifetime 2, one update, fairness | staleness is bounded; counts are true; calls are answered |
| `user_list` | 5 users, sizes 1, 1.4, 1.5, 2 and 3, fairness | nobody is listed twice and no more are missed than were removed (`PagesFaithful`); walks end |
| `stream` | results of 0 to 5 rows in batches of 2, fairness | one row at a time; a call ends with all rows passed on or its failure reported (`OutcomeTrue`); the connection comes back |
| `amqp_shared_counter` (violated) | 2 messages without id | retries of one message dead-letter another |

Bounds. Sessions: a revocation race needs a login, a revoker, a late request and one more
that resurrects the record; `checkSelfie` depends on `requestOtp` and `checkOtp`, which with
the login makes four. A lifetime of one tick lets a record expire before, between and after
any two commands; the lifetime of 2 in `auth_sequential` lets two late rewrites, whose waits
must not add up, fall before the first deadline. The clock runs on until the last session
has expired, and a login is not begun after `MaxTime`. One fault is a crash or a failed
command, executed or not, at any command. `auth_expiry` checks liveness, which admits no
symmetry set: its requests are numbers, and its initial states (`OrderedInit` of
`MCAuthSession`) give them their kinds in one order. Requests differ in nothing but their
kind, so every other initial state is one of these with the requests renumbered, and no
property names a request. The five requests of `auth_sequential` are a login, a flow with
its two contracts and one disturbance.

AMQP: with `MaxRedeliverCount` 1 a message is tried three times and given up at the fourth
delivery; 5 deliveries leave one for a lost link. Two links are one loss, of the process,
the connection or the receiver; the message that nobody can parse is in `amqp_credit`, as it
can only end rejected. In `amqp_live` the messages are numbers whose first deliveries come
in order (`FirstInOrder` of `MCAmqpConsumer`): any other behaviour is one of these with the
messages renumbered. Three management connections are one loss before and one after the
first repair, either of which may fall into the making of the next; two losses of the other
connection make one fall on each side of those. For routing, one message is enough for where
it may go, as messages do not meet; two topics are two partitions that could be mistaken for
each other, and one loss separates what survives from what does not. At most two of the
three classes of the exchange listen at a time (`FewListeners` of `MCAmqpRouting`), any
two of them, and every class for the senders: the properties relate the class a
message is for to one other.

The rest: one request alone and one that overlaps it, with a limit of 1, is one request
beyond the limit; the settings varied are one that is optional text, one number and the
mode, and the others do not interact. Three Redis calls on one key are a write, one that
overtakes it and a third to see the result, of which one is resent. Two clients are a
reader and a writer, or two writers; with a lifetime of 2 an entry can be stored late
and outlive a write. Five users in pages of up to three give walks of two to five pages.
Five rows in batches of 2 give empty results, short and full last batches and more than one
full batch. Deadlock is checked in `user_list`, where a new walk can always begin, and in no
other run: a run ends when the requests, deliveries or losses of the instance are used up.

What the runs leave to the proofs. The type invariants, `SendersClosed`, `StopsAtFailure`,
`RemovalFinal`, `AnswerTellsOutcome` and `ThrottleFailsClosed` are theorems for every
instance (section 4), and no run repeats them.

Sequential clients. `OtpVerifiedForCurrentContract`, `GrantsRetained` and
`HungOnlyForCause` are stated for a client that waits for each answer
(`Sequential = TRUE`). With overlapping requests the read-modify-writes of the
store lose grants, and a `checkOtp` may grant onto the contract that replaced the one it
was admitted for; the code has no lock or version that would prevent it. For a client that
waits they are theorems, for any number of its requests and whatever expires or crashes
between them.

Fairness. `AuthSession!Fairness`: Redis answers, so every request under way advances; an
un-awaited `clearSession` goes on; time passes. Clients need not call, and a crash need
not happen. `AmqpConsumer!Fairness`: the broker delivers and settles while it can, the
process is restarted, timers fire and `onMessage` settles its promise; receivers need
not be lost and handlers need not fail. `AmqpLinks!Fairness`: promises settle, timers
fire, and a broker that is dialled again and again answers in the end (strong
fairness of `Dial`). `AmqpRouting!Fairness`: the broker answers declarations and delivers to
a receiver with credits; a class with a ROUTING need not call `listen`, and nothing starts an
ended process again. `RedisService!Fairness`: Redis executes and replies.
`RequestPipeline!Fairness`: callbacks run and what they wait for answers or fails, but the
log database may never answer; `LogDrains` assumes that it does and says so in its formula.
`UserProfile!Fairness`: database and Redis answer, time passes, and PostgreSQL grants a
row in the order of asking (strong fairness of `Write`). `UserList`: the two queries answer.
`StreamBackpressure!Fairness`: the database answers, a flowing stream emits and `handleData`
settles; a `handleData` that never settles keeps the call and its connection for ever.

## 4. Proofs

`AuthSessionProofs` proves, for any sets of requests and users and any bounds, from the
named assumptions on the constants in `AuthSession`:

* `TypeCorrect`: `Spec => []TypeOK`. It needs `Located`, which ties stages to
  endpoints: a request has an id and a read buffer exactly in the stages that use them.
* `RevocationHolds`: `Spec => []NoAdmissionAfterRevocation`.
* `LaterLoginWins`: `Spec => []LaterLoginRevokesEarlier`.
* `LifecycleImplemented`: `Spec => ImplementsLifecycle`.
* `ExpiryStays`: `Spec => ExpiryPinned`.
* `SelfieAfterOtp`: `Spec => []SelfieNeedsVerifiedOtp`.

The argument for revocation: only the login that draws an id writes its TOKEN record, once,
before anyone can know the id. `Issued` says that whoever refers to an id refers to one
already issued, so after `Deleted`, no write of that record is left. `Replaced` follows
a login through its stages: after `KEYS` every live token of an earlier login is
in `existing`, after the `DEL`s none is live. `NoAdmissionAfterRevocation` is not
inductive without `Deleted`, nor `LaterLoginRevokesEarlier` without `Replaced`, nor any of
them without `Issued`. The refinement maps the TOKEN record and the JWT's issue to the
status of an id, and the stages past the guard's first read to its use.

The argument for the rewrites is `Rewrites`: `Owned` (records exist only under ids of
logins), `Pinned` (the deadline of a record is no earlier than its `exp`, and all that is
held of one id, in Redis and in the buffers of requests between GET and SETEX, has the same
`exp`) and `Proven` (a flow permission in a record or a buffer was earned by the handlers it
stands for). Lost updates only ever lose permissions, so `Proven` survives them. The ttl is
of an instant between the GET and the SETEX, so the new deadline lies behind `exp` by no
more than the time between the two; it does not depend on the deadline that the record had
before.

With `Sequential` it proves, for any number of requests, `OtpOfThisContract`
(`OtpVerifiedForCurrentContract`), `GrantsStay` (`GrantsRetained`), `GrantThrowsOnlyForCause`
(`HungOnlyForCause`) and `NoLostUpdate`: what a request is about to rewrite is the
record it has read, or a record that is gone. `Sequential` only says when a request may begin;
that nothing else comes between the GET and the SETEX of a rewrite has to be shown, with
crashes, expiry and the un-awaited clean-up of other logins going on. `Waiting` is the
invariant: of the requests with one id at most one is under way (`Sole`), so the record is as
it was read, or gone (`Undisturbed`); what an answered request was granted is in the record
and in what was read of it (`Retained`); OTP_VERIFIED in a flow was earned in the round of its
contract, by a handler that has returned (`Rounds`, `HandledLate`). A grant throws when Redis
fails it, or when its flow or its record is missing or has expired. `Listed` excludes the flow,
and a record goes only with the revocation of its id (`Erased`) or after its JWT has expired
(`Outlives`).

`RequestPipelineProofs` proves, for any requests, any limit and any set of varied
settings: `TypeCorrect`, `SettingsServed` (`ServesConfigured`), `GrantsFollowSuccess`
(`GrantIffSuccess`), `AnswersTell` (`AnswerTellsOutcome`) and `ThrottleCloses`
(`ThrottleFailsClosed`). Its invariant adds `SettingsOK`, what each construction has left is
what the environment converts to and is valid, and `RequestOK`, which ties stage, outcome,
answer and grant of a request together.

`AmqpConsumerProofs` proves, for any messages, limits and bounds:

* `TypeCorrect`: `Spec => []TypeOK`.
* `SingleHandling`: `Spec => []NoDoubleHandling`, in both modes of acceptance.
* `EagerOnce`: with `Eager`, `Spec => []EagerOncePerLink`.
* `CreditsKept`: `Spec => []NoCreditLeak`.
* `RetryImplemented`: `Spec => ImplementsBoundedRetry`, under `Reliable`.

The first two safety properties follow from `Separated`: two deliveries of one message that
are queued, counted, handled or (eagerly) accepted came in on different links. It is
inductive together with `Current`, the broker does not offer a message while its delivery on
the current link is engaged. That in turn needs `Promised` (the only disposition sent for
an engaged delivery is an accept), `Numbered` (a new delivery has left no trace) and `Queued`
(what leaves the `concatMap` was waiting in it, once). `WorkEffect` reduces the ten actions of
callback and subscriber to four moves of one delivery.

For `CreditsKept`, `NoCreditLeak` is inductive as soon as the deliveries that owe a credit can
be counted (`Solvent`), given what each action does to the debt: `WorkCredit` says of each of
the ten actions of callback and subscriber that it either gives a credit and takes at most its
own delivery out of the debt (`Repays`), or gives none and takes nothing out (`Defers`). A
`Reconnect` moves the credits it takes to `forfeited`; deliveries of the links of one receiver
(`opened` and later) still owe theirs to it.

`RetryImplemented` needs `Reliable`: producers set message ids, acceptance comes after
`onMessage`, Redis does not fail. The counter in Redis equals the number of attempts
(`Tallied`); that a first delivery, which is not checked against the counter, finds none made
is the reason for `InOrder`: the `concatMap` handles the deliveries of a message in the order
they came, also when the link was lost in between. `Fates` says that a disposition
under way is true of its message. Without message ids the theorem does not hold: that is
`amqp_shared_counter`.

`AmqpLinksProofs` proves, for any number of connections, losses and sends, `TypeCorrect`,
`OneLoop`, `NoOrphans`, `AlwaysAttended` and with them `ManagementKept` (`ManagementInOrder`),
`ExitCause` and `SendersAreClosed`. That at most one call of `connect()` is under way needs
`Making`: a call that dials or waits has no open connection, and one that waits for its
channel does so on a connection without handlers, so its loss starts no second loop. `Latest`
makes the open connection the one in use. For `ExitCause`, `Asserting` says that a declaration
under way is on that connection.

`AmqpRoutingProofs` proves, for any classes, messages and losses, `TypeCorrect`, `NoStrays`,
`OnlyTwiceDeclaredRefused` (`RefusedOnlyRoutedTemporary`) and `ListenersReached`
(`ListenerReached`). First come the names: no two classes share a queue (`OwnName`), and what
`sendMessage` declares under a whole address is no class's (`SenderName`). The invariant
says that each queue is a class's with the options of that class, or such a leftover
(`QueuesOK`), that each binding is a class's own (`BindingsOK`), and which queue and binding
each stage of `listen` relies on (`StageOK`). Losses keep it because durable queues are
never deleted (`DurableStays`). What becomes of the receivers has an invariant of its own
(`ReceiverOK`). It rests on `NamesAssumption`: no class is called `undefined`,
`*` or `#`, the names that the code or the broker reads otherwise.

`RedisServiceProofs` proves, for any services, keys, calls, losses and crashes, from the
assumptions on the constants in `RedisService`:

* `TypeCorrect`: `Spec => []TypeOK`; queues that are built anew after a loss stay sequences of
  commands.
* `SetNXOnce`: `Spec => []OneGrant`. `Exclusive` counts the replies under way as well: a value
  has one claim at most, told or still to be told; it is there as long as the value is the
  present one, so that the next `setNX` finds it; and nothing claims a value to come.
* `IncrementsCounted`: `Spec => []AckedCounted`. `Counted` adds to what was told what is
  `Due`, the increments of the present value that were executed and whose reply is under way;
  it needs that no number waits twice (`Numbered`) and that no reply is of a value to come
  (`Dated`).
* `LastWriteKept`: `Spec => []LastWriteWins`. `Overtaken` is the property with a queue that is
  not yet empty: behind every command on a name waits the last write of the name, and once all
  of them are executed the name holds what that wrote. It needs that a queue has its executed
  commands in front (`InTurn`), which a resend keeps by `KeptOrder` (a selection from a
  sequence keeps its order), and what is given up are the last commands, so that nothing on
  their names stays behind them; and that other connections have other names (`Homed`).

`Steps` splits each step into what it does to one queue and one entry (`Step`), so that
these invariants are shown per kind of effect and not per command.

`UserProofs` proves, for any clients, users, lifetimes and updates, `TypeCorrect`,
`StalenessBounded` (`BoundedStaleness`), `CountTruthful` (`TruthfulCount`) and `RemovalHolds`
(`RemovalFinal`). `BufOK` bounds the age of what a reader has in hand by the time since its
SELECT, `AgeNow` makes what the row shows new, and `LockOK` lets only the transaction that
locked a row write it; `FreeAssumption` says that the mark of a free row is no client.

It also proves, for any users, sizes of pages and removals, `WalkFaithful`
(`PagesFaithful`). `Edge` is the place up to which the walk has read. Removals only move users
up, so who was read stays before the edge and is not read again (`ReadBefore`, `ReadOnce`); each
removal moves at most one unread user over the edge, as no two have one place
(`MissedFew`, by `PlacesDiffer` and `PlaceStep`); and `totalPages` ends a walk only behind the
last user (`EndsBehind`, by `AllPages`). `NotRounded` and `WholeSizes` show that
the rounding of LIMIT and OFFSET does not touch whole pages.

`StreamBackpressureProofs` proves `TypeCorrect` and the safety properties of
`StreamBackpressure` for any number of rows and any batch: `SingleRow`, `SuccessComplete` and
`FailuresReported`, which make `OutcomesTrue`, and `FailureStops`. The inductive invariant
adds `Paused` (the row in `handleData` is the one emitted last and keeps an open stream
paused), `Accounted` (a row emitted is handled, failed or in `handleData`) and `Torn` (the
first failure destroys the stream).

Only model-checked is what TLAPS does not reach: every property that needs fairness,
`RevokedSessionGoneInTheEnd`, `EventuallySettled`, `ReleasedInTheEnd`, `Reconnects`,
`ReceiverReturns`, `SendSettles`, `ReceivedInTheEnd`, `CounterExpires`, `Answered`,
`WalkEnds`, `Settles` and `LogDrains`. `DeadLetteredOnlyAfterAttempts` is no theorem, as
`amqp_shared_counter` shows.

## 5. Not modelled

* Code that nothing reaches: `renewToken`, `authenticateWithHardSecret`, `clearFlowSession`,
  `checkSession`, `JWTNormalGuard`, `getReadStreamData`, `FetchService.call` and `upload`,
  `UseExample`, `flush` of the caches, `RedisCacheService`, `sqlFind`, `sqlInsert`, `sqlUpsert`
  and `sqlCount`; `incr` is in `RedisService` because it differs from its siblings.
* The `onModuleDestroy` handlers, as `main.ts` neither enables shutdown hooks nor closes the
  application.
* What has no behaviour over time: `crypto.service.ts` (a hash of a string), the dynamic
  modules (dependency injection), `base.dto.ts` (the interpolation of one URL), entities
  and decorators, the wording of logs and answers.
* JWT signatures and the rules of class-validator on request bodies: a request passes the
  pipes or it does not.
* The content of `env-template.sh` when two constructions write it at the same time.
* More than one process of the service: sessions and caches would be shared, which
  `RedisService` and `AuthSession` allow for, but queues would have several consumers.
