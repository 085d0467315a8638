# Verification of the service-conversion chatbot

TLA+ models of the two deployments of the chatbot, checked with TLC, and proofs
that what TLC checks of them on small instances holds for every value of their
constants, checked with TLAPS. Paths such as `app/main.py` are relative to
the repository's root, `src/`.

## The system

The repository holds two programs that share a purpose and no code.

**FastAPI deployment** (`app/`, `compose.yaml`): an API process and worker
processes, PostgreSQL, Redis, a volume for uploaded files. Without `REDIS_URL`
and `DATABASE_URL` the API runs everything in memory, with one embedded worker.

**Cloudflare deployment** (`cloudflare/`): one Worker that serves the webhook,
the panel and the queue consumer; D1 for identities and settings, one Durable
Object with its own SQLite per company, Queues, Vectorize.

### Inventory

| Component | State it keeps | Operations | Interacts with | What is hard | What makes it correct |
|---|---|---|---|---|---|
| Webhook (`main.py` 487-521) | deduplication keys | mark, publish, answer | bus | dies between mark and publish | an accepted message was published |
| Durable bus (`event_bus.py`, `worker.py`) | stream, group, pending list, dead letters | publish, claim, read, process, requeue, bury, acknowledge | webhook, message processing | crashes at every step, claims from live workers, trimming | at-least-once, nothing lost but to `maxlen`, full retry budget |
| In-memory bus (`event_bus.py` 48-73) | queue, join count | publish, consume | webhook, processing | failure of the only attempt, shutdown | order, exact count |
| Message processing (`pipeline.py`, `services.py`, `repositories.py`) | customers, conversations, messages, opt-outs | opt-out check, two transactions, send | bus, choice of the reply | concurrent transactions, executions repeated | one customer and conversation, recorded replies, final opt-out |
| Choice of the reply (`tenant_ai.py`, `openai_adapter.py`, `adapters.py`, `strategies.py`) | none; reads keys and services | classify, guard, compose | model provider, settings | provider failures, unreadable keys, empty catalogue | never acts when unsure, own services only |
| Knowledge library (`main.py` 303-418, `knowledge.py`) | rows, files | upload, add text, remove, download | panel | no transaction spans row and file | a row has its file |
| Settings (`main.py` 262-300) | profile, AI configuration | save | choice of the reply | two transactions, changed columns only | a save is stored, keys are not lost |
| Sessions (`main.py` 108-217) | session rows | login, lookup, purge, logout | every panel request | time read before use | only live sessions authorise |
| Cloudflare queue (`index.ts` 180-225, 515-540) | queue, recorded messages | enqueue, deliver, record, ack, retry | Durable Object | redelivery, killed invocations, partial batches | recorded once |
| Cloudflare knowledge (`knowledge.ts`, `index.ts` 226-422, `tenant-workspace.ts`) | rows with fragments, vectors, audit | upload, remove | Vectorize, Durable Object | partial, late and unanswered calls | what is listed is searchable |
| Integrations (`integrations.ts`) | one row per company | save, test | providers | read-modify-write, stale verdicts | verdict and credentials belong to the settings |
| Owner setup (`auth.ts` 56-92, `index.ts` 102-178) | users, companies, settings, memberships | set up, upsert company | D1, Durable Object | check-then-insert, answer lost | shown keys work, owners have a company |
| Cloudflare sessions (`auth.ts` 94-175, `index.ts` 128-154, 554-558) | session rows | login, lookup, logout, purge | every panel request | milliseconds against whole seconds | as for the panel |
| Cloudflare settings (`index.ts` 283-345) | one row per company | save | owner setup, D1 | several statements, defaults of a later setup | what was saved stays |
| Knowledge of a company (`repositories.py` 138-157, `strategies.py` 41-51) | none; reads sources | load, answer | knowledge library, choice of the reply | a budget over titles that repeat | the newest that fits, nothing cut needlessly |
| Seed (`seed.py`, `compose.yaml:61`) | companies, administrator, memberships, services | seed, serve | panel, schema | overlapping starts, crashes between transactions | whoever serves has a seeded database |
| Isolation of companies (`database.py`, `repositories.py`, migrations 01 and 03) | `app.tenant_id` of each connection | bind, query, insert, delete, close | every repository | pooled connections, roles that bypass policies | no company touches another's rows |
| Composition root, pages, cryptography | none at run time | | | | |

`PROJECT.json` lists the same components with their status, and under
`hazards` what can go wrong in each, at its line.

## The modules

| Module | Models | State and actions |
|---|---|---|
| `EventDelivery` | what a durable bus promises | queued, done, dead and evicted messages; `Publish`, `Complete`, `Bury`, `Forget`, `Evict` |
| `RedisStreamBus` | webhook, Redis stream, workers | the stream and the dead-letter stream are append-only sequences, each with a mark for what was trimmed; pending, idle and acknowledged entries are sets of positions; a worker's program counter follows `consume_forever`, `_recover_pending`, `_process_entry` and `_handle_failure`, one action per Redis call |
| `MessageProcessing` | `ProcessIncomingMessage.execute` | committed rows are counted per phone and message; a worker's point is the next SQL statement; open transactions are flags, and the unique keys make an insert wait or fail as PostgreSQL does at READ COMMITTED |
| `DurableProcessing` | the two together | a worker at an entry goes through the statements of its execution; `execute` returns where the execution does, raises where it fails, and a process that dies takes both along |
| `ReplySelection` | agent, classifier, guardrail, strategies | the text is the keyword groups and service names in it; one execution, a key saved at any time, any answer of the model |
| `InMemoryBus` | memory mode | the asyncio queue, the join counter and the embedded worker's point |
| `KnowledgeFiles` | knowledge library | per upload and per request the await it is at; rows and files are sets |
| `AdminSettings` | `update_admin_settings` | profile and configuration rows; each save's three transactions, a write as the columns that differ from the loaded ones |
| `SessionStore` | what a store of sessions promises | sessions that fade and end, requests and the answers they get; `Fade`, `Ask`, `Authorise`, `Refuse`, `Leave` |
| `PanelSessions` | login, `authenticated_user`, logout | a clock, the session rows, the time each request read |
| `CompanyKnowledge` | the load of a company's knowledge, `FaqResponseStrategy` | the sources as a sequence of titles and lengths; the loop as a recursive function, checked and proved against a definition without a loop |
| `DatabaseSeed` | the start of an API container | the committed rows, the statement each start is at, what its open transaction has inserted; edits by the panel |
| `TenantIsolation` | `tenant_session`, policies, repositories | rows with their company, and each pooled connection's setting, request and transaction |
| `CloudflareQueue` | webhook, queue, `handleQueue`, `processMessage` | the queue as an append-only sequence; decisions of an invocation apply after it; the marks and the rows of a company are sets, as their primary keys make them |
| `VectorKnowledge` | `addKnowledge`, `removeKnowledge` | the row of a source and the set of its vectors, every call carried out in part, late or unanswered |
| `Integrations` | `saveIntegrations`, `testIntegration` | the row, the verdicts, and what each request has read |
| `OwnerSetup` | `setupOwner`, `createTenant`, `tenantSettings` | the four tables of D1, one batch per setup, a save's statements one by one |
| `CloudflareSessions` | `login`, `authenticate`, `logout`, the scheduled purge | one clock, of which several ticks are one second to D1 (no skew between the two), the session rows |
| `Service` | the FastAPI service beside the path of a message | one instance each of `KnowledgeFiles`, `AdminSettings`, `PanelSessions`, `ReplySelection`, `CompanyKnowledge`, `DatabaseSeed` and `TenantIsolation` |
| `Cloud` | the panel of the Cloudflare deployment | one instance each of `VectorKnowledge`, `Integrations`, `OwnerSetup` and `CloudflareSessions` |

`MC*` modules add the symmetry sets, the constants that a `.cfg` cannot write
and bounds. The parts that `Service` and `Cloud` put together have variables of
their own and share no row, file or vector, so an interleaving of two parts says
no more than each alone, and a behaviour is one of the part it chooses at the
start; within a part everything is interleaved.
Where parts do meet, what one leaves to the other is an input there: the
sources that `CompanyKnowledge` reads come and go at any time, as
`KnowledgeFiles` lets them, and `ReplySelection` meets any key that
`AdminSettings` can store. A module `XProofs` holds the theorems about `X`, but
for `PanelProofs` and `ServiceProofs`, which share those about `Service`: the
library, the settings and the sessions of the panel in the first, the rest in
the second.

Modules meet as follows.
* `RedisStreamBus` and `CloudflareQueue` implement `EventDelivery`, by
  `INSTANCE ... WITH` and a mapping of the stream (the queue) to what is queued,
  done, dead and evicted. A stream entry that was trimmed is queued no longer
  unless a worker still holds it, and a trimmed dead letter is no longer dead;
  the queue of Cloudflare evicts nothing.
* `MessageProcessing` alone takes from a bus only what `EventDelivery` promises,
  that a received message may be executed again at any time, so it holds over
  either bus; its step `ComposeReply` is the whole of `ReplySelection`, whose
  failures are its `Fail`.
* `DurableProcessing` composes `RedisStreamBus` with `MessageProcessing`: what
  the processing has received is what the stream holds, an execution begins at
  the bus's point `entry`, and each of its ends is a step of both. Its
  properties relate the two sides: attempts to executions, acknowledgements to
  recorded replies, database conflicts to dead letters.
* `PanelSessions` and `CloudflareSessions` implement `SessionStore`. In the
  panel a session fades and ends at once; in the Worker it may be refused from
  the whole second that its last moment is in, and ends at that moment.

Operators with a comment "Mutant:" are plausible errors of the definition next
to them. They are used by no behaviour; each property of a passing run is
violated when one of them takes the definition's place.

## The runs

| Run | Instance | Shows |
|---|---|---|
| `bus_safety` | 2 messages, 2 workers, batches of 2, 1 retry, a stream of 2 and a dead-letter stream of 1, 1 crash, a key that expires once | the durable bus implements `EventDelivery`: only what `maxlen` newer entries push out is lost; an unacknowledged entry is reachable or pushed out, a dead letter had every attempt, an entry is shared only through a claim, and a second completion needs a claim or an expiry; `SafetyInv`, the invariant of the proofs |
| `bus_recovery` | 2 messages, 2 workers, batches of 2, pages of 1, 1 crash | a worker that starts claims every entry that is idle by then, on whichever page, unless it dies too |
| `bus_abandoned` | 1 message, 1 crash | violation, finding 2 |
| `bus_accepted` | 1 message | violation, finding 1 |
| `proc_safety` | 3 messages of one phone (one is STOP), 2 workers, 2 executions each | one customer and conversation, one inbound row, recorded replies, final opt-outs, the invariants of the proofs; no execution waits for ever on another transaction's insert |
| `proc_twice` | 2 messages | violation, finding 3 |
| `chatbot` | 2 messages of a new customer, 2 workers, or 1 message and a crash; 1 retry, a stream of 2 and a dead-letter stream of 1 | every published message is honoured, dead, still to be executed, or pushed out by `maxlen` newer entries; attempts count executions; the race for the customer's row alone kills nobody |
| `chatbot_live` | 2 messages of a new customer, 2 workers, or 1 message and a crash; 1 retry | every published message is honoured or dead, unless the worker that had it died and nobody claimed it; waits for another worker's transaction, duplicate keys and retries end |
| `memory` | 3 messages, 2 phones, 5 calls | order, opt-out, what a failure loses, exact join count; the queue drains |
| `queue` | a payload of two messages, or one message sent twice; 2 invocations, batches of 2, 1 retry | a message is stored exactly when its mark is, acknowledged means stored, 200 means queued, `EventDelivery`; every queued message is stored or dead |
| `service`: files | 2 uploads, 3 requests | a row has its file, and orphans belong to requests at work or cut off |
| settings | 3 saves of any forms | an undisturbed save is stored whole; keys and hints go wrong only by overlap |
| sessions | 2 logins, 2 requests, 4 ticks, sessions of 2 | `SessionStore` is implemented |
| replies | any text, two services (one with a capital letter), confidences 71 and 72 | guardrail, own services, requests for a person, and which executions get no reply |
| knowledge | up to 4 sources of lengths 1 and 3 under 3 titles, one of them the company's own; 3 read, room for 4 | the load is exactly what the definition without a loop says, and a question is answered from it |
| seed | 2 companies, 2 starts (repeated and stopped at will), 2 emails or none | who serves has a seeded database; who is refused has a cause; edits survive |
| tenants | 2 companies, 2 connections, 2 rows, a role that bypasses the policies or not | a request touches its own company's rows alone |
| `cloud`: knowledge | 2 sources of 2 fragments, 2 removals | rows and vectors agree but for failed clean-ups; audits are true |
| integrations | 3 saves, 1 test | credentials are lost only by overlap, and verdicts belong to what is stored |
| owners | 3 setups, 2 emails, 2 companies, 1 upsert, 2 saves of settings | shown keys work, owners have their company, saved settings stay |
| sessions | 2 logins, 2 requests, 6 ticks of which 2 are a second, sessions of 3 | `SessionStore` is implemented |

### Bounds

Bounds that are no part of the code are named constants: `MaxCrashes`,
`MaxExpiries` (bus), `MaxRuns` (executions of a message), `MaxCalls` (webhook
calls in memory mode), `MaxTime` (clock) and `MaxSources` (sources of a
company). `MaxRuns` is 12 in the `chatbot` runs and never reached there: the
retries and claims of the instance allow fewer.

What TLC can explore in minutes does not combine everything with everything. The
MC modules say what each run leaves out, by a `CONSTRAINT` for safety and in the
specification itself for liveness:
* `bus_safety` (`InScope`): a behaviour has two messages, or one whose key
  expires; beside a crash or an expiry the stream gets at most three entries, one
  more than its `maxlen`, so that trimming of unread and pending entries meets
  crashes, claims and second publications. Without either, two messages that
  fail overrun the dead-letter stream too;
* `chatbot` (`InScope`): each message is requested once and its request does not
  fail; two messages meet without a crash, and one message meets a crash; at most
  one message has executions that fail other than by a duplicate key; the stream
  gets four entries, which is both messages retried, or three beside a crash;
* `chatbot_live` (`InLiveScope`): each message is requested once, the second when
  the first is published, and no request fails. Executions fail (other than by a
  duplicate key) of the second message, or of the first while it is alone, and a
  crash meets one message. The bound is on the steps without fairness only: the
  webhook's, failures and crashes.

The sizes the code fixes (batches of 10, claims of 20, streams of 10,000, three
retries) are constants with small values, chosen so that they are met: a batch
of 2 leaves an entry to a worker that is interrupted, a claim of 1 makes
recovery go over several pages, a stream of 2 trims unread and pending entries,
a dead-letter stream of 1 trims the first of two dead letters, one retry takes
an entry through requeueing and the dead-letter queue. Two workers are enough
for claims from a live worker and for transactions that wait on one another,
since every hazard listed relates two executions; integrations and settings have
three saves, because an older value has to be there for a third save to revive
it; a time of three is not a whole number of seconds of two, so that a session
of the Worker ends within a second. Four sources over a window of three and a
room of four reach each case of the load: a text cut, one left out, a title that
repeats within and beyond what fits. The proofs then remove the bounds for the
safety properties.

`ScanLimit` stands for the ten times `count` pending entries that one
XAUTOCLAIM of Redis 7 examines (`redis:7.4-alpine`, `compose.yaml:19`).
`_recover_pending` stops at a page without claimable entries (line 159), even
if the cursor says there is more; `bus_recovery` keeps the pending list
within one scan, where that is right. Beyond it an idle entry may wait for the
next start, which is among the hazards.

Deadlock is checked in the `bus_*` runs, whose workers never stop. The other
configurations turn it off: they describe a given set of requests, messages or
executions, and a behaviour ends when all of them are over.

### Fairness

* `RedisStreamBus`: weak fairness of each worker, which runs in a container
  with `restart: unless-stopped` (`compose.yaml:86`), and of time passing for
  pending entries. That Redis and PostgreSQL answer is an assumption: their
  clients are built without timeouts, so that a server which accepts a call and
  never answers would stop a worker for good. Nothing forces a crash, a
  webhook call, an expiry, or the success of an execution.
* `MessageProcessing`: weak fairness of each execution; the model's calls
  end (15 s), and statements do by the same assumption. Failures are possible,
  never forced.
* `DurableProcessing`: weak fairness of each worker's steps that are no failure
  and no death, and of time passing, for the same reasons.
* `InMemoryBus`: weak fairness of the embedded worker.
* `CloudflareQueue`: weak fairness of each invocation, which finishes or is
  killed, and of the queue moving an exhausted entry to the dead-letter queue.

No property relies on a success being fair: the liveness properties hold also
if every execution fails, in which case the message is dead-lettered.

## The proofs

Every safety property that a passing run checks is a theorem, and so are the
refinements of `EventDelivery` and of `SessionStore`. Each is about the very
definition that the run checks.

The theorems hold for any messages, workers, requests, companies and crashes.
They assume of the constants only what the modules that declare them state as
ASSUME, which TLC evaluates on the instances:
* `RedisStreamBus`, `InMemoryBus`, `CloudflareQueue`: sizes are positive,
  `MaxRetries` is a natural number, and so are the bounds; payloads are
  sequences of messages;
* `MessageProcessing`, and `DurableProcessing` as `ProcessingAssumption`: every
  message has a phone, commands are messages, the workers are finitely many;
* `Service` and `Cloud`, as `ServiceAssumption` and `CloudAssumption`: the
  `ConstantsOK` of each part. A value that stands for nothing (no key, no
  source, no session, nobody) is no member of the set it is used beside; times,
  lengths and confidences are numbers; and the seed has at least one company, as
  the list in `seed.py:13` has.

**`RedisStreamBusProofs`.** `SafetyInv` is inductive: the type invariant and
* `UnsettledIsUnacked`: a published message was completed or buried, or an entry
  of it has not been acknowledged. It speaks of what happened, whatever trimming
  took since;
* `KeepsMaxLen`: a stream that was trimmed has had at least its `maxlen` of
  entries after the last one removed;
* `NoSilentLoss` follows from the two: a published message was completed, is on
  the dead-letter stream *now*, has an entry that will still be executed (in the
  stream or in a worker's hands), or had an entry or a dead letter pushed out by
  `maxlen` newer ones;
* `OutcomeBeforeAck`: a worker about to acknowledge has already completed,
  requeued or buried its entry, which is why a crash there is harmless,
* `UnackedIsReachable`: an entry that was not acknowledged is in the stream, unread
  or pending, unless `maxlen` newer entries were added,
* `DlqAfterAllAttempts` with `RetryChain`: a requeued entry with attempt *n+1*
  has a predecessor with attempt *n* that failed, so a dead letter's chain goes
  down to attempt 0,
* `SharedOnlyByClaim` with `BatchesWereDelivered`: what a worker has to do was
  delivered to it, so that two workers hold an entry only if one claimed it,
* `OneChanceInv`: of a message whose entries nobody claimed and whose key has not
  expired, at most one entry can still be completed, and none once it was.

`UnsettledIsUnacked` alone is not inductive, because `Ack` must know what the
worker did before; that is what `OutcomeBeforeAck` adds. Theorems:
`TypeCorrect`, `UnackedStaysReachable`, `NothingLost`,
`DeadLettersHadAllAttempts`, `SharingNeedsAClaim`, `SecondCompletionNeedsAClaim`,
`BusInvariant` (all of `SafetyInv`), and `BusImplementsDelivery`, that every step
of the bus is one of `EventDelivery` or a stutter. For the last, every entry and
dead letter that a step of trimming removes is shown to be an eviction, of a
stream that was given more than its `maxlen`.

**`MessageProcessingProofs`.** `CustomerInv` strengthens `OneOpenConversation`
with what open transactions know: one that has inserted a customer is the only
one and inserts the conversation too; one that has found a committed customer
finds its conversation. `OptOutInv` strengthens `OptOutIsFinal`: an execution
past its opt-out check of a message received after the opt-out was stored does
not exist. `RecordedInv` strengthens `InboundOnce` and `RepliesAreRecorded`:
the replies sent to a message and the executions about to send one are together
no more than the committed replies, which is why each has a row of its own; an
execution past `record_incoming` has its message recorded. Theorems:
`TypeCorrect`, `OneConversationPerCustomer`, `StoredOptOutIsFinal`,
`InboundRowIsUnique`, `SentIsRecorded`, and `ProcessingInvariant` for the four
together.

**`CloudflareQueueProofs`.** `QueueInv` adds to what it is about that an entry
an invocation has acknowledged, though the queue does not know it yet, is
recorded (`AcksAreRecorded`), that a message has its mark exactly when it has
its row, which one transaction writes (`MarkedIsRecorded`), and that what a
request has handed over is in the queue (`SentIsQueued`). Theorems:
`TypeCorrect`, `QueueInvariant`, `AcceptedAreQueued`, and
`QueueImplementsDelivery`, the refinement of `EventDelivery`.

**`InMemoryBusProofs`.** `MemoryInv` is inductive. Order is the difficult part:
`CallsInOrder` says that what was taken and what is queued are the calls, in
their order, and `RepliesInOrder` that the replies are of messages whose first
call came before the one in the worker's hands, and before any command of their
sender. Theorems: `MemoryInvariant`, `RepliesKeepOrder`, `StopIsObeyed`,
`OnlyFailureLoses`.

**`DurableProcessingProofs`.** Every step of the composition is a step of the bus
or leaves it alone (`ServesTheBus`), and a step of the processing or leaves that
alone (`ServesTheProcessing`), so that the invariants of the two modules above
hold of it without another proof; `RedisStreamBusProofs` is extended, and
`MessageProcessingProofs` instantiated with the composition's variables. What
relates the two sides has invariants of its own:
* `ExecutionsHaveEntries`: while a worker executes, the bus stands at the entry
  whose message it executes, and past the opt-out handler that is no command;
* `CompletedIsHonoured`: a message the bus counts as completed is recorded and
  answered, or its sender is opted out. With the bus's `NoSilentLoss` this gives
  `NothingIsDropped`, for `NoMessageIsDropped`, evictions and all;
* `AttemptsWereRun`: an entry with attempt *n* comes after *n* executions, one
  more if it has begun; and `RunsAreAttempts`: a *regular* message (nobody
  claimed an entry of it and its key has not expired) has no more executions
  than attempts. The second rests on `OneChanceInv` of the bus: one entry waits,
  and one worker holds it. Together they give `AttemptsAreCounted`;
* `RacesAreWon`: an execution of a regular message that has failed through a
  duplicate key alone failed in its first attempt, because the customer it had
  not found was inserted by another; the second finds that customer, which never
  goes away, and nobody else inserts its message. `RacesKillNobody` follows
  if `MaxRetries > 0`. It is 3 (`compose.yaml:72`); with
  `MAX_EVENT_RETRIES=0`, which `config.py:51` allows, the first lost race would
  take a message to the dead-letter stream.

**`PanelProofs`, `ServiceProofs`, `CloudProofs`.** A behaviour of `Service` or
`Cloud` is one of each of its parts (`PartsRun`), since a step of one part is a
stutter of the others; so each invariant is proved of its part alone.
* Library (`RowsAndFilesAgree`). `WorkIsOnOld`: whatever a request works on is of
  an upload that is over, so that a row which a removal deleted never comes back
  after its file is gone.
* Settings (`SettingsAreSaved`). `LatestIsStored`: what the latest save has done
  by each of its steps if it overlaps no other; `KeyIsGiven`: the key a save will
  write is its own or, while no saves have overlapped, the last one given;
  `HintsMatch`: until saves have overlapped and two of their keys end alike,
  every hint stored, loaded or about to be written is that of the key beside it.
  Key and hint go together because a save writes the columns that differ, and
  distinct keys have distinct hints.
* Sessions of the panel (`PanelImplementsSessionStore`). `RowsAreOpen`: the row
  of an open session is there until it has expired or was deleted, since a purge
  compares with a time that has passed, and what a logout deleted never comes
  back.
* Reply (`ReplyIsDecided`, `ModelCannotSilence`). `ReplyIsOfIntent`: a strategy
  composes only from a result that went through the guardrail or the rules
  (`Decided`), and the reply is that of its intent. That the rules find an intent
  for any text, a person's first, is `RulesDecide`.
* Knowledge (`KnowledgeIsLoaded`). The invariant of the loop is `KnownAfter`:
  after n turns the rest of the budget is what the n newest sources leave of it,
  every title is known by the oldest of its sources so far that there was room
  for, or else by the company's own entry, and the order has the own entries
  first, then the titles by their newest source. Induction over the turns is
  `LoopInduction`, a lemma about sets of numbers, and that the recursive functions
  are defined is `LoopExists`; both rest on `<` being well-founded on the naturals.
* Seed (`SeedIsSafe`). The first transactions of two starts are told apart by
  what they have flushed (`FirstIsKnown`): no two have inserted one company,
  and one of them at most inserts the account. `ServicesAreKnown`: who is past
  its first transaction finds all companies, memberships and its own account,
  and the services of every company before the one it is at. `RefusedForGood`
  is stronger than `RefusedForCause`: the administrator of another email stays.
* Isolation (`CompaniesApart`). `SettingIsOfRequest`: a connection's setting is
  the company of the request that has bound it, and none in the pool and before
  that, whoever had it last.
* Vectors (`RowsAndVectorsAgree`). `UploadsAreBehind`: a row comes after all its
  vectors, and a late upsert has no row; `RemovalsAreAlone`: the removal that
  deleted a row is the only one at work on its source, and nobody writes a vector
  of it any more.
* Integrations (`CredentialsAndVerdictsAgree`). `WritersAreUnique`: a row bears
  the name of the save that wrote it and no two rows bear one name, so that a
  save that finds its row unchanged has kept the right credential;
  `TestsAreOfTheRow`: a test that no write has crossed has read the row as it is.
* Owners (`OwnersKeepTheirs`). `SetupsAreKnown`: the account of an email is of a
  setup of that email past its form, a setup whose batch was answered has the
  account of its email, and a save past its statement is of a company that was
  saved.
* Sessions of the Worker (`CloudImplementsSessionStore`). `LoginsAreOpen`, as for
  the panel, over a clock read at two granularities: what has ended in
  milliseconds has faded in whole seconds (`EndedFades`), and whole seconds never
  run backwards (`SecondsGrow`).
* `ServiceTyped` and `CloudTyped` are the types of all parts.

**Model-checked only.**
* Liveness (`PublishedIsHonoured`, `RecoveryReclaims`, `ExecutionsEnd`,
  `QueueDrains`, `QueuedIsSettled`): fairness and ENABLED are out of the prover's
  reach.
* The findings, which are counterexamples.

## Findings

1. `bus_accepted`: `whatsapp_webhook` marks a message as seen
   (`app/main.py:500`) before it publishes it. If the request dies or XADD
   raises in between, the provider's retry is answered 202 as a duplicate, and
   nothing was published nor will be: in the trace the first request has failed,
   and requests still between mark and publish are exempt. README.md:168 says
   202 is answered after publishing.
2. `bus_abandoned`: pending entries are claimed only while a worker starts
   (`event_bus.py:113`). An entry that becomes idle after the others started is
   never reclaimed, although README.md:172 says another worker does so after
   the idle time.
3. `proc_twice`: the Redis pipeline has no `DeduplicationHandler`
   (`bootstrap.py:157`) and `record_incoming` does not stop at a duplicate row,
   so an event delivered again is answered again; `tests/test_chatbot.py:26`
   shows the opposite, in memory mode.

More behaviours that a reader should know of, each the exception of a property
that holds:
* `maxlen` counts entries, not readers: an entry that was never read, one that a
  dead worker left pending, and a dead letter are removed alike once 10,000 newer
  ones were added (`event_bus.py:102`, 198 and 214). `NoSilentLoss` and
  `NoMessageIsDropped` name this loss (`Evicted`) and exclude any other; no
  document of the repository says that it cannot happen, so it is no finding;
* with two workers a message received after STOP can be answered, because the
  workers may take the two in either order (`pipeline.py:47`). `OptOutIsFinal`
  holds: once the opt-out is *stored*, nothing received later is answered. In
  memory mode, where one worker takes them in order, `StopBlocksLaterMessages`
  holds, as `tests/test_chatbot.py:36` expects;
* an owner's account can exist although its key was never shown: the batch is
  committed before a call that may throw (`index.ts:120`, `ShowThrows`), and
  then the email is taken. `OwnersAgree` is about keys that were shown;
* a company's unreadable key makes each of its messages fail instead of falling
  back to the rules, and so does a client of the model that cannot be closed,
  whatever it answered (`RepliesWhateverTheModel`, `CloseThrows`);
* a save of the settings answered 503 has already changed the profile
  (`SavedIsStored` is about answered saves only), and one of the Worker may be
  answered 401 or 500 although it is stored (`index.ts:345`, `SaveFails`);
* an execution that a crash cuts short counts no attempt
  (`AttemptsAreExecutions` has `>` where one would look for `=`), so that a
  message whose processing kills the process is claimed again at every start;
* of two sources with one title a company is loaded with the older, at the
  newer one's place and without the room the newer one took
  (`repositories.py:156`, `LoadIsExact`);
* the administrator's email and password are those of the first start for good:
  a later start with the same email leaves the password, and one with another
  email is refused, since the row's id is taken (`seed.py:62`,
  `RefusedForCause`);
* of two API containers that start on an empty database, one may be refused and
  has to be started again (`restart` does), since the seed selects before it
  inserts;
* `list_active` sets no company, so that under a role the policies hold for it
  sees no services (`TenantsApart`, its second part).

## Not modelled

* The composition root, configuration and logging: they build the objects of
  one mode before anything runs; which handlers they install is what separates
  `MessageProcessing` from `InMemoryBus`.
* Tables, columns and indexes as such. Unique keys and policies are in the
  modules that depend on them; the migrations run once, before the seed.
* Pages, cryptography and header checks: presentation, or functions of one
  request. Passwords, roles, CSRF and signatures are inputs: each action starts
  where the checks have passed.
* Wording of prompts and replies, the fake calendar and payment gateways, the
  cutting of a text into slices of 4,000 characters (`knowledge.ts:11`).
* Skew between the clock of the Worker, which writes an expiry (`auth.ts:112`),
  and that of D1, which compares it (`auth.ts:130`).

## Plan

The modules of the first plan are written, and every safety property the runs
check is proved. What is left:

1. to state over `Service` and `Cloud` the action properties that are
   implicit in the invariants (a seeded company never loses its services, an
   audited source never comes back), where TLC finds them worth a run;
2. to prove of `DurableProcessing` that it refines `EventDelivery` end to end,
   with *honoured* for *done*, which `NothingIsDropped` is the safety half of.
