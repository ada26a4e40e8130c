# A TLA+ model of the SITA security-reporting platform

This directory specifies, model-checks and proves properties of the Python
services under `src/backend/app`: the pipeline that ingests security findings,
turns them into alerts and sends the alerts out; the accounts, sessions and HR
feeds of the API process; and the signed evidence it issues. Paths below are
relative to that directory unless they start with `src/` or `docs/`.

## 1. The system

Four long-running services and an API process share a Redis server and a
PostgreSQL database.

```
 vendors --> ingestion --XADD--> sita:ingestion:raw --XREADGROUP--> processing (3 containers x 4 consumers)
             (breaker, retry)                                         |  findings + alerts, one transaction --> PostgreSQL
                                                                      |  throttle (sorted sets in Redis)
                                                                      v
             analytics (SQL rules, risk) --XADD--> sita:processing:alerts --XREADGROUP--> dispatch (1 container x 2 consumers)
                                                                                             |  email / Teams / PagerDuty
                                                                                             v  dispatch_log, last_dispatched_at
 every service --XADD--> sita:dlq

 browsers, HR systems --> API (FastAPI): logins and tokens, accounts, HR feeds --> identity.* tables
 auditors <-- signed exports, packets --  certs/ of each container (signing key), audit.action_audit
```

### Inventory

| component | state | operations | what is hard | what makes it correct |
|---|---|---|---|---|
| ingestion (`ingestion/`, `connectors/`) | one circuit breaker and token bucket per connector, in memory; `connector_health` row | `poll_connector` every interval: breaker, retries, publish, health row, error path | partial publication, an error path that fails, time, calls in flight while the breaker changes state, paging that neither returns nor raises | backs off, opens only on a streak, always recovers; success means every record fetched was published and counted; the health row tells the truth |
| bus (`bus/`) | the streams, the group's cursor and pending list (in Redis) | publish, publish_batch, read, acknowledge, nack | lost answers, trimming, restarts; nothing re-reads pending entries | each entry is handed out once, in order, and settled once |
| processing (`entrypoints/processing.py`, `processing/normaliser.py`, `processing/alert_engine.py`) | per consumer: its batch, raised alerts | read, dead-letter, normalise, evaluate, lake transaction, publish alerts, acknowledge | twelve consumers, a batch acknowledged as a whole, commit with unknown outcome, crashes between any two steps | no acknowledged record is unaccounted for; alerts sent have rows and rows get sent; no double processing |
| throttle (`processing/alert_dedup.py`) | a sorted set per rule, source, target, severity | trim, count, add | three round trips by many evaluators at once | bounded overshoot; no suppression without cause |
| analytics (`entrypoints/analytics.py`, `processing/risk_*.py`) | none of its own | aggregate SQL rules: query, throttle, store, publish; risk scores | throttle charged before the alerts are safe; death between storing and publishing; two deployments at once | what is paged has a row; a quiet rule has a cause |
| lake (`lake/writer.py`) | findings, alerts, dispatch log, connector health, risk scores, snapshots | upserts | conflicts, out-of-order batches | version counts writes |
| dispatch (`entrypoints/dispatch.py`, `dispatch/`) | per consumer: entries of its batch, outcomes | route, send concurrently, log, stamp, acknowledge, nack | partial sends, swallowed database errors, failing acknowledgements | nobody is paged twice; the history is truthful and complete or absent |
| tenancy (`tenant.py`, `api/auth.py`, `ai/scope.py`) | none: claims in a token and a static tree | scope_covers, tenant_filter, can_manage, check_tenancy_access, report scope | several readers of one notion of scope must agree | covered scopes show less; delegation composes |
| identity and sessions (`api/routers/auth.py`, `security.py`) | `identity.users`; claims in tokens nobody can revoke | log in, demonstration login, switch tenant, start-up seeds | authority that outlives its account, chains of switches, restarts | a session shows no more than its account; stale authority expires |
| administration (`api/routers/admin.py`, `employment.py`) | `identity.users`, `persons`, `employment_identifier` | create, update, delete accounts; HR feed; import from external HR | check and commit apart, in a request and over a whole feed; one record aborting a batch; the same number met in any order | no privilege from nothing; leavers lose the accounts that nobody else was writing; identifiers never move |
| exports, audit and keys (`api/routers/exports_ag.py`, `monitoring/access_audit.py`, `processing/intel/packet.py`, `security_pki.py`) | environment keys, key files and a cached key per container; `audit.action_audit` | resolve, generate, sign, record, verify | crash between two file writes, redeployment with other keys over kept files, several containers, state left by a refused call | started with one pair, the key id names the signer; evidence stays verifiable; nothing leaves without a record |
| alert API (`api/routers/alerts.py`) | alert status fields | acknowledge, resolve | concurrent requests, an audit call that is never awaited | promises nothing of their order |
| AI (`ai/`, `ai/aimi/`) | a breaker per process | generate, verify, enrich | threads sharing the breaker | the breaker limits calls |
| intelligence (`processing/intel/`), frameworks, OWASP, PII, egress, read-only API, frontend, seed scripts | none or static | pure functions, queries, I/O | data only | score ranges |

Components interact through the two streams (messages), the database
(committed rows read by others), the sorted sets of the throttle (shared state),
tokens (authority frozen at issue) and, inside a process, through coroutines
that interleave at each `await`. `PROJECT.json` lists every component with its
status and every hazard at its line with the properties that cover it.

## 2. The plan

Built, in this order:

1. `Processing`, with `ConsumerGroup` as the abstract specification it
   implements: the heart of the pipeline.
2. `Dispatch`, a second implementation of `ConsumerGroup`.
3. `CircuitBreaker` (operators) and `Polling` (the scheduler that uses it).
4. `AlertThrottle`, and `Analytics`, which composes it with the aggregate rules
   job, its transaction and its publication.
5. `TenantScope` (operators), `Personnel` (operators on identifiers and the HR
   feed), and `Accounts`, which composes both with sessions and administration.
6. `SigningKeys` (operators on a container's keys) and `Evidence`, which composes
   them with exports, access records, packets and verification.

Left, in order of what they would add:

1. `Pipeline`: polling, processing and dispatch composed over the two streams,
   to state what holds from a vendor's finding to the pager.
2. `AlertLifecycle`: acknowledge, resolve and the dispatch stamp on one row, once
   the code or a document says what order is right.
3. `AimiGateway`: the second breaker, shared by threads, beside `CircuitBreaker`.
4. `RiskScore`: the score's arithmetic against a reference definition.

No module uses a RECURSIVE operator, so that all of them can be proved about.
Every safety property the runs check is also proved. Of the liveness properties
the part is proved that does not need fairness; section 5 says which that is.

## 3. The modules

**ConsumerGroup** is what a Redis Streams consumer group promises this code:
each entry is unpublished, queued, trimmed, held, acked or stranded. Entries are
handed out oldest first and once; `stranded` and `trimmed` are final because
nothing in the code calls XCLAIM, XAUTOCLAIM or XREADGROUP with an id other than
`>`.

**Processing** is `entrypoints/processing.py`. A record is what the
pipeline tells apart: its finding, whether it parses, whether a rule matches. A
consumer's `pc` names the await it is at:

| `pc` | code | actions |
|---|---|---|
| `idle` | `run` 115-124 | `Read` |
| `parse` | `process_batch` 42-82 | `DeadLetterUnparsed`, `Evaluate` |
| `write` | 84-86 | `Commit`, `CommitFails` |
| `deadletter` | 87-94 | `DeadLetterEntry` |
| `publish` | 96-97, `run` 131-136 | `PublishAlert`, `Ack` |
| `down` | 137-145 | `Crash`, `Restart` |

An alert is named by the entry whose record raised it. A record that matches
several rules raises one alert per rule in the code; those alerts go through the
same steps together, so one stands for them. The throttle appears as a
nondeterministic choice of the alerts it lets pass. `CommitFails` covers both
outcomes of a failing write, because the connection can break after the server
committed. `Crash` takes all consumers of a container, since `gather` re-raises
the first exception and `asyncio.run` cancels the rest.

**Dispatch** is `entrypoints/dispatch.py` on `bus/consumer.py`. `queue[c]` is
what is left of a consumer's batch, `outcome[c]` the channels that answered.
Only SMTP is ever configured (`dispatch/worker.py` 25-27 pass no URL and no
key), so only mail can arrive; a mail session may break after the message was
accepted, which the adapter reports as failed. `delivered` and `tries` are the
outside world's view and exist for the properties only.

**CircuitBreaker** is `ingestion/circuit_breaker.py` as operators on a value,
**Polling** the life of one connector: `poll_connector` from the breaker's
answer through retries and publication to the health row, and its error path.
A connector fetches in one of two ways. Most ask for everything in one go
(`AttemptSucceeds`, `AttemptFails`). AppScan (`connectors/appscan.py` 161-232)
authenticates, which may raise, and then pages (`StartPaging`, `PageArrives`,
`LastPage`); whatever goes wrong with a page comes back as an empty page with more
to come (`PageLost`), so that `poll()` asks for the next one and, while the vendor
is away, neither returns nor raises. `missed` remembers, for the proofs, that a
page was lost. Time is `since`, the ticks since the last failure, saturating at the recovery
timeout; the failure count saturates at its threshold. `max_instances = 1` of
the scheduler is the `Idle` guard of `Start`.

**AlertThrottle** is `AlertDeduplicator.is_suppressed` on Redis for one key:
`Begin` reads the clock, `Trim`, `Suppress`/`Pass` and `Add` are its round trips.
It assumes that one evaluation (four round trips) takes less than a window (15
minutes at least), and that two clock readings differ.

**Analytics** extends it to `run_aggregate_rules`: a run is started with the rows
its query returned (`StartRun`), puts them through the throttle one at a time
(`Ask`, `Withhold`, `LetThrough` wrap the throttle's own steps), stores what was
let through in one transaction (`Store`) and publishes it, whole or up to the
entry at which the connection broke (`Publish`). `EndRun` is an error or a death
at any point; what the run held goes to `lost`. A second process exists while
one deployment replaces another.

**TenantScope** is the role catalogue of `tenant.py` and the operators of
`api/auth.py` on claims, named as in the code: `ScopeCovers`, `Sees`
(`tenant_filter`), `CanManage`, `CheckTenancyAccess`, `PersonWithinScope`, the
requestable scopes of `_resolve_scope`, and the scope of an AI report. The
tenancy tree is a parameter.

**Personnel** is `employment.py` and the HR feed as data. A `Feed` is the
transaction of `_upsert_hr_records` in the making: the records left, the rows it
has read and will write, the numbers it binds, and the accounts it will close.
`Upsert` is what one accepted record adds to it, `Written`, `Overlaid` and `Fits`
what its commit does to the directory and when it can. `raced` is not part of the
code: it collects the accounts other requests have written since the feed began.
The written form of an identifier stands for the string (`ShapeOf`).

**Accounts** is `identity.users` under the handlers of `api/routers/auth.py` and
`admin.py`:

| state | what it is |
|---|---|
| `users`, `retired` | rows by id; ids that were deleted (a sequence never reuses one) |
| `persons`, `ids` | the directory and its identifiers |
| `sessions` | tokens that are still valid: row, claims, ticks left, and (for the properties) the authority at issue |
| `pending` | per request of an administrator: what it read and will commit |
| `feed` | per HR feed in flight: its transaction so far |
| `down` | for the properties: how long each row has been unavailable |

| action | code |
|---|---|
| `Login`, `DemoLogin`, `SwitchTenant` | `login`, `demo_login`, `switch_tenant` with `_resolve_scope` |
| `Tick` | a tick of the clock, which `verify_token` compares `exp` with |
| `CreateRead`/`CreateCommit`, `UpdateRead`/`UpdateCommit`, `DeleteRead`/`DeleteCommit` | `create_user`, `update_user`, `delete_user` up to their commit, and the commit, which writes only the columns that differ from those read |
| `FeedStart`, `FeedSkips`, `FeedUpserts`, `FeedCommit`, `FeedFails` | `hr_sync` and `hr_sim_sync` through `_upsert_hr_records`: one step per record, and the one commit at the end |
| `Import` | `import_external_hr_identity` |
| `Restart` | `lifespan` with `bootstrap_superadmin` and `seed_demo_users` |

Sessions are checked when a request is read: a token that expires afterwards
does not stop the commit. A feed reads what others have committed when it comes to
a record, takes no lock, and commits once (1307), after the awaits of all its
records; `Race` notes the accounts that another request's commit writes in
between. PostgreSQL's row locks and unique indexes make some of these
interleavings wait for each other and turn some into errors (`FeedFails`); they
add none, so the model allows every order the database does.

**SigningKeys** is `security_pki.py`: where a container finds the key it signs
with (`PrivateKey`) and the one it names and verifies with (`PublicKey`). A
`Deployment` is what it was started with: `AG_SIGNING_PRIVATE_KEY_PEM`,
`AG_SIGNING_PUBLIC_KEY_PEM` and the two files placed in its `certs/`, each of the
four absent, malformed or a key of any pair, and whether key material must be
static. Environment variables come before files, a malformed one is an error
(120-127, 182-184), and the cached key counts only for the source it came from.
A generation takes four steps, as each file is truncated and then written.
**Evidence** is the requests that need a key: `Begin` an attestation export, an
access record, a packet or a verification; `StartGenerating` and
`KeepGenerating` run when there is no key; `Sign` or `SigningFails`; `Commit` or
`CommitFails`. A verification loads its rows at `Begin`, resolves the public key
in `Verify` and writes its judgements in `Commit`, which may fail as any other.
`Crash` loses the process and keeps its files; `Redeploy` replaces the container,
perhaps by one of another deployment, with `certs/` kept or not. `held` is what
callers were given, `audit` the shared table `audit.action_audit`. `found`, for the
properties, is what each container found when it started. Cryptography is ideal:
a signature is verified by its own key and no other.

Operators called `X_Y` are `X` with the plausible bug `Y`. No specification
uses them; `PROJECT.json` says which property notices which.

## 4. The runs

| run | what it asks | result |
|---|---|---|
| `processing` | five invariants and the refinement of `ConsumerGroup`, two containers, batches of two, three records over two findings (one matching a rule, one not, one that does not parse), a stream that may be trimmed to two, one crash | holds |
| `processing_live` | every record is eventually settled, with two crashes | holds |
| `processing_lost` | NFR-REL-01: work lost by a consumer is dead-lettered | violated by the code |
| `dispatch` | three invariants, the refinement and progress; two consumers, two alerts (one on all three channels, one whose row is missing), one crash | holds |
| `dispatch_silent` | FR-DISPATCH-03: no alert is dropped silently | violated by the code |
| `polling` | two invariants, two step properties and recovery of one connector, which fetches in one go or page by page | holds |
| `polling_health` | FR-CONN-02: a failing connector is not shown as healthy | violated by the code |
| `throttle` | two processes run the aggregate rules job, up to two rows per query, two alerts per window of five, seven clock readings: overshoot, suppression, pages and silence | holds |
| `throttle_limit` | never more than max_alerts in a window | violated by the code |
| `accounts` | three rows, two employees, two requests and two feeds in flight, tokens of two ticks: what sessions show, how long authority lasts, what delegation reaches, what a feed does | holds |
| `evidence` | two replicas, four keys, four deployments, two requests, two containers each: signer, rotation, survival and record of evidence | holds |
| `static_key` | "Refuse to mint one when the environment demands static key material" | violated by the code |

Each passing run also checks its module's type invariant.

What the passing runs show of the pipeline:

- *AckedIsAccounted*: an acknowledgement, which makes Redis forget an entry,
  never comes before the record is in the dead letters or the lake reflects it
  or a newer record of the same finding.
- *OneHolder* and *VersionCountsWrites*: no record is processed twice, whatever
  crashes, so a finding's version counts the records written to it.
- *PublishedAlertIsBacked* and *StoredAlertIsPublishedOnce*: alert rows and
  sent alerts correspond, except that alerts of a failed write go out too.
- *SentOnceBeforeAck*, *LogIsTruthful*, *LogIsComplete*: no alert is sent twice
  over a channel; the dispatch history never claims a delivery that did not
  happen and holds all channels of an alert or none.
- *BacksOff*, *OpensOnlyAfterStreak*, *NeverPermanentlyOpen*, *Recovers*: the
  breaker leaves a failing vendor alone for the timeout, opens only on
  consecutive failures and closes again. The permanently open state exists in
  the code and is unreachable only because polls of a connector never overlap.
  `Recovers` holds of a connector that was between two pages when its vendor went
  away, too: it pages on until the vendor is back.
- *SuccessIsComplete*: a poll that reports success published every record it
  fetched and left a healthy row that counts them and stands until the next poll.
  It says nothing of the pages AppScan skipped, which such a poll never had.
- *OvershootBounded*, *SuppressedOnlyWhenFull*: with `n` evaluators at most
  `2(n - 1)` alerts too many are let through in a window, and an alert is
  suppressed only if `max_alerts` were let through within a window before it or
  since its clock reading.
- *PagedIsOnTheDesk*, *QuietHasACause*: what the analytics job pages has a row
  first. A rule that withholds an alert has its limit of alerts on the desk, or
  some of them are with a run that has not finished or that was lost: the
  throttle is charged before the alerts are safe, so a failed run can silence a
  rule for a window, and that is the only way it falls silent.

Of accounts and sessions:

- *SessionWithinEntitlement*: whatever chain of logins and tenant switches led
  to a session, it shows no row that its account's authority, when it was
  issued, did not show.
- *StaleAuthorityExpires*, *AuthorityDrains*: a closed or deleted account keeps
  the tokens it has and gets no new one, so that its authority ends within a
  token's lifetime (twelve hours as configured). A tenant switch asks the
  database for the account, which is what keeps a chain of switches from
  prolonging it.
- *NoNewSuperusers*: without a seeded operator, no sequence of grants by
  administrators of any rank makes an account a superadmin.
- *CreatedWithinCreator*: an account shows nothing its creator's session did
  not, although the creator may have been demoted, closed or logged out between
  check and commit.
- *SyncClosesLeavers*: a feed closes the accounts of those who left in the commit
  that records it, whatever aborts the batch and wherever in it the record
  stands, but for accounts that another request's commit created, reopened or
  linked while the batch was in the making. Those stay open; section 6 says what
  the documentation promises.
- *IdentifiersNeverMove*: no feed, import or account creation gives a
  government number that one person has to another.

Of signed evidence:

- *KeyIdNamesSigner*: where a container was started with a private key and no
  usable public key of another pair, or with none at all, the key id quoted beside a signature is the
  signer's, although the two come from different places and a crash may come
  between the writing of one file and of the other. Where it was started with a
  public key of another pair the id is that key's (section 6).
- *RestartKeepsKey*, *MintsOncePerContainer*: a restart neither rotates the key
  nor mints another; a generation that was cut short leaves a file that makes
  signing fail until an operator acts.
- *EvidenceSurvives*: as long as every container, of whatever deployment, finds the
  same private key and no public key of another pair, everything is signed with it
  and no verification by any replica turns a row down, whether the key comes from
  the environment or from a file and whatever crashes. Where no key is supplied it
  does not hold, which `require_static_signing_key` is meant to prevent.
- *ExportsAreRecorded*: an attestation somebody holds is in the table.
- *RequestsEnd*: every request is answered or dies with its process.

What the violations show: the five findings of `PROJECT.json`, each with the
sentence of the repository it contradicts. A batch whose consumer dies is never
seen again; an alert that reached nobody and could not be logged is acknowledged;
the services never degrade the health row, because the error path passes an argument the
writer does not take (an optional pg_cron job, section 6, may do so half an hour later); the throttle can be overrun by concurrent evaluations; a
key that had to be static is minted, stored and then refused, and the next
request signs with it.

### Bounds, and why they are enough

- Two consumers, evaluators, replicas or requests in flight, the least that
  interleave; they are symmetric in the code. In `Processing` they live in
  different containers, so that one can die and the other go on. The bound of
  the throttle, and the invariant it is proved from, were also checked with three
  evaluators (nine million states, outside the runs).
- Batches of two and three entries: a batch can hold an entry that fails and one
  that does not, two records of one finding, and the next batch can be read by
  the other consumer. Raw streams may be trimmed down to two entries (one in
  `processing_live` and `dispatch`), so that entries are lost before
  and after delivery. `MaxMsgs`, `MaxCrashes` bound the environment only.
- Breaker: threshold two, two probes, timeout two ticks, two attempts: every
  comparison can be missed by one on both sides. Polls fetch up to two records,
  so that publication can stop half way, and so can paging.
- Throttle: two alerts per window of five, seven clock readings, two rows per
  query: a window fills, overlaps the next and expires, and a run can be lost
  with one alert or with two.
- Accounts: a superadmin and a department administrator are seeded; a third row
  is free for one account. One employee is in the directory from the start, the
  other is known to PERSAL only. Two administrator requests, feeds or restarts
  (`MaxRequests`): one changes, creates or closes an account while the other is
  in flight or follows it, or two feeds run into each other. Tokens live two
  ticks, so that one can be switched after half its life, and two are alive at
  once. Both feeds end the first employee's employment: one with a malformed
  PERSAL number, which is skipped, followed by a record of the second employee;
  the other with that employee's number, which is bound, found taken, or taken
  before the commit. The tree has a department with a branch and one with a
  province. The seeded demonstration account is a department administrator only:
  the list in the source also has superadmins and an operator, with whom
  `NoNewSuperusers` says less, and a production start refuses demonstration
  accounts.
- Evidence: two requests, of any kind, by any replica: one generates or is cut
  short, the other signs or verifies after it. Of four keys two appear in
  deployments and two can be generated, one per request, so that a generation
  never runs out. Two lives: before and after a redeployment. The deployments: the
  key in a file, alone; the same key in the environment, over a public file of
  another pair; an environment key that cannot be loaded; nothing at all. Over kept
  directories they meet each other's leftovers, so that containers with a stale
  public key occur, too.

`CHECK_DEADLOCK FALSE`: once the bounds are used up, a service waits for
messages or requests for ever. The run `throttle` needs no such line, because
the job can always be started again.

### Fairness

`Processing` and `Dispatch` assume weak fairness of each consumer's next step
(the event loop runs every ready coroutine; Redis, SMTP and database
calls return or raise) and of the restart of a dead container. The compose
files state no restart policy, so that part is the operators' duty and is
needed for `EventuallySettled` only. Nothing fair is assumed about which of the
consumer's alternatives happens: writes and acknowledgements may fail each time.
`Polling` assumes that the interval fires, steps of a poll end, and time passes;
that AppScan's pages come to an end is the bound `MaxBatch`.
`Accounts` assumes that time passes (`WF_vars(Tick)`) and nothing of the users.
`Evidence` assumes that a replica's request takes its next step if it can
(`WF_vars(Serve(r))`): handlers are ordinary calls that return or raise; the
environment may crash them at any point. Safety properties assume no fairness.

## 5. The proofs

All theorems hold for every value of the constants that satisfies the assumption
of the module:

- `ProcessingAssumption`: records have the expected fields, each consumer has a
  home, and batches and the stream limit are positive.
- `DispatchAssumption`: alerts have the expected fields and name at least the
  channel teams, as every rule of `alert_rules.yaml` does, and the same of the
  bounds.
- `BreakerAssumption`, `PollingAssumption`: thresholds, probes and attempts are
  positive.
- `ThrottleAssumption`, `AnalyticsAssumption`: finitely many evaluators and at
  least one, a positive window and limit.
- `TreeAssumption`, `PersonnelAssumption`, `AccountsAssumption`,
  `NoneAssumption`: each branch has a department; grants, seeds, feeds and
  requested scopes are ones the code accepts as input; the directory may hold
  anybody (`Staff`) with any numbers at the first start; the first start's
  accounts have rows of their own; employees' addresses are not the seeds'; `None`
  is no row, account or person.
- `KeysAssumption`, `EvidenceAssumption`: deployments are any set of
  `Deployment`, stale and malformed keys included; the two markers for a missing
  and a malformed key are no keys.

Nothing is assumed about how many consumers, accounts, requests, sessions,
feeds, replicas or keys there are.

### Processing

`ProcessingProofs` has eight theorems: `Typing`, `SingleHolder`,
`NothingAckedIsLost`, `PublishedAlertsAreBacked`, `StoredAlertsAreSentOnce`,
`VersionsCountWrites`, and two on progress (see *Progress*, below);
`ProcessingRefinement` proves `Refinement`.

None of the safety properties is inductive. The argument is in layers, each inductive
given those before it:

1. `TypeOK`. Its one arithmetic point is that `Newest` stays within the stream.
2. `Holding`: entries beyond `last` are neither pending nor acknowledged, what a
   consumer holds is pending, holders are disjoint, `rest` and `alerts` lie in
   the batch, and idle or dead consumers hold nothing. It implies `OneHolder`:
   `Read` only takes entries beyond `last`, which by the first part nobody has.
3. `Accounting`: what each phase of a consumer has already accounted for. An
   entry that does not parse is still in `rest` or has been dead-lettered; in
   `deadletter` every entry but `rest` has been; in `publish` every entry of
   the batch is accounted for, and every alert still held has a row or a dead
   letter. Acknowledging then preserves `AckedIsAccounted`, and publishing an
   alert preserves `PublishedAlertIsBacked`. The step from "the rows of the batch
   were written" to "a newer record of the same finding was" needs that the
   entries of a finding in a batch have a newest one: lemma `RowCovers`, from
   the well-foundedness of the naturals.
4. `Alerting`: alerts a consumer still holds are not yet on the stream; before
   its write a batch has no alert in the lake or on the stream; alert rows of a
   batch in hand are held or sent; the stream has no duplicates. Gives
   `StoredAlertIsPublishedOnce`.
5. `Versioning`: entries a consumer holds before its write are not in
   `written`, so that a commit adds exactly the rows of its batch, one per key;
   cardinalities then grow by one exactly where versions do.

Each layer was first checked by TLC on the instance of the `processing` run.

`Refinement` shows that every action maps to a step of `ConsumerGroup` or to a
stutter. Beside `Holding` it needs `Passed`: an entry up to `last` is pending,
acknowledged or was trimmed. That is what makes a read hand out the oldest of
the queued entries: whatever is still queued lies beyond `last`.

### Dispatch

`DispatchProofs` proves `Typing`, `SentOnce`, `HistoryIsTruthful`,
`HistoryIsComplete` and two theorems on progress; `DispatchRefinement` proves
`Refinement`. The layers:

1. `TypeOK` with `Working` (theorem `WorkingHolds`): queues are disjoint and pending, nothing pending is
   acknowledged, a consumer without a queue is idle or down and has no outcomes.
   Typing needs it, because only a consumer with a queue has a current entry
   (lemma `CurrentIsOldest`: a set of entries has an oldest one).
2. `Sending`: nothing was sent of entries beyond `last` or behind the current
   entry of a consumer; of the current entry exactly the channels with an
   outcome, and all of the route once the outcomes were gathered; of an
   acknowledged entry the whole route. `SentOnceBeforeAck` is not inductive
   without it: that a read hands out entries nobody has sent is the point.
3. `Logging`: the history has nothing of entries beyond `last`, behind the current
   entry or before gathering; outcomes at hand say "sent" only of what arrived,
   once per channel; a consumer about to stamp has recorded its entry. Gives
   `LogIsTruthful` and `LogIsComplete`. The stamp is covered by the rows because
   a route is never empty, which is where the assumption on channels is used.
4. `Passed`, as for `Processing`, for the refinement. A lost read is the abstract
   `Lose`; a failing acknowledgement is `Acknowledge` or `Strand`, depending on
   what Redis did.

### Polling

`PollingProofs` proves `Typing`, `BreakerRecovers`, `SuccessesAreComplete`,
`VendorsAreLeftAlone`, `OpenedByStreaks` and three theorems on progress from one
invariant: `TypeOK`;
`Alone` (polls do not overlap); `Progress` (how much a poll in each phase has
published); `Counting`; `Complete`. `Counting` is the point: a closed breaker's
count is the streak of failures, which has not reached the threshold; while a call
is under way, also between two pages, the breaker is not open, so that a failing
call finds it closed or half-open and never makes it permanent. It is not
inductive without `Alone`. `Complete` extends `SuccessIsComplete` to the time while
the next poll runs: only a poll on its way to an error can have touched the row.

### Throttle and analytics

`AnalyticsProofs` proves `Typing`, `SuppressionIsJustified`, `PagesAreOnTheDesk`,
`SilenceIsExplained`, `JobUsesThrottle` and `OvershootIsBounded`. `Trimmed` is the core: between an evaluator's trim and
its count the set has nothing older than that evaluator's window, whatever other
evaluators add, because (`Timely`) an evaluation takes less than a window, so
that a reading somebody else adds is recent enough. With it a full set is full of
recent alerts. `Traced` says that every alert let through is stored, held or
lost, and that what is about to be published is stored.

`JobUsesThrottle` is the composition stated as a refinement: every step of the
job is one of the throttle's or leaves its variables alone, so that
`JobSpec => Spec`.

`OvershootIsBounded` counts alerts by the evaluators that let them through, a
number no variable holds. `Counted` has it, for each time t, from two sets of
evaluators: those of t's window that are under way, and among them those past
their count. Until somebody trims an alert of the window, a count sees all of
them, and the alerts with those on their way past a count are at most
MaxAlerts - 1 and one per evaluator. Only an evaluator that read its clock after
t trims them, and from then on no evaluation of the window starts: the alerts
with all that are under way stay within MaxAlerts + 2(n - 1), since the one that
trimmed is not among them.

### Accounts

`AccountsProofs` has two parts. On scopes, for every tenancy tree:
`CoversNarrows` (whatever a covered scope shows, the covering one shows: the
check that admits a scope and the filter that applies it agree),
`CoversTransitive` (delegation composes), `ReportParity` (an AI report shows
exactly the rows its caller is shown), `AccessIsSeen` (a department and branch a
narrowed caller may ask for are within the filter), `OnlyOperatorsMakeSuperusers`.
On behaviours, resting on `Types` (the type invariant but for
the directory):

- `SessionsAreNarrower` (`SessionWithinEntitlement`): each way of issuing a token
  satisfies `CoversNarrows`.
- `ClosedAccountsLapse` (`StaleAuthorityExpires`), from `Aging`: an available row
  has `down = 0`, the row of a session exists or is retired, and a session's
  time left and its row's time down never exceed a token's lifetime.
- `SuperusersAreFounders` (`NoNewSuperusers`), from `Ranks`: nobody is an
  operator, no request in flight grants the superadmin's tier, and the holders of
  that tier are founders. Requests in flight have to be in the invariant, since
  their authority was checked earlier.
- `CreationsAreDelegated` (`CreatedWithinCreator`), from `Delegated`: what a
  creation in flight will write is covered by the claims it was asked with.

On the HR feed, for batches of any length and content, duplicates included, and
any number of feeds and requests at once. Lemma `FeedSteps` says what one step of
anybody does to a feed and to an account: an account is opened or linked only
where every feed in flight notes it. `DirectorySteps` says that commits of feeds
and hires are all that touches the directory, and `FedDirectory` what the former
make of it. From these:

- `Typing` (`TypeOK`); `FeedTypes` is the part about feeds.
- `IdentifiersStay` (`IdentifiersNeverMove`), by `Fits`: a commit inserts a number
  only if it is still free, whatever the feed found when it read.
- `LeaversAreClosed` (`SyncClosesLeavers`), from the invariant `Caught`: of each leaver
  a feed has dealt with, every open account is among those the feed will close or
  was written by another request since the feed began. At the commit the first are
  closed, and the second are what the property leaves out.

### Evidence

`EvidenceProofs` proves `Typing`, `KeyIdsNameSigners`, `RestartsKeepKeys`,
`SuppliedKeysSurvive`, `AttestationsAreOnRecord`, `OneKeyPerContainer` and two
theorems on progress, in layers:

1. `Disk` (`Types`, `Files`, `Generating`): what a container can find, beside
   what it found when it started. `Current` is the key it signs with and `Named`
   the one its ids name, as far as environment and disk say. If a key was found
   then, both still are what they were; if the two were `Coherent`, a named key is
   the current one, also in the middle of a generation; the cache agrees with the
   file it came from; and a generation, which no container with a key begins, has
   written what its step says. That the private file is written first is what
   makes this hold across crashes.
2. `Signing`: what a signed request carries to its commit is the container's
   current key, and its id if the container was coherent; a verification judges by
   the key found at the start.
3. `Rows`: of each row of the table and each thing held, that its key id is its
   signer's if its container was coherent, that a row of the current container
   carries the current key, that rows survive where one key was given to all, and that exports
   are recorded. With `KeyStays`, a container's key does not change once there is
   one.
4. `Minting`: a replica has minted one key per container at most, and none in the
   current one while its disk has no trace of a key.
5. `Short`: the table's length stays within its bound.

### Progress

The prover does not handle fairness and ENABLED, so that a liveness property
cannot be proved as it stands. What can go wrong in the code, that somebody is
stuck, or busy for ever, is a matter of safety, and is proved of each service in
two theorems. Both speak of a number of steps ahead of whoever is busy.

| service | can take a step | comes nearer to its end | steps at most |
|---|---|---|---|
| processing | `ConsumersProceed` | `BatchesAreFinite` | 3 BatchSize + 3 per batch |
| dispatch | `ConsumersProceed` | `BatchesAreFinite` | 6 per alert |
| polling, but between the pages of a vendor that is away | `PollsProceed` | `PollsAreFinite` | 2 MaxBatch + 2 MaxAttempts + 3 per poll |
| evidence | `RequestsProceed` | `AnswersApproach` | 6 per request |

The first says that the guard of one of its steps holds (`Ready`), whatever failed
before: a batch whose write failed, an alert nobody can be before: a batch whose write failed, an alert nobody can be reached with, a
malformed key file. The exception is stated in `HangsOnlyBetweenPages`: AppScan's
poll goes nowhere between two pages while the vendor is away, and nothing ends it. TLC checked, on the instances of the runs, that
`Ready` is ENABLED of the step. The second says that each of its own steps lowers
the number and that nobody else's touches it, but for the crash that takes it down
and the loss of a page, which leaves a poll where it is.
The invariants are those above and `Sized`: a batch has at most BatchSize entries.

For the breaker, `OnlyFailuresDelay` has the like: its distance from closed, counted
in probes, grows by failed vendor calls only (not by refused polls, lost
publications or health rows that could not be written), and each success lowers it.

With weak fairness of its steps, whoever is busy is therefore done after a bounded
number of them. What only TLC shows is that rule itself, and the properties as
they read in the end: that an entry that waits is read and settled, that a request
is answered, that the breaker of a vendor that stays up closes.

### Only model-checked

The liveness properties `EventuallySettled` (of both services), `Recovers`,
`AuthorityDrains` and `RequestsEnd`, for the reasons above. `AuthorityDrains` has its
bounded counterpart in `StaleAuthorityExpires`, which is proved.

## 6. Not modelled, and why

`PROJECT.json` says it component by component. The alert API's acknowledge and
resolve are unconditional updates of one row, of which the code promises no
order. The AIMI gateway's breaker is in the memory of one process and decides
only where a text comes from. The dead-letter manager's writer has no caller, the
token bucket never refuses a scheduled poll. The intelligence layer, framework
mappings, the read-only API, personal-data encryption and the egress register
are queries, tables or pure data. The document generators under `src/`, the seed
scripts, the simulated feeds and the frontend have no protocol of their own: they
make up most of the repository's lines, so the modules, which cover the
stateful services, stand for a small part of them.

Within the modelled parts these details are left out: field mapping and
conversion in the normaliser (the properties see which finding a record is
about), the enrichment of alerts, the in-memory fallback of the throttle (only
tests run without Redis), the fallback routing of alerts without channels (every
rule in `processing/alert_rules.yaml` names some), the trimming of the
dead-letter stream, passwords and rate limits of logins, names and positions of
persons, and the content of attestations. Databases and Redis are modelled by
what their answers allow: a statement takes effect or not, and an error may
follow either way.

In polling: connectors other than AppScan fetch in one go or raise. An AppScan
connector without `application_id` and `account_id` (`connectors/appscan.py`
165-167) pages for ever, vendor or no vendor; configuration is assumed. An answer
that cannot be parsed counts as the vendor being away. The breaker lives in the
memory of the ingestion process and a restart resets it, which is not modelled.
In processing, the normaliser collapses records without an id within a batch; the
model gives every record a finding of its own or shared, and none without one.
`infrastructure/scripts/maintenance.sql` has an optional pg_cron job,
`connector-staleness` (69), which no service runs and which needs the pg_cron
extension. Where it is installed it marks a connector degraded once its last
success is 30 minutes old; its next branch, which would mark it down after 60, is
never reached. `polling_health` is about the services alone.

### Disagreements without a run

Met while reading the code. Of the first three the models have the behaviour, and
a property has the exception; the others are not something a state of a model
shows:

- `admin.py:1206` and `admin.py:1325` say of an HR feed: "Terminated employees are
  soft-disabled on any linked platform account". The feed reads the linked open
  accounts at 1294-1298 and commits at 1307, after the awaits of the remaining
  records. An account that `create_user` (766) or `update_user` (852) creates,
  reopens or links in between stays open, and nothing comes back to it until the
  next feed names the person. This is the exception in `SyncClosesLeavers`
  (`raced`). Nor does anything stop an account from being provisioned, after the feed, on a check
  that was made before it.
- `security_pki.py:15` says: "Every signature is reported with a ``key_id``
  fingerprint so an attestation signed by a rotated key is distinguishable from
  one signed by its predecessor." With `AG_SIGNING_PUBLIC_KEY_PEM`, or a public
  file kept in `certs/`, of an older pair, the signature is the new key's and the
  id the old one's, and `/verify` turns the genuine rows down. The docstring at
  178-180 advises to publish the public key in production, so a rotation has to
  change both. Without a private key one is minted and the published id stands
  beside its signatures. These are the containers that are not `Coherent`.
- `connectors/appscan.py:211-213` answers a failed page with "more to come" and
  `poll()` (224-229) pages on, so that a vendor that goes away in the middle of a
  poll is seen neither by the retries nor by the breaker, and the connector is
  polled again only when it is back. This is the exception in
  `HangsOnlyBetweenPages`.

- `api/routers/alerts.py:40`, `admin.py:78` and `admin.py:117` call the coroutine
  `record_access` without awaiting it, so that acknowledgements, privileged reads
  and privilege changes leave no record, although the docstring at `admin.py:110`
  says of role and scope changes that each one "is signed and bound to the actor
  who made it". The other callers (`auth.py:366`, `exports.py:35`,
  `reports_ai.py:75`) await it; those are what `Evidence` models.
- `admin.py:1265` says of employment identifiers that "Failures are logged and
  skipped rather than aborting the sync". That is so of the PERSAL number; a
  failure of the feed's own number, recorded at 1284, aborts the whole batch.
  `FeedUpserts` and `FeedFails` model it so: no half of a batch stays behind.
- `reset_connector` (`admin.py:439`) answers `circuit_state: closed` and touches
  no breaker; the breakers live in the ingestion process.
- `processing/intel/privilege.py:55` lists "Role pairs that must never be held by
  one account"; `can_manage` lets an admin grant one of them, transversal-admin
  with compliance, and the list only serves to report such accounts afterwards.
- `processing/intel/privilege.py:43` gives the roles that may acknowledge alerts
  "per ROLES_HIERARCHY". The hierarchy (`api/auth.py:21`) lets `exec` do so, which
  the list lacks, and not `sre`, `transversal-admin`, `dept-admin`,
  `branch-admin` and `province-dept-admin`, which it has.
