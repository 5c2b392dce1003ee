# Sherlock in TLA+

Sherlock receives alerts, investigates each of them (collects evidence,
correlates it, ranks hypotheses with rules or a language model) and reports to
Slack. This directory models the parts of it where concurrency, failure and
ordering decide whether it is right, checks them with TLC on small instances,
and proves the most important results with TLAPS for every value of the
constants.

Paths below are relative to `src/`.

## 1. The system

### Components, their state and their operations

| component | source | state | operations | interacts by |
|---|---|---|---|---|
| Receiver gateway | `internal/receiver/gateway.go` | none of its own; local variables of a request | `handleWebhook` | calls dedup, suppression, blob store, queue, Slack publisher |
| Alert receivers | `internal/receiver/{alertmanager,github,gitlab,grafana}` | none | `VerifySignature`, `Decode` | called by the gateway |
| Deduplication | `internal/dedup/dedup.go`, `internal/storage/postgres/dedup.go` | none; reads `alerts`, `investigations` | `Check`, `LinkAlertToInvestigation` | SQL |
| Work queue | `internal/queue` | JetStream stream and consumer (external) | `Publish`, `Consume`, ack, nak | messages |
| Orchestrator | `internal/investigation/orchestrator.go` | semaphore, wait group, gauge | `Start`, `runInvestigation`, `storeCompletionBatch`, `failInvestigation`, `Stop` | a goroutine per job; calls everything below |
| PostgreSQL repositories | `internal/storage/postgres` | tables | `Create`, `UpdateStatus`, `Complete`, `WithTx`, ... | SQL |
| Blob store | `internal/storage/objectstore` | objects by key | `Put`, `Get` | called by gateway and orchestrator |
| Collector registry, collectors | `internal/collector/...` | registered collectors; label caches | `Collect` (fan-out), one API client each | goroutines and a mutex |
| Correlation, timeline, entities | `internal/{correlation,timeline,entity}` | none | pure functions of evidence | called by the orchestrator |
| Rule engine, remediation | `internal/rca`, `internal/remediation` | none | `Rank`, `Apply` | called by the orchestrator |
| Multi-pass LLM engine | `internal/rca/llm_engine.go` | none shared but the provider | `Rank`, `rankWithLLM` | provider, parser, follow-ups, rule engine as fallback |
| LLM provider chain | `internal/llm/{retry,circuitbreaker}.go` | breaker: state, failures, time of last failure | `ChatCompletion` | shared by all investigations, a mutex around the state |
| LLM clients, prompt, parser, follow-up | `internal/llm` | follow-ups write the alert's label map | | called by the engine |
| Slack app, publisher, transports | `internal/slack` | none, request-scoped | commands, buttons, posts | enqueues jobs, writes suppressions |
| Rate limiter, API key | `internal/httputil` | token buckets by address, cleanup goroutine | `Middleware`, `getLimiter`, `StartCleanup` | around the HTTP handlers |
| REST API | `api` | none | reads | SQL |
| Process lifecycle | `cmd/sherlock/main.go` | contexts, servers | start-up, wiring, shutdown | signals |
| Audit, metrics, tracing, configuration, contracts | `internal/{audit,metrics,tracing,config,contracts}` | counters, rows | | called everywhere |
| Migrations, charts, deployment | `migrations`, `charts`, `deploy` | schema | | declarative |

An alert's way: webhook -> gateway (payload to the blob store; decode; for each
alert dedup, suppression, publish) -> JetStream -> consume callback of the
orchestrator (semaphore) -> goroutine (alert and investigation row, Slack
"started", collect, evidence to blob store and database, rank, completion
batch, Slack result) -> ack or nak.

### What is hard, and what must hold

* **Queue and orchestrator.** At-least-once delivery on an AckWait as long as a
  run's own timeout: a job may be run twice at once, and the ack of a finished
  run may be lost. Any database call may fail after having had its effect; the
  process may die anywhere. It must hold that a job leaves the queue only
  with a finished investigation, that a finished one is complete and never
  changed, that nothing is visible of an unfinished completion, that Slack is
  told what the store says, that slots and gauge are given back on every exit,
  and that every job comes to rest.
* **Gateway and dedup.** Requests run concurrently, and the dedup check reads a
  table that the orchestrator writes later. Every call may fail in the middle of
  a batch. It must hold that an alert answered 202 is queued or covered by
  something, that only duplicates are linked and never investigated as well,
  and that a queued alert's payload exists.
* **LLM provider.** The breaker is locked before and after a call but not during
  it, so outcomes of calls admitted in one state arrive in another. It must hold
  that it opens at the threshold exactly, is never left half-open with nobody to
  settle it, and closes again once the provider answers.
* **LLM engine.** Five ways out of the loop of passes, two of them errors; it
  must return the last analysis there was, or that of the rules, and end.
* **Pure parts** (rules, correlation, timeline, remediation, parser): bounds,
  caps, order and clamping, against reference definitions.
* **Slack.** A request is three calls, each of which may fail or hide its effect,
  be told to wait by Slack, or be cut off by the shutdown, on a transport that acknowledges before it
  handles. Who asked must hear of the outcome, and Stop must wait for whom it started.
* **Rate limiter.** Lookup, creation and cleanup of a bucket are calls of their own on a
  shared table; dropping an idle bucket must not give an address more than its burst.
* **Start and shutdown.** The parts of a configuration come from three layers. A signal waits
  for running investigations before the consumer's context is cancelled, so new ones
  begin while it waits, and the deadline of the last step runs during the first ones. What ran
  when the signal came must be finished; the process must end, unless investigations overlap
  for ever; and a job that was accepted must come to rest in spite of processes that were stopped or
  killed with it in their hands.

`PROJECT.json` lists the hazards one by one, with the line and the properties
that cover them.

## 2. The modules

| module | models | composed of |
|---|---|---|
| `JobQueue` | the stream, its consumer, AckWait, ack and nak | |
| `Orchestrator` | consume callback, `runInvestigation` stage by stage, both completion batches, panics, crashes | extends `JobQueue` |
| `JobLedger` | abstract: what queue and orchestrator promise together | instantiated by `Orchestrator` as `Ledger` |
| `OrchestratorProofs` | theorems about `Orchestrator` | |
| `Receivers` | `Verify` and `Decode` of the four receivers | |
| `Gateway` | `handleWebhook`, dedup and suppression against changing tables | extends `Receivers` |
| `AlertIntake` | abstract: what the gateway promises those who send alerts | instantiated by `Gateway` as `Intake` |
| `GatewayProofs` | theorems about `Gateway`, and that it implements `AlertIntake` | |
| `RateLimiter` | the table of token buckets in front of the webhooks | |
| `RateLimiterProofs` | theorems about `RateLimiter` | |
| `LLMProvider` | retry loop inside the circuit breaker, many callers | |
| `Conversation` | how a response is read, and what its follow-ups gather and write | |
| `LLMEngine` | `Rank` and `rankWithLLM` of many investigations on one breaker | extends `LLMProvider`, `Conversation` |
| `LLMEngineProofs` | theorems about `LLMProvider` and `LLMEngine`, and that the second implements the first | |
| `Evidence` | targets and window of an alert; the collectors' queries and the evidence in each answer | |
| `Ranking` | rules, confidence, sort and cap, fixes, timeline: what evidence amounts to | extends `Evidence` |
| `Diagnosis` | one investigation from alert to diagnosis: the concurrent collection, then the conclusion | extends `Ranking` |
| `EvidenceProofs` | lemmas: the operators on sequences, the queries of a collector, the evidence in each answer | |
| `DiagnosisProofs` | lemmas about rules, ranking, fixes and timeline; the theorems about `Diagnosis` | extends `EvidenceProofs` |
| `SlackApp` | requests of users over both transports, the handlers call by call, start and stop | |
| `SlackAppProofs` | theorems about `SlackApp` | |
| `Lifecycle` | a process from its configuration to its exit code, several lives on one queue | extends `JobQueue` |
| `LifecycleProofs` | theorems about `Lifecycle` | |
| `MC*` | model values and instances for TLC | |

### JobQueue and Orchestrator

A delivery is a pair of a job and the number of its delivery. Every delivery is
run by its own goroutine and draws a fresh investigation id
(`orchestrator.go:278`), so the rows of one run are indexed by its delivery:
`row[d]` stands for the investigation and for whether its evidence, hypotheses
and timeline rows exist. `pc[d]` is the statement of `runInvestigation` that
comes next; each statement that leaves memory is an action: `StoreAlert`,
`CreateRow`, `Announce`, `MarkCollecting`, `Collect`, `Offload`,
`StoreEvidence`, `MarkAnalyzing`, `Rank`, `FailRow`, `PostError`, then the batch
`StoreHypotheses`, `StoreTimeline`, `MarkPublishing`, `Complete`, `Commit`, and
`PostResult`, `Accept`, `Reject`. `Write` and `BatchWrite` say how a statement
may end: it succeeds, or the run returns an error and the statement may
nevertheless have been executed. In a transaction (`TxWired`) the batch works on
`mem[d].tx`, which only `Commit` makes visible.

The queue is external code. `JobQueue` is what `queue.go` configures: work-queue
retention, explicit ack, `MaxDeliver`, `AckWait`, `MaxAckPending`. `Ack` and
`Nak` may be lost, because `queue.go` drops their errors; any delivery of a job may
answer for it. `inbox` is the client's buffer: the consume callback blocks on the
semaphore, so AckWait runs while a delivery waits there.

`Crash` loses goroutines, buffer, transactions and metrics, and keeps stream and
stores.

The rule engine returns no error, and the LLM engine falls back to it, so with
the wiring of `main.go` the branch of a failing `Rank` is reached only by
another implementation of the `RCAService` interface. It is modelled
because the orchestrator has it. `IInv` and the theorems hold with it, and hence
without it.

`JobLedger` is the promise: jobs are accepted, records are opened, finished or
failed in one step, and a job is settled once a record of it is finished. The
refinement mapping (`RecordOf`) calls a record finished only if the row is done
*and* has everything it names, so that a step which made a record done before
its timeline was visible would refine to nothing.

### Receivers and Gateway

A request is a record: the source in its path, what it shows as proof, the event its headers
name, whether it is well formed, and its body. `Receivers` turns it into alerts, of which
fingerprint, status and severity are kept: a monitoring system gives its alerts fingerprints
of its own; a forge yields at most one alert, whose fingerprint is repository, place
and revision. `request` is drawn from `MayBe`, the combinations of requests an instance allows, and
`Carries(p)` are the alerts the receiver makes of that of `p`.

One action per call of the handler: `Receive`, `StorePayload`, `Decode`,
`Check`, `Link`, `Suppress`, `Publish`, `Answer`; `Die` ends a handler with the
process. An alert is a post and a position in it. The queue and the orchestrator
are reduced to what `FindActiveByFingerprint` can see: `OpenRow`, `CloseRow`,
`Expire`, the alert row possibly missing because its insertion failed. Slack requests
(`RequestInSlack`) and suppressions (`SetSuppression`) come from outside.
`Call` relates effect and report of a call: with `Reliable` every call works.

The branch for an alert that cannot be marshalled (`gateway.go:218-222`) is left
out: the alerts the receivers decode always can.

`AlertIntake` is the promise to the senders, without handlers, payloads, tables or failing
calls: the alerts of a post are settled in their order, by being queued or by being covered;
a post is accepted when all of them are settled; and an answer is final, also a refusal in the middle of a
batch. `Intake` maps the gateway to it: an alert is covered if an investigation of its
fingerprint or a suppression is or was there (`Covered`), and a post whose handler died is as good as
refused (`Verdict`).

### RateLimiter

A bucket is named by the request that stored it. `Load`, `Store` and `Allow` are the calls of the
middleware, `Inspect` and `Delete` those of the cleanup; each is atomic, a sequence of them is
not. `lastAccess` is read and written without a lock in the code: a race, but `Before`
compares one word (the monotonic reading), so a reader sees an old time or a new one,
which the interleavings give. Time passes in ticks, and no tick falls between the lookup of a
bucket and its use. `overlaps` counts how often a bucket was replaced or dropped although it
was in use: `WithinBurst` says that nothing else lets an address exceed its limits.
`RateAssumption` says that an idle bucket is full again before it is dropped (10 minutes at
50 a second against a burst of 100); the code does not check it of other settings.

### LLMProvider and LLMEngine

A call of `ChatCompletion` is admitted or rejected by the breaker (`Call`), tries
and backs off (`Try`, `Backoff`), and its outcome is recorded
(`RecordFailure`, `RecordSuccess`) in a separate step, since the mutex is free in
between. `failures` counts up to the threshold: above it the code's counter has no effect.
`cooled` says that the reset timeout has passed since the last
failure. `calm` is a variable of the environment only: while it holds, the provider
answers and no deadline passes; it may change at any moment.

The engine adds, per investigation, the stage of `Rank`, the pass, the analysis and the
labels of the alert. A reply is a sequence of lines that name sections or ask tools for
values. `Conversation` is what the parser makes of it: `Sliceable` says when `parseFields` does
not slice backwards, the tools are looked for behind the first `FOLLOW_UP` also where that
begins no section, and the confidence words become numbers. `Gathered` is what the
follow-ups may yield: anything may fail, and of the tools with one place only the last result is
kept. `Written` is what they put into the label map of the alert; an alert
without one panics (`unfollowed`). `vain` remembers the pass for which nothing was gathered.

### Lifecycle

`pc` is the statement of `run()` that main executes next; `consumer`, `call`, `running`, `web`,
`slack` and `server` are the goroutines beside it. `call` is the consume callback with the
delivery it holds: waiting for the semaphore, or between semaphore and `wg.Add`. `running` is
what the wait group counts. `End` is the end of a process, by return, panic or kill; `Restart`
begins the next life on the same stream, with any configuration of the instance. A configuration is a
function from settings to strings: defaults, file and environment are laid over each other
as `config.go` does, and `validate` is its translation. `Spawn` has the panic of package
`sync` for a counter that leaves zero before a sleeping `Wait` has returned. What an
investigation does is left to `Orchestrator`: here it ends with an ack or a nak.

`AcceptedComesToRest` is about jobs over several lives. A process that was killed may have had a job in its buffer,
in the callback or in a goroutine; the stream still has it, its AckWait expires, and the next process that subscribes
gets it, until it is settled or its deliveries are used up. The premise is that some process stays
subscribed, for a subscription that fails leaves one that serves without taking jobs.

`SamePatternPanics` is chi's documented refusal to mount two routers on one pattern. With
it nothing behind `Mount` can be reached (`lifecycle_mount`), so `lifecycle` assumes the
two routers to be merged.

### Evidence, Ranking and Diagnosis

`Diagnosis` opens up what `Orchestrator` leaves to choice in its actions `Collect`
and `Rank`. `Collect(c)` is one goroutine of `CollectAll`: it draws an answer for
each query of its collector (`Answers`, which may be `Nothing`: an error, a
timeout, the cancelled context or an empty result, all alike to the code), turns
it into evidence (`EvidenceOf`) and appends that under the lock. The queries of
a collector run in parallel too, but on a slice of its own; `Orders` is the order in
which they end. `Conclude` is the rest of the run up to the completion batch.

`Evidence` and `Ranking` are operators, one per function of the code, over
evidence reduced to what rules, ranking and timeline tell apart: kind, source, score,
observation time, number of files, and which of the terms the rules look for occur in
it. A container stands for the pods of a target and a stream for the result of a Loki
query. An event has one time, where the code has a first and a last one. Scores and confidences are
hundredths. The code adds floating-point numbers: every threshold it compares
them with gives the same answer (no sum that should be 0.5, 0.6 or 0.7 falls below
it), but two confidences equal in hundredths may differ in the last bit, and
then the code's order of the two may be the other one.

Not reachable, hence left out or without effect: the branch of `HighCPURule` for
traffic (no collector yields such a metric; the operator has it), the GitLab
fallback of the deploy collector (`main.go` passes no GitLab token), and contradicting evidence (no rule
names any).

### SlackApp

A delivery is a request of a user and the number of its delivery; `pc[d]` is the
call its handler makes next: `Announce`, `Enqueue`, `Explain`, or `Lookup`,
`Create`, `Reply`. What the five read-only buttons and the status command look up is one
action, since they differ only in text. `Post` is one attempt of `postWithRetry`.
The socket transport (`Dispatch`) handles one event after the other and is cut off by
`Stop` through its context; `select` may still take a waiting event after that. The
HTTP transport (`Respond`) answers first and handles in a goroutine that the wait group counts;
`Stop` waits for it, up to its two time limits. Slack itself is external: it delivers
again what it has not seen acknowledged.

Over HTTP the body has been read for the signature when the form is parsed, so that
a command has no text and an interaction no payload (`Understood`); the transport's tests pass both in
the query string and do not notice.

`OwnAddress` says whether the two servers of the program get different addresses. Under
`main.go` (387, 401) they do with port 0 only; otherwise whichever listens second fails. `slack`
assumes different ones, for nothing of the HTTP transport is reached without. The
socket's handlers have a context without deadline, and the next event
waits for them, so nothing is claimed about progress.

## 3. What TLC checks

| run | question | bounds | result |
|---|---|---|---|
| `orchestrator_redelivery` | Do all safety properties, the inductive invariant and the refinement of `JobLedger` hold when deliveries of one job overlap? | 1 job with channel, 2 deliveries, 2 slots, 1 crash, transactions | holds |
| `orchestrator_rest` | Does every job come to rest, also behind a garbled message and with completion outside a transaction? | a job and a garbled message, 2 deliveries each, 1 slot, 1 pending, fairness | holds |
| `gateway_intake` | Are two concurrent requests answered for, linked and kept rightly, with every call failing, and does the gateway implement `AlertIntake`? | six pairs of 11 contents: batches with and without fingerprints and proof, a deployment with its failure and success, malformed and stray requests; a Slack request, 2 rows | holds |
| `gateway_race` | Is no redundant investigation triggered? | 2 posts, nothing fails | violated |
| `ratelimiter` | Does an address get more than burst and rate, with concurrent first requests and cleanup? | 4 requests of one address, 1 of another, burst and rate of 1, 5 ticks | holds |
| `provider` | Threshold and half-open state under interleaved outcomes; does the breaker close again? | 3 callers, threshold 3, 2 retries, fairness | holds |
| `engine_passes` | What do concurrent multi-pass analyses return, why do they stop, and do they end? | 2 investigations, one without labels, 5 kinds of reply, 3 passes, 1 retry, threshold 2, fairness | holds |
| `diagnosis` | Does the diagnosis depend on the order of goroutines, or overstate partial results? | 1 service, 4 collectors, 7 live queries, each failing or not; a webhook's alert and a Slack request | holds |
| `diagnosis_recent` | Is a deployment that is blamed as recent a recent one? | 1 Slack request, a deployment a week old | violated |
| `slack` | Is everybody answered, and nothing confirmed or acknowledged too early, when posts fail and the process stops? | 2 requests, 3 deliveries, both transports, 1 retry | holds |
| `lifecycle` | What do strict configuration and signal promise, whatever runs, waits or begins, and do accepted jobs come to rest over several lives? | alerts without end, 2 at a time, 2 deliveries, 2 slots, 2 files, 3 environments, 2 lives, fairness | holds |
| `lifecycle_mount` | Does a complete start serve? | 1 job, 1 life, chi's refusal | violated |

**Properties.** Of the orchestrator: `NoLostJob`, `CompleteRecord`,
`AllOrNothing`, `EvidenceResolvable`, `SlackAgreesWithStore`, `SlotsAccounted`,
`FinishedIsFrozen`, `LedgerRefined`, `EveryJobComesToRest`. Of the gateway:
`AcceptedIsAnsweredFor`, `LinksAreDuplicates`, `PayloadIsKept`, `IntakeRefined`. Of the rate limiter: `WithinBurst`.
Of the provider: `TripsAtThreshold`, `HalfOpenIsProbed`, `BreakerRecovers`. Of the engine:
`ResultIsGrounded`, `PassesStopForAReason`, `PassesAreCalls`, `RankEnds`. Of the diagnosis:
`NothingLost`, `DiagnosisIsDeterministic`, `PartialNeverOverconfident`, `BestAreKept`. Of the Slack
side: `NobodyWaitsInVain`, `AckedIsTaken`, `StopDrains`. Of the process: `StrictMeansVerified`,
`SignalledRunsEnd`, `SignalIsObeyed`, `AcceptedComesToRest`. Each is stated in the module with the lines it is
about, and for each `PROJECT.json` names a plausible slip of the code (definitions
marked `Slip` in the modules) under which the same run finds it violated.

**Why the bounds are enough.** The hazards of the orchestrator need two
goroutines of one job (two deliveries, two slots) or two jobs competing for a slot, and a crash between
any two steps; runs of different jobs share only semaphore and queue, so a
third adds no new kind of step. The safety results do not rest on the bounds:
they are proved for all values. (`orchestrator_redelivery` checks the type invariant as a part of `IInv`.) Two posts give every race between a check and a
publication; a batch of two has an alert after, and before, a dropped or failed one. For the
breaker, a threshold of 3 with 3 callers lets failures of every caller be
outstanding while another closes or opens it; the theorems remove the bound.
For the diagnosis the bounds are chosen so that all six rules can fire at once (the
cap of five bites), log streams lie on either side of the hour around a
deployment, deployments on either side of the window of proximity, and the two
alerts give windows of an hour and a half and of two thousand years.
For Slack, two requests are enough for one over each transport or two
on one, and three deliveries for a repeated one beside another; more only repeat them.
Five replies are one for each way a response may differ in the parser and the loop.
Four requests of one address with a burst of one are two first requests at once and, after the
cleanup, two more; five ticks let a bucket fill up, be dropped and be made again. Two jobs with two deliveries and two
slots give investigations that run, one that waits for a slot and one that begins when the signal comes, and, since
`Renew` of `MCLifecycle` lends the name of a settled job to a new alert, investigations that overlap without
end; two lives give a restart with another configuration. Three passes reach the rule that applies only from the third pass on.

**Fairness.** Goroutines are scheduled and every call of a run returns, because
it is made on a context with a deadline (`orchestrator.go:237`), by an HTTP
client with a timeout, or after a timer: weak fairness of each goroutine's
steps, not of any one outcome. The consume callback is called while there are
deliveries, JetStream hands out what is eligible and its timer fires. Publications,
crashes, signals and changes of `calm` are not fair.
In `Lifecycle` main, the callback and the timers are fair, an investigation ends by its timeout, and
JetStream hands out in the order of the stream (strong fairness of each job's delivery, since other jobs may
use up the bound on pending ones); but no signal, alert, answer or restart need come. `BreakerRecovers` assumes what it
must: the environment is calm from some time on, and calls keep arriving.

**Deadlock** is not checked where the system may come to rest: all jobs
used up, all requests answered, all ranks ended. The provider's runs check it.

### Disagreements between code and documentation

1. `gateway_race`: `README.md:127` promises that no redundant investigation is
   triggered within the window. The check reads a row that appears only when the job
   is taken from the queue, so two alerts close together are both queued.
2. `diagnosis_recent`: `rules.go:38` speaks of a recent deployment and `README.md:19`
   of deployments correlated with the onset. The rules for crash loops, CPU and errors take any deployment
   among the evidence, and a request from Slack has no start time
   (`main.go:480-489`), so its window (`resolver.go:79`) takes in every deployment of the list.
   A crash loop is then blamed on a deployment a week old, with the highest confidence there is.
3. `lifecycle_mount`: `docs/quickstart.md:97` asks a fresh start for its health. `main.go:375-376` mounts
   two routers at `/`, chi panics at the second, and nothing recovers: the start ends there, with the orchestrator
   already at work.

Noted without a run:

* a signalled process need not end: `orch.Stop` has no time limit, and while it waits the consumer is
  subscribed and webhooks are accepted, so with two or more slots (the default is ten) and steady alerts the wait group is never
  empty. `SignalIsObeyed` names this as the only exception; without its second disjunct TLC shows such a
  behaviour within the bounds of `lifecycle`, and none with a single slot;
* the 15 seconds of `srv.Shutdown` begin before these waits (`main.go:426`), so open requests may be given no time
  at all, and the exit code is then 1;
* a panic passes the deferred counter with a nil error and is counted as done, although
  `README.md:357` describes the counter by status (`orchestrator.go:266-275`);
* the notice of a duplicate that `README.md:126` promises needs a channel on the investigation found,
  which only requests from Slack have, and those have no fingerprint to be found by (`gateway.go:180`);
* `README.md:528` offers the Slack transports `http` and `both`, which want the address of the main server
  (`main.go:387` and 401);
* two first requests of an address get a bucket each (`ratelimit.go:58-71`), so its burst may be exceeded;
* no collector reads the labels `trace_id` and `custom_query`, so `TRACE_LOGS` (`README.md:341`) fetches the same logs
  as any collection; the labels stay in the alert and reach the stored timeline;
* of two time windows asked for in one response only the last one's logs are kept (`followup.go:118`);
* the gateway publishes to a stream of a fixed name (`gateway.go:64`), the consumer reads the configured one;
* the failure of a deployment has the fingerprint of its creation and is linked to that
  (`github/receiver.go:159` and 205);
* an incomplete Slack configuration ends the start after the orchestrator has been started (`main.go:389`), a
  failing subscription does not (`main.go:333`);
* the answer at `gateway.go:240` counts suppressed alerts as linked;
* `README.md` shows custom policies below a key `policies`, while `remediation/engine.go:23-40` reads a bare list;
* Loki answers newest line first, so `loki/collector.go:197-207` takes the latest for the earliest;
* without the deployments of one target, those of another may make `DeployProximityRule` surer than with
  them (`PartialNeverOverconfident` leaves failing deployment queries out for this reason);
* a slash command over HTTP is answered "Acknowledged. Sherlock is on the case." (`http.go:123`) and then ignored
  for want of text;
* the buttons Re-run and Force (`README.md:113`) enqueue the id of an investigation as the name of a service
  (`app.go:215`, `main.go:493-495`).

## 4. What is proved

`OrchestratorProofs`, from `QueueAssumption` and `OrchestratorAssumption` (at
least one delivery, pending message and slot; channels and garbled messages among
the jobs), for any set of jobs and any number of deliveries, slots and
crashes, with and without transactions:

* `Invariance`: `Spec => []IInv`. None of the safety properties is inductive
  alone. That a job leaves the stream only with a finished investigation needs
  that a goroutine about to ack has one (`RowInv`); that needs what the
  transaction holds at `Commit` (`BatchInv`), which needs that no hypotheses
  were stored before; that a start does not overwrite another
  delivery's row needs that a buffered delivery has none and that the buffer holds
  no delivery twice (`QueueInv`). `IInv` is the conjunction.
* `TypeCorrect`, `NoJobIsLost`, `RecordsAreComplete`, `CompletionIsAtomic`,
  `EvidenceIsResolvable`, `SlackIsTruthful`, `SlotsAreAccounted`,
  `FinishedStaysFrozen` follow from it.
* `LedgerIsRefined`: `Spec => LedgerRefined`. Every step opens, finishes, fails
  or settles one record, accepts a job, or is a stutter of the ledger.

A step of a goroutine changes only what belongs to its delivery. The proof
states this once (`Moves`, `WorkerFrame`), over the values of one
delivery (`LocalInv`), so that each action needs only the few conditions that
matter for it.

`GatewayProofs`, from `GatewayAssumption` (requests are among the given contents, a
well-formed body of a monitoring system is a sequence, Slack requests are no webhook alerts), for any
posts, contents, wired receivers and number of rows, with and without failures and dedup:

* `GatewayInvariance`: `Spec => []IInv`. `AcceptedIsAnsweredFor` speaks of answered posts only; what is
  inductive is what the loop knows when it comes to alert `at[p]`: those before it are queued
  or covered (`LoopInv`), those from it on are neither queued (`ReachInv`) nor linked (`PassedInv`), and
  `dedupCount` equals `at[p] - 1` exactly if none is queued. `FoundInv` is what keeps `Link` right although
  the row was read in an earlier step: a row may fail or expire meanwhile, but keeps its alert, and
  that alert is queued, hence not the one to be linked.
* `GatewayTypeCorrect`, `AcceptedMeansHandled`, `LinkedAreDuplicates` and `QueuedHavePayload` follow from it.
* `IntakeIsRefined`: `Spec => IntakeRefined`. A handler's step queues, links, accepts, refuses, or is a
  stutter; steps of Slack, the orchestrator and the suppressions can only cover more. That it is the
  turn of an alert when it is queued or linked (`TurnInLoop`) is again what the loop knows.

Steps of a handler change what belongs to its post (`Moves`, `Shares`), all steps only add to
queue and tables (`Grows`), and so `Covered` stays true (`CoveredStays`).

`RateLimiterProofs`, from `RateAssumption` (an idle bucket is full again before it is dropped; finitely
many requests): `RateLimiterTypeCorrect` and `AdmittedWithinBurst`. `WithinBurst` counts only
what was admitted. The invariant (`BudgetInv`) adds the tokens left in the buckets that may still
admit something, and the burst that an address without a bucket will be given: a request moves a token from one
term to the other, a tick adds at most the rate to one bucket, and any second bucket has been counted by
`overlaps`. That dropping an idle bucket costs nothing needs `RefillInv`: what was not
looked up for so long is full.

`LLMEngineProofs`, of the provider alone, from `ProviderAssumption`, for any set of callers,
threshold and number of retries: `ProviderTypeCorrect`, `BreakerTripsAtThreshold`,
`HalfOpenHasAProbe`, from `ProviderInv`. The two properties carry each other: a
half-open breaker has reached its threshold, which is why one failing probe
reopens it at once and no other call can find it half-open without a probe.

`LLMEngineProofs`, of the engine, from `EngineAssumption` and `ProviderAssumption` (at least one pass, some reply, finitely many
investigations), for any replies, passes, retries and threshold:

* `EngineImplementsProvider`: `Spec => ProviderSpec`. The engine calls and receives and touches
  the breaker in no other way, so `EngineSharesBreaker` follows from the theorems about the provider.
* `EngineInvariance`, from which `EngineTypeCorrect`, `ResultsAreGrounded`, `PassesStopJustified` and
  `PassesCountCalls` follow. `PassInv` says how far the loop is ahead of its analysis at each stage: one pass
  while it asks, none while it reads, and one again when that pass was refused or not to be parsed;
  `ReasonInv` carries the reason for stopping from where the loop is left to where `Rank` returns.
  The calls are counted by sets (`Claimed`, `Unparsed`), for a sum over the investigations would
  be an induction.

`SlackAppProofs`, from `SlackAssumption` (one delivery at least, bounds are numbers), for any number of requests,
deliveries and retries, both transports, same or different addresses:

* `SlackInvariance`, from which `SlackTypeCorrect`, `WhoeverAsksHears`, `AckedAreTaken` and `StopDrainsHandlers`
  follow. `HandlerInv` ties each handler to its delivery: the wait group holds it exactly while it
  works for HTTP, and one that is done has been heard. `DrainInv` says that a server that has been shut
  down has no request between its acceptance and `wg.Add`, without which `wg.Wait` would prove nothing.

`LifecycleProofs`, from `QueueAssumption` and `LifecycleAssumption` (at least one delivery, pending
message, slot and life), for any jobs, contents of file and environment, slots and lives, with and
without chi's refusal:

* `StrictIsVerified`, from `ConfigInv`: the configuration is valid from the moment it is loaded and is not
  changed, and nothing is registered before.
* `SignalledRunsAreFinished`, from `PlaceInv` and `SignalInv`. While the wait goes on, and after it,
  investigations begin; that none of them is one that ran at the signal needs that a delivery is
  in one place only (buffer, callback or goroutine), which needs that the number of a new delivery has
  never been used.
* `LifecycleTypeCorrect`, with the bound of the semaphore from `SlotInv`: a callback past
  the semaphore holds a slot in which nobody runs yet.

`DiagnosisProofs`, with the lemmas of `EvidenceProofs`, from `EvidenceAssumption` and `DiagnosisAssumption`
(the collectors are some of the four, states, reasons, trends and texts are those the code knows, minutes and
numbers of files are numbers, an alert has a list of hints), for any collectors, alerts, targets, mapped
repositories, silent queries and answers:

* `DiagnosisInvariance`: `Spec => []IInv`. What the properties say of a finished investigation is not
  inductive; what is, is what the shared evidence is while goroutines still run (`Consistent`):
  of the collectors that returned it holds exactly what their answers say (`Claims`), each item under an ID
  of its own that names the query (`IsEvidence`), and what is about deployments in the order of targets
  (`InOrderOfTargets`). One more collector (`OneMoreCollector`) asks other queries, so its items are
  new; collected one after the other (`SequentialFacts`), the same answers are `Consistent` too.
* `DiagnosisTypeCorrect` and `NothingIsLost` follow: two lists of distinct items with the same range have
  the same length, and every rule rests on items that the timeline shows (`Visible`, `Grounded`).
* `SameDiagnosis` and `PartialIsNotOverconfident` have one argument. `PartOf(E, F)` says that `F` holds `E`
  and nothing else about deployments, those in the same order. Of each rule it is shown that what it
  proposes of `E` it proposes of `F`, no less sure (`CrashLoopCompared` and its five siblings, by
  `NoSurer`): more support, of more kinds and sources, gives no less weight (`WeightMonotone`). Without the
  order of deployments that would be false, for the best of them is the first of the best class. A failed query
  gives `PartOf` one way; another order of the goroutines gives it both ways, so every rule
  proposes the same as surely, the sort is the same permutation (`GreatestFirst`), and the fixes are
  the same (`RemediedAlike`).
* `BestIsKept`: the sort is a permutation along which confidences do not rise (`RankOrder`), the cut
  takes its first five (`Concluded`), and only the fixes of the first hypothesis are touched after it
  (`RemediedFacts`).

What these operators return is proved for sequences of any length. `Pick`, `Select`, `Dedup` and `SortBy` say which
position each item comes from (`Arranged`, by rank), and `Ranks` proves that ranks of a strict total order are
a numbering. `FlattenSeq` is recursive in the community modules: the set of lengths for which it does
what it should holds 0 and with each number the next, and a set of numbers has a least element
(`LeastExists`, `Induction`), which replaces the library's theorems with an operator as parameter.

**Only model-checked.** Everything about liveness (`EveryJobComesToRest`, `BreakerRecovers`, `RankEnds`,
`SignalIsObeyed`, `AcceptedComesToRest`), which is beyond the prover's reach. That the cases these theorems speak of occur at all (overlapping deliveries, five of six rules
at once, a query failing beside one that answers) is shown by the runs and by the mutants they refute.

## 5. What is not modelled, and the plan

Left out for good: formatting (prompt, Slack blocks, API responses), clients of
external services beyond how a call may end (the git provider among them), the API key check, which compares a
header, the REST API, which reads, tracing, migrations and charts. The correlation engine is left out
because nothing reads what it computes.

Every safety property that a passing run checks is proved for all values of the constants. What could be added is an
abstract breaker for `LLMProvider` (what callers may rely on: how many failures in a row are let
through, and that only a success or a probe changes that), with the refinement.
