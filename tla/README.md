# A TLA+ model of the k8s AI remediator

The agent watches Kubernetes Warning events, asks a language model for one
remediation per incident, and carries it out behind a set of policy gates.  These
modules model the parts of it whose correctness depends on order, timing,
failures and several actors.

## 1. Inventory

| Part | Code | State it keeps | Operations | Correct when |
|---|---|---|---|---|
| Remediation loop | `cmd/agent/main.go:698-1061` | clock of the poll, work counter, event in hand | poll, filter, defer, suppress, park, ask, count, act | a signal is asked about only outside its window, attempts are bounded, no event is swallowed |
| Deduplication store | `internal/dedup` | seen keys, signal windows, attempt counters | MarkSeen, IsSignalFresh, MarkSignal, Attempts, IncrAttempt, Evict | windows and counters mean the same with both backends; a failing call costs one promise and never blocks |
| Decision executor | `cmd/agent/main.go:44-545`, `internal/policy` | none (reads the cluster) | policy gates, auto-escalations, dispatch | no mutation without its opt-ins; never a forbidden restart |
| Cluster mutations | `internal/kube` | Deployments and their undo annotation | get-mutate-update with conflict retry, pod deletion, target resolution | no lost update, the annotation undoes the last change |
| Model client | `internal/ollama` | "think" latch | Decide with retries and backoff | bounded calls, stops when cancelled |
| Notifier | `internal/notify` | in-flight semaphore | NotifyDecision, dispatch | never blocks the loop, bounded dispatchers, every slot comes back |
| Decision history | `internal/webui/decisions.go` | ring buffer, mirrored list in Redis | Record, Snapshot | newest first, at most N, nothing invented |
| Configuration forms | `internal/webui/configops.go` | ConfigMap, Secret, annotation of the agent's Deployment | save and roll out, scale, test mail | a save is all or reported, undoes nothing, reaches every pod |
| Scenarios, onboarding, login | `internal/webui/scenarios*.go`, `rbac.go`, `login.go`, `ratelimit.go` | Deployments, Role and RoleBinding, login throttle | apply, clean up, onboard a namespace, login | an acknowledged onboarding leaves a binding; the throttle locks out and recovers |
| Health endpoint | `cmd/agent/main.go:603-643,1120-1140` | leading flag, last poll | start, beat, healthy | a live loop is never killed, a stuck one is |
| Leader election | `cmd/agent/main.go:1242-1279` | Lease (client-go) | acquire, renew, release | one active remediator |
| Registry lookup | `internal/registry` | none | list tags, pick the newest | no other tag on offer is newer, in whatever order they come; a lookup ends within its budget |

How they interact: the loop lists events from an informer cache, consults the
store, calls the model client, executes the decision through the executor (which
reads and writes Deployments), then hands the outcome to the decision history and
to the notifier, which sends mail on its own goroutines.  The web UI runs in the
same process, reads the history and edits the ConfigMap, Secret and Deployment the
agent itself is started from.  Several replicas share Redis and compete for a
Lease.

What is hard: the poll reads the clock once and the store uses it or ignores it
depending on the backend; a decision is marked before it is executed; any step
can be cut by a cancelled context or a crash; replicas overlap around a lease
change; any call of Redis may fail, with or without effect, and a process that
starts without Redis goes on without it; Deployments are edited by others between
a read and a write; the probe that restarts a stuck loop must let a slow one be.

## 2. Modules

```
SignalThrottle            what the deduplication promises, abstractly
DedupStore                the two stores (memory, Redis) as operators
  PollLoop                the loop of one process      -> implements SignalThrottle
    PollHistory           PollLoop, watched on the wall clock
      PollLoop_proofs     about both
Deployment                one Deployment and what each mutation makes of it
  SharedDeployment        the Deployment as everybody may change it
    KubeMutate            get-mutate-update of agents  -> implements SharedDeployment
      Executor            executeDecision above it
Targeting                 from an event to a Deployment
  Executor_proofs         about KubeMutate, Executor and Targeting
AgentHA                   replicas, lease, shared Redis     + AgentHA_proofs
RecentDecisions           the newest decisions, abstractly
DecisionHistory           ring and Redis mirror        -> implements RecentDecisions
                                                            + DecisionHistory_proofs
OllamaClient              Decide                            + OllamaClient_proofs
Registry                  the tag lookup and PickNewest     + Registry_proofs
Notifier                  slots of the mailer
  LoopHealth              loop, heartbeat, probe, election  + LoopHealth_proofs
ConfigRollout             the configuration forms and the pods that read them
                                                            + ConfigRollout_proofs
```

A module below another EXTENDS it.  `MCx` gives the constants of `x` their values
for TLC, together with the `.cfg` files.  The loop, the executor and the client are
not composed into one state machine: each uses the others through a narrow
interface, and the module of the caller makes every outcome of the callee possible.
PollLoop takes any answer and any outcome of an execution at any time;
Executor takes any decision and reaches the Deployment only through the actions of
KubeMutate; OllamaClient knows of the loop only the budget with which it is called; Executor
takes any tag or none as the outcome of the lookup that Registry models.  In LoopHealth a
poll is something that ends in time or never, which is all the heartbeat can see of it;
there the loop and the notifier share one process and one clock.

## 3. From the code to the modules

**PollLoop** (`runLoopWithStore`, `cmd/agent/main.go:698-1061`).  Each call of the
store, of the API server and of the model is a step of its own, so that time passes,
events fire and the process ends between any two of them.  `BeginPoll` is the ticker;
`List` and `ListFails` are the informer's list, the first with `store.Evict`.  `now` is
the clock the poll read, which the memory store goes by for the rest of the poll, while
Redis expires keys on `clock` itself (`StoreNow`).  For one pending event, in an
arbitrary order since the informer's list has none:

| Step | Code | Outcomes |
|---|---|---|
| `Defer`, `SkipOutOfScope` | the filters and the two limits | the poll ends, or the event is none of its business |
| `Take`, `SkipSeen` | `MarkSeen` | new, or known |
| `Suppress`, `Proceed` | owner lookup, `IsSignalFresh` | in a window, or on to the breaker |
| `Trip`, `Consult` | `Attempts` | parked next, or the model is called |
| `Park` | `MarkSignal` of the breaker | |
| `DecideFails`, `DecideSkips`, `DecideActs` | `Decide`, the severity filter, `IncrAttempt` | no answer, noise (silenced), or an attempt counted |
| `OpenWindow` | `MarkSignal` of the attempt | |
| `Execute` | `executeDecision` | |

A store call has an argument `end`: it is `done`, it `failed`, or its answer is `lost`
(`Call`; only Redis fails, `MaxFailures` times in a run).  `Cancel`, `Stop` and
`Crash` cut the loop anywhere.  A process that starts (`Init`, `Restart`) finds Redis as
it was left (`Reconnect`), or works in memory to its end (`StartAfresh`: it is configured
to, or the PING failed), and `kept` is what Redis holds meanwhile.  `pc` is the place in
the loop; `current`, `signal` and `tries` are its locals.  The helpers
`SignalBackoffTTL`, `MeetsMinimum`, `IsOperatorGated` are the functions of the code.

**DedupStore** (`internal/dedup`).  `seen`, `signalExpiry`, `attempts` are the maps
of the memory store and the keys of the Redis store.  For one call there is an operator
for the new value and, where the code answers, one for the answer (`SaysNew`,
`SaysFresh`, `SaysAttempts`, `SaysCount`): a failed call of Redis answers new, not
fresh, no attempts, first attempt.  The backends differ in what survives a restart, in
the instant they compare with, and in that.

**SignalThrottle** is what remains of the loop for one signal: `TakeUp`, `Ask`, `Refuse`,
`Park`, `Count`, `Attempt`, `Discard`, `GiveUp`.  In each, a fault of the store excuses
one thing: one question too early, one attempt not counted, one window not opened.

**PollHistory** adds to PollLoop when the model last answered about each signal, whether
Redis has failed on that very window since, and what the current poll was given and did.

**Deployment, SharedDeployment, KubeMutate** (`internal/kube/kube.go`).  A
Deployment is a record of replicas, containers (limits, image, probes), opt-in
scopes, restart stamp and the undo annotation.  `Mutated(object, request, stamp)`
is the mutation function of each `SetDeployment*`, `Patch*`, `Restart*`,
`Scale*`; `Accepts` its refusals.  An agent goes `Call`, `Get`, `Update`:
an update of a stale copy conflicts and is read again, up to `Steps` attempts
(`retry.DefaultRetry`); any request may fail (`GetFails`, `UpdateFails`).  A dry run
has the paths of the code: a restart or a scaling returns at once (`DryRunReturns`), the
others read the Deployment once, outside the retries, try the mutation on that copy and
drop it (`Validate`).  `Interfere` is any other writer.

**Executor** (`executeDecision`, `cmd/agent/main.go:44-545`, `internal/policy`).  An
action per read of the code: the guard, the escalation of a restart that would be
futile, the floor for an OOM, the registry lookup for an image, and the dispatch
to KubeMutate (`Execute`, then `Proceed`).  Each reads the object as it is then.

**AgentHA** (`cmd/agent/main.go:1242-1279`, `internal/dedup/redis.go`).  The lease is
`holder`; `mode[r]` distinguishes the loop that stops from the one that stands by,
so that two loops may overlap.  Each Redis command is a step; it may fail, and one
that is not answered may or may not have been applied (`Sent`).  A replica that starts while
Redis is away has a memory of its own (`local`), whose answers are left open (`Says`).  `SeenExpires` and
`WindowExpires` may happen at any time.

**Targeting** (`internal/kube/kube.go:105-180`, `cmd/agent/main.go:905-960`).  Owner
references are fixed; objects come and go; every API call is a step which may fail.

**DecisionHistory** (`internal/webui/decisions.go`).  The ring is `buf`, `next`,
`full`; the mirror is `list`, written by a push and a trim that other writers may come between.

**OllamaClient** (`internal/ollama/client.go`).  The token bucket, the attempts, the
backoff, `http.Client.Timeout`, the poll's deadline and the `think` latch.  The seconds
before attempt n, 2^n in the code, are the constant `Backoff[n]`: what holds of a call
does not depend on them.

**ConfigRollout** (`internal/webui/configops.go`).  A form is the API calls of its
handler in their order (general, mail, its password, Redis password, and the restart
alone); a pod reads both objects when its container starts, and panics on a value
that is `Fatal`.

**LoopHealth** (`cmd/agent/main.go:566-643, 741-785, 1049-1061, 1120-1138, 1237-1279`,
the probe of `deploy/agent.yaml`).  `phase[r]` is where the process of a replica is:
`down`, `follower`, `syncing` (elected, `newWarningEventSource` waits for its cache),
`polling`, `idle`, or `wedged` in a call that heeds no context.  `leading` and `age` are
`loopHealth`; `StartLoop` is `health.start` and the first, immediate poll, `EndPoll`
the deferred `health.beat`.  `timer` and `pending` are the `time.Ticker` with its
channel of one.  `Probe` and `Kill` are the kubelet's, `Wedge` and `Exit` the
faults: a stuck loop keeps its lease, because client-go renews it on a goroutine of
its own; a process that ends loses it.  All clocks advance in `Tick`, which waits for
whatever has a deadline.

**Notifier** (`internal/notify/notify.go:74-168`).  `slot[r][s]` is the age of the
dispatcher in a slot of the semaphore; `left[r]` counts the goroutines that are still
in `smtp.SendMail` after their dispatcher gave up.

**Registry** (`internal/registry/registry.go:47-295`).  `Listed`, `Challenged`,
`TokenGiven` and `Fails` are the outcomes of one HTTP request, which takes any time up to
its own timeout and what is left of the lookup's; `ScanTag` is one round of the loop of
`PickNewest`, `Pick` its return.  `Older` is `version.less` over tags that are already
parsed; `NotVersion` stands for those that `parseVersion` refuses.

`PROJECT.json` maps every definition to its lines.

## 4. Runs

| Run | Instance | Question |
|---|---|---|
| `poll_memory` | one incident and an event outside the namespaces, memory store, four attempts allowed, 16 ticks, one restart | do attempts, windows and the breaker obey SignalThrottle through a whole life of an incident? |
| `poll_redis` | two pods of one workload; one attempt, cap 1; Redis, two of whose calls fail; two restarts | what does a failing call cost; is anything marked seen and lost, asked about twice in a window, or left behind without need? |
| `kube_mutate` | two replicas and one in dry run, an operator, two containers, one request outside the policy | is every write one whole mutation of what is there, opted in, within limits and revertible? |
| `exec_policy` | thirteen decisions, two containers, the operator edits everything | does every write pass every gate when written; is a restart that cannot help impossible? |
| `ha` | two replicas, one incident, Redis fails and recovers at any time, replicas start without it | what do overlapping leases and outages cost? |
| `target` | four pods whose names resemble Deployments, every pattern of failed lookups | does a decision act on the workload its event was keyed by? |
| `decision` | two processes, capacity 3, five decisions | does the dashboard miss or invent a decision? |
| `ollama` | two retries, every poll budget up to 14 s, 4 s per request | are requests bounded and does Decide always end? |
| `config` | two saves of any of five forms, one edit by kubectl, one pod | is anything overwritten, and does a save reach the pods? |
| `process` | two replicas, one slot for mails, two faults | does the probe kill a live loop or spare a stuck one, does polling resume, are slots lost? |
| `registry` | every list of at most three of six tags, any tag excluded or none, two schemes | is the pick the newest for any order of the list; does a lookup end? |
| `exec_wrong_container` | small | section 6 |

Why the bounds suffice for what is asked:
- `poll_memory`: windows of 1, 2, 4 and 8 units open one after the other, so the 16
  units reach the fourth attempt, the breaker and its park, where the cap of 8 base
  windows and the limit of attempts meet; a counter expires after 12.  Event keys of
  different versions are independent; the theorems of section 7 are for any number of them.
- `poll_redis`: windows of 2 with polls of at most 3 let a window expire in the
  middle of a poll, and a restart fall between counting, marking and acting.  With one
  attempt allowed a single failure can pass the limit; a second one can lose the window
  of that attempt, or the answer to the check of it; or a process works in memory while
  Redis keeps what the next one finds.  The two events resolve to one signal and are otherwise alike, so they
  are symmetric; the run has safety properties only, for which symmetry is sound.
- `kube_mutate`: after the first, two writes of the object, by two agents or an operator,
  make a copy stale twice, which uses up the two attempts.  The invariants of the copies
  are proved for any number.
- `exec_policy`: one agent at a time executes decisions; two containers are what the
  different rules for finding one can tell apart.
- `ha`: one version and one signal are enough for two replicas to compete for the
  same keys; counters stop at 3, above every bound that is claimed.
- `decision`: five decisions on a ring of three wrap it and overwrite a wrapped slot.
- `ollama`: with the latch, two retries and both timeouts every path through the
  retry loop is shorter than the 20 units of the clock.
- `config`: the two saves may be the same or different forms; `DefaultRetry` has
  five attempts in the code and two here, which the other save and the one edit
  use up.
- `process`: a poll interval of 2 and a deadline of 3 let the ticker fire within a
  poll; an overrun of 3 and a second lost by truncation lie on the edge of what
  `LoopAssumption` admits (one more and `LiveLoopIsHealthy` fails).  Two probes must
  fail in a row, and two faults let a successor get stuck as well.
- `registry`: the tags are two releases that string order would swap, an alias of one
  (`1.9.0`), a variant of the other, `latest` and a word; three of them in every order
  and with repetitions distinguish maximum, last and first.  Timeouts of 2 and 3 units
  stand for 5 s and 8 s: one request fits, a second only in part.

The type invariants of all modules are proved (section 7); those of `ollama` and
`config` are also among the properties of their runs.

`CHECK_DEADLOCK FALSE` stands where the clock or another bound ends a behaviour.
Every property has a mutant: a variant of one definition with a plausible bug
(comments call it "Bug form") under which TLC finds the property violated.

## 5. Fairness

Safety properties are checked without fairness.  Liveness uses only this:
- PollLoop has none: its properties are of safety.
- AgentHA, `WF(Step(r))` per replica: a running loop gets its next store call done,
  with an error if Redis is away.  Neither Redis nor the lease is fair.
- OllamaClient, `WF(Tick)` and `WF(Timers)`: time passes and the Go runtime fires
  timers.  The server need not ever answer.
- LoopHealth: time passes, pods are restarted, somebody is elected, a poll whose
  context has ended returns unless it is stuck, a dispatcher sees its own timeout, the
  kubelet probes and kills.  `Wedge`, `Exit`, `SendReturns` and `LeftReturns` are not
  fair: the SMTP server and a stuck loop need not ever come back.
- Registry, `WF(Next)`: a request is answered or runs into its timeout.
- ConfigRollout, `WF(Controller(p))`: the Deployment controller and kubelet replace
  pods.  The handlers of the forms are not fair; a save may hang.

The assumptions LoopHealth adds about time: what a poll does after its deadline takes
at most two poll intervals (`Overrun + Truncation <= 2 * PollSec`).  After the deadline
the loop still finishes the event in hand: commands to Redis bring timeouts of their own
(at most about 3 s each), the API calls and the model end with the context; about 20 s in all,
against an interval of 30 s by default.  An interval of one second, which the
configuration accepts, does not satisfy it.  A lease whose holder has crashed is free
at once; AgentHA has what happens when it is not.

## 6. Where code and documentation part

One run ends in a violation that the code allows, `exec_wrong_container`:
`withOOMMemoryFloor` (`main.go:507`) finds the container by name or takes the first,
`PatchDeploymentResources` also matches by image, so a container named by its image
gets the size of another one.

Further differences were met while modelling.  No run of its own is kept for them; the
modules follow the code, except for the two of `redis.go:93` and `:153` and for
onboarding, which they leave out (section 8).

| Code | What it does | What is written |
|---|---|---|
| `main.go:778` | with the memory store, windows are counted from the start of the poll and a late decision is silenced for less than the TTL | README.en.md:885, "a single LLM call per `DEDUPE_TTL_SECONDS`" |
| `main.go:875` | the breaker closes 12 base windows after the last attempt, also while the incident keeps firing | README.en.md:446, "only retries after the incident stays quiet" |
| `main.go:877` | the park is 2 base windows with `SIGNAL_MAX_ATTEMPTS` 1 and 4 with 2, the maximum of 8 only from 3 on; `SignalThrottle!Park` promises no more, any of the windows for `SIGNAL_MAX_ATTEMPTS + 1` attempts and up | main.go:871, "parked for the maximum backoff window" |
| `kube.go:309` | an image update does not look at the annotation | model.go:80-83, a per-Deployment annotation guards it too |
| `main.go:512` | the OOM size is taken from one read and written after another; a limit raised in between is lowered | main.go:498, "only raise toward it" |
| `main.go:373` | a retag of a container found by image takes the first container's image | kube.go:591, "preserving registry host and repository path" |
| `main.go:1261` | the lease is released before the loop ends, so two loops may overlap | README.en.md:1151, "a single active remediator" |
| `redis.go:99` | an outage makes every version new at every poll and silences nothing; what one failing call may cost is in `SignalThrottle` | README.en.md:82, "behaves as if dedup were in-memory" |
| `main.go:1228` | a process that starts without Redis stays in memory after Redis is back; the windows and counts of the others do not bind it | README.en.md:82, as above |
| `main.go:810` | with a cap, events that fire new versions faster than they are worked off may take the cap of every poll; the list has the order of a map and nothing keeps a turn for the others | main.go:804-806, "an event skipped here is genuinely retried on the next poll" |
| `kube.go:222` | a dry restart or scaling succeeds for a Deployment that does not exist; the other dry runs read it | kube.go:300, by which a dry run is to "Validate without mutating so callers get feedback" |
| `kube.go:128` | any failed lookup counts as a missing object | kube.go:115, "Only when the ReplicaSet is also gone" |
| `main.go:953` | without an owner the Deployment the model names is taken | main.go:937, "only target the object ... of the event" |
| `kube.go:141` | a standalone pod "a-b-c" is still mapped by name to Deployment "a" | kube.go:114, which says it is not |
| `decisions.go:176` | after a failed push the page omits a decision the ring holds | decisions.go:47, "degrades to memory-only" |
| `main.go:816` | `OLLAMA_HTTP_TIMEOUT_SECONDS` 180 with `POLL_CONTEXT_TIMEOUT_SECONDS` 190 passes the correction in `config.go:238`, but the loop wants 15 s more and defers every event of every poll | main.go:803-806, which defers only events that would be cut off |
| `notify.go:158` | the goroutine in `smtp.SendMail` has no deadline and outlives its dispatcher; with a server that accepts and never answers their number grows without bound | notify.go:81, "cannot spawn unbounded dispatchers and exhaust goroutines" |
| `redis.go:153` | INCR and EXPIRE are not a transaction: cut in between, a first attempt stays without expiry, and with a limit of one the breaker of that signal never closes | redis.go:145-148, the counter "only resets after the incident has been quiet for the whole window" |
| `redis.go:93` | go-redis repeats a command whose answer is lost; the repeated SETNX finds its own key, and the version is taken for seen although nobody was told it is new | redis.go:96, which fails open because otherwise it "would silently drop events" |
| `registry.go:271` | a hash that begins with a digit, such as `7f3a`, counts as version 7; a downgrade or another variant is taken if nothing else is on offer; an image without a tag excludes nothing, so the implicit `latest` may be picked again | registry.go:231, "the highest version-like tag" |
| `rbac.go:152` | two onboardings that replace a RoleBinding can leave none, after both have read the old one | rbac.go:71, "Role and RoleBinding applied" |
| `configops.go:320` | the general form saves a poll interval of 0, with which `time.NewTicker` (`main.go:755`) panics at every start of a leader | configops.go:309, the allowlist keeps out "self-trapping settings" |
| `client.go:304` | the error of `http.Client.Timeout` matches none of the retryable texts | client.go:302, timeouts "are retryable" |
| `configops.go:478` | the saved Redis password is shadowed by `env` of deploy/agent.yaml:159 | configops.go:283, pods "pick up the fresh ... Secret" |

## 7. What is proved

`tlapm` checks the eight `_proofs` modules.  The theorems hold for every value of the
constants that satisfies the ASSUME of the module: windows and TTLs are positive
(`LoadFromEnv` corrects others), limits are natural numbers (0 switches them off),
`Steps` is positive, special values such as `NoSignal` are no ordinary ones, the replicas
are finitely many, and the Deployment that is created is one the API server takes.  The
clock, versions, restarts and the like are bounded by constants that are themselves
arbitrary natural numbers.

- **PollLoop_proofs.**  All of it holds with either store, for any number of failing
  calls, fallbacks and restarts, with what a failure costs in the statement.
  `TypeCorrect` is inductive by itself.  `BreakerBoundsAttempts` is not: when an attempt is
  counted the limit was looked at earlier, before the call of the model.  `BreakerInv`
  adds that the signal in hand is still below the limit and the calls that failed
  (`CheckedBeforeCall`), which holds because other steps only lower its counter; that a
  signal is parked only for attempts it has made (`TriesCounted`); and that a process
  configured for memory is in memory (`MemoryIsMemory`).
  `SilenceIsBounded` goes through `WindowStep`: a step leaves a window, forgets it, gets it
  back from Redis or opens it for one to eight base windows from the instant of the store.
  `NothingSwallowed` follows the event in hand from one pc to the next, also into
  the tables that wait in Redis.  `LoopImplementsThrottle` is the refinement: one lemma for
  each action of SignalThrottle (an eviction is an `Advance`, a restart one of four
  `Restarts`, opening the breaker a `Refuse` and a `Park`), and `BreakerInv` for the limit
  that `Count` keeps to and the loop has checked earlier.  The abstract module copies no
  formula for the park: any window for more attempts than are allowed will do.
  `CallsAreAWindowApart` is about the loop as PollHistory watches it, which adds no
  behaviour (`HistoryObserves`): an answer whose window is not over still silences its
  signal, unless Redis has failed on that window (`AnsweredIsSilenced`).  The memory store
  counts from the start of the poll, and forgets with its process; `OneCallPerWindow` says
  so.  `PollsShare` relates what the poll was given to what is pending, handled and counted
  (`PollInv`), and needs `NothingSwallowed` for the events that it finds marked.
- **KubeMutate** (in Executor_proofs).  The inductive invariant `KubeInv` joins the types,
  `CopiesAreTrue` (a copy with the current resourceVersion is the object) and
  `WritesInFlight` (what is to be written was accepted on its copy).  At an update
  the two give that the mutation is one of the object itself
  (`WriteMutatesTheObject`), hence the refinement `ImplementsShared`, and from it
  `NeverClobbers` and `OptedInAtCommit`; `KeepsToPolicy` says that nothing refused at once
  is ever under way.  On the abstract side
  `IsDeployment` (distinct names, well-formed probes and quantities, requests within
  limits) is kept by every mutation and every edit; through the refinement it holds of
  the object too: `StaysADeployment`, `RequestsNeverExceedLimits`.  It is also what the
  revert needs: a container is found again by its name, and a value put back over what
  replaced it is the one that was there (`LastChangeGivesBack`).
- **Executor** (in Executor_proofs).  `ExecInv` adds to the copies of KubeMutate what a decision has
  gone through at each place (`Vetted`): past the review it is no futile restart, past
  the gate its patch is allowed, and one sized from a limit has its headroom.  Each step
  that changes a decision keeps what lies behind it; where the executor reads a limit,
  `IsDeployment` says that the container is there.  `GatesHold`, `NoRestartIsFutile` and
  `HeadroomIsGiven` follow with `MutatedContainer`: what is written is the mutation of
  the object as it is.
- **AgentHA_proofs.**  `HAInvariant`: Redis holds every version it has called new
  until it expires, whatever answers are lost; so `NewToOneOnly`, for any number of
  replicas and any overlap of leases.  The two bounds are not inductive either: a replica
  that is past the check may still count.  So the replicas past it are counted with the
  attempts (`NextBudget`: together no more than the limit less one plus all replicas) and
  with the decisions of an open window (`NextShared`); a step moves one replica at most.
- **Targeting** (in Executor_proofs).  `TargetingInvariant` relates the key, the pinned
  parameter and the place in the search at each step; `ActsOnItsSignal` follows.
  `OwnersBeatNames` adds `Orphaned`: a search by name has begun only because an
  owner could not be followed.
- **LoopHealth_proofs.**  Neither promise of the heartbeat is inductive.
  `HeartbeatInv` says for each phase what bounds the age of the stamp: between polls
  the ticker, in a poll the interval before it and the time spent in it; and once it is
  older than the threshold, the probes that have failed since and the time since the
  last one.  `LiveLoopStaysHealthy` follows with `LoopAssumption`, for any intervals
  and deadlines that satisfy it; `StallIsNoticedInTime` follows because the kubelet
  acts on the last probe before more time passes.
- **Registry_proofs.**  `version.less` is a strict, transitive order (`OlderIrreflexive`, `OlderTransitive`, and `OlderUnbounded`, which
  frees it from the lengths of the two versions).  So the scan keeps the best tag so far
  (`ScanInv`), whatever the order of the list: `PicksNewest`.
- **DecisionHistory_proofs.**  `TypeCorrect`: with `InHand`, a decision on its way
  has been counted, neither the ring nor the mirrored list holds anything that was
  never decided.  `RingImplementsRecent`: read backwards from the next slot, modulo the
  capacity, the ring is what the abstract list becomes (`RingGrows`, over
  `Backwards` and `PushedAndCut`), whether it is filling, full or wrapping.
  `MirrorMissesNothing` counts what is pushed on top of an entry of the list
  (`FewSmaller`): later decisions, and of each other process at most one that was
  recorded before it and is on its way.  So an entry is never further back than
  `PositionBound` says, and what LTRIM cuts off is old (`StaysKept`).
- **OllamaClient_proofs.**  The promise of the budget is about one step, the first request,
  while the time for it is put aside when the loop calls `Decide`.  `CallInv` carries it
  there: as long as nothing was sent, the deadline leaves a whole timeout now and when the
  token comes (`TimeIsLeft`).  That needs the assumption that `CallMargin` covers
  the lookups and one period of the limiter, which is what the margin is for; the
  code does not enforce it, and an `OLLAMA_RPS` far below 1 would break it.  `Counted`
  bounds the requests by the attempts of the loop the call is in, plus one loop if the
  latch is set (`Spent`): the latch is never reset, so `CallsAreBounded`.
- **ConfigRollout_proofs.**  `PodsReadWhatWasSaved` is not inductive: a pod that is ahead of
  every save so far must not turn stale when the next save asks for its revision.
  `RolloutInv` adds that versions only grow (`VersionsGrow`: what a save wrote is no newer
  than what is stored), that a save asks for a revision last, once, and above all
  those the pods have (`RolloutIsLast`), and that its objects are written before
  (`SavesInOrder`).  `NothingIsLost` rests on `CopiesAreTrue`: a copy about to be put is
  what is stored, unless its version is no longer current, and then the put conflicts.
  `SavesAreComplete` is a promise no run checks: an acknowledged form has written both
  objects it had settings for.

Each module has a theorem `TypeCorrect`, for Targeting `TargetingTypeCorrect`; the types of
Executor are the first conjunct of `ExecInv`.

Two things shaped the modules.  The provers know of `2^n` only that it is an integer, so
`Backoff` is a constant.  And where a proof would go by induction over data it takes a
least element instead (`LeastOf`, from `WFMin` of WellFoundedInduction), as for the first
container of a name; what fits no such form stays with TLC.

## 8. What is not proved, and what is not modelled

Only model-checked: liveness (`DecideReturns`, `SavesReachPods`, `OutageNeverBlocks`, `PollingResumes`, `SlotsComeBack`,
`LookupReturns`), which needs fairness and ENABLED.  Every other property of a passing
run is the statement of a theorem.

Not modelled:
- scenarios (`scenarios*.go`): applying or removing one is a single API call for its
  one Deployment, and monitoring reads only;
- onboarding (`rbac.go`): three pairs of Get and Create or Update.  Its one hazard is
  the replacement of a RoleBinding that points elsewhere, a Delete and a Create:
  a failure in between, or a second request that had read the old one, leaves none;
- login and sessions; the read-only pages; metrics; the text of prompts, mails and
  answers, of which the modules keep only the choice; the installation script and the
  manifests beyond the probe;
- `ParseRef`, which splits an image reference; the replica form (one GetScale and
  UpdateScale) and the validation of single values in the forms.

Within what is modelled:
- `SetDeploymentImage` and its kin keep the data the properties distinguish: a handful of
  quantities, two containers, tags as names.  The two deletions of a pod, one
  unconditional call each, are left out.
- A dry run reaches no write in KubeMutate because its paths have none.  That every
  function of the code branches on the flag before its first write was read, not checked.
- INCR and EXPIRE are one command in PollLoop and AgentHA, and no client repeats a command
  whose answer is lost: SETNX, INCR or, in DecisionHistory, the pipeline of LPUSH and
  LTRIM, which a repetition would enter twice.
- Redis keeps its keys until they expire.  With `allkeys-lru` (deploy/redis.yaml) it may
  evict a window, a counter or the list of decisions before that; AgentHA covers this for its
  keys, which expire at any time, PollLoop and DecisionHistory do not.
- No event is promised a turn: a cap that others use up at every poll, a poll timeout that
  never leaves time for a call, and an informer whose list fails forever all leave an event
  unseen.  `PollsDoTheirShare` is about what one poll does.
- The memory a replica of AgentHA falls back to answers anything; PollLoop has its contents.
- OllamaClient bounds the lookups before the call by `CallMargin` (section 7).
- The containers of ConfigRollout read the objects as they are; the cache of the kubelet,
  from which it may resolve them late, is left out.

## 9. Plan

1. AgentHA with a pipeline cut between INCR and EXPIRE and a client that
   repeats a command; evicted keys in PollLoop and DecisionHistory.
2. Onboarding: two requests for one namespace, and what is left of the binding.
3. Proofs: the bounds of Notifier apart from LoopHealth, and the safety of item 1 once it
   is modelled.
