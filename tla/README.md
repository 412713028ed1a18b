# K8s-SRE-AI-Agent in TLA+

A verification development of the agent in `src/`: TLA+ modules translated from its
Python, TLC runs over small instances, and theorems checked by TLAPS for every value of
the constants. Paths below are relative to `src/src/k8s_sre_agent/` unless they start
with `webapp/`.

## 1. Inventory

The agent is a read-only MCP server. A client's HTTP request passes the **gateway**
(authentication, rate limit), reaches a **tool**, which asks the **cluster manager** for
a client and reads the Kubernetes API (or Prometheus, Loki, ArgoCD, GitHub, GitLab).
The tool `rca_diagnose` runs the **RCA engine**. A **knowledge base** serves runbooks, and
a **dashboard** offers the same tools with a chat.

| Component | State it keeps | Operations | Hard behaviour | What makes it correct |
|---|---|---|---|---|
| Rate limiter `ratelimit.py` | bucket per principal; in Redis: key, tokens, timestamp, TTL | `allow` | replicas' clocks differ, readings are old when the script runs, the key expires, an answer is lost | no window gets more than burst + rate × length; nobody entitled is refused; the shared bucket is the in-memory one |
| Gateway `middleware.py` | counters | one request: bypass, 401, 429, forward, 500 | limiter raises after it charged | every request accounted for, paid once, the limit holds end to end |
| Inbound authentication `auth.py:36-73` | – | verify, authorize | key fetch fails | outcome decides 401 or on |
| Cluster manager, outbound auth `clusters.py`, `auth.py:78-175` | `_manager`, client cache, lock, EKS token cache, the library's default configuration | `manager`, `guard_namespace`, `clients` | racing first calls, a two-step construction over global state, tokens that expire, builds that raise under the lock | the client is of the cluster asked for, namespaces stay within the allow-list, tokens are fresh, calls end |
| Tool guard `resilience.py`, `observability.py` | metrics | wrap a call | any exception | one outcome per call |
| RCA correlation `rca/correlate.py` | – (a function of histories that evolve) | `first_failure_time`, `find_recent_change` | events fold and expire, histories come in different orders, timestamps may not parse, Secrets forget their past | the blamed change precedes the failure and is the closest; the rollback target is the release before |
| RCA detectors `rca/detectors.py` | registry | 15 rules, `evaluate` | signatures overlap and compete | the ranking; a claim of absence needs a read that succeeded |
| RCA engine `rca/engine.py` | – | resolve, list, fan out nine reads, report | any read fails, the pod is replaced midway | evidence is the subject's own; failures degrade, are noted, and add nothing |
| Tools `tools/*.py` | – | guard, client, reads, format | several reads in a call, some swallowed | no read leaves the tenant, whichever tool makes it |
| Mesh analysis `tools/istio.py` | – | four reads, one analysis | the mesh is edited between the reads | what is wrong all the time is found; what was never wrong is not reported while the mesh grows in order |
| Incident tools `tools/incidents.py`, `_http.py` | – | search, post, both with retries | a post acted on whose answer is lost, copies that arrive late | what is said of a message is true of it; nothing refused is ever posted; the call ends |
| Knowledge base `rag/*.py` | documents, chunks | ingest, search | ingestion again, failure between inserts | one copy of a document, whole or not at all; scoped results |
| Dashboard server `webapp/server.py` | – | probes, overview, chat routes | `run_chat` and the probes hold the event loop, probes outlive their timeout | one probe at a time; every request is answered |
| Sign-on `webapp/auth.py` | discovery cache (the session is in a signed cookie) | login, callback, session check | expired transactions | not modelled |
| Chat `webapp/chat.py`, `agent_tools.py` | a conversation per request | the tool loop, the event stream | tool and API errors, the bound on rounds | every tool use is answered in the next turn, the replies are bounded |
| Page `webapp/static/app.js` | history, Send button, bubbles | chat, Diagnose, overview, drill-down | overlapping questions, answers that break off | the history is what was said; the button comes back |
| Configuration, entry `config.py`, `server.py` | – | start | – | not modelled |

Components interact by calls (gateway → limiter → tool → manager → API), by shared
state (Redis, the library's default `Configuration`, the client and token caches) and
through the external API server, whose state moves between two reads.

## 2. Modules

| Module | Models | Notes |
|---|---|---|
| `TokenBucket` | `TokenBucketLimiter` | also the abstract specification of the limiter |
| `RedisLimiter` | `RedisTokenBucketLimiter` and its Lua script | extends `TokenBucket`, refines `BucketSpec` |
| `Gateway` | `build_asgi_app.gateway` with `verify_bearer_token` and metrics | extends `RedisLimiter`: composes the two |
| `Clusters` | `ClusterManager`, `manager()`, `build_kube_config`, `_eks_token`, `tool_guard` | threads, one `pc` each |
| `Correlate` | `correlate.py` | operators only |
| `Incident` | the records that correlation reads, over time; the failure anchor of `engine.py:264-278` | extends `Correlate` |
| `RcaDetectors` | `detectors.py` | operators only |
| `Diagnose` | `collect_context` and `diagnose` | extends `RcaDetectors` |
| `KnowledgeBase` | `ingest.py`, `store.upsert_chunks`, what `store.search` may see | runs of the ingestion command, one `pc` each |
| `Conversation` | what the chat promises | the abstract specification of `Chat` |
| `Chat` | `stream_chat`, `run_chat`, `_fallback` | instantiates `Conversation` under a refinement mapping |
| `Dashboard` | `sendMessage` and the buttons, `api_clusters` with `_reachable`, the chat routes | extends `Chat`: page, event loop and chat composed |
| `Notify` | the incident tools, with `get_json`/`post_json` and the guard around them | one call and its copies on the network |
| `Mesh` | `istio_mesh_analyze`, with `analyze_mesh` as operators | one call and the edits during it |
| `Tools` | a call of either kind | extends `Notify` and `Mesh` |
| `RedisLimiterProofs`, `GatewayProofs`, `ClustersProofs`, `IncidentProofs`, `DiagnoseProofs`, `KnowledgeProofs`, `DashboardProofs`, `ToolsProofs` | theorems | each extends the module it is about; `RedisLimiterProofs` has those of `TokenBucket` too |
| `MC*` | constants for TLC | |

**Limiter.** Time is a counter of ticks. `tokens` are in units such that one tick adds
`Rate`; `Cost` is the price of a request. The reading of the clock a caller uses lags the
instant its bucket is updated by at most `Lag` and a replica's clock leads the slowest by
at most `Lead`. `used[p][t]` is a history variable: the units granted to `p` since
instant `t`; `WindowBound` is stated of it. `RedisLimiter` splits a call in `Call` (the
clock is read, the script sent), `Script` (atomic in Redis), `Return` and `Fail` (the
answer, or an exception before or after the script ran). A key whose time to live is
over is absent for the script, while the refinement keeps its last tokens and timestamp:
`BucketSpec` as a property says that the expiry changes no decision.

**Gateway.** `gateway()` verifies and limits synchronously on the event loop, so a
replica whose limiter call is outstanding takes nothing else (`Free`). A 500 because the
limiter raised is `LimiterError`. The public paths change nothing: `Public` stutters.

**Clusters.** A tool is a `Program` of operations: `manager`, `guard`, `clients`, a `read`
whose exception ends the call, and a `try` whose exception is swallowed. `pods` stands for the
tools with one namespaced read, `nodes` for the cluster-scoped ones, which have no namespace to
guard; `mesh` guards each of its four reads; a diagnosis guards once, at its start, and asks
for clients again and again (once more on the way to a Job). A thread runs the operation
that its `step` names: `enter` (the test of `_manager`), `create` and `fetch`; `guard`;
`lock`, then, on a miss, `load` and `construct` for the modes that go through the library's
default `Configuration`, or `token` for EKS and Azure; `read` or `try`. Nothing but the
program says whether a namespace is checked before it is read: `TenantIsolation` fails of
programs that leave a guard out or call it late (`LateGuards`). `manager` names the thread
that built it; each has its own cache and lock.

**Incident.** The cluster acts (`Sync`, `Deploy`, `Rotate`, `Start`, `Stop`, `Unhealthy`,
`Crash`, `Tick`; external), `Resolve` is the moment `collect_context` learns the names of the
pods, and `Blame` is what `find_recent_change` would answer at any moment from then on, so
that pods come and go between the two. The pods are numbered in the order the API lists
them: `Target` is `pod_names[0]`. Its start alone is read (`TargetStart`, none if it is gone or
has not started), while any listed pod that crashed (`Seen`) makes the failure as old as that
start: `Anchor`. A name may come back, as a StatefulSet's do; events are kept by name and outlive
the pod. An event is kept per reason with the time of its *last* occurrence, as Kubernetes
folds repeated events and as the code reads `last_timestamp`; `began` is the history
variable with the true beginning of each pod's failure. The reads between `Resolve` and the
answer are taken at one moment. All three histories are given, as the
function and its tests take them; `diagnose` itself supplies the Secrets only. A candidate
is named by its position among the changes, in the order the loops append them: what the
stable sort makes of two changes at one instant depends on it (`Follows`).

**Diagnose.** A context is abstracted to the signals that rules test: a log is the set of
kinds of line, a message the phrase looked for. Events and nodes are named by their position
in the list that was read, since some rules take the first. Names are sequences of their dash-separated
parts, which is what `_relevant` compares. A pod has its containers in the order of its status:
the overview takes the first that waits and the first that has terminated (`FirstReason`), the
description has them all. The resolution is one action per attempt, each
of which may fail although the object exists; a failure after an assignment keeps the
assignment, as `_try` does. The fan-out is one action that chooses the reads that fail:
its reads write disjoint results and the pool is left when all have ended, so their order
shows in nothing. A pod replaced under them shows as a description that is gone. Where the
code tests one condition after another, so does the model (`DbConnection`, `LogRead`): the
conditions overlap, and the order decides. A waiting image has two names, of which the
rule reports the first of those it sees (`FirstOf`); a read that fails may so rename an issue
without adding any, and `Cause` is the issue up to that.

**KnowledgeBase.** The connection commits each statement, so the row of a document and the
row of each chunk are actions of their own (`InsertDocument`, `InsertChunk`), and other runs
insert, fail and end between them. `Fail` stands for anything that raises, also a commit
whose answer was lost: the run stops where it is and leaves its rows. A file has editions
(`Edit` is somebody's commit); a text is only the number of its chunks, `ChunksOf`. The
row policy is forced and its USING clause also decides on inserts, so a role that it binds
(`Bypasses[r]` false) inserts the document, then is refused its first chunk; a role that it
does not bind ingests. Searches connect with a role that it binds, as the deployment guide
asks and the integration test does. `Hits` is everything a search could return: ranking and limits
choose among it.

**Chat and Dashboard.** `Conversation` knows only turns: `Open`, `Reply`, `Answer` and
`End`. `Chat` is the loop: `Ask` (head of the `for`), `Finish`, `Raise` or `Use` (how the
reply ends), `CallTool` per block, `Answer`, and `Stop` when the rounds are over. A tool
use is an id; a result, an exception and an unknown name all make one result with that id.
The mapping keeps `turns` as they are and counts a round as spent when its reply asks for
tools. `stream_chat` is a synchronous generator in a thread pool: its steps interleave
with everything, but an event is sent by the event loop and waits while that is held
(`OnLoop`). `run_chat` is called *on* the loop by `api_chat` and holds it to its end
(`loop = c`); so does `api_clusters`, which probes its clusters one after another.
`probing` holds the clusters whose probe thread runs, whoever waits for it: `Submitted` starts
one, `ProbeEnds` ends it, `TimesOut` is `result(timeout)` raising while it runs on, and `Leave`
is the end of the `with` block, whose `shutdown(wait=True)` waits for the thread either way. So
the timeout decides what is said of the cluster but does not bound the request, although
`webapp/README.md:36` calls the probe bounded; `OneProbe` is what the wait buys: without it
(`LeaveEarly`) the threads of a cluster that hangs pile up. On the page one callback runs
to its end: `SendMessage` is everything up to the first `await`, `ReadEnd` and `ReadError`
what happens when the body ends or breaks off; the deltas between change only what is
shown. A 401, an empty message, and sign-on are left out.

**Notify.** An attempt sends a copy. `Lost` gives it up (a timeout, a broken connection)
while the copy may still arrive (`Arrive`, external: the service acts on it or not, and
answers or not); `GiveUp` retries or raises. `Receive` takes an error status (retried),
a body that is no JSON (raises) or an answer; only Slack says `"ok": false` in an answer of
status 200. The waits between attempts only pass time. That a message said to be posted is
shown rests on what a 2xx means: a service that answers 200 and drops the message is outside
the model.

**Mesh.** The operators carry the names of the findings they make and give sets where
`analyze_mesh` appends to a list. `List` reads one kind of object; between two of them
`Edit` (external) adds or deletes an object. `IsFault` says what is wrong with a mesh in
terms of its objects; `ever` and `always` are history variables, the faults there were at
some and at every moment of the call. Hosts and names are compared as they stand, which is
what the code does, so they are ids. The code strips a `namespace/` prefix from a gateway
reference and looks the rest up in this namespace; the model has references into the own
namespace only.

## 3. Runs

| Run | Checks | Bounds, and why they are enough |
|---|---|---|
| `redis_limiter` | `RedisTypeOK`, `WindowBound`, `BucketSpec`, `DenialJustified` | one principal (the buckets are independent), two replicas a tick apart, readings a tick old, 6 ticks against a time to live of 5: keys expire and refill within a run |
| `gateway` | `GatewayTypeOK`, `Accounting`, `ChargedOnce`, `EndToEndLimit` | two principals, two replicas, four requests: more than a burst of each |
| `clusters` | `TypeOK`, `RightClusterIfShared`, `TenantIsolation`, `FreshWhenBuilt`, `EveryCallEnds` | two calls, by one thread or two at a time, of any of four tools over two kubeconfig clusters, which share the default configuration, and an EKS cluster, tokens that expire within a run. `diagnosis` is the longer `job_diagnosis` less one `clients` and `try`. The Azure mode is the EKS one without its token cache; the theorems cover all modes, tools and numbers of calls |
| `incident` | `TypeOK`, `BlamePrecedesFailure`, `ClosestBlamed`, `RollbackIsPredecessor` | two pod names, so that the first listed may be the younger, be gone or come back; up to three releases recorded and pods alive together (`MaxBusy`), of two revisions; a Secret, two ticks and events kept for one: an event may expire, be moved, and a change fall on each side of it. One reason of events suffices, since the two pods have events of different ages. Revisions are symmetric |
| `diagnose` | `TypeOK`, `ScopedPods`, `ScopedEvents`, `DenialsNeverAbort`, `UnsupportedIsNoted`, `DenialsOnlyRemove`, `DnsBeforeDatabase` | 49 clusters that give every detector its signature, alone and in competition, among them one whose two containers wait for an image, each under another name of the reason, and ones in which the first container, or only the second, is the one to report; up to three failing reads besides those of a pod that is gone |
| `knowledge` | `TypeOK`, `ReportedWhole`, `ScopedSearch`, `PartialsAccounted`, `FreshWhenDone` | three runs: two of one tenant over one file that is edited once, one of them over a second file that is empty at first, and one of another tenant over a file of the same name; texts of up to two chunks, so a run can be overtaken between the inserts of one document |
| `dashboard` | `DashboardTypeOK`, `HistorySound`, `FormNeverOverlaps`, `OneProbe`, `ChatImplementsConversation`, `EverythingAnswered` | two requests, each from the form, a Diagnose button or another client: two questions overlap, or one has to wait for `run_chat`; two rounds instead of 8, enough to use tools, answer them and run out; replies of two tool uses or of text; two overviews of two clusters, whose probes end in time, late, or between any steps of both |
| `tools` | `NotifyTypeOK`, `PostAccounted`, `FaultsReported`, `NoFalseAlarm`, `EveryCallEnds` | the three attempts of the code; a service, two rules for its host, three policies of which the first has a selector, a gateway: each fault can come and go; two edits, before or after any read, from every mesh of these objects |
| `clusters_race` | `ClientMatchesCluster`, violated | |
| `clusters_token` | `FederatedAutoRefresh`, violated | one thread |
| `incident_replicas` | `BlamePrecedesEveryFailure`, violated | at most two pods or releases together |
| `diagnose_selector` | `SelectedPodsOnly`, violated | |

A passing run states what holds of the code as it is; where a statement of the docs or
comments does not hold, a run of its own shows the behaviour that contradicts it:

- `clusters_race`: two first calls race through `manager()`, build two managers with two
  locks, and a client copies the default configuration of the other's cluster.
- `clusters_token`: the cached client of an EKS or AKS cluster keeps its first token.
- `diagnose_selector`: a Deployment that selects by `matchExpressions` only is diagnosed
  from every pod of the namespace.
- `incident_replicas`: one pod has been failing since before a Secret was rotated; then a
  sibling starts that the API lists first. Its start becomes the time of the failure
  (`rca/engine.py:153-158` reads the first pod's, `269-272` asks whether any has crashed), the
  events that would tell better have been moved or have expired, and the rotation is blamed.

More behaviours are known, and stated by no run of their own. A file that is ingested again
has two documents, each with its chunks: `rag/store.py:98` inserts and nothing removes,
although `rag/ingest.py:6-7` and `docs/rag.md:28` say that the old chunks are replaced. A log
that says "server misbehaving" is a failed resolution to `dns_failure`
(`rca/detectors.py:531`) but not to `crashloop_db_connection`, which then ranks the database
first. A Secret rotated under a
pod that ran well and then crashes in place is later than "the start of the failure", which
is the pod's start (`rca/engine.py:273`), and is not blamed. A refused read of the Services
makes a database that exists a missing dependency (`rca/engine.py:240`); `UnsupportedIsNoted`
says that such a report notes the read that was refused, unless it rests on an unread log.

The passing properties carry the matching conditions in the open: `RightClusterIfShared`
speaks of behaviours with one manager, `ScopedPods` of workloads with `matchLabels`,
`DenialsOnlyRemove` excepts the services, events and logs, `ScopedEvents` the names that
begin a pod's name, `RollbackIsPredecessor` two releases at one instant, `DnsBeforeDatabase` is
of the phrases that `crashloop_db_connection` yields to, and `BlamePrecedesFailure` of the first
pod and of those that began to fail after it had started. `TenantIsolation` says of the
client's own cluster what it says of the named one only in behaviours with one manager.

**Fairness.** All of it is weak, and of steps the code itself takes or waits for.
- `clusters`, `clusters_token`: each thread's own steps. A Python thread that can run does,
  and a library call it waits for returns or raises. The code sets no time limit on
  Kubernetes calls, so the second half is an assumption on the client and the network, and
  `EveryCallEnds` is to be read with it. Calls are finite in number (`MaxCalls`), so weak
  fairness also gives the lock to each waiter. The clock is not fair.
- `dashboard`: the server's steps for each request, the page's reading of what arrived, and
  the overview's probes. The model API answers or raises (its client has time limits), tools
  return or raise, a probe ends (again an assumption on the Kubernetes client). Requests and
  overviews are finite in number. Nobody has to ask: `Submit`, `Diagnose`, `Post` and `Poll`
  are not fair.
- `tools`: the steps of a call that has begun, as one action. `httpx.Timeout(10, connect=5)`
  bounds each attempt, so an attempt under way ends by itself (`Lost`). Nothing obliges a
  copy to arrive or somebody to edit: `Arrive` and `Edit` are not fair.

The limiter and the diagnosis are checked for safety only: nothing in the code bounds a
call to a Redis or API server that does not answer.

Runs with `CHECK_DEADLOCK FALSE` are those whose system stops: calls (`clusters*`,
`tools`), questions (`dashboard`) and diagnoses (`diagnose*`) come to an end. The limiter
and the incident never do: requests, rotations and crashes stay possible. `knowledge*` stop
too, when every run has ended.

## 4. Theorems

All are proved without bounds: any sets of principals and replicas, any rate, burst, cost,
skew and delay. `MaxTime` bounds the clock but is itself any natural number.

`RedisLimiterProofs`, of the bucket in memory:
- `BucketTypeCorrect`: types.
- `BucketWindowBound`: `WindowBound`. It is not inductive: it says nothing of the tokens
  left. The invariant (`BucketInv`) adds, for each principal and each instant `t`, that the
  units used since `t` *plus the tokens left* are within a burst and the inflow from `t` to
  the last update; a grant moves units from one side to the other, a refill adds no more
  than the inflow, the cap only loses.
- `BucketDenialJustified`: every refusal leaves some window whose unused allowance is less
  than the request costs; from the same invariant with the bound met from below.

Of the bucket in Redis:
- `RedisTypeCorrect`: types, whatever the time to live.
- `RedisImplementsBucket`: `RedisSpec => BucketSpec`, under `TtlCovers` (an expired bucket
  would be full again at any reading that can still arrive:
  `Rate * (Ttl - Lag - Lead) >= Burst`). The invariant relates each call in
  flight to the clock (`CallFresh`: its reading is within the assumed delay) and each key to
  its last update (`KeyFloor`). From it a script on an expired key computes the same tokens
  as one on the kept bucket (`RefillsAgree`), so every `Script` is an `Allow` and every
  other step a stutter or a tick.
- `RedisWindowBound`, `RedisDenialJustified`: follow from the refinement, under `TtlCovers` too.
- `SharedTimeBaseCovers`: with no skew or delay, the TTL the code computes always covers.
  With the defaults (5 per second, burst 30, TTL 7 s) one second of skew and delay together
  is tolerated.

`GatewayProofs`, for any replicas, principals and number of requests:
- `GatewayImplementsRedis`: `GatewaySpec => RedisSpec`. `Accept` is the limiter's `Call`,
  `Limit` and `Forward` are its `Return`, `LimiterError` is its `Fail`, and the refusals
  leave its variables alone, so all of the above holds under the gateway.
- `GatewayChargedOnce`, whatever the time to live: `ChargedOnce` puts what a principal has
  used between the price of what was forwarded or is granted and in flight, and that plus the
  price of the failed limiter calls; it needs the counters typed (`CountersOK`) and each step
  shown to move one unit between two of its sides.
- `GatewayEndToEndLimit`, under `TtlCovers`: follows from it and `RedisWindowBound`.
- `GatewayDenialJustified` (`DenialJustified`), under `TtlCovers`: nobody behind the gateway is
  refused while entitled.
- `GatewayAccounting` (`Accounting`), `GatewayTypeCorrect` (`GatewayTypeOK`). The invariant
  (`TallyInv`) is `Accounting` with typed counters. What it needs of the fold that sums a
  counter is that one more for one principal is one more in all (`SumOneMore`), whatever the
  order the fold picks the principals in: a smallest set of principals for which that fails
  would have a smaller one.

`ClustersProofs`, for any threads, clusters, modes and token lives. The invariant
(`ClustersInv`) says of each thread what its location implies: it is in the operation that its
step of the program names; a thread that builds holds the lock of its manager, and between
loading and copying the default configuration finds its own cluster there as long as one
manager exists; and a thread past a guard of its program has a registered cluster and an
allowed namespace.
- `ClustersTypeCorrect`: types.
- `OneManagerRightCluster`: `RightClusterIfShared`. With a single manager there is a single lock,
  so nobody else is between `load` and `construct`, and the cached clients are their clusters'.
- `TenantsIsolated`: `TenantIsolation`. In every program a `guard` stands before the first read
  of a namespaced tool (`Programs`), which is shown tool by tool: it is where a tool that forgets
  its guard would fail the proof.
- `TokensFreshWhenBuilt`: `FreshWhenBuilt`.

`IncidentProofs`, for any Secrets, revisions, pods and reasons, histories of any length and order, and any
retention. The invariant (`IncidentInv`) adds to the types that nothing recorded lies in the
future (`Past`) and that a pod's failure has a beginning which is not before its start
(`FailsAfterStart`).
- `IncidentTypeCorrect` (`TypeOK`): the blamed change was recorded with a timestamp.
- `NeverBlamedAfterwards` (`BlamePrecedesFailure`): the anchor is no later than the
  first pod's start once any pod has crashed, whatever events have been moved or have expired;
  so it is not later than the beginning of that pod's failure, nor of another's that was not
  yet failing when the first had started.
- `ClosestIsBlamed` (`ClosestBlamed`).
- `RollbackToPredecessor` (`RollbackIsPredecessor`): the position next to last of the stable
  sort is the one that exactly one other follows, shown to exist, to be unique, and to be the
  latest release before the blamed one when that is the only one of its instant.

`DiagnoseProofs`, for any clusters, names, lists of events and nodes, and sets of reads that
fail. The invariant (`DiagnoseInv`) adds to the types that nothing is read before it is
resolved what to read (`Ordered`), that each failure but a log's is noted (`Noted`), and that
the report is the one these reads call for (`Reported`).
- `EvaluateRanks`: `evaluate` is a stable sort of what the detectors find. `Place` gives each
  hypothesis a rank by how many are ahead of it; it is injective on a finite set, so it is onto.
- `DiagnoseTypeCorrect` (`TypeOK`), `PodsAreScoped` (`ScopedPods`), `EventsAreScoped`
  (`ScopedEvents`), `DenialsGoOn` (`DenialsNeverAbort`).
- `PartialKnowsLess` (`DenialsOnlyRemove`). `Knows(b, c)` says that context `b` tells all that
  `c` does and has the same events, services and logs; each of the fifteen rules is shown to find
  in `b` every cause it finds in `c` (`ImagePullGrows` and the others), and failing reads to
  give such a `c`.
- `UnsupportedOwned` (`UnsupportedIsNoted`): follows from it, since any other failure is noted.
- `DnsComesFirst` (`DnsBeforeDatabase`): for the phrases both know, the DNS rule finds something with 72 or more, the
  database rule steps back to 40, and the ranking puts them in that order.

`KnowledgeProofs`, for any runs, files, tenants and editions. The invariant
(`KnowledgeInv`) adds to the properties that two runs never insert into one document
(`Apart`: each got its id from its own insert), that the chunks of a document under way are
exactly those its run has inserted and that it is not yet reported (`RunOK`), and that a
chunk's tenant is its document's (`SameTenant`).
- `KnowledgeTypeCorrect`, `ReportedIsWhole` (`ReportedWhole`), `SearchStaysInTenant`
  (`ScopedSearch`).
- `PartialsAreAccounted` (`PartialsAccounted`). The invariant names the run that answers for a
  partial document (`Owned`); since a run has one document at a time, the partial documents map
  one to one into such runs.
- `DoneIsFresh` (`FreshWhenDone`). The invariant (`FreshInv`) says of each run that the files
  behind it are fresh, that the edition in hand is no older than the one it found, and that
  editions only grow and reported documents stay.

`DashboardProofs`, for any requests, rounds, replies, clusters and overviews:
- `DashboardTypeCorrect` (`DashboardTypeOK`), `DashboardOneProbe` (`OneProbe`): a probe is
  submitted only where the one before has ended, since leaving the pool waits for it, timeout
  or not.
- `DashboardImplementsConversation` (`ChatImplementsConversation`). Each step of the loop
  maps to a step or a stutter under the mapping of `Chat`. The invariant (`DashboardInv`) it
  needs: where a handler is determines whose turn the last one is (`RequestOK`), and the
  results gathered so far are a prefix of what was asked for, so that `Answer` adds exactly
  the uses of the turn before.
- `DashboardHistorySound` (`HistorySound`), `DashboardFormNeverOverlaps`
  (`FormNeverOverlaps`). Their invariant (`PageInv`) ties each answer in the history to a
  bubble that shows text and a question before it (`Entry`), and keeps the history and what
  the model is told equal up to each question (`ToldSame`), while both only grow.

`ToolsProofs`, for any number of attempts, any mesh and any number of edits:
- `ToolsNotifyTypeCorrect` (`NotifyTypeOK`), `ToolsPostAccounted` (`PostAccounted`). The
  invariant (`NotifyInv`) says of each attempt that a copy still on its way has no reply and
  was not acted on, that "ok" is only said of one that was, and that a refused call never
  made an attempt.
- `AnalysisExact`: on one mesh, `AnalyzeMesh(m) = Faults(m)`. The first policy without a
  selector exists because names are well ordered.
- `ToolsFaultsReported` (`FaultsReported`), `ToolsNoFalseAlarm` (`NoFalseAlarm`). Each fault
  says something of exactly two kinds of objects (`Part`). A lasting fault shows in each
  kind as it is read. For the converse, what it says of the kind that is read first stays
  true as the mesh grows (`PartGrows`), so it was a fault when the second was read; a
  gateway that no service refers to is the exception, since services may still be added,
  and is the reason for `UnboundSeen`: services that are added name gateways that were
  there before, so each gateway no read service names was a fault when it appeared.

The assumptions on the constants are `BucketAssumption` and `RedisAssumption` (natural
numbers; `Rate > 0`, since with a rate of 0 the key outlives nothing and the two limiters
differ), `GatewayAssumption` (finite sets of replicas and principals, requests of known
ones), `ClustersAssumption` (each cluster has a mode and an allow-list, a cached token is
reused for less than it lives, exceptions are those `_classify` tells apart),
`IncidentAssumption` (finitely many Secrets and revisions; the number of pod names and the
bounds are natural numbers),
`DiagnoseAssumption` (each cluster's workload has labels or not, a job is absent, well or
failed, a node ready or in one of the states the rule names), `KnowledgeAssumption`
(finitely many runs, each with files and a tenant, each edition a number of chunks),
`ChatAssumption` (at least one round; a reply that uses tools names one or more),
`DashboardAssumption` (at least one cluster; requests are not named like the states of the
loop), `NotifyAssumption` (at least one attempt) and `MeshAssumption` (policies have unique
names, by which the API lists them; "mesh" is no gateway). TLC evaluates each in the runs of
its module.

Every safety property of the passing runs is stated by one of these theorems. Only
model-checked: liveness (`EveryCallEnds` of `clusters` and of `tools`, `EverythingAnswered`),
which needs reasoning about ENABLED and fairness that the prover lacks, and the four statements
that the code contradicts. The library's induction theorems take an operator as a parameter and
no backend instantiates them; where a proof needs induction (the sums, the least position in a
list) it takes a least counterexample instead (`WFMin`).

Attempts at these proofs changed the model where it was wrong. Alternatives with overlapping
guards in `RcaDetectors` were a CASE, of which TLA+ may choose any true arm; they follow the
code's order now. `DenialsOnlyRemove` and `UnsupportedIsNoted` compared the names of issues,
and were false of a cluster in which one container waits with `ErrImagePull` and another
with `ImagePullBackOff`: the cluster has joined the run, and the properties compare causes.

## 5. Not modelled

Wording, rendering, logging and the severity table; the parsing of settings; cryptography
of tokens; the formatting tools (each is guard, client, one read). The cluster's own
behaviour is external and kept to what is read of it. A rate of 0, and selectors on
labels beyond "has matchLabels", are left out. Of the knowledge base: the ranking and its
`LIMIT 40`, the service filter, how a text is split and embedded, and the creation of the
schema, which nothing undoes.

Of the dashboard: sign-on (`webapp/auth.py`), whose transactions and sessions are signed
cookies that the browser keeps and the server only verifies, and the drill-down, of which
the last answer to arrive is shown, whatever was asked last (`webapp/static/app.js:124`);
nothing in the repository promises otherwise. Of the tools: what a search or a read makes of
its answer.

## 6. Plan

In this order:
1. Proofs: the refinement of 2, and chunking.
2. An abstract specification of the knowledge base (documents that appear whole) and the
   condition under which ingestion implements it; chunking as a function against a
   reference.
3. Sign-on: two logins in two tabs share one transaction cookie.

All twelve runs are in use. The limiter's run can be folded into the gateway's, which extends
it, but only with a single principal: with two and its clocks the states pass five million.
