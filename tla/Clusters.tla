------------------------------ MODULE Clusters ------------------------------
(***************************************************************************)
(* The cluster manager (clusters.py) with the client construction it       *)
(* performs (auth.py) and the tool wrapper around every call               *)
(* (resilience.py), used by concurrent tool threads.                       *)
(*                                                                         *)
(* A tool is a program of these operations, Program[tool]: manager(),      *)
(* guard_namespace(), clients() and API reads, in the order its own source *)
(* calls them; then one record_tool.  Nothing but that order makes a tool  *)
(* check the allow-list before it reads.  clients() holds the manager's    *)
(* lock while it builds an ApiClient.  For clusters of mode "context" (in_cluster,       *)
(* kubeconfig, oidc_exec) the build is two library calls, load_*_config()  *)
(* which sets the process-wide default Configuration, and ApiClient()      *)
(* which copies it; the lock of ONE manager serialises them.  manager()    *)
(* itself takes no lock, so racing first calls may construct several.      *)
(***************************************************************************)
EXTENDS Integers, Sequences, FiniteSets

CONSTANTS Threads,      \* tool calls run on these threads
          ClusterNames, \* clusters of the registry
          Unknown,      \* a name that is not in the registry
          Namespaces,
          Tools,        \* tools that are called: names of Program
          Mode,         \* Mode[c]: "context", "eks" or "azure"
          Allowed,      \* Allowed[c]: namespaces of the allow-list
          TokenLife,    \* ticks a federated token is accepted by the API
          CacheFor,     \* ticks _eks_token reuses a token
          BuildErrors,  \* what build_kube_config may raise
          ReadErrors,   \* what an API read may raise
          None,
          MaxTime,      \* bound of the model: the clock stops here
          MaxCalls      \* bound of the model: tool calls in all

\* The exceptions _classify tells apart (the last three fall to "error").
Exceptions == {"TenantIsolationError", "ApiException 401", "ApiException 403",
               "ApiException 404", "ApiException 5xx", "ReadTimeoutError",
               "ConnectionError", "KeyError", "ConfigException", "MaxRetryError"}

-----------------------------------------------------------------------------

\* Mutant: the diagnosis checks the namespace once it has resolved its subject.
LateGuards ==
    [pods |-> <<"manager", "guard", "clients", "read">>,
     nodes |-> <<"manager", "clients", "read">>,
     mesh |-> <<"manager", "guard", "clients", "read", "manager", "guard", "clients", "read",
                "manager", "guard", "clients", "read", "manager", "guard", "clients", "read">>,
     diagnosis |-> <<"manager", "clients", "try", "guard", "read", "clients", "try">>,
     job_diagnosis |-> <<"manager", "clients", "try", "clients", "try", "guard", "read",
                         "clients", "try">>]

\* The operations of the tools in their order; "try" is a read whose exception is
\* swallowed.  pods stands for every tool with one namespaced read, nodes for the
\* cluster-scoped ones, mesh for the four _list of istio_mesh_analyze.  A diagnosis
\* resolves its subject in swallowed reads (the attempt at a Job asks for clients()
\* once more), lists the pods in one that is not, and fans out in swallowed ones.
Program ==
    [pods |-> <<"manager", "guard", "clients", "read">>,
     nodes |-> <<"manager", "clients", "read">>,
     mesh |-> <<"manager", "guard", "clients", "read", "manager", "guard", "clients", "read",
                "manager", "guard", "clients", "read", "manager", "guard", "clients", "read">>,
     diagnosis |-> <<"manager", "guard", "clients", "try", "read", "clients", "try">>,
     job_diagnosis |-> <<"manager", "guard", "clients", "try", "clients", "try", "read",
                         "clients", "try">>]

\* Tools whose caller names a namespace.
Namespaced == {"pods", "mesh", "diagnosis", "job_diagnosis"}

ASSUME ClustersAssumption ==
    /\ Tools \subseteq DOMAIN Program
    /\ BuildErrors \cup ReadErrors \subseteq Exceptions
    /\ Unknown \notin ClusterNames
    /\ None \notin Threads \cup ClusterNames \cup Namespaces \cup {Unknown}
    /\ Mode \in [ClusterNames -> {"context", "eks", "azure"}]
    /\ Allowed \in [ClusterNames -> SUBSET Namespaces]
    /\ CacheFor \in Nat /\ TokenLife \in Nat /\ CacheFor < TokenLife
    /\ MaxTime \in Nat /\ MaxCalls \in Nat

VARIABLES clock,
          manager,    \* the global _manager: None or the thread that built it
          built,      \* history: all managers ever constructed
          cache,      \* cache[m][c]: _cache of manager m
          lock,       \* lock[m]: the thread holding _lock of manager m
          defaultCfg, \* kubernetes' default Configuration: whose cluster it is
          eksCache,   \* _eks_token_cache: [born, until] by cluster
          tool,       \* the tool a thread is running
          step,       \* which operation of its program
          pc,         \* where in that operation
          target,     \* its cluster argument
          space,      \* its namespace argument (None: a cluster-scoped tool)
          mgr,        \* the manager it works with
          client,     \* the client it got
          outcome,    \* what record_tool got for the last call, if it has finished
          calls       \* number of calls started

vars == <<clock, manager, built, cache, lock, defaultCfg, eksCache, tool, step, pc,
          target, space, mgr, client, outcome, calls>>

\* A client talks to one host; `born` is when its token was issued.
NoClient == [host |-> None, born |-> 0]
Clients == [host : ClusterNames \cup {None}, born : 0..MaxTime]

Locations == {"idle", "enter", "create", "fetch", "guard", "lock", "load", "construct",
              "token", "read", "try"}

\* A thread is inside an API read.
Reading(t) == pc[t] \in {"read", "try"}

Kinds == {"ok", "error", "forbidden", "unauthenticated", "not_found",
          "upstream_error", "timeout", "unreachable"}

TypeOK ==
    /\ clock \in 0..MaxTime
    /\ manager \in Threads \cup {None}
    /\ built \subseteq Threads
    /\ cache \in [Threads -> [ClusterNames -> Clients]]
    /\ lock \in [Threads -> Threads \cup {None}]
    /\ defaultCfg \in ClusterNames \cup {None}
    /\ eksCache \in [ClusterNames -> [born : 0..MaxTime, until : 0..(MaxTime + CacheFor)]]
    /\ tool \in [Threads -> Tools \cup {None}]
    /\ step \in [Threads -> Nat]
    /\ pc \in [Threads -> Locations]
    /\ target \in [Threads -> ClusterNames \cup {Unknown, None}]
    /\ space \in [Threads -> Namespaces \cup {None}]
    /\ mgr \in [Threads -> Threads \cup {None}]
    /\ client \in [Threads -> Clients]
    /\ outcome \in [Threads -> Kinds]
    /\ calls \in 0..MaxCalls

Init ==
    /\ clock = 0
    /\ manager = None
    /\ built = {}
    /\ cache = [m \in Threads |-> [c \in ClusterNames |-> NoClient]]
    /\ lock = [m \in Threads |-> None]
    /\ defaultCfg = None
    /\ eksCache = [c \in ClusterNames |-> [born |-> 0, until |-> 0]]
    /\ tool = [t \in Threads |-> None]
    /\ step = [t \in Threads |-> 0]
    /\ pc = [t \in Threads |-> "idle"]
    /\ target = [t \in Threads |-> None]
    /\ space = [t \in Threads |-> None]
    /\ mgr = [t \in Threads |-> None]
    /\ client = [t \in Threads |-> NoClient]
    /\ outcome = [t \in Threads |-> "ok"]
    /\ calls = 0

Goto(t, l) == pc' = [pc EXCEPT ![t] = l]

\* _classify: what record_tool is told about an exception.
Classify(e) ==
    CASE e \in {"TenantIsolationError", "ApiException 403"} -> "forbidden"
      [] e = "ApiException 401" -> "unauthenticated"
      [] e = "ApiException 404" -> "not_found"
      [] e = "ApiException 5xx" -> "upstream_error"
      [] e = "ReadTimeoutError" -> "timeout"
      [] e = "ConnectionError" -> "unreachable"
      [] e \in {"KeyError", "ConfigException", "MaxRetryError"} -> "error"

\* The end of tool_guard's wrapper: record_tool, then a result or an error dict.
Finish(t, o) ==
    /\ outcome' = [outcome EXCEPT ![t] = o]
    /\ tool' = [tool EXCEPT ![t] = None]
    /\ step' = [step EXCEPT ![t] = 0]
    /\ Goto(t, "idle")
    /\ target' = [target EXCEPT ![t] = None]
    /\ space' = [space EXCEPT ![t] = None]
    /\ mgr' = [mgr EXCEPT ![t] = None]
    /\ client' = [client EXCEPT ![t] = NoClient]

\* Where an operation begins.
Entry(op) ==
    CASE op = "manager" -> "enter"
      [] op = "guard" -> "guard"
      [] op = "clients" -> "lock"
      [] op = "read" -> "read"
      [] op = "try" -> "try"

\* The operation returns, and the tool calls its next one.
Continue(t) ==
    /\ step' = [step EXCEPT ![t] = @ + 1]
    /\ Goto(t, Entry(Program[tool[t]][step[t] + 1]))
    /\ UNCHANGED <<tool, target, space, outcome>>

Release(t) == lock' = [lock EXCEPT ![mgr[t]] = None]

-----------------------------------------------------------------------------

\* A tool is called with a cluster and, unless it is cluster-scoped, a namespace.
StartCall(t, tl, c, n) ==
    /\ pc[t] = "idle"
    /\ calls < MaxCalls
    /\ (n = None) = (tl \notin Namespaced)
    /\ calls' = calls + 1
    /\ tool' = [tool EXCEPT ![t] = tl]
    /\ step' = [step EXCEPT ![t] = 1]
    /\ target' = [target EXCEPT ![t] = c]
    /\ space' = [space EXCEPT ![t] = n]
    /\ outcome' = [outcome EXCEPT ![t] = "ok"]
    /\ Goto(t, Entry(Program[tl][1]))
    /\ UNCHANGED <<clock, manager, built, cache, lock, defaultCfg, eksCache, mgr,
                   client>>

\* manager(): the test of the global ...
EnterManager(t) ==
    /\ pc[t] = "enter"
    /\ Goto(t, IF manager = None THEN "create" ELSE "fetch")
    /\ UNCHANGED <<clock, manager, built, cache, lock, defaultCfg, eksCache, tool, step,
                   target, space, mgr, client, outcome, calls>>

\* ... the construction and assignment ...
CreateManager(t) ==
    /\ pc[t] = "create"
    /\ manager' = t
    /\ built' = built \cup {t}
    /\ Goto(t, "fetch")
    /\ UNCHANGED <<clock, cache, lock, defaultCfg, eksCache, tool, step, target, space,
                   mgr, client, outcome, calls>>

\* ... and the second read of the global, which is returned.
FetchManager(t) ==
    /\ pc[t] = "fetch"
    /\ mgr' = [mgr EXCEPT ![t] = manager]
    /\ Continue(t)
    /\ UNCHANGED <<clock, manager, built, cache, lock, defaultCfg, eksCache, client,
                   calls>>

\* namespace_allowed, for the cluster the caller named.
Permitted(t) == space[t] \in Allowed[target[t]]

\* guard_namespace: resolve raises for an unknown cluster; the allow-list of the
\* immutable registry decides.
Guard(t) ==
    /\ pc[t] = "guard"
    /\ \/ /\ target[t] = Unknown
          /\ Finish(t, Classify("KeyError"))
       \/ /\ target[t] # Unknown /\ ~Permitted(t)
          /\ Finish(t, Classify("TenantIsolationError"))
       \/ /\ target[t] # Unknown /\ Permitted(t)
          /\ Continue(t)
          /\ UNCHANGED <<mgr, client>>
    /\ UNCHANGED <<clock, manager, built, cache, lock, defaultCfg, eksCache, calls>>

\* clients() for a cluster that is not registered: resolve raises before the lock.
ClientsUnknown(t) ==
    /\ pc[t] = "lock" /\ target[t] = Unknown
    /\ Finish(t, Classify("KeyError"))
    /\ UNCHANGED <<clock, manager, built, cache, lock, defaultCfg, eksCache, calls>>

\* Mutant: clients() without the lock.
AcquireUnlocked(t) ==
    /\ pc[t] = "lock" /\ target[t] # Unknown
    /\ LET hit == cache[mgr[t]][target[t]]
       IN  IF hit # NoClient
             THEN /\ client' = [client EXCEPT ![t] = hit]
                  /\ Continue(t)
             ELSE /\ Goto(t, IF Mode[target[t]] = "context" THEN "load" ELSE "token")
                  /\ UNCHANGED <<tool, step, target, space, client, outcome>>
    /\ UNCHANGED <<clock, manager, built, cache, lock, defaultCfg, eksCache, mgr, calls>>

\* clients(): take the lock; a hit releases it at once, a miss keeps it for the
\* construction.
Acquire(t) ==
    /\ pc[t] = "lock" /\ target[t] # Unknown
    /\ lock[mgr[t]] = None
    /\ LET hit == cache[mgr[t]][target[t]]
       IN  IF hit # NoClient
             THEN /\ client' = [client EXCEPT ![t] = hit]
                  /\ Continue(t)
                  /\ UNCHANGED lock
             ELSE /\ lock' = [lock EXCEPT ![mgr[t]] = t]
                  /\ Goto(t, IF Mode[target[t]] = "context" THEN "load" ELSE "token")
                  /\ UNCHANGED <<tool, step, target, space, client, outcome>>
    /\ UNCHANGED <<clock, manager, built, cache, defaultCfg, eksCache, mgr, calls>>

\* The new client goes into _cache, the lock is released, clients() returns.
Store(t, new) ==
    /\ cache' = [cache EXCEPT ![mgr[t]][target[t]] = new]
    /\ client' = [client EXCEPT ![t] = new]
    /\ Release(t)
    /\ Continue(t)

\* load_incluster_config / load_kube_config: sets the process-wide default.
LoadConfig(t) ==
    /\ pc[t] = "load"
    /\ defaultCfg' = target[t]
    /\ Goto(t, "construct")
    /\ UNCHANGED <<clock, manager, built, cache, lock, eksCache, tool, step, target, space,
                   mgr, client, outcome, calls>>

\* client.ApiClient(): copies whatever the default is by now.
ConstructClient(t) ==
    /\ pc[t] = "construct"
    /\ Store(t, [host |-> defaultCfg, born |-> 0])
    /\ UNCHANGED <<clock, manager, built, defaultCfg, eksCache, mgr, calls>>

\* Mutant: _eks_token returns its cached token whatever its age.
EksEntryForever(c) ==
    IF eksCache[c].until > 0
    THEN eksCache[c] ELSE [born |-> clock, until |-> clock + CacheFor]

\* Mutant: the token is reused for its whole life.
EksEntryLong(c) ==
    IF eksCache[c].until > clock
    THEN eksCache[c] ELSE [born |-> clock, until |-> clock + TokenLife]

\* _eks_token: the cached token while it may be reused, else a new one.
EksEntry(c) ==
    IF eksCache[c].until > clock
    THEN eksCache[c] ELSE [born |-> clock, until |-> clock + CacheFor]

\* The token modes: a token, an explicit Configuration and a bearer header.
TokenClient(t) ==
    /\ pc[t] = "token"
    /\ LET c == target[t]
       IN  IF Mode[c] = "eks"
             THEN /\ eksCache' = [eksCache EXCEPT ![c] = EksEntry(c)]
                  /\ Store(t, [host |-> c, born |-> EksEntry(c).born])
             ELSE /\ Store(t, [host |-> c, born |-> clock])
                  /\ UNCHANGED eksCache
    /\ UNCHANGED <<clock, manager, built, defaultCfg, mgr, calls>>

\* Mutant: the lock is not released when the construction raises.
BuildFailsLocked(t) ==
    /\ pc[t] \in {"load", "token"}
    /\ \E e \in BuildErrors : Finish(t, Classify(e))
    /\ UNCHANGED <<clock, manager, built, cache, lock, defaultCfg, eksCache, calls>>

\* build_kube_config raises: `with` releases the lock, nothing is cached, and
\* tool_guard turns the exception into an error result.
BuildFails(t) ==
    /\ pc[t] \in {"load", "token"}
    /\ Release(t)
    /\ \E e \in BuildErrors : Finish(t, Classify(e))
    /\ UNCHANGED <<clock, manager, built, cache, defaultCfg, eksCache, calls>>

\* The API accepts the client's credential: only tokens of the federated modes
\* expire (a kubeconfig's own refresh hook is left to the library).
Accepted(t) ==
    Mode[client[t].host] = "context" \/ clock < client[t].born + TokenLife

\* A read returns: the tool goes on, or ends with its result.
Returned(t) ==
    IF step[t] < Len(Program[tool[t]])
    THEN Continue(t) /\ UNCHANGED <<mgr, client>>
    ELSE Finish(t, "ok")

\* An API read of the tool, on the client it got; external failures included.
Read(t) ==
    /\ pc[t] = "read"
    /\ \/ Accepted(t) /\ Returned(t)
       \/ Accepted(t) /\ \E e \in ReadErrors : Finish(t, Classify(e))
       \/ ~Accepted(t) /\ Finish(t, Classify("ApiException 401"))
    /\ UNCHANGED <<clock, manager, built, cache, lock, defaultCfg, eksCache, calls>>

\* The same with `except Exception`: whatever the API answers, the tool goes on.
TryRead(t) ==
    /\ pc[t] = "try"
    /\ Returned(t)
    /\ UNCHANGED <<clock, manager, built, cache, lock, defaultCfg, eksCache, calls>>

Tick ==
    /\ clock < MaxTime
    /\ clock' = clock + 1
    /\ UNCHANGED <<manager, built, cache, lock, defaultCfg, eksCache, tool, step, pc,
                   target, space, mgr, client, outcome, calls>>

\* A call in progress moves on.
Proceed(t) ==
    \/ EnterManager(t)
    \/ CreateManager(t)
    \/ FetchManager(t)
    \/ Guard(t)
    \/ ClientsUnknown(t)
    \/ Acquire(t)
    \/ LoadConfig(t)
    \/ ConstructClient(t)
    \/ TokenClient(t)
    \/ BuildFails(t)
    \/ Read(t)
    \/ TryRead(t)

Next ==
    \/ Tick
    \/ \E t \in Threads :
          \/ Proceed(t)
          \/ \E tl \in Tools, c \in ClusterNames \cup {Unknown},
                n \in Namespaces \cup {None} : StartCall(t, tl, c, n)

Fairness == \A t \in Threads : WF_vars(Proceed(t))

Spec == Init /\ [][Next]_vars /\ Fairness

-----------------------------------------------------------------------------

\* Every cached client, and every client a call reads with, talks to the
\* cluster it is used for.  This is the promise of docs/multi-cluster.md:
\* concurrent requests to different clusters are safe.
ClientMatchesCluster ==
    /\ \A m \in Threads, c \in ClusterNames :
          cache[m][c] # NoClient => cache[m][c].host = c
    /\ \A t \in Threads : Reading(t) => client[t].host = target[t]

\* The same as long as only one manager was ever constructed: the manager's
\* lock then keeps load_kube_config() and ApiClient() of two clusters apart.
RightClusterIfShared == Cardinality(built) <= 1 => ClientMatchesCluster

\* clusters.py: every namespace-scoped read passes through guard_namespace, so a
\* caller cannot read outside the allow-list.  No read of any tool, swallowed or
\* not, first or repeated, goes to a namespace that the cluster named by the caller
\* does not allow; nor, while one manager was built, to one that the cluster behind
\* the client does not allow.  The first part rests on where each tool calls the
\* guard, the second also on the lock around the construction of the client.
TenantIsolation ==
    \A t \in Threads : Reading(t) /\ space[t] # None =>
        /\ target[t] \in ClusterNames
        /\ space[t] \in Allowed[target[t]]
        /\ Cardinality(built) <= 1 =>
              client[t].host \in ClusterNames /\ space[t] \in Allowed[client[t].host]

\* A token that _eks_token hands out of its cache, possibly to another manager
\* than the one it was signed for, is still accepted when the client is built.
FreshWhenBuilt ==
    [][\A m \in Threads, c \in ClusterNames :
          cache'[m][c] # cache[m][c] /\ Mode[c] # "context" =>
              clock < cache'[m][c].born + TokenLife]_vars

\* Each tool call ends, in a result or an error dict, although its construction
\* may raise while the manager's lock is held and others wait for that lock.
EveryCallEnds == \A t \in Threads : pc[t] # "idle" ~> pc[t] = "idle"

\* docs/operations.md: federated tokens auto-refresh, no agent restart needed.
\* So clients() never hands out a client whose token has already expired.
FederatedAutoRefresh ==
    [][\A t \in Threads :
          ~Reading(t) /\ Reading(t)' /\ Mode[target[t]] # "context" =>
              clock < client'[t].born + TokenLife]_vars

=============================================================================
