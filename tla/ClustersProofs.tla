--------------------------- MODULE ClustersProofs ---------------------------
(***************************************************************************)
(* The cluster manager for any number of threads, clusters and namespaces. *)
(* The lock of a manager is held from the test of its cache to the end of  *)
(* the construction (Holds); so when all threads work with one manager, no *)
(* other thread can set the library's default Configuration between the    *)
(* two calls of a construction, and what is copied is the cluster asked    *)
(* for (ClientsOwn).  What a tool has established when it reads depends on  *)
(* the operations it has behind it (Past), which its program fixes.        *)
(***************************************************************************)
EXTENDS Clusters, FiniteSetTheorems, TLAPS

Building == {"load", "construct", "token"}

\* The operations of a tool before its i-th, and the places of one operation.
Past(tl, i) == {Program[tl][j] : j \in 1..(i - 1)}

Places(op) ==
    CASE op = "manager" -> {"enter", "create", "fetch"}
      [] op = "guard" -> {"guard"}
      [] op = "clients" -> {"lock"} \cup Building
      [] op = "read" -> {"read"}
      [] op = "try" -> {"try"}

Operations == {"manager", "guard", "clients", "read", "try"}

Op(t) == Program[tool[t]][step[t]]
Done(t) == Past(tool[t], step[t])

\* The global is only set to a manager that was constructed.
ManagerBuilt == IsFiniteSet(built) /\ (manager # None => manager \in built)

\* The thread is at a place of the operation its program is at.
AtStep(t) ==
    pc[t] # "idle" =>
        /\ target[t] # None
        /\ tool[t] \in Tools
        /\ step[t] \in 1..Len(Program[tool[t]])
        /\ pc[t] \in Places(Op(t))
        /\ (space[t] = None) = (tool[t] \notin Namespaced)

\* What the operations behind a thread have established.
ThreadOK(t) ==
    /\ AtStep(t)
    /\ pc[t] = "fetch" => manager # None
    /\ pc[t] # "idle" /\ "manager" \in Done(t) => mgr[t] \in built
    /\ pc[t] # "idle" /\ "guard" \in Done(t) => target[t] # Unknown /\ Permitted(t)
    /\ pc[t] # "idle" /\ "clients" \in Done(t) => target[t] # Unknown
    /\ pc[t] \in Building => target[t] # Unknown
    /\ pc[t] \in {"load", "construct"} => Mode[target[t]] = "context"
    /\ pc[t] = "token" => Mode[target[t]] # "context"

\* A thread that builds a client holds the lock of the manager it builds for.
Holds == \A t \in Threads : pc[t] \in Building => lock[mgr[t]] = t

\* _eks_token reuses a token for CacheFor at most.
EksShort == \A c \in ClusterNames : eksCache[c].until <= eksCache[c].born + CacheFor

Shared == \A a, b \in built : a = b

\* Between load_*_config and ApiClient() the default is the thread's own cluster;
\* a client that clients() returned to a tool is one of the cluster it asked for.
ClientsOwn ==
    /\ \A m \in Threads, c \in ClusterNames :
          cache[m][c] # NoClient => cache[m][c].host = c
    /\ \A t \in Threads :
          /\ pc[t] = "construct" => defaultCfg = target[t]
          /\ pc[t] # "idle" /\ "clients" \in Done(t) => client[t].host = target[t]

ClustersInv ==
    /\ TypeOK
    /\ ManagerBuilt
    /\ \A t \in Threads : ThreadOK(t)
    /\ Holds
    /\ EksShort
    /\ Shared => ClientsOwn

-----------------------------------------------------------------------------

\* What the source of the tools fixes: every operation but manager() has a manager
\* behind it, every read a client, and every namespaced read the guard.
LEMMA Programs ==
    ASSUME NEW tl \in DOMAIN Program, NEW i \in 1..Len(Program[tl])
    PROVE  /\ Len(Program[tl]) \in Nat
           /\ Program[tl][i] \in Operations
           /\ Program[tl][i] # "manager" => "manager" \in Past(tl, i)
           /\ Program[tl][i] \in {"read", "try"} => "clients" \in Past(tl, i)
           /\ Program[tl][i] \in {"read", "try"} /\ tl \in Namespaced =>
                 "guard" \in Past(tl, i)
           /\ Program[tl][i] \notin {"read", "try"} => i < Len(Program[tl])
<1>1. tl \in {"pods", "nodes", "mesh", "diagnosis", "job_diagnosis"}
  BY DEF Program
<1>2. CASE tl = "pods"
  <2>1. Program[tl] = <<"manager", "guard", "clients", "read">>
    BY <1>2 DEF Program
  <2>2. i \in 1..4
    BY <2>1
  <2> QED BY <2>1, <2>2 DEF Past, Operations
<1>3. CASE tl = "nodes"
  <2>1. Program[tl] = <<"manager", "clients", "read">>
    BY <1>3 DEF Program
  <2>2. i \in 1..3
    BY <2>1
  <2> QED BY <1>3, <2>1, <2>2 DEF Past, Operations, Namespaced
<1>4. CASE tl = "mesh"
  <2>1. Program[tl] = <<"manager", "guard", "clients", "read",
                        "manager", "guard", "clients", "read",
                        "manager", "guard", "clients", "read",
                        "manager", "guard", "clients", "read">>
    BY <1>4 DEF Program
  <2>2. i \in 1..16
    BY <2>1
  <2> QED BY <2>1, <2>2 DEF Past, Operations
<1>5. CASE tl = "diagnosis"
  <2>1. Program[tl] = <<"manager", "guard", "clients", "try", "read", "clients", "try">>
    BY <1>5 DEF Program
  <2>2. i \in 1..7
    BY <2>1
  <2> QED BY <2>1, <2>2 DEF Past, Operations
<1>6. CASE tl = "job_diagnosis"
  <2>1. Program[tl] = <<"manager", "guard", "clients", "try", "clients", "try", "read",
                        "clients", "try">>
    BY <1>6 DEF Program
  <2>2. i \in 1..9
    BY <2>1
  <2> QED BY <2>1, <2>2 DEF Past, Operations
<1> QED BY <1>1, <1>2, <1>3, <1>4, <1>5, <1>6

LEMMA FirstStep ==
    ASSUME NEW tl \in DOMAIN Program
    PROVE  1 \in 1..Len(Program[tl]) /\ Past(tl, 1) = {}
<1>1. tl \in {"pods", "nodes", "mesh", "diagnosis", "job_diagnosis"}
  BY DEF Program
<1>2. Past(tl, 1) = {}
  BY DEF Past
<1>3. 1 \in 1..Len(Program[tl])
  <2>1. CASE tl = "pods"
    BY <2>1 DEF Program
  <2>2. CASE tl = "nodes"
    BY <2>2 DEF Program
  <2>3. CASE tl = "mesh"
    BY <2>3 DEF Program
  <2>4. CASE tl = "diagnosis"
    BY <2>4 DEF Program
  <2>5. CASE tl = "job_diagnosis"
    BY <2>5 DEF Program
  <2> QED BY <1>1, <2>1, <2>2, <2>3, <2>4, <2>5
<1> QED BY <1>2, <1>3

LEMMA PastGrows ==
    ASSUME NEW tl, NEW i \in Nat, i >= 1
    PROVE  Past(tl, i + 1) = Past(tl, i) \cup {Program[tl][i]}
<1>1. 1..((i + 1) - 1) = 1..(i - 1) \cup {i}
  OBVIOUS
<1> QED BY <1>1 DEF Past

\* An operation is entered at one of its places, and a place belongs to one.
LEMMA OpPlaces ==
    ASSUME NEW op \in Operations
    PROVE  /\ Entry(op) \in Places(op)
           /\ Entry(op) \in {"enter", "guard", "lock", "read", "try"}
           /\ \A l \in Places(op) :
                 /\ l \in Locations /\ l # "idle"
                 /\ l \in {"enter", "create", "fetch"} => op = "manager"
                 /\ l = "guard" => op = "guard"
                 /\ l \in {"lock"} \cup Building => op = "clients"
                 /\ l = "read" => op = "read"
                 /\ l = "try" => op = "try"
BY DEF Operations, Entry, Places, Building, Locations

LEMMA WhereItIs ==
    ASSUME NEW t \in Threads, AtStep(t), pc[t] # "idle"
    PROVE  /\ tool[t] \in DOMAIN Program
           /\ step[t] \in 1..Len(Program[tool[t]])
           /\ Op(t) \in Operations
           /\ pc[t] \in {"enter", "create", "fetch"} => Op(t) = "manager"
           /\ pc[t] = "guard" => Op(t) = "guard"
           /\ pc[t] \in {"lock"} \cup Building => Op(t) = "clients"
           /\ pc[t] = "read" => Op(t) = "read"
           /\ pc[t] = "try" => Op(t) = "try"
           /\ ~Reading(t) => step[t] < Len(Program[tool[t]])
           /\ Op(t) # "manager" => "manager" \in Done(t)
           /\ Reading(t) => "clients" \in Done(t)
           /\ Reading(t) /\ space[t] # None => "guard" \in Done(t)
<1>1. /\ tool[t] \in DOMAIN Program
      /\ step[t] \in 1..Len(Program[tool[t]])
      /\ pc[t] \in Places(Op(t))
      /\ (space[t] = None) = (tool[t] \notin Namespaced)
  BY ClustersAssumption DEF AtStep
<1>2. /\ Op(t) \in Operations
      /\ Op(t) # "manager" => "manager" \in Done(t)
      /\ Op(t) \in {"read", "try"} => "clients" \in Done(t)
      /\ Op(t) \in {"read", "try"} /\ tool[t] \in Namespaced => "guard" \in Done(t)
      /\ Op(t) \notin {"read", "try"} => step[t] < Len(Program[tool[t]])
  BY <1>1, Programs DEF Op, Done
<1>3. /\ pc[t] \in {"enter", "create", "fetch"} => Op(t) = "manager"
      /\ pc[t] = "guard" => Op(t) = "guard"
      /\ pc[t] \in {"lock"} \cup Building => Op(t) = "clients"
      /\ pc[t] = "read" => Op(t) = "read"
      /\ pc[t] = "try" => Op(t) = "try"
      /\ pc[t] \in Locations
  BY <1>1, <1>2, OpPlaces
<1>4. ~Reading(t) => Op(t) \notin {"read", "try"}
  BY <1>1, <1>2 DEF Reading, Places, Operations
<1>5. Reading(t) => Op(t) \in {"read", "try"}
  BY <1>3 DEF Reading
<1> QED BY <1>1, <1>2, <1>3, <1>4, <1>5

\* The next operation: what is behind the thread grows by the one that returned.
LEMMA ContinueOK ==
    ASSUME TypeOK, NEW t \in Threads, AtStep(t), pc[t] # "idle",
           step[t] < Len(Program[tool[t]]), Continue(t)
    PROVE  /\ AtStep(t)'
           /\ pc'[t] \in {"enter", "guard", "lock", "read", "try"}
           /\ Done(t)' = Done(t) \cup {Op(t)}
           /\ pc' \in [Threads -> Locations]
           /\ step' \in [Threads -> Nat]
           /\ UNCHANGED <<tool, target, space, outcome>>
<1>1. /\ tool[t] \in DOMAIN Program
      /\ step[t] \in 1..Len(Program[tool[t]])
      /\ Len(Program[tool[t]]) \in Nat
  BY WhereItIs, Programs
<1>2. step[t] + 1 \in 1..Len(Program[tool[t]]) /\ step[t] \in Nat /\ step[t] >= 1
  BY <1>1
<1>3. Program[tool[t]][step[t] + 1] \in Operations
  BY <1>1, <1>2, Programs
<1>4. /\ pc' = [pc EXCEPT ![t] = Entry(Program[tool[t]][step[t] + 1])]
      /\ step' = [step EXCEPT ![t] = step[t] + 1]
      /\ UNCHANGED <<tool, target, space, outcome>>
  BY DEF Continue, Goto
<1>5. /\ pc'[t] = Entry(Program[tool[t]][step[t] + 1])
      /\ step'[t] = step[t] + 1
      /\ tool'[t] = tool[t]
  BY <1>4 DEF TypeOK
<1>6. /\ pc'[t] \in Places(Program[tool[t]][step[t] + 1])
      /\ pc'[t] \in {"enter", "guard", "lock", "read", "try"}
  BY <1>3, <1>5, OpPlaces
<1>7. Done(t)' = Done(t) \cup {Op(t)}
  <2>1. Done(t)' = Past(tool[t], step[t] + 1)
    BY <1>5 DEF Done, Past
  <2> QED BY <1>2, <2>1, PastGrows DEF Done, Op
<1>8. AtStep(t)'
  BY <1>2, <1>4, <1>5, <1>6 DEF AtStep, Op
<1>9. pc' \in [Threads -> Locations] /\ step' \in [Threads -> Nat]
  BY <1>2, <1>4, <1>6, <1>5 DEF TypeOK, Locations
<1> QED BY <1>4, <1>6, <1>7, <1>8, <1>9

LEMMA ClustersInitInv == ASSUME Init PROVE ClustersInv
<1>1. TypeOK
  BY ClustersAssumption DEF Init, TypeOK, Clients, NoClient, Locations, Kinds
<1>2. ManagerBuilt
  BY FS_EmptySet DEF Init, ManagerBuilt
<1>3. \A t \in Threads : ThreadOK(t)
  BY DEF Init, ThreadOK, AtStep, Building
<1>4. Holds /\ ClientsOwn
  BY DEF Init, Holds, Building, ClientsOwn
<1>5. EksShort
  BY ClustersAssumption DEF Init, EksShort
<1> QED BY <1>1, <1>2, <1>3, <1>4, <1>5 DEF ClustersInv

\* Every exception of a call has a kind.
LEMMA ClassifyKind == \A e \in BuildErrors \cup ReadErrors : Classify(e) \in Kinds
BY ClustersAssumption DEF Exceptions, Classify, Kinds

LEMMA FinishTypes ==
    ASSUME TypeOK, NEW t \in Threads, NEW o \in Kinds, Finish(t, o)
    PROVE  /\ tool' \in [Threads -> Tools \cup {None}]
           /\ step' \in [Threads -> Nat]
           /\ pc' \in [Threads -> Locations]
           /\ target' \in [Threads -> ClusterNames \cup {Unknown, None}]
           /\ space' \in [Threads -> Namespaces \cup {None}]
           /\ mgr' \in [Threads -> Threads \cup {None}]
           /\ client' \in [Threads -> Clients]
           /\ outcome' \in [Threads -> Kinds]
<1>1. NoClient \in Clients
  BY ClustersAssumption DEF NoClient, Clients
<1> QED BY <1>1 DEF TypeOK, Finish, Goto, Locations

LEMMA StoreTypes ==
    ASSUME TypeOK, NEW t \in Threads, NEW new \in Clients, Store(t, new)
    PROVE  /\ client' \in [Threads -> Clients]
           /\ cache' \in [Threads -> [ClusterNames -> Clients]]
           /\ lock' \in [Threads -> Threads \cup {None}]
BY DEF TypeOK, Store, Release

\* The token _eks_token returns, and how long it may still be reused.
LEMMA EksEntryOK ==
    ASSUME TypeOK, EksShort, NEW c \in ClusterNames
    PROVE  /\ EksEntry(c) \in [born : 0..MaxTime, until : 0..(MaxTime + CacheFor)]
           /\ EksEntry(c).until <= EksEntry(c).born + CacheFor
           /\ clock < EksEntry(c).born + TokenLife
<1>1. /\ clock \in 0..MaxTime
      /\ eksCache[c] \in [born : 0..MaxTime, until : 0..(MaxTime + CacheFor)]
      /\ eksCache[c].until <= eksCache[c].born + CacheFor
  BY DEF TypeOK, EksShort
<1>2. CASE eksCache[c].until > clock
  BY <1>1, <1>2, ClustersAssumption DEF EksEntry
<1>3. CASE ~(eksCache[c].until > clock)
  BY <1>1, <1>3, ClustersAssumption DEF EksEntry
<1> QED BY <1>2, <1>3

\* The cluster and the manager of a thread that is in clients().
LEMMA InClients ==
    ASSUME ClustersInv, NEW t \in Threads, pc[t] \in {"lock"} \cup Building,
           target[t] # Unknown
    PROVE  /\ target[t] \in ClusterNames
           /\ mgr[t] \in built /\ mgr[t] \in Threads
           /\ AtStep(t) /\ Op(t) = "clients"
           /\ step[t] < Len(Program[tool[t]])
<1>1. TypeOK /\ ThreadOK(t) /\ pc[t] # "idle" /\ ~Reading(t)
  BY DEF ClustersInv, Building, Reading
<1>2. AtStep(t)
  BY <1>1 DEF ThreadOK
<1>3. /\ Op(t) = "clients"
      /\ "manager" \in Done(t)
      /\ step[t] < Len(Program[tool[t]])
  BY <1>1, <1>2, WhereItIs
<1>4. mgr[t] \in built
  BY <1>1, <1>3 DEF ThreadOK
<1>5. target[t] # None
  BY <1>1, <1>2 DEF AtStep
<1> QED BY <1>1, <1>2, <1>3, <1>4, <1>5 DEF TypeOK

\* The steps of one call, by action.
LEMMA TypeStep ==
    ASSUME ClustersInv, [Next]_vars
    PROVE  TypeOK'
<1>0. TypeOK /\ EksShort /\ \A t \in Threads : ThreadOK(t) /\ AtStep(t)
  BY DEF ClustersInv, ThreadOK
<1>1. CASE Tick
  BY <1>0, <1>1, ClustersAssumption DEF Tick, TypeOK
<1>2. ASSUME NEW t \in Threads, NEW tl \in Tools, NEW c \in ClusterNames \cup {Unknown},
             NEW n \in Namespaces \cup {None}, StartCall(t, tl, c, n)
      PROVE  TypeOK'
  <2>1. tl \in DOMAIN Program
    BY ClustersAssumption
  <2>2. Entry(Program[tl][1]) \in Locations
    BY <2>1, FirstStep, Programs, OpPlaces
  <2> QED BY <1>0, <1>2, <2>2, ClustersAssumption DEF StartCall, Goto, TypeOK, Kinds
<1>3. ASSUME NEW t \in Threads, EnterManager(t) PROVE TypeOK'
  BY <1>0, <1>3 DEF EnterManager, Goto, TypeOK, Locations
<1>4. ASSUME NEW t \in Threads, CreateManager(t) PROVE TypeOK'
  BY <1>0, <1>4 DEF CreateManager, Goto, TypeOK, Locations
<1>5. ASSUME NEW t \in Threads, FetchManager(t) PROVE TypeOK'
  <2>1. step[t] < Len(Program[tool[t]]) /\ pc[t] # "idle"
    BY <1>0, <1>5, WhereItIs DEF FetchManager, Reading
  <2>2. /\ pc' \in [Threads -> Locations]
        /\ step' \in [Threads -> Nat]
        /\ UNCHANGED <<tool, target, space, outcome>>
    BY <1>0, <1>5, <2>1, ContinueOK DEF FetchManager
  <2> QED BY <1>0, <1>5, <2>2 DEF FetchManager, TypeOK
<1>6. ASSUME NEW t \in Threads, NEW o \in Kinds, Finish(t, o),
             UNCHANGED <<clock, manager, built, cache, defaultCfg, eksCache, calls>>,
             lock' \in [Threads -> Threads \cup {None}]
      PROVE  TypeOK'
  BY <1>0, <1>6, FinishTypes DEF TypeOK
<1>7. ASSUME NEW t \in Threads, Continue(t), pc[t] # "idle",
             step[t] < Len(Program[tool[t]]), UNCHANGED <<mgr, client>>,
             UNCHANGED <<clock, manager, built, cache, lock, defaultCfg, eksCache, calls>>
      PROVE  TypeOK'
  BY <1>0, <1>7, ContinueOK DEF TypeOK
<1>8. ASSUME NEW t \in Threads, Guard(t) PROVE TypeOK'
  <2>1. step[t] < Len(Program[tool[t]]) /\ pc[t] # "idle"
    BY <1>0, <1>8, WhereItIs DEF Guard, Reading
  <2>2. Classify("KeyError") \in Kinds /\ Classify("TenantIsolationError") \in Kinds
    BY DEF Classify, Kinds
  <2>3. /\ lock' \in [Threads -> Threads \cup {None}]
        /\ UNCHANGED <<clock, manager, built, cache, lock, defaultCfg, eksCache, calls>>
    BY <1>0, <1>8 DEF Guard, TypeOK
  <2> QED BY <1>6, <1>7, <1>8, <2>1, <2>2, <2>3 DEF Guard
<1>9. ASSUME NEW t \in Threads, ClientsUnknown(t) PROVE TypeOK'
  <2>1. Classify("KeyError") \in Kinds
    BY DEF Classify, Kinds
  <2> QED BY <1>0, <1>6, <1>9, <2>1 DEF ClientsUnknown, TypeOK
<1>10. ASSUME NEW t \in Threads, Acquire(t) PROVE TypeOK'
  <2>1. /\ mgr[t] \in Threads /\ target[t] \in ClusterNames
        /\ step[t] < Len(Program[tool[t]]) /\ pc[t] # "idle"
    BY <1>10, InClients DEF Acquire
  <2>2. cache[mgr[t]][target[t]] \in Clients
    BY <1>0, <2>1 DEF TypeOK
  <2>3. CASE cache[mgr[t]][target[t]] # NoClient
    <3>1. /\ client' \in [Threads -> Clients]
          /\ Continue(t)
          /\ UNCHANGED <<clock, manager, built, cache, lock, defaultCfg, eksCache, mgr,
                         calls>>
      BY <1>0, <1>10, <2>2, <2>3 DEF Acquire, TypeOK
    <3>2. /\ pc' \in [Threads -> Locations]
          /\ step' \in [Threads -> Nat]
          /\ UNCHANGED <<tool, target, space, outcome>>
      BY <1>0, <2>1, <3>1, ContinueOK
    <3> QED BY <1>0, <3>1, <3>2 DEF TypeOK
  <2>4. CASE cache[mgr[t]][target[t]] = NoClient
    BY <1>0, <1>10, <2>1, <2>4 DEF Acquire, Goto, TypeOK, Locations
  <2> QED BY <2>3, <2>4
<1>11. ASSUME NEW t \in Threads, LoadConfig(t) PROVE TypeOK'
  <2>1. target[t] \in ClusterNames
    BY <1>0, <1>11, InClients DEF LoadConfig, Building, ThreadOK
  <2> QED BY <1>0, <1>11, <2>1 DEF LoadConfig, Goto, TypeOK, Locations
<1>12. ASSUME NEW t \in Threads, NEW new \in Clients, Store(t, new), pc[t] \in Building,
              UNCHANGED <<clock, manager, built, defaultCfg, mgr, calls>>,
              eksCache' \in [ClusterNames ->
                                [born : 0..MaxTime, until : 0..(MaxTime + CacheFor)]]
       PROVE  TypeOK'
  <2>1. step[t] < Len(Program[tool[t]]) /\ pc[t] # "idle"
    BY <1>0, <1>12, InClients DEF Building, ThreadOK
  <2>2. /\ pc' \in [Threads -> Locations]
        /\ step' \in [Threads -> Nat]
        /\ UNCHANGED <<tool, target, space, outcome>>
    BY <1>0, <1>12, <2>1, ContinueOK DEF Store
  <2>3. /\ client' \in [Threads -> Clients]
        /\ cache' \in [Threads -> [ClusterNames -> Clients]]
        /\ lock' \in [Threads -> Threads \cup {None}]
    BY <1>0, <1>12, StoreTypes
  <2> QED BY <1>0, <1>12, <2>2, <2>3 DEF TypeOK
<1>13. ASSUME NEW t \in Threads, ConstructClient(t) PROVE TypeOK'
  <2>1. [host |-> defaultCfg, born |-> 0] \in Clients
    BY <1>0, ClustersAssumption DEF TypeOK, Clients
  <2> QED BY <1>0, <1>12, <1>13, <2>1 DEF ConstructClient, TypeOK, Building
<1>14. ASSUME NEW t \in Threads, TokenClient(t) PROVE TypeOK'
  <2>1. target[t] \in ClusterNames
    BY <1>0, <1>14, InClients DEF TokenClient, Building, ThreadOK
  <2>2. /\ [host |-> target[t], born |-> EksEntry(target[t]).born] \in Clients
        /\ [host |-> target[t], born |-> clock] \in Clients
    BY <1>0, <2>1, EksEntryOK DEF TypeOK, Clients
  <2>3. eksCache' \in [ClusterNames -> [born : 0..MaxTime, until : 0..(MaxTime + CacheFor)]]
    BY <1>0, <1>14, <2>1, EksEntryOK DEF TokenClient, TypeOK
  <2>4. \E new \in Clients : Store(t, new)
    BY <1>14, <2>2 DEF TokenClient
  <2> QED BY <1>12, <1>14, <2>3, <2>4 DEF TokenClient, Building
<1>15. ASSUME NEW t \in Threads, BuildFails(t) PROVE TypeOK'
  <2>1. \E o \in Kinds : Finish(t, o)
    BY <1>15, ClassifyKind DEF BuildFails
  <2>2. lock' \in [Threads -> Threads \cup {None}]
    BY <1>0, <1>15 DEF BuildFails, Release, TypeOK
  <2> QED BY <1>6, <1>15, <2>1, <2>2 DEF BuildFails
<1>16. ASSUME NEW t \in Threads, Read(t) \/ TryRead(t) PROVE TypeOK'
  <2>1. Classify("ApiException 401") \in Kinds /\ "ok" \in Kinds
    BY DEF Classify, Kinds
  <2>2. /\ \/ \E o \in Kinds : Finish(t, o)
           \/ /\ step[t] < Len(Program[tool[t]])
              /\ Continue(t) /\ UNCHANGED <<mgr, client>>
        /\ pc[t] # "idle"
    BY <1>16, <2>1, ClassifyKind DEF Read, TryRead, Returned
  <2>3. /\ lock' \in [Threads -> Threads \cup {None}]
        /\ UNCHANGED <<clock, manager, built, cache, lock, defaultCfg, eksCache, calls>>
    BY <1>0, <1>16 DEF Read, TryRead, TypeOK
  <2> QED BY <1>6, <1>7, <2>2, <2>3
<1>17. CASE UNCHANGED vars
  BY <1>0, <1>17 DEF vars, TypeOK
<1> QED
  BY <1>1, <1>2, <1>3, <1>4, <1>5, <1>8, <1>9, <1>10, <1>11, <1>13, <1>14, <1>15,
     <1>16, <1>17
  DEF Next, Proceed

\* Managers are only added, one at a time, by the thread that assigns itself.
LEMMA ManagerStep ==
    ASSUME ClustersInv, [Next]_vars
    PROVE  /\ ManagerBuilt' /\ built \subseteq built'
           /\ manager # None => manager' # None
<1>1. ManagerBuilt
  BY DEF ClustersInv
<1>2. ASSUME NEW t \in Threads, CreateManager(t)
      PROVE  /\ ManagerBuilt' /\ built \subseteq built'
             /\ manager # None => manager' # None
  <2>1. manager' = t /\ built' = built \cup {t}
    BY <1>2 DEF CreateManager
  <2>2. IsFiniteSet(built')
    BY <1>1, <2>1, FS_AddElement DEF ManagerBuilt
  <2> QED BY <2>1, <2>2, ClustersAssumption DEF ManagerBuilt
<1>3. CASE UNCHANGED <<manager, built>>
  BY <1>1, <1>3 DEF ManagerBuilt
<1> QED
  BY <1>2, <1>3
  DEF Next, Proceed, vars, Tick, StartCall, EnterManager, FetchManager, Guard,
      ClientsUnknown, Acquire, LoadConfig, ConstructClient, TokenClient, BuildFails, Read,
      TryRead

\* What a call of t changes is its own: the other threads' part of the state of
\* the calls stays, and so does the lock of a manager that another thread holds.
LEMMA OwnSteps ==
    ASSUME ClustersInv, NEW t \in Threads, Proceed(t), NEW u \in Threads, u # t
    PROVE  /\ tool'[u] = tool[u] /\ step'[u] = step[u] /\ pc'[u] = pc[u]
           /\ target'[u] = target[u] /\ space'[u] = space[u]
           /\ mgr'[u] = mgr[u] /\ client'[u] = client[u]
           /\ pc[u] \in Building => lock'[mgr[u]] = u
<1> DEFINE Unmoved ==
       /\ tool'[u] = tool[u] /\ step'[u] = step[u] /\ pc'[u] = pc[u]
       /\ target'[u] = target[u] /\ space'[u] = space[u]
       /\ mgr'[u] = mgr[u] /\ client'[u] = client[u]
<1>1. TypeOK /\ Holds
  BY DEF ClustersInv
<1>2. Unmoved
  <2>1. ASSUME NEW o, Finish(t, o) PROVE Unmoved
    BY <1>1, <2>1 DEF TypeOK, Finish, Goto
  <2>2. ASSUME NEW l, Goto(t, l),
               UNCHANGED <<tool, target, space>>,
               UNCHANGED step \/ step' = [step EXCEPT ![t] = @ + 1],
               UNCHANGED mgr \/ mgr' = [mgr EXCEPT ![t] = manager],
               UNCHANGED client \/ \E new : client' = [client EXCEPT ![t] = new]
        PROVE  Unmoved
    BY <1>1, <2>2 DEF TypeOK, Goto
  <2>3. \/ \E o : Finish(t, o)
        \/ /\ \E l : Goto(t, l)
           /\ UNCHANGED <<tool, target, space>>
           /\ UNCHANGED step \/ step' = [step EXCEPT ![t] = @ + 1]
           /\ UNCHANGED mgr \/ mgr' = [mgr EXCEPT ![t] = manager]
           /\ UNCHANGED client \/ \E new : client' = [client EXCEPT ![t] = new]
    <3>1. CASE EnterManager(t) \/ CreateManager(t) \/ LoadConfig(t)
      BY <3>1 DEF EnterManager, CreateManager, LoadConfig
    <3>2. CASE ClientsUnknown(t) \/ BuildFails(t)
      BY <3>2 DEF ClientsUnknown, BuildFails
    <3>3. CASE FetchManager(t) \/ Guard(t) \/ Read(t) \/ TryRead(t)
      BY <3>3 DEF FetchManager, Guard, Read, TryRead, Returned, Continue
    <3>4. CASE Acquire(t)
      BY <3>4 DEF Acquire, Continue
    <3>5. CASE ConstructClient(t) \/ TokenClient(t)
      BY <3>5 DEF ConstructClient, TokenClient, Store, Continue
    <3> QED BY <3>1, <3>2, <3>3, <3>4, <3>5 DEF Proceed
  <2> QED BY <2>1, <2>2, <2>3
<1>3. ASSUME pc[u] \in Building PROVE lock'[mgr[u]] = u
  <2>1. lock[mgr[u]] = u
    BY <1>1, <1>3 DEF Holds
  <2>2. CASE UNCHANGED lock
    BY <2>1, <2>2
  <2>3. CASE pc[t] \in Building /\ Release(t)
    <3>1. lock[mgr[t]] = t
      BY <1>1, <2>3 DEF Holds
    <3> QED BY <1>1, <2>1, <2>3, <3>1 DEF Release, TypeOK
  <2>4. CASE lock[mgr[t]] = None /\ lock' = [lock EXCEPT ![mgr[t]] = t]
    BY <1>1, <2>1, <2>4, ClustersAssumption DEF TypeOK
  <2>5. \/ UNCHANGED lock
        \/ pc[t] \in Building /\ Release(t)
        \/ lock[mgr[t]] = None /\ lock' = [lock EXCEPT ![mgr[t]] = t]
    BY DEF Proceed, EnterManager, CreateManager, FetchManager, Guard, ClientsUnknown,
           Acquire, LoadConfig, ConstructClient, TokenClient, BuildFails, Read, TryRead,
           Store, Building
  <2> QED BY <2>2, <2>3, <2>4, <2>5
<1> QED BY <1>2, <1>3

\* An operation that returned leaves behind it what it has established.
LEMMA ContinueKeeps ==
    ASSUME TypeOK, NEW t \in Threads, ThreadOK(t), pc[t] # "idle",
           step[t] < Len(Program[tool[t]]), Continue(t),
           built \subseteq built',
           "manager" \in Done(t) \cup {Op(t)} => mgr'[t] \in built',
           Op(t) \in {"guard", "clients"} => target[t] # Unknown,
           Op(t) = "guard" => Permitted(t)
    PROVE  ThreadOK(t)' /\ pc'[t] \notin Building
<1>1. /\ AtStep(t)'
      /\ pc'[t] \in {"enter", "guard", "lock", "read", "try"}
      /\ Done(t)' = Done(t) \cup {Op(t)}
      /\ UNCHANGED <<tool, target, space, outcome>>
  BY ContinueOK DEF ThreadOK
<1>2. Permitted(t)' = Permitted(t)
  BY <1>1 DEF Permitted
<1> QED BY <1>1, <1>2 DEF ThreadOK, Building

\* Within an operation the thread keeps what it has established.
LEMMA GotoKeeps ==
    ASSUME TypeOK, NEW t \in Threads, ThreadOK(t), pc[t] # "idle",
           NEW l \in Places(Op(t)), Goto(t, l), built \subseteq built',
           UNCHANGED <<tool, step, target, space, mgr>>,
           l = "fetch" => manager' # None,
           l \in Building => target[t] # Unknown,
           l \in {"load", "construct"} => Mode[target[t]] = "context",
           l = "token" => Mode[target[t]] # "context"
    PROVE  ThreadOK(t)' /\ pc'[t] = l
<1>1. pc'[t] = l
  BY DEF Goto, TypeOK
<1>2. AtStep(t)
  BY DEF ThreadOK
<1>3. Done(t)' = Done(t) /\ Op(t)' = Op(t) /\ Permitted(t)' = Permitted(t)
  BY DEF Done, Past, Op, Permitted
<1>4. AtStep(t)'
  BY <1>1, <1>2, <1>3 DEF AtStep
<1> QED BY <1>1, <1>3, <1>4 DEF ThreadOK

LEMMA FinishKeeps ==
    ASSUME TypeOK, NEW t \in Threads, NEW o, Finish(t, o)
    PROVE  ThreadOK(t)' /\ pc'[t] = "idle"
<1>1. pc'[t] = "idle"
  BY DEF Finish, Goto, TypeOK
<1> QED BY <1>1 DEF ThreadOK, AtStep, Building

\* The thread that moves keeps what it has established, and holds the lock while
\* it builds.
LEMMA MoverOK ==
    ASSUME ClustersInv, [Next]_vars, NEW t \in Threads, Proceed(t)
    PROVE  ThreadOK(t)' /\ (pc'[t] \in Building => lock'[mgr'[t]] = t)
<1>0. TypeOK /\ ManagerBuilt /\ ThreadOK(t) /\ Holds
  BY DEF ClustersInv
<1>a. AtStep(t) /\ built \subseteq built'
  BY <1>0, ManagerStep DEF ThreadOK
<1>b. pc[t] # "idle"
  BY DEF Proceed, EnterManager, CreateManager, FetchManager, Guard, ClientsUnknown,
         Acquire, LoadConfig, ConstructClient, TokenClient, BuildFails, Read, TryRead
<1>c. "idle" \notin Building
  BY DEF Building
<1>1. CASE EnterManager(t)
  <2>1. Op(t) = "manager"
    BY <1>a, <1>b, <1>1, WhereItIs DEF EnterManager
  <2>2. PICK l \in {"create", "fetch"} :
          Goto(t, l) /\ (l = "fetch" => manager' # None)
    BY <1>1 DEF EnterManager
  <2>3. l \in Places(Op(t)) /\ l \notin Building
    BY <2>1, <2>2 DEF Places, Building
  <2>4. UNCHANGED <<tool, step, target, space, mgr>>
    BY <1>1 DEF EnterManager
  <2>5. ThreadOK(t)' /\ pc'[t] = l
    BY <1>0, <1>a, <1>b, <2>2, <2>3, <2>4, GotoKeeps DEF Building
  <2> QED BY <2>3, <2>5
<1>2. CASE CreateManager(t)
  <2>1. Op(t) = "manager"
    BY <1>a, <1>b, <1>2, WhereItIs DEF CreateManager
  <2>2. "fetch" \in Places(Op(t)) /\ "fetch" \notin Building
    BY <2>1 DEF Places, Building
  <2>3. /\ Goto(t, "fetch") /\ manager' # None
        /\ UNCHANGED <<tool, step, target, space, mgr>>
    BY <1>2, ClustersAssumption DEF CreateManager
  <2>4. ThreadOK(t)' /\ pc'[t] = "fetch"
    BY <1>0, <1>a, <1>b, <2>2, <2>3, GotoKeeps DEF Building
  <2> QED BY <2>2, <2>4
<1>3. CASE FetchManager(t)
  <2>1. /\ Op(t) = "manager"
        /\ step[t] < Len(Program[tool[t]])
    BY <1>a, <1>b, <1>3, WhereItIs DEF FetchManager, Reading
  <2>2. manager \in built
    BY <1>0, <1>3 DEF FetchManager, ThreadOK, ManagerBuilt
  <2>3. mgr'[t] \in built' /\ Continue(t)
    BY <1>0, <1>a, <1>3, <2>2 DEF FetchManager, TypeOK
  <2> QED BY <1>0, <1>a, <1>b, <2>1, <2>3, ContinueKeeps
<1>4. CASE Guard(t)
  <2>1. /\ Op(t) = "guard" /\ "manager" \in Done(t)
        /\ step[t] < Len(Program[tool[t]])
    BY <1>a, <1>b, <1>4, WhereItIs DEF Guard, Reading
  <2>2. CASE Continue(t) /\ UNCHANGED mgr /\ target[t] # Unknown /\ Permitted(t)
    <3>1. mgr'[t] \in built'
      BY <1>0, <1>a, <1>b, <2>1, <2>2 DEF ThreadOK
    <3> QED BY <1>0, <1>a, <1>b, <2>1, <2>2, <3>1, ContinueKeeps
  <2>3. CASE \E o : Finish(t, o)
    BY <1>0, <1>c, <2>3, FinishKeeps
  <2> QED BY <1>4, <2>2, <2>3 DEF Guard
<1>5. CASE ClientsUnknown(t) \/ BuildFails(t)
  <2>1. \E o : Finish(t, o)
    BY <1>5 DEF ClientsUnknown, BuildFails
  <2> QED BY <1>0, <1>c, <2>1, FinishKeeps
<1>6. CASE Acquire(t)
  <2>1. /\ Op(t) = "clients" /\ "manager" \in Done(t)
        /\ step[t] < Len(Program[tool[t]])
        /\ target[t] # Unknown
    BY <1>a, <1>b, <1>6, WhereItIs DEF Acquire, Reading
  <2>2. mgr[t] \in built /\ mgr[t] \in Threads
    BY <1>0, <1>b, <2>1 DEF ThreadOK, TypeOK
  <2>3. CASE Continue(t)
    <3>1. mgr'[t] \in built'
      BY <1>a, <1>6, <2>2 DEF Acquire
    <3> QED BY <1>0, <1>a, <1>b, <2>1, <2>3, <3>1, ContinueKeeps
  <2>4. CASE /\ lock' = [lock EXCEPT ![mgr[t]] = t]
             /\ Goto(t, IF Mode[target[t]] = "context" THEN "load" ELSE "token")
             /\ UNCHANGED <<tool, step, target, space, client, outcome>>
    <3>1. PICK l \in {"load", "token"} :
            /\ Goto(t, l)
            /\ l = "load" => Mode[target[t]] = "context"
            /\ l = "token" => Mode[target[t]] # "context"
      BY <2>4
    <3>2. l \in Places(Op(t))
      BY <2>1, <3>1 DEF Places, Building
    <3>3. UNCHANGED <<tool, step, target, space, mgr>>
      BY <1>6, <2>4 DEF Acquire
    <3>4. ThreadOK(t)'
      BY <1>0, <1>a, <1>b, <2>1, <3>1, <3>2, <3>3, GotoKeeps
    <3>5. lock'[mgr'[t]] = t
      BY <1>0, <2>2, <2>4, <3>3 DEF TypeOK
    <3> QED BY <3>4, <3>5
  <2> QED BY <1>6, <2>3, <2>4 DEF Acquire
<1>7. CASE LoadConfig(t)
  <2>1. Op(t) = "clients"
    BY <1>a, <1>b, <1>7, WhereItIs DEF LoadConfig, Building
  <2>2. /\ "construct" \in Places(Op(t))
        /\ target[t] # Unknown /\ Mode[target[t]] = "context"
        /\ lock[mgr[t]] = t
    BY <1>0, <1>7, <2>1 DEF Places, Building, LoadConfig, ThreadOK, Holds
  <2>3. /\ Goto(t, "construct")
        /\ UNCHANGED <<tool, step, target, space, mgr, lock>>
    BY <1>7 DEF LoadConfig
  <2>4. ThreadOK(t)'
    BY <1>0, <1>a, <1>b, <2>2, <2>3, GotoKeeps
  <2> QED BY <2>2, <2>3, <2>4
<1>8. CASE ConstructClient(t) \/ TokenClient(t)
  <2>1. /\ Continue(t) /\ UNCHANGED mgr
        /\ pc[t] \in Building
    BY <1>8 DEF ConstructClient, TokenClient, Store, Building
  <2>2. /\ Op(t) = "clients" /\ "manager" \in Done(t)
        /\ step[t] < Len(Program[tool[t]])
    BY <1>a, <1>b, <2>1, WhereItIs DEF Reading, Building
  <2>3. target[t] # Unknown /\ mgr'[t] \in built'
    BY <1>0, <1>a, <1>b, <2>1, <2>2 DEF ThreadOK
  <2> QED BY <1>0, <1>a, <1>b, <2>1, <2>2, <2>3, ContinueKeeps
<1>9. CASE Read(t) \/ TryRead(t)
  <2>1. /\ \/ \E o : Finish(t, o)
           \/ /\ step[t] < Len(Program[tool[t]])
              /\ Continue(t) /\ UNCHANGED mgr
        /\ pc[t] \in {"read", "try"}
    BY <1>9 DEF Read, TryRead, Returned
  <2>2. Op(t) \in {"read", "try"} /\ "manager" \in Done(t)
    BY <1>a, <1>b, <2>1, WhereItIs
  <2>3. CASE \E o : Finish(t, o)
    BY <1>0, <1>c, <2>3, FinishKeeps
  <2>4. CASE step[t] < Len(Program[tool[t]]) /\ Continue(t) /\ UNCHANGED mgr
    <3>1. mgr'[t] \in built'
      BY <1>0, <1>a, <1>b, <2>2, <2>4 DEF ThreadOK
    <3> QED BY <1>0, <1>a, <1>b, <2>2, <2>4, <3>1, ContinueKeeps
  <2> QED BY <2>1, <2>3, <2>4
<1> QED BY <1>1, <1>2, <1>3, <1>4, <1>5, <1>6, <1>7, <1>8, <1>9 DEF Proceed

\* A thread whose part of the state stays keeps what it has established.
LEMMA OthersOK ==
    ASSUME NEW u \in Threads, ThreadOK(u), built \subseteq built',
           manager # None => manager' # None,
           tool'[u] = tool[u], step'[u] = step[u], pc'[u] = pc[u],
           target'[u] = target[u], space'[u] = space[u], mgr'[u] = mgr[u]
    PROVE  ThreadOK(u)'
<1>1. Done(u)' = Done(u) /\ Op(u)' = Op(u) /\ Permitted(u)' = Permitted(u)
  BY DEF Done, Past, Op, Permitted
<1>2. AtStep(u)'
  BY <1>1 DEF ThreadOK, AtStep
<1> QED BY <1>1, <1>2 DEF ThreadOK

\* A step of the clock or the start of a call.
LEMMA OtherSteps ==
    ASSUME ClustersInv,
           \/ Tick
           \/ UNCHANGED vars
           \/ \E t \in Threads, tl \in Tools, c \in ClusterNames \cup {Unknown},
                 n \in Namespaces \cup {None} : StartCall(t, tl, c, n)
    PROVE  /\ \A u \in Threads : ThreadOK(u)'
           /\ Holds'
           /\ EksShort'
           /\ Shared => ClientsOwn'
<1>0. /\ TypeOK /\ Holds /\ EksShort
      /\ Shared => ClientsOwn
      /\ \A u \in Threads : ThreadOK(u)
  BY DEF ClustersInv
<1>1. CASE Tick \/ UNCHANGED vars
  <2>1. UNCHANGED <<manager, built, cache, lock, defaultCfg, eksCache, tool, step, pc,
                    target, space, mgr, client>>
    BY <1>1 DEF Tick, vars
  <2>2. \A u \in Threads : ThreadOK(u)' /\ Done(u)' = Done(u)
    BY <1>0, <2>1, OthersOK DEF Done, Past
  <2> QED BY <1>0, <2>1, <2>2 DEF Holds, EksShort, ClientsOwn
<1>2. ASSUME NEW t \in Threads, NEW tl \in Tools, NEW c \in ClusterNames \cup {Unknown},
             NEW n \in Namespaces \cup {None}, StartCall(t, tl, c, n)
      PROVE  /\ \A u \in Threads : ThreadOK(u)'
             /\ Holds'
             /\ EksShort'
             /\ Shared => ClientsOwn'
  <2>1. /\ pc' = [pc EXCEPT ![t] = Entry(Program[tl][1])]
        /\ tool' = [tool EXCEPT ![t] = tl]
        /\ step' = [step EXCEPT ![t] = 1]
        /\ target' = [target EXCEPT ![t] = c]
        /\ space' = [space EXCEPT ![t] = n]
        /\ c # None
        /\ (n = None) = (tl \notin Namespaced)
        /\ UNCHANGED <<clock, manager, built, cache, lock, defaultCfg, eksCache, mgr,
                       client>>
    BY <1>2, ClustersAssumption DEF StartCall, Goto
  <2>2. /\ 1 \in 1..Len(Program[tl]) /\ Past(tl, 1) = {}
        /\ Program[tl][1] \in Operations
    BY FirstStep, Programs, ClustersAssumption
  <2>3. /\ Entry(Program[tl][1]) \in Places(Program[tl][1])
        /\ Entry(Program[tl][1]) \in {"enter", "guard", "lock", "read", "try"}
    BY <2>2, OpPlaces
  <2>4. /\ pc'[t] \in {"enter", "guard", "lock", "read", "try"}
        /\ Done(t)' = {}
        /\ AtStep(t)'
    <3>1. pc'[t] = Entry(Program[tl][1]) /\ tool'[t] = tl /\ step'[t] = 1
      BY <1>0, <2>1 DEF TypeOK
    <3>2. target'[t] = c /\ space'[t] = n
      BY <1>0, <2>1 DEF TypeOK
    <3> QED BY <2>1, <2>2, <2>3, <3>1, <3>2 DEF AtStep, Op, Done, Past
  <2>5. ThreadOK(t)'
    BY <2>4 DEF ThreadOK, Building
  <2>6. ASSUME NEW u \in Threads, u # t
        PROVE  /\ tool'[u] = tool[u] /\ step'[u] = step[u] /\ pc'[u] = pc[u]
               /\ target'[u] = target[u] /\ space'[u] = space[u]
               /\ Done(u)' = Done(u)
    BY <1>0, <2>1, <2>6 DEF TypeOK, Done, Past
  <2>7. ASSUME NEW u \in Threads, u # t PROVE ThreadOK(u)'
    BY <1>0, <2>1, <2>6, <2>7, OthersOK
  <2>8. Holds'
    BY <1>0, <2>1, <2>4, <2>6 DEF Holds, Building
  <2>9. EksShort'
    BY <1>0, <2>1 DEF EksShort
  <2>10. Shared => ClientsOwn'
    BY <1>0, <2>1, <2>4, <2>6 DEF ClientsOwn
  <2> QED BY <2>5, <2>7, <2>8, <2>9, <2>10
<1> QED BY <1>1, <1>2

LEMMA EksStep == ASSUME ClustersInv, NEW t \in Threads, Proceed(t) PROVE EksShort'
<1>1. TypeOK /\ EksShort /\ ThreadOK(t)
  BY DEF ClustersInv
<1>2. CASE UNCHANGED eksCache
  BY <1>1, <1>2 DEF EksShort
<1>3. CASE TokenClient(t) /\ ~UNCHANGED eksCache
  <2>1. target[t] \in ClusterNames
    BY <1>1, <1>3, InClients DEF TokenClient, ThreadOK, Building
  <2>2. eksCache' = [eksCache EXCEPT ![target[t]] = EksEntry(target[t])]
    BY <1>3 DEF TokenClient
  <2> QED BY <1>1, <2>1, <2>2, EksEntryOK DEF TypeOK, EksShort
<1> QED
  BY <1>2, <1>3
  DEF Proceed, EnterManager, CreateManager, FetchManager, Guard, ClientsUnknown, Acquire,
      LoadConfig, ConstructClient, BuildFails, Read, TryRead

\* With one manager, a client is built from the configuration its thread loaded,
\* and a tool that goes on keeps the client it got.
LEMMA ClientsStep ==
    ASSUME ClustersInv, Shared, NEW t \in Threads, Proceed(t)
    PROVE  ClientsOwn'
<1>0. TypeOK /\ ClientsOwn /\ Holds /\ ThreadOK(t) /\ AtStep(t)
  BY DEF ClustersInv, ThreadOK
<1>1. ASSUME NEW u \in Threads, u # t
      PROVE  /\ pc'[u] = pc[u] /\ target'[u] = target[u] /\ client'[u] = client[u]
             /\ Done(u)' = Done(u)
  <2>1. tool'[u] = tool[u] /\ step'[u] = step[u]
    BY <1>1, OwnSteps
  <2> QED BY <1>1, <2>1, OwnSteps DEF Done, Past
<1>2. ASSUME UNCHANGED <<cache, defaultCfg>>, pc'[t] # "construct",
             pc'[t] # "idle" /\ "clients" \in Done(t)' => client'[t].host = target'[t]
      PROVE  ClientsOwn'
  BY <1>0, <1>1, <1>2 DEF ClientsOwn
<1>3. CASE Acquire(t)
  <2>1. /\ mgr[t] \in Threads /\ target[t] \in ClusterNames
        /\ step[t] < Len(Program[tool[t]]) /\ pc[t] # "idle"
    BY <1>3, InClients DEF Acquire
  <2>2. CASE cache[mgr[t]][target[t]] # NoClient
    <3>1. /\ client'[t].host = target[t]
          /\ Continue(t)
          /\ UNCHANGED <<cache, defaultCfg>>
      BY <1>0, <1>3, <2>1, <2>2 DEF Acquire, TypeOK, ClientsOwn
    <3>2. pc'[t] # "construct" /\ target' = target
      BY <1>0, <2>1, <3>1, ContinueOK
    <3> QED BY <1>2, <3>1, <3>2
  <2>3. CASE cache[mgr[t]][target[t]] = NoClient
    <3>1. /\ pc'[t] # "construct"
          /\ UNCHANGED <<cache, defaultCfg, tool, step, target, client>>
      BY <1>0, <1>3, <2>3 DEF Acquire, Goto, TypeOK
    <3>2. Done(t)' = Done(t)
      BY <3>1 DEF Done, Past
    <3> QED BY <1>0, <1>2, <2>1, <3>1, <3>2 DEF ClientsOwn
  <2> QED BY <2>2, <2>3
<1>4. CASE LoadConfig(t)
  <2>1. ASSUME NEW u \in Threads, pc[u] = "construct" PROVE FALSE
    <3>1. /\ mgr[u] \in built /\ mgr[t] \in built
      BY <1>4, <2>1, InClients DEF LoadConfig, ClustersInv, ThreadOK, Building
    <3>2. mgr[u] = mgr[t]
      BY <3>1 DEF Shared
    <3>3. lock[mgr[u]] = u /\ lock[mgr[t]] = t
      BY <1>0, <1>4, <2>1 DEF LoadConfig, Holds, Building
    <3> QED BY <1>4, <2>1, <3>2, <3>3 DEF LoadConfig
  <2>2. /\ defaultCfg' = target[t] /\ pc[t] # "idle"
        /\ UNCHANGED <<cache, tool, step, target, client>>
    BY <1>0, <1>4 DEF LoadConfig
  <2>3. Done(t)' = Done(t)
    BY <2>2 DEF Done, Past
  <2> QED BY <1>0, <1>1, <2>1, <2>2, <2>3 DEF ClientsOwn
<1>5. ASSUME NEW new, Store(t, new), new.host = target[t], pc[t] \in Building,
             UNCHANGED defaultCfg
      PROVE  ClientsOwn'
  <2>1. /\ mgr[t] \in Threads /\ target[t] \in ClusterNames
        /\ step[t] < Len(Program[tool[t]]) /\ pc[t] # "idle"
    BY <1>0, <1>5, InClients DEF ThreadOK, Building
  <2>2. ASSUME NEW m \in Threads, NEW c \in ClusterNames, cache'[m][c] # NoClient
        PROVE  cache'[m][c].host = c
    <3>1. CASE m = mgr[t] /\ c = target[t]
      BY <1>0, <1>5, <2>1, <3>1 DEF Store, TypeOK
    <3>2. CASE ~(m = mgr[t] /\ c = target[t])
      <4>1. cache'[m][c] = cache[m][c]
        BY <1>0, <1>5, <2>1, <3>2 DEF Store, TypeOK
      <4> QED BY <1>0, <2>2, <4>1 DEF ClientsOwn
    <3> QED BY <3>1, <3>2
  <2>3. client'[t] = new
    BY <1>0, <1>5 DEF Store, TypeOK
  <2>4. pc'[t] # "construct" /\ target' = target
    BY <1>0, <1>5, <2>1, ContinueOK DEF Store
  <2> QED BY <1>0, <1>1, <1>5, <2>2, <2>3, <2>4 DEF ClientsOwn
<1>6. CASE ConstructClient(t)
  <2>1. [host |-> defaultCfg, born |-> 0].host = target[t]
    BY <1>0, <1>6 DEF ConstructClient, ClientsOwn
  <2> QED BY <1>5, <1>6, <2>1 DEF ConstructClient, Building
<1>7. CASE TokenClient(t)
  BY <1>5, <1>7 DEF TokenClient, Building
<1>8. CASE EnterManager(t) \/ CreateManager(t)
  <2>1. /\ UNCHANGED <<cache, defaultCfg, tool, step, target, client>>
        /\ pc'[t] # "construct" /\ pc[t] # "idle"
    BY <1>0, <1>8 DEF EnterManager, CreateManager, Goto, TypeOK
  <2>2. Done(t)' = Done(t)
    BY <2>1 DEF Done, Past
  <2> QED BY <1>0, <1>2, <2>1, <2>2 DEF ClientsOwn
<1>9. ASSUME \E o : Finish(t, o), UNCHANGED <<cache, defaultCfg>> PROVE ClientsOwn'
  BY <1>0, <1>2, <1>9, FinishKeeps
<1>10. ASSUME Continue(t), UNCHANGED <<client, cache, defaultCfg>>, pc[t] # "idle",
              Op(t) # "clients", step[t] < Len(Program[tool[t]])
       PROVE  ClientsOwn'
  <2>1. /\ pc'[t] # "construct" /\ target' = target
        /\ Done(t)' = Done(t) \cup {Op(t)}
    BY <1>0, <1>10, ContinueOK
  <2> QED BY <1>0, <1>2, <1>10, <2>1 DEF ClientsOwn
<1>11. CASE FetchManager(t) \/ Guard(t)
  <2>1. /\ UNCHANGED <<cache, defaultCfg>>
        /\ \/ \E o : Finish(t, o)
           \/ Continue(t) /\ UNCHANGED client
        /\ pc[t] \in {"fetch", "guard"}
    BY <1>11 DEF FetchManager, Guard
  <2>2. /\ Op(t) # "clients" /\ pc[t] # "idle"
        /\ step[t] < Len(Program[tool[t]])
    BY <1>0, <2>1, WhereItIs DEF Reading
  <2> QED BY <1>9, <1>10, <2>1, <2>2
<1>12. CASE ClientsUnknown(t) \/ BuildFails(t)
  BY <1>9, <1>12 DEF ClientsUnknown, BuildFails
<1>13. CASE Read(t) \/ TryRead(t)
  <2>1. /\ UNCHANGED <<cache, defaultCfg>>
        /\ \/ \E o : Finish(t, o)
           \/ step[t] < Len(Program[tool[t]]) /\ Continue(t) /\ UNCHANGED client
        /\ pc[t] \in {"read", "try"}
    BY <1>13 DEF Read, TryRead, Returned
  <2>2. Op(t) # "clients" /\ pc[t] # "idle"
    BY <1>0, <2>1, WhereItIs
  <2> QED BY <1>9, <1>10, <2>1, <2>2
<1> QED
  BY <1>3, <1>4, <1>6, <1>7, <1>8, <1>11, <1>12, <1>13 DEF Proceed

LEMMA ClustersNextInv == ASSUME ClustersInv, [Next]_vars PROVE ClustersInv'
<1>1. TypeOK' /\ ManagerBuilt'
  BY TypeStep, ManagerStep
<1>2. Shared' => Shared
  BY ManagerStep DEF Shared
<1>3. ASSUME NEW t \in Threads, Proceed(t) PROVE ClustersInv'
  <2>1. ASSUME NEW u \in Threads PROVE ThreadOK(u)'
    <3>1. CASE u = t
      BY <1>3, <3>1, MoverOK
    <3>2. CASE u # t
      <4>1. /\ tool'[u] = tool[u] /\ step'[u] = step[u] /\ pc'[u] = pc[u]
            /\ target'[u] = target[u] /\ space'[u] = space[u] /\ mgr'[u] = mgr[u]
        BY <1>3, <3>2, OwnSteps
      <4>2. ThreadOK(u) /\ built \subseteq built' /\ (manager # None => manager' # None)
        BY ManagerStep DEF ClustersInv
      <4> QED BY <4>1, <4>2, OthersOK
    <3> QED BY <3>1, <3>2
  <2>2. Holds'
    <3>1. ASSUME NEW u \in Threads, pc'[u] \in Building PROVE lock'[mgr'[u]] = u
      <4>1. CASE u = t
        BY <1>3, <3>1, <4>1, MoverOK
      <4>2. CASE u # t
        BY <1>3, <3>1, <4>2, OwnSteps
      <4> QED BY <4>1, <4>2
    <3> QED BY <3>1 DEF Holds
  <2>3. EksShort'
    BY <1>3, EksStep
  <2>4. Shared' => ClientsOwn'
    BY <1>2, <1>3, ClientsStep
  <2> QED BY <1>1, <2>1, <2>2, <2>3, <2>4 DEF ClustersInv
<1>4. CASE \/ Tick
           \/ UNCHANGED vars
           \/ \E t \in Threads, tl \in Tools, c \in ClusterNames \cup {Unknown},
                 n \in Namespaces \cup {None} : StartCall(t, tl, c, n)
  BY <1>1, <1>2, <1>4, OtherSteps DEF ClustersInv
<1> QED BY <1>3, <1>4 DEF Next

LEMMA ClustersInvariant == Spec => []ClustersInv
<1>1. Init => ClustersInv
  BY ClustersInitInv
<1>2. ClustersInv /\ [Next]_vars => ClustersInv'
  BY ClustersNextInv
<1> QED BY <1>1, <1>2, PTL DEF Spec

-----------------------------------------------------------------------------

\* The type invariant of the cluster manager.
THEOREM ClustersTypeCorrect == Spec => []TypeOK
<1>1. ClustersInv => TypeOK
  BY DEF ClustersInv
<1> QED BY <1>1, ClustersInvariant, PTL

LEMMA OneManager ==
    ASSUME ClustersInv, Cardinality(built) <= 1 PROVE Shared
<1>1. IsFiniteSet(built) /\ Cardinality(built) \in Nat
  BY FS_CardinalityType DEF ClustersInv, ManagerBuilt
<1>2. ASSUME NEW a \in built, NEW b \in built, a # b PROVE FALSE
  <2>1. IsFiniteSet({a, b}) /\ Cardinality({a, b}) <= Cardinality(built)
    BY <1>1, FS_Subset
  <2>2. IsFiniteSet({a}) /\ Cardinality({a}) = 1
    BY FS_Singleton
  <2>3. {a, b} = {a} \cup {b} /\ b \notin {a}
    BY <1>2
  <2>4. Cardinality({a, b}) = 2
    BY <2>2, <2>3, FS_AddElement
  <2> QED BY <1>1, <2>1, <2>4
<1> QED BY <1>2 DEF Shared

\* A thread that reads has a client behind it, and the guard if it names a namespace.
LEMMA ReadersOK ==
    ASSUME ClustersInv, NEW t \in Threads, Reading(t)
    PROVE  /\ target[t] \in ClusterNames
           /\ space[t] # None => Permitted(t)
           /\ Shared => client[t].host = target[t]
<1>1. TypeOK /\ ThreadOK(t) /\ AtStep(t) /\ pc[t] # "idle"
  BY DEF ClustersInv, ThreadOK, Reading
<1>2. "clients" \in Done(t) /\ (space[t] # None => "guard" \in Done(t))
  BY <1>1, WhereItIs
<1>3. target[t] # Unknown /\ (space[t] # None => Permitted(t)) /\ target[t] # None
  BY <1>1, <1>2 DEF ThreadOK, AtStep
<1>4. Shared => client[t].host = target[t]
  BY <1>1, <1>2 DEF ClustersInv, ClientsOwn
<1> QED BY <1>1, <1>3, <1>4 DEF TypeOK

\* Whatever the number of threads and clusters, clients() and the API reads use
\* clients of the cluster asked for, as long as manager() built one manager.
THEOREM OneManagerRightCluster == Spec => []RightClusterIfShared
<1>1. ClustersInv => RightClusterIfShared
  <2>1. ASSUME ClustersInv, Cardinality(built) <= 1 PROVE ClientMatchesCluster
    <3>1. Shared /\ ClientsOwn
      BY <2>1, OneManager DEF ClustersInv
    <3> QED BY <2>1, <3>1, ReadersOK DEF ClientMatchesCluster, ClientsOwn
  <2> QED BY <2>1 DEF RightClusterIfShared
<1> QED BY <1>1, ClustersInvariant, PTL

\* No read of any tool leaves for a namespace that the cluster asked for does not
\* allow, nor, with one manager, the cluster that the client talks to: the tools'
\* programs put the guard before every read, the lock keeps the clients apart.
THEOREM TenantsIsolated == Spec => []TenantIsolation
<1>1. ClustersInv => TenantIsolation
  <2>1. ASSUME ClustersInv, NEW t \in Threads, Reading(t), space[t] # None
        PROVE  /\ target[t] \in ClusterNames
               /\ space[t] \in Allowed[target[t]]
               /\ Cardinality(built) <= 1 =>
                     /\ client[t].host \in ClusterNames
                     /\ space[t] \in Allowed[client[t].host]
    <3>1. target[t] \in ClusterNames /\ space[t] \in Allowed[target[t]]
      BY <2>1, ReadersOK DEF Permitted
    <3>2. Cardinality(built) <= 1 => client[t].host = target[t]
      BY <2>1, ReadersOK, OneManager
    <3> QED BY <3>1, <3>2
  <2> QED BY <2>1 DEF TenantIsolation
<1> QED BY <1>1, ClustersInvariant, PTL

\* A federated client is built with a token that is still accepted.
THEOREM TokensFreshWhenBuilt == Spec => FreshWhenBuilt
<1>1. ASSUME ClustersInv, [Next]_vars, NEW m \in Threads, NEW c \in ClusterNames,
             cache'[m][c] # cache[m][c], Mode[c] # "context"
      PROVE  clock < cache'[m][c].born + TokenLife
  <2>0. TypeOK /\ EksShort
    BY <1>1 DEF ClustersInv
  <2>1. PICK t \in Threads : ConstructClient(t) \/ TokenClient(t)
    BY <1>1
    DEF Next, Proceed, vars, Tick, StartCall, EnterManager, CreateManager, FetchManager,
        Guard, ClientsUnknown, Acquire, LoadConfig, BuildFails, Read, TryRead
  <2>2. target[t] \in ClusterNames /\ ThreadOK(t)
    BY <1>1, <2>1, InClients DEF ConstructClient, TokenClient, ClustersInv, ThreadOK, Building
  <2>3. PICK new : Store(t, new)
    BY <2>1 DEF ConstructClient, TokenClient
  <2>4. m = mgr[t] /\ c = target[t] /\ cache'[m][c] = new
    BY <1>1, <2>0, <2>3 DEF Store, TypeOK
  <2>5. TokenClient(t)
    BY <1>1, <2>1, <2>2, <2>4 DEF ConstructClient, ThreadOK
  <2>6. \/ Store(t, [host |-> c, born |-> EksEntry(c).born])
        \/ Store(t, [host |-> c, born |-> clock])
    BY <2>4, <2>5 DEF TokenClient
  <2>7. cache'[m][c].born \in {EksEntry(c).born, clock}
    BY <2>0, <2>4, <2>6, <2>2 DEF Store, TypeOK
  <2>8. clock < clock + TokenLife
    BY <2>0, ClustersAssumption DEF TypeOK
  <2> QED BY <2>0, <2>7, <2>8, EksEntryOK
<1>2. ClustersInv /\ [Next]_vars =>
          [\A m \in Threads, c \in ClusterNames :
              cache'[m][c] # cache[m][c] /\ Mode[c] # "context" =>
                  clock < cache'[m][c].born + TokenLife]_vars
  BY <1>1
<1> QED BY <1>2, ClustersInvariant, PTL DEF Spec, FreshWhenBuilt

=============================================================================
