----------------------------- MODULE MCDiagnose -----------------------------
(* The clusters to diagnose: a healthy deployment, and variations of it that  *)
(* give every detector its signature, alone and beside others.                *)
EXTENDS Diagnose

App == [name |-> "app", waiting |-> "none", lastTerm |-> "none", restarts |-> 0,
        liveness |-> FALSE, ready |-> TRUE]
Proxy == [App EXCEPT !.name = "istio-proxy", !.ready = FALSE]

Running == [containers |-> <<App>>, phase |-> "Running", evicted |-> "no",
            initFailing |-> FALSE, initLogs |-> {}, logs |-> {}, previousLogs |-> {}]

Crashing(lines) ==
    [Running EXCEPT !.containers[1] = [@ EXCEPT !.waiting = "CrashLoopBackOff",
                                                !.lastTerm = "Error", !.restarts = 4,
                                                !.liveness = TRUE, !.ready = FALSE],
                    !.previousLogs = lines]

Waiting(reason) ==
    [Running EXCEPT !.containers[1].waiting = reason, !.containers[1].ready = FALSE,
                    !.phase = "Pending"]

Api == <<"api">>
Payments == <<"payments", "0">>
Leaking == [Running EXCEPT !.containers[1].lastTerm = "OOMKilled",
                           !.containers[1].restarts = 7, !.logs = {"x509"}]

Event(object, reason, says) ==
    [object |-> object, reason |-> reason, warning |-> TRUE, says |-> says]

Healthy ==
    [kinds |-> {"deployment"}, labelled |-> TRUE, job |-> "none", pod |-> Running,
     events |-> <<Event(Payments, "Unhealthy", "liveness")>>,
     dbHost |-> "db", services |-> {"db"}, nodes |-> <<"ready">>, hpas |-> {}, pdbs |-> {},
     change |-> NoChange]

Secret == [kind |-> "secret", rollback |-> "none"]

Crashes ==
    {[Healthy EXCEPT !.pod = Crashing(lines), !.services = services, !.change = change] :
        lines \in {{}, {"authFailed"}, {"refused"}, {"timedOut", "noSuchHost"},
                   {"tempFailure", "timedOut"}, {"misbehaving"}, {"x509"}, {"fatal"}},
        services \in {{}, {"db"}}, change \in {NoChange, Secret}}

Signatures ==
    {[Healthy EXCEPT !.pod = Waiting("ImagePullBackOff"),
                     !.events = <<Event(Api, "Failed", "unauthorized")>>],
     [Healthy EXCEPT !.pod = Waiting("CreateContainerConfigError"),
                     !.events = <<Event(Api \o <<"rs", "old">>, "Failed", "secret not found")>>],
     [Healthy EXCEPT !.pod = Leaking, !.nodes = <<"ready", "Node MemoryPressure">>],
     [Healthy EXCEPT !.pod = [Running EXCEPT !.initFailing = TRUE, !.initLogs = {"fatal"},
                                             !.phase = "Pending"]],
     [Healthy EXCEPT !.pod = [Running EXCEPT !.phase = "Pending"],
                     !.events = <<Event(Api \o <<"rs", "old">>, "FailedScheduling", "pvc")>>],
     [Healthy EXCEPT !.pod = [Running EXCEPT !.evicted = "storage"]],
     [Healthy EXCEPT !.pod = [Running EXCEPT !.evicted = "pressure"], !.hpas = {"failing"},
                     !.pdbs = {"blocking"}, !.nodes = <<"NodeNotReady">>],
     [Healthy EXCEPT !.pod = Crashing({"refused"}), !.pdbs = {"without selector"}],
     [Healthy EXCEPT !.pod = [Waiting("ImagePullBackOff") EXCEPT
                 !.containers = @ \o <<[Proxy EXCEPT !.waiting = "ErrImagePull"]>>]],
     [Healthy EXCEPT !.pod.containers = <<App, [Proxy EXCEPT !.lastTerm = "OOMKilled"]>>],
     [Healthy EXCEPT !.pod.containers = <<[Proxy EXCEPT !.waiting = "ErrImagePull"], App>>,
                     !.events = <<Event(Api \o <<"rs">>, "Unhealthy", "readiness")>>]}

\* What the subject's name resolves to: nothing, one object or two of a name.
Resolutions ==
    {[Healthy EXCEPT !.kinds = kinds, !.pod = Crashing({"refused"}), !.services = {},
                     !.job = IF "job" \in kinds THEN "failed" ELSE "none"] :
        kinds \in {{}, {"pod"}, {"statefulset"}, {"job"}, {"deployment", "job"}}}

Labelled == {Healthy} \cup Crashes \cup Signatures \cup Resolutions
Expressions == {[Healthy EXCEPT !.labelled = FALSE]}
=============================================================================
