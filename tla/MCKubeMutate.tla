---------------------------- MODULE MCKubeMutate ----------------------------
(* A Deployment of one or two containers, the mutations asked of it and    *)
(* the edits made around them.  Quantities are in steps of 128Mi.          *)
EXTENDS KubeMutate, TLC

CONSTANTS c1, c2

Image(registry, repo, tag) == [registry |-> registry, repo |-> repo, tag |-> tag]

MCProbeFieldBounds ==
    [initial_delay_seconds |-> 0 .. 600, period_seconds |-> 1 .. 300,
     failure_threshold |-> 1 .. 20, success_threshold |-> 1 .. 5,
     timeout_seconds |-> 1 .. 60]

MCQuantityBounds == [k \in QuantityKeys |-> 1 .. 8]

StrictProbe == [initial_delay_seconds |-> 0, period_seconds |-> 5,
                failure_threshold |-> 2, success_threshold |-> 1,
                timeout_seconds |-> 1]

Memory(req, lim) == [cpu_request |-> Unset, cpu_limit |-> Unset,
                     memory_request |-> req, memory_limit |-> lim]

Container(name, image, readiness, resources) ==
    [name |-> name, image |-> image, resources |-> resources,
     probes |-> [readiness |-> readiness, liveness |-> NoProbe]]

MCObject ==
    [optIn |-> {"probe", "resources"}, replicas |-> 1, restartedAt |-> 0,
     lastChange |-> NoChange,
     containers |-> <<Container(c1, Image(NoRegistry, "app", "v1"), StrictProbe, Memory(2, 4)),
                      Container(c2, Image("hub", "proxy", "v1"), NoProbe, Memory(Unset, 1))>>]

\* A whole-Deployment mutation, inside the policy and outside, and one of each
\* scope.
MCMixedRequests ==
    {[action |-> "scale_deployment", replicas |-> 3],
     [action |-> "scale_deployment", replicas |-> 9],
     [action |-> "patch_registry", container |-> c2, registry |-> "mirror"],
     [action |-> "patch_probe", container |-> c1, probe |-> "readiness",
      fields |-> ("period_seconds" :> 15 @@ "failure_threshold" :> 6)],
     [action |-> "patch_resources", container |-> c1,
      quantities |-> ("memory_request" :> 3)],
     [action |-> "patch_resources", container |-> Image("hub", "proxy", "v1"),
      quantities |-> ("memory_request" :> 4 @@ "memory_limit" :> 4)]}

MCOptIns == {{}, {"*"}}

MCImages == {Image("hub", "app", "v3")}

=============================================================================
