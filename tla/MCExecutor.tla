----------------------------- MODULE MCExecutor -----------------------------
(* Decisions and Deployments for Executor.  Memory in steps of 64Mi, CPU   *)
(* in steps of 100m.                                                       *)
EXTENDS Executor, MCKubeMutate

MCBounds ==
    [cpu_request |-> 1 .. 80, cpu_limit |-> 1 .. 80,
     memory_request |-> 1 .. 256, memory_limit |-> 1 .. 256]

MCRelaxedProbe ==
    [failure_threshold |-> 6, period_seconds |-> 15, timeout_seconds |-> 5]

MCSchedulable ==
    [cpu_request |-> 1, memory_request |-> 1, cpu_limit |-> 5, memory_limit |-> 4]

SomePatches == [s \in Scopes |-> s # "registry"]

None == [x \in {} |-> 0]

\* A decision that names its action and nothing else.
Bare(action, reason, oom) ==
    [action |-> action, reason |-> reason, oom |-> oom, confident |-> TRUE,
     container |-> NoRef, replicas |-> 2, image |-> NoImage, probe |-> NoProbeType,
     fields |-> None, quantities |-> None, registry |-> NoRegistry,
     sizedFrom |-> NotSized]

Limit(action, reason, oom, q) ==
    [Bare(action, reason, oom) EXCEPT !.quantities = "memory_limit" :> q]

MCDecisions ==
    {Bare("restart_deployment", "Unhealthy", FALSE),
     Bare("restart_deployment", "BackOff", TRUE),
     Bare("restart_deployment", "BackOff", FALSE),
     Bare("restart_deployment", "FailedScheduling", FALSE),
     Bare("scale_deployment", "FailedScheduling", FALSE),
     [Limit("patch_resources", "BackOff", TRUE, 12) EXCEPT !.container = c2],
     [Limit("patch_resources", "BackOff", TRUE, 2) EXCEPT
         !.quantities = Overlay(@, "memory_request" :> 9)],
     Bare("patch_resources", "FailedScheduling", FALSE),
     Bare("patch_probe", "Unhealthy", FALSE),
     [Bare("patch_probe", "Unhealthy", FALSE) EXCEPT !.confident = FALSE,
                                                      !.probe = "readiness"],
     [Bare("patch_registry", "Failed", FALSE) EXCEPT !.registry = "mirror"],
     Bare("set_deployment_image", "Failed", FALSE),
     Bare("ask_human", "Failed", FALSE)}

\* Two containers, closed to patches until the operator says otherwise.
ClosedContainers ==
    [MCObject EXCEPT !.optIn = {},
        !.containers = <<Container(c1, Image("hub", "app", "v1"), NoProbe, Memory(1, 2)),
                         Container(c2, Image("hub", "proxy", "v1"), StrictProbe, Memory(1, 4))>>]

\* A small first container and a large sidecar.
TwoContainers ==
    [MCObject EXCEPT !.optIn = {"*"},
        !.containers = <<Container(c1, Image("hub", "app", "v1"), NoProbe, Memory(1, 1)),
                         Container(c2, Image("hub", "proxy", "v1"), NoProbe, Memory(1, 32))>>]

\* The sidecar is named by its image.
SidecarDecisions ==
    {[Limit("patch_resources", "BackOff", TRUE, 4) EXCEPT
         !.container = Image("hub", "proxy", "v1")]}

=============================================================================
