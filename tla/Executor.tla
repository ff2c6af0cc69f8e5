------------------------------ MODULE Executor ------------------------------
(***************************************************************************)
(* executeDecision of cmd/agent/main.go on top of the mutations of         *)
(* KubeMutate: the policy guards, the escalations of a rejected restart,   *)
(* the completion of what the model left out, and the call.  The guards    *)
(* and the completions read the Deployment in requests of their own, each  *)
(* before the read of the mutation, with the operator editing in between.  *)
(*                                                                         *)
(* A decision carries the incident it answers (event reason, OOM markers)  *)
(* and the parameters the model filled in, and remembers for the           *)
(* properties from which limit its memory was sized.                       *)
(***************************************************************************)
EXTENDS KubeMutate, FiniteSets

CONSTANTS
    Decisions,              \* what the model may answer
    AllowPatch,             \* AllowPatch[scope]: the ALLOW_PATCH_* flags
    AllowImageUpdates,      \* ALLOW_IMAGE_UPDATES
    ImageTagDiscovery,      \* IMAGE_TAG_DISCOVERY
    RegistryTags,           \* newest tags the registries may advertise
    ImageFallbackTag,       \* IMAGE_FALLBACK_TAG, or NoTag
    NoTag, NoProbeType,
    MemoryFloor,            \* 512Mi
    BumpFactor,             \* 4
    RelaxedProbe,           \* timing of the probe escalation
    SchedulableQuantities,  \* quantities of the FailedScheduling default
    NotSized

DecisionFields ==
    {"action", "reason", "oom", "confident", "container", "replicas", "image", "probe",
     "fields", "quantities", "registry", "sizedFrom"}

ASSUME ExecutorAssumption ==
    /\ AllowPatch \in [Scopes -> BOOLEAN]
    /\ {AllowImageUpdates, ImageTagDiscovery} \subseteq BOOLEAN
    /\ MemoryFloor \in Nat /\ BumpFactor \in Nat \ {0}
    /\ \E q \in QuantityBounds["memory_limit"] :
          \A r \in QuantityBounds["memory_limit"] : r <= q
    /\ \A d \in Decisions : DOMAIN d = DecisionFields /\ d.sizedFrom = NotSized

MaxMemory ==
    CHOOSE q \in QuantityBounds["memory_limit"] :
        \A r \in QuantityBounds["memory_limit"] : r <= q

-----------------------------------------------------------------------------
(* Policy                                                                  *)

Restarts(d) == d.action = "restart_deployment"

BlockedOnProbeFailure(d) == Restarts(d) /\ d.reason = "Unhealthy"
BlockedOnOOMKilled(d)    == Restarts(d) /\ d.oom

BlockedOnFailedScheduling(d) ==
    d.action \in {"scale_deployment", "restart_deployment"}
    /\ d.reason = "FailedScheduling"

SafeImageUpdate(d) ==
    d.action = "set_deployment_image" =>
        AllowImageUpdates /\ d.confident /\ d.image # NoImage

SafePatch(d) ==
    d.action \in PatchActions => AllowPatch[ScopeOf[d.action]] /\ d.confident

-----------------------------------------------------------------------------
(* What the executor fills in from a Deployment it has read                *)

Overlay(old, new) ==
    [k \in DOMAIN old \union DOMAIN new |-> IF k \in DOMAIN new THEN new[k] ELSE old[k]]

\* chooseProbeFromDeployment prefers a readiness probe.
ProbeType(dep) ==
    IF WithProbe(dep.containers, "readiness") # {} THEN "readiness" ELSE "liveness"

HasProbe(dep) == WithProbe(dep.containers, ProbeType(dep)) # {}

ChosenContainer(dep) ==
    dep.containers[First(WithProbe(dep.containers, ProbeType(dep)))].name

Relaxed(d, dep) ==
    [d EXCEPT !.action = "patch_probe", !.confident = TRUE,
              !.container = ChosenContainer(dep), !.probe = ProbeType(dep),
              !.fields = Overlay(@, RelaxedProbe)]

\* computeBumpedMemoryLimit
Bumped(limit) ==
    LET target == IF BumpFactor * limit < MemoryFloor THEN MemoryFloor
                  ELSE BumpFactor * limit
    IN IF target > MaxMemory THEN MaxMemory ELSE target

WithQuantity(quantities, k, q) == Overlay(quantities, [key \in {k} |-> q])

Enlarged(d, dep) ==
    [d EXCEPT !.action = "patch_resources", !.confident = TRUE,
              !.sizedFrom = dep.containers[1].resources["memory_limit"],
              !.container = dep.containers[1].name,
              !.quantities = WithQuantity(@, "memory_limit",
                                Bumped(dep.containers[1].resources["memory_limit"]))]

\* deriveFallbackImage: the newest advertised tag or the fallback tag.
DerivedImages(d, dep) ==
    LET current == dep.containers[NamedOrFirst(dep.containers, d.container)].image
        tags    == IF ImageTagDiscovery THEN RegistryTags ELSE {}
    IN {RetagImage(current, t) : t \in tags \ {current.tag}} \union
       IF ImageFallbackTag = NoTag THEN {NoImage}
       ELSE {RetagImage(current, ImageFallbackTag)}

\* Bug form: the model's own limit is believed.
FlooredAsProposed(quantities, limit) ==
    IF "memory_limit" \in DOMAIN quantities THEN quantities
    ELSE WithQuantity(quantities, "memory_limit", Bumped(limit))

\* withOOMMemoryFloor, for a container whose current limit was read.
Floored(quantities, limit) ==
    IF "memory_limit" \in DOMAIN quantities /\ quantities["memory_limit"] >= Bumped(limit)
    THEN quantities
    ELSE LET raised == WithQuantity(quantities, "memory_limit", Bumped(limit))
         IN IF "memory_request" \in DOMAIN raised
               /\ raised["memory_request"] > Bumped(limit)
            THEN WithQuantity(raised, "memory_request", Bumped(limit) \div 2)
            ELSE raised

WithMemoryFloor(d, dep) ==
    LET limit == dep.containers[NamedOrFirst(dep.containers, d.container)]
                    .resources["memory_limit"]
    IN [d EXCEPT !.quantities = Floored(@, limit), !.sizedFrom = limit]

NeedsMemoryFloor(d) ==
    /\ d.action = "patch_resources"
    /\ d.oom \/ (DOMAIN d.quantities = {} /\ d.reason # "FailedScheduling")

NeedsSchedulable(d) ==
    /\ d.action = "patch_resources"
    /\ ~d.oom /\ DOMAIN d.quantities = {} /\ d.reason = "FailedScheduling"

NeedsProbe(d) == d.action = "patch_probe" /\ d.probe = NoProbeType

\* The timing defaults of a patch_probe without any field.
WithTiming(d) ==
    [d EXCEPT !.fields = IF d.action = "patch_probe" /\ DOMAIN @ = {}
                         THEN RelaxedProbe ELSE @]

WithDerivedProbe(d, dep) ==
    [d EXCEPT !.probe = ProbeType(dep),
              !.container = IF @ = NoRef THEN ChosenContainer(dep) ELSE @]

-----------------------------------------------------------------------------
(* One decision                                                            *)

\* The decision at hand becomes d and is at the next step.
GoOn(a, d, next) ==
    /\ request' = [request EXCEPT ![a] = d]
    /\ pc' = [pc EXCEPT ![a] = next]
    /\ UNCHANGED <<object, rv, snapshot, tries>>

Give(a) == Return(a) /\ UNCHANGED <<object, rv>>

Receive(a, d) == pc[a] = "idle" /\ GoOn(a, d, "review")

\* A restart that cannot help is refused unless the workload opted in to the
\* patch that can.  (A read that fails counts as no opt-in.)
EscalateProbe(a) ==
    /\ pc[a] = "review" /\ BlockedOnProbeFailure(request[a])
    /\ AllowPatch["probe"] /\ object # Gone
    /\ AllowsPatch(object, "probe") /\ HasProbe(object)
    /\ GoOn(a, Relaxed(request[a], object), "gate")

EscalateResources(a) ==
    /\ pc[a] = "review"
    /\ ~BlockedOnProbeFailure(request[a]) /\ BlockedOnOOMKilled(request[a])
    /\ AllowPatch["resources"] /\ object # Gone
    /\ AllowsPatch(object, "resources")
    /\ GoOn(a, Enlarged(request[a], object), "gate")

Refuse(a) ==
    /\ pc[a] = "review"
    /\ \/ BlockedOnProbeFailure(request[a])
       \/ BlockedOnOOMKilled(request[a])
       \/ BlockedOnFailedScheduling(request[a])
    /\ Give(a)

\* Bug form: a restart that no escalation takes over goes on.
AdmitBlocked(a) ==
    /\ pc[a] = "review"
    /\ ~BlockedOnFailedScheduling(request[a])
    /\ GoOn(a, request[a], "gate")

Admit(a) ==
    /\ pc[a] = "review"
    /\ ~BlockedOnProbeFailure(request[a]) /\ ~BlockedOnOOMKilled(request[a])
    /\ ~BlockedOnFailedScheduling(request[a])
    /\ GoOn(a, request[a], "gate")

MayDeriveImage(d) ==
    /\ d.action = "set_deployment_image" /\ d.image = NoImage
    /\ AllowImageUpdates /\ (ImageTagDiscovery \/ ImageFallbackTag # NoTag)

DeriveImage(a) ==
    /\ pc[a] = "gate" /\ MayDeriveImage(request[a]) /\ object # Gone
    /\ \E image \in DerivedImages(request[a], object) \ {NoImage} :
          GoOn(a, [request[a] EXCEPT !.image = image], "gate")

GateRefuses(a) ==
    /\ pc[a] = "gate" /\ ~(SafeImageUpdate(request[a]) /\ SafePatch(request[a]))
    /\ Give(a)

\* Bug form: patches pass the gate for image updates only.
GatePassesPatches(a) ==
    /\ pc[a] = "gate" /\ SafeImageUpdate(request[a])
    /\ GoOn(a, request[a], "size")

GatePasses(a) ==
    /\ pc[a] = "gate" /\ SafeImageUpdate(request[a]) /\ SafePatch(request[a])
    /\ GoOn(a, request[a], "size")

\* Logs, pods and abstentions leave Deployments alone, an unresolved target or
\* a missing probe ends the decision, a dry restart or scaling is over here.
Settle(a) ==
    /\ pc[a] = "size"
    /\ Give(a)

\* withOOMMemoryFloor gives its input back if its read fails.
Execute(a) ==
    /\ pc[a] = "size" /\ request[a].action \in MutateActions
    /\ WithinPolicy(request[a]) /\ ~NeedsProbe(request[a])
    /\ IF NeedsSchedulable(request[a])
       THEN Begin(a, [request[a] EXCEPT !.quantities = SchedulableQuantities])
       ELSE Begin(a, WithTiming(request[a]))

SizeMemory(a) ==
    /\ pc[a] = "size" /\ NeedsMemoryFloor(request[a]) /\ object # Gone
    /\ Begin(a, WithMemoryFloor(request[a], object))

SizeProbe(a) ==
    /\ pc[a] = "size" /\ NeedsProbe(request[a]) /\ object # Gone /\ HasProbe(object)
    /\ Begin(a, WithTiming(WithDerivedProbe(request[a], object)))

Work(a) ==
    \/ EscalateProbe(a) \/ EscalateResources(a) \/ Refuse(a) \/ Admit(a)
    \/ DeriveImage(a) \/ GateRefuses(a) \/ GatePasses(a)
    \/ Settle(a) \/ Execute(a) \/ SizeMemory(a) \/ SizeProbe(a)
    \/ Proceed(a)

NextExec ==
    \/ Interfere
    \/ \E a \in Agents : (\E d \in Decisions : Receive(a, d)) \/ Work(a)

SpecExec == InitKube /\ [][NextExec]_kvars

-----------------------------------------------------------------------------
(* Properties                                                              *)

\* Every gate of an operator-gated action is passed by what is written, also
\* when the executor turned a restart into it: the global flag is on, and the
\* annotation of the workload lists the scope of a patch when it is written.
PatchesAreGated ==
    [][\A a \in Agents :
          Writes(a) /\ request[a].action \in PatchActions
             => /\ AllowPatch[ScopeOf[request[a].action]]
                /\ request[a].confident
                /\ AllowsPatch(object, ScopeOf[request[a].action])]_kvars

\* No path through the executor ends in a restart for an incident that a
\* restart cannot cure.
NoFutileRestart ==
    [][\A a \in Agents :
          Writes(a) /\ Restarts(request[a])
             => /\ request[a].reason \notin {"Unhealthy", "FailedScheduling"}
                /\ ~request[a].oom]_kvars

LimitOf(dep, i) == dep.containers[i].resources["memory_limit"]

OOMWrite(a) == Writes(a) /\ request[a].action = "patch_resources" /\ request[a].oom

\* After an OOM kill the container gets the full step of headroom over the
\* limit the executor read, whether the model chose the patch, with whatever
\* limit, or a restart.
OOMPatchGivesHeadroom ==
    [][\A a \in Agents :
          OOMWrite(a) /\ request[a].sizedFrom # NotSized
             => LimitOf(object', Target(object, request[a]))
                   >= Bumped(request[a].sizedFrom)]_kvars

\* The memory patch of an OOM kill only raises a limit ("only raise toward
\* it").
OOMPatchNeverLowers ==
    [][\A a \in Agents :
          OOMWrite(a) => \A i \in DOMAIN object.containers :
                            LimitOf(object', i) >= LimitOf(object, i)]_kvars

=============================================================================
