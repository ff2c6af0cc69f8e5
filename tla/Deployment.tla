----------------------------- MODULE Deployment -----------------------------
(***************************************************************************)
(* What one mutation of internal/kube/kube.go does to a Deployment object: *)
(* which container it targets, when it is rejected, what it writes and the *)
(* snapshot of the overwritten values it leaves in the last-change         *)
(* annotation.  Quantities are naturals, Unset standing for an absent one. *)
(***************************************************************************)
EXTENDS Integers, Sequences

CONSTANTS
    MinScale, MaxScale,     \* policy bounds of scale_deployment
    ProbeFieldBounds,       \* ProbeFieldBounds[f]: values a probe field may take
    QuantityBounds,         \* QuantityBounds[k]: values a quantity may take
    NoProbe, NoChange, NoImage, NoRegistry, NoRef

ProbeFields    == {"initial_delay_seconds", "period_seconds",
                   "failure_threshold", "success_threshold", "timeout_seconds"}
QuantityKeys   == {"cpu_request", "memory_request", "cpu_limit", "memory_limit"}
Scopes         == {"probe", "resources", "registry"}
PatchActions   == {"patch_probe", "patch_resources", "patch_registry"}
MutateActions  == PatchActions \union
                  {"restart_deployment", "scale_deployment", "set_deployment_image"}
Unset          == 0

ASSUME BoundsAssumption ==
    /\ MinScale \in Int /\ MaxScale \in Int
    /\ ProbeFieldBounds \in [ProbeFields -> SUBSET Nat]
    /\ QuantityBounds \in [QuantityKeys -> SUBSET (Nat \ {Unset})]

ScopeOf == [patch_probe |-> "probe", patch_resources |-> "resources",
            patch_registry |-> "registry"]

\* DeploymentAllowsPatch: the scope or "*" is listed by the annotation.
AllowsPatch(dep, scope) == scope \in dep.optIn \/ "*" \in dep.optIn

-----------------------------------------------------------------------------
(* Container and image references                                          *)

First(S) == CHOOSE i \in S : \A j \in S : i <= j

Named(cs, ref)      == {i \in DOMAIN cs : cs[i].name = ref}
WithImage(cs, ref)  == {i \in DOMAIN cs : cs[i].image = ref}
WithProbe(cs, type) == {i \in DOMAIN cs : cs[i].probes[type] # NoProbe}

\* findContainerIndex: by name, by image, or the only one; 0 = no match.
FindContainer(cs, ref) ==
    IF cs = <<>> THEN 0
    ELSE IF ref = NoRef THEN 1
    ELSE IF Named(cs, ref) # {} THEN First(Named(cs, ref))
    ELSE IF WithImage(cs, ref) # {} THEN First(WithImage(cs, ref))
    ELSE IF Len(cs) = 1 THEN 1 ELSE 0

\* The lookup of the executor's own helpers: by name, else the first one.
NamedOrFirst(cs, ref) ==
    IF Named(cs, ref) # {} THEN First(Named(cs, ref)) ELSE 1

\* An image reference is its registry (or none), repository and tag.
RetagImage(image, newTag) == [image EXCEPT !.tag = newTag]

SwapRegistry(image, newRegistry) == [image EXCEPT !.registry = newRegistry]

-----------------------------------------------------------------------------
(* Mutations: req is the decision reduced to what the mutation is given.   *)

\* A restart or a scaling concerns no container.
WholeDeployment(req) == req.action \in {"restart_deployment", "scale_deployment"}

Target(dep, req) == FindContainer(dep.containers, req.container)

\* Present quantities only.
Quantities(resources) == {k \in QuantityKeys : resources[k] # Unset}

MergedOver(old, new) ==
    [k \in DOMAIN old |-> IF k \in DOMAIN new THEN new[k] ELSE old[k]]

RequestsWithinLimits(r) ==
    /\ r["cpu_request"] # Unset /\ r["cpu_limit"] # Unset
          => r["cpu_request"] <= r["cpu_limit"]
    /\ r["memory_request"] # Unset /\ r["memory_limit"] # Unset
          => r["memory_request"] <= r["memory_limit"]

AcceptsImage(dep, req) ==
    Target(dep, req) # 0 => dep.containers[Target(dep, req)].image # req.image

AcceptsProbe(dep, req) ==
    /\ req.probe \in {"readiness", "liveness"}
    /\ Target(dep, req) # 0
          => dep.containers[Target(dep, req)].probes[req.probe] # NoProbe
    /\ DOMAIN req.fields # {}
    /\ \A f \in DOMAIN req.fields : req.fields[f] \in ProbeFieldBounds[f]

\* Bug form: only the proposed values are compared with each other.
AcceptsResourcesProposed(dep, req) ==
    /\ DOMAIN req.quantities # {}
    /\ \A k \in DOMAIN req.quantities : req.quantities[k] \in QuantityBounds[k]
    /\ RequestsWithinLimits(MergedOver([k \in QuantityKeys |-> Unset], req.quantities))

AcceptsResources(dep, req) ==
    /\ DOMAIN req.quantities # {}
    /\ \A k \in DOMAIN req.quantities : req.quantities[k] \in QuantityBounds[k]
    /\ Target(dep, req) # 0
          => RequestsWithinLimits(
                MergedOver(dep.containers[Target(dep, req)].resources, req.quantities))

AcceptsRegistry(dep, req) ==
    /\ req.registry # NoRegistry
    /\ Target(dep, req) # 0
          => LET image == dep.containers[Target(dep, req)].image
             IN SwapRegistry(image, req.registry) # image

\* Bug form: the opt-in annotation is left to the caller.
AcceptsUnchecked(dep, req) ==
    \/ WholeDeployment(req)
    \/ /\ ~WholeDeployment(req)
       /\ Target(dep, req) # 0
       /\ \/ req.action = "set_deployment_image" /\ AcceptsImage(dep, req)
          \/ req.action = "patch_probe" /\ AcceptsProbe(dep, req)
          \/ req.action = "patch_resources" /\ AcceptsResources(dep, req)
          \/ req.action = "patch_registry" /\ AcceptsRegistry(dep, req)

\* The mutation of req does not return an error on dep.
Accepts(dep, req) ==
    \/ WholeDeployment(req)
    \/ /\ ~WholeDeployment(req)
       /\ Target(dep, req) # 0
       /\ \/ req.action = "set_deployment_image" /\ AcceptsImage(dep, req)
          \/ /\ req.action \in PatchActions
             /\ AllowsPatch(dep, ScopeOf[req.action])
             /\ \/ req.action = "patch_probe" /\ AcceptsProbe(dep, req)
                \/ req.action = "patch_resources" /\ AcceptsResources(dep, req)
                \/ req.action = "patch_registry" /\ AcceptsRegistry(dep, req)

LastChange(action, container, previous) ==
    [action |-> action, container |-> container, previous |-> previous]

\* The container of dep that req targets, as req rewrites it.
Rewritten(c, req) ==
    CASE req.action = "set_deployment_image" -> [c EXCEPT !.image = req.image]
      [] req.action = "patch_registry" ->
            [c EXCEPT !.image = SwapRegistry(c.image, req.registry)]
      [] req.action = "patch_probe" ->
            [c EXCEPT !.probes[req.probe] = MergedOver(@, req.fields)]
      [] req.action = "patch_resources" ->
            [c EXCEPT !.resources = MergedOver(@, req.quantities)]

\* Bug form: only the fields about to be set are saved.
OverwrittenTouched(c, req) ==
    CASE req.action \in {"set_deployment_image", "patch_registry"} ->
            [image |-> c.image]
      [] req.action = "patch_probe" ->
            [probe |-> req.probe,
             fields |-> [f \in DOMAIN req.fields |-> c.probes[req.probe][f]]]
      [] req.action = "patch_resources" ->
            [k \in Quantities(c.resources) \cap DOMAIN req.quantities |-> c.resources[k]]

\* What the last-change annotation saves of it.
Overwritten(c, req) ==
    CASE req.action \in {"set_deployment_image", "patch_registry"} ->
            [image |-> c.image]
      [] req.action = "patch_probe" ->
            [probe |-> req.probe, fields |-> c.probes[req.probe]]
      [] req.action = "patch_resources" ->
            [k \in Quantities(c.resources) |-> c.resources[k]]

\* The Deployment as the mutation leaves it; stamp is the time of the call.
Mutated(dep, req, stamp) ==
    CASE req.action = "restart_deployment" -> [dep EXCEPT !.restartedAt = stamp]
      [] req.action = "scale_deployment" ->
            [dep EXCEPT !.replicas = req.replicas,
                        !.lastChange = LastChange(req.action, NoRef,
                                                  [replicas |-> dep.replicas])]
      [] OTHER ->
            LET i == Target(dep, req)
                c == dep.containers[i]
            IN [dep EXCEPT !.containers[i] = Rewritten(c, req),
                           !.lastChange = LastChange(req.action, c.name,
                                                     Overwritten(c, req))]

\* What is refused before the Deployment is looked at.
WithinPolicy(req) ==
    /\ req.action = "scale_deployment" => req.replicas \in MinScale .. MaxScale
    /\ req.action = "set_deployment_image" => req.image # NoImage

-----------------------------------------------------------------------------
(* The manual revert the annotation is for.                                *)

RestoredResources(previous) ==
    [k \in QuantityKeys |-> IF k \in DOMAIN previous THEN previous[k] ELSE Unset]

Undone(dep) ==
    LET change == dep.lastChange
        i      == First(Named(dep.containers, change.container))
    IN CASE change.action = "scale_deployment" ->
               [dep EXCEPT !.replicas = change.previous.replicas]
         [] change.action \in {"set_deployment_image", "patch_registry"} ->
               [dep EXCEPT !.containers[i].image = change.previous.image]
         [] change.action = "patch_probe" ->
               [dep EXCEPT !.containers[i].probes[change.previous.probe] =
                               MergedOver(@, change.previous.fields)]
         [] change.action = "patch_resources" ->
               [dep EXCEPT !.containers[i].resources =
                               RestoredResources(change.previous)]

=============================================================================
