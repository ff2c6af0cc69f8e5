-------------------------- MODULE SharedDeployment --------------------------
(***************************************************************************)
(* What kube.go promises of a Deployment that several parties write to:    *)
(* each of them changes it as if nobody else were there, one whole         *)
(* mutation at a time, and nobody's change is lost to another's.           *)
(***************************************************************************)
EXTENDS Deployment

CONSTANTS
    Requests,               \* mutations the agents are asked for
    InitialObject,          \* the Deployment as it is (re)created
    EditOptIns,             \* annotation values the operator switches between
    EditReplicas,           \* replica counts the operator or an HPA sets
    EditLimits,             \* memory limits the operator sets
    EditImages,             \* images the operator deploys
    Stamps,                 \* instants a restart may be stamped with
    Gone

-----------------------------------------------------------------------------
(* What the API server's schema and validation see to.                     *)

IsContainer(c) ==
    /\ c = [name |-> c.name, image |-> c.image, probes |-> c.probes,
            resources |-> c.resources]
    /\ c.probes \in [{"readiness", "liveness"} -> {NoProbe} \union [ProbeFields -> Nat]]
    /\ c.resources \in [QuantityKeys -> Nat]
    /\ RequestsWithinLimits(c.resources)

\* At least one container, and no two of one name.
AreContainers(cs) ==
    /\ cs \in Seq({cs[i] : i \in DOMAIN cs}) /\ cs # <<>>
    /\ \A i \in DOMAIN cs : IsContainer(cs[i])
    /\ \A i, j \in DOMAIN cs : cs[i].name = cs[j].name => i = j

IsDeployment(o) ==
    /\ o = [optIn |-> o.optIn, replicas |-> o.replicas, restartedAt |-> o.restartedAt,
            lastChange |-> o.lastChange, containers |-> o.containers]
    /\ AreContainers(o.containers)

ASSUME ObjectAssumption ==
    /\ InitialObject # Gone /\ IsDeployment(InitialObject)
    /\ EditLimits \subseteq Nat

-----------------------------------------------------------------------------

VARIABLE object             \* the Deployment at the API server, or Gone

InitShared == object = InitialObject

\* One mutation by an agent, on the object as it is.
Mutate(req) ==
    /\ object # Gone
    /\ WithinPolicy(req) /\ Accepts(object, req)
    /\ \E stamp \in Stamps : object' = Mutated(object, req, stamp)

\* kubectl, an HPA or a pipeline changes one field.
EditBy(o) ==
    \/ \E s \in EditOptIns : o = [object EXCEPT !.optIn = s]
    \/ \E n \in EditReplicas : o = [object EXCEPT !.replicas = n]
    \/ \E i \in DOMAIN object.containers :
          \/ \E q \in EditLimits :
                /\ o = [object EXCEPT !.containers[i].resources["memory_limit"] = q]
                /\ RequestsWithinLimits(o.containers[i].resources)
          \/ \E m \in EditImages : o = [object EXCEPT !.containers[i].image = m]

Edit   == object # Gone /\ EditBy(object') /\ object' # object
Delete == object # Gone /\ object' = Gone
Create == object = Gone /\ object' = InitialObject

NextShared == (\E req \in Requests : Mutate(req)) \/ Edit \/ Delete \/ Create

SpecShared == InitShared /\ [][NextShared]_object

=============================================================================
