----------------------------- MODULE Targeting -----------------------------
(***************************************************************************)
(* Which Deployment an event is about and which one its decision acts on:  *)
(* the owner lookups of the polling loop, the pinning of the model's       *)
(* answer, and the lookup of the executor, which reads a cluster that has  *)
(* changed since.  One API call per step, within one namespace.            *)
(***************************************************************************)
EXTENDS FiniteSets

CONSTANTS
    Pods, ReplicaSets, Deployments, Others,     \* the objects of each kind
    RSOf,           \* RSOf[p]: owner of pod p, None unless a ReplicaSet
    DeploymentOf,   \* DeploymentOf[r]: owner of ReplicaSet r, None if it has none
    NamedRS,        \* NamedRS[p]: p's name without its last part
    NamedDeployment,    \* NamedDeployment[p]: p's name without its last two
                    \* parts, None if it has fewer than three
    None

OwnerOf(p) == IF RSOf[p] = None THEN None ELSE DeploymentOf[RSOf[p]]

ASSUME TargetingAssumption ==
    /\ RSOf \in [Pods -> ReplicaSets \union {None}]
    /\ DeploymentOf \in [ReplicaSets -> Deployments \union {None}]
    /\ NamedRS \in [Pods -> ReplicaSets \union {None}]
    /\ NamedDeployment \in [Pods -> Deployments \union {None}]
    /\ None \notin Pods \union ReplicaSets \union Deployments \union Others
    /\ Deployments \intersect (Pods \union ReplicaSets) = {}
    /\ Others \intersect (Pods \union Deployments) = {}

VARIABLES
    live,       \* the objects that exist
    step,       \* the next lookup, "decide" and "acted" between the two searches
    event,      \* involved object of the event
    reliable,   \* its lookups fail only if the object is missing
    dedup,      \* Deployment the signal is keyed by, None for the object itself
    param,      \* parameters["deployment_name"] of the decision
    target      \* the Deployment acted on

given == <<event, reliable>>
tvars == <<live, step, given, dedup, param, target>>

Objects == Pods \union ReplicaSets \union Deployments

Init ==
    /\ live \in SUBSET Objects
    /\ step = "pod"
    /\ event \in Pods \union Deployments \union Others
    /\ reliable \in BOOLEAN
    /\ dedup = None /\ param = None /\ target = None

Goto(next) == step' = next

\* A Get of a missing object, of a name nothing has, or one that just fails.
Misses(o) == o = None \/ o \notin live \/ ~reliable
Finds(o)  == o # None /\ o \in live

\* Workloads come and go while the event is handled; the generated name of a
\* pod or a ReplicaSet does not come back.
Change ==
    /\ \/ \E o \in live : live' = live \ {o}
       \/ \E d \in Deployments : live' = live \union {d}
    /\ UNCHANGED <<step, given, dedup, param, target>>

-----------------------------------------------------------------------------
(* The lookups of ResolveDeploymentFromPod and InferDeploymentFromPodName. *)
(* `here' is the step and `lost' the step after a failure.                 *)

Collapse(d) == dedup' = d /\ Goto("decide")
Act(d)      == target' = d /\ Goto("acted")

\* Bug form: an object of any kind is taken for its own Deployment.
NoLookupOfKind ==
    /\ step = "pod" /\ event \notin Pods
    /\ dedup' = event
    /\ Goto("decide")
    /\ UNCHANGED <<live, given, param, target>>

\* Deployments need no lookup, other kinds get none.
NoLookup ==
    /\ step = "pod" /\ event \notin Pods
    /\ dedup' = IF event \in Deployments THEN event ELSE None
    /\ Goto("decide")
    /\ UNCHANGED <<live, given, param, target>>

GetPod(here, next, lost) ==
    /\ step = here /\ event \in Pods
    /\ \/ Finds(event) /\ RSOf[event] # None /\ Goto(next)
       \/ Finds(event) /\ RSOf[event] = None /\ Goto(lost)
       \/ Misses(event) /\ Goto(lost)

GetOwner(here, lost) ==
    /\ step = here
    /\ \/ Finds(RSOf[event]) /\ OwnerOf(event) = None /\ Goto(lost)
       \/ Misses(RSOf[event]) /\ Goto(lost)

\* Bug form: the name is tried before the owner.
LookUpPodByName ==
    /\ GetPod("pod", "named_owner", "named_owner")
    /\ UNCHANGED <<live, given, dedup, param, target>>

LookUpPod ==
    /\ GetPod("pod", "owner", "named_owner")
    /\ UNCHANGED <<live, given, dedup, param, target>>

LookUpOwner ==
    \/ /\ step = "owner" /\ Finds(RSOf[event]) /\ OwnerOf(event) # None
       /\ Collapse(OwnerOf(event))
       /\ UNCHANGED <<live, given, param, target>>
    \/ /\ GetOwner("owner", "named_owner")
       /\ UNCHANGED <<live, given, dedup, param, target>>

\* The ReplicaSet the pod's name suggests is trusted if it exists, also when
\* it has no Deployment for an owner.
LookUpNamedOwner ==
    /\ step = "named_owner"
    /\ \/ NamedDeployment[event] = None /\ Goto("decide") /\ UNCHANGED dedup
       \/ /\ NamedDeployment[event] # None /\ Finds(NamedRS[event])
          /\ Collapse(DeploymentOf[NamedRS[event]])
       \/ /\ NamedDeployment[event] # None /\ Misses(NamedRS[event])
          /\ Goto("named_deployment") /\ UNCHANGED dedup
    /\ UNCHANGED <<live, given, param, target>>

LookUpNamedDeployment ==
    /\ step = "named_deployment"
    /\ \/ Finds(NamedDeployment[event]) /\ Collapse(NamedDeployment[event])
       \/ Misses(NamedDeployment[event]) /\ Goto("decide") /\ UNCHANGED dedup
    /\ UNCHANGED <<live, given, param, target>>

-----------------------------------------------------------------------------
(* The decision                                                            *)

\* Bug form: what the model says goes.
DecideUnpinned ==
    /\ step = "decide"
    /\ \E said \in Deployments \union {None} : param' = said
    /\ Goto("resolve")
    /\ UNCHANGED <<live, given, dedup, target>>

\* The model names a Deployment or none; an owner that was resolved pins it.
Decide ==
    /\ step = "decide"
    /\ \E said \in Deployments \union {None} :
          param' = IF dedup # None THEN dedup ELSE said
    /\ Goto("resolve")
    /\ UNCHANGED <<live, given, dedup, target>>

\* ResolveDeploymentTarget
Resolve ==
    /\ step = "resolve"
    /\ \/ param # None /\ Act(param)
       \/ param = None /\ event \in Deployments /\ Act(event)
       \/ param = None /\ event \in Pods /\ Goto("exec_pod") /\ UNCHANGED target
       \/ param = None /\ event \in Others /\ Act(None)
    /\ UNCHANGED <<live, given, dedup, param>>

ExecPod ==
    /\ GetPod("exec_pod", "exec_owner", "acted")
    /\ UNCHANGED <<live, given, dedup, param, target>>

ExecOwner ==
    \/ /\ step = "exec_owner" /\ Finds(RSOf[event]) /\ OwnerOf(event) # None
       /\ Act(OwnerOf(event))
       /\ UNCHANGED <<live, given, dedup, param>>
    \/ /\ GetOwner("exec_owner", "acted")
       /\ UNCHANGED <<live, given, dedup, param, target>>

Done == step = "acted" /\ UNCHANGED tvars

Next ==
    \/ Change
    \/ NoLookup \/ LookUpPod \/ LookUpOwner \/ LookUpNamedOwner \/ LookUpNamedDeployment
    \/ Decide \/ Resolve \/ ExecPod \/ ExecOwner
    \/ Done

Spec == Init /\ [][Next]_tvars

-----------------------------------------------------------------------------
(* Properties                                                              *)

TypeOK ==
    /\ live \subseteq Objects
    /\ step \in {"pod", "owner", "named_owner", "named_deployment", "decide",
               "resolve", "exec_pod", "exec_owner", "acted"}
    /\ event \in Pods \union Deployments \union Others
    /\ reliable \in BOOLEAN
    /\ step \in {"owner", "named_owner", "named_deployment", "exec_pod", "exec_owner"}
          => event \in Pods
    /\ {dedup, param, target} \subseteq Deployments \union {None}

\* The workload acted on is the one whose window and attempts are kept: an
\* event whose owner was resolved never acts on another Deployment.
TargetIsSignal == step = "acted" /\ dedup # None => target = dedup

\* "Only when the ReplicaSet is also gone" is a name taken for an owner: while
\* a pod and its ReplicaSet are there and lookups do not fail for another
\* reason, the signal is keyed by the Deployment that owns them, whatever the
\* pod's name resembles.
NameOnlyForOrphans ==
    [][ reliable /\ dedup' # dedup
           /\ event \in live \intersect Pods /\ RSOf[event] \in live
        => OwnerOf(event) \in {None, dedup'} ]_tvars

=============================================================================
