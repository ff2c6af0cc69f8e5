-------------------------- MODULE Executor_proofs --------------------------
(***************************************************************************)
(* Proofs about the carrying out of a decision, for any agents, requests,  *)
(* decisions, configuration, objects and edits: the mutations of           *)
(* KubeMutate, the Executor on top of them, and the Deployment they are    *)
(* made for (Targeting).                                                   *)
(***************************************************************************)
EXTENDS Executor, Targeting, SequenceTheorems, WellFoundedInduction, TLAPS

-----------------------------------------------------------------------------
(***************************************************************************)
(* KubeMutate: the mutations of one Deployment.                            *)
(***************************************************************************)

\* A write in flight is of a copy that was accepted.
WritesInFlight ==
    \A a \in Agents : pc[a] = "update" => Accepts(snapshot[a].object, request[a])

\* What is refused at once is never under way.
KeepsToPolicy == \A a \in Agents : pc[a] # "idle" => WithinPolicy(request[a])

KubeInv == TypeOKKube /\ CopiesAreTrue /\ WritesInFlight /\ KeepsToPolicy

LEMMA InitKubeInv == InitKube => KubeInv
BY AgentsAssumption, SMT DEF InitKube, InitShared, KubeInv, TypeOKKube, CopiesAreTrue, WritesInFlight, KeepsToPolicy

LEMMA NextKubeInv == KubeInv /\ [NextKube]_kvars => KubeInv'
<1> SUFFICES ASSUME KubeInv, [NextKube]_kvars PROVE KubeInv'
  OBVIOUS
<1> USE AgentsAssumption DEF KubeInv, TypeOKKube, CopiesAreTrue, WritesInFlight, KeepsToPolicy
<1>1. CASE Interfere
  BY <1>1, SMT DEF Interfere, call
<1>2. ASSUME NEW a \in Agents, NEW req \in Requests, Call(a, req) PROVE KubeInv'
  BY <1>2, SMT DEF Call, Begin
<1>3. ASSUME NEW a \in Agents, NEW req \in Requests, Reject(a, req) \/ DryRunReturns(a, req)
      PROVE  KubeInv'
  BY <1>3, SMT DEF Reject, DryRunReturns, Return
<1>4. ASSUME NEW a \in Agents, GetFails(a) PROVE KubeInv'
  BY <1>4, SMT DEF GetFails, Return
<1>5. ASSUME NEW a \in Agents, Validate(a) PROVE KubeInv'
  BY <1>5, SMT DEF Validate, Return
<1>6. ASSUME NEW a \in Agents, Get(a) PROVE KubeInv'
  BY <1>6, SMT DEF Get
<1>7. ASSUME NEW a \in Agents, Update(a) PROVE KubeInv'
  <2>1. /\ rv \in Nat /\ rv' = rv + 1
        /\ pc' = [pc EXCEPT ![a] = "idle"]
        /\ request' = [request EXCEPT ![a] = NoRequest]
        /\ snapshot' = [snapshot EXCEPT ![a] = NoSnapshot]
        /\ tries' = [tries EXCEPT ![a] = 0]
    BY <1>7 DEF Update, Return
  <2>2. TypeOKKube'
    BY ONLY <2>1, TypeOKKube, AgentsAssumption, SMT DEF TypeOKKube
  <2>3. CopiesAreTrue' /\ WritesInFlight'
    BY ONLY <2>1, TypeOKKube, WritesInFlight, SMT DEF TypeOKKube, CopiesAreTrue, WritesInFlight
  <2>4. KeepsToPolicy'
    BY ONLY <2>1, TypeOKKube, KeepsToPolicy, SMT DEF TypeOKKube, KeepsToPolicy, WithinPolicy
  <2>. QED
    BY ONLY <2>2, <2>3, <2>4 DEF KubeInv
<1>8. ASSUME NEW a \in Agents, Conflict(a) PROVE KubeInv'
  BY <1>8, SMT DEF Conflict
<1>9. ASSUME NEW a \in Agents, UpdateFails(a) PROVE KubeInv'
  BY <1>9, SMT DEF UpdateFails, Return
<1>10. CASE UNCHANGED kvars
  BY <1>10, SMT DEF kvars, call
<1>. QED
  BY <1>1, <1>2, <1>3, <1>4, <1>5, <1>6, <1>7, <1>8, <1>9, <1>10 DEF NextKube, Proceed

\* In every behaviour the copies an agent holds are true and its variables
\* have their types: the inductive invariant of the module.
THEOREM KubeInvariant == SpecKube => []KubeInv
<1>1. KubeInv /\ [NextKube]_kvars => KubeInv'
  BY NextKubeInv
<1>. QED
  BY InitKubeInv, <1>1, PTL DEF SpecKube

\* The variables of every agent keep to their sets, whatever it is asked and
\* whoever else writes (mutateDeployment).
THEOREM TypeCorrect == SpecKube => []TypeOKKube
<1>1. KubeInv => TypeOKKube
  BY DEF KubeInv
<1>. QED
  BY KubeInvariant, <1>1, PTL

\* A copy with the object's resourceVersion is the object (mutateDeployment).
THEOREM CopiesStayTrue == SpecKube => []CopiesAreTrue
<1>1. KubeInv => CopiesAreTrue
  BY DEF KubeInv
<1>. QED
  BY KubeInvariant, <1>1, PTL

-----------------------------------------------------------------------------
\* The only steps of the agents that change the object are their writes, and
\* a write is the mutation of the object as it is.
LEMMA WriteMutatesTheObject ==
    ASSUME KubeInv, NEW a \in Agents, Update(a)
    PROVE  /\ object # Gone
           /\ WithinPolicy(request[a]) /\ Accepts(object, request[a])
           /\ \E stamp \in Stamps : object' = Mutated(object, request[a], stamp)
           /\ request[a] \in Requests
<1>1. /\ object # Gone /\ pc[a] = "update"
      /\ snapshot[a].object = object
      /\ object' = Mutated(snapshot[a].object, request[a], rv)
  BY DEF Update, WriteIsCurrent, KubeInv, CopiesAreTrue
<1>2. rv \in Stamps
  BY AgentsAssumption, SMT DEF Update, WriteIsCurrent, KubeInv, TypeOKKube
<1>3. request[a] \in Requests
  BY <1>1, SMT DEF KubeInv, TypeOKKube
<1>4. WithinPolicy(request[a])
  BY <1>1 DEF KubeInv, KeepsToPolicy
<1>. QED
  BY <1>1, <1>2, <1>3, <1>4 DEF KubeInv, WritesInFlight

LEMMA ObjectSteps ==
    ASSUME KubeInv, [NextKube]_kvars
    PROVE  \/ UNCHANGED object
           \/ Interfere
           \/ \E a \in Agents : Update(a)
BY DEF NextKube, Proceed, Call, Begin, Reject, DryRunReturns, Validate, GetFails, Get,
       Conflict, UpdateFails, kvars

\* mutateDeployment implements the shared Deployment: under any interleaving
\* of agents and operators every change of the object is one whole mutation
\* of what was there, or one edit (kube.go 26-30).
THEOREM ImplementsShared == SpecKube => SpecShared
<1>1. InitKube => InitShared
  BY DEF InitKube
<1>2. KubeInv /\ [NextKube]_kvars => [NextShared]_object
  <2> SUFFICES ASSUME KubeInv, [NextKube]_kvars PROVE [NextShared]_object
    OBVIOUS
  <2>1. CASE Interfere
    BY <2>1 DEF Interfere, NextShared
  <2>2. ASSUME NEW a \in Agents, Update(a) PROVE NextShared
    <3>1. Mutate(request[a]) /\ request[a] \in Requests
      BY <2>2, WriteMutatesTheObject DEF Mutate
    <3>. QED
      BY <3>1 DEF NextShared
  <2>. QED
    BY <2>1, <2>2, ObjectSteps
<1>. QED
  BY <1>1, <1>2, KubeInvariant, PTL DEF SpecKube, SpecShared

\* Nobody's change is lost to a write built on a stale copy.
THEOREM NeverClobbers == SpecKube => NothingClobbered
BY ImplementsShared, PTL DEF SpecShared, NothingClobbered

\* An agent that returns while the object changes has changed it.
LEMMA WritesAreUpdates ==
    ASSUME KubeInv, [NextKube]_kvars, NEW a \in Agents, Writes(a)
    PROVE  Update(a)
<1>1. ~Interfere
  BY DEF Writes, Interfere, call
<1>2. \A b \in Agents : Update(b) => b = a
  BY SMT DEF Writes, Update, Return, KubeInv, TypeOKKube
<1>. QED
  BY <1>1, <1>2, ObjectSteps DEF Writes

\* The opt-in annotation covers every patch at the moment it is written.
THEOREM OptedInAtCommit == SpecKube => OptInAtCommit
<1>1. ASSUME KubeInv, [NextKube]_kvars, NEW a \in Agents, Writes(a),
             request[a].action \in PatchActions
      PROVE  AllowsPatch(object, ScopeOf[request[a].action])
  <2>1. Update(a)
    BY <1>1, WritesAreUpdates
  <2>2. Accepts(object, request[a])
    BY <1>1, <2>1, WriteMutatesTheObject
  <2>. QED
    BY <1>1, <2>2 DEF Accepts, WholeDeployment, PatchActions
<1>2. KubeInv /\ [NextKube]_kvars =>
        [\A a \in Agents :
            Writes(a) /\ request[a].action \in PatchActions
               => AllowsPatch(object, ScopeOf[request[a].action])]_kvars
  BY <1>1
<1>. QED
  BY <1>2, KubeInvariant, PTL DEF SpecKube, OptInAtCommit

-----------------------------------------------------------------------------
(* One mutation, and one edit                                              *)

\* A set of positions has a first one.
LEMMA LeastOf ==
  ASSUME NEW S \in SUBSET Nat, S # {}
  PROVE  \E i \in S : \A j \in S : i <= j
<1>1. PICK i \in S : \A j \in S : ~(<<j, i>> \in OpToRel(<, Nat))
  BY NatLessThanWellFounded, WFMin, Zenon
<1>2. ASSUME NEW j \in S PROVE ~(j < i)
  <2>1. OpToRel(<, Nat) = {p \in Nat \X Nat : p[1] < p[2]}
    BY Zenon DEF OpToRel
  <2>2. <<j, i>> \notin {p \in Nat \X Nat : p[1] < p[2]}
    BY <1>1, <2>1, Zenon
  <2>. QED
    BY <2>2, SMT
<1>. QED
  BY <1>2, SMT

\* The container a mutation is accepted for is there.
LEMMA TargetIsThere ==
  ASSUME NEW o, IsDeployment(o), NEW req, Accepts(o, req), ~WholeDeployment(req)
  PROVE  Target(o, req) \in DOMAIN o.containers
<1> DEFINE cs == o.containers
<1>1. /\ cs \in Seq({cs[i] : i \in DOMAIN cs}) /\ cs # <<>>
  BY Zenon DEF IsDeployment, AreContainers
<1>2. Len(cs) \in Nat /\ DOMAIN cs = 1 .. Len(cs) /\ Len(cs) # 0
  BY <1>1, SMT
<1>3. ASSUME NEW S \in SUBSET DOMAIN cs, S # {} PROVE First(S) \in S
  <2>1. S \in SUBSET Nat
    BY <1>2, <1>3, SMT
  <2>2. \E i \in S : \A j \in S : i <= j
    BY <1>3, <2>1, LeastOf
  <2>. QED
    BY <2>2 DEF First
<1>4. Named(cs, req.container) \in SUBSET DOMAIN cs /\ WithImage(cs, req.container) \in SUBSET DOMAIN cs
  BY DEF Named, WithImage
<1>5. Target(o, req) # 0
  BY DEF Accepts
<1>6. FindContainer(cs, req.container) # 0
  BY <1>5 DEF Target
<1>7. FindContainer(cs, req.container) \in DOMAIN cs
  <2>1. 1 \in DOMAIN cs
    BY <1>2, SMT
  <2>2. Named(cs, req.container) # {} => First(Named(cs, req.container)) \in DOMAIN cs
    BY <1>3, <1>4
  <2>3. WithImage(cs, req.container) # {} => First(WithImage(cs, req.container)) \in DOMAIN cs
    BY <1>3, <1>4
  <2>. QED
    BY <1>1, <1>6, <2>1, <2>2, <2>3 DEF FindContainer
<1>. QED
  BY <1>7 DEF Target

\* A value merged over a function from a set of keys to numbers is another one.
LEMMA MergedIsFunction ==
  ASSUME NEW Ks, NEW old \in [Ks -> Nat], NEW new,
         \A k \in Ks \cap DOMAIN new : new[k] \in Nat
  PROVE  MergedOver(old, new) \in [Ks -> Nat]
BY SMT DEF MergedOver

\* What a mutation makes of the container it is accepted for.
LEMMA RewrittenIsContainer ==
  ASSUME NEW o, IsDeployment(o), NEW req, Accepts(o, req), ~WholeDeployment(req),
         NEW c, c = o.containers[Target(o, req)]
  PROVE  IsContainer(Rewritten(c, req)) /\ Rewritten(c, req).name = c.name
<1>1. Target(o, req) \in DOMAIN o.containers
  BY TargetIsThere
<1>2. IsContainer(c)
  BY <1>1 DEF IsDeployment, AreContainers
<1>3. /\ c = [name |-> c.name, image |-> c.image, probes |-> c.probes,
              resources |-> c.resources]
      /\ c.probes \in [{"readiness", "liveness"} -> {NoProbe} \union [ProbeFields -> Nat]]
      /\ c.resources \in [QuantityKeys -> Nat]
      /\ RequestsWithinLimits(c.resources)
  BY <1>2, Zenon DEF IsContainer
<1>4. Target(o, req) # 0
  BY Zenon DEF Accepts
<1>5. CASE req.action \in {"set_deployment_image", "patch_registry"}
  <2>1. \E m : Rewritten(c, req) = [c EXCEPT !.image = m]
    <3>1. CASE req.action = "set_deployment_image"
      BY <3>1, Zenon DEF Rewritten
    <3>2. CASE req.action = "patch_registry"
      <4>1. Rewritten(c, req) = [c EXCEPT !.image = SwapRegistry(c.image, req.registry)]
        BY <3>2, SMT DEF Rewritten
      <4>. QED
        BY <4>1
    <3>. QED
      BY <1>5, <3>1, <3>2
  <2>2. PICK m : Rewritten(c, req) = [c EXCEPT !.image = m]
    BY <2>1
  <2>3. Rewritten(c, req) = [name |-> c.name, image |-> m, probes |-> c.probes,
                             resources |-> c.resources]
    BY ONLY <1>3, <2>2, SMT
  <2>. QED
    BY ONLY <1>3, <2>3, SMT DEF IsContainer
<1>6. CASE req.action = "patch_probe"
  <2> DEFINE merged == MergedOver(c.probes[req.probe], req.fields)
  <2>1. /\ req.probe \in {"readiness", "liveness"}
        /\ c.probes[req.probe] # NoProbe
        /\ \A f \in DOMAIN req.fields : req.fields[f] \in ProbeFieldBounds[f]
    BY <1>4, <1>6, SMT DEF Accepts, AcceptsProbe
  <2>2. c.probes[req.probe] \in [ProbeFields -> Nat]
    BY <1>3, <2>1
  <2>3. \A f \in ProbeFields \cap DOMAIN req.fields : req.fields[f] \in Nat
    BY <2>1, BoundsAssumption
  <2>4. merged \in [ProbeFields -> Nat]
    BY <2>2, <2>3, MergedIsFunction
  <2>5. Rewritten(c, req) = [c EXCEPT !.probes[req.probe] = merged]
    BY <1>6, SMT DEF Rewritten
  <2>. HIDE DEF merged
  <2>6. Rewritten(c, req) = [name |-> c.name, image |-> c.image,
                             probes |-> [c.probes EXCEPT ![req.probe] = merged],
                             resources |-> c.resources]
    BY ONLY <1>3, <2>5, SMT
  <2>7. [c.probes EXCEPT ![req.probe] = merged]
           \in [{"readiness", "liveness"} -> {NoProbe} \union [ProbeFields -> Nat]]
    BY ONLY <1>3, <2>1, <2>4, Zenon
  <2>. QED
    BY ONLY <1>3, <2>6, <2>7, SMT DEF IsContainer
<1>7. CASE req.action = "patch_resources"
  <2> DEFINE merged == MergedOver(c.resources, req.quantities)
  <2>1. /\ \A k \in DOMAIN req.quantities : req.quantities[k] \in QuantityBounds[k]
        /\ RequestsWithinLimits(merged)
    BY <1>4, <1>7, SMT DEF Accepts, AcceptsResources
  <2>2. \A k \in QuantityKeys \cap DOMAIN req.quantities : req.quantities[k] \in Nat
    BY <2>1, BoundsAssumption
  <2>3. merged \in [QuantityKeys -> Nat]
    BY <1>3, <2>2, MergedIsFunction
  <2>4. Rewritten(c, req) = [c EXCEPT !.resources = merged]
    BY <1>7, SMT DEF Rewritten
  <2>. HIDE DEF merged
  <2>5. Rewritten(c, req) = [name |-> c.name, image |-> c.image, probes |-> c.probes,
                             resources |-> merged]
    BY ONLY <1>3, <2>4, SMT
  <2>. QED
    BY ONLY <1>3, <2>1, <2>3, <2>5, SMT DEF IsContainer
<1>. QED
  BY <1>5, <1>6, <1>7, SMT DEF Accepts, PatchActions

\* Another value for one container that keeps its name.
LEMMA OneContainer ==
  ASSUME NEW cs, AreContainers(cs), NEW i \in DOMAIN cs, NEW c, IsContainer(c),
         c.name = cs[i].name
  PROVE  AreContainers([cs EXCEPT ![i] = c])
<1> DEFINE ds == [cs EXCEPT ![i] = c]
<1>1. /\ cs \in Seq({cs[j] : j \in DOMAIN cs}) /\ cs # <<>>
      /\ \A j \in DOMAIN cs : IsContainer(cs[j])
      /\ \A j, k \in DOMAIN cs : cs[j].name = cs[k].name => j = k
  BY Zenon DEF AreContainers
<1>2. /\ DOMAIN cs = 1 .. Len(cs) /\ Len(cs) \in Nat /\ Len(cs) # 0
      /\ cs = [j \in 1 .. Len(cs) |-> cs[j]]
  BY <1>1, SMT
<1>3. /\ DOMAIN ds = DOMAIN cs
      /\ \A j \in DOMAIN cs : ds[j] = IF j = i THEN c ELSE cs[j]
  BY <1>2, SMT
<1>4. ds \in Seq({ds[j] : j \in DOMAIN ds}) /\ ds # <<>>
  <2>1. PICK T : T = {ds[j] : j \in DOMAIN ds}
    OBVIOUS
  <2>2. ds \in Seq(T)
    <3>1. ds \in [1 .. Len(cs) -> T]
      BY <1>2, <1>3, <2>1, SMT
    <3>2. [1 .. Len(cs) -> T] \in {[1 .. n -> T] : n \in Nat}
      BY <1>2, Zenon
    <3>. QED
      BY ONLY <3>1, <3>2, SeqDef, Zenon
  <2>3. ds # <<>>
    BY ONLY <1>2, <1>3, SMT
  <2>. QED
    BY ONLY <2>1, <2>2, <2>3
<1>5. \A j \in DOMAIN ds : IsContainer(ds[j]) /\ ds[j].name = cs[j].name
  BY <1>1, <1>3
<1>. HIDE DEF ds
<1>6. AreContainers(ds)
  BY <1>1, <1>3, <1>4, <1>5, Zenon DEF AreContainers
<1>. QED
  BY <1>6 DEF ds

\* A mutation of containers replaces one of them and the annotation.
LEMMA MutatedContainer ==
  ASSUME NEW o, IsDeployment(o), NEW req, Accepts(o, req), ~WholeDeployment(req),
         NEW stamp,
         NEW i, i = Target(o, req), NEW c, c = o.containers[i]
  PROVE  Mutated(o, req, stamp) =
            [optIn |-> o.optIn, replicas |-> o.replicas, restartedAt |-> o.restartedAt,
             lastChange |-> LastChange(req.action, c.name, Overwritten(c, req)),
             containers |-> [o.containers EXCEPT ![i] = Rewritten(c, req)]]
<1>1. o = [optIn |-> o.optIn, replicas |-> o.replicas, restartedAt |-> o.restartedAt,
           lastChange |-> o.lastChange, containers |-> o.containers]
  BY Zenon DEF IsDeployment
<1>2. req.action # "restart_deployment" /\ req.action # "scale_deployment"
  BY DEF WholeDeployment
<1>3. PICK new, change : /\ new = Rewritten(c, req)
                         /\ change = LastChange(req.action, c.name, Overwritten(c, req))
  OBVIOUS
<1>4. Mutated(o, req, stamp) = [o EXCEPT !.containers[i] = new, !.lastChange = change]
  BY <1>2, <1>3, Zenon DEF Mutated
<1>5. PICK cs : cs = [o.containers EXCEPT ![i] = new]
  OBVIOUS
<1>6. Mutated(o, req, stamp) = [o EXCEPT !.containers = cs, !.lastChange = change]
  BY ONLY <1>4, <1>5, Zenon
<1>7. Mutated(o, req, stamp) =
            [optIn |-> o.optIn, replicas |-> o.replicas, restartedAt |-> o.restartedAt,
             lastChange |-> change, containers |-> cs]
  <2>0. PICK mid : mid = [o EXCEPT !.containers = cs]
    OBVIOUS
  <2>1. mid =
            [optIn |-> o.optIn, replicas |-> o.replicas, restartedAt |-> o.restartedAt,
             lastChange |-> o.lastChange, containers |-> cs]
    BY ONLY <1>1, <2>0, SMT
  <2>2. Mutated(o, req, stamp) = [mid EXCEPT !.lastChange = change]
    BY ONLY <1>6, <2>0, SMT
  <2>. QED
    BY ONLY <2>1, <2>2, SMT
<1>. QED
  BY <1>3, <1>5, <1>7

\* A mutation leaves a Deployment, and leaves the containers it is not about.
LEMMA MutatedIsDeployment ==
  ASSUME NEW o, IsDeployment(o), NEW req, Accepts(o, req), NEW stamp
  PROVE  IsDeployment(Mutated(o, req, stamp))
<1>1. o = [optIn |-> o.optIn, replicas |-> o.replicas, restartedAt |-> o.restartedAt,
           lastChange |-> o.lastChange, containers |-> o.containers]
      /\ AreContainers(o.containers)
  BY Zenon DEF IsDeployment
<1>2. CASE req.action = "restart_deployment"
  <2>1. Mutated(o, req, stamp) = [o EXCEPT !.restartedAt = stamp]
    BY <1>2, Zenon DEF Mutated
  <2>2. Mutated(o, req, stamp) =
           [optIn |-> o.optIn, replicas |-> o.replicas, restartedAt |-> stamp,
            lastChange |-> o.lastChange, containers |-> o.containers]
    BY ONLY <1>1, <2>1, SMT
  <2>. QED
    BY ONLY <1>1, <2>2, SMT DEF IsDeployment
<1>3. CASE req.action = "scale_deployment"
  <2>0. PICK change : change = LastChange(req.action, NoRef, [replicas |-> o.replicas])
    OBVIOUS
  <2>1. Mutated(o, req, stamp) =
           [o EXCEPT !.replicas = req.replicas, !.lastChange = change]
    <3>1. req.action # "restart_deployment"
      BY <1>3
    <3>. QED
      BY <1>3, <2>0, <3>1, Zenon DEF Mutated
  <2>2. Mutated(o, req, stamp) =
           [optIn |-> o.optIn, replicas |-> req.replicas, restartedAt |-> o.restartedAt,
            lastChange |-> change, containers |-> o.containers]
    <3>0. PICK mid : mid = [o EXCEPT !.replicas = req.replicas]
      OBVIOUS
    <3>1. mid =
             [optIn |-> o.optIn, replicas |-> req.replicas, restartedAt |-> o.restartedAt,
              lastChange |-> o.lastChange, containers |-> o.containers]
      BY ONLY <1>1, <3>0, SMT
    <3>2. Mutated(o, req, stamp) = [mid EXCEPT !.lastChange = change]
      BY ONLY <2>1, <3>0, SMT
    <3>. QED
      BY ONLY <3>1, <3>2, SMT
  <2>. QED
    BY ONLY <1>1, <2>2, SMT DEF IsDeployment
<1>4. CASE ~WholeDeployment(req)
  <2>1. PICK i : i = Target(o, req)
    OBVIOUS
  <2>2. PICK new : new = Rewritten(o.containers[i], req)
    OBVIOUS
  <2>3. i \in DOMAIN o.containers
    BY <1>4, <2>1, TargetIsThere
  <2>4. IsContainer(new) /\ new.name = o.containers[i].name
    BY <1>4, <2>1, <2>2, RewrittenIsContainer
  <2>5. AreContainers([o.containers EXCEPT ![i] = new])
    BY <1>1, <2>3, <2>4, OneContainer
  <2>6. \E change : Mutated(o, req, stamp) =
            [optIn |-> o.optIn, replicas |-> o.replicas, restartedAt |-> o.restartedAt,
             lastChange |-> change, containers |-> [o.containers EXCEPT ![i] = new]]
    BY <1>4, <2>1, <2>2, MutatedContainer
  <2>7. PICK change : Mutated(o, req, stamp) =
            [optIn |-> o.optIn, replicas |-> o.replicas, restartedAt |-> o.restartedAt,
             lastChange |-> change, containers |-> [o.containers EXCEPT ![i] = new]]
    BY <2>6
  <2>. QED
    BY ONLY <2>5, <2>7, SMT DEF IsDeployment
<1>. QED
  BY <1>2, <1>3, <1>4 DEF WholeDeployment

\* So does an edit.
LEMMA EditedIsDeployment ==
  ASSUME IsDeployment(object), NEW o, EditBy(o)
  PROVE  IsDeployment(o)
<1>1. object = [optIn |-> object.optIn, replicas |-> object.replicas,
                restartedAt |-> object.restartedAt, lastChange |-> object.lastChange,
                containers |-> object.containers]
      /\ AreContainers(object.containers)
  BY Zenon DEF IsDeployment
<1>2. CASE \E s : o = [object EXCEPT !.optIn = s]
  BY ONLY <1>1, <1>2, SMT DEF IsDeployment
<1>3. CASE \E n : o = [object EXCEPT !.replicas = n]
  BY ONLY <1>1, <1>3, SMT DEF IsDeployment
<1>4. ASSUME NEW i \in DOMAIN object.containers, NEW q \in EditLimits,
             o = [object EXCEPT !.containers[i].resources["memory_limit"] = q],
             RequestsWithinLimits(o.containers[i].resources)
      PROVE  IsDeployment(o)
  <2>1. PICK c : c = object.containers[i]
    OBVIOUS
  <2>2. IsContainer(c)
    BY <1>1, <2>1, Zenon DEF AreContainers
  <2>3. /\ c = [name |-> c.name, image |-> c.image, probes |-> c.probes,
                resources |-> c.resources]
        /\ c.probes \in [{"readiness", "liveness"} -> {NoProbe} \union [ProbeFields -> Nat]]
        /\ c.resources \in [QuantityKeys -> Nat]
    BY <2>2, Zenon DEF IsContainer
  <2>4. PICK r : r = [c.resources EXCEPT !["memory_limit"] = q]
    OBVIOUS
  <2>5. PICK new : new = [name |-> c.name, image |-> c.image, probes |-> c.probes,
                          resources |-> r]
    OBVIOUS
  <2>6. o = [optIn |-> object.optIn, replicas |-> object.replicas,
             restartedAt |-> object.restartedAt, lastChange |-> object.lastChange,
             containers |-> [object.containers EXCEPT ![i] = new]]
    <3>1. [c EXCEPT !.resources["memory_limit"] = q] = new
      BY ONLY <2>3, <2>4, <2>5, SMT
    <3>2. o = [object EXCEPT !.containers[i] = new]
      BY ONLY <1>4, <2>1, <3>1, Zenon
    <3>. QED
      BY ONLY <1>1, <3>2, SMT
  <2>7. r \in [QuantityKeys -> Nat]
    <3>1. q \in Nat
      BY ObjectAssumption
    <3>. QED
      BY ONLY <2>3, <2>4, <3>1, Zenon
  <2>8. o.containers[i] = new
    <3>1. o.containers = [object.containers EXCEPT ![i] = new]
      BY ONLY <2>6, SMT
    <3>. QED
      BY ONLY <3>1, <1>4, Zenon
  <2>9. IsContainer(new) /\ new.name = object.containers[i].name
    <3>1. RequestsWithinLimits(new.resources)
      BY ONLY <1>4, <2>8, Zenon
    <3>. QED
      BY ONLY <2>1, <2>3, <2>5, <2>7, <3>1, SMT DEF IsContainer
  <2>10. AreContainers([object.containers EXCEPT ![i] = new])
    BY <1>1, <2>9, OneContainer
  <2>. QED
    BY ONLY <2>6, <2>10, SMT DEF IsDeployment
<1>5. ASSUME NEW i \in DOMAIN object.containers, NEW m,
             o = [object EXCEPT !.containers[i].image = m]
      PROVE  IsDeployment(o)
  <2>1. PICK c : c = object.containers[i]
    OBVIOUS
  <2>2. IsContainer(c)
    BY <1>1, <2>1, Zenon DEF AreContainers
  <2>3. c = [name |-> c.name, image |-> c.image, probes |-> c.probes,
             resources |-> c.resources]
    BY <2>2, Zenon DEF IsContainer
  <2>4. PICK new : new = [name |-> c.name, image |-> m, probes |-> c.probes,
                          resources |-> c.resources]
    OBVIOUS
  <2>5. o = [optIn |-> object.optIn, replicas |-> object.replicas,
             restartedAt |-> object.restartedAt, lastChange |-> object.lastChange,
             containers |-> [object.containers EXCEPT ![i] = new]]
    <3>1. [c EXCEPT !.image = m] = new
      BY ONLY <2>3, <2>4, SMT
    <3>2. o = [object EXCEPT !.containers[i] = new]
      BY ONLY <1>5, <2>1, <3>1, Zenon
    <3>. QED
      BY ONLY <1>1, <3>2, SMT
  <2>6. IsContainer(new) /\ new.name = object.containers[i].name
    BY ONLY <2>1, <2>2, <2>4, SMT DEF IsContainer
  <2>7. AreContainers([object.containers EXCEPT ![i] = new])
    BY <1>1, <2>6, OneContainer
  <2>. QED
    BY ONLY <2>5, <2>7, SMT DEF IsDeployment
<1>. QED
  BY <1>2, <1>3, <1>4, <1>5, Zenon DEF EditBy

\* Whatever is written leaves a Deployment that the API server would take.
ObjectInv == object # Gone => IsDeployment(object)

LEMMA SharedSteps == ObjectInv /\ [NextShared]_object => ObjectInv'
<1> SUFFICES ASSUME ObjectInv, [NextShared]_object, object' # Gone
             PROVE  IsDeployment(object')
  BY DEF ObjectInv
<1>1. CASE UNCHANGED object
  BY <1>1 DEF ObjectInv
<1>2. ASSUME NEW req \in Requests, Mutate(req) PROVE IsDeployment(object')
  BY <1>2, MutatedIsDeployment DEF Mutate, ObjectInv
<1>3. CASE Edit
  BY <1>3, EditedIsDeployment DEF Edit, ObjectInv
<1>4. CASE Delete
  BY <1>4 DEF Delete
<1>5. CASE Create
  BY <1>5, ObjectAssumption DEF Create
<1>. QED
  BY <1>1, <1>2, <1>3, <1>4, <1>5 DEF NextShared

THEOREM StaysADeployment == SpecKube => []ObjectInv
<1>1. InitShared => ObjectInv
  BY ObjectAssumption DEF InitShared, ObjectInv
<1>2. SpecShared => []ObjectInv
  BY <1>1, SharedSteps, PTL DEF SpecShared
<1>. QED
  BY <1>2, ImplementsShared, PTL

\* No patch leaves a request above its limit, whatever part of the two the
\* model proposes and whatever the operator has put in place meanwhile: the
\* check is made on the merged values of the object that is written.
\* (PatchDeploymentResources)
THEOREM RequestsNeverExceedLimits == SpecKube => []RequestsStayWithinLimits
<1>1. ObjectInv => RequestsStayWithinLimits
  BY DEF ObjectInv, RequestsStayWithinLimits, IsDeployment, AreContainers, IsContainer
<1>. QED
  BY <1>1, StaysADeployment, PTL

-----------------------------------------------------------------------------
(* The revert                                                              *)

\* A value overwritten and put back.
LEMMA PutBack ==
  ASSUME NEW S, NEW f, f = [k \in S |-> f[k]], NEW s, NEW x,
         NEW g, g = [f EXCEPT ![s] = x]
  PROVE  [g EXCEPT ![s] = f[s]] = f
<1>1. g = [k \in S |-> IF k = s THEN x ELSE f[k]]
  BY SMT
<1>2. PICK h : h = [g EXCEPT ![s] = f[s]]
  OBVIOUS
<1>3. h = [k \in S |-> f[k]]
  BY <1>1, <1>2, SMT
<1>. QED
  BY <1>2, <1>3

\* Merging a function back over what was merged over it.
LEMMA MergedBack ==
  ASSUME NEW Ks, NEW old \in [Ks -> Nat], NEW new
  PROVE  MergedOver(MergedOver(old, new), old) = old
<1>1. MergedOver(old, new) = [k \in Ks |-> IF k \in DOMAIN new THEN new[k] ELSE old[k]]
  BY SMT DEF MergedOver
<1>2. MergedOver(MergedOver(old, new), old) = [k \in Ks |-> old[k]]
  BY <1>1, SMT DEF MergedOver
<1>. QED
  BY <1>2, SMT

\* The annotation of a container's mutation gives the container back.
LEMMA RestoredContainer ==
  ASSUME NEW c, IsContainer(c), NEW req,
         \/ req.action \in {"set_deployment_image", "patch_registry"}
         \/ /\ req.action = "patch_probe"
            /\ req.probe \in {"readiness", "liveness"} /\ c.probes[req.probe] # NoProbe
         \/ req.action = "patch_resources",
         NEW new, new = Rewritten(c, req),
         NEW previous, previous = Overwritten(c, req)
  PROVE  /\ req.action \in {"set_deployment_image", "patch_registry"} =>
               [new EXCEPT !.image = previous.image] = c
         /\ req.action = "patch_probe" =>
               [new EXCEPT !.probes[previous.probe] = MergedOver(@, previous.fields)] = c
         /\ req.action = "patch_resources" =>
               [new EXCEPT !.resources = RestoredResources(previous)] = c
<1>1. /\ c = [name |-> c.name, image |-> c.image, probes |-> c.probes,
              resources |-> c.resources]
      /\ c.probes \in [{"readiness", "liveness"} -> {NoProbe} \union [ProbeFields -> Nat]]
      /\ c.resources \in [QuantityKeys -> Nat]
  BY Zenon DEF IsContainer
<1>2. ASSUME req.action \in {"set_deployment_image", "patch_registry"}
      PROVE  [new EXCEPT !.image = previous.image] = c
  <2>1. previous.image = c.image
    <3>1. previous = [image |-> c.image]
      BY <1>2, Zenon DEF Overwritten
    <3>. QED
      BY ONLY <3>1, SMT
  <2>2. \E m : new = [c EXCEPT !.image = m]
    <3>1. CASE req.action = "set_deployment_image"
      BY <3>1, Zenon DEF Rewritten
    <3>2. CASE req.action = "patch_registry"
      <4>1. new = [c EXCEPT !.image = SwapRegistry(c.image, req.registry)]
        BY <3>2, SMT DEF Rewritten
      <4>. QED
        BY <4>1
    <3>. QED
      BY <1>2, <3>1, <3>2
  <2>3. PICK m : new = [c EXCEPT !.image = m]
    BY <2>2
  <2>4. new = [name |-> c.name, image |-> m, probes |-> c.probes, resources |-> c.resources]
    BY ONLY <1>1, <2>3, SMT
  <2>. QED
    BY ONLY <1>1, <2>1, <2>4, SMT
<1>3. ASSUME req.action = "patch_probe"
      PROVE  [new EXCEPT !.probes[previous.probe] = MergedOver(@, previous.fields)] = c
  <2>1. PICK t : t = req.probe
    OBVIOUS
  <2>2. t \in {"readiness", "liveness"} /\ c.probes[t] \in [ProbeFields -> Nat]
    BY <1>1, <1>3, <2>1, SMT
  <2>3. previous = [probe |-> t, fields |-> c.probes[t]]
    BY <1>3, <2>1, SMT DEF Overwritten
  <2>4. PICK merged : merged = MergedOver(c.probes[t], req.fields)
    OBVIOUS
  <2>5. new = [c EXCEPT !.probes[t] = merged]
    BY <1>3, <2>1, <2>4, SMT DEF Rewritten
  <2>6. PICK ps : ps = [c.probes EXCEPT ![t] = merged]
    OBVIOUS
  <2>7. new = [name |-> c.name, image |-> c.image, probes |-> ps, resources |-> c.resources]
    BY ONLY <1>1, <2>5, <2>6, SMT
  <2>8. ps[t] = merged
    BY ONLY <1>1, <2>2, <2>6, SMT
  <2>9. MergedOver(ps[t], previous.fields) = c.probes[t]
    <3>1. previous.fields = c.probes[t]
      BY ONLY <2>3, SMT
    <3>. QED
      BY <2>2, <2>4, <2>8, <3>1, MergedBack
  <2>10. [ps EXCEPT ![t] = c.probes[t]] = c.probes
    <3>1. c.probes = [k \in {"readiness", "liveness"} |-> c.probes[k]]
      BY ONLY <1>1, SMT
    <3>. QED
      BY <2>6, <3>1, PutBack
  <2>11. PICK back : back = [new EXCEPT !.probes[previous.probe] = MergedOver(@, previous.fields)]
    OBVIOUS
  <2>12. previous.probe = t /\ new.probes = ps
    BY ONLY <2>3, <2>7, SMT
  <2>13. back = [new EXCEPT !.probes = [ps EXCEPT ![t] = c.probes[t]]]
    BY ONLY <2>9, <2>11, <2>12, Zenon
  <2>14. back = [new EXCEPT !.probes = c.probes]
    BY ONLY <2>10, <2>13, Zenon
  <2>15. back = c
    BY ONLY <1>1, <2>7, <2>14, SMT
  <2>. QED
    BY ONLY <2>11, <2>15
<1>4. ASSUME req.action = "patch_resources"
      PROVE  [new EXCEPT !.resources = RestoredResources(previous)] = c
  <2>1. PICK merged : new = [c EXCEPT !.resources = merged]
    BY <1>4, SMT DEF Rewritten
  <2>2. new = [name |-> c.name, image |-> c.image, probes |-> c.probes, resources |-> merged]
    BY ONLY <1>1, <2>1, SMT
  <2>3. previous = [k \in Quantities(c.resources) |-> c.resources[k]]
    BY <1>4, SMT DEF Overwritten
  <2>4. RestoredResources(previous) = c.resources
    <3>1. \A k \in QuantityKeys :
             RestoredResources(previous)[k] = c.resources[k]
      BY <2>3, SMT DEF RestoredResources, Quantities
    <3>2. RestoredResources(previous) = [k \in QuantityKeys |-> RestoredResources(previous)[k]]
      BY DEF RestoredResources
    <3>. QED
      BY ONLY <1>1, <3>1, <3>2, SMT
  <2>. QED
    BY ONLY <1>1, <2>2, <2>4, SMT
<1>. QED
  BY <1>2, <1>3, <1>4

\* Reverting by hand to the last-change annotation gives back exactly what
\* the mutation found, whichever of the five it was and however the container
\* was referred to. (recordLastChange)
THEOREM LastChangeGivesBack == SpecKube => LastChangeReverts
<1>1. ASSUME KubeInv, ObjectInv, [NextKube]_kvars, NEW a \in Agents, Writes(a),
             request[a].action # "restart_deployment"
      PROVE  /\ Undone(object').containers = object.containers
             /\ Undone(object').replicas = object.replicas
  <2>1. PICK o, req : o = object /\ req = request[a]
    OBVIOUS
  <2>2. IsDeployment(o) /\ Accepts(o, req)
        /\ \E stamp \in Stamps : object' = Mutated(o, req, stamp)
    BY <1>1, <2>1, WritesAreUpdates, WriteMutatesTheObject DEF ObjectInv
  <2>3. PICK stamp \in Stamps : object' = Mutated(o, req, stamp)
    BY <2>2
  <2>4. PICK p : p = object'
    OBVIOUS
  <2>5. o = [optIn |-> o.optIn, replicas |-> o.replicas, restartedAt |-> o.restartedAt,
             lastChange |-> o.lastChange, containers |-> o.containers]
        /\ AreContainers(o.containers)
    BY <2>2, Zenon DEF IsDeployment
  <2>6. CASE req.action = "scale_deployment"
    <3>1. PICK change : change = [action |-> "scale_deployment", container |-> NoRef,
                                  previous |-> [replicas |-> o.replicas]]
      OBVIOUS
    <3>2. p = [o EXCEPT !.replicas = req.replicas, !.lastChange = change]
      <4>1. req.action # "restart_deployment"
        BY <2>6
      <4>2. change = LastChange(req.action, NoRef, [replicas |-> o.replicas])
        BY <2>6, <3>1, Zenon DEF LastChange
      <4>. QED
        BY <2>3, <2>4, <2>6, <4>1, <4>2, Zenon DEF Mutated
    <3>3. p = [optIn |-> o.optIn, replicas |-> req.replicas, restartedAt |-> o.restartedAt,
               lastChange |-> change, containers |-> o.containers]
      <4>1. PICK mid : mid = [o EXCEPT !.replicas = req.replicas]
        OBVIOUS
      <4>2. p = [mid EXCEPT !.lastChange = change]
        BY ONLY <3>2, <4>1, SMT
      <4>3. mid = [optIn |-> o.optIn, replicas |-> req.replicas, restartedAt |-> o.restartedAt,
                   lastChange |-> o.lastChange, containers |-> o.containers]
        BY ONLY <2>5, <4>1, SMT
      <4>. QED
        BY ONLY <4>2, <4>3, SMT
    <3>4. p.lastChange = change
      BY ONLY <3>3, SMT
    <3>5. change.action = "scale_deployment" /\ change.previous.replicas = o.replicas
      BY ONLY <3>1, SMT
    <3>6. Undone(p) = [p EXCEPT !.replicas = o.replicas]
      BY <3>4, <3>5, Zenon DEF Undone
    <3>7. Undone(p).containers = o.containers /\ Undone(p).replicas = o.replicas
      BY ONLY <3>3, <3>6, SMT
    <3>. QED
      BY ONLY <2>1, <2>4, <3>7
  <2>7. CASE ~WholeDeployment(req)
    <3>1. PICK i : i = Target(o, req)
      OBVIOUS
    <3>2. PICK cs, c : cs = o.containers /\ c = o.containers[i]
      OBVIOUS
    <3>3. PICK new, previous : new = Rewritten(c, req) /\ previous = Overwritten(c, req)
      OBVIOUS
    <3>4. PICK ds, change : /\ ds = [cs EXCEPT ![i] = new]
                            /\ change = LastChange(req.action, c.name, previous)
      OBVIOUS
    <3>5. p = [optIn |-> o.optIn, replicas |-> o.replicas, restartedAt |-> o.restartedAt,
               lastChange |-> change, containers |-> ds]
      BY <2>2, <2>3, <2>4, <2>7, <3>1, <3>2, <3>3, <3>4, MutatedContainer
    <3>6. i \in DOMAIN cs /\ IsContainer(c) /\ c.name = cs[i].name /\ new.name = c.name
      <4>1. i \in DOMAIN cs
        BY <2>2, <2>7, <3>1, <3>2, TargetIsThere
      <4>2. IsContainer(c)
        BY <2>5, <3>2, <4>1, Zenon DEF AreContainers
      <4>3. new.name = c.name
        BY <2>2, <2>7, <3>1, <3>2, <3>3, RewrittenIsContainer
      <4>. QED
        BY <3>2, <4>1, <4>2, <4>3
    <3>7. /\ cs \in Seq({cs[j] : j \in DOMAIN cs})
          /\ \A j, k \in DOMAIN cs : cs[j].name = cs[k].name => j = k
      BY <2>5, <3>2, Zenon DEF AreContainers
    <3>8. cs = [j \in DOMAIN cs |-> cs[j]] /\ DOMAIN cs = 1 .. Len(cs) /\ Len(cs) \in Nat
      BY <3>7, SMT
    <3>9. Named(ds, c.name) = {i}
      <4>1. DOMAIN ds = DOMAIN cs /\ ds[i] = new
            /\ \A j \in DOMAIN cs : j # i => ds[j] = cs[j]
        BY ONLY <3>4, <3>6, <3>8, SMT
      <4>. QED
        BY ONLY <3>2, <3>6, <3>7, <4>1, Zenon DEF Named
    <3>10. First({i}) = i
      <4>1. i <= i
        BY <3>6, <3>8, SMT
      <4>. QED
        BY <4>1, Zenon DEF First
    <3>11. /\ p.containers = ds /\ p.replicas = o.replicas /\ p.lastChange = change
           /\ ds[i] = new
      BY ONLY <3>4, <3>5, <3>6, <3>8, SMT
    <3>12. /\ change.action = req.action /\ change.container = c.name
           /\ change.previous = previous
      BY ONLY <3>4, SMT DEF LastChange
    <3>13. [ds EXCEPT ![i] = c] = cs
      BY ONLY <3>2, <3>4, <3>8, PutBack, Zenon
    <3>14. Undone(p) = [p EXCEPT !.containers[i] = c]
      <4>1. First(Named(p.containers, p.lastChange.container)) = i
        BY <3>9, <3>10, <3>11, <3>12, Zenon
      <4>2. /\ req.action \in {"set_deployment_image", "patch_registry"} =>
                   [new EXCEPT !.image = previous.image] = c
            /\ req.action = "patch_probe" =>
                   [new EXCEPT !.probes[previous.probe] = MergedOver(@, previous.fields)] = c
            /\ req.action = "patch_resources" =>
                   [new EXCEPT !.resources = RestoredResources(previous)] = c
        <5>1. req.action \in {"set_deployment_image", "patch_registry", "patch_probe",
                              "patch_resources"}
          BY <2>2, <2>7, SMT DEF Accepts, PatchActions
        <5>2. req.action = "patch_probe" => /\ req.probe \in {"readiness", "liveness"}
                                            /\ c.probes[req.probe] # NoProbe
          BY <2>2, <2>7, <3>1, <3>2, SMT DEF Accepts, AcceptsProbe
        <5>. QED
          BY <3>3, <3>6, <5>1, <5>2, RestoredContainer
      <4>3. CASE req.action \in {"set_deployment_image", "patch_registry"}
        <5>1. Undone(p) = [p EXCEPT !.containers[i].image = previous.image]
          BY <3>12, <3>11, <4>1, <4>3, Zenon DEF Undone
        <5>. QED
          BY ONLY <3>11, <4>2, <4>3, <5>1, Zenon
      <4>4. CASE req.action = "patch_probe"
        <5>1. Undone(p) = [p EXCEPT !.containers[i].probes[previous.probe] =
                                        MergedOver(@, previous.fields)]
          BY <3>12, <3>11, <4>1, <4>4, SMT DEF Undone
        <5>. QED
          BY ONLY <3>11, <4>2, <4>4, <5>1, Zenon
      <4>5. CASE req.action = "patch_resources"
        <5>1. Undone(p) = [p EXCEPT !.containers[i].resources = RestoredResources(previous)]
          BY <3>12, <3>11, <4>1, <4>5, SMT DEF Undone
        <5>. QED
          BY ONLY <3>11, <4>2, <4>5, <5>1, Zenon
      <4>. QED
        BY <2>2, <2>7, <4>3, <4>4, <4>5, SMT DEF Accepts, PatchActions
    <3>15. Undone(p) = [p EXCEPT !.containers = cs]
      BY ONLY <3>11, <3>13, <3>14, Zenon
    <3>16. Undone(p).containers = cs /\ Undone(p).replicas = o.replicas
      BY ONLY <3>5, <3>15, SMT
    <3>. QED
      BY ONLY <2>1, <2>4, <3>2, <3>16
  <2>. QED
    BY <1>1, <2>1, <2>6, <2>7 DEF WholeDeployment
<1>2. KubeInv /\ ObjectInv /\ [NextKube]_kvars =>
        [\A a \in Agents :
            Writes(a) /\ request[a].action # "restart_deployment"
               => /\ Undone(object').containers = object.containers
                  /\ Undone(object').replicas = object.replicas]_kvars
  BY <1>1
<1>. QED
  BY <1>2, KubeInvariant, StaysADeployment, PTL DEF SpecKube, LastChangeReverts

-----------------------------------------------------------------------------
(***************************************************************************)
(* Executor: what a decision goes through before its mutation.             *)
(***************************************************************************)

ExecTypes ==
    /\ rv \in Nat \ {0}
    /\ pc \in [Agents -> {"idle", "review", "gate", "size", "validate", "get", "update"}]
    /\ DOMAIN request = Agents /\ DOMAIN snapshot = Agents
    /\ \A a \in Agents : pc[a] = "update" => snapshot[a].rv \in 1 .. rv

\* No restart that cannot help.
Helps(d) ==
    Restarts(d) => d.reason \notin {"Unhealthy", "FailedScheduling"} /\ ~d.oom

\* A limit sized from one that was read has its headroom.
Sized(d) ==
    d.sizedFrom # NotSized =>
        /\ "memory_limit" \in DOMAIN d.quantities
        /\ d.quantities["memory_limit"] >= Bumped(d.sizedFrom)

\* What a decision has gone through by the time it is at place.
Vetted(place, d) ==
    /\ DOMAIN d = DecisionFields
    /\ place # "review" => Helps(d)
    /\ place \notin {"review", "gate"} => SafePatch(d)
    /\ Sized(d)

ExecInv ==
    /\ ExecTypes /\ CopiesAreTrue /\ WritesInFlight /\ ObjectInv
    /\ \A a \in Agents : pc[a] # "idle" => Vetted(pc[a], request[a])

-----------------------------------------------------------------------------
(* One agent at a time                                                     *)

\* The decision goes to a place it is vetted for.
LEMMA MoveKeeps ==
  ASSUME ExecInv, NEW a \in Agents, NEW d,
         NEW next \in {"review", "gate", "size", "validate", "get"},
         request' = [request EXCEPT ![a] = d], pc' = [pc EXCEPT ![a] = next],
         UNCHANGED <<object, rv, snapshot>>, Vetted(next, d)
  PROVE  ExecInv'
<1>1. ExecTypes' /\ CopiesAreTrue'
  BY SMT DEF ExecInv, ExecTypes, CopiesAreTrue
<1>2. \A b \in Agents : b # a => request'[b] = request[b] /\ pc'[b] = pc[b]
  BY SMT DEF ExecInv, ExecTypes
<1>3. request'[a] = d /\ pc'[a] = next
  BY SMT DEF ExecInv, ExecTypes
<1>4. WritesInFlight'
  BY <1>2, <1>3, SMT DEF ExecInv, WritesInFlight
<1>5. ObjectInv'
  BY DEF ExecInv, ObjectInv
<1>6. \A b \in Agents : pc'[b] # "idle" => Vetted(pc'[b], request'[b])
  BY <1>2, <1>3, Zenon DEF ExecInv
<1>. QED
  BY <1>1, <1>4, <1>5, <1>6, Zenon DEF ExecInv, Vetted, Helps, Sized, SafePatch, Restarts, Bumped

\* The decision is over, and nothing was written, or all of it.
LEMMA ReturnKeeps ==
  ASSUME ExecInv, NEW a \in Agents, Return(a),
         \/ UNCHANGED <<object, rv>>
         \/ rv' = rv + 1 /\ ObjectInv'
  PROVE  ExecInv'
<1>1. ExecTypes'
  BY SMT DEF ExecInv, ExecTypes, Return
<1>2. \A b \in Agents : b # a => /\ request'[b] = request[b] /\ pc'[b] = pc[b]
                                /\ snapshot'[b] = snapshot[b]
  BY SMT DEF ExecInv, ExecTypes, Return
<1>3. pc'[a] = "idle"
  BY SMT DEF ExecInv, ExecTypes, Return
<1>4. CopiesAreTrue' /\ WritesInFlight'
  BY <1>2, <1>3, SMT DEF ExecInv, ExecTypes, CopiesAreTrue, WritesInFlight
<1>5. ObjectInv'
  BY DEF ExecInv, ObjectInv
<1>6. \A b \in Agents : pc'[b] # "idle" => Vetted(pc'[b], request'[b])
  BY <1>2, <1>3, Zenon DEF ExecInv
<1>. QED
  BY <1>1, <1>4, <1>5, <1>6, Zenon DEF ExecInv, Vetted, Helps, Sized, SafePatch, Restarts, Bumped

-----------------------------------------------------------------------------
(* What the executor makes of a decision                                   *)

\* Another field of a decision keeps what it is vetted for.
LEMMA SameToThePolicy ==
  ASSUME NEW d, NEW e, e.action = d.action, e.reason = d.reason, e.oom = d.oom,
         e.confident = d.confident
  PROVE  (Helps(d) => Helps(e)) /\ (SafePatch(d) => SafePatch(e))
BY Zenon DEF Helps, SafePatch, Restarts

LEMMA SameSize ==
  ASSUME NEW d, NEW e, e.quantities = d.quantities, e.sizedFrom = d.sizedFrom, Sized(d)
  PROVE  Sized(e)
BY Zenon DEF Sized

LEMMA ImageDerived ==
  ASSUME NEW d, NEW place, Vetted(place, d), NEW image
  PROVE  Vetted(place, [d EXCEPT !.image = image])
<1>1. PICK e : e = [d EXCEPT !.image = image]
  OBVIOUS
<1>2. /\ DOMAIN e = DecisionFields
      /\ \A f \in DecisionFields \ {"image"} : e[f] = d[f]
  BY <1>1, SMT DEF Vetted
<1>3. /\ e.action = d.action /\ e.reason = d.reason /\ e.oom = d.oom
      /\ e.confident = d.confident /\ e.quantities = d.quantities
      /\ e.sizedFrom = d.sizedFrom
  BY <1>2, SMT DEF DecisionFields
<1>4. (Helps(d) => Helps(e)) /\ (SafePatch(d) => SafePatch(e)) /\ Sized(e)
  BY <1>3, SameToThePolicy, SameSize DEF Vetted
<1>. QED
  BY <1>1, <1>2, <1>4, Zenon DEF Vetted

LEMMA TimingAdded ==
  ASSUME NEW d, NEW place, Vetted(place, d)
  PROVE  Vetted(place, WithTiming(d))
<1>1. PICK e : e = WithTiming(d)
  OBVIOUS
<1>2. PICK v : e = [d EXCEPT !.fields = v]
  BY <1>1 DEF WithTiming
<1>3. /\ DOMAIN e = DecisionFields
      /\ \A f \in DecisionFields \ {"fields"} : e[f] = d[f]
  BY <1>2, SMT DEF Vetted
<1>4. /\ e.action = d.action /\ e.reason = d.reason /\ e.oom = d.oom
      /\ e.confident = d.confident /\ e.quantities = d.quantities
      /\ e.sizedFrom = d.sizedFrom
  BY <1>3, SMT DEF DecisionFields
<1>5. (Helps(d) => Helps(e)) /\ (SafePatch(d) => SafePatch(e)) /\ Sized(e)
  BY <1>4, SameToThePolicy, SameSize DEF Vetted
<1>. QED
  BY <1>1, <1>3, <1>5, Zenon DEF Vetted

LEMMA ProbeDerived ==
  ASSUME NEW d, NEW place, Vetted(place, d), NEW dep
  PROVE  Vetted(place, WithDerivedProbe(d, dep))
<1>1. PICK e : e = WithDerivedProbe(d, dep)
  OBVIOUS
<1>2. PICK p, c : e = [d EXCEPT !.probe = p, !.container = c]
  BY <1>1 DEF WithDerivedProbe
<1>3. /\ DOMAIN e = DecisionFields
      /\ \A f \in DecisionFields \ {"probe", "container"} : e[f] = d[f]
  <2>1. PICK mid : mid = [d EXCEPT !.probe = p]
    OBVIOUS
  <2>2. e = [mid EXCEPT !.container = c]
    BY ONLY <1>2, <2>1, SMT
  <2>3. DOMAIN mid = DecisionFields /\ \A f \in DecisionFields \ {"probe"} : mid[f] = d[f]
    BY <2>1, SMT DEF Vetted
  <2>. QED
    BY <2>2, <2>3, SMT
<1>4. /\ e.action = d.action /\ e.reason = d.reason /\ e.oom = d.oom
      /\ e.confident = d.confident /\ e.quantities = d.quantities
      /\ e.sizedFrom = d.sizedFrom
  BY <1>3, SMT DEF DecisionFields
<1>5. (Helps(d) => Helps(e)) /\ (SafePatch(d) => SafePatch(e)) /\ Sized(e)
  BY <1>4, SameToThePolicy, SameSize DEF Vetted
<1>. QED
  BY <1>1, <1>3, <1>5, Zenon DEF Vetted

\* The headroom is a quantity.
LEMMA BumpedIsNat ==
  ASSUME NEW limit \in Nat
  PROVE  Bumped(limit) \in Nat
<1>1. MaxMemory \in QuantityBounds["memory_limit"]
  BY ExecutorAssumption DEF MaxMemory
<1>2. MaxMemory \in Nat
  BY <1>1, BoundsAssumption, SMT DEF QuantityKeys
<1>. QED
  BY <1>2, ExecutorAssumption, SMT DEF Bumped

LEMMA OverlaidLimit ==
  ASSUME NEW old, NEW q
  PROVE  /\ "memory_limit" \in DOMAIN WithQuantity(old, "memory_limit", q)
         /\ WithQuantity(old, "memory_limit", q)["memory_limit"] = q
BY SMT DEF WithQuantity, Overlay

\* The container the executor reads is there, and its limit is a quantity.
LEMMA LimitIsRead ==
  ASSUME NEW o, IsDeployment(o), NEW ref
  PROVE  /\ o.containers[1].resources["memory_limit"] \in Nat
         /\ o.containers[NamedOrFirst(o.containers, ref)].resources["memory_limit"] \in Nat
<1> DEFINE cs == o.containers
<1>1. /\ cs \in Seq({cs[i] : i \in DOMAIN cs}) /\ cs # <<>>
      /\ \A i \in DOMAIN cs : IsContainer(cs[i])
  BY Zenon DEF IsDeployment, AreContainers
<1>2. Len(cs) \in Nat /\ DOMAIN cs = 1 .. Len(cs) /\ Len(cs) # 0
  BY <1>1, SMT
<1>3. 1 \in DOMAIN cs
  BY <1>2, SMT
<1>4. NamedOrFirst(cs, ref) \in DOMAIN cs
  <2>1. CASE Named(cs, ref) # {}
    <3>1. Named(cs, ref) \in SUBSET DOMAIN cs
      BY DEF Named
    <3>2. Named(cs, ref) \in SUBSET Nat
      BY <1>2, <3>1, SMT
    <3>3. \E i \in Named(cs, ref) : \A j \in Named(cs, ref) : i <= j
      BY <2>1, <3>2, LeastOf
    <3>4. First(Named(cs, ref)) \in Named(cs, ref)
      BY <3>3 DEF First
    <3>. QED
      BY <2>1, <3>1, <3>4 DEF NamedOrFirst
  <2>2. CASE Named(cs, ref) = {}
    BY <1>3, <2>2 DEF NamedOrFirst
  <2>. QED
    BY <2>1, <2>2
<1>5. ASSUME NEW i \in DOMAIN cs PROVE cs[i].resources["memory_limit"] \in Nat
  <2>1. cs[i].resources \in [QuantityKeys -> Nat]
    BY <1>1 DEF IsContainer
  <2>. QED
    BY <2>1, SMT DEF QuantityKeys
<1>. QED
  BY <1>3, <1>4, <1>5

\* A floor raises what is below it, and a request above the limit comes down
\* with no effect on the limit.
LEMMA FlooredLimit ==
  ASSUME NEW quantities, NEW limit \in Nat
  PROVE  /\ "memory_limit" \in DOMAIN Floored(quantities, limit)
         /\ Floored(quantities, limit)["memory_limit"] >= Bumped(limit)
<1>1. Bumped(limit) \in Nat
  BY BumpedIsNat
<1>2. CASE "memory_limit" \in DOMAIN quantities /\ quantities["memory_limit"] >= Bumped(limit)
  BY <1>2, Zenon DEF Floored
<1>3. CASE ~("memory_limit" \in DOMAIN quantities
             /\ quantities["memory_limit"] >= Bumped(limit))
  <2>1. PICK raised : raised = WithQuantity(quantities, "memory_limit", Bumped(limit))
    OBVIOUS
  <2>2. "memory_limit" \in DOMAIN raised /\ raised["memory_limit"] = Bumped(limit)
    BY <2>1, OverlaidLimit
  <2>3. \A q : /\ "memory_limit" \in DOMAIN WithQuantity(raised, "memory_request", q)
               /\ WithQuantity(raised, "memory_request", q)["memory_limit"] = Bumped(limit)
    BY <2>2, SMT DEF WithQuantity, Overlay
  <2>4. \/ Floored(quantities, limit) = raised
        \/ \E q : Floored(quantities, limit) = WithQuantity(raised, "memory_request", q)
    BY <1>3, <2>1, Zenon DEF Floored
  <2>5. /\ "memory_limit" \in DOMAIN Floored(quantities, limit)
        /\ Floored(quantities, limit)["memory_limit"] = Bumped(limit)
    BY <2>2, <2>3, <2>4, Zenon
  <2>. QED
    BY <1>1, <2>5, SMT
<1>. QED
  BY <1>2, <1>3

LEMMA MemoryFloored ==
  ASSUME NEW d, NEW place, Vetted(place, d), NEW o, IsDeployment(o)
  PROVE  Vetted(place, WithMemoryFloor(d, o))
<1>1. PICK e : e = WithMemoryFloor(d, o)
  OBVIOUS
<1>2. PICK limit :
        limit = o.containers[NamedOrFirst(o.containers, d.container)].resources["memory_limit"]
  OBVIOUS
<1>3. PICK floored : floored = Floored(d.quantities, limit)
  OBVIOUS
<1>4. e = [d EXCEPT !.quantities = floored, !.sizedFrom = limit]
  BY <1>1, <1>2, <1>3, Zenon DEF WithMemoryFloor
<1>5. /\ DOMAIN e = DecisionFields
      /\ \A f \in DecisionFields \ {"quantities", "sizedFrom"} : e[f] = d[f]
      /\ e.quantities = floored /\ e.sizedFrom = limit
  <2>1. PICK mid : mid = [d EXCEPT !.quantities = floored]
    OBVIOUS
  <2>2. e = [mid EXCEPT !.sizedFrom = limit]
    BY ONLY <1>4, <2>1, SMT
  <2>3. /\ DOMAIN mid = DecisionFields /\ mid.quantities = floored
        /\ \A f \in DecisionFields \ {"quantities"} : mid[f] = d[f]
    BY <2>1, SMT DEF Vetted, DecisionFields
  <2>. QED
    BY <2>2, <2>3, SMT DEF DecisionFields
<1>6. e.action = d.action /\ e.reason = d.reason /\ e.oom = d.oom /\ e.confident = d.confident
  BY <1>5, SMT DEF DecisionFields
<1>7. Sized(e)
  <2>1. limit \in Nat
    BY <1>2, LimitIsRead
  <2>2. "memory_limit" \in DOMAIN floored /\ floored["memory_limit"] >= Bumped(limit)
    BY <1>3, <2>1, FlooredLimit
  <2>. QED
    BY <1>5, <2>2, Zenon DEF Sized
<1>. QED
  BY <1>1, <1>5, <1>6, <1>7, SameToThePolicy, Zenon DEF Vetted

\* The escalations leave no restart.
LEMMA RelaxedIsVetted ==
  ASSUME NEW d, Vetted("review", d), NEW dep
  PROVE  Vetted("gate", Relaxed(d, dep))
<1>1. PICK e : e = Relaxed(d, dep)
  OBVIOUS
<1>2. PICK c, p, fields :
        e = [d EXCEPT !.action = "patch_probe", !.confident = TRUE, !.container = c,
                      !.probe = p, !.fields = fields]
  BY <1>1 DEF Relaxed
<1>3. /\ DOMAIN e = DecisionFields /\ e.action = "patch_probe"
      /\ e.quantities = d.quantities /\ e.sizedFrom = d.sizedFrom
  BY <1>2, SMT DEF Vetted, DecisionFields
<1>4. Sized(e)
  BY <1>3, SameSize DEF Vetted
<1>5. Helps(e)
  BY <1>3, SMT DEF Helps, Restarts
<1>. QED
  BY <1>1, <1>3, <1>4, <1>5, SMT DEF Vetted

LEMMA EnlargedIsVetted ==
  ASSUME NEW d, Vetted("review", d), NEW o, IsDeployment(o)
  PROVE  Vetted("gate", Enlarged(d, o))
<1>1. PICK e : e = Enlarged(d, o)
  OBVIOUS
<1>2. PICK limit : limit = o.containers[1].resources["memory_limit"]
  OBVIOUS
<1>3. PICK larger : larger = WithQuantity(d.quantities, "memory_limit", Bumped(limit))
  OBVIOUS
<1>4. PICK c : e = [d EXCEPT !.action = "patch_resources", !.confident = TRUE,
                             !.sizedFrom = limit, !.container = c, !.quantities = larger]
  BY <1>1, <1>2, <1>3, Zenon DEF Enlarged
<1>5. /\ DOMAIN e = DecisionFields /\ e.action = "patch_resources"
      /\ e.quantities = larger /\ e.sizedFrom = limit
  BY <1>4, SMT DEF Vetted, DecisionFields
<1>6. Sized(e)
  <2>1. limit \in Nat
    BY <1>2, LimitIsRead
  <2>2. Bumped(limit) \in Nat
    BY <2>1, BumpedIsNat
  <2>3. "memory_limit" \in DOMAIN larger /\ larger["memory_limit"] = Bumped(limit)
    BY <1>3, OverlaidLimit
  <2>4. larger["memory_limit"] >= Bumped(limit)
    BY <2>2, <2>3, SMT
  <2>. QED
    BY <1>5, <2>3, <2>4, Zenon DEF Sized
<1>7. Helps(e)
  BY <1>5, SMT DEF Helps, Restarts
<1>. QED
  BY <1>1, <1>5, <1>6, <1>7, SMT DEF Vetted

-----------------------------------------------------------------------------
(* The steps                                                               *)

LEMMA InitExecInv == InitKube => ExecInv
<1> SUFFICES ASSUME InitKube PROVE ExecInv
  OBVIOUS
<1>1. \A a \in Agents : pc[a] = "idle"
  BY DEF InitKube
<1>2. ExecTypes /\ CopiesAreTrue /\ WritesInFlight
  BY <1>1, SMT DEF InitKube, ExecTypes, CopiesAreTrue, WritesInFlight
<1>3. ObjectInv
  BY ObjectAssumption DEF InitKube, InitShared, ObjectInv
<1>. QED
  BY <1>1, <1>2, <1>3 DEF ExecInv

LEMMA InterferenceKeeps == ExecInv /\ Interfere => ExecInv'
<1> SUFFICES ASSUME ExecInv, Interfere PROVE ExecInv'
  OBVIOUS
<1>1. /\ rv' = rv + 1 /\ pc' = pc /\ request' = request /\ snapshot' = snapshot
  BY DEF Interfere, call
<1>2. ExecTypes' /\ CopiesAreTrue' /\ WritesInFlight'
  BY <1>1, SMT DEF ExecInv, ExecTypes, CopiesAreTrue, WritesInFlight
<1>3. ObjectInv'
  <2>1. [NextShared]_object
    BY DEF Interfere, NextShared
  <2>. QED
    BY <2>1, SharedSteps DEF ExecInv
<1>4. \A a \in Agents : pc'[a] # "idle" => Vetted(pc'[a], request'[a])
  BY <1>1, Zenon DEF ExecInv
<1>. QED
  BY <1>2, <1>3, <1>4, Zenon DEF ExecInv, Vetted, Helps, Sized, SafePatch, Restarts, Bumped

LEMMA ReceiveKeeps ==
  ASSUME ExecInv, NEW a \in Agents, NEW d \in Decisions, Receive(a, d)
  PROVE  ExecInv'
<1>1. DOMAIN d = DecisionFields /\ d.sizedFrom = NotSized
  BY ExecutorAssumption
<1>2. Vetted("review", d)
  BY <1>1, SMT DEF Vetted, Sized
<1>. QED
  BY <1>2, MoveKeeps DEF Receive, GoOn

LEMMA ReviewKeeps ==
  ASSUME ExecInv, NEW a \in Agents,
         EscalateProbe(a) \/ EscalateResources(a) \/ Refuse(a) \/ Admit(a)
  PROVE  ExecInv'
<1>1. CASE EscalateProbe(a)
  <2>1. Vetted("review", request[a])
    BY <1>1, SMT DEF EscalateProbe, ExecInv
  <2>. QED
    BY <1>1, <2>1, RelaxedIsVetted, MoveKeeps DEF EscalateProbe, GoOn
<1>2. CASE EscalateResources(a)
  <2>1. Vetted("review", request[a]) /\ IsDeployment(object)
    BY <1>2, SMT DEF EscalateResources, ExecInv, ObjectInv
  <2>. QED
    BY <1>2, <2>1, EnlargedIsVetted, MoveKeeps DEF EscalateResources, GoOn
<1>3. CASE Refuse(a)
  BY <1>3, ReturnKeeps DEF Refuse, Give
<1>4. CASE Admit(a)
  <2>1. Vetted("review", request[a])
    BY <1>4, SMT DEF Admit, ExecInv
  <2>2. Helps(request[a])
    BY <1>4 DEF Admit, Helps, Restarts, BlockedOnProbeFailure, BlockedOnOOMKilled,
                BlockedOnFailedScheduling
  <2>3. Vetted("gate", request[a])
    BY <2>1, <2>2, SMT DEF Vetted
  <2>. QED
    BY <1>4, <2>3, MoveKeeps DEF Admit, GoOn
<1>. QED
  BY <1>1, <1>2, <1>3, <1>4

LEMMA GateKeeps ==
  ASSUME ExecInv, NEW a \in Agents,
         DeriveImage(a) \/ GateRefuses(a) \/ GatePasses(a) \/ Settle(a)
  PROVE  ExecInv'
<1>1. CASE DeriveImage(a)
  <2>1. PICK image : GoOn(a, [request[a] EXCEPT !.image = image], "gate")
    BY <1>1 DEF DeriveImage
  <2>2. Vetted("gate", request[a])
    BY <1>1, SMT DEF DeriveImage, ExecInv
  <2>3. Vetted("gate", [request[a] EXCEPT !.image = image])
    BY <2>2, ImageDerived
  <2>. QED
    BY <2>1, <2>3, MoveKeeps DEF GoOn
<1>2. CASE GateRefuses(a)
  BY <1>2, ReturnKeeps DEF GateRefuses, Give
<1>3. CASE GatePasses(a)
  <2>1. Vetted("gate", request[a]) /\ SafePatch(request[a])
    BY <1>3, SMT DEF GatePasses, ExecInv
  <2>2. Vetted("size", request[a])
    BY <2>1, SMT DEF Vetted
  <2>. QED
    BY <1>3, <2>2, MoveKeeps DEF GatePasses, GoOn
<1>4. CASE Settle(a)
  BY <1>4, ReturnKeeps DEF Settle, Give
<1>. QED
  BY <1>1, <1>2, <1>3, <1>4

\* A decision is as far as the gates let it once it is at its size.
LEMMA SizeIsGet ==
  ASSUME NEW d, Vetted("size", d)
  PROVE  Vetted("get", d)
BY SMT DEF Vetted

\* A mutation begins with a decision that has passed the gates.
LEMMA BeginKeeps ==
  ASSUME ExecInv, NEW a \in Agents, NEW d, Begin(a, d), Vetted("get", d)
  PROVE  ExecInv'
<1>1. Vetted("validate", d)
  BY SMT DEF Vetted
<1>2. PICK next \in {"validate", "get"} : pc' = [pc EXCEPT ![a] = next] /\ Vetted(next, d)
  BY <1>1, Zenon DEF Begin
<1>3. request' = [request EXCEPT ![a] = d] /\ UNCHANGED <<object, rv, snapshot>>
  BY DEF Begin
<1>. QED
  BY <1>2, <1>3, MoveKeeps

LEMMA SizeKeeps ==
  ASSUME ExecInv, NEW a \in Agents, Execute(a) \/ SizeMemory(a) \/ SizeProbe(a)
  PROVE  ExecInv'
<1>1. Vetted("size", request[a])
  BY SMT DEF Execute, SizeMemory, SizeProbe, ExecInv
<1>2. Vetted("get", request[a])
  BY <1>1, SizeIsGet
<1>3. CASE Execute(a) /\ NeedsSchedulable(request[a])
  <2>1. PICK d : d = [request[a] EXCEPT !.quantities = SchedulableQuantities]
    OBVIOUS
  <2>2. /\ DOMAIN d = DecisionFields
        /\ \A f \in DecisionFields \ {"quantities"} : d[f] = request[a][f]
    BY <1>2, <2>1, SMT DEF Vetted
  <2>3. /\ d.action = request[a].action /\ d.reason = request[a].reason
        /\ d.oom = request[a].oom /\ d.confident = request[a].confident
        /\ d.sizedFrom = request[a].sizedFrom
    BY <2>2, SMT DEF DecisionFields
  <2>4. request[a].sizedFrom = NotSized
    BY <1>2, <1>3 DEF Vetted, Sized, NeedsSchedulable
  <2>5. Sized(d)
    BY <2>3, <2>4 DEF Sized
  <2>6. Vetted("get", d)
    BY <1>2, <2>2, <2>3, <2>5, SameToThePolicy, Zenon DEF Vetted
  <2>. QED
    BY <1>3, <2>1, <2>6, BeginKeeps DEF Execute
<1>4. CASE Execute(a) /\ ~NeedsSchedulable(request[a])
  <2>1. Vetted("get", WithTiming(request[a]))
    BY <1>2, TimingAdded
  <2>. QED
    BY <1>4, <2>1, BeginKeeps DEF Execute
<1>5. CASE SizeMemory(a)
  <2>1. IsDeployment(object)
    BY <1>5 DEF SizeMemory, ExecInv, ObjectInv
  <2>2. Vetted("get", WithMemoryFloor(request[a], object))
    BY <1>2, <2>1, MemoryFloored
  <2>. QED
    BY <1>5, <2>2, BeginKeeps DEF SizeMemory
<1>6. CASE SizeProbe(a)
  <2>1. Vetted("get", WithTiming(WithDerivedProbe(request[a], object)))
    BY <1>2, ProbeDerived, TimingAdded
  <2>. QED
    BY <1>6, <2>1, BeginKeeps DEF SizeProbe
<1>. QED
  BY <1>3, <1>4, <1>5, <1>6

\* What is written is the mutation of a Deployment.
LEMMA WriteIsOfTheObject ==
  ASSUME ExecInv, NEW a \in Agents, Update(a)
  PROVE  /\ object # Gone /\ IsDeployment(object) /\ Accepts(object, request[a])
         /\ object' = Mutated(object, request[a], rv)
         /\ Vetted("update", request[a])
<1>1. pc[a] = "update" /\ object # Gone /\ snapshot[a].rv = rv
      /\ object' = Mutated(snapshot[a].object, request[a], rv)
  BY DEF Update, WriteIsCurrent
<1>2. snapshot[a].object = object /\ Accepts(snapshot[a].object, request[a])
  BY <1>1 DEF ExecInv, CopiesAreTrue, WritesInFlight
<1>3. Vetted("update", request[a])
  BY <1>1, SMT DEF ExecInv
<1>. QED
  BY <1>1, <1>2, <1>3 DEF ExecInv, ObjectInv

LEMMA ProceedKeeps ==
  ASSUME ExecInv, NEW a \in Agents, Proceed(a)
  PROVE  ExecInv'
<1>1. CASE Validate(a) \/ GetFails(a) \/ UpdateFails(a)
  BY <1>1, ReturnKeeps DEF Validate, GetFails, UpdateFails
<1>2. CASE Update(a)
  <2>1. IsDeployment(object')
    BY <1>2, WriteIsOfTheObject, MutatedIsDeployment
  <2>. QED
    BY <1>2, <2>1, ReturnKeeps DEF Update, ObjectInv
<1>3. CASE Get(a)
  <2>1. /\ pc[a] = "get" /\ Accepts(object, request[a])
        /\ snapshot' = [snapshot EXCEPT ![a] = [rv |-> rv, object |-> object]]
        /\ pc' = [pc EXCEPT ![a] = "update"]
        /\ UNCHANGED <<object, rv, request>>
    BY <1>3 DEF Get
  <2>2. \A b \in Agents : b # a => pc'[b] = pc[b] /\ snapshot'[b] = snapshot[b]
    BY <2>1, SMT DEF ExecInv, ExecTypes
  <2>3. pc'[a] = "update" /\ snapshot'[a] = [rv |-> rv, object |-> object]
    BY <2>1, SMT DEF ExecInv, ExecTypes
  <2>4. ExecTypes'
    BY <2>1, <2>2, <2>3, SMT DEF ExecInv, ExecTypes
  <2>5. CopiesAreTrue' /\ WritesInFlight'
    BY <2>1, <2>2, <2>3, SMT DEF ExecInv, CopiesAreTrue, WritesInFlight
  <2>6. ObjectInv'
    BY <2>1 DEF ExecInv, ObjectInv
  <2>7. Vetted("update", request[a])
    <3>1. Vetted("get", request[a])
      BY <2>1, SMT DEF ExecInv
    <3>. QED
      BY <3>1, SMT DEF Vetted
  <2>8. \A b \in Agents : pc'[b] # "idle" => Vetted(pc'[b], request'[b])
    BY <2>1, <2>2, <2>3, <2>7, Zenon DEF ExecInv
  <2>. QED
    BY <2>4, <2>5, <2>6, <2>8, Zenon
       DEF ExecInv, Vetted, Helps, Sized, SafePatch, Restarts, Bumped
<1>4. CASE Conflict(a)
  <2>1. /\ pc[a] = "update"
        /\ snapshot' = [snapshot EXCEPT ![a] = NoSnapshot]
        /\ pc' = [pc EXCEPT ![a] = "get"]
        /\ UNCHANGED <<object, rv, request>>
    BY <1>4 DEF Conflict
  <2>2. \A b \in Agents : b # a => pc'[b] = pc[b] /\ snapshot'[b] = snapshot[b]
    BY <2>1, SMT DEF ExecInv, ExecTypes
  <2>3. pc'[a] = "get"
    BY <2>1, SMT DEF ExecInv, ExecTypes
  <2>4. ExecTypes'
    BY <2>1, <2>2, <2>3, SMT DEF ExecInv, ExecTypes
  <2>5. CopiesAreTrue' /\ WritesInFlight'
    BY <2>1, <2>2, <2>3, SMT DEF ExecInv, CopiesAreTrue, WritesInFlight
  <2>6. ObjectInv'
    BY <2>1 DEF ExecInv, ObjectInv
  <2>7. Vetted("get", request[a])
    <3>1. Vetted("update", request[a])
      BY <2>1, SMT DEF ExecInv
    <3>. QED
      BY <3>1, SMT DEF Vetted
  <2>8. \A b \in Agents : pc'[b] # "idle" => Vetted(pc'[b], request'[b])
    BY <2>1, <2>2, <2>3, <2>7, Zenon DEF ExecInv
  <2>. QED
    BY <2>4, <2>5, <2>6, <2>8, Zenon
       DEF ExecInv, Vetted, Helps, Sized, SafePatch, Restarts, Bumped
<1>. QED
  BY <1>1, <1>2, <1>3, <1>4 DEF Proceed

LEMMA StutterKeeps == ExecInv /\ UNCHANGED kvars => ExecInv'
BY Zenon DEF kvars, call, ExecInv, ExecTypes, CopiesAreTrue, WritesInFlight, ObjectInv,
             Vetted, Helps, Sized, SafePatch, Restarts, Bumped

LEMMA NextExecInv == ExecInv /\ [NextExec]_kvars => ExecInv'
<1> SUFFICES ASSUME ExecInv, [NextExec]_kvars PROVE ExecInv'
  OBVIOUS
<1>1. ASSUME NEW a \in Agents, Work(a) PROVE ExecInv'
  BY <1>1, ReviewKeeps, GateKeeps, SizeKeeps, ProceedKeeps DEF Work
<1>. QED
  BY <1>1, InterferenceKeeps, ReceiveKeeps, StutterKeeps DEF NextExec

\* The inductive invariant of the module: a decision on its way to the write
\* has passed the gates behind it, and the copy it is built on is true.
THEOREM ExecInvariant == SpecExec => []ExecInv
<1>1. ExecInv /\ [NextExec]_kvars => ExecInv'
  BY NextExecInv
<1>. QED
  BY InitExecInv, <1>1, PTL DEF SpecExec

-----------------------------------------------------------------------------
(* What is written                                                         *)

\* An agent that returns while the object changes has changed it.
LEMMA ExecWritesAreUpdates ==
  ASSUME ExecInv, [NextExec]_kvars, NEW a \in Agents, Writes(a)
  PROVE  Update(a)
<1>1. pc[a] = "update" /\ pc'[a] = "idle" /\ object' # object
  BY DEF Writes
<1>2. ~Interfere /\ ~UNCHANGED kvars
  BY <1>1 DEF Interfere, call, kvars
<1>3. \A b \in Agents : Update(b) => b = a
  BY <1>1, SMT DEF Update, Return, ExecInv, ExecTypes
<1>4. PICK b \in Agents : (\E d \in Decisions : Receive(b, d)) \/ Work(b)
  BY <1>2 DEF NextExec
<1>5. Update(b)
  BY <1>1, <1>4 DEF Receive, Work, Proceed, GoOn, Give, Begin, EscalateProbe,
       EscalateResources, Refuse, Admit, DeriveImage, GateRefuses, GatePasses, Settle,
       Execute, SizeMemory, SizeProbe, Validate, GetFails, Get, Conflict, UpdateFails
<1>. QED
  BY <1>3, <1>5

LEMMA WrittenIsVetted ==
  ASSUME ExecInv, [NextExec]_kvars, NEW a \in Agents, Writes(a)
  PROVE  /\ object # Gone /\ IsDeployment(object) /\ Accepts(object, request[a])
         /\ object' = Mutated(object, request[a], rv)
         /\ Vetted("update", request[a])
BY ExecWritesAreUpdates, WriteIsOfTheObject

\* No patch is written that a gate of its scope is closed to: the operator's
\* flag, the model's confidence, the annotation of the workload as it is when
\* the patch is written, also for a patch that the executor put in the place
\* of a restart. (executeDecision, gateEscalation, ensureSafePatch)
THEOREM GatesHold == SpecExec => PatchesAreGated
<1>1. ASSUME ExecInv, [NextExec]_kvars, NEW a \in Agents, Writes(a),
             request[a].action \in PatchActions
      PROVE  /\ AllowPatch[ScopeOf[request[a].action]]
             /\ request[a].confident
             /\ AllowsPatch(object, ScopeOf[request[a].action])
  <2>1. Accepts(object, request[a]) /\ Vetted("update", request[a])
    BY <1>1, WrittenIsVetted
  <2>2. SafePatch(request[a])
    BY <2>1, SMT DEF Vetted
  <2>3. AllowPatch[ScopeOf[request[a].action]] /\ request[a].confident
    BY <1>1, <2>2, Zenon DEF SafePatch
  <2>4. AllowsPatch(object, ScopeOf[request[a].action])
    BY <1>1, <2>1 DEF Accepts, WholeDeployment, PatchActions
  <2>. QED
    BY <2>3, <2>4
<1>2. ExecInv /\ [NextExec]_kvars =>
        [\A a \in Agents :
            Writes(a) /\ request[a].action \in PatchActions
               => /\ AllowPatch[ScopeOf[request[a].action]]
                  /\ request[a].confident
                  /\ AllowsPatch(object, ScopeOf[request[a].action])]_kvars
  BY <1>1
<1>. QED
  BY <1>2, ExecInvariant, PTL DEF SpecExec, PatchesAreGated

\* No restart is written for an incident that a restart cannot cure, on any
\* path through the executor. (executeDecision)
THEOREM NoRestartIsFutile == SpecExec => NoFutileRestart
<1>1. ASSUME ExecInv, [NextExec]_kvars, NEW a \in Agents, Writes(a), Restarts(request[a])
      PROVE  /\ request[a].reason \notin {"Unhealthy", "FailedScheduling"}
             /\ ~request[a].oom
  <2>1. Vetted("update", request[a])
    BY <1>1, WrittenIsVetted
  <2>2. Helps(request[a])
    BY <2>1, SMT DEF Vetted
  <2>. QED
    BY <1>1, <2>2, Zenon DEF Helps
<1>2. ExecInv /\ [NextExec]_kvars =>
        [\A a \in Agents :
            Writes(a) /\ Restarts(request[a])
               => /\ request[a].reason \notin {"Unhealthy", "FailedScheduling"}
                  /\ ~request[a].oom]_kvars
  BY <1>1
<1>. QED
  BY <1>2, ExecInvariant, PTL DEF SpecExec, NoFutileRestart

\* The container whose memory is patched after an OOM kill has the full step
\* over the limit the executor read, whatever limit the model proposed.
\* (withOOMMemoryFloor, buildResourcesEscalation)
THEOREM HeadroomIsGiven == SpecExec => OOMPatchGivesHeadroom
<1>1. ASSUME ExecInv, [NextExec]_kvars, NEW a \in Agents, OOMWrite(a),
             request[a].sizedFrom # NotSized
      PROVE  LimitOf(object', Target(object, request[a])) >= Bumped(request[a].sizedFrom)
  <2>1. Writes(a) /\ request[a].action = "patch_resources"
    BY <1>1 DEF OOMWrite
  <2>2. /\ IsDeployment(object) /\ Accepts(object, request[a])
        /\ object' = Mutated(object, request[a], rv)
        /\ Vetted("update", request[a])
    BY <1>1, <2>1, WrittenIsVetted
  <2>3. /\ "memory_limit" \in DOMAIN request[a].quantities
        /\ request[a].quantities["memory_limit"] >= Bumped(request[a].sizedFrom)
    BY <1>1, <2>2, Zenon DEF Vetted, Sized
  <2>4. PICK i, c : i = Target(object, request[a]) /\ c = object.containers[i]
    OBVIOUS
  <2>5. ~WholeDeployment(request[a])
    BY <2>1 DEF WholeDeployment
  <2>6. i \in DOMAIN object.containers
    BY <2>2, <2>4, <2>5, TargetIsThere
  <2>7. IsContainer(c)
    BY <2>2, <2>4, <2>6 DEF IsDeployment, AreContainers
  <2>8. c = [name |-> c.name, image |-> c.image, probes |-> c.probes,
             resources |-> c.resources]
        /\ c.resources \in [QuantityKeys -> Nat]
    BY <2>7, Zenon DEF IsContainer
  <2>9. PICK merged : merged = MergedOver(c.resources, request[a].quantities)
    OBVIOUS
  <2>10. merged["memory_limit"] = request[a].quantities["memory_limit"]
    BY <2>3, <2>8, <2>9, SMT DEF MergedOver, QuantityKeys
  <2>11. Rewritten(c, request[a]) = [c EXCEPT !.resources = merged]
    BY <2>1, <2>9, SMT DEF Rewritten
  <2>12. Rewritten(c, request[a]).resources = merged
    BY ONLY <2>8, <2>11, SMT
  <2>13. object'.containers = [object.containers EXCEPT ![i] = Rewritten(c, request[a])]
    <3>1. object' = [optIn |-> object.optIn, replicas |-> object.replicas,
                     restartedAt |-> object.restartedAt,
                     lastChange |-> LastChange(request[a].action, c.name,
                                               Overwritten(c, request[a])),
                     containers |-> [object.containers EXCEPT ![i] =
                                        Rewritten(c, request[a])]]
      BY <2>2, <2>4, <2>5, MutatedContainer
    <3>. QED
      BY ONLY <3>1, SMT
  <2>14. object'.containers[i] = Rewritten(c, request[a])
    BY ONLY <2>6, <2>13, Zenon
  <2>15. LimitOf(object', i) = request[a].quantities["memory_limit"]
    BY <2>10, <2>12, <2>14 DEF LimitOf
  <2>. QED
    BY <2>3, <2>4, <2>15
<1>2. ExecInv /\ [NextExec]_kvars =>
        [\A a \in Agents :
            OOMWrite(a) /\ request[a].sizedFrom # NotSized
               => LimitOf(object', Target(object, request[a]))
                     >= Bumped(request[a].sizedFrom)]_kvars
  BY <1>1
<1>. QED
  BY <1>2, ExecInvariant, PTL DEF SpecExec, OOMPatchGivesHeadroom

-----------------------------------------------------------------------------
(***************************************************************************)
(* Targeting: which Deployment a decision is for.                          *)
(***************************************************************************)

Searching == {"pod", "owner", "named_owner", "named_deployment"}

\* What the step says about the decision, and why a name is looked at.
TargetingInv ==
    /\ TypeOK
    /\ step \in Searching => dedup = None
    /\ step = "resolve" /\ dedup # None => param = dedup
    /\ step \in {"exec_pod", "exec_owner"} => dedup = None
    /\ TargetIsSignal

\* Names are looked at if some object on the way to the owner is missing.
Orphaned ==
    reliable /\ step \in {"named_owner", "named_deployment"} =>
        ~ (event \in live /\ RSOf[event] \in live /\ OwnerOf(event) # None)

LEMMA OwnersAreDeployments ==
  /\ \A p \in Pods : OwnerOf(p) \in Deployments \union {None}
  /\ \A p \in Pods : NamedRS[p] # None => DeploymentOf[NamedRS[p]] \in Deployments \union {None}
BY TargetingAssumption DEF OwnerOf

LEMMA InitTargeting == Init => TargetingInv /\ Orphaned
BY DEF Init, TargetingInv, TypeOK, Orphaned, Searching, TargetIsSignal

LEMMA NextTargeting == TargetingInv /\ [Next]_tvars => TargetingInv'
<1> SUFFICES ASSUME TargetingInv, [Next]_tvars PROVE TargetingInv'
  OBVIOUS
<1> USE DEF TargetingInv, TypeOK, Searching, TargetIsSignal, Goto, given
<1>1. CASE Change
  BY <1>1 DEF Change, Objects
<1>2. CASE NoLookup
  BY <1>2, TargetingAssumption DEF NoLookup
<1>3. CASE LookUpPod
  BY <1>3 DEF LookUpPod, GetPod
<1>4. CASE LookUpOwner
  BY <1>4, OwnersAreDeployments DEF LookUpOwner, GetOwner, Collapse
<1>5. CASE LookUpNamedOwner
  BY <1>5, OwnersAreDeployments, TargetingAssumption DEF LookUpNamedOwner, Collapse, Finds
<1>6. CASE LookUpNamedDeployment
  BY <1>6, TargetingAssumption DEF LookUpNamedDeployment, Collapse, Finds
<1>7. CASE Decide
  BY <1>7 DEF Decide
<1>8. CASE Resolve
  BY <1>8, TargetingAssumption DEF Resolve, Act
<1>9. CASE ExecPod
  BY <1>9 DEF ExecPod, GetPod
<1>10. CASE ExecOwner
  BY <1>10, OwnersAreDeployments DEF ExecOwner, GetOwner, Act
<1>11. CASE Done \/ UNCHANGED tvars
  BY <1>11 DEF Done, tvars
<1>. QED
  BY <1>1, <1>2, <1>3, <1>4, <1>5, <1>6, <1>7, <1>8, <1>9, <1>10, <1>11 DEF Next

\* The inductive invariant: types, and at each step of the event how the
\* parameter and the target relate to the key of its signal.
THEOREM TargetingInvariant == Spec => []TargetingInv
BY InitTargeting, NextTargeting, PTL DEF Spec

\* The variables of an event on its way keep to their sets.
THEOREM TargetingTypeCorrect == Spec => []TypeOK
<1>1. TargetingInv => TypeOK
  BY DEF TargetingInv
<1>. QED
  BY TargetingInvariant, <1>1, PTL

\* The workload acted on is the one whose window and attempts are kept, even
\* if every lookup may fail.
THEOREM ActsOnItsSignal == Spec => []TargetIsSignal
<1>1. TargetingInv => TargetIsSignal
  BY DEF TargetingInv
<1>. QED
  BY <1>1, TargetingInvariant, PTL

LEMMA NextOrphaned ==
  ASSUME TargetingInv, Orphaned, [Next]_tvars
  PROVE  Orphaned'
<1> USE DEF Orphaned, Goto, TargetingInv, TypeOK, given
<1>1. CASE Change
  BY <1>1, TargetingAssumption DEF Change, OwnerOf
<1>2. CASE LookUpPod
  BY <1>2, TargetingAssumption DEF LookUpPod, GetPod, Misses, OwnerOf
<1>3. CASE LookUpOwner
  BY <1>3, TargetingAssumption DEF LookUpOwner, GetOwner, Misses, Collapse, OwnerOf
<1>4. CASE LookUpNamedOwner
  BY <1>4 DEF LookUpNamedOwner, Collapse
<1>5. CASE LookUpNamedDeployment
  BY <1>5 DEF LookUpNamedDeployment, Collapse
<1>6. CASE NoLookup \/ Decide \/ Resolve \/ ExecPod \/ ExecOwner
  BY <1>6 DEF NoLookup, Decide, Resolve, ExecPod, GetPod, ExecOwner, GetOwner, Act
<1>7. CASE Done \/ UNCHANGED tvars
  <2>1. step' = step /\ reliable' = reliable /\ event' = event /\ live' = live
    BY <1>7 DEF Done, tvars
  <2>. QED
    BY ONLY <2>1, Orphaned, Zenon DEF Orphaned
<1>. QED
  BY <1>1, <1>2, <1>3, <1>4, <1>5, <1>6, <1>7 DEF Next

\* As long as lookups of existing objects succeed, a pod's name decides only
\* for pods whose owner can no longer be followed.
THEOREM OwnersBeatNames == Spec => NameOnlyForOrphans
<1> DEFINE KeepsOwner ==
      reliable /\ dedup' # dedup
         /\ event \in live \intersect Pods /\ RSOf[event] \in live
      => OwnerOf(event) \in {None, dedup'}
<1>1. Spec => []Orphaned
  BY InitTargeting, NextOrphaned, TargetingInvariant, PTL DEF Spec
<1>2. ASSUME TargetingInv, Orphaned, Next PROVE KeepsOwner
  <2>1. CASE LookUpOwner
    BY <2>1 DEF LookUpOwner, Collapse, GetOwner
  <2>2. CASE LookUpNamedOwner \/ LookUpNamedDeployment
    BY <1>2, <2>2 DEF LookUpNamedOwner, LookUpNamedDeployment, Orphaned
  <2>3. CASE Change \/ LookUpPod \/ Decide \/ Resolve \/ ExecPod \/ ExecOwner \/ Done
    BY <2>3 DEF Change, LookUpPod, Decide, Resolve, ExecPod, ExecOwner, GetOwner, Done, tvars
  <2>4. CASE NoLookup
    BY <2>4 DEF NoLookup
  <2>. QED
    BY <1>2, <2>1, <2>2, <2>3, <2>4 DEF Next
<1>3. TargetingInv /\ Orphaned /\ [Next]_tvars => [KeepsOwner]_tvars
  BY <1>2
<1>. QED
  BY <1>1, <1>3, TargetingInvariant, PTL DEF Spec, NameOnlyForOrphans

=============================================================================
