----------------------------- MODULE KubeMutate -----------------------------
(***************************************************************************)
(* The calls of internal/kube/kube.go that mutate a Deployment, made by    *)
(* several agent replicas against one API server while an operator edits,  *)
(* deletes and recreates the object: mutateDeployment reads it, changes    *)
(* the copy and writes it back, again and again while the write conflicts. *)
(* A call may fail at every request.                                       *)
(***************************************************************************)
EXTENDS SharedDeployment

CONSTANTS
    Agents,
    DryRunAgents,           \* the replicas that run with DRY_RUN=true
    Steps,                  \* attempts of retry.DefaultRetry
    NoRequest, NoSnapshot,
    MaxRV                   \* bound of the checked behaviours

ASSUME AgentsAssumption ==
    /\ DryRunAgents \subseteq Agents
    /\ Steps \in Nat \ {0}
    /\ NoRequest \notin Requests
    /\ MaxRV \in Nat /\ 1 .. MaxRV \subseteq Stamps

VARIABLES
    rv,             \* resourceVersion of the object
    pc,             \* pc[a]: "idle", "validate", "get" or "update"
    request,        \* request[a]: the mutation a is carrying out
    snapshot,       \* snapshot[a]: the copy a read, with its resourceVersion
    tries           \* tries[a]: attempts a has begun

call  == <<pc, request, snapshot, tries>>
kvars == <<object, rv, call>>

InitKube ==
    /\ InitShared
    /\ rv = 1
    /\ pc = [a \in Agents |-> "idle"]
    /\ request = [a \in Agents |-> NoRequest]
    /\ snapshot = [a \in Agents |-> NoSnapshot]
    /\ tries = [a \in Agents |-> 0]

-----------------------------------------------------------------------------
(* The operator and the rest of the cluster                                *)

Interfere ==
    /\ rv < MaxRV
    /\ Edit \/ Delete \/ Create
    /\ rv' = rv + 1
    /\ UNCHANGED call

-----------------------------------------------------------------------------
(* One call                                                                *)

Return(a) ==
    /\ pc' = [pc EXCEPT ![a] = "idle"]
    /\ request' = [request EXCEPT ![a] = NoRequest]
    /\ snapshot' = [snapshot EXCEPT ![a] = NoSnapshot]
    /\ tries' = [tries EXCEPT ![a] = 0]

\* The first read of a mutation is that of its first attempt, or under DRY_RUN
\* one of its own, outside the attempts.
Begin(a, req) ==
    /\ request' = [request EXCEPT ![a] = req]
    /\ \/ /\ a \notin DryRunAgents
          /\ pc' = [pc EXCEPT ![a] = "get"]
          /\ tries' = [tries EXCEPT ![a] = 1]
       \/ /\ a \in DryRunAgents /\ ~WholeDeployment(req)
          /\ pc' = [pc EXCEPT ![a] = "validate"]
          /\ UNCHANGED tries
    /\ UNCHANGED <<object, rv, snapshot>>

Call(a, req) == pc[a] = "idle" /\ WithinPolicy(req) /\ Begin(a, req)

\* Replicas outside the bounds or an empty image are an error at once.
Reject(a, req) ==
    /\ pc[a] = "idle" /\ ~WithinPolicy(req)
    /\ Return(a)
    /\ UNCHANGED <<object, rv>>

\* A dry restart or scaling succeeds without a look at the Deployment.
DryRunReturns(a, req) ==
    /\ pc[a] = "idle" /\ WithinPolicy(req)
    /\ a \in DryRunAgents /\ WholeDeployment(req)
    /\ Return(a)
    /\ UNCHANGED <<object, rv>>

\* The other dry runs answer from the read: it fails, or the mutation of the
\* copy they then drop is accepted or rejected.
Validate(a) ==
    /\ pc[a] = "validate"
    /\ Return(a)
    /\ UNCHANGED <<object, rv>>

\* The Get fails, finds nothing, or the mutation is rejected on the copy.
GetFails(a) ==
    /\ pc[a] = "get"
    /\ Return(a)
    /\ UNCHANGED <<object, rv>>

Get(a) ==
    /\ pc[a] = "get"
    /\ object # Gone /\ Accepts(object, request[a])
    /\ snapshot' = [snapshot EXCEPT ![a] = [rv |-> rv, object |-> object]]
    /\ pc' = [pc EXCEPT ![a] = "update"]
    /\ UNCHANGED <<object, rv, request, tries>>

\* Bug form: the write carries no resourceVersion.
WriteBlindly(a) == object # Gone

\* The API server takes a write of the version it holds only.
WriteIsCurrent(a) == object # Gone /\ snapshot[a].rv = rv

\* The copy replaces the object, whatever becomes of the answer.
Update(a) ==
    /\ pc[a] = "update" /\ WriteIsCurrent(a)
    /\ rv < MaxRV
    /\ object' = Mutated(snapshot[a].object, request[a], rv)
    /\ rv' = rv + 1
    /\ Return(a)

\* Bug form: one attempt more than the backoff has steps.
ConflictOnceMore(a) ==
    /\ pc[a] = "update" /\ object # Gone /\ snapshot[a].rv # rv
    /\ tries[a] <= Steps
    /\ tries' = [tries EXCEPT ![a] = @ + 1]
    /\ pc' = [pc EXCEPT ![a] = "get"]
    /\ snapshot' = [snapshot EXCEPT ![a] = NoSnapshot]
    /\ UNCHANGED <<object, rv, request>>

\* Bug form: the retry writes the copy it has once more.
ConflictRewrites(a) ==
    /\ pc[a] = "update" /\ object # Gone /\ snapshot[a].rv # rv
    /\ tries[a] < Steps
    /\ tries' = [tries EXCEPT ![a] = @ + 1]
    /\ snapshot' = [snapshot EXCEPT ![a].rv = rv]
    /\ UNCHANGED <<object, rv, pc, request>>

\* The write conflicts: read again while attempts are left.
Conflict(a) ==
    /\ pc[a] = "update" /\ object # Gone /\ snapshot[a].rv # rv
    /\ tries[a] < Steps
    /\ tries' = [tries EXCEPT ![a] = @ + 1]
    /\ pc' = [pc EXCEPT ![a] = "get"]
    /\ snapshot' = [snapshot EXCEPT ![a] = NoSnapshot]
    /\ UNCHANGED <<object, rv, request>>

\* The write fails for another reason, or conflicts for the last time.
UpdateFails(a) ==
    /\ pc[a] = "update"
    /\ Return(a)
    /\ UNCHANGED <<object, rv>>

-----------------------------------------------------------------------------
Proceed(a) ==
    \/ Validate(a)
    \/ GetFails(a) \/ Get(a)
    \/ Update(a)
    \/ Conflict(a) \/ UpdateFails(a)

NextKube ==
    \/ Interfere
    \/ \E a \in Agents :
          \/ \E req \in Requests :
                \/ Call(a, req)
                \/ Reject(a, req) \/ DryRunReturns(a, req)
          \/ Proceed(a)

SpecKube == InitKube /\ [][NextKube]_kvars

-----------------------------------------------------------------------------
(* Properties                                                              *)

TypeOKKube ==
    /\ rv \in Nat \ {0}
    /\ pc \in [Agents -> {"idle", "validate", "get", "update"}]
    /\ request \in [Agents -> Requests \union {NoRequest}]
    /\ tries \in [Agents -> 0 .. Steps]
    /\ DOMAIN snapshot = Agents
    /\ \A a \in Agents :
          /\ pc[a] = "idle" <=> request[a] = NoRequest
          /\ pc[a] = "update" => snapshot[a].rv \in 1 .. rv

\* A copy whose resourceVersion is still the object's is the object: nothing
\* changes the one without the other.
CopiesAreTrue ==
    \A a \in Agents :
        pc[a] = "update" /\ snapshot[a].rv = rv => snapshot[a].object = object

\* Whatever the interleaving, the object only ever changes by one whole
\* mutation of the object as it was, or by an edit of somebody else: no write
\* built on a stale copy brings back what another party has replaced
\* ("cannot silently clobber each other").
NothingClobbered == [][NextShared]_object

Writes(a) == pc[a] = "update" /\ pc'[a] = "idle" /\ object' # object

\* The owner's opt-in annotation covers a patch at the very moment it is
\* written, also when it was withdrawn while the patch was under way.
OptInAtCommit ==
    [][\A a \in Agents :
          Writes(a) /\ request[a].action \in PatchActions
             => AllowsPatch(object, ScopeOf[request[a].action])]_kvars

\* Reverting by hand to the values in the last-change annotation gives back
\* exactly the replicas and containers the mutation found.
LastChangeReverts ==
    [][\A a \in Agents :
          Writes(a) /\ request[a].action # "restart_deployment"
             => /\ Undone(object').containers = object.containers
                /\ Undone(object').replicas = object.replicas]_kvars

\* Requests never exceed limits on any container, though the model proposes
\* some of the quantities and the operator chose the others.
RequestsStayWithinLimits ==
    object # Gone => \A i \in DOMAIN object.containers :
                        RequestsWithinLimits(object.containers[i].resources)

=============================================================================
