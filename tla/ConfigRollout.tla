--------------------------- MODULE ConfigRollout ---------------------------
(***************************************************************************)
(* The configuration forms of the admin GUI: a save is a read and a        *)
(* conditional write of the ConfigMap, of the Secret, or of both, and a    *)
(* patch of the pod template that makes the Deployment replace the agent's *)
(* pods, which read both objects when their container starts.  Saves of    *)
(* several users and kubectl interleave at every API call.                 *)
(***************************************************************************)
EXTENDS Integers

CONSTANTS
    Saves,          \* the POSTs in flight
    Keys, Values,   \* settings that the pod template does not set itself
    Forms,          \* what may be posted: "config" and "secret", the settings
                    \* for each object, and "reason", the name of the form
    Pods,
    Fatal,          \* Fatal[k]: values of k the agent cannot run with
    Unset,
    Retries,        \* attempts of retry.DefaultRetry
    MaxEdits        \* bound on the changes by kubectl

Stores == {"config", "secret"}

ASSUME ConfigAssumption ==
    /\ \A f \in Forms, o \in Stores : /\ DOMAIN f[o] \subseteq Keys
                                      /\ \A k \in DOMAIN f[o] : f[o][k] \in Values
    /\ Fatal \in [Keys -> SUBSET Values]
    /\ Unset \notin Values
    /\ Retries \in Nat \ {0} /\ MaxEdits \in Nat

Gone == [k \in {} |-> Unset]

VARIABLES
    store,      \* store[o]: the data of an object, Gone if there is none
    rv,         \* rv[o]: resourceVersion of its last write
    clock,      \* the API server's counter of writes
    revision, reason,   \* annotations of the pod template
    pods,       \* pods[p]: "phase", "revision", "read" (the data its
                \* container started with) and "at" (the versions of it)
    pc,         \* pc[h]: the API call to come, "idle", "ok" or "failed"
    form,       \* form[h]: what is saved
    copy, copyRv,   \* the object as h read it
    tries,
    written,    \* history: written[h][o]: version h wrote
    rolledOut,  \* history: rolledOut[h]: revision h asked for
    edits

cluster == <<store, rv, clock, edits>>
saving  == <<pc, form, copy, copyRv, tries, written, rolledOut>>
cvars   == <<cluster, revision, reason, pods, saving>>

Phases == {"absent", "created", "running", "crashed"}
Absent == [phase |-> "absent", revision |-> 0,
           read |-> [o \in Stores |-> Gone], at |-> [o \in Stores |-> 0]]

Init ==
    /\ store = [o \in Stores |-> [k \in Keys |-> Unset]]
    /\ rv = [o \in Stores |-> 0]
    /\ clock = 0
    /\ revision = 0 /\ reason = "none"
    /\ pods = [p \in Pods |-> Absent]
    /\ pc = [h \in Saves |-> "idle"]
    /\ form \in [Saves -> Forms]
    /\ copy = [h \in Saves |-> Gone] /\ copyRv = [h \in Saves |-> 0]
    /\ tries = [h \in Saves |-> 0]
    /\ written = [h \in Saves |-> [o \in Stores |-> 0]]
    /\ rolledOut = [h \in Saves |-> 0]
    /\ edits = 0

-----------------------------------------------------------------------------
(* A save: patchConfigMap, then patchSecret, then bumpDeploymentRollout    *)

Goto(h, next) == pc' = [pc EXCEPT ![h] = next]

\* What comes after the objects in `done'; an empty mail form, unlike the other
\* forms, still asks for a rollout.
NextCall(h, done) ==
    IF "config" \notin done /\ DOMAIN form[h].config # {} THEN "get_config"
    ELSE IF "secret" \notin done /\ DOMAIN form[h].secret # {} THEN "get_secret"
    ELSE IF done # {} \/ form[h].reason = "mail" THEN "rollout"
    ELSE "ok"

GetCall(o) == IF o = "config" THEN "get_config" ELSE "get_secret"
PutCall(o) == IF o = "config" THEN "put_config" ELSE "put_secret"
Done(o)    == IF o = "config" THEN {"config"} ELSE Stores

Post(h) ==
    /\ pc[h] = "idle"
    /\ Goto(h, NextCall(h, {}))
    /\ UNCHANGED <<cluster, revision, reason, pods, form, copy, copyRv, tries,
                   written, rolledOut>>

\* NotFound is no error: the object is then created.
Get(h, o) ==
    /\ pc[h] = GetCall(o)
    /\ copy' = [copy EXCEPT ![h] = store[o]]
    /\ copyRv' = [copyRv EXCEPT ![h] = rv[o]]
    /\ Goto(h, PutCall(o))
    /\ UNCHANGED <<cluster, revision, reason, pods, form, tries, written, rolledOut>>

Merged(data, updates) ==
    [k \in Keys |-> IF k \in DOMAIN updates THEN updates[k]
                    ELSE IF k \in DOMAIN data THEN data[k] ELSE Unset]

Commit(h, o, data) ==
    /\ clock' = clock + 1
    /\ rv' = [rv EXCEPT ![o] = clock + 1]
    /\ store' = [store EXCEPT ![o] = data]
    /\ written' = [written EXCEPT ![h][o] = clock + 1]
    /\ tries' = [tries EXCEPT ![h] = 0]
    /\ Goto(h, NextCall(h, Done(o)))
    /\ UNCHANGED <<revision, reason, pods, form, copy, copyRv, rolledOut, edits>>

\* Bug form: the object is put without its resourceVersion.
PutBlindly(h, o) ==
    /\ pc[h] = PutCall(o)
    /\ Commit(h, o, Merged(copy[h], form[h][o]))

\* Update of the version read, or Create if there was none and is none.
MayPut(h, o) == copyRv[h] = rv[o] \/ (copy[h] = Gone /\ store[o] = Gone)

Put(h, o) ==
    /\ pc[h] = PutCall(o) /\ MayPut(h, o)
    /\ Commit(h, o, Merged(copy[h], form[h][o]))

\* Bug form: the attempts are counted from the first conflict on.
ConflictOnceMore(h, o) ==
    /\ pc[h] = PutCall(o) /\ ~MayPut(h, o)
    /\ IF copy[h] # Gone /\ store[o] # Gone /\ tries[h] < Retries
       THEN /\ tries' = [tries EXCEPT ![h] = @ + 1]
            /\ Goto(h, GetCall(o))
       ELSE /\ Goto(h, "failed")
            /\ UNCHANGED tries
    /\ UNCHANGED <<cluster, revision, reason, pods, form, copy, copyRv, written, rolledOut>>

\* A Conflict is retried from the read; AlreadyExists, NotFound and the last
\* conflict are errors.
Conflict(h, o) ==
    /\ pc[h] = PutCall(o) /\ ~MayPut(h, o)
    /\ IF copy[h] # Gone /\ store[o] # Gone /\ tries[h] + 1 < Retries
       THEN /\ tries' = [tries EXCEPT ![h] = @ + 1]
            /\ Goto(h, GetCall(o))
       ELSE /\ Goto(h, "failed")
            /\ UNCHANGED tries
    /\ UNCHANGED <<cluster, revision, reason, pods, form, copy, copyRv, written, rolledOut>>

\* Bug form: the annotation says why but not when.
RolloutByReason(h) ==
    /\ pc[h] = "rollout"
    /\ reason' = form[h].reason
    /\ revision' = IF reason = form[h].reason THEN revision ELSE revision + 1
    /\ rolledOut' = [rolledOut EXCEPT ![h] = revision']
    /\ Goto(h, "ok")
    /\ UNCHANGED <<cluster, pods, form, copy, copyRv, tries, written>>

\* A template with another revision annotation is another template.
Rollout(h) ==
    /\ pc[h] = "rollout"
    /\ revision' = revision + 1 /\ reason' = form[h].reason
    /\ rolledOut' = [rolledOut EXCEPT ![h] = revision + 1]
    /\ Goto(h, "ok")
    /\ UNCHANGED <<cluster, pods, form, copy, copyRv, tries, written>>

\* A call fails, the browser goes away, or the pod that serves it ends.
Abort(h) ==
    /\ pc[h] \notin {"idle", "ok", "failed"}
    /\ Goto(h, "failed")
    /\ UNCHANGED <<cluster, revision, reason, pods, form, copy, copyRv, tries,
                   written, rolledOut>>

-----------------------------------------------------------------------------
(* kubectl, the Deployment controller and the kubelet                      *)

Edit(o) ==
    /\ edits < MaxEdits /\ edits' = edits + 1
    /\ clock' = clock + 1
    /\ rv' = [rv EXCEPT ![o] = clock + 1]
    /\ \/ store' = [store EXCEPT ![o] = Gone] /\ store[o] # Gone
       \/ \E k \in Keys, v \in Values :
             store' = [store EXCEPT ![o] = Merged(@, [x \in {k} |-> v])]
    /\ UNCHANGED <<revision, reason, pods, saving>>

Create(p) ==
    /\ pods[p].phase = "absent"
    /\ pods' = [pods EXCEPT ![p] = [Absent EXCEPT !.phase = "created", !.revision = revision]]
    /\ UNCHANGED <<cluster, revision, reason, saving>>

Obsolete(p) == pods[p].phase # "absent" /\ pods[p].revision < revision

Replace(p) ==
    /\ Obsolete(p)
    /\ pods' = [pods EXCEPT ![p] = Absent]
    /\ UNCHANGED <<cluster, revision, reason, saving>>

\* The container starts, or is restarted in place.
StartContainer(p) ==
    /\ pods[p].phase \in {"created", "crashed"}
    /\ \A o \in Stores : store[o] # Gone
    /\ pods' = [pods EXCEPT ![p].phase = "running", ![p].read = store, ![p].at = rv]
    /\ UNCHANGED <<cluster, revision, reason, saving>>

\* Getenv in the container: the Secret comes before the ConfigMap (envFrom).
Effective(p, k) ==
    IF pods[p].read["secret"][k] # Unset THEN pods[p].read["secret"][k]
    ELSE pods[p].read["config"][k]

\* The polling loop of a pod that has come to lead panics.
Panic(p) ==
    /\ pods[p].phase = "running"
    /\ \E k \in Keys : Effective(p, k) \in Fatal[k]
    /\ pods' = [pods EXCEPT ![p].phase = "crashed"]
    /\ UNCHANGED <<cluster, revision, reason, saving>>

Save(h) ==
    \/ Post(h)
    \/ \E o \in Stores : Get(h, o) \/ Put(h, o) \/ Conflict(h, o)
    \/ Rollout(h)

Controller(p) == Create(p) \/ Replace(p) \/ StartContainer(p)

Next ==
    \/ \E h \in Saves : Save(h) \/ Abort(h)
    \/ \E o \in Stores : Edit(o)
    \/ \E p \in Pods : Controller(p) \/ Panic(p)

Spec == Init /\ [][Next]_cvars

\* The controllers of the cluster do their work.
FairSpec == Spec /\ \A p \in Pods : WF_cvars(Controller(p))

-----------------------------------------------------------------------------
(* Properties                                                              *)

TypeOK ==
    /\ \A o \in Stores : store[o] \in [Keys -> Values \union {Unset}] \union {Gone}
    /\ rv \in [Stores -> 0 .. clock]
    /\ clock \in Nat /\ revision \in Nat
    /\ \A p \in Pods : pods[p].phase \in Phases /\ pods[p].revision \in 0 .. revision
    /\ pc \in [Saves -> {"idle", "get_config", "put_config", "get_secret", "put_secret",
                         "rollout", "ok", "failed"}]
    /\ form \in [Saves -> Forms]
    /\ tries \in [Saves -> 0 .. Retries - 1]

\* A rollout comes after what it is for: no pod of the revision a save asked
\* for, or of a later one, has started with an older ConfigMap or Secret.
PodsReadWhatWasSaved ==
    \A p \in Pods, h \in Saves, o \in Stores :
        /\ pc[h] = "ok" /\ rolledOut[h] # 0
        /\ pods[p].phase \in {"running", "crashed"} /\ pods[p].revision >= rolledOut[h]
        => pods[p].at[o] >= written[h][o]

Puts(h, o) == written'[h][o] # written[h][o]

\* "Can't silently lose our changes": a save changes its own settings and
\* leaves what others wrote between its read and its write.
SavesKeepOthers ==
    [][\A h \in Saves, o \in Stores :
          Puts(h, o) => \A k \in Keys \ DOMAIN form[h][o] :
                           store[o] # Gone => store'[o][k] = store[o][k]]_cvars

\* "Pods pick up the fresh ConfigMap or Secret on startup": once a save was
\* acknowledged, every pod comes to run with what it wrote, unless somebody
\* deletes an object that the pod needs.
SavesReachPods ==
    \A p \in Pods, h \in Saves :
        pc[h] = "ok" ~> \/ /\ pods[p].phase = "running"
                           /\ \A o \in Stores : pods[p].at[o] >= written[h][o]
                        \/ \E o \in Stores : store[o] = Gone

=============================================================================
