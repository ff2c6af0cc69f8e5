----------------------- MODULE ConfigRollout_proofs -----------------------
(***************************************************************************)
(* Proofs about ConfigRollout, for any number of saves and pods and for    *)
(* any forms, settings and edits.                                          *)
(***************************************************************************)
EXTENDS ConfigRollout, TLAPS

Data == [Keys -> Values \union {Unset}] \union {Gone}

Pod == [phase : Phases, revision : Nat, read : [Stores -> Data], at : [Stores -> Nat]]

Calls == {"idle", "get_config", "put_config", "get_secret", "put_secret", "rollout",
          "ok", "failed"}

Types ==
    /\ store \in [Stores -> Data] /\ rv \in [Stores -> Nat] /\ clock \in Nat
    /\ revision \in Nat /\ pods \in [Pods -> Pod] /\ edits \in Nat
    /\ pc \in [Saves -> Calls] /\ form \in [Saves -> Forms]
    /\ copy \in [Saves -> Data] /\ copyRv \in [Saves -> Nat]
    /\ tries \in [Saves -> 0 .. Retries - 1]
    /\ written \in [Saves -> [Stores -> Nat]] /\ rolledOut \in [Saves -> Nat]

\* Every version was given out by the server's counter, and those of one
\* object only grow.
VersionsGrow ==
    \A o \in Stores :
        /\ rv[o] <= clock
        /\ \A h \in Saves : copyRv[h] <= clock /\ written[h][o] <= rv[o]

\* What a save is about to put was made from the object, if that still has the
\* version the save has read.
CopyIsTrue(h, o) ==
    pc[h] = PutCall(o) /\ copyRv[h] = rv[o] => copy[h] = store[o]

CopiesAreTrue == \A h \in Saves, o \in Stores : CopyIsTrue(h, o)

\* A save asks for one revision, as its last step, and no pod is ahead of the
\* template.
RolloutIsLast ==
    /\ \A h \in Saves : rolledOut[h] <= revision /\ (pc[h] # "ok" => rolledOut[h] = 0)
    /\ \A p \in Pods : pods[p].revision <= revision

\* The objects are written in order, before the rollout.
WrittenSoFar(h) ==
    /\ pc[h] \in {"get_secret", "put_secret", "rollout", "ok"} =>
          (DOMAIN form[h].config # {} => written[h]["config"] # 0)
    /\ pc[h] \in {"rollout", "ok"} =>
          (DOMAIN form[h].secret # {} => written[h]["secret"] # 0)

SavesInOrder == \A h \in Saves : WrittenSoFar(h)

RolloutInv ==
    /\ Types /\ VersionsGrow /\ CopiesAreTrue
    /\ RolloutIsLast /\ SavesInOrder /\ PodsReadWhatWasSaved

\* A save that was acknowledged has written every object it had settings for.
AcknowledgedIsWritten ==
    \A h \in Saves, o \in Stores :
        pc[h] = "ok" /\ DOMAIN form[h][o] # {} => written[h][o] # 0

-----------------------------------------------------------------------------
(* The operators                                                           *)

\* A form without settings for an object does not touch it.
LEMMA AfterPost ==
  ASSUME NEW h
  PROVE  /\ NextCall(h, {}) \in {"get_config", "get_secret", "rollout", "ok"}
         /\ NextCall(h, {}) # "get_config" => DOMAIN form[h].config = {}
         /\ NextCall(h, {}) \in {"rollout", "ok"} => DOMAIN form[h].secret = {}
BY DEF NextCall

\* A save that has written something is acknowledged only after its rollout.
LEMMA AfterPut ==
  ASSUME NEW h, NEW o \in Stores
  PROVE  /\ NextCall(h, Done(o)) \in {"get_secret", "rollout"}
         /\ o = "secret" => NextCall(h, Done(o)) = "rollout"
         /\ NextCall(h, Done(o)) = "rollout" => o = "secret" \/ DOMAIN form[h].secret = {}
BY DEF NextCall, Done, Stores

LEMMA MergedIsData ==
  ASSUME NEW data \in Data, NEW updates,
         DOMAIN updates \subseteq Keys, \A k \in DOMAIN updates : updates[k] \in Values
  PROVE  Merged(data, updates) \in Data
<1>1. \A k \in Keys : k \in DOMAIN data => data[k] \in Values \union {Unset}
  BY SMT DEF Data, Gone
<1>. QED
  BY <1>1, SMT DEF Merged, Data

LEMMA FormsAreTyped ==
  ASSUME NEW h \in Saves, NEW o \in Stores, Types
  PROVE  DOMAIN form[h][o] \subseteq Keys /\ \A k \in DOMAIN form[h][o] : form[h][o][k] \in Values
BY ConfigAssumption DEF Types

-----------------------------------------------------------------------------
(* The inductive invariant                                                 *)

LEMMA InitRollout == Init => RolloutInv
<1> SUFFICES ASSUME Init PROVE RolloutInv
  OBVIOUS
<1>1. Types
  BY ConfigAssumption, SMT DEF Init, Types, Data, Pod, Absent, Phases, Calls, Gone
<1>2. VersionsGrow /\ CopiesAreTrue /\ RolloutIsLast /\ SavesInOrder /\ PodsReadWhatWasSaved
  BY SMT DEF Init, VersionsGrow, CopiesAreTrue, CopyIsTrue, PutCall, RolloutIsLast,
             SavesInOrder, WrittenSoFar, PodsReadWhatWasSaved, Absent
<1>. QED
  BY <1>1, <1>2 DEF RolloutInv

\* What concerns the objects and the pods is as good after a step of a save
\* that writes nothing and asks for nothing.
LEMMA GotoKeeps ==
  ASSUME RolloutInv, NEW h \in Saves, NEW next \in Calls, Goto(h, next),
         pc[h] # "ok", next # "ok" \/ rolledOut[h] = 0,
         UNCHANGED <<cluster, revision, pods, written, rolledOut>>
  PROVE  RolloutIsLast' /\ PodsReadWhatWasSaved'
<1> USE DEF RolloutInv, Types, cluster, Goto
<1>1. pc' = [pc EXCEPT ![h] = next] /\ pc \in [Saves -> Calls]
  OBVIOUS
<1>2. RolloutIsLast'
  BY <1>1 DEF RolloutIsLast
<1>3. PodsReadWhatWasSaved'
  BY <1>1 DEF PodsReadWhatWasSaved, RolloutIsLast
<1>. QED
  BY <1>2, <1>3

LEMMA PostStep == ASSUME RolloutInv, NEW h \in Saves, Post(h) PROVE RolloutInv'
<1> DEFINE next == NextCall(h, {})
<1>1. /\ pc[h] = "idle" /\ pc' = [pc EXCEPT ![h] = next] /\ next \in Calls
      /\ UNCHANGED <<cluster, revision, pods, form, copy, copyRv, tries, written, rolledOut>>
  BY AfterPost DEF Post, Goto, Calls
<1>2. Types'
  BY <1>1 DEF RolloutInv, Types, cluster
<1>3. VersionsGrow'
  BY <1>1 DEF RolloutInv, VersionsGrow, cluster
<1>4. CopiesAreTrue'
  BY <1>1, AfterPost DEF RolloutInv, Types, CopiesAreTrue, CopyIsTrue, PutCall, cluster, Stores
<1>5. SavesInOrder'
  BY <1>1, AfterPost DEF RolloutInv, Types, SavesInOrder, WrittenSoFar, cluster
<1>6. RolloutIsLast' /\ PodsReadWhatWasSaved'
  <2>1. rolledOut[h] = 0
    BY <1>1 DEF RolloutInv, RolloutIsLast
  <2>. QED
    BY <1>1, <2>1, GotoKeeps DEF Goto
<1>. QED
  BY <1>2, <1>3, <1>4, <1>5, <1>6 DEF RolloutInv

LEMMA GetStep ==
  ASSUME RolloutInv, NEW h \in Saves, NEW o \in Stores, Get(h, o)
  PROVE  RolloutInv'
<1>1. /\ pc[h] = GetCall(o) /\ pc' = [pc EXCEPT ![h] = PutCall(o)]
      /\ copy' = [copy EXCEPT ![h] = store[o]]
      /\ copyRv' = [copyRv EXCEPT ![h] = rv[o]]
      /\ UNCHANGED <<cluster, revision, pods, form, tries, written, rolledOut>>
  BY DEF Get, Goto
<1>2. PutCall(o) \in Calls
  BY DEF PutCall, Calls
<1>3. Types'
  BY <1>1, <1>2, SMT DEF RolloutInv, Types, cluster
<1>4. VersionsGrow'
  BY <1>1, SMT DEF RolloutInv, Types, VersionsGrow, cluster
<1>5. CopiesAreTrue'
  BY <1>1, SMT DEF RolloutInv, Types, CopiesAreTrue, CopyIsTrue, PutCall, cluster, Stores
<1>6. SavesInOrder'
  BY <1>1, SMT DEF RolloutInv, Types, SavesInOrder, WrittenSoFar, GetCall, PutCall, cluster, Stores
<1>7. RolloutIsLast' /\ PodsReadWhatWasSaved'
  <2>1. pc[h] # "ok" /\ PutCall(o) # "ok"
    BY <1>1 DEF GetCall, PutCall
  <2>. QED
    BY <1>1, <1>2, <2>1, GotoKeeps DEF Goto
<1>. QED
  BY <1>3, <1>4, <1>5, <1>6, <1>7 DEF RolloutInv

\* The new version is beyond every version that was read or written before.
LEMMA PutStep ==
  ASSUME RolloutInv, NEW h \in Saves, NEW o \in Stores, Put(h, o)
  PROVE  RolloutInv'
<1> DEFINE data == Merged(copy[h], form[h][o])
           next == NextCall(h, Done(o))
<1>1. /\ pc[h] = PutCall(o) /\ pc' = [pc EXCEPT ![h] = next]
      /\ clock' = clock + 1 /\ rv' = [rv EXCEPT ![o] = clock + 1]
      /\ store' = [store EXCEPT ![o] = data]
      /\ written' = [written EXCEPT ![h][o] = clock + 1]
      /\ tries' = [tries EXCEPT ![h] = 0]
      /\ UNCHANGED <<revision, pods, form, copy, copyRv, rolledOut, edits>>
  BY DEF Put, Commit, Goto
<1>2. data \in Data
  <2>1. copy[h] \in Data /\ Types
    BY DEF RolloutInv, Types
  <2>. QED
    BY <2>1, FormsAreTyped, MergedIsData
<1>3. next \in {"get_secret", "rollout"} /\ next \in Calls
  BY AfterPut DEF Calls
<1> HIDE DEF data, next
<1>4. Types'
  BY <1>1, <1>2, <1>3, ConfigAssumption, SMT DEF RolloutInv, Types
<1>5. VersionsGrow'
  BY <1>1, SMT DEF RolloutInv, Types, VersionsGrow
<1>6. CopiesAreTrue'
  <2> SUFFICES ASSUME NEW g \in Saves, NEW q \in Stores, CopyIsTrue(g, q)
               PROVE  CopyIsTrue(g, q)'
    BY DEF RolloutInv, CopiesAreTrue
  <2>1. copyRv[g] \in Nat /\ copyRv[g] <= clock /\ clock \in Nat
    BY DEF RolloutInv, Types, VersionsGrow
  <2>2. CASE q = o
    BY <1>1, <2>1, <2>2, SMT DEF CopyIsTrue, RolloutInv, Types
  <2>3. CASE q # o
    BY <1>1, <1>3, <2>3, SMT DEF CopyIsTrue, PutCall, RolloutInv, Types, Stores
  <2>. QED
    BY <2>2, <2>3
<1>7. RolloutIsLast'
  BY <1>1, <1>3, SMT DEF RolloutInv, Types, RolloutIsLast, PutCall
<1>8. SavesInOrder'
  <2> SUFFICES ASSUME NEW g \in Saves PROVE WrittenSoFar(g)'
    BY DEF SavesInOrder
  <2>1. WrittenSoFar(g) /\ clock + 1 # 0
    BY DEF RolloutInv, SavesInOrder, Types
  <2>2. CASE g # h
    BY <1>1, <2>1, <2>2 DEF WrittenSoFar, RolloutInv, Types
  <2>3. CASE g = h /\ o = "config"
    <3>1. next = "rollout" => DOMAIN form[h].secret = {}
      BY <2>3, AfterPut DEF next
    <3>. QED
      BY <1>1, <1>3, <2>1, <2>3, <3>1 DEF WrittenSoFar, RolloutInv, Types, Stores
  <2>4. CASE g = h /\ o = "secret"
    BY <1>1, <2>1, <2>4 DEF WrittenSoFar, PutCall, RolloutInv, Types, Stores
  <2>. QED
    BY <2>2, <2>3, <2>4 DEF Stores
<1>9. PodsReadWhatWasSaved'
  <2>1. pc[h] # "ok" /\ next # "ok"
    BY <1>1, <1>3 DEF PutCall
  <2>. QED
    BY <1>1, <2>1 DEF RolloutInv, Types, PodsReadWhatWasSaved
<1>. QED
  BY <1>4, <1>5, <1>6, <1>7, <1>8, <1>9 DEF RolloutInv

LEMMA ConflictStep ==
  ASSUME RolloutInv, NEW h \in Saves, NEW o \in Stores, Conflict(h, o)
  PROVE  RolloutInv'
<1>1. PICK next \in {GetCall(o), "failed"} :
        /\ pc[h] = PutCall(o) /\ pc' = [pc EXCEPT ![h] = next]
        /\ tries' = tries \/ /\ tries' = [tries EXCEPT ![h] = @ + 1]
                             /\ tries[h] + 1 < Retries
        /\ UNCHANGED <<cluster, revision, pods, form, copy, copyRv, written, rolledOut>>
  BY DEF Conflict, Goto
<1>2. next \in Calls \ {"ok"} /\ pc[h] # "ok"
  BY <1>1 DEF GetCall, PutCall, Calls
<1>3. Types'
  <2>1. tries' \in [Saves -> 0 .. Retries - 1]
    <3>1. Retries \in Nat /\ tries \in [Saves -> 0 .. Retries - 1]
      BY ConfigAssumption DEF RolloutInv, Types
    <3>2. CASE tries' = tries
      BY <3>1, <3>2
    <3>3. CASE tries' = [tries EXCEPT ![h] = @ + 1] /\ tries[h] + 1 < Retries
      <4>1. tries[h] + 1 \in 0 .. Retries - 1
        BY <3>1, <3>3, SMT
      <4>. QED
        BY <3>1, <3>3, <4>1
    <3>. QED
      BY <1>1, <3>2, <3>3
  <2>2. pc' \in [Saves -> Calls]
    BY <1>1, <1>2 DEF RolloutInv, Types
  <2>. QED
    BY <1>1, <2>1, <2>2 DEF RolloutInv, Types, cluster
<1>4. VersionsGrow'
  BY <1>1 DEF RolloutInv, VersionsGrow, cluster
<1>5. CopiesAreTrue'
  BY <1>1 DEF RolloutInv, Types, CopiesAreTrue, CopyIsTrue, GetCall, PutCall, cluster, Stores
<1>6. SavesInOrder'
  BY <1>1, SMT DEF RolloutInv, Types, SavesInOrder, WrittenSoFar, GetCall, PutCall, cluster, Stores
<1>7. RolloutIsLast' /\ PodsReadWhatWasSaved'
  <2>1. rolledOut[h] = 0
    BY <1>2 DEF RolloutInv, RolloutIsLast
  <2>. QED
    BY <1>1, <1>2, <2>1, GotoKeeps DEF Goto
<1>. QED
  BY <1>3, <1>4, <1>5, <1>6, <1>7 DEF RolloutInv

\* No pod has the new revision yet.
LEMMA RolloutStep == ASSUME RolloutInv, NEW h \in Saves, Rollout(h) PROVE RolloutInv'
<1>1. /\ pc[h] = "rollout" /\ pc' = [pc EXCEPT ![h] = "ok"]
      /\ revision' = revision + 1
      /\ rolledOut' = [rolledOut EXCEPT ![h] = revision + 1]
      /\ UNCHANGED <<cluster, pods, form, copy, copyRv, tries, written>>
  BY DEF Rollout, Goto
<1>2. Types'
  BY <1>1, SMT DEF RolloutInv, Types, cluster, Calls
<1>3. VersionsGrow'
  BY <1>1 DEF RolloutInv, VersionsGrow, cluster
<1>4. CopiesAreTrue'
  BY <1>1 DEF RolloutInv, Types, CopiesAreTrue, CopyIsTrue, PutCall, cluster
<1>5. RolloutIsLast'
  BY <1>1, SMT DEF RolloutInv, Types, Pod, RolloutIsLast
<1>6. SavesInOrder'
  BY <1>1, SMT DEF RolloutInv, Types, SavesInOrder, WrittenSoFar, cluster
<1>7. PodsReadWhatWasSaved'
  <2>1. \A p \in Pods : pods[p].revision \in Nat /\ pods[p].revision <= revision
    BY DEF RolloutInv, Types, Pod, RolloutIsLast
  <2>. QED
    BY <1>1, <2>1, SMT DEF RolloutInv, Types, PodsReadWhatWasSaved, cluster
<1>. QED
  BY <1>2, <1>3, <1>4, <1>5, <1>6, <1>7 DEF RolloutInv

LEMMA AbortStep == ASSUME RolloutInv, NEW h \in Saves, Abort(h) PROVE RolloutInv'
<1>1. /\ pc[h] \notin {"idle", "ok", "failed"} /\ pc' = [pc EXCEPT ![h] = "failed"]
      /\ UNCHANGED <<cluster, revision, pods, form, copy, copyRv, tries, written, rolledOut>>
  BY DEF Abort, Goto
<1>2. Types'
  BY <1>1 DEF RolloutInv, Types, cluster, Calls
<1>3. VersionsGrow'
  BY <1>1 DEF RolloutInv, VersionsGrow, cluster
<1>4. CopiesAreTrue'
  BY <1>1 DEF RolloutInv, Types, CopiesAreTrue, CopyIsTrue, PutCall, cluster
<1>5. SavesInOrder'
  BY <1>1 DEF RolloutInv, Types, SavesInOrder, WrittenSoFar, cluster
<1>6. RolloutIsLast' /\ PodsReadWhatWasSaved'
  <2>1. "failed" \in Calls /\ pc[h] # "ok" /\ rolledOut[h] = 0
    BY <1>1 DEF RolloutInv, RolloutIsLast, Calls
  <2>. QED
    BY <1>1, <2>1, GotoKeeps DEF Goto
<1>. QED
  BY <1>2, <1>3, <1>4, <1>5, <1>6 DEF RolloutInv

LEMMA EditStep == ASSUME RolloutInv, NEW o \in Stores, Edit(o) PROVE RolloutInv'
<1>1. /\ clock' = clock + 1 /\ rv' = [rv EXCEPT ![o] = clock + 1]
      /\ edits' = edits + 1
      /\ UNCHANGED <<revision, pods, pc, form, copy, copyRv, tries, written, rolledOut>>
  BY DEF Edit, saving
<1>2. PICK data \in Data : store' = [store EXCEPT ![o] = data]
  <2>1. CASE store' = [store EXCEPT ![o] = Gone]
    BY <2>1 DEF Data
  <2>2. ASSUME NEW k \in Keys, NEW v \in Values,
               store' = [store EXCEPT ![o] = Merged(@, [x \in {k} |-> v])]
        PROVE  \E data \in Data : store' = [store EXCEPT ![o] = data]
    <3>1. store[o] \in Data /\ store \in [Stores -> Data]
      BY DEF RolloutInv, Types
    <3>2. Merged(store[o], [x \in {k} |-> v]) \in Data
      BY <3>1, MergedIsData
    <3>. QED
      BY <2>2, <3>1, <3>2
  <2>. QED
    BY <2>1, <2>2 DEF Edit
<1>3. Types'
  BY <1>1, <1>2, SMT DEF RolloutInv, Types
<1>4. VersionsGrow'
  BY <1>1, SMT DEF RolloutInv, Types, VersionsGrow
<1>5. CopiesAreTrue'
  <2> SUFFICES ASSUME NEW g \in Saves, NEW q \in Stores, CopyIsTrue(g, q)
               PROVE  CopyIsTrue(g, q)'
    BY DEF RolloutInv, CopiesAreTrue
  <2>1. copyRv[g] \in Nat /\ copyRv[g] <= clock /\ clock \in Nat
    BY DEF RolloutInv, Types, VersionsGrow
  <2>2. CASE q = o
    BY <1>1, <2>1, <2>2, SMT DEF CopyIsTrue, RolloutInv, Types
  <2>3. CASE q # o
    BY <1>1, <1>2, <2>3 DEF CopyIsTrue, RolloutInv, Types
  <2>. QED
    BY <2>2, <2>3
<1>6. RolloutIsLast' /\ SavesInOrder' /\ PodsReadWhatWasSaved'
  BY <1>1 DEF RolloutInv, RolloutIsLast, SavesInOrder, WrittenSoFar, PodsReadWhatWasSaved
<1>. QED
  BY <1>3, <1>4, <1>5, <1>6 DEF RolloutInv

\* A step of a pod matters if the pod is of some revision and has started.
LEMMA PodStep ==
  ASSUME RolloutInv, NEW p \in Pods, NEW pod \in Pod,
         pods' = [pods EXCEPT ![p] = pod], pod.revision <= revision,
         \/ pod.phase \in {"absent", "created"}
         \/ pod.at = rv
         \/ /\ pods[p].phase \in {"running", "crashed"}
            /\ pod.at = pods[p].at /\ pod.revision = pods[p].revision,
         UNCHANGED <<cluster, revision, saving>>
  PROVE  RolloutInv'
<1> USE DEF cluster, saving
<1>1. Types'
  BY DEF RolloutInv, Types
<1>2. VersionsGrow' /\ SavesInOrder'
  BY DEF RolloutInv, VersionsGrow, SavesInOrder, WrittenSoFar
<1>3. CopiesAreTrue'
  BY DEF RolloutInv, CopiesAreTrue, CopyIsTrue
<1>4. RolloutIsLast'
  BY DEF RolloutInv, Types, RolloutIsLast
<1>5. PodsReadWhatWasSaved'
  <2> SUFFICES ASSUME NEW q \in Pods, NEW h \in Saves, NEW o \in Stores,
                      pc[h] = "ok" /\ rolledOut[h] # 0,
                      pods'[q].phase \in {"running", "crashed"},
                      pods'[q].revision >= rolledOut[h]
               PROVE  pods'[q].at[o] >= written[h][o]
    BY DEF PodsReadWhatWasSaved
  <2>1. pods \in [Pods -> Pod]
    BY DEF RolloutInv, Types
  <2>2. written[h][o] <= rv[o] /\ written[h][o] \in Nat /\ rv[o] \in Nat
    BY DEF RolloutInv, Types, VersionsGrow
  <2>3. CASE q # p
    <3>1. pods'[q] = pods[q]
      BY <2>1, <2>3
    <3>. QED
      BY <3>1 DEF RolloutInv, PodsReadWhatWasSaved
  <2>4. CASE q = p /\ pod.at = rv
    BY <2>1, <2>2, <2>4, SMT
  <2>5. CASE /\ q = p /\ pods[p].phase \in {"running", "crashed"}
             /\ pod.at = pods[p].at /\ pod.revision = pods[p].revision
    BY <2>1, <2>5 DEF RolloutInv, PodsReadWhatWasSaved
  <2>. QED
    BY <2>1, <2>3, <2>4, <2>5
<1>. QED
  BY <1>1, <1>2, <1>3, <1>4, <1>5 DEF RolloutInv

\* The three ways a pod changes, for fields of any kind.
LEMMA PodFields ==
  ASSUME NEW A, NEW B, NEW C, NEW D,
         NEW old \in [phase : A, revision : B, read : C, at : D],
         NEW a \in A, NEW b \in B, NEW c \in C, NEW d \in D
  PROVE  LET Record  == [phase : A, revision : B, read : C, at : D]
             marked  == [old EXCEPT !.phase = a]
             created == [old EXCEPT !.phase = a, !.revision = b]
             started == [old EXCEPT !.phase = a, !.read = c, !.at = d]
         IN /\ marked \in Record /\ marked.at = old.at /\ marked.revision = old.revision
            /\ created \in Record /\ created.phase = a /\ created.revision = b
            /\ started \in Record /\ started.at = d /\ started.revision = old.revision
<1> DEFINE Record  == [phase : A, revision : B, read : C, at : D]
           marked  == [old EXCEPT !.phase = a]
           created == [marked EXCEPT !.revision = b]
           fed     == [marked EXCEPT !.read = c]
           started == [fed EXCEPT !.at = d]
<1>1. /\ [old EXCEPT !.phase = a, !.revision = b] = created
      /\ [old EXCEPT !.phase = a, !.read = c, !.at = d] = started
  OBVIOUS
<1>2. /\ marked \in Record /\ marked.at = old.at /\ marked.revision = old.revision
      /\ marked.phase = a
  OBVIOUS
<1> HIDE DEF marked
<1>3. created \in Record /\ created.phase = a /\ created.revision = b
  BY <1>2
<1>4. fed \in Record /\ fed.revision = old.revision
  BY <1>2
<1> HIDE DEF fed
<1>5. started \in Record /\ started.at = d /\ started.revision = old.revision
  BY <1>4
<1> USE DEF marked
<1> HIDE DEF created, started
<1>. QED
  BY <1>1, <1>2, <1>3, <1>5

LEMMA PodSteps ==
  ASSUME RolloutInv, NEW p \in Pods, Controller(p) \/ Panic(p)
  PROVE  RolloutInv'
<1>1. /\ pods \in [Pods -> Pod] /\ pods[p] \in Pod /\ pods[p].revision <= revision
      /\ store \in [Stores -> Data] /\ rv \in [Stores -> Nat] /\ revision \in Nat
  BY DEF RolloutInv, Types, RolloutIsLast
<1>2. Absent \in Pod /\ Absent.phase = "absent" /\ Absent.revision = 0
  BY SMT DEF Absent, Pod, Phases, Data
<1>0. {"created", "running", "crashed"} \subseteq Phases
  BY DEF Phases
<1>3. CASE Create(p)
  <2> DEFINE pod == [Absent EXCEPT !.phase = "created", !.revision = revision]
  <2>1. pod \in Pod /\ pod.phase = "created" /\ pod.revision = revision
    BY ONLY <1>1, <1>2, <1>0, PodFields DEF Pod
  <2>2. pod.revision <= revision
    BY ONLY <1>1, <2>1, SMT
  <2>. QED
    BY <1>3, <2>1, <2>2, PodStep DEF Create
<1>4. CASE Replace(p)
  <2>1. Absent.revision <= revision
    BY <1>1, <1>2, SMT
  <2>. QED
    BY <1>2, <1>4, <2>1, PodStep DEF Replace
<1>5. CASE StartContainer(p)
  <2> DEFINE pod == [pods[p] EXCEPT !.phase = "running", !.read = store, !.at = rv]
  <2>1. pod \in Pod /\ pod.at = rv /\ pod.revision = pods[p].revision
    BY ONLY <1>1, <1>0, PodFields DEF Pod
  <2>2. pods' = [pods EXCEPT ![p] = pod]
    BY <1>1, <1>5 DEF StartContainer
  <2>. QED
    BY <1>1, <1>5, <2>1, <2>2, PodStep DEF StartContainer
<1>6. CASE Panic(p)
  <2> DEFINE pod == [pods[p] EXCEPT !.phase = "crashed"]
  <2>1. pod \in Pod /\ pod.at = pods[p].at /\ pod.revision = pods[p].revision
    BY ONLY <1>1, <1>0, PodFields DEF Pod
  <2>2. pods' = [pods EXCEPT ![p] = pod]
    BY <1>1, <1>6 DEF Panic
  <2>. QED
    BY <1>1, <1>6, <2>1, <2>2, PodStep DEF Panic
<1>. QED
  BY <1>3, <1>4, <1>5, <1>6 DEF Controller

LEMMA NextRollout == RolloutInv /\ [Next]_cvars => RolloutInv'
<1> SUFFICES ASSUME RolloutInv, [Next]_cvars PROVE RolloutInv'
  OBVIOUS
<1>1. CASE \E h \in Saves : Save(h) \/ Abort(h)
  BY <1>1, PostStep, GetStep, PutStep, ConflictStep, RolloutStep, AbortStep DEF Save
<1>2. CASE \E o \in Stores : Edit(o)
  BY <1>2, EditStep
<1>3. CASE \E p \in Pods : Controller(p) \/ Panic(p)
  BY <1>3, PodSteps
<1>4. CASE UNCHANGED cvars
  BY <1>4 DEF cvars, cluster, saving, RolloutInv, Types, VersionsGrow, CopiesAreTrue,
              CopyIsTrue, RolloutIsLast, SavesInOrder, WrittenSoFar, PodsReadWhatWasSaved
<1>. QED
  BY <1>1, <1>2, <1>3, <1>4 DEF Next

-----------------------------------------------------------------------------
(* The theorems                                                            *)

\* The inductive invariant: types, versions that only grow, copies that are true
\* while their version is, writes before the one rollout.
THEOREM RolloutInvariant == Spec => []RolloutInv
BY InitRollout, NextRollout, PTL DEF Spec

\* The variables keep to their sets.
THEOREM TypeCorrect == Spec => []TypeOK
<1>1. RolloutInv => TypeOK
  <2> SUFFICES ASSUME RolloutInv PROVE TypeOK
    OBVIOUS
  <2> USE DEF RolloutInv, Types
  <2>1. \A o \in Stores : store[o] \in [Keys -> Values \union {Unset}] \union {Gone}
    BY DEF Data
  <2>2. rv \in [Stores -> 0 .. clock]
    <3>1. \A o \in Stores : rv[o] \in 0 .. clock
      BY SMT DEF VersionsGrow
    <3>. QED
      BY <3>1
  <2>3. \A p \in Pods : pods[p].phase \in Phases /\ pods[p].revision \in 0 .. revision
    BY SMT DEF Pod, RolloutIsLast
  <2>. QED
    BY <2>1, <2>2, <2>3 DEF TypeOK, Calls
<1>. QED
  BY RolloutInvariant, <1>1, PTL

\* No pod of the revision a save asked for, or of a later one, has started with
\* an older object, however the saves, edits, restarts and replacements
\* interleave (bumpDeploymentRollout after patchConfigMap and patchSecret).
THEOREM PodsAreFresh == Spec => []PodsReadWhatWasSaved
<1>1. RolloutInv => PodsReadWhatWasSaved
  BY DEF RolloutInv
<1>. QED
  BY RolloutInvariant, <1>1, PTL

\* A save is acknowledged only after every object it had settings for was
\* written by it, through all its conflicts and retries.
THEOREM SavesAreComplete == Spec => []AcknowledgedIsWritten
<1>1. RolloutInv => AcknowledgedIsWritten
  BY DEF RolloutInv, SavesInOrder, WrittenSoFar, AcknowledgedIsWritten, Stores
<1>. QED
  BY RolloutInvariant, <1>1, PTL

\* Only a Put writes an object on behalf of a save.
LEMMA OnlyPutsWrite ==
  ASSUME Types, Next, NEW h \in Saves, NEW o \in Stores, Puts(h, o)
  PROVE  Put(h, o)
<1>1. CASE \E g \in Saves : Post(g) \/ Rollout(g) \/ Abort(g)
  BY <1>1 DEF Post, Rollout, Abort, Puts
<1>2. CASE \E g \in Saves, q \in Stores : Get(g, q) \/ Conflict(g, q)
  BY <1>2 DEF Get, Conflict, Puts
<1>3. ASSUME NEW g \in Saves, NEW q \in Stores, Put(g, q)
      PROVE  Put(h, o)
  <2>1. written' = [written EXCEPT ![g][q] = clock + 1]
    BY <1>3 DEF Put, Commit
  <2>2. g = h /\ q = o
    BY <2>1 DEF Types, Puts
  <2>. QED
    BY <1>3, <2>2
<1>4. CASE (\E q \in Stores : Edit(q)) \/ \E p \in Pods : Controller(p) \/ Panic(p)
  <2>1. written' = written
    BY <1>4 DEF Edit, Controller, Create, Replace, StartContainer, Panic, saving
  <2>. QED
    BY <2>1 DEF Puts
<1>. QED
  BY <1>1, <1>2, <1>3, <1>4 DEF Next, Save

\* A save changes its own settings of an object and leaves what other saves and
\* kubectl wrote between its read and its write (retry.RetryOnConflict).
THEOREM NothingIsLost == Spec => SavesKeepOthers
<1> DEFINE Kept == \A h \in Saves, o \in Stores :
                     Puts(h, o) => \A k \in Keys \ DOMAIN form[h][o] :
                                      store[o] # Gone => store'[o][k] = store[o][k]
<1>1. ASSUME RolloutInv, Next PROVE Kept
  <2> SUFFICES ASSUME NEW h \in Saves, NEW o \in Stores, Puts(h, o),
                      NEW k \in Keys \ DOMAIN form[h][o], store[o] # Gone
               PROVE  store'[o][k] = store[o][k]
    OBVIOUS
  <2>1. Put(h, o) /\ store \in [Stores -> Data]
    BY <1>1, OnlyPutsWrite DEF RolloutInv, Types
  <2>2. copy[h] = store[o]
    BY <1>1, <2>1 DEF Put, MayPut, RolloutInv, CopiesAreTrue, CopyIsTrue
  <2>3. store'[o] = Merged(store[o], form[h][o])
    BY <2>1, <2>2 DEF Put, Commit
  <2>4. DOMAIN store[o] = Keys
    BY <2>1 DEF Data
  <2>. QED
    BY <2>3, <2>4 DEF Merged
<1>2. RolloutInv /\ [Next]_cvars => [Kept]_cvars
  BY <1>1
<1>. QED
  BY <1>2, RolloutInvariant, PTL DEF Spec, SavesKeepOthers

============================================================================
