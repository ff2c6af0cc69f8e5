--------------------------- MODULE Registry_proofs ---------------------------
(***************************************************************************)
(* Proofs about Registry, for any tags, versions, answers and timeouts:    *)
(* less is a strict order whatever the lengths and suffixes, so one scan   *)
(* that keeps the best tag so far ends with the newest.                    *)
(***************************************************************************)
EXTENDS Registry, TLAPS

-----------------------------------------------------------------------------
(* The order                                                               *)

IsNumbered(v) == v.nums \in Seq(Nat) /\ v.suffix \in Nat

LEMMA NumIsNat ==
  ASSUME NEW v, IsNumbered(v), NEW i \in Nat \ {0}
  PROVE  Num(v, i) \in Nat /\ (i > Len(v.nums) => Num(v, i) = 0)
<1>1. CASE i <= Len(v.nums)
  <2>1. i \in 1 .. Len(v.nums)
    BY <1>1
  <2>2. v.nums[i] \in Nat
    BY <2>1 DEF IsNumbered
  <2>. QED
    BY <1>1, <2>2 DEF Num
<1>2. CASE ~(i <= Len(v.nums))
  BY <1>2 DEF Num
<1>. QED
  BY <1>1, <1>2, SMT DEF IsNumbered

\* The same order without the bound on the position.
Differ(v, w, k) ==
    /\ Num(v, k) < Num(w, k)
    /\ \A j \in Nat \ {0} : j < k => Num(v, j) = Num(w, j)

Alike(v, w) == \A k \in Nat \ {0} : Num(v, k) = Num(w, k)

LEMMA OlderUnbounded ==
  ASSUME NEW v, NEW w, IsNumbered(v), IsNumbered(w)
  PROVE  Older(v, w) <=> \/ \E k \in Nat \ {0} : Differ(v, w, k)
                         \/ Alike(v, w) /\ SuffixOlder(v.suffix, w.suffix)
<1> DEFINE n == Longest(v, w)
<1>1. n \in Nat /\ Len(v.nums) <= n /\ Len(w.nums) <= n
  BY SMT DEF Longest, IsNumbered
<1>2. \A i \in Nat \ {0} : Num(v, i) \in Nat /\ Num(w, i) \in Nat
  BY NumIsNat
<1>3. \A i \in Nat \ {0} : i > n => Num(v, i) = 0 /\ Num(w, i) = 0
  <2> SUFFICES ASSUME NEW i \in Nat \ {0}, i > n
               PROVE  Num(v, i) = 0 /\ Num(w, i) = 0
    OBVIOUS
  <2>1. i > Len(v.nums) /\ i > Len(w.nums)
    BY <1>1, SMT DEF IsNumbered
  <2>. QED
    BY <2>1, NumIsNat
<1>4. ASSUME NEW k \in Nat \ {0}
      PROVE  Differ(v, w, k) <=> /\ k \in 1 .. n
                                 /\ Num(v, k) < Num(w, k)
                                 /\ \A j \in 1 .. k - 1 : Num(v, j) = Num(w, j)
  <2>1. Num(v, k) < Num(w, k) => k \in 1 .. n
    BY <1>1, <1>2, <1>3, SMT
  <2>2. (\A j \in Nat \ {0} : j < k => Num(v, j) = Num(w, j))
          <=> \A j \in 1 .. k - 1 : Num(v, j) = Num(w, j)
    BY SMT
  <2> HIDE DEF n
  <2>. QED
    BY <2>1, <2>2, Zenon DEF Differ
<1>6. 1 .. n \subseteq Nat \ {0}
  BY <1>1, SMT
<1>5. Alike(v, w) <=> \A k \in 1 .. n : Num(v, k) = Num(w, k)
  BY <1>1, <1>3, SMT DEF Alike
<1>. QED
  BY <1>4, <1>5, <1>6, Zenon DEF Older

\* less is irreflexive: a tag never replaces itself or its equal.
LEMMA OlderIrreflexive ==
  ASSUME NEW v, IsNumbered(v)
  PROVE  ~Older(v, v)
<1>1. \A i \in Nat \ {0} : Num(v, i) \in Nat
  BY NumIsNat
<1>2. ~ \E k \in Nat \ {0} : Differ(v, v, k)
  BY <1>1, SMT DEF Differ
<1>3. ~SuffixOlder(v.suffix, v.suffix)
  BY SMT DEF SuffixOlder, IsNumbered
<1>. QED
  BY <1>2, <1>3, OlderUnbounded

\* less is transitive, so what loses to a beaten tag loses to the winner.
LEMMA OlderTransitive ==
  ASSUME NEW u, NEW v, NEW w, IsNumbered(u), IsNumbered(v), IsNumbered(w),
         Older(u, v), Older(v, w)
  PROVE  Older(u, w)
<1>1. \A i \in Nat \ {0} : Num(u, i) \in Nat /\ Num(v, i) \in Nat /\ Num(w, i) \in Nat
  BY NumIsNat
<1>2. ASSUME NEW k \in Nat \ {0}, Differ(u, v, k), NEW m \in Nat \ {0}, Differ(v, w, m)
      PROVE  \E i \in Nat \ {0} : Differ(u, w, i)
  <2>1. CASE k <= m
    <3>1. Differ(u, w, k)
      BY <1>1, <1>2, <2>1, SMT DEF Differ
    <3>. QED
      BY <3>1
  <2>2. CASE m < k
    <3>1. Differ(u, w, m)
      BY <1>1, <1>2, <2>2, SMT DEF Differ
    <3>. QED
      BY <3>1
  <2>. QED
    BY <2>1, <2>2, SMT
<1>3. ASSUME NEW k \in Nat \ {0}, Differ(u, v, k), Alike(v, w)
      PROVE  Differ(u, w, k)
  BY <1>3, SMT DEF Differ, Alike
<1>4. ASSUME NEW k \in Nat \ {0}, Differ(v, w, k), Alike(u, v)
      PROVE  Differ(u, w, k)
  BY <1>4, SMT DEF Differ, Alike
<1>5. ASSUME Alike(u, v), Alike(v, w), SuffixOlder(u.suffix, v.suffix),
             SuffixOlder(v.suffix, w.suffix)
      PROVE  Alike(u, w) /\ SuffixOlder(u.suffix, w.suffix)
  <2>1. Alike(u, w)
    BY <1>5, SMT DEF Alike
  <2>2. SuffixOlder(u.suffix, w.suffix)
    BY <1>5, SMT DEF SuffixOlder, IsNumbered
  <2>. QED
    BY <2>1, <2>2
<1>. QED
  BY <1>2, <1>3, <1>4, <1>5, OlderUnbounded, Zenon

-----------------------------------------------------------------------------
(* Types                                                                   *)

\* The variables keep to their sets, for any tags, answers and timeouts.
THEOREM TypeCorrect == Spec => []TypeOK
<1> USE RegistryAssumption
<1>1. Init => TypeOK
  <2> SUFFICES ASSUME Init PROVE TypeOK
    OBVIOUS
  <2>1. scheme \in 1 .. Len(Schemes) /\ elapsed \in 0 .. Budget
    BY SMT DEF Init
  <2>2. list \in Seq(Tags) /\ at \in 0 .. Len(list)
    BY SMT DEF Init
  <2>3. bearer \in BOOLEAN /\ hasLatest \in BOOLEAN
    BY Zenon DEF Init
  <2>. QED
    BY <2>1, <2>2, <2>3, Zenon DEF Init, TypeOK, Phases
<1>2. TypeOK /\ [Next]_rvars => TypeOK'
  <2> SUFFICES ASSUME TypeOK, [Next]_rvars PROVE TypeOK'
    OBVIOUS
  <2>0. ASSUME NEW d \in 0 .. TimeLeft PROVE elapsed + d \in 0 .. Budget
    BY SMT DEF TimeLeft, TypeOK
  <2>1. CASE Listed
    <3>1. elapsed' \in 0 .. Budget
      BY <2>0, <2>1 DEF Listed, Answered
    <3>2. list' \in Seq(Tags) /\ at' \in 0 .. Len(list')
      BY <2>1, SMT DEF Listed
    <3>. QED
      BY <2>1, <3>1, <3>2, Zenon DEF Listed, Answered, TypeOK, Phases
  <2>2. CASE Challenged \/ TokenGiven
    <3>1. elapsed' \in 0 .. Budget
      BY <2>0, <2>2 DEF Challenged, TokenGiven, Answered
    <3>. QED
      BY <2>2, <3>1, Zenon DEF Challenged, TokenGiven, Answered, TypeOK, Phases, scan
  <2>3. CASE Fails
    <3>1. elapsed' \in 0 .. Budget
      BY <2>0, <2>3 DEF Fails
    <3>2. scheme' \in 1 .. Len(Schemes)
      BY <2>3, SMT DEF Fails, TypeOK
    <3>. QED
      BY <2>3, <3>1, <3>2, Zenon DEF Fails, TypeOK, Phases, scan
  <2>4. CASE ScanTag
    <3>1. list[at + 1] \in Tags /\ at' \in 0 .. Len(list')
      BY <2>4, SMT DEF ScanTag, TypeOK
    <3>2. best' \in Tags \union {NoTag}
      BY <2>4, <3>1, Zenon DEF ScanTag, TypeOK
    <3>3. hasLatest' \in BOOLEAN
      BY <2>4, Zenon DEF ScanTag
    <3>. QED
      BY <2>4, <3>1, <3>2, <3>3, Zenon DEF ScanTag, TypeOK, fetch
  <2>5. CASE Pick
    BY <2>5, Zenon DEF Pick, TypeOK, Phases
  <2>6. CASE UNCHANGED rvars
    BY <2>6, SMT DEF rvars, fetch, scan, TypeOK
  <2>. QED
    BY <2>1, <2>2, <2>3, <2>4, <2>5, <2>6 DEF Next
<1>. QED
  BY <1>1, <1>2, PTL DEF Spec

-----------------------------------------------------------------------------
(* The scan                                                                *)

Scanned == {list[i] : i \in 1 .. at} \ {exclude}

\* The best tag so far is one of those scanned, and none of them is newer.
BestSoFar ==
    IF best = NoTag THEN \A t \in Scanned : ~IsVersion(t)
    ELSE /\ best \in Scanned /\ IsVersion(best)
         /\ \A t \in Scanned : IsVersion(t) => ~Older(Version[best], Version[t])

ScanInv ==
    /\ phase = "scan" => BestSoFar /\ (hasLatest <=> Latest \in Scanned)
    /\ NewestWins

LEMMA VersionsNumbered ==
  ASSUME NEW t \in Tags, IsVersion(t)
  PROVE  IsNumbered(Version[t])
BY RegistryAssumption DEF IsVersion, IsNumbered

\* One step of the scan keeps the best tag the best.
LEMMA ScanKeepsBest == TypeOK /\ ScanInv /\ ScanTag => ScanInv'
<1> SUFFICES ASSUME TypeOK, ScanInv, ScanTag PROVE ScanInv'
  OBVIOUS
<1> DEFINE t == list[at + 1]
<1>1. at \in Nat /\ at + 1 \in DOMAIN list /\ t \in Tags /\ at' = at + 1
  BY SMT DEF ScanTag, TypeOK
<1>2. phase' = "scan" /\ list' = list /\ exclude' = exclude
  BY DEF ScanTag, fetch
<1>3. Scanned' = Scanned \union ({t} \ {exclude})
  <2>1. 1 .. at + 1 = (1 .. at) \union {at + 1}
    BY <1>1, SMT
  <2> HIDE DEF t
  <2>2. {list[i] : i \in 1 .. at + 1} = {list[i] : i \in 1 .. at} \union {t}
    BY <2>1 DEF t
  <2>. QED
    BY <1>1, <1>2, <2>2 DEF Scanned
<1>4. Scanned \subseteq Tags /\ NoTag \notin Tags
  <2>1. \A i \in 1 .. at : list[i] \in Tags
    BY <1>1, SMT DEF TypeOK
  <2>. QED
    BY <2>1, RegistryAssumption DEF Scanned
<1>5. BestSoFar /\ (hasLatest <=> Latest \in Scanned)
  BY DEF ScanInv, ScanTag
<1>6. hasLatest' <=> Latest \in Scanned'
  BY <1>3, <1>5 DEF ScanTag
<1>7. BestSoFar'
  <2> HIDE DEF t
  <2>1. CASE ~(t # exclude /\ IsVersion(t))
    <3>1. best' = best
      BY <2>1 DEF ScanTag, t
    <3>2. \A u \in Scanned' : IsVersion(u) => u \in Scanned
      BY <1>3, <2>1
    <3>3. Scanned \subseteq Scanned'
      BY <1>3
    <3>. QED
      BY <1>5, <3>1, <3>2, <3>3, Zenon DEF BestSoFar
  <2>2. CASE t # exclude /\ IsVersion(t) /\ ~Improves(t)
    <3>1. best' = best /\ best # NoTag /\ ~Older(Version[best], Version[t])
      BY <2>2 DEF ScanTag, Improves, t
    <3>2. best \in Scanned' /\ IsVersion(best)
      BY <1>3, <1>5, <3>1 DEF BestSoFar
    <3>3. \A u \in Scanned' : IsVersion(u) => ~Older(Version[best], Version[u])
      BY <1>3, <1>5, <3>1 DEF BestSoFar
    <3>. QED
      BY <3>1, <3>2, <3>3, Zenon DEF BestSoFar
  <2>3. CASE t # exclude /\ IsVersion(t) /\ Improves(t)
    <3>1. best' = t /\ t # NoTag /\ t \in Scanned'
      BY <1>1, <1>3, <1>4, <2>3 DEF ScanTag, t
    <3>2. ASSUME NEW u \in Scanned', IsVersion(u) PROVE ~Older(Version[t], Version[u])
      <4>1. IsNumbered(Version[t]) /\ IsNumbered(Version[u])
        BY <1>1, <1>3, <1>4, <2>3, <3>2, VersionsNumbered
      <4>2. CASE u = t
        BY <4>1, <4>2, OlderIrreflexive
      <4>3. CASE u # t
        <5>1. u \in Scanned
          BY <1>3, <4>3
        <5>2. best # NoTag /\ IsVersion(best) /\ best \in Tags
          BY <1>4, <1>5, <3>2, <5>1 DEF BestSoFar
        <5>3. ~Older(Version[best], Version[u])
          BY <1>5, <3>2, <5>1, <5>2 DEF BestSoFar
        <5>4. Older(Version[best], Version[t])
          BY <2>3, <5>2 DEF Improves
        <5>5. IsNumbered(Version[best])
          BY <5>2, VersionsNumbered
        <5>. QED
          BY <4>1, <5>3, <5>4, <5>5, OlderTransitive
      <4>. QED
        BY <4>2, <4>3
    <3>. QED
      BY <2>3, <3>1, <3>2, Zenon DEF BestSoFar
  <2>. QED
    BY <2>1, <2>2, <2>3
<1>8. NewestWins'
  BY <1>2 DEF NewestWins
<1>. QED
  BY <1>2, <1>6, <1>7, <1>8 DEF ScanInv

\* What is best after the last tag is the newest candidate.
LEMMA PickIsNewest == TypeOK /\ ScanInv /\ Pick => ScanInv'
<1> SUFFICES ASSUME TypeOK, ScanInv, Pick, phase' = "found" PROVE NewestWins'
  BY DEF Pick, ScanInv, NewestWins
<1>1. BestSoFar /\ (hasLatest <=> Latest \in Scanned)
  BY DEF Pick, ScanInv
<1>2. Scanned = Candidates
  <2>1. DOMAIN list = 1 .. at
    BY SMT DEF Pick, TypeOK
  <2>. QED
    BY <2>1 DEF Scanned, Candidates
<1>3. Candidates' = Candidates
  BY DEF Pick, Candidates
<1>4. Candidates \subseteq Tags /\ NoTag \notin Tags
  <2>1. \A i \in DOMAIN list : list[i] \in Tags
    BY SMT DEF TypeOK
  <2>. QED
    BY <2>1, RegistryAssumption DEF Candidates
<1>5. CASE best # NoTag
  <2>1. result' = best
    BY <1>5 DEF Pick
  <2>2. best \in Candidates /\ IsVersion(best)
    BY <1>1, <1>2, <1>5 DEF BestSoFar
  <2>3. ASSUME NEW t \in Candidates, IsVersion(t)
        PROVE  /\ ~Older(Version[best], Version[t])
               /\ ~ /\ Version[t].nums = Version[best].nums
                    /\ Version[t].suffix = 0 /\ Version[best].suffix # 0
    <3>1. ~Older(Version[best], Version[t])
      BY <1>1, <1>2, <1>5, <2>3 DEF BestSoFar
    <3>2. ASSUME Version[t].nums = Version[best].nums,
                 Version[t].suffix = 0, Version[best].suffix # 0
          PROVE  Older(Version[best], Version[t])
      <4>1. \A k : Num(Version[t], k) = Num(Version[best], k)
        BY <3>2 DEF Num
      <4>2. SuffixOlder(Version[best].suffix, Version[t].suffix)
        BY <3>2 DEF SuffixOlder
      <4>. QED
        BY <4>1, <4>2, Zenon DEF Older
    <3>. QED
      BY <3>1, <3>2
  <2>. QED
    BY <1>3, <2>1, <2>2, <2>3, Zenon DEF NewestWins
<1>6. CASE best = NoTag
  <2>1. hasLatest /\ result' = Latest
    BY <1>6 DEF Pick
  <2>2. Latest \in Candidates /\ \A t \in Candidates : ~IsVersion(t)
    BY <1>1, <1>2, <1>6, <2>1 DEF BestSoFar
  <2>. QED
    BY <1>3, <2>1, <2>2, Zenon DEF NewestWins
<1>. QED
  BY <1>5, <1>6

\* Whatever tags the registry lists and in whatever order, the tag that is
\* found is the newest of them but the excluded one. (PickNewest)
THEOREM PicksNewest == Spec => []NewestWins
<1>1. Init => ScanInv
  BY DEF Init, ScanInv, NewestWins
<1>2. TypeOK /\ ScanInv /\ [Next]_rvars => ScanInv'
  <2> SUFFICES ASSUME TypeOK, ScanInv, [Next]_rvars PROVE ScanInv'
    OBVIOUS
  <2>1. CASE Listed
    <3>1. Scanned' = {}
      <4>1. 1 .. at' = {}
        BY <2>1, SMT DEF Listed
      <4>. QED
        BY <4>1 DEF Scanned
    <3>. QED
      BY <2>1, <3>1 DEF Listed, ScanInv, BestSoFar, NewestWins
  <2>2. CASE Challenged \/ TokenGiven \/ Fails
    BY <2>2 DEF Challenged, TokenGiven, Fails, ScanInv, NewestWins
  <2>3. CASE ScanTag
    BY <2>3, ScanKeepsBest
  <2>4. CASE Pick
    BY <2>4, PickIsNewest
  <2>5. CASE UNCHANGED rvars
    BY <2>5, Zenon DEF rvars, fetch, scan, ScanInv, BestSoFar, Scanned, NewestWins,
       Candidates
  <2>. QED
    BY <2>1, <2>2, <2>3, <2>4, <2>5 DEF Next
<1>3. ScanInv => NewestWins
  BY DEF ScanInv
<1>. QED
  BY <1>1, <1>2, <1>3, TypeCorrect, PTL DEF Spec

=============================================================================
