------------------------------ MODULE Registry ------------------------------
(***************************************************************************)
(* Client.NewestTag of internal/registry: the tag list of a repository is  *)
(* asked for over each scheme in turn, with the anonymous token dance when *)
(* the registry wants it, within a timeout per request and one for the     *)
(* whole lookup; PickNewest then scans the list for the tag that replaces  *)
(* the broken one.                                                         *)
(*                                                                         *)
(* A tag is a model value; Version gives what parseVersion makes of it: a  *)
(* leading run of numbers and the rest, 0 when empty and else its rank in  *)
(* the order of strings, or NotVersion (no number, or one that overflows). *)
(***************************************************************************)
EXTENDS Integers, Sequences

CONSTANTS
    Tags, Latest, NoTag,
    Version, NotVersion,
    Answers,            \* the tag lists a registry may answer with
    Schemes,            \* <<"https", "http">>
    RequestTimeout,     \* 5s, of the HTTP client
    Budget              \* 8s, of the lookup

ASSUME RegistryAssumption ==
    /\ Latest \in Tags /\ NoTag \notin Tags
    /\ \A t \in Tags : \/ Version[t] = NotVersion
                       \/ /\ Version[t].nums \in Seq(Nat)
                          /\ Version[t].suffix \in Nat
    /\ Version[Latest] = NotVersion
    /\ Answers \subseteq Seq(Tags)
    /\ Len(Schemes) \in Nat \ {0}
    /\ RequestTimeout \in Nat /\ Budget \in Nat

VARIABLES
    phase,      \* see Phases
    scheme,     \* index of the scheme being tried
    bearer,     \* a token is at hand
    elapsed,    \* time since the lookup began
    exclude,    \* the tag the image carries, NoTag if none
    list, at,   \* the answer, and how many of its tags are scanned
    best, hasLatest,
    result

fetch == <<phase, scheme, bearer, elapsed>>
scan  == <<list, at, best, hasLatest, result>>
rvars == <<fetch, scan, exclude>>

Phases == {"tags", "token", "scan", "found", "failed"}

Init ==
    /\ phase = "tags" /\ scheme = 1 /\ bearer = FALSE /\ elapsed = 0
    /\ exclude \in Tags \union {NoTag}
    /\ list = <<>> /\ at = 0
    /\ best = NoTag /\ hasLatest = FALSE
    /\ result = NoTag

-----------------------------------------------------------------------------
(* The order of versions                                                   *)

\* Missing numbers count as zero.
Num(v, i) == IF i <= Len(v.nums) THEN v.nums[i] ELSE 0

Longest(v, w) == IF Len(v.nums) < Len(w.nums) THEN Len(w.nums) ELSE Len(v.nums)

\* Bug form: the suffixes are compared as they come, the bare one first.
PlainSuffixOlder(a, b) == a < b

\* A bare release outranks every variant of it.
SuffixOlder(a, b) == IF a = 0 \/ b = 0 THEN a # 0 /\ b = 0 ELSE a < b

\* less: v orders before w
Older(v, w) ==
    \/ \E k \in 1 .. Longest(v, w) :
          /\ Num(v, k) < Num(w, k)
          /\ \A j \in 1 .. k - 1 : Num(v, j) = Num(w, j)
    \/ /\ \A k \in 1 .. Longest(v, w) : Num(v, k) = Num(w, k)
       /\ SuffixOlder(v.suffix, w.suffix)

-----------------------------------------------------------------------------
(* The requests                                                            *)

TimeLeft ==
    IF Budget - elapsed < RequestTimeout THEN Budget - elapsed ELSE RequestTimeout

\* A request that is answered; an expired context sends none.
Answered ==
    /\ elapsed < Budget
    /\ \E d \in 0 .. TimeLeft : elapsed' = elapsed + d

Listed ==
    /\ phase = "tags" /\ Answered
    /\ list' \in Answers
    /\ at' = 0 /\ best' = NoTag /\ hasLatest' = FALSE
    /\ phase' = "scan"
    /\ UNCHANGED <<scheme, bearer, result, exclude>>

\* 401, unless a token was sent along.
Challenged ==
    /\ phase = "tags" /\ ~bearer /\ Answered
    /\ phase' = "token"
    /\ UNCHANGED <<scheme, bearer, scan, exclude>>

\* Bug form: an empty token is a token.
EmptyToken ==
    /\ phase = "token" /\ Answered
    /\ phase' = "tags"
    /\ UNCHANGED <<scheme, bearer, scan, exclude>>

TokenGiven ==
    /\ phase = "token" /\ Answered
    /\ bearer' = TRUE
    /\ phase' = "tags"
    /\ UNCHANGED <<scheme, scan, exclude>>

\* Refused, timed out, another status, an answer that cannot be read, a
\* challenge or a token that cannot be used: the next scheme, without a token.
Fails ==
    /\ phase \in {"tags", "token"}
    /\ \E d \in 0 .. TimeLeft : elapsed' = elapsed + d
    /\ bearer' = FALSE
    /\ IF scheme < Len(Schemes) THEN phase' = "tags" /\ scheme' = scheme + 1
       ELSE phase' = "failed" /\ UNCHANGED scheme
    /\ UNCHANGED <<scan, exclude>>

-----------------------------------------------------------------------------
(* PickNewest                                                              *)

IsVersion(t) == t # Latest /\ Version[t] # NotVersion

\* Bug form: the arguments of less, swapped.
Oldest(t) == best = NoTag \/ Older(Version[t], Version[best])

Improves(t) == best = NoTag \/ Older(Version[best], Version[t])

ScanTag ==
    /\ phase = "scan" /\ at < Len(list)
    /\ LET t == list[at + 1]
       IN /\ hasLatest' = (hasLatest \/ (t # exclude /\ t = Latest))
          /\ best' = IF t # exclude /\ IsVersion(t) /\ Improves(t) THEN t ELSE best
    /\ at' = at + 1
    /\ UNCHANGED <<fetch, list, result, exclude>>

Pick ==
    /\ phase = "scan" /\ at = Len(list)
    /\ result' = IF best # NoTag THEN best ELSE IF hasLatest THEN Latest ELSE NoTag
    /\ phase' = IF result' = NoTag THEN "failed" ELSE "found"
    /\ UNCHANGED <<scheme, bearer, elapsed, list, at, best, hasLatest, exclude>>

Next == Listed \/ Challenged \/ TokenGiven \/ Fails \/ ScanTag \/ Pick

Spec == Init /\ [][Next]_rvars /\ WF_rvars(Next)

-----------------------------------------------------------------------------
(* Properties                                                              *)

\* The variables keep to their sets.
TypeOK ==
    /\ phase \in Phases /\ scheme \in 1 .. Len(Schemes)
    /\ bearer \in BOOLEAN /\ hasLatest \in BOOLEAN
    /\ elapsed \in 0 .. Budget
    /\ exclude \in Tags \union {NoTag}
    /\ list \in Seq(Tags) /\ at \in 0 .. Len(list)
    /\ best \in Tags \union {NoTag} /\ result \in Tags \union {NoTag}

\* The tags of the list that may replace the excluded one.
Candidates == {list[i] : i \in DOMAIN list} \ {exclude}

\* The tag that is found is advertised and is not the broken one. No other
\* candidate is newer, in whatever order the list comes, and a variant is taken
\* only where the bare release of that version is not offered; latest is taken
\* only from a list without any version. (PickNewest)
NewestWins ==
    phase = "found" =>
       /\ result \in Candidates
       /\ IF \E t \in Candidates : IsVersion(t)
          THEN /\ IsVersion(result)
               /\ \A t \in Candidates : IsVersion(t) =>
                     /\ ~Older(Version[result], Version[t])
                     /\ ~ /\ Version[t].nums = Version[result].nums
                          /\ Version[t].suffix = 0 /\ Version[result].suffix # 0
          ELSE result = Latest

\* A lookup ends, whatever the registry answers and however fast: the
\* token dance is danced once per scheme. (fetchTags)
LookupReturns == <>(phase \in {"found", "failed"})

=============================================================================
