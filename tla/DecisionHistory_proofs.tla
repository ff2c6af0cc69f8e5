----------------------- MODULE DecisionHistory_proofs -----------------------
(* Proofs about DecisionHistory, for any capacity and any processes.       *)
EXTENDS DecisionHistory, SequenceTheorems, FiniteSetTheorems, TLAPS

\* What a Record on its way was called with has been counted.
InHand == \A p \in Processes : pc[p] # "idle" => latest[p] \in 1 .. count

HistoryInv == TypeOK /\ InHand

LEMMA InitHistory == Init => HistoryInv
<1> SUFFICES ASSUME Init PROVE HistoryInv
  OBVIOUS
<1>1. full \in [Processes -> BOOLEAN] /\ up \in BOOLEAN
  BY Zenon DEF Init
<1>2. buf \in [Processes -> [Slots -> Nat]] /\ next \in [Processes -> Slots]
  BY HistoryAssumption, SMT DEF Init, Slots
<1>3. list \in Seq(1 .. count) /\ returned \subseteq 1 .. count /\ lost \subseteq 1 .. count
  BY SMT DEF Init
<1>. QED
  BY <1>1, <1>2, <1>3, SMT DEF Init, HistoryInv, TypeOK, InHand

\* The slot to write next stays inside the ring.
LEMMA NextSlot ==
  ASSUME NEW i \in Slots
  PROVE  (i + 1) % Capacity \in Slots
BY HistoryAssumption, SMT DEF Slots

LEMMA RecordHistory == ASSUME HistoryInv, NEW p \in Processes, Record(p) PROVE HistoryInv'
<1> USE DEF HistoryInv, TypeOK, InHand
<1>1. buf' \in [Processes -> [Slots -> Nat]]
  BY SMT DEF Record, WriteSlot
<1>2. next' \in [Processes -> Slots]
  <2>1. (next[p] + 1) % Capacity \in Slots
    BY NextSlot
  <2>. QED
    BY <2>1, Zenon DEF Record, WriteSlot
<1>3. full' \in [Processes -> BOOLEAN]
  <2>1. full' = [full EXCEPT ![p] = @ \/ next[p] + 1 = Capacity]
    BY DEF Record, WriteSlot
  <2>. QED
    BY <2>1, Zenon
<1>4. /\ list' = list /\ returned' = returned /\ attached' = attached /\ up' = up
      /\ count' = count + 1 /\ count \in Nat /\ pc[p] = "idle"
  BY DEF Record
<1>5. list' \in Seq(1 .. count') /\ returned' \subseteq 1 .. count'
  <2>1. 1 .. count \subseteq 1 .. count'
    BY <1>4, SMT
  <2>2. \A i \in 1 .. Len(list) : list[i] \in 1 .. count'
    BY <2>1, SMT
  <2>. QED
    BY <1>4, <2>1, <2>2, SMT
<1>6. lost' \subseteq 1 .. count'
  BY <1>4, SMT DEF Record
<1>7. pc' \in [Processes -> {"idle", "push", "trim", "return"}]
  BY SMT DEF Record
<1>8. latest' \in [Processes -> Nat] /\ InHand'
  BY <1>4, SMT DEF Record
<1>. QED
  <2>1. attached' \subseteq Processes /\ up' \in BOOLEAN
    BY <1>4, Zenon
  <2>2. count' \in Nat
    BY <1>4, SMT
  <2>. QED
    BY ONLY <1>1, <1>2, <1>3, <1>5, <1>6, <1>7, <1>8, <2>1, <2>2, Zenon
       DEF HistoryInv, TypeOK

LEMMA NextHistory == HistoryInv /\ [Next]_hvars => HistoryInv'
<1> SUFFICES ASSUME HistoryInv, [Next]_hvars PROVE HistoryInv'
  OBVIOUS
<1> USE DEF HistoryInv, TypeOK, InHand
<1>1. CASE Fail \/ Recover
  <2>1. up' \in BOOLEAN /\ UNCHANGED <<buf, next, full, attached, pc, list, count,
                                       latest, returned, lost>>
    BY <1>1, Zenon DEF Fail, Recover
  <2>. QED
    BY ONLY <2>1, HistoryInv, Zenon DEF HistoryInv, TypeOK, InHand
<1>2. ASSUME NEW p \in Processes, Restart(p) PROVE HistoryInv'
  <2>1. full' \in [Processes -> BOOLEAN] /\ up' \in BOOLEAN /\ attached' \subseteq Processes
    BY <1>2, Zenon DEF Restart
  <2>2. buf' \in [Processes -> [Slots -> Nat]] /\ next' \in [Processes -> Slots]
    BY <1>2, HistoryAssumption, SMT DEF Restart, Slots
  <2>3. /\ pc' \in [Processes -> {"idle", "push", "trim", "return"}]
        /\ latest' \in [Processes -> Nat] /\ InHand'
    BY <1>2, SMT DEF Restart
  <2>4. UNCHANGED <<list, count, returned, lost>>
    BY <1>2 DEF Restart
  <2>. QED
    BY <2>1, <2>2, <2>3, <2>4, Zenon
<1>3. ASSUME NEW p \in Processes, Record(p) PROVE HistoryInv'
  BY <1>3, RecordHistory
<1>4. ASSUME NEW p \in Processes, LPush(p) PROVE HistoryInv'
  <2>1. latest[p] \in 1 .. count /\ list \in Seq(1 .. count)
    BY <1>4 DEF LPush
  <2>2. list' \in Seq(1 .. count)
    BY <1>4, <2>1, SMT DEF LPush
  <2>3. UNCHANGED <<buf, next, full, attached, up, count, latest, returned, lost>>
    BY <1>4 DEF LPush
  <2>4. pc' \in [Processes -> {"idle", "push", "trim", "return"}] /\ InHand'
    BY <1>4, SMT DEF LPush
  <2>. QED
    BY <2>2, <2>3, <2>4, Zenon
<1>5. ASSUME NEW p \in Processes, LTrim(p) PROVE HistoryInv'
  <2>1. list' \in Seq(1 .. count)
    BY <1>5, HistoryAssumption, SMT DEF LTrim, Newest
  <2>2. UNCHANGED <<buf, next, full, attached, up, count, latest, returned, lost>>
    BY <1>5 DEF LTrim
  <2>3. pc' \in [Processes -> {"idle", "push", "trim", "return"}] /\ InHand'
    BY <1>5, SMT DEF LTrim
  <2>. QED
    BY <2>1, <2>2, <2>3, Zenon
<1>6. ASSUME NEW p \in Processes, PipelineFails(p) \/ Return(p) PROVE HistoryInv'
  <2>1. UNCHANGED <<buf, next, full, attached, up, list, count, latest>>
    BY <1>6 DEF PipelineFails, Return
  <2>2. latest[p] \in 1 .. count
    BY <1>6, SMT DEF PipelineFails, Return
  <2>3. /\ returned' = returned \/ returned' = returned \union {latest[p]}
        /\ lost' = lost \/ lost' = lost \union {latest[p]}
        /\ pc' = [pc EXCEPT ![p] = "return"] \/ pc' = [pc EXCEPT ![p] = "idle"]
        /\ pc[p] # "idle"
    BY <1>6, Zenon DEF PipelineFails, Return
  <2>4. returned' \subseteq 1 .. count /\ lost' \subseteq 1 .. count
    BY <2>2, <2>3, Zenon
  <2>5. pc' \in [Processes -> {"idle", "push", "trim", "return"}]
    <3>1. pc \in [Processes -> {"idle", "push", "trim", "return"}]
      OBVIOUS
    <3>2. CASE pc' = [pc EXCEPT ![p] = "return"]
      BY ONLY <3>1, <3>2, SMT
    <3>3. CASE pc' = [pc EXCEPT ![p] = "idle"]
      BY ONLY <3>1, <3>3, SMT
    <3>. QED
      BY <2>3, <3>2, <3>3, Zenon
  <2>6. \A q \in Processes : pc'[q] # "idle" => pc[q] # "idle"
    BY <2>3, SMT
  <2>7. InHand'
    BY <2>1, <2>6, Zenon
  <2>. QED
    BY <2>1, <2>4, <2>5, <2>7, Zenon
<1>7. CASE UNCHANGED hvars
  BY <1>7, Zenon DEF hvars
<1>. QED
  BY <1>1, <1>2, <1>3, <1>4, <1>5, <1>6, <1>7 DEF Next

\* The index arithmetic stays inside the ring and the list holds recorded
\* decisions only, for any capacity, with any overlap of processes. (Record)
THEOREM TypeCorrect == Spec => []TypeOK
<1>1. HistoryInv => TypeOK
  BY DEF HistoryInv
<1>. QED
  BY <1>1, InitHistory, NextHistory, PTL DEF Spec

-----------------------------------------------------------------------------
(* The ring                                                                *)

\* Once around the ring at most.
LEMMA Wrap ==
  ASSUME NEW c \in Nat \ {0}, NEW a \in 0 .. 2 * c - 1
  PROVE  a % c = IF a < c THEN a ELSE a - c
<1>1. CASE a < c
  BY <1>1, SMT
<1>2. CASE a >= c
  BY <1>2, SMT
<1>. QED
  BY <1>1, <1>2, SMT

\* What a list looks like after a decision is put in front and the list cut.
Pushed(d, s) == Recent!Newest(<<d>> \o s)

LEMMA PushedAndCut ==
  ASSUME NEW s \in Seq(Nat), NEW d \in Nat
  PROVE  /\ Pushed(d, s) \in Seq(Nat)
         /\ Len(Pushed(d, s)) = IF Len(s) < Capacity THEN Len(s) + 1 ELSE Capacity
         /\ \A i \in 1 .. Len(Pushed(d, s)) :
               Pushed(d, s)[i] = IF i = 1 THEN d ELSE s[i - 1]
<1>1. PICK u, t, m : /\ u = <<d>> \o s
                     /\ m = IF Len(u) < Capacity THEN Len(u) ELSE Capacity
                     /\ t = SubSeq(u, 1, m)
  OBVIOUS
<1>2. u \in Seq(Nat) /\ Len(u) = Len(s) + 1 /\ Len(s) \in Nat
  BY <1>1, SMT
<1>3. \A i \in 1 .. Len(u) : u[i] = IF i = 1 THEN d ELSE s[i - 1]
  BY <1>1, SMT
<1>4. m \in Nat /\ m <= Len(u) /\ m = IF Len(s) < Capacity THEN Len(s) + 1 ELSE Capacity
  BY <1>1, <1>2, HistoryAssumption, SMT
<1>5. t \in Seq(Nat) /\ Len(t) = m /\ \A i \in 1 .. m : t[i] = u[i]
  <2>1. \A i \in 1 .. m : u[i] \in Nat
    BY <1>2, <1>4, SMT
  <2>2. /\ t \in Seq(Nat) /\ Len(t) = IF 1 <= m THEN m - 1 + 1 ELSE 0
        /\ \A i \in 1 .. m - 1 + 1 : t[i] = u[1 + i - 1]
    BY <1>1, <1>4, <2>1, SubSeqProperties
  <2>. QED
    BY <1>4, <2>2, SMT
<1>6. t = Pushed(d, s)
  BY <1>1 DEF Recent!Newest, Pushed
<1>7. \A i \in 1 .. Len(t) : t[i] = IF i = 1 THEN d ELSE s[i - 1]
  <2>1. \A i \in 1 .. m : i \in 1 .. Len(u)
    BY <1>2, <1>4, SMT
  <2>. QED
    BY ONLY <1>3, <1>5, <2>1, Zenon
<1>. QED
  BY <1>4, <1>5, <1>6, <1>7

\* Read backwards from a slot, len values of a ring are a sequence.
Back(n, i) == IF i <= n THEN n - i ELSE n - i + Capacity

BackFrom(b, n, len) == [i \in 1 .. len |-> b[(n - i + Capacity) % Capacity]]

LEMMA Backwards ==
  ASSUME NEW b \in [Slots -> Nat], NEW n \in Slots, NEW len \in 0 .. Capacity
  PROVE  /\ BackFrom(b, n, len) \in Seq(Nat) /\ Len(BackFrom(b, n, len)) = len
         /\ \A i \in 1 .. len : BackFrom(b, n, len)[i] = b[Back(n, i)]
<1>0. PICK r : r = [i \in 1 .. len |-> b[(n - i + Capacity) % Capacity]]
  OBVIOUS
<1>1. Capacity \in Nat \ {0} /\ n \in 0 .. Capacity - 1 /\ len \in Nat
  BY HistoryAssumption, SMT DEF Slots
<1>2. ASSUME NEW i \in 1 .. len
      PROVE  /\ (n - i + Capacity) % Capacity = IF i <= n THEN n - i ELSE n - i + Capacity
             /\ (n - i + Capacity) % Capacity \in Slots
  <2>1. PICK a : a = n - i + Capacity
    OBVIOUS
  <2>2. a \in 0 .. 2 * Capacity - 1
    BY <1>1, <2>1, SMT
  <2>3. a % Capacity = IF a < Capacity THEN a ELSE a - Capacity
    BY <1>1, <2>2, Wrap
  <2>. QED
    BY <1>1, <2>1, <2>2, <2>3, SMT DEF Slots
<1>3. r \in [1 .. len -> Nat]
  BY <1>0, <1>2, SMT
<1>4. r \in Seq(Nat) /\ Len(r) = len
  BY <1>1, <1>3, SMT
<1>5. \A i \in 1 .. len : r[i] = b[Back(n, i)]
  BY <1>0, <1>2, SMT DEF Back
<1>6. r = BackFrom(b, n, len)
  BY <1>0 DEF BackFrom
<1>. QED
  BY <1>4, <1>5, <1>6

LengthOf(f, n) == IF f THEN Capacity ELSE n

\* What WriteSlot makes of the three variables of a ring.
Written(b, n, f, d, b2, n2, f2) ==
    /\ b \in [Slots -> Nat] /\ n \in Slots /\ f \in BOOLEAN /\ f2 \in BOOLEAN /\ d \in Nat
    /\ b2 = [b EXCEPT ![n] = d]
    /\ n2 = (n + 1) % Capacity
    /\ f2 = (f \/ n + 1 = Capacity)

\* A slot is written in front of the ring.
LEMMA RingGrows ==
  ASSUME NEW b, NEW n, NEW f, NEW d, NEW b2, NEW n2, NEW f2,
         Written(b, n, f, d, b2, n2, f2)
  PROVE  BackFrom(b2, n2, LengthOf(f2, n2)) = Pushed(d, BackFrom(b, n, LengthOf(f, n)))
<1>0. PICK old, new : /\ old = BackFrom(b, n, LengthOf(f, n))
                      /\ new = BackFrom(b2, n2, LengthOf(f2, n2))
  OBVIOUS
<1>. /\ b \in [Slots -> Nat] /\ n \in Slots /\ f \in BOOLEAN /\ f2 \in BOOLEAN
     /\ d \in Nat
  BY DEF Written
<1>1. n \in 0 .. Capacity - 1 /\ Capacity \in Nat \ {0}
  BY HistoryAssumption, SMT DEF Slots
<1>2. n2 = (IF n + 1 = Capacity THEN 0 ELSE n + 1) /\ n2 \in Slots
  <2>1. PICK a : a = n + 1
    OBVIOUS
  <2>2. a \in 0 .. 2 * Capacity - 1
    BY <1>1, <2>1, SMT
  <2>3. a % Capacity = IF a < Capacity THEN a ELSE a - Capacity
    BY <1>1, <2>2, Wrap
  <2>. QED
    BY <1>1, <2>1, <2>3, SMT DEF Slots, Written
<1>3. b2 \in [Slots -> Nat] /\ \A i \in Slots : b2[i] = IF i = n THEN d ELSE b[i]
  BY SMT DEF Written
<1>4. PICK len, len2 : len = LengthOf(f, n) /\ len2 = LengthOf(f2, n2)
  OBVIOUS
<1>5. /\ len \in 0 .. Capacity /\ len2 \in 0 .. Capacity
      /\ len2 = IF len < Capacity THEN len + 1 ELSE Capacity
      /\ len = n \/ len = Capacity
  <2>1. f2 <=> f \/ n + 1 = Capacity
    BY Zenon DEF Written
  <2>2. /\ f \in BOOLEAN /\ f2 \in BOOLEAN
        /\ len = IF f THEN Capacity ELSE n
        /\ len2 = IF f2 THEN Capacity ELSE n2
    BY <1>4 DEF LengthOf
  <2>. QED
    BY ONLY <1>1, <1>2, <2>1, <2>2, SMT
<1>6. /\ old \in Seq(Nat) /\ Len(old) = len
      /\ \A i \in 1 .. len : old[i] = b[Back(n, i)]
  <2>1. old = BackFrom(b, n, len)
    BY <1>0, <1>4, Zenon
  <2>2. b \in [Slots -> Nat] /\ n \in Slots /\ len \in 0 .. Capacity
    BY <1>5, Zenon
  <2>. QED
    BY ONLY <2>1, <2>2, Backwards, Zenon
<1>7. /\ new \in Seq(Nat) /\ Len(new) = len2
      /\ \A i \in 1 .. len2 : new[i] = b2[Back(n2, i)]
  <2>1. new = BackFrom(b2, n2, len2)
    BY <1>0, <1>4, Zenon
  <2>2. b2 \in [Slots -> Nat] /\ n2 \in Slots /\ len2 \in 0 .. Capacity
    BY <1>2, <1>3, <1>5, Zenon
  <2>. QED
    BY ONLY <2>1, <2>2, Backwards, Zenon
<1>8. PICK t : t = Pushed(d, old)
  OBVIOUS
<1>9. /\ t \in Seq(Nat) /\ Len(t) = len2
      /\ \A i \in 1 .. len2 : t[i] = IF i = 1 THEN d ELSE old[i - 1]
  <2>1. d \in Nat /\ old \in Seq(Nat)
    BY <1>6, Zenon
  <2>2. /\ t \in Seq(Nat)
        /\ Len(t) = IF Len(old) < Capacity THEN Len(old) + 1 ELSE Capacity
        /\ \A i \in 1 .. Len(t) : t[i] = IF i = 1 THEN d ELSE old[i - 1]
    BY <1>8, <2>1, PushedAndCut, Zenon
  <2>. QED
    BY <1>5, <1>6, <2>2
<1>10. ASSUME NEW i \in 1 .. len2 PROVE new[i] = t[i]
  <2>1. PICK j : j = Back(n2, i)
    OBVIOUS
  <2>2. i \in 1 .. Capacity
    BY <1>1, <1>5, SMT
  <2>3. new[i] = b2[j]
    BY <1>7, <2>1
  <2>4. j \in 0 .. Capacity - 1 /\ (j = n <=> i = 1)
    BY <1>1, <1>2, <2>1, <2>2, SMT DEF Back
  <2>5. j \in Slots
    BY <2>4 DEF Slots
  <2>6. CASE i = 1
    BY <1>3, <1>9, <2>3, <2>4, <2>5, <2>6
  <2>7. CASE i # 1
    <3>1. PICK k : k = i - 1
      OBVIOUS
    <3>2. k \in 1 .. len
      BY <1>1, <1>5, <2>2, <2>7, <3>1, SMT
    <3>3. j = Back(n, k)
      BY <1>1, <1>2, <2>1, <2>2, <2>7, <3>1, SMT DEF Back
    <3>4. old[k] = b[j]
      BY <1>6, <3>2, <3>3
    <3>5. t[i] = old[k]
      BY <1>9, <2>7, <3>1
    <3>. QED
      BY <1>3, <2>3, <2>4, <2>5, <2>7, <3>4, <3>5
  <2>. QED
    BY <2>6, <2>7
<1>11. new = t
  <2>1. new \in Seq(Nat) /\ t \in Seq(Nat) /\ Len(new) = Len(t)
    BY <1>7, <1>9
  <2>2. \A i \in 1 .. Len(new) : new[i] = t[i]
    BY <1>7, <1>10
  <2>. QED
    BY ONLY <2>1, <2>2, SeqEqual, Zenon
<1>. QED
  BY <1>0, <1>8, <1>11

\* The rings as the abstract module sees them.
Rings == [p \in Processes |-> Ring(p)]

LEMMA OtherRings ==
  ASSUME NEW p \in Processes, NEW r, Ring(p)' = r,
         \A q \in Processes \ {p} : /\ buf'[q] = buf[q] /\ next'[q] = next[q]
                                    /\ full'[q] = full[q]
  PROVE  Rings' = [Rings EXCEPT ![p] = r]
<1>1. \A q \in Processes \ {p} : Ring(q)' = Ring(q)
  BY DEF Ring
<1>2. Rings' = [q \in Processes |-> IF q = p THEN r ELSE Ring(q)]
  BY <1>1, Zenon DEF Rings
<1>3. Rings = [q \in Processes |-> Rings[q]] /\ \A q \in Processes : Rings[q] = Ring(q)
  BY DEF Rings
<1>4. PICK f, g : f = Rings /\ g = [f EXCEPT ![p] = r]
  OBVIOUS
<1>5. g = [q \in Processes |-> IF q = p THEN r ELSE f[q]]
  <2>1. f = [q \in Processes |-> f[q]]
    BY <1>3, <1>4
  <2>. QED
    BY ONLY <1>4, <2>1, SMT
<1>6. g = [q \in Processes |-> IF q = p THEN r ELSE Ring(q)]
  BY <1>3, <1>4, <1>5
<1>. QED
  BY <1>2, <1>4, <1>6

LEMMA RecordRemembers ==
  ASSUME TypeOK, NEW p \in Processes, Record(p)
  PROVE  \E d \in 1 .. MaxDecisions : Recent!Remember(p, d)
<1>1. PICK d : d = count + 1
  OBVIOUS
<1>2. d \in 1 .. MaxDecisions /\ d \in Nat
  BY <1>1, HistoryAssumption, SMT DEF Record, TypeOK
<1>3. WriteSlot(p, d) /\ latest' = [latest EXCEPT ![p] = d]
  BY <1>1 DEF Record
<1>4. PICK b, n, f, b2, n2, f2 :
        /\ b = buf[p] /\ n = next[p] /\ f = full[p]
        /\ b2 = buf'[p] /\ n2 = next'[p] /\ f2 = full'[p]
  OBVIOUS
<1>5. b \in [Slots -> Nat] /\ n \in Slots /\ f \in BOOLEAN
  BY <1>4, Zenon DEF TypeOK
<1>6. b2 = [b EXCEPT ![n] = d] /\ n2 = (n + 1) % Capacity
  BY <1>3, <1>4, SMT DEF WriteSlot, TypeOK
<1>7. f2 \in BOOLEAN /\ f2 = (f \/ n + 1 = Capacity)
  <2>1. full' = [full EXCEPT ![p] = full[p] \/ next[p] + 1 = Capacity]
    BY <1>3 DEF WriteSlot
  <2>2. full'[p] = (full[p] \/ next[p] + 1 = Capacity)
    BY <2>1, Zenon DEF TypeOK
  <2>. QED
    BY <1>4, <1>5, <2>2, Zenon
<1>8. PICK old, new : old = Ring(p) /\ new = Ring(p)'
  OBVIOUS
<1>9. old = BackFrom(b, n, LengthOf(f, n))
  BY <1>4, <1>8, Zenon DEF Ring, LengthOf, BackFrom
<1>10. new = BackFrom(b2, n2, LengthOf(f2, n2))
  BY <1>4, <1>8, Zenon DEF Ring, LengthOf, BackFrom
<1>11. new = Pushed(d, old)
  <2>1. Written(b, n, f, d, b2, n2, f2)
    BY <1>2, <1>5, <1>6, <1>7 DEF Written
  <2>2. BackFrom(b2, n2, LengthOf(f2, n2)) = Pushed(d, BackFrom(b, n, LengthOf(f, n)))
    BY ONLY <2>1, RingGrows
  <2>. QED
    BY ONLY <2>2, <1>9, <1>10, Zenon
<1>12. \A q \in Processes \ {p} : /\ buf'[q] = buf[q] /\ next'[q] = next[q]
                                  /\ full'[q] = full[q]
  <2>1. ASSUME NEW q \in Processes \ {p}
        PROVE  buf'[q] = buf[q] /\ next'[q] = next[q] /\ full'[q] = full[q]
    <3>1. buf' = [buf EXCEPT ![p] = b2] /\ next' = [next EXCEPT ![p] = n2]
          /\ full' = [full EXCEPT ![p] = full[p] \/ next[p] + 1 = Capacity]
      BY <1>3, <1>4, <1>6 DEF WriteSlot
    <3>. QED
      BY <2>1, <3>1, Zenon DEF TypeOK
  <2>. QED
    BY <2>1
<1>13. Rings' = [Rings EXCEPT ![p] = Recent!Newest(<<d>> \o Rings[p])]
  <2>1. Rings[p] = old
    BY <1>8 DEF Rings
  <2>2. new = Recent!Newest(<<d>> \o old)
    BY <1>11 DEF Pushed
  <2>. QED
    BY <1>8, <1>12, <2>1, <2>2, OtherRings
<1>14. Recent!Remember(p, d)
  BY <1>3, <1>13 DEF Recent!Remember, Rings
<1>. QED
  BY <1>2, <1>14

LEMMA RestartForgets ==
  ASSUME TypeOK, NEW p \in Processes, Restart(p)
  PROVE  Recent!Forget(p)
<1>1. next'[p] = 0 /\ full'[p] = FALSE /\ latest' = [latest EXCEPT ![p] = 0]
  BY Zenon DEF Restart, TypeOK
<1>2. Ring(p)' = [i \in 1 .. 0 |-> buf'[p][(0 - i + Capacity) % Capacity]]
  BY <1>1, Zenon DEF Ring
<1>3. Ring(p)' = <<>>
  <2>1. PICK r : r = Ring(p)'
    OBVIOUS
  <2>2. r \in Seq(Nat) /\ Len(r) = 0
    BY <1>2, <2>1, SMT
  <2>. QED
    BY <2>1, <2>2, SMT
<1>4. \A q \in Processes \ {p} : /\ buf'[q] = buf[q] /\ next'[q] = next[q]
                                 /\ full'[q] = full[q]
  BY Zenon DEF Restart, TypeOK
<1>5. Rings' = [Rings EXCEPT ![p] = <<>>]
  BY <1>3, <1>4, OtherRings
<1>. QED
  BY <1>1, <1>5 DEF Recent!Forget, Rings

LEMMA StepRemembers ==
  TypeOK /\ [Next]_hvars => [Recent!NextRecent]_<<Rings, latest>>
<1> SUFFICES ASSUME TypeOK, [Next]_hvars
             PROVE  Recent!NextRecent \/ UNCHANGED <<Rings, latest>>
  OBVIOUS
<1>1. ASSUME NEW p \in Processes, Record(p) PROVE Recent!NextRecent
  BY <1>1, RecordRemembers DEF Recent!NextRecent
<1>2. ASSUME NEW p \in Processes, Restart(p) PROVE Recent!NextRecent
  BY <1>2, RestartForgets DEF Recent!NextRecent
<1>3. ASSUME UNCHANGED <<buf, next, full, latest>>
      PROVE  UNCHANGED <<Rings, latest>>
  BY <1>3 DEF Rings, Ring
<1>4. ASSUME NEW p \in Processes, LPush(p) \/ LTrim(p) \/ PipelineFails(p) \/ Return(p)
      PROVE  UNCHANGED <<buf, next, full, latest>>
  BY <1>4 DEF LPush, LTrim, PipelineFails, Return
<1>5. ASSUME Fail \/ Recover \/ UNCHANGED hvars
      PROVE  UNCHANGED <<buf, next, full, latest>>
  BY <1>5 DEF Fail, Recover, hvars
<1>. QED
  BY <1>1, <1>2, <1>3, <1>4, <1>5 DEF Next

\* The ring implements the list of recent decisions: read backwards from its
\* next slot it is the last Capacity decisions of the process, newest first,
\* for any capacity, however often it has wrapped. (Record, snapshotRing)
THEOREM RingImplementsRecent == Spec => ImplementsRecent
<1>1. Init => Recent!InitRecent
  <2> SUFFICES ASSUME Init PROVE Recent!InitRecent
    OBVIOUS
  <2>1. ASSUME NEW p \in Processes PROVE Ring(p) = <<>>
    <3>1. next[p] = 0 /\ full[p] = FALSE
      BY <2>1, Zenon DEF Init
    <3>2. Ring(p) = [i \in 1 .. 0 |-> buf[p][(0 - i + Capacity) % Capacity]]
      BY <3>1, Zenon DEF Ring
    <3>3. PICK r : r = Ring(p)
      OBVIOUS
    <3>4. r \in Seq(Nat) /\ Len(r) = 0
      BY <3>2, <3>3, SMT
    <3>. QED
      BY <3>3, <3>4, SMT
  <2>2. [p \in Processes |-> Ring(p)] = [p \in Processes |-> <<>>]
    BY <2>1
  <2>. QED
    BY <2>2 DEF Init, Recent!InitRecent
<1>2. TypeOK /\ [Next]_hvars => [Recent!NextRecent]_<<[p \in Processes |-> Ring(p)], latest>>
  BY StepRemembers DEF Rings
<1>. QED
  BY <1>1, <1>2, TypeCorrect, PTL DEF Spec, ImplementsRecent, Recent!SpecRecent

-----------------------------------------------------------------------------
(* The list in Redis                                                       *)

\* What has been pushed since the entry at i, and what of it was recorded earlier.
Before(l, i)  == {l[j] : j \in 1 .. i - 1}
Smaller(l, i) == {e \in Before(l, i) : e < l[i]}

Distinct(l) == \A i, j \in 1 .. Len(l) : l[i] = l[j] => i = j
Counted(l)  == \A i \in 1 .. Len(l) : /\ IsFiniteSet(Before(l, i))
                                      /\ Cardinality(Before(l, i)) = i - 1

\* The list after LPUSH.
PushOf(l, e, s) == e \in Nat /\ s \in Seq(Nat) /\ l = <<e>> \o s

LEMMA PushedList ==
  ASSUME NEW s, NEW e, NEW l, PushOf(l, e, s)
  PROVE  /\ l \in Seq(Nat) /\ Len(l) = Len(s) + 1 /\ l[1] = e /\ Before(l, 1) = {}
         /\ \A i \in 1 .. Len(s) : /\ l[i + 1] = s[i]
                                  /\ Before(l, i + 1) = Before(s, i) \union {e}
<1>0. e \in Nat /\ s \in Seq(Nat) /\ l = <<e>> \o s
  BY DEF PushOf
<1>1. l \in Seq(Nat) /\ Len(l) = Len(s) + 1 /\ Len(s) \in Nat /\ l[1] = e
  BY <1>0, SMT
<1>2. \A i \in 1 .. Len(s) : l[i + 1] = s[i]
  BY <1>0, SMT
<1>3. Before(l, 1) = {}
  BY SMT DEF Before
<1>4. ASSUME NEW i \in 1 .. Len(s) PROVE Before(l, i + 1) = Before(s, i) \union {e}
  <2>1. ASSUME NEW x \in Before(l, i + 1) PROVE x \in Before(s, i) \union {e}
    <3>1. PICK j \in 1 .. i : x = l[j]
      BY <1>1, SMT DEF Before
    <3>2. CASE j = 1
      BY <1>1, <3>1, <3>2
    <3>3. CASE j # 1
      <4>1. PICK k : k = j - 1
        OBVIOUS
      <4>2. k \in 1 .. i - 1 /\ k \in 1 .. Len(s) /\ j = k + 1
        BY <1>1, <3>3, <4>1, SMT
      <4>3. x = s[k]
        BY <1>2, <3>1, <4>2
      <4>. QED
        BY <4>2, <4>3 DEF Before
    <3>. QED
      BY <3>2, <3>3
  <2>2. ASSUME NEW x \in Before(s, i) PROVE x \in Before(l, i + 1)
    <3>1. PICK j \in 1 .. i - 1 : x = s[j]
      BY SMT DEF Before
    <3>2. PICK k : k = j + 1
      OBVIOUS
    <3>3. k \in 1 .. (i + 1) - 1 /\ j \in 1 .. Len(s)
      BY <1>1, <3>2, SMT
    <3>4. x = l[k]
      BY <1>2, <3>1, <3>2, <3>3
    <3>. QED
      BY <3>3, <3>4 DEF Before
  <2>3. e \in Before(l, i + 1)
    <3>1. 1 \in 1 .. (i + 1) - 1
      BY <1>1, SMT
    <3>. QED
      BY <1>1, <3>1 DEF Before
  <2>. QED
    BY <2>1, <2>2, <2>3
<1>. QED
  BY <1>1, <1>2, <1>3, <1>4

\* The list after LTRIM.
LEMMA TrimmedList ==
  ASSUME NEW s \in Seq(Nat), NEW l, l = Newest(s)
  PROVE  /\ l \in Seq(Nat) /\ Len(l) = IF Len(s) < Capacity THEN Len(s) ELSE Capacity
         /\ \A i \in 1 .. Len(l) : /\ i \in 1 .. Len(s) /\ l[i] = s[i]
                                  /\ Before(l, i) = Before(s, i)
<1>1. PICK m : m = IF Len(s) < Capacity THEN Len(s) ELSE Capacity
  OBVIOUS
<1>2. m \in Nat /\ m <= Len(s) /\ Len(s) \in Nat
  BY <1>1, HistoryAssumption, SMT
<1>3. l = SubSeq(s, 1, m)
  BY <1>1 DEF Newest
<1>4. l \in Seq(Nat) /\ Len(l) = m /\ \A i \in 1 .. m : l[i] = s[i]
  BY <1>2, <1>3, SMT
<1>5. ASSUME NEW i \in 1 .. Len(l) PROVE i \in 1 .. Len(s) /\ Before(l, i) = Before(s, i)
  <2>1. i \in 1 .. Len(s) /\ \A j \in 1 .. i - 1 : j \in 1 .. m
    BY <1>2, <1>4, SMT
  <2>2. \A j \in 1 .. i - 1 : l[j] = s[j]
    BY <1>4, <2>1
  <2>. QED
    BY <2>1, <2>2 DEF Before
<1>. QED
  BY <1>1, <1>4, <1>5

\* Processes about to push what was recorded before d.
Late(d) == {p \in Processes : pc[p] = "push" /\ latest[p] < d}

\* What is about to be pushed is in one hand only and not in the list.
Fresh ==
    \A p \in Processes : pc[p] = "push" =>
       /\ \A i \in 1 .. Len(list) : list[i] # latest[p]
       /\ \A q \in Processes : pc[q] = "push" /\ latest[q] = latest[p] => q = p

\* A decision is overtaken by an earlier one of each other process at most.
FewSmaller ==
    \A i \in 1 .. Len(list) :
       Cardinality(Smaller(list, i)) + Cardinality(Late(list[i])) <= Cardinality(Processes) - 1

Mirror == Distinct(list) /\ Counted(list) /\ Fresh /\ FewSmaller

LEMMA CountProcesses ==
  /\ Cardinality(Processes) \in Nat
  /\ \A S \in SUBSET Processes :
        /\ IsFiniteSet(S) /\ Cardinality(S) \in Nat
        /\ \A T \in SUBSET S : /\ Cardinality(T) \in Nat /\ Cardinality(T) <= Cardinality(S)
                                /\ \A r \in S \ T : Cardinality(T) + 1 <= Cardinality(S)
<1>1. IsFiniteSet(Processes) /\ Cardinality(Processes) \in Nat
  BY HistoryAssumption, FS_CardinalityType
<1>2. ASSUME NEW S \in SUBSET Processes
      PROVE  IsFiniteSet(S) /\ Cardinality(S) \in Nat
  BY <1>1, FS_Subset, FS_CardinalityType
<1>3. ASSUME NEW S \in SUBSET Processes, NEW T \in SUBSET S
      PROVE  Cardinality(T) \in Nat /\ Cardinality(T) <= Cardinality(S)
  <2>1. IsFiniteSet(S) /\ T \in SUBSET Processes
    BY <1>2
  <2>. QED
    BY <1>2, <2>1, FS_Subset
<1>4. ASSUME NEW S \in SUBSET Processes, NEW T \in SUBSET S, NEW r \in S \ T
      PROVE  Cardinality(T) + 1 <= Cardinality(S)
  <2>1. IsFiniteSet(S) /\ Cardinality(S) \in Nat
    BY <1>2
  <2>2. Cardinality(S \ {r}) = Cardinality(S) - 1
    BY <2>1, FS_RemoveElement
  <2>3. S \ {r} \in SUBSET Processes /\ T \in SUBSET (S \ {r})
    BY <1>4
  <2>4. Cardinality(T) \in Nat /\ Cardinality(T) <= Cardinality(S \ {r})
    BY <2>3, <1>3
  <2>. QED
    BY <2>1, <2>2, <2>4, SMT
<1>. QED
  BY <1>1, <1>2, <1>3, <1>4

\* So no entry is further back than the decisions since and the other
\* processes can have pushed it.
LEMMA PositionBound ==
  ASSUME HistoryInv, Mirror, NEW i \in 1 .. Len(list)
  PROVE  i <= count - list[i] + Cardinality(Processes)
<1>1. list \in Seq(1 .. count) /\ count \in Nat /\ Len(list) \in Nat
  BY DEF HistoryInv, TypeOK
<1>2. PICK d, B, S, G : /\ d = list[i] /\ B = Before(list, i)
                        /\ S = Smaller(list, i) /\ G = B \ S
  OBVIOUS
<1>3. IsFiniteSet(B) /\ Cardinality(B) = i - 1 /\ S \in SUBSET B /\ G \in SUBSET B
  BY <1>2 DEF Mirror, Counted, Smaller
<1>4. d \in 1 .. count /\ i \in Nat
  BY <1>1, <1>2, SMT
<1>5. G \in SUBSET (d + 1 .. count)
  <2>1. ASSUME NEW e \in G PROVE e \in d + 1 .. count
    <3>1. PICK j \in 1 .. i - 1 : e = list[j]
      BY <1>2, SMT DEF Before
    <3>2. j \in 1 .. Len(list) /\ j # i
      BY <1>1, <3>1, SMT
    <3>3. e # d /\ ~(e < d)
      <4>1. list[j] # list[i]
        BY <3>2 DEF Mirror, Distinct
      <4>. QED
        BY <1>2, <3>1, <4>1 DEF Smaller
    <3>4. e \in 1 .. count
      BY <1>1, <3>1, <3>2, SMT
    <3>. QED
      BY <1>4, <3>3, <3>4, SMT
  <2>. QED
    BY <2>1
<1>6. Cardinality(G) \in Nat /\ Cardinality(G) <= count - d
  <2>1. d + 1 \in Int /\ count \in Int
    BY <1>1, <1>4, SMT
  <2>2. /\ IsFiniteSet(d + 1 .. count)
        /\ Cardinality(d + 1 .. count) = IF d + 1 > count THEN 0 ELSE count - (d + 1) + 1
    BY <2>1, FS_Interval
  <2>3. IsFiniteSet(G) /\ Cardinality(G) <= Cardinality(d + 1 .. count)
    BY <1>5, <2>2, FS_Subset
  <2>4. Cardinality(G) \in Nat
    BY <2>3, FS_CardinalityType
  <2>. QED
    BY <1>1, <1>4, <2>2, <2>3, <2>4, SMT
<1>7. Cardinality(S) \in Nat /\ Cardinality(S) <= Cardinality(Processes) - 1
  <2>1. Late(d) \in SUBSET Processes
    BY DEF Late
  <2>2. Cardinality(Late(d)) \in Nat /\ Cardinality(Processes) \in Nat
    BY <2>1, CountProcesses
  <2>3. Cardinality(S) + Cardinality(Late(d)) <= Cardinality(Processes) - 1
    BY <1>2 DEF Mirror, FewSmaller
  <2>4. Cardinality(S) \in Nat
    BY <1>3, FS_Subset, FS_CardinalityType
  <2>. QED
    BY <2>2, <2>3, <2>4, SMT
<1>8. i - 1 <= Cardinality(S) + Cardinality(G)
  <2>1. IsFiniteSet(S) /\ IsFiniteSet(G)
    BY <1>3, FS_Subset
  <2>2. S \cap G = {} /\ S \cup G = B
    BY <1>2, <1>3
  <2>3. Cardinality(B) = Cardinality(S) + Cardinality(G) - Cardinality({})
    BY <2>1, <2>2, FS_Union
  <2>. QED
    BY <1>3, <1>6, <1>7, <2>3, FS_EmptySet, SMT
<1>. QED
  <2>1. Cardinality(Processes) \in Nat
    BY CountProcesses
  <2>2. PICK n, x, y : /\ n = Cardinality(Processes) /\ x = Cardinality(S)
                       /\ y = Cardinality(G)
    OBVIOUS
  <2>3. /\ n \in Nat /\ x \in Nat /\ y \in Nat /\ x <= n - 1 /\ y <= count - d
        /\ i - 1 <= x + y /\ i \in Nat /\ d \in Nat /\ count \in Nat
    BY <1>1, <1>4, <1>6, <1>7, <1>8, <2>1, <2>2
  <2>4. i <= count - d + n
    BY ONLY <2>3, SMT
  <2>. QED
    BY <1>2, <2>2, <2>4

\* A process that goes on to push had that decision in hand, or has just recorded it.
StillPushing(r) ==
    \A p \in Processes : pc'[p] = "push" =>
       \/ pc[p] = "push" /\ latest'[p] = latest[p]
       \/ p = r /\ latest'[p] = count + 1

LEMMA FewerLate ==
  ASSUME HistoryInv, NEW r \in Processes, StillPushing(r), NEW d \in 1 .. count
  PROVE  /\ Late(d)' \subseteq Late(d)
         /\ Cardinality(Late(d)') \in Nat /\ Cardinality(Late(d)) \in Nat
         /\ Cardinality(Late(d)') <= Cardinality(Late(d))
<1>1. count \in Nat /\ \A p \in Processes : latest[p] \in Nat
  BY DEF HistoryInv, TypeOK
<1>2. Late(d)' \subseteq Late(d)
  BY <1>1, SMT DEF Late, StillPushing
<1>3. Late(d) \in SUBSET Processes /\ Late(d)' \in SUBSET Late(d)
  BY <1>2 DEF Late
<1>. QED
  BY <1>2, <1>3, CountProcesses

LEMMA SameListMirror ==
  ASSUME HistoryInv, Mirror, list' = list, NEW r \in Processes, StillPushing(r)
  PROVE  Mirror'
<1>1. list \in Seq(1 .. count) /\ count \in Nat /\ \A i \in 1 .. Len(list) : list[i] \in 1 .. count
  BY SMT DEF HistoryInv, TypeOK
<1>2. Distinct(list)' /\ Counted(list)'
  <2>1. Distinct(list)'
    BY DEF Mirror, Distinct
  <2>2. Counted(list)'
    <3>1. \A i \in 1 .. Len(list) : /\ IsFiniteSet(Before(list, i))
                                   /\ Cardinality(Before(list, i)) = i - 1
      BY DEF Mirror, Counted
    <3>2. \A i : Before(list, i)' = Before(list, i)
      BY DEF Before
    <3>. QED
      BY <3>1, <3>2, Zenon DEF Counted
  <2>. QED
    BY <2>1, <2>2
<1>3. Fresh'
  <2> SUFFICES ASSUME NEW p \in Processes, pc'[p] = "push"
               PROVE  /\ \A i \in 1 .. Len(list) : list[i] # latest'[p]
                      /\ \A q \in Processes :
                            pc'[q] = "push" /\ latest'[q] = latest'[p] => q = p
    BY DEF Fresh
  <2>1. \A q \in Processes : pc[q] = "push" => latest[q] \in 1 .. count
    BY DEF HistoryInv, InHand
  <2>2. CASE pc[p] = "push" /\ latest'[p] = latest[p]
    <3>1. latest'[p] # count + 1
      BY <1>1, <2>1, <2>2, SMT
    <3>. QED
      BY <2>2, <3>1 DEF Mirror, Fresh, StillPushing
  <2>3. CASE p = r /\ latest'[p] = count + 1
    <3>1. \A i \in 1 .. Len(list) : list[i] # count + 1
      BY <1>1, SMT
    <3>2. \A q \in Processes : pc[q] = "push" => latest[q] # count + 1
      BY <1>1, <2>1, SMT
    <3>. QED
      BY <2>3, <3>1, <3>2 DEF StillPushing
  <2>. QED
    BY <2>2, <2>3 DEF StillPushing
<1>4. FewSmaller'
  <2> SUFFICES ASSUME NEW i \in 1 .. Len(list)
               PROVE  Cardinality(Smaller(list, i)) + Cardinality(Late(list[i])')
                        <= Cardinality(Processes) - 1
    BY DEF FewSmaller, Smaller, Before, Late
  <2>1. PICK d : d = list[i]
    OBVIOUS
  <2>2. d \in 1 .. count
    BY <1>1, <2>1
  <2>3. /\ Cardinality(Late(d)') \in Nat /\ Cardinality(Late(d)) \in Nat
        /\ Cardinality(Late(d)') <= Cardinality(Late(d))
    BY <2>2, FewerLate
  <2>4. Cardinality(Smaller(list, i)) + Cardinality(Late(d)) <= Cardinality(Processes) - 1
    BY <2>1 DEF Mirror, FewSmaller
  <2>5. Cardinality(Smaller(list, i)) \in Nat /\ Cardinality(Processes) \in Nat
    <3>1. IsFiniteSet(Before(list, i)) /\ Smaller(list, i) \in SUBSET Before(list, i)
      BY DEF Mirror, Counted, Smaller
    <3>. QED
      BY <3>1, FS_Subset, FS_CardinalityType, CountProcesses
  <2>6. Late(list[i])' = Late(d)'
    BY <2>1 DEF Late
  <2>. QED
    BY <2>3, <2>4, <2>5, <2>6, SMT
<1>. QED
  BY <1>2, <1>3, <1>4 DEF Mirror

LEMMA PushMirror ==
  ASSUME HistoryInv, Mirror, NEW p \in Processes, LPush(p)
  PROVE  Mirror'
<1>1. PICK s, l, e : s = list /\ l = list' /\ e = latest[p]
  OBVIOUS
<1>2. /\ pc[p] = "push" /\ pc' = [pc EXCEPT ![p] = "trim"] /\ l = <<e>> \o s
      /\ latest' = latest /\ count' = count
  BY <1>1 DEF LPush
<1>3. e \in 1 .. count /\ s \in Seq(1 .. count) /\ count \in Nat
  BY <1>1, <1>2 DEF HistoryInv, TypeOK, InHand
<1>4. e \in Nat /\ s \in Seq(Nat) /\ Len(s) \in Nat /\ \A i \in 1 .. Len(s) : s[i] \in 1 .. count
  BY <1>3, SMT
<1>5. /\ l \in Seq(Nat) /\ Len(l) = Len(s) + 1 /\ l[1] = e /\ Before(l, 1) = {}
      /\ \A i \in 1 .. Len(s) : /\ l[i + 1] = s[i]
                               /\ Before(l, i + 1) = Before(s, i) \union {e}
  <2>1. PushOf(l, e, s)
    BY <1>2, <1>4 DEF PushOf
  <2>. QED
    BY ONLY <2>1, PushedList
<1>6. \A i \in 1 .. Len(l) : i = 1 \/ \E k \in 1 .. Len(s) : i = k + 1
  <2>1. ASSUME NEW i \in 1 .. Len(l), i # 1 PROVE i - 1 \in 1 .. Len(s) /\ i = (i - 1) + 1
    BY <1>4, <1>5, <2>1, SMT
  <2>. QED
    BY <2>1
<1>7. \A i \in 1 .. Len(s) : s[i] # e
  BY <1>1, <1>2 DEF Mirror, Fresh
<1>8. Distinct(s) /\ Counted(s)
  BY <1>1 DEF Mirror
<1>9. Distinct(l)
  <2> SUFFICES ASSUME NEW i \in 1 .. Len(l), NEW j \in 1 .. Len(l), l[i] = l[j]
               PROVE  i = j
    BY DEF Distinct
  <2>1. CASE i = 1 \/ j = 1
    <3>1. \A k \in 1 .. Len(s) : l[k + 1] # l[1]
      BY <1>5, <1>7
    <3>. QED
      BY ONLY <1>6, <2>1, <3>1, l[i] = l[j], i \in 1 .. Len(l), j \in 1 .. Len(l), Zenon
  <2>2. ASSUME NEW m \in 1 .. Len(s), NEW k \in 1 .. Len(s), i = m + 1, j = k + 1
        PROVE  i = j
    BY <1>5, <1>8, <2>2 DEF Distinct
  <2>. QED
    BY <1>6, <2>1, <2>2
<1>10. Counted(l)
  <2> SUFFICES ASSUME NEW i \in 1 .. Len(l)
               PROVE  IsFiniteSet(Before(l, i)) /\ Cardinality(Before(l, i)) = i - 1
    BY DEF Counted
  <2>1. CASE i = 1
    <3>1. Before(l, i) = {}
      BY <1>5, <2>1
    <3>2. IsFiniteSet(Before(l, i)) /\ Cardinality(Before(l, i)) = 0
      BY ONLY <3>1, FS_EmptySet
    <3>. QED
      BY <2>1, <3>2
  <2>2. ASSUME NEW k \in 1 .. Len(s), i = k + 1
        PROVE  IsFiniteSet(Before(l, i)) /\ Cardinality(Before(l, i)) = i - 1
    <3>1. IsFiniteSet(Before(s, k)) /\ Cardinality(Before(s, k)) = k - 1
      BY <1>8 DEF Counted
    <3>2. e \notin Before(s, k)
      <4>1. \A j \in 1 .. k - 1 : j \in 1 .. Len(s)
        BY <1>4, SMT
      <4>. QED
        BY <1>7, <4>1 DEF Before
    <3>3. Before(l, i) = Before(s, k) \union {e}
      BY <1>5, <2>2
    <3>4. IsFiniteSet(Before(l, i)) /\ Cardinality(Before(l, i)) = (k - 1) + 1
      BY <3>1, <3>2, <3>3, FS_AddElement
    <3>. QED
      BY <2>2, <3>4, SMT
  <2>. QED
    BY <1>6, <2>1, <2>2
<1>11. \A q \in Processes : pc'[q] = "push" => q # p /\ pc[q] = "push"
  BY <1>2, SMT DEF HistoryInv, TypeOK
<1>12. \A q \in Processes : pc[q] = "push" /\ q # p => latest[q] # e
  BY <1>1, <1>2 DEF Mirror, Fresh
<1>13. Fresh'
  <2> SUFFICES ASSUME NEW q \in Processes, pc'[q] = "push"
               PROVE  /\ \A i \in 1 .. Len(l) : l[i] # latest[q]
                      /\ \A r \in Processes :
                            pc'[r] = "push" /\ latest[r] = latest[q] => r = q
    BY <1>1, <1>2 DEF Fresh
  <2>1. \A i \in 1 .. Len(s) : s[i] # latest[q]
    BY <1>1, <1>11 DEF Mirror, Fresh
  <2>2. \A i \in 1 .. Len(l) : l[i] # latest[q]
    BY <1>5, <1>6, <1>11, <1>12, <2>1
  <2>3. \A r \in Processes : pc'[r] = "push" /\ latest[r] = latest[q] => r = q
    BY <1>11 DEF Mirror, Fresh
  <2>. QED
    BY <2>2, <2>3
<1>14. StillPushing(p)
  BY <1>2, <1>11 DEF StillPushing
<1>15. FewSmaller'
  <2> SUFFICES ASSUME NEW i \in 1 .. Len(l)
               PROVE  Cardinality(Smaller(l, i)) + Cardinality(Late(l[i])')
                        <= Cardinality(Processes) - 1
    <3>1. \A i \in 1 .. Len(l) : Late(l[i])' = Late(list[i])'
      BY <1>1 DEF Late
    <3>. QED
      BY <1>1, <3>1 DEF FewSmaller
  <2>0. Cardinality(Processes) \in Nat
    BY CountProcesses
  <2>1. CASE i = 1
    <3>1. Smaller(l, i) = {}
      BY <1>5, <2>1 DEF Smaller
    <3>2. Late(e)' \in SUBSET Processes /\ p \in Processes \ Late(e)'
      BY <1>11 DEF Late
    <3>3. Cardinality(Late(e)') \in Nat /\ Cardinality(Late(e)') + 1 <= Cardinality(Processes)
      BY <3>2, CountProcesses
    <3>4. Late(l[i])' = Late(e)'
      BY <1>5, <2>1 DEF Late
    <3>. QED
      BY <2>0, <3>1, <3>3, <3>4, FS_EmptySet, SMT
  <2>2. ASSUME NEW k \in 1 .. Len(s), i = k + 1
        PROVE  Cardinality(Smaller(l, i)) + Cardinality(Late(l[i])')
                 <= Cardinality(Processes) - 1
    <3>1. PICK d : d = s[k]
      OBVIOUS
    <3>2. d \in 1 .. count /\ l[i] = d /\ Before(l, i) = Before(s, k) \union {e}
      BY <1>4, <1>5, <2>2, <3>1
    <3>3. Cardinality(Smaller(s, k)) + Cardinality(Late(d)) <= Cardinality(Processes) - 1
      BY <1>1, <3>1 DEF Mirror, FewSmaller
    <3>4. IsFiniteSet(Smaller(s, k)) /\ Cardinality(Smaller(s, k)) \in Nat
      <4>1. IsFiniteSet(Before(s, k)) /\ Smaller(s, k) \in SUBSET Before(s, k)
        BY <1>8 DEF Counted, Smaller
      <4>. QED
        BY <4>1, FS_Subset, FS_CardinalityType
    <3>5. /\ Late(d)' \subseteq Late(d)
          /\ Cardinality(Late(d)') \in Nat /\ Cardinality(Late(d)) \in Nat
          /\ Cardinality(Late(d)') <= Cardinality(Late(d))
      BY <1>14, <3>2, FewerLate
    <3>6. Late(l[i])' = Late(d)'
      BY <3>2 DEF Late
    <3>7. CASE e < d
      <4>1. Smaller(l, i) = Smaller(s, k) \union {e}
        BY <3>1, <3>2, <3>7 DEF Smaller
      <4>2. Cardinality(Smaller(l, i)) <= Cardinality(Smaller(s, k)) + 1
            /\ Cardinality(Smaller(l, i)) \in Nat
        <5>1. IsFiniteSet(Smaller(s, k))
          BY <3>4
        <5>2. Cardinality(Smaller(l, i)) = IF e \in Smaller(s, k) THEN Cardinality(Smaller(s, k))
                                                                 ELSE Cardinality(Smaller(s, k)) + 1
          BY ONLY <4>1, <5>1, FS_AddElement, Zenon
        <5>. QED
          BY <3>4, <5>2, SMT
      <4>3. p \in Late(d) \ Late(d)' /\ Late(d) \in SUBSET Processes
        BY <1>1, <1>2, <1>11, <3>7 DEF Late
      <4>4. Cardinality(Late(d)') + 1 <= Cardinality(Late(d))
        BY <3>5, <4>3, CountProcesses
      <4>. QED
        BY <2>0, <3>3, <3>4, <3>5, <3>6, <4>2, <4>4, SMT
    <3>8. CASE ~(e < d)
      <4>1. Smaller(l, i) = Smaller(s, k)
        BY <3>1, <3>2, <3>8 DEF Smaller
      <4>. QED
        BY <2>0, <3>3, <3>4, <3>5, <3>6, <4>1, SMT
    <3>. QED
      BY <3>7, <3>8
  <2>. QED
    BY <1>6, <2>1, <2>2
<1>. QED
  <2>1. Distinct(list)' /\ Counted(list)'
    BY <1>1, <1>9, <1>10
  <2>. QED
    BY <1>13, <1>15, <2>1 DEF Mirror

LEMMA TrimMirror ==
  ASSUME HistoryInv, Mirror, NEW p \in Processes, LTrim(p)
  PROVE  Mirror'
<1>1. PICK s, l : s = list /\ l = list'
  OBVIOUS
<1>2. /\ pc[p] = "trim" /\ pc' = [pc EXCEPT ![p] = "return"] /\ l = Newest(s)
      /\ latest' = latest /\ count' = count
  BY <1>1 DEF LTrim
<1>3. s \in Seq(Nat) /\ \A i \in 1 .. Len(s) : s[i] \in 1 .. count
  <2>1. s \in Seq(1 .. count) /\ count \in Nat
    BY <1>1 DEF HistoryInv, TypeOK
  <2>. QED
    BY <2>1, SMT
<1>4. \A i \in 1 .. Len(l) : i \in 1 .. Len(s) /\ l[i] = s[i] /\ Before(l, i) = Before(s, i)
  BY <1>2, <1>3, TrimmedList
<1>5. \A q \in Processes : pc'[q] = "push" => pc[q] = "push"
  BY <1>2, SMT DEF HistoryInv, TypeOK
<1>6. StillPushing(p)
  BY <1>2, <1>5 DEF StillPushing
<1>7. Distinct(s) /\ Counted(s)
  BY <1>1 DEF Mirror
<1>8. Distinct(l)
  BY <1>4, <1>7 DEF Distinct
<1>9. Counted(l)
  BY <1>4, <1>7, Zenon DEF Counted
<1>10. Fresh'
  <2> SUFFICES ASSUME NEW q \in Processes, pc'[q] = "push"
               PROVE  /\ \A i \in 1 .. Len(l) : l[i] # latest[q]
                      /\ \A r \in Processes :
                            pc'[r] = "push" /\ latest[r] = latest[q] => r = q
    BY <1>1, <1>2 DEF Fresh
  <2>1. \A i \in 1 .. Len(s) : s[i] # latest[q]
    BY <1>1, <1>5 DEF Mirror, Fresh
  <2>2. \A i \in 1 .. Len(l) : l[i] # latest[q]
    BY <1>4, <2>1
  <2>3. \A r \in Processes : pc'[r] = "push" /\ latest[r] = latest[q] => r = q
    BY <1>5 DEF Mirror, Fresh
  <2>. QED
    BY <2>2, <2>3
<1>11. FewSmaller'
  <2> SUFFICES ASSUME NEW i \in 1 .. Len(l)
               PROVE  Cardinality(Smaller(l, i)) + Cardinality(Late(l[i])')
                        <= Cardinality(Processes) - 1
    <3>1. \A i \in 1 .. Len(l) : Late(l[i])' = Late(list[i])'
      BY <1>1 DEF Late
    <3>. QED
      BY <1>1, <3>1 DEF FewSmaller
  <2>1. PICK d : d = s[i]
    OBVIOUS
  <2>2. i \in 1 .. Len(s) /\ d \in 1 .. count /\ Smaller(l, i) = Smaller(s, i)
    BY <1>3, <1>4, <2>1 DEF Smaller
  <2>3. Cardinality(Smaller(s, i)) + Cardinality(Late(d)) <= Cardinality(Processes) - 1
    BY <1>1, <2>1, <2>2 DEF Mirror, FewSmaller
  <2>4. Cardinality(Smaller(s, i)) \in Nat /\ Cardinality(Processes) \in Nat
    <3>1. IsFiniteSet(Before(s, i)) /\ Smaller(s, i) \in SUBSET Before(s, i)
      BY <1>7, <2>2 DEF Counted, Smaller
    <3>. QED
      BY <3>1, FS_Subset, FS_CardinalityType, CountProcesses
  <2>5. /\ Cardinality(Late(d)') \in Nat /\ Cardinality(Late(d)) \in Nat
        /\ Cardinality(Late(d)') <= Cardinality(Late(d))
    BY <1>6, <2>2, FewerLate
  <2>6. Late(l[i])' = Late(d)'
    BY <1>4, <2>1 DEF Late
  <2>. QED
    BY <2>2, <2>3, <2>4, <2>5, <2>6, SMT
<1>. QED
  <2>1. Distinct(list)' /\ Counted(list)'
    BY <1>1, <1>8, <1>9
  <2>. QED
    BY <1>10, <1>11, <2>1 DEF Mirror

\* In the list, or pushed out of it rightly.
Old(d)    == d <= count - Capacity + (Cardinality(Processes) - 1)
InList(d) == \E i \in 1 .. Len(list) : list[i] = d
Kept(d)   == InList(d) \/ Old(d)

KeptInv ==
    /\ \A d \in returned \ lost : Kept(d)
    /\ \A p \in Processes :
          pc[p] \in {"trim", "return"} /\ latest[p] \notin lost => Kept(latest[p])

\* What is kept stays kept.
LEMMA StaysKept ==
  ASSUME HistoryInv, HistoryInv', Mirror, [Next]_hvars, NEW d \in 1 .. count, Kept(d)
  PROVE  Kept(d)'
<1>0. /\ count \in Nat /\ Capacity \in Nat \ {0} /\ Cardinality(Processes) \in Nat
      /\ list \in Seq(1 .. count) /\ list \in Seq(Nat) /\ Len(list) \in Nat /\ d \in Nat
  <2>1. list \in Seq(1 .. count) /\ count \in Nat
    BY DEF HistoryInv, TypeOK
  <2>. QED
    BY <2>1, HistoryAssumption, CountProcesses, SMT
<1>1. count' = count \/ count' = count + 1
  BY Zenon DEF Next, hvars, Fail, Recover, Restart, Record, LPush, LTrim, PipelineFails, Return
<1>2. CASE Old(d)
  BY <1>0, <1>1, <1>2, SMT DEF Old, Kept
<1>3. CASE InList(d) /\ list' = list
  BY <1>3 DEF InList, Kept
<1>4. ASSUME InList(d), NEW p \in Processes, LPush(p) PROVE Kept(d)'
  <2>1. PICK i \in 1 .. Len(list) : list[i] = d
    BY <1>4 DEF InList
  <2>2. list' = <<latest[p]>> \o list
    BY <1>4 DEF LPush
  <2>3. latest[p] \in Nat
    BY DEF HistoryInv, TypeOK
  <2>4. i + 1 \in 1 .. Len(list') /\ list'[i + 1] = d
    BY <1>0, <2>1, <2>2, <2>3, SMT
  <2>. QED
    BY <2>4 DEF InList, Kept
<1>5. ASSUME InList(d), NEW p \in Processes, LTrim(p) PROVE Kept(d)'
  <2>1. PICK i \in 1 .. Len(list) : list[i] = d
    BY <1>5 DEF InList
  <2>2. PICK l : l = list'
    OBVIOUS
  <2>3. l = Newest(list) /\ count' = count
    BY <1>5, <2>2 DEF LTrim
  <2>4. /\ Len(l) = IF Len(list) < Capacity THEN Len(list) ELSE Capacity
        /\ \A k \in 1 .. Len(l) : l[k] = list[k]
    BY <1>0, <2>3, TrimmedList
  <2>5. CASE i <= Len(l)
    <3>1. i \in 1 .. Len(l)
      BY <1>0, <2>4, <2>5, SMT
    <3>. QED
      BY <2>1, <2>2, <2>4, <3>1 DEF InList, Kept
  <2>6. CASE ~(i <= Len(l))
    <3>1. Capacity < i
      BY <1>0, <2>4, <2>6, SMT
    <3>2. i <= count - d + Cardinality(Processes)
      BY <2>1, PositionBound
    <3>3. d <= count - Capacity + (Cardinality(Processes) - 1)
      BY <1>0, <3>1, <3>2, SMT
    <3>. QED
      BY <2>3, <3>3 DEF Old, Kept
  <2>. QED
    BY <2>5, <2>6
<1>6. list' = list \/ \E p \in Processes : LPush(p) \/ LTrim(p)
  BY Zenon DEF Next, hvars, Fail, Recover, Restart, Record, PipelineFails, Return
<1>. QED
  BY <1>2, <1>3, <1>4, <1>5, <1>6 DEF Kept

LEMMA NextKept ==
  ASSUME HistoryInv, HistoryInv', Mirror, KeptInv, [Next]_hvars
  PROVE  KeptInv'
<1>0. \A p \in Processes : pc[p] # "idle" => latest[p] \in 1 .. count
  BY DEF HistoryInv, InHand
<1>1. \A d \in 1 .. count : Kept(d) => Kept(d)'
  BY StaysKept
<1>2. \A d \in returned : d \in 1 .. count
  BY DEF HistoryInv, TypeOK
<1>3. \A d \in returned \ lost : Kept(d)'
  BY <1>1, <1>2 DEF KeptInv
<1>4. \A q \in Processes :
         pc[q] \in {"trim", "return"} /\ latest[q] \notin lost
           => \A d : d = latest[q] => Kept(d)'
  BY <1>0, <1>1 DEF KeptInv
<1>5. ASSUME returned' = returned, lost \subseteq lost',
             \A q \in Processes :
                pc'[q] \in {"trim", "return"} /\ latest'[q] \notin lost' =>
                   pc[q] \in {"trim", "return"} /\ latest'[q] = latest[q]
      PROVE  KeptInv'
  <2>1. \A d \in returned' \ lost' : Kept(d)'
    BY <1>3, <1>5
  <2>2. ASSUME NEW q \in Processes, pc'[q] \in {"trim", "return"}, latest'[q] \notin lost'
        PROVE  Kept(latest[q])'
    <3>1. PICK d : d = latest[q]
      OBVIOUS
    <3>2. Kept(d)' /\ latest'[q] = d
      BY <1>4, <1>5, <2>2, <3>1
    <3>. QED
      BY <3>2 DEF Kept, InList, Old
  <2>. QED
    BY <2>1, <2>2 DEF KeptInv
<1>6. CASE Fail \/ Recover \/ UNCHANGED hvars
  <2>1. UNCHANGED <<returned, lost, pc, latest>>
    BY <1>6 DEF Fail, Recover, hvars
  <2>. QED
    BY <1>5, <2>1
<1>7. ASSUME NEW p \in Processes, Restart(p) PROVE KeptInv'
  <2>1. /\ UNCHANGED <<returned, lost>> /\ pc' = [pc EXCEPT ![p] = "idle"]
        /\ latest' = [latest EXCEPT ![p] = 0]
    BY <1>7 DEF Restart
  <2>2. \A q \in Processes : pc'[q] \in {"trim", "return"} =>
           pc[q] \in {"trim", "return"} /\ latest'[q] = latest[q]
    BY <2>1, SMT DEF HistoryInv, TypeOK
  <2>. QED
    BY <1>5, <2>1, <2>2
<1>8. ASSUME NEW p \in Processes, Record(p) PROVE KeptInv'
  <2>1. /\ returned' = returned /\ lost \subseteq lost'
        /\ pc' = [pc EXCEPT ![p] = IF p \in attached THEN "push" ELSE "return"]
        /\ latest' = [latest EXCEPT ![p] = count + 1]
        /\ p \notin attached => count + 1 \in lost'
    BY <1>8 DEF Record
  <2>2. \A q \in Processes \ {p} : pc'[q] = pc[q] /\ latest'[q] = latest[q]
    BY <2>1, SMT DEF HistoryInv, TypeOK
  <2>3. latest'[p] = count + 1 /\ (p \in attached => pc'[p] = "push")
    BY <2>1, SMT DEF HistoryInv, TypeOK
  <2>. QED
    BY <1>5, <2>1, <2>2, <2>3
<1>9. ASSUME NEW p \in Processes, LPush(p) PROVE KeptInv'
  <2>1. /\ UNCHANGED <<returned, lost, latest>> /\ pc' = [pc EXCEPT ![p] = "trim"]
        /\ list' = <<latest[p]>> \o list
    BY <1>9 DEF LPush
  <2>2. \A q \in Processes \ {p} : pc'[q] = pc[q]
    BY <2>1, SMT DEF HistoryInv, TypeOK
  <2>3. PICK d : d = latest[p]
    OBVIOUS
  <2>4. Kept(d)'
    <3>1. list \in Seq(1 .. count) /\ d \in Nat
      BY <2>3 DEF HistoryInv, TypeOK
    <3>2. 1 \in 1 .. Len(list') /\ list'[1] = d
      BY <2>1, <2>3, <3>1, SMT
    <3>. QED
      BY <3>2 DEF Kept, InList
  <2>5. \A c \in returned' \ lost' : Kept(c)'
    BY <1>3, <2>1
  <2>6. ASSUME NEW q \in Processes, pc'[q] \in {"trim", "return"}, latest'[q] \notin lost'
        PROVE  Kept(latest[q])'
    <3>1. PICK c : c = latest[q]
      OBVIOUS
    <3>2. Kept(c)' /\ latest'[q] = c
      BY <1>4, <2>1, <2>2, <2>3, <2>4, <2>6, <3>1
    <3>. QED
      BY <3>2 DEF Kept, InList, Old
  <2>. QED
    BY <2>5, <2>6 DEF KeptInv
<1>10. ASSUME NEW p \in Processes, LTrim(p) PROVE KeptInv'
  <2>1. /\ UNCHANGED <<returned, lost, latest>> /\ pc[p] = "trim"
        /\ pc' = [pc EXCEPT ![p] = "return"]
    BY <1>10 DEF LTrim
  <2>2. \A q \in Processes : pc'[q] \in {"trim", "return"} => pc[q] \in {"trim", "return"}
    BY <2>1, SMT DEF HistoryInv, TypeOK
  <2>. QED
    BY <1>5, <2>1, <2>2
<1>11. ASSUME NEW p \in Processes, PipelineFails(p) PROVE KeptInv'
  <2>1. /\ UNCHANGED <<returned, latest>> /\ pc[p] \in {"push", "trim"}
        /\ pc' = [pc EXCEPT ![p] = "return"]
        /\ lost' = IF pc[p] = "push" THEN lost \union {latest[p]} ELSE lost
    BY <1>11 DEF PipelineFails
  <2>2. \A q \in Processes \ {p} : pc'[q] = pc[q]
    BY <2>1, SMT DEF HistoryInv, TypeOK
  <2>3. lost \subseteq lost' /\ (latest[p] \notin lost' => pc[p] = "trim")
    BY <2>1
  <2>. QED
    BY <1>5, <2>1, <2>2, <2>3
<1>12. ASSUME NEW p \in Processes, Return(p) PROVE KeptInv'
  <2>1. /\ UNCHANGED <<lost, latest>> /\ pc[p] = "return"
        /\ pc' = [pc EXCEPT ![p] = "idle"] /\ returned' = returned \union {latest[p]}
    BY <1>12 DEF Return
  <2>2. \A q \in Processes : pc'[q] \in {"trim", "return"} => pc[q] \in {"trim", "return"}
    BY <2>1, SMT DEF HistoryInv, TypeOK
  <2>3. \A d \in returned' \ lost' : Kept(d)'
    BY <1>3, <1>4, <2>1
  <2>4. ASSUME NEW q \in Processes, pc'[q] \in {"trim", "return"}, latest'[q] \notin lost'
        PROVE  Kept(latest[q])'
    <3>1. PICK c : c = latest[q]
      OBVIOUS
    <3>2. Kept(c)' /\ latest'[q] = c
      BY <1>4, <2>1, <2>2, <2>4, <3>1
    <3>. QED
      BY <3>2 DEF Kept, InList, Old
  <2>. QED
    BY <2>3, <2>4 DEF KeptInv
<1>. QED
  BY <1>6, <1>7, <1>8, <1>9, <1>10, <1>11, <1>12 DEF Next

LEMMA NextMirror ==
  ASSUME HistoryInv, Mirror, [Next]_hvars
  PROVE  Mirror'
<1>0. \A q \in Processes : pc[q] \in {"idle", "push", "trim", "return"}
  BY DEF HistoryInv, TypeOK
<1>1. CASE Processes = {}
  <2>1. Cardinality(Processes) = 0
    BY <1>1, FS_EmptySet
  <2>2. list' = list
    BY <1>1, Zenon DEF Next, Fail, Recover, hvars
  <2>3. ASSUME NEW i \in 1 .. Len(list) PROVE FALSE
    <3>1. i <= count - list[i] + Cardinality(Processes) /\ list[i] \in 1 .. count
      BY PositionBound, SMT DEF HistoryInv, TypeOK
    <3>2. Smaller(list, i) \in SUBSET Before(list, i) /\ IsFiniteSet(Before(list, i))
      BY DEF Mirror, Counted, Smaller
    <3>3. Cardinality(Smaller(list, i)) \in Nat
      BY <3>2, FS_Subset, FS_CardinalityType
    <3>4. Late(list[i]) = {}
      BY <1>1 DEF Late
    <3>5. Cardinality(Smaller(list, i)) + Cardinality(Late(list[i])) <= 0 - 1
      BY <2>1 DEF Mirror, FewSmaller
    <3>. QED
      BY <3>3, <3>4, <3>5, FS_EmptySet, SMT
  <2>4. Distinct(list)' /\ Counted(list)' /\ FewSmaller'
    BY <2>2, <2>3 DEF Distinct, Counted, FewSmaller
  <2>. QED
    BY <1>1, <2>4 DEF Mirror, Fresh
<1>2. ASSUME NEW r \in Processes, UNCHANGED <<pc, latest, list>> PROVE Mirror'
  <2>1. StillPushing(r)
    BY <1>2 DEF StillPushing
  <2>. QED
    BY <1>2, <2>1, SameListMirror
<1>3. ASSUME NEW p \in Processes, Restart(p) PROVE Mirror'
  <2>1. /\ list' = list /\ pc' = [pc EXCEPT ![p] = "idle"]
        /\ latest' = [latest EXCEPT ![p] = 0]
    BY <1>3 DEF Restart
  <2>2. StillPushing(p)
    BY <2>1, SMT DEF StillPushing, HistoryInv, TypeOK
  <2>. QED
    BY <2>1, <2>2, SameListMirror
<1>4. ASSUME NEW p \in Processes, Record(p) PROVE Mirror'
  <2>1. /\ list' = list /\ latest' = [latest EXCEPT ![p] = count + 1]
        /\ \E place \in {"push", "return"} : pc' = [pc EXCEPT ![p] = place]
    BY <1>4 DEF Record
  <2>2. StillPushing(p)
    BY <2>1, SMT DEF StillPushing, HistoryInv, TypeOK
  <2>. QED
    BY <2>1, <2>2, SameListMirror
<1>5. ASSUME NEW p \in Processes, PipelineFails(p) \/ Return(p) PROVE Mirror'
  <2>1. /\ list' = list /\ latest' = latest
        /\ \E place \in {"return", "idle"} : pc' = [pc EXCEPT ![p] = place]
    BY <1>5 DEF PipelineFails, Return
  <2>2. StillPushing(p)
    BY <2>1, SMT DEF StillPushing, HistoryInv, TypeOK
  <2>. QED
    BY <2>1, <2>2, SameListMirror
<1>6. CASE (Fail \/ Recover \/ UNCHANGED hvars) /\ Processes # {}
  <2>1. UNCHANGED <<pc, latest, list>>
    BY <1>6 DEF Fail, Recover, hvars
  <2>. QED
    BY <1>2, <1>6, <2>1
<1>. QED
  BY <1>1, <1>3, <1>4, <1>5, <1>6, PushMirror, TrimMirror DEF Next

\* Nothing that got to Redis is missing: for any capacity and any number of
\* replicas that overlap and restart, while Redis comes and goes, each other
\* replica overtakes a decision with one earlier decision at most. (Record)
THEOREM MirrorMissesNothing == Spec => []NothingMissing
<1>1. ASSUME Init PROVE Mirror /\ KeptInv
  <2>1. list = <<>> /\ Len(list) = 0 /\ returned = {} /\ \A p \in Processes : pc[p] = "idle"
    BY <1>1, SMT DEF Init
  <2>2. Distinct(list) /\ Counted(list) /\ FewSmaller
    BY <2>1, SMT DEF Distinct, Counted, FewSmaller
  <2>. QED
    BY <2>1, <2>2 DEF Mirror, Fresh, KeptInv
<1>2. ASSUME HistoryInv, Mirror, KeptInv PROVE NothingMissing
  <2> SUFFICES ASSUME up, NEW p \in attached, NEW d \in returned \ lost,
                      d > count - Capacity + (Cardinality(Processes) - 1)
               PROVE  d \in Shown(p)
    BY DEF NothingMissing
  <2>1. /\ list \in Seq(1 .. count) /\ count \in Nat /\ d \in 1 .. count
        /\ Capacity \in Nat \ {0} /\ Cardinality(Processes) \in Nat
    BY <1>2, HistoryAssumption, CountProcesses DEF HistoryInv, TypeOK
  <2>2. list \in Seq(Nat) /\ Len(list) \in Nat
    BY <2>1, SMT
  <2>3. ~Old(d)
    BY <2>1, SMT DEF Old
  <2>4. PICK i \in 1 .. Len(list) : list[i] = d
    BY <1>2, <2>3 DEF KeptInv, Kept, InList
  <2>5. i <= count - d + Cardinality(Processes)
    BY <1>2, <2>4, PositionBound
  <2>6. i <= Capacity
    BY <2>1, <2>2, <2>5, SMT
  <2>7. PICK l : l = Newest(list)
    OBVIOUS
  <2>8. /\ l \in Seq(Nat) /\ Len(l) = IF Len(list) < Capacity THEN Len(list) ELSE Capacity
        /\ \A k \in 1 .. Len(l) : l[k] = list[k]
    BY <2>2, <2>7, TrimmedList
  <2>9. i \in 1 .. Len(l)
    BY <2>1, <2>2, <2>6, <2>8, SMT
  <2>10. i \in DOMAIN l /\ l[i] = d
    BY <2>4, <2>8, <2>9, SMT
  <2>11. Snapshot(p) = l
    <3>1. list # <<>>
      BY <2>2, <2>4, SMT
    <3>. QED
      BY <2>7, <3>1 DEF Snapshot
  <2>. QED
    BY <2>10, <2>11 DEF Shown
<1>3. HistoryInv /\ HistoryInv' /\ Mirror /\ KeptInv /\ [Next]_hvars => Mirror' /\ KeptInv'
  BY NextMirror, NextKept
<1>. QED
  BY <1>1, <1>2, <1>3, InitHistory, NextHistory, PTL DEF Spec

=============================================================================
