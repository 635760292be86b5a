--------------------------- MODULE EdgeScanProofs ---------------------------
(***************************************************************************)
(* Proof that the iterator over a list with delete markers returns exactly *)
(* the undeleted entries, for lists of any length.                         *)
(***************************************************************************)
EXTENDS EdgeScan, FiniteSetTheorems, WellFoundedInduction, TLAPS

(* Before the first step nothing is queued and nothing is visited. *)
LEMMA InitIInv == Init => IInv
  <1> SUFFICES ASSUME Init PROVE IInv
    OBVIOUS
  <1> USE MaxLenAssumption
  <1>1. PICK n \in 0 .. MaxLen : list \in [1 .. n -> 0 .. MaxLen]
    BY DEF Init
  <1>2. list \in Seq(Nat) /\ Len(list) = n
    BY <1>1
  <1>3. TypeOK
    BY <1>2 DEF Init, TypeOK, Positions
  <1>4. HeapPending /\ ScanExact
    BY <1>2, <1>3 DEF Init, HeapPending, ScanExact, TypeOK, Positions
  <1>5. QED
    BY <1>3, <1>4 DEF Init, IInv

(* Every kind of entry keeps the queue and the visited positions exact. *)
LEMMA IInvStep == IInv /\ [Next]_vars => IInv'
  <1> SUFFICES ASSUME IInv, [Next]_vars PROVE IInv'
    OBVIOUS
  <1>0. /\ list \in Seq(Nat) /\ Len(list) \in Nat /\ cursor \in 0 .. Len(list)
        /\ heap \in [Positions -> Nat] /\ visited \subseteq Positions
        /\ \A p \in Positions : list[p] \in Nat
    BY DEF IInv, TypeOK, Positions
  <1>1. CASE ReadMarker
    <2> DEFINE t == list[cursor]
    <2>1. cursor \in Positions /\ t # 0 /\ t \in 1 .. (cursor - 1) /\ t \in Positions
      BY <1>0, <1>1 DEF ReadMarker, IInv, WellMarked, Positions
    <2>2. /\ list' = list /\ visited' = visited /\ cursor' = cursor - 1
          /\ heap' = [heap EXCEPT ![t] = heap[t] + 1]
      BY <1>1 DEF ReadMarker
    <2>3. TypeOK'
      BY <1>0, <2>1, <2>2 DEF TypeOK, Positions
    <2>4. \A j \in Positions : j > cursor => list[j] # t
      BY <1>0, <2>1 DEF IInv, WellMarked, Positions
    <2>5. heap[t] = 0
      BY <2>1, <2>4 DEF IInv, HeapPending
    <2>6. ASSUME NEW p \in Positions
          PROVE  heap'[p] = IF p <= cursor'
                               /\ \E j \in Positions : j > cursor' /\ list[j] = p
                            THEN 1 ELSE 0
      <3> DEFINE A(c) == p <= c /\ \E j \in Positions : j > c /\ list[j] = p
      <3>1. heap[p] = IF A(cursor) THEN 1 ELSE 0
        BY DEF IInv, HeapPending
      <3>2. CASE p = t
        BY <1>0, <2>1, <2>2, <2>5, <3>2 DEF Positions
      <3>3. CASE p # t
        <4>1. A(cursor') <=> A(cursor)
          <5>1. ASSUME NEW j \in Positions, j > cursor - 1, list[j] = p
                PROVE  j > cursor /\ p <= cursor - 1 => A(cursor)
            BY <1>0, <5>1 DEF Positions
          <5>2. p = cursor => ~A(cursor)
            BY <1>0, <1>1, <2>1 DEF ReadMarker, IInv, WellMarked, Positions
          <5>3. \A j \in Positions : j > cursor - 1 /\ list[j] = p => j > cursor
            BY <1>0, <2>1, <3>3 DEF Positions
          <5>4. QED
            BY <1>0, <2>2, <5>2, <5>3 DEF Positions
        <4>2. heap'[p] = heap[p]
          BY <1>0, <2>2, <3>3
        <4>3. QED
          BY <3>1, <4>1, <4>2
      <3>4. QED
        BY <3>2, <3>3
    <2>7. HeapPending'
      BY <2>2, <2>6 DEF HeapPending, Positions
    <2>8. ScanExact'
      BY <1>0, <2>1, <2>2 DEF IInv, ScanExact, Marked, Positions
    <2>9. QED
      BY <2>2, <2>3, <2>7, <2>8 DEF IInv
  <1>2. ASSUME cursor > 0, list[cursor] = 0,
               list' = list, cursor' = cursor - 1,
               heap' = [heap EXCEPT ![cursor] = 0],
               visited' = IF Marked(cursor) THEN visited ELSE visited \cup {cursor}
        PROVE  IInv'
    <2>1. cursor \in Positions
      BY <1>0, <1>2 DEF Positions
    <2>2. TypeOK'
      BY <1>0, <1>2, <2>1 DEF TypeOK, Positions
    <2>3. HeapPending'
      <3>1. ASSUME NEW p \in Positions
            PROVE  heap'[p] = IF p <= cursor'
                                 /\ \E j \in Positions : j > cursor' /\ list[j] = p
                              THEN 1 ELSE 0
        <4>1. CASE p = cursor
          BY <1>0, <1>2, <4>1 DEF Positions
        <4>2. CASE p # cursor
          <5>1. heap'[p] = heap[p]
            BY <1>0, <1>2, <4>2
          <5>2. \A j \in Positions : list[j] = p => j # cursor
            BY <1>2 DEF Positions
          <5>3. QED
            BY <1>0, <1>2, <4>2, <5>1, <5>2 DEF IInv, HeapPending, Positions
        <4>3. QED
          BY <4>1, <4>2
      <3>2. QED
        BY <1>2, <3>1 DEF HeapPending, Positions
    <2>4. ScanExact'
      BY <1>0, <1>2, <2>1 DEF IInv, ScanExact, Marked, Positions
    <2>5. QED
      BY <1>2, <2>2, <2>3, <2>4 DEF IInv
  <1>3. ASSUME cursor \in Positions, list[cursor] = 0
        PROVE  /\ heap[cursor] = IF Marked(cursor) THEN 1 ELSE 0
               /\ \A q \in Positions : q > cursor => heap[q] = 0
    <2>1. \A j \in Positions : list[j] = cursor => j > cursor
      BY <1>0, <1>3 DEF IInv, WellMarked, Positions
    <2>2. QED
      BY <1>0, <1>3, <2>1 DEF IInv, HeapPending, Marked, Positions
  <1>4. CASE SkipDeleted
    <2>1. cursor \in Positions
      BY <1>0, <1>4 DEF SkipDeleted, Positions
    <2>2. Marked(cursor) /\ heap[cursor] = 1
      BY <1>3, <1>4, <2>1 DEF SkipDeleted, Top
    <2>3. heap' = [heap EXCEPT ![cursor] = 0]
      BY <1>0, <1>4, <2>1, <2>2 DEF SkipDeleted
    <2>4. QED
      BY <1>2, <1>4, <2>2, <2>3 DEF SkipDeleted
  <1>5. CASE ReturnEdge
    <2>1. cursor \in Positions
      BY <1>0, <1>5 DEF ReturnEdge, Positions
    <2>2. ~Marked(cursor) /\ heap[cursor] = 0
      BY <1>3, <1>5, <2>1 DEF ReturnEdge, Top
    <2>3. heap' = [heap EXCEPT ![cursor] = 0]
      BY <1>0, <1>5, <2>1, <2>2 DEF ReturnEdge
    <2>4. QED
      BY <1>2, <1>5, <2>2, <2>3 DEF ReturnEdge
  <1>6. CASE UNCHANGED vars
    BY <1>6 DEF vars, IInv, TypeOK, HeapPending, ScanExact, Marked, Positions
  <1>7. QED
    BY <1>1, <1>4, <1>5, <1>6 DEF Next

(* The inductive invariant of the scan holds in every reachable state. *)
THEOREM Invariance == Spec => []IInv
  BY InitIInv, IInvStep, PTL DEF Spec

(* On a list of any length whose markers name distinct older edges, the     *)
(* iterator has returned, at every moment, exactly the undeleted edges it   *)
(* has passed.                                                              *)
THEOREM ScanCorrect == Spec => []ScanExact
  <1>1. IInv => ScanExact
    BY DEF IInv
  <1>2. QED
    BY <1>1, Invariance, PTL

-----------------------------------------------------------------------------
(* The iterator as a function. *)

(* A set of numbers that is not empty has a least one. *)
LEMMA LeastNumber ==
  ASSUME NEW S \in SUBSET Nat, S # {}
  PROVE  \E x \in S : \A y \in S : x <= y
  <1> DEFINE Below(n) == S \cap (0 .. n)
             R == StrictSubsetOrdering(S)
             T == {Below(n) : n \in S}
  <1>1. T \subseteq FiniteSubsetsOf(S)
    <2>1. \A n \in S : IsFiniteSet(0 .. n)
      BY FS_Interval
    <2>2. \A n \in S : IsFiniteSet(Below(n))
      BY <2>1, FS_Intersection
    <2>3. QED
      BY <2>2 DEF FiniteSubsetsOf
  <1>2. T # {}
    OBVIOUS
  <1>3. IsWellFoundedOn(R, FiniteSubsetsOf(S))
    BY FS_StrictSubsetOrderingWellFounded
  <1>4. PICK b \in T : \A c \in T : ~ (<<c, b>> \in R)
    <2> HIDE DEF T, R
    <2>1. QED
      BY <1>1, <1>2, <1>3, WFMin
  <1>5. PICK x \in S : b = Below(x)
    OBVIOUS
  <1>6. ASSUME NEW y \in S, y < x PROVE FALSE
    <2>1. Below(y) \in T /\ Below(y) \subseteq Below(x)
      BY <1>6
    <2>2. Below(y) # Below(x)
      BY <1>6
    <2>3. <<Below(y), Below(x)>> \in R
      BY <2>1, <2>2 DEF StrictSubsetOrdering
    <2>4. QED
      BY <2>1, <2>3, <1>4, <1>5
  <1>7. QED
    BY <1>6

(* What is read in front of position i: the queue and the entries returned. *)
Passed(l, i) ==
  [queue |-> [p \in 1 .. Len(l) |->
                IF p < i /\ \E j \in i .. Len(l) : l[j] = p THEN 1 ELSE 0],
   live  |-> {p \in i .. Len(l) : l[p] = 0 /\ ~ \E j \in 1 .. Len(l) : l[j] = p}]

(* One position further, as in Visible. *)
Further(l, i, r) ==
  CASE l[i] # 0 -> [r EXCEPT !.queue = [r.queue EXCEPT ![l[i]] = r.queue[l[i]] + 1]]
    [] l[i] = 0 /\ r.queue[i] > 0
         /\ \A q \in 1 .. Len(l) : q > i => r.queue[q] = 0
         -> [r EXCEPT !.queue = [r.queue EXCEPT ![i] = r.queue[i] - 1]]
    [] OTHER -> [r EXCEPT !.live = r.live \cup {i}]

ReadsTo(l, g) ==
  g = [i \in 1 .. Len(l) + 1 |->
         IF i > Len(l)
         THEN [queue |-> [p \in 1 .. Len(l) |-> 0], live |-> {}]
         ELSE Further(l, i, g[i + 1])]

LEMMA FurtherPassed ==
  ASSUME NEW l \in Seq(Nat), WellMarked(l), NEW i \in 1 .. Len(l)
  PROVE  Further(l, i, Passed(l, i + 1)) = Passed(l, i)
  <1>1. /\ Len(l) \in Nat /\ i \in Nat /\ \A p \in 1 .. Len(l) : l[p] \in Nat
        /\ \A p \in 1 .. Len(l) : l[p] # 0 => l[p] \in 1 .. (p - 1) /\ l[l[p]] = 0
        /\ \A p, q \in 1 .. Len(l) : l[p] # 0 /\ l[p] = l[q] => p = q
    BY DEF WellMarked
  <1>2. PICK r, q, q1, v, v1 :
          /\ r = Passed(l, i + 1) /\ q1 = r.queue /\ v1 = r.live
          /\ q = Passed(l, i).queue /\ v = Passed(l, i).live
    OBVIOUS
  <1>3. /\ r = [queue |-> q1, live |-> v1] /\ Passed(l, i) = [queue |-> q, live |-> v]
        /\ q = [p \in 1 .. Len(l) |-> q[p]] /\ q1 = [p \in 1 .. Len(l) |-> q1[p]]
    BY <1>2 DEF Passed
  <1>4. ASSUME NEW p \in 1 .. Len(l)
        PROVE  /\ q[p] = IF p < i /\ \E j \in i .. Len(l) : l[j] = p THEN 1 ELSE 0
               /\ q1[p] = IF p < i + 1 /\ \E j \in i + 1 .. Len(l) : l[j] = p THEN 1 ELSE 0
    BY <1>2 DEF Passed
  <1>5. ASSUME NEW p
        PROVE  /\ p \in v <=> p \in i .. Len(l) /\ l[p] = 0 /\ ~ \E j \in 1 .. Len(l) : l[j] = p
               /\ p \in v1 <=> p \in i + 1 .. Len(l) /\ l[p] = 0
                               /\ ~ \E j \in 1 .. Len(l) : l[j] = p
    BY <1>2 DEF Passed
  <1>b. ASSUME NEW p \in 1 .. Len(l), p # l[i]
        PROVE  (\E j \in i .. Len(l) : l[j] = p) <=> \E j \in i + 1 .. Len(l) : l[j] = p
    BY <1>1, <1>b
  <1>6. ASSUME NEW p \in 1 .. Len(l), p # l[i], p # i PROVE q[p] = q1[p]
    <2>1. p < i <=> p < i + 1
      BY <1>1, <1>6
    <2>2. QED
      BY <1>4, <1>b, <1>6, <2>1
  <1>7. \A x : /\ [r EXCEPT !.queue = x] = [queue |-> x, live |-> v1]
               /\ [r EXCEPT !.live = x] = [queue |-> q1, live |-> x]
    <2> TAKE x
    <2>1. [r EXCEPT !.queue = x] = [queue |-> x, live |-> v1]
      BY <1>3
    <2>2. [r EXCEPT !.live = x] = [queue |-> q1, live |-> x]
      <3>1. PICK y : y = [r EXCEPT !.live = x]
        OBVIOUS
      <3>2. r = [queue |-> q1, live |-> v1]
        BY <1>3
      <3>3. y.live = x /\ y.queue = q1 /\ DOMAIN y = {"queue", "live"}
        BY <3>1, <3>2
      <3>4. y = [f \in {"queue", "live"} |-> y[f]]
        BY <3>1, <3>2
      <3>5. y = [queue |-> q1, live |-> x]
        BY <3>3, <3>4
      <3>6. QED
        BY <3>1, <3>5
    <2>3. QED
      BY <2>1, <2>2
  <1>8. CASE l[i] # 0
    <2>1. PICK t : t = l[i]
      OBVIOUS
    <2>2. t \in 1 .. Len(l) /\ t < i /\ l[t] = 0 /\ l[i] = t /\ t # 0
      BY <1>1, <1>8, <2>1
    <2>3. q1[t] = 0
      <3>1. ~ \E j \in i + 1 .. Len(l) : l[j] = t
        BY <1>1, <2>2
      <3>2. QED
        BY <1>4, <2>2, <3>1
    <2>4. q[t] = 1
      <3>1. \E j \in i .. Len(l) : l[j] = t
        BY <1>1, <2>2
      <3>2. QED
        BY <1>4, <2>2, <3>1
    <2>5. q[i] = q1[i]
      <3>1. ~ \E j \in i + 1 .. Len(l) : l[j] = i
        BY <1>1, <1>8
      <3>2. ~ (i < i)
        BY <1>1
      <3>3. QED
        BY <1>4, <3>1, <3>2
    <2>6. q = [q1 EXCEPT ![t] = q1[t] + 1]
      <3>1. \A p \in 1 .. Len(l) : q[p] = IF p = t THEN q1[t] + 1 ELSE q1[p]
        BY <1>6, <2>1, <2>3, <2>4, <2>5
      <3>2. QED
        BY <1>3, <3>1
    <2>7. v = v1
      <3>1. ASSUME NEW p PROVE p \in v <=> p \in v1
        <4>1. p \in i .. Len(l) /\ l[p] = 0 <=> p \in i + 1 .. Len(l) /\ l[p] = 0
          BY <1>1, <1>8
        <4>2. QED
          BY <1>5, <4>1
      <3>2. QED
        BY <3>1
    <2>8. Further(l, i, r) = [r EXCEPT !.queue = [r.queue EXCEPT ![t] = r.queue[t] + 1]]
      BY <1>8, <2>1 DEF Further
    <2>9. QED
      BY <1>2, <1>3, <1>7, <2>6, <2>7, <2>8
  <1>9. ASSUME l[i] = 0 PROVE \A p \in 1 .. Len(l) : p # i => q[p] = q1[p]
    BY <1>6, <1>9
  <1>10. ASSUME NEW p \in 1 .. Len(l), p > i PROVE q1[p] = 0
    <2>1. ~ (p < i + 1)
      BY <1>1, <1>10
    <2>2. QED
      BY <1>4, <2>1
  <1>11. q[i] = 0
    <2>1. ~ (i < i)
      BY <1>1
    <2>2. QED
      BY <1>4, <2>1
  <1>12. (\E j \in i + 1 .. Len(l) : l[j] = i) <=> \E j \in 1 .. Len(l) : l[j] = i
    BY <1>1
  <1>13. q1[i] = IF \E j \in 1 .. Len(l) : l[j] = i THEN 1 ELSE 0
    <2>1. i < i + 1
      BY <1>1
    <2>2. QED
      BY <1>4, <1>12, <2>1
  <1>14. CASE l[i] = 0 /\ \E j \in 1 .. Len(l) : l[j] = i
    <2>1. q1[i] = 1
      BY <1>13, <1>14
    <2>2. q = [q1 EXCEPT ![i] = q1[i] - 1]
      <3>1. \A p \in 1 .. Len(l) : q[p] = IF p = i THEN q1[i] - 1 ELSE q1[p]
        BY <1>9, <1>11, <1>14, <2>1
      <3>2. QED
        BY <1>3, <3>1
    <2>3. v = v1
      <3>1. ASSUME NEW p PROVE p \in v <=> p \in v1
        <4>1. p # i => (p \in i .. Len(l) <=> p \in i + 1 .. Len(l))
          BY <1>1
        <4>2. QED
          BY <1>5, <1>14, <4>1
      <3>2. QED
        BY <3>1
    <2>4. Further(l, i, r) = [r EXCEPT !.queue = [r.queue EXCEPT ![i] = r.queue[i] - 1]]
      BY <1>2, <1>10, <1>14, <2>1 DEF Further
    <2>5. QED
      BY <1>2, <1>3, <1>7, <2>2, <2>3, <2>4
  <1>15. CASE l[i] = 0 /\ ~ \E j \in 1 .. Len(l) : l[j] = i
    <2>1. q1[i] = 0
      BY <1>13, <1>15
    <2>2. q = q1
      <3>1. \A p \in 1 .. Len(l) : q[p] = q1[p]
        BY <1>9, <1>11, <1>15, <2>1
      <3>2. QED
        BY <1>3, <3>1
    <2>3. v = v1 \cup {i}
      <3>1. ASSUME NEW p PROVE p \in v <=> p \in v1 \cup {i}
        <4>1. p # i => (p \in i .. Len(l) <=> p \in i + 1 .. Len(l))
          BY <1>1
        <4>2. i \in i .. Len(l)
          BY <1>1
        <4>3. QED
          BY <1>5, <1>15, <4>1, <4>2
      <3>2. QED
        BY <3>1
    <2>4. Further(l, i, r) = [r EXCEPT !.live = r.live \cup {i}]
      BY <1>2, <1>15, <2>1 DEF Further
    <2>5. QED
      BY <1>2, <1>3, <1>7, <2>2, <2>3, <2>4
  <1>16. QED
    BY <1>8, <1>14, <1>15

(* Visible, which stands for the iterator in the model of the graph store,  *)
(* returns the entries that no marker names.                                *)
LEMMA VisibleExact ==
  ASSUME NEW l \in Seq(Nat), WellMarked(l)
  PROVE  Visible(l) = {p \in 1 .. Len(l) : l[p] = 0 /\ ~ \E j \in 1 .. Len(l) : l[j] = p}
  <1> DEFINE g == CHOOSE h : ReadsTo(l, h)
             S == [i \in 1 .. Len(l) + 1 |-> Passed(l, i)]
  <1>0. Len(l) \in Nat
    OBVIOUS
  <1>1. Visible(l) = g[1].live
    BY DEF Visible, ReadsTo, Further
  <1>2. Passed(l, Len(l) + 1) = [queue |-> [p \in 1 .. Len(l) |-> 0], live |-> {}]
    <2>1. Len(l) + 1 .. Len(l) = {}
      BY <1>0
    <2>2. QED
      BY <2>1 DEF Passed
  <1>3. ReadsTo(l, S)
    <2>1. ASSUME NEW i \in 1 .. Len(l) + 1
          PROVE  S[i] = IF i > Len(l)
                        THEN [queue |-> [p \in 1 .. Len(l) |-> 0], live |-> {}]
                        ELSE Further(l, i, S[i + 1])
      <3>1. CASE i = Len(l) + 1
        BY <1>0, <1>2, <3>1
      <3>2. CASE i \in 1 .. Len(l)
        <4>1. S[i + 1] = Passed(l, i + 1) /\ S[i] = Passed(l, i)
          BY <1>0, <3>2
        <4>2. ~ (i > Len(l))
          BY <1>0, <3>2
        <4> HIDE DEF S
        <4>3. QED
          BY <3>2, <4>1, <4>2, FurtherPassed
      <3>3. QED
        BY <1>0, <3>1, <3>2
    <2>2. QED
      BY <2>1 DEF ReadsTo
  <1>4. ReadsTo(l, g)
    BY <1>3
  <1>5. /\ g[Len(l) + 1] = Passed(l, Len(l) + 1)
        /\ \A i \in 1 .. Len(l) : g[i] = Further(l, i, g[i + 1])
    <2> HIDE DEF g
    <2>1. /\ Len(l) + 1 \in 1 .. Len(l) + 1 /\ Len(l) + 1 > Len(l)
          /\ \A i \in 1 .. Len(l) : i \in 1 .. Len(l) + 1 /\ ~ (i > Len(l))
      BY <1>0
    <2>2. ASSUME NEW i \in 1 .. Len(l) + 1
          PROVE  g[i] = IF i > Len(l)
                        THEN [queue |-> [p \in 1 .. Len(l) |-> 0], live |-> {}]
                        ELSE Further(l, i, g[i + 1])
      BY <1>4, Zenon DEF ReadsTo
    <2>3. QED
      BY <1>2, <2>1, <2>2
  <1> HIDE DEF g, S
  <1> DEFINE Bad == {n \in Nat : n <= Len(l) /\ g[Len(l) + 1 - n] # Passed(l, Len(l) + 1 - n)}
  <1>6. Bad = {}
    <2> SUFFICES ASSUME Bad # {} PROVE FALSE
      OBVIOUS
    <2> HIDE DEF Bad
    <2>1. PICK n \in Bad : \A m \in Bad : n <= m
      BY LeastNumber DEF Bad
    <2>2. n \in Nat /\ n <= Len(l) /\ g[Len(l) + 1 - n] # Passed(l, Len(l) + 1 - n)
      BY <2>1 DEF Bad
    <2>3. n # 0
      BY <1>0, <1>5, <2>2
    <2>4. n - 1 \notin Bad /\ n - 1 \in Nat /\ n - 1 <= Len(l)
      BY <1>0, <2>1, <2>2, <2>3
    <2>5. PICK i : i = Len(l) + 1 - n
      OBVIOUS
    <2>6. i \in 1 .. Len(l) /\ Len(l) + 1 - (n - 1) = i + 1
      BY <1>0, <2>2, <2>3, <2>5
    <2>7. g[i + 1] = Passed(l, i + 1)
      BY <2>4, <2>6 DEF Bad
    <2>8. QED
      BY <1>5, <2>2, <2>5, <2>6, <2>7, FurtherPassed
  <1>7. g[1] = Passed(l, 1)
    <2>1. Len(l) \notin Bad
      BY <1>6
    <2>2. Len(l) + 1 - Len(l) = 1
      BY <1>0
    <2>3. QED
      BY <1>0, <2>1, <2>2
  <1>8. QED
    BY <1>1, <1>7 DEF Passed

(* The iterator, step by step, returns what the function returns: its queue *)
(* of delete offsets finds the undeleted edges of a list of any length.     *)
THEOREM ScanIsVisible == Spec => [](cursor = 0 => visited = Visible(list))
  <1>1. IInv => (cursor = 0 => visited = Visible(list))
    <2> SUFFICES ASSUME IInv, cursor = 0 PROVE visited = Visible(list)
      OBVIOUS
    <2>1. list \in Seq(Nat) /\ WellMarked(list)
      BY DEF IInv, TypeOK
    <2>2. Visible(list) = {p \in 1 .. Len(list) : list[p] = 0 /\ ~ \E j \in 1 .. Len(list) : list[j] = p}
      BY <2>1, VisibleExact
    <2>3. visited = {p \in 1 .. Len(list) : p > 0 /\ list[p] = 0 /\ ~ \E j \in 1 .. Len(list) : list[j] = p}
      BY DEF IInv, ScanExact, Positions, Marked
    <2>4. QED
      BY <2>2, <2>3
  <1>2. QED
    BY <1>1, Invariance, PTL
=============================================================================
