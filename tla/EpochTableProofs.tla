-------------------------- MODULE EpochTableProofs --------------------------
(***************************************************************************)
(* Proofs about the epoch-table protocol, for any number of readers and    *)
(* any bound on epochs and edges.                                          *)
(***************************************************************************)
EXTENDS EpochTable, TLAPS

(* What appending one element does to a sequence. *)
LEMMA AppendFacts ==
  ASSUME NEW S, NEW s \in Seq(S), NEW x \in S
  PROVE  /\ Append(s, x) \in Seq(S)
         /\ Len(Append(s, x)) = Len(s) + 1
         /\ \A i \in 1 .. Len(s) : Append(s, x)[i] = s[i]
         /\ Append(s, x)[Len(s) + 1] = x
  OBVIOUS

(* Every initial state is well typed and satisfies the inductive invariant. *)
LEMMA InitIInv == Init => IInv
  <1> SUFFICES ASSUME Init PROVE IInv
    OBVIOUS
  <1>1. TypeOK
    BY BoundsAssumption DEF Init, TypeOK, Epochs, IdleReader, NotLoaded,
       ReaderType
  <1>2. QED
    BY <1>1 DEF Init, IInv, LogSorted, TablesSound, CurrentComplete,
       ReaderSound, SnapshotRead, SnapshotOf, IdleReader, NotLoaded

(* A step of the writer or of a reader keeps the variables well typed. *)
LEMMA TypeStep == IInv /\ [Next]_vars => TypeOK'
  <1> SUFFICES ASSUME TypeOK, \A r \in Readers : ReaderSound(r), [Next]_vars
               PROVE  TypeOK'
    BY DEF IInv
  <1> USE BoundsAssumption
  <1>1. ASSUME NEW e \in Epochs, NextEpoch(e) PROVE TypeOK'
    BY <1>1 DEF TypeOK, NextEpoch
  <1>2. CASE CreateTable
    <2>1. [offset |-> 0, epoch |-> wepoch] \in EpochEntry
      BY DEF TypeOK, EpochEntry
    <2>2. tabs' \in Seq(Seq(EpochEntry))
      BY <1>2, <2>1 DEF TypeOK, CreateTable
    <2>3. Len(tabs') = Len(tabs) + 1
      BY <1>2 DEF TypeOK, CreateTable
    <2>4. QED
      BY <1>2, <2>2, <2>3 DEF TypeOK, CreateTable
  <1>3. CASE ReplaceTable
    <2>1. tabs[cur] \in Seq(EpochEntry)
      BY <1>3 DEF TypeOK, ReplaceTable
    <2>2. tabs' \in Seq(Seq(EpochEntry)) /\ Len(tabs') = Len(tabs) + 1
      BY <1>3, <2>1 DEF TypeOK, ReplaceTable
    <2>3. QED
      BY <1>3, <2>2 DEF TypeOK, ReplaceTable
  <1>4. CASE AppendEpoch
    <2>1. [offset |-> Len(elog), epoch |-> wepoch] \in EpochEntry
      BY DEF TypeOK, EpochEntry
    <2>2. Append(tabs[cur], [offset |-> Len(elog), epoch |-> wepoch])
            \in Seq(EpochEntry)
      BY <1>4, <2>1 DEF TypeOK, AppendEpoch
    <2>3. tabs' \in Seq(Seq(EpochEntry)) /\ Len(tabs') = Len(tabs)
      BY <1>4, <2>2 DEF TypeOK, AppendEpoch
    <2>4. QED
      BY <1>4, <2>3 DEF TypeOK, AppendEpoch
  <1>5. CASE AppendEdge
    BY <1>5 DEF TypeOK, AppendEdge
  <1>6. ASSUME NEW r \in Readers, Read(r) PROVE TypeOK'
    <2> rd[r] \in ReaderType
      BY DEF TypeOK
    <2>1. ASSUME NEW e \in Epochs, BeginRead(r, e) PROVE TypeOK'
      <3>1. PICK n \in 0 .. Len(elog), c \in 0 .. cur :
              rd' = [rd EXCEPT ![r] = [IdleReader EXCEPT !.pc = "load", !.epoch = e,
                                         !.base = n, !.baseTab = c]]
        BY <2>1 DEF BeginRead
      <3>2. n \in Nat /\ c \in Nat
        BY DEF TypeOK
      <3>3. [IdleReader EXCEPT !.pc = "load", !.epoch = e, !.base = n, !.baseTab = c]
              \in ReaderType
        BY <3>2 DEF ReaderType, IdleReader, NotLoaded
      <3>4. QED
        BY <2>1, <3>1, <3>3 DEF TypeOK, BeginRead
    <2>2. CASE LoadBlock(r)
      <3>1. PICK n \in rd[r].base .. Len(elog) : rd' = [rd EXCEPT ![r].low = n]
        BY <2>2 DEF LoadBlock
      <3>2. n \in Nat
        <4>1. rd[r].base \in Nat /\ Len(elog) \in Nat
          BY DEF ReaderType, TypeOK
        <4>2. QED
          BY <4>1
      <3>3. [rd[r] EXCEPT !.low = n] \in ReaderType
        BY <3>2 DEF ReaderType
      <3>4. QED
        BY <2>2, <3>1, <3>3 DEF TypeOK, LoadBlock
    <2>3. CASE LoadTable(r)
      <3>1. PICK c \in rd[r].baseTab .. cur : rd' = [rd EXCEPT ![r].tab = c]
        BY <2>3 DEF LoadTable
      <3>2. c \in Nat
        <4>1. rd[r].baseTab \in Nat /\ cur \in Nat
          BY DEF ReaderType, TypeOK
        <4>2. QED
          BY <4>1
      <3>3. [rd[r] EXCEPT !.tab = c] \in ReaderType
        BY <3>2 DEF ReaderType
      <3>4. QED
        BY <2>3, <3>1, <3>3 DEF TypeOK, LoadTable
    <2>4. CASE ReadNull(r)
      BY <2>4 DEF TypeOK, ReadNull, ReaderType
    <2>5. CASE LoadNum(r)
      <3>1. PICK n \in rd[r].low .. Len(elog) :
              rd' = [rd EXCEPT ![r].pc = "init", ![r].num = n,
                               ![r].view = IF rd[r].tab = cur THEN "fresh" ELSE "stale"]
        BY <2>5 DEF LoadNum
      <3>2. n \in Nat
        <4>1. rd[r].low \in Nat
          BY <2>5 DEF LoadNum, ReaderType
        <4>2. QED
          BY <4>1 DEF TypeOK
      <3>3. QED
        BY <2>5, <3>1, <3>2 DEF TypeOK, LoadNum, ReaderType
    <2>6. CASE ReadEmptyBlock(r)
      BY <2>6 DEF TypeOK, ReadEmptyBlock, ReaderType
    <2>7. CASE InitIterator(r)
      <3> DEFINE t == tabs[rd[r].tab]
      <3>1. ASSUME NEW n \in Nat,
                   rd' = [rd EXCEPT ![r].pc = "done", ![r].out = n]
            PROVE  TypeOK'
        BY <2>7, <3>1 DEF TypeOK, InitIterator, ReaderType
      <3>2. t \in Seq(EpochEntry)
        <4>1. rd[r].tab \in 1 .. Len(tabs)
          BY <2>7 DEF InitIterator, ReaderSound, ReaderType, NotLoaded, TypeOK
        <4>2. QED
          BY <4>1 DEF TypeOK
      <3>3. QED
        BY <2>7, <3>1, <3>2 DEF InitIterator, ReaderType, EpochEntry
    <2>8. CASE EndRead(r)
      BY <2>8 DEF TypeOK, EndRead, ReaderType, IdleReader, NotLoaded, Epochs
    <2>9. CASE ReadRecycled(r)
      <3>1. PICK n \in 0 .. MaxEdges :
              rd' = [rd EXCEPT ![r].pc = "done", ![r].out = n, ![r].view = "stale"]
        BY <2>9 DEF ReadRecycled
      <3>2. n \in Nat
        OBVIOUS
      <3>3. QED
        BY <2>9, <3>1, <3>2 DEF TypeOK, ReadRecycled, ReaderType
    <2>10. QED
      BY <1>6, <2>1, <2>2, <2>3, <2>4, <2>5, <2>6, <2>7, <2>8, <2>9 DEF Read
  <1>7. CASE UNCHANGED vars
    BY <1>7 DEF vars, TypeOK
  <1>8. QED
    BY <1>1, <1>2, <1>3, <1>4, <1>5, <1>6, <1>7 DEF Next, Write

(* The epochs along the list stay sorted: put_edge only appends, and with a *)
(* write epoch that never goes back.                                        *)
LEMMA LogSortedStep == IInv /\ [Next]_vars => LogSorted'
  <1> SUFFICES ASSUME TypeOK, LogSorted, [Next]_vars PROVE LogSorted'
    BY DEF IInv
  <1> USE BoundsAssumption
  <1>1. ASSUME NEW e \in Epochs, NextEpoch(e) PROVE LogSorted'
    BY <1>1 DEF TypeOK, LogSorted, NextEpoch, Epochs
  <1>2. CASE AppendEdge
    <2>1. /\ elog \in Seq(Epochs) /\ wepoch \in Epochs /\ wepoch' = wepoch
          /\ elog' = Append(elog, wepoch)
      BY <1>2 DEF TypeOK, AppendEdge
    <2>2. /\ Len(elog') = Len(elog) + 1
          /\ \A i \in 1 .. Len(elog) : elog'[i] = elog[i]
          /\ elog'[Len(elog) + 1] = wepoch
      BY <2>1, AppendFacts
    <2>3. \A i \in 1 .. Len(elog') : i \in 1 .. Len(elog) \/ i = Len(elog) + 1
      BY <2>1, <2>2
    <2>4. \A i \in 1 .. Len(elog) : elog[i] \in Epochs
      BY <2>1
    <2>5. QED
      BY <2>1, <2>2, <2>3, <2>4 DEF LogSorted, Epochs
  <1>3. CASE UNCHANGED <<wepoch, elog>>
    BY <1>3 DEF LogSorted
  <1>4. QED
    BY <1>1, <1>2, <1>3 DEF Next, Write, Read, vars, CreateTable, ReplaceTable,
       AppendEpoch, BeginRead, LoadBlock, LoadTable, ReadNull, LoadNum,
       ReadEmptyBlock, InitIterator, ReadRecycled, EndRead

(* A table that is sound stays sound while the writer appends to the list. *)
LEMMA TableSoundStep ==
  ASSUME TypeOK, LogSorted, NEW t \in Seq(EpochEntry), TableSound(t),
         wepoch' \in Nat, wepoch' >= wepoch,
         elog' = elog \/ elog' = Append(elog, wepoch)
  PROVE  TableSound(t)'
  <1> DEFINE n == Len(elog)
  <1>1. /\ elog \in Seq(Epochs) /\ n \in Nat /\ wepoch \in Epochs
        /\ Len(t) \in Nat /\ \A k \in 1 .. Len(t) : t[k] \in EpochEntry
    BY DEF TypeOK
  <1>2. /\ Len(elog') \in {n, n + 1}
        /\ \A i \in 1 .. n : elog'[i] = elog[i]
        /\ \A i \in 1 .. Len(elog') : i \in 1 .. n \/ (i = n + 1 /\ elog'[i] = wepoch)
    <2>1. CASE elog' = elog
      BY <1>1, <2>1
    <2>2. CASE elog' = Append(elog, wepoch)
      BY <1>1, <2>2, AppendFacts
    <2>3. QED
      BY <2>1, <2>2
  <1>3. ASSUME NEW k \in 1 .. Len(t)
        PROVE  /\ t[k].epoch <= wepoch'
               /\ t[k].offset <= Len(elog')
               /\ \A i \in 1 .. Len(elog') :
                    i > t[k].offset => elog'[i] >= t[k].epoch
               /\ k > 1 => \A i \in 1 .. Len(elog') :
                             i <= t[k].offset => elog'[i] <= t[k - 1].epoch
    <2>1. /\ t[k].epoch \in Epochs /\ t[k].offset \in Nat
          /\ t[k].epoch <= wepoch /\ t[k].offset <= n
          /\ \A i \in 1 .. n : i > t[k].offset => elog[i] >= t[k].epoch
          /\ k > 1 => \A i \in 1 .. n :
                        i <= t[k].offset => elog[i] <= t[k - 1].epoch
      BY <1>1, <1>3 DEF TableSound, EpochEntry
    <2>2. t[k].epoch <= wepoch' /\ t[k].offset <= Len(elog')
      BY <1>1, <1>2, <2>1, BoundsAssumption DEF Epochs
    <2>3. ASSUME NEW i \in 1 .. Len(elog')
          PROVE  /\ i > t[k].offset => elog'[i] >= t[k].epoch
                 /\ k > 1 /\ i <= t[k].offset => elog'[i] <= t[k - 1].epoch
      <3>1. CASE i \in 1 .. n
        BY <1>2, <2>1, <3>1
      <3>2. CASE i = n + 1 /\ elog'[i] = wepoch
        BY <1>1, <2>1, <3>2, BoundsAssumption DEF Epochs
      <3>3. QED
        BY <1>2, <3>1, <3>2
    <2>4. QED
      BY <2>2, <2>3
  <1>4. QED
    BY <1>3 DEF TableSound

(* How a step may change the list and the write epoch. *)
LEMMA ListStep ==
  ASSUME TypeOK, [Next]_vars
  PROVE  /\ wepoch' \in Epochs /\ wepoch' >= wepoch
         /\ elog' = elog \/ elog' = Append(elog, wepoch)
  <1> USE BoundsAssumption
  <1>1. ASSUME NEW e \in Epochs, NextEpoch(e)
        PROVE  wepoch' \in Epochs /\ wepoch' >= wepoch /\ elog' = elog
    BY <1>1 DEF NextEpoch, TypeOK, Epochs
  <1>2. CASE AppendEdge
    BY <1>2 DEF AppendEdge, TypeOK, Epochs
  <1>3. CASE UNCHANGED <<wepoch, elog>>
    BY <1>3 DEF TypeOK, Epochs
  <1>4. QED
    BY <1>1, <1>2, <1>3 DEF Next, Write, Read, vars, CreateTable, ReplaceTable,
       AppendEpoch, BeginRead, LoadBlock, LoadTable, ReadNull, LoadNum,
       ReadEmptyBlock, InitIterator, ReadRecycled, EndRead

(* Every table ever allocated stays sound, the replaced ones included. *)
LEMMA TablesSoundStep == IInv /\ [Next]_vars => TablesSound'
  <1> SUFFICES ASSUME IInv, [Next]_vars PROVE TablesSound'
    OBVIOUS
  <1> USE BoundsAssumption
  <1>1. TypeOK /\ LogSorted /\ TablesSound /\ CurrentComplete
    BY DEF IInv
  <1>2. \A t \in Seq(EpochEntry) : TableSound(t) => TableSound(t)'
    BY <1>1, ListStep, TableSoundStep DEF Epochs
  <1>3. \A k \in 1 .. Len(tabs) : tabs[k] \in Seq(EpochEntry) /\ TableSound(tabs[k])
    BY <1>1 DEF TypeOK, TablesSound
  <1>4. CASE CreateTable
    <2> DEFINE t == <<[offset |-> 0, epoch |-> wepoch]>>
    <2>1. /\ t \in Seq(EpochEntry) /\ Len(t) = 1
          /\ t[1].offset = 0 /\ t[1].epoch = wepoch
      BY <1>1 DEF TypeOK, EpochEntry
    <2>2. elog = << >>
      BY <1>1, <1>4 DEF CurrentComplete, CreateTable
    <2>3. TableSound(t)
      BY <1>1, <2>1, <2>2 DEF TableSound, TypeOK, Epochs
    <2> HIDE DEF t
    <2>4. tabs' = Append(tabs, t) /\ tabs \in Seq(Seq(EpochEntry))
      BY <1>1, <1>4 DEF CreateTable, TypeOK, t
    <2>5. \A k \in 1 .. Len(tabs') : tabs'[k] \in Seq(EpochEntry) /\ TableSound(tabs'[k])
      BY <1>3, <2>1, <2>3, <2>4, AppendFacts
    <2>6. UNCHANGED <<wepoch, elog>>
      BY <1>4 DEF CreateTable
    <2>7. QED
      BY <1>2, <2>5, <2>6 DEF TablesSound, TableSound
  <1>5. CASE ReplaceTable
    <2>1. /\ tabs' = Append(tabs, tabs[cur]) /\ tabs \in Seq(Seq(EpochEntry))
          /\ cur \in 1 .. Len(tabs)
      BY <1>1, <1>5 DEF ReplaceTable, TypeOK
    <2>2. \A k \in 1 .. Len(tabs') : TableSound(tabs'[k])
      <3> DEFINE t == tabs[cur]
      <3>1. t \in Seq(EpochEntry) /\ TableSound(t) /\ tabs' = Append(tabs, t)
        BY <1>3, <2>1
      <3> HIDE DEF t
      <3>2. /\ Len(tabs') = Len(tabs) + 1 /\ Len(tabs) \in Nat
            /\ \A k \in 1 .. Len(tabs) : tabs'[k] = tabs[k]
            /\ tabs'[Len(tabs) + 1] = t
        BY <2>1, <3>1, AppendFacts
      <3>3. \A k \in 1 .. Len(tabs') : k \in 1 .. Len(tabs) \/ k = Len(tabs) + 1
        BY <3>2
      <3>4. QED
        BY <1>3, <3>1, <3>2, <3>3
    <2>3. UNCHANGED <<wepoch, elog>>
      BY <1>5 DEF ReplaceTable
    <2>4. QED
      BY <2>2, <2>3 DEF TablesSound, TableSound
  <1>6. CASE AppendEpoch
    <2> DEFINE x == [offset |-> Len(elog), epoch |-> wepoch]
               t == tabs[cur]
               u == Append(t, x)
    <2>1. /\ cur \in 1 .. Len(tabs) /\ t \in Seq(EpochEntry) /\ TableSound(t)
          /\ x \in EpochEntry /\ x.offset = Len(elog) /\ x.epoch = wepoch
          /\ Len(elog) \in Nat /\ wepoch \in Nat
      BY <1>1, <1>3, <1>6 DEF AppendEpoch, TypeOK, EpochEntry, Epochs
    <2>2. \A i \in 1 .. Len(elog) : elog[i] \in Nat /\ elog[i] <= t[Len(t)].epoch
      BY <1>1, <1>6 DEF AppendEpoch, CurrentComplete, LastEpoch, TypeOK, Epochs
    <2> HIDE DEF x, t
    <2>3. /\ Len(u) = Len(t) + 1 /\ Len(t) \in Nat
          /\ \A k \in 1 .. Len(t) : u[k] = t[k] /\ t[k] \in EpochEntry
          /\ u[Len(t) + 1] = x
      BY <2>1, AppendFacts
    <2> HIDE DEF u
    <2>4. TableSound(u)
      <3>1. ASSUME NEW k \in 1 .. Len(u)
            PROVE  /\ u[k].epoch <= wepoch
                   /\ u[k].offset <= Len(elog)
                   /\ \A i \in 1 .. Len(elog) : i > u[k].offset => elog[i] >= u[k].epoch
                   /\ k > 1 => \A i \in 1 .. Len(elog) :
                                 i <= u[k].offset => elog[i] <= u[k - 1].epoch
        <4>1. CASE k \in 1 .. Len(t)
          <5>1. u[k] = t[k] /\ (k > 1 => u[k - 1] = t[k - 1])
            BY <2>3, <4>1
          <5>2. QED
            BY <2>1, <4>1, <5>1 DEF TableSound
        <4>2. CASE k = Len(t) + 1
          <5>1. u[k] = x /\ (k > 1 => u[k - 1] = t[Len(t)])
            BY <2>3, <4>2
          <5>2. QED
            BY <2>1, <2>2, <5>1, <4>2
        <4>3. QED
          BY <2>3, <4>1, <4>2
      <3>2. u[1].offset = 0 /\ Len(u) >= 1
        BY <2>1, <2>3 DEF TableSound
      <3>3. QED
        BY <3>1, <3>2 DEF TableSound
    <2>5. tabs' = [tabs EXCEPT ![cur] = u]
      BY <1>6 DEF AppendEpoch, u, t, x
    <2>6. \A k \in 1 .. Len(tabs') : TableSound(tabs'[k])
      BY <1>1, <1>3, <2>1, <2>4, <2>5 DEF TypeOK
    <2>7. UNCHANGED <<wepoch, elog>>
      BY <1>6 DEF AppendEpoch
    <2>8. QED
      BY <2>6, <2>7 DEF TablesSound, TableSound
  <1>7. CASE tabs' = tabs
    BY <1>2, <1>3, <1>7 DEF TablesSound
  <1>8. QED
    BY <1>4, <1>5, <1>6, <1>7 DEF Next, Write, Read, vars, NextEpoch, AppendEdge,
       BeginRead, LoadBlock, LoadTable, ReadNull, LoadNum, ReadEmptyBlock,
       InitIterator, ReadRecycled, EndRead

(* The table the segment points to covers the whole list. *)
LEMMA CurrentCompleteStep == IInv /\ [Next]_vars => CurrentComplete'
  <1> SUFFICES ASSUME TypeOK, LogSorted, CurrentComplete, [Next]_vars
               PROVE  CurrentComplete'
    BY DEF IInv
  <1> USE BoundsAssumption
  <1>1. CASE CreateTable
    BY <1>1 DEF CreateTable, CurrentComplete, TypeOK
  <1>2. CASE ReplaceTable
    <2>1. /\ cur \in 1 .. Len(tabs) /\ tabs' = Append(tabs, tabs[cur])
          /\ cur' = Len(tabs) + 1 /\ elog' = elog
      BY <1>2 DEF ReplaceTable, TypeOK
    <2>2. tabs'[cur'] = tabs[cur]
      BY <2>1 DEF TypeOK
    <2>3. QED
      BY <2>1, <2>2 DEF CurrentComplete, LastEpoch, TypeOK
  <1>3. CASE AppendEpoch
    <2> DEFINE x == [offset |-> Len(elog), epoch |-> wepoch]
    <2>1. /\ cur \in 1 .. Len(tabs) /\ cur' = cur /\ elog' = elog
          /\ tabs' = [tabs EXCEPT ![cur] = Append(tabs[cur], x)]
          /\ tabs[cur] \in Seq(EpochEntry) /\ x \in EpochEntry /\ x.epoch = wepoch
      BY <1>3 DEF AppendEpoch, TypeOK, EpochEntry
    <2> HIDE DEF x
    <2>2. tabs'[cur'] = Append(tabs[cur], x)
      BY <2>1 DEF TypeOK
    <2>3. LastEpoch(tabs'[cur']) = wepoch
      BY <2>1, <2>2, AppendFacts DEF LastEpoch
    <2>4. QED
      BY <2>1, <2>3 DEF CurrentComplete, LogSorted
  <1>4. CASE AppendEdge
    <2>1. /\ cur # 0 /\ cur' = cur /\ tabs' = tabs /\ elog' = Append(elog, wepoch)
          /\ LastEpoch(tabs[cur]) >= wepoch
          /\ elog \in Seq(Epochs) /\ wepoch \in Epochs
      BY <1>4 DEF AppendEdge, TypeOK
    <2>2. /\ Len(elog') = Len(elog) + 1 /\ Len(elog) \in Nat
          /\ \A i \in 1 .. Len(elog) : elog'[i] = elog[i]
          /\ elog'[Len(elog) + 1] = wepoch
      BY <2>1, AppendFacts
    <2>4. ASSUME NEW i \in 1 .. Len(elog') PROVE elog'[i] <= LastEpoch(tabs'[cur'])
      BY <2>1, <2>2 DEF CurrentComplete, Epochs
    <2>5. QED
      BY <2>1, <2>4 DEF CurrentComplete
  <1>5. CASE UNCHANGED <<elog, cur, tabs>>
    BY <1>5 DEF CurrentComplete, LastEpoch
  <1>6. QED
    BY <1>1, <1>2, <1>3, <1>4, <1>5 DEF Next, Write, Read, vars, NextEpoch,
       BeginRead, LoadBlock, LoadTable, ReadNull, LoadNum, ReadEmptyBlock,
       InitIterator, ReadRecycled, EndRead

(* A table a reader holds is never shortened nor its last epoch lowered. *)
LEMMA TablesGrow ==
  ASSUME TypeOK, TablesSound, [Next]_vars
  PROVE  /\ Len(tabs') >= Len(tabs)
         /\ \A k \in 1 .. Len(tabs) :
              LastEpoch(tabs[k]) \in Nat /\ LastEpoch(tabs'[k]) \in Nat
              /\ LastEpoch(tabs'[k]) >= LastEpoch(tabs[k])
  <1> USE BoundsAssumption
  <1>1. \A k \in 1 .. Len(tabs) :
          tabs[k] \in Seq(EpochEntry) /\ Len(tabs[k]) >= 1
          /\ LastEpoch(tabs[k]) \in Nat
    <2> SUFFICES ASSUME NEW k \in 1 .. Len(tabs)
                 PROVE  /\ tabs[k] \in Seq(EpochEntry) /\ Len(tabs[k]) >= 1
                        /\ LastEpoch(tabs[k]) \in Nat
      OBVIOUS
    <2>1. tabs[k] \in Seq(EpochEntry) /\ Len(tabs[k]) >= 1
      BY DEF TypeOK, TablesSound, TableSound
    <2>2. tabs[k][Len(tabs[k])] \in EpochEntry
      BY <2>1
    <2>3. QED
      BY <2>1, <2>2 DEF LastEpoch, EpochEntry, Epochs
  <1>2. ASSUME NEW t \in Seq(EpochEntry), tabs' = Append(tabs, t)
        PROVE  Len(tabs') >= Len(tabs) /\ \A k \in 1 .. Len(tabs) : tabs'[k] = tabs[k]
    BY <1>2 DEF TypeOK
  <1>3. CASE CreateTable
    <2>1. <<[offset |-> 0, epoch |-> wepoch]>> \in Seq(EpochEntry)
      BY DEF TypeOK, EpochEntry
    <2>2. QED
      BY <1>1, <1>2, <1>3, <2>1 DEF CreateTable
  <1>4. CASE ReplaceTable
    <2>1. tabs[cur] \in Seq(EpochEntry)
      BY <1>1, <1>4 DEF ReplaceTable, TypeOK
    <2>2. QED
      BY <1>1, <1>2, <1>4, <2>1 DEF ReplaceTable
  <1>5. CASE AppendEpoch
    <2> DEFINE x == [offset |-> Len(elog), epoch |-> wepoch]
    <2>1. /\ cur \in 1 .. Len(tabs)
          /\ tabs' = [tabs EXCEPT ![cur] = Append(tabs[cur], x)]
          /\ x \in EpochEntry /\ x.epoch = wepoch /\ wepoch \in Nat
          /\ LastEpoch(tabs[cur]) < wepoch
      BY <1>5 DEF AppendEpoch, TypeOK, EpochEntry, Epochs
    <2> HIDE DEF x
    <2>2. LastEpoch(Append(tabs[cur], x)) = wepoch
      BY <1>1, <2>1, AppendFacts DEF LastEpoch
    <2>3. \A k \in 1 .. Len(tabs) : k # cur => tabs'[k] = tabs[k]
      BY <2>1 DEF TypeOK
    <2>4. tabs'[cur] = Append(tabs[cur], x) /\ Len(tabs') = Len(tabs)
      BY <2>1 DEF TypeOK
    <2>5. QED
      BY <1>1, <2>1, <2>2, <2>3, <2>4 DEF TypeOK
  <1>6. CASE tabs' = tabs
    BY <1>1, <1>6 DEF TypeOK
  <1>7. QED
    BY <1>3, <1>4, <1>5, <1>6 DEF Next, Write, Read, vars, NextEpoch, AppendEdge,
       BeginRead, LoadBlock, LoadTable, ReadNull, LoadNum, ReadEmptyBlock,
       InitIterator, ReadRecycled, EndRead

(* A step of the writer disturbs no reader: what it appends is newer than   *)
(* every epoch that is being read.                                          *)
LEMMA WriterKeepsReader ==
  ASSUME IInv, [Next]_vars, rd' = rd, NEW r \in Readers
  PROVE  ReaderSound(r)' /\ SnapshotOf(r)'
  <1> DEFINE q == rd[r]
             n == Len(elog)
  <1>1. /\ q \in ReaderType /\ rd'[r] = q /\ n \in Nat /\ wepoch \in Nat
        /\ ReaderSound(r) /\ SnapshotOf(r)
        /\ \A i \in 1 .. n : elog[i] \in Nat
    BY BoundsAssumption DEF IInv, TypeOK, SnapshotRead, Epochs
  <1>2. wepoch' \in Nat /\ wepoch' >= wepoch
    BY ListStep DEF IInv, Epochs
  <1>3. /\ Len(elog') \in Nat /\ Len(elog') >= n
        /\ \A i \in 1 .. n : elog'[i] = elog[i]
        /\ \A i \in 1 .. Len(elog') : i \in 1 .. n \/ (i > n /\ elog'[i] = wepoch)
    <2>1. elog \in Seq(Epochs) /\ wepoch \in Epochs
      BY DEF IInv, TypeOK
    <2>2. CASE elog' = elog
      BY <2>1, <2>2
    <2>3. CASE elog' = Append(elog, wepoch)
      BY <2>1, <2>3, AppendFacts
    <2>4. QED
      BY <2>2, <2>3, ListStep DEF IInv
  <1>4. /\ Len(tabs) \in Nat /\ Len(tabs') \in Nat /\ Len(tabs') >= Len(tabs)
        /\ \A k \in 1 .. Len(tabs) :
             LastEpoch(tabs[k]) \in Nat /\ LastEpoch(tabs'[k]) \in Nat
             /\ LastEpoch(tabs'[k]) >= LastEpoch(tabs[k])
    BY TablesGrow, TypeStep DEF IInv, TypeOK
  <1>5. /\ q.epoch \in Nat /\ q.num \in Nat /\ q.out \in Nat
        /\ q.base \in Nat /\ q.baseTab \in Nat
        /\ q.low \in Nat \cup {-1} /\ q.tab \in Nat \cup {-1}
    BY <1>1, BoundsAssumption DEF ReaderType, Epochs, NotLoaded
  <1>6. ReaderSound(r)'
    <2>1. q.pc # "idle" =>
            /\ q.epoch < wepoch'
            /\ q.base <= Len(elog')
            /\ q.baseTab = 0 => q.base = 0
            /\ \A i \in 1 .. Len(elog') : i > q.base => elog'[i] > q.epoch
      <3> SUFFICES ASSUME q.pc # "idle"
                   PROVE  /\ q.epoch < wepoch'
                          /\ q.base <= Len(elog')
                          /\ q.baseTab = 0 => q.base = 0
                          /\ \A i \in 1 .. Len(elog') :
                               i > q.base => elog'[i] > q.epoch
        OBVIOUS
      <3>1. /\ q.epoch < wepoch /\ q.base <= n /\ (q.baseTab = 0 => q.base = 0)
            /\ \A i \in 1 .. n : i > q.base => elog[i] > q.epoch
        BY <1>1 DEF ReaderSound
      <3>2. n \in Nat /\ wepoch \in Nat /\ \A i \in 1 .. n : elog[i] \in Nat
        BY <1>1
      <3> HIDE DEF q, n
      <3>3. ASSUME NEW i \in 1 .. Len(elog'), i > q.base PROVE elog'[i] > q.epoch
        <4>1. CASE i \in 1 .. n
          BY <1>3, <3>1, <3>3, <4>1
        <4>2. CASE i > n /\ elog'[i] = wepoch
          BY <1>5, <3>1, <3>2, <4>2
        <4>3. QED
          BY <1>3, <4>1, <4>2
      <3>4. q.epoch < wepoch' /\ q.base <= Len(elog')
        BY <1>2, <1>3, <1>5, <3>1, <3>2
      <3>5. QED
        BY <3>1, <3>3, <3>4
    <2>2. q.low # NotLoaded =>
            q.pc # "idle" /\ q.base <= q.low /\ q.low <= Len(elog')
      BY <1>1, <1>3, <1>5 DEF ReaderSound, NotLoaded
    <2>3. q.tab # NotLoaded =>
            q.pc # "idle" /\ q.tab <= Len(tabs') /\ q.baseTab <= q.tab
      BY <1>1, <1>4, <1>5 DEF ReaderSound, NotLoaded
    <2>4. q.pc = "init" =>
            /\ q.low # NotLoaded /\ q.tab # NotLoaded /\ q.tab # 0
            /\ q.low <= q.num /\ q.num <= Len(elog')
            /\ q.view = "fresh" => \A i \in 1 .. Len(elog') :
                 i <= q.num => elog'[i] <= LastEpoch(tabs'[q.tab])
      <3> SUFFICES ASSUME q.pc = "init"
                   PROVE  /\ q.low # NotLoaded /\ q.tab # NotLoaded /\ q.tab # 0
                          /\ q.low <= q.num /\ q.num <= Len(elog')
                          /\ q.view = "fresh" => \A i \in 1 .. Len(elog') :
                               i <= q.num => elog'[i] <= LastEpoch(tabs'[q.tab])
        OBVIOUS
      <3>1. /\ q.low # NotLoaded /\ q.tab # NotLoaded /\ q.tab # 0
            /\ q.low <= q.num /\ q.num <= n /\ q.tab \in 1 .. Len(tabs)
            /\ q.view = "fresh" => \A i \in 1 .. n :
                 i <= q.num => elog[i] <= LastEpoch(tabs[q.tab])
        <4>1. /\ q.low # NotLoaded /\ q.tab # NotLoaded /\ q.tab # 0
              /\ q.low <= q.num /\ q.num <= n /\ q.tab <= Len(tabs)
              /\ q.view = "fresh" => \A i \in 1 .. n :
                   i <= q.num => elog[i] <= LastEpoch(tabs[q.tab])
          BY <1>1 DEF ReaderSound
        <4>2. q.tab \in 1 .. Len(tabs)
          BY <1>4, <1>5, <4>1 DEF NotLoaded
        <4>3. QED
          BY <4>1, <4>2
      <3> HIDE DEF q, n
      <3>2. ASSUME q.view = "fresh", NEW i \in 1 .. Len(elog'), i <= q.num
            PROVE  elog'[i] <= LastEpoch(tabs'[q.tab])
        <4>1. i \in 1 .. n /\ elog'[i] = elog[i] /\ elog[i] \in Nat
          BY <1>1, <1>3, <1>5, <3>1, <3>2
        <4>2. elog[i] <= LastEpoch(tabs[q.tab])
          BY <3>1, <3>2, <4>1
        <4>3. QED
          BY <1>4, <3>1, <4>1, <4>2
      <3>3. QED
        BY <1>1, <1>3, <1>5, <3>1, <3>2
    <2>5. q.pc = "load" => q.view = "fresh"
      BY <1>1 DEF ReaderSound
    <2>6. QED
      BY <1>1, <2>1, <2>2, <2>3, <2>4, <2>5 DEF ReaderSound
  <1>7. SnapshotOf(r)'
    <2> SUFFICES ASSUME q.pc = "done", q.view = "fresh"
                 PROVE  /\ q.out <= Len(elog')
                        /\ \A i \in 1 .. Len(elog') :
                             i <= q.out <=> elog'[i] <= q.epoch
      BY <1>1 DEF SnapshotOf
    <2>1. /\ q.out <= n /\ q.epoch < wepoch
          /\ \A i \in 1 .. n : i <= q.out <=> elog[i] <= q.epoch
      BY <1>1 DEF SnapshotOf, ReaderSound
    <2>2. n \in Nat /\ wepoch \in Nat
      BY <1>1
    <2> HIDE DEF q, n
    <2>3. ASSUME NEW i \in 1 .. Len(elog')
          PROVE  i <= q.out <=> elog'[i] <= q.epoch
      <3>1. CASE i \in 1 .. n
        BY <1>3, <2>1, <3>1
      <3>2. CASE i > n /\ elog'[i] = wepoch
        BY <1>5, <2>1, <2>2, <3>2
      <3>3. QED
        BY <1>3, <3>1, <3>2
    <2>4. QED
      BY <1>3, <1>5, <2>1, <2>2, <2>3
  <1>8. QED
    BY <1>6, <1>7

(* A reader that initialises its iterator on a fresh view finds exactly the *)
(* entries of the epochs up to its own.                                     *)
LEMMA InitIteratorSnapshot ==
  ASSUME IInv, NEW r \in Readers, InitIterator(r), rd[r].view = "fresh"
  PROVE  /\ rd'[r].out <= Len(elog)
         /\ \A i \in 1 .. Len(elog) : i <= rd'[r].out <=> elog[i] <= rd[r].epoch
  <1> DEFINE q == rd[r]
             n == Len(elog)
             t == tabs[q.tab]
  <1>1. /\ q \in ReaderType /\ ReaderSound(r) /\ q.pc = "init"
        /\ n \in Nat /\ \A i \in 1 .. n : elog[i] \in Nat
    <2>1. q.pc = "init"
      BY DEF InitIterator
    <2>2. q \in ReaderType /\ ReaderSound(r)
      BY DEF IInv, TypeOK
    <2>3. elog \in Seq(Epochs) /\ Epochs \subseteq Nat
      BY BoundsAssumption DEF IInv, TypeOK, Epochs
    <2>4. n \in Nat
      BY <2>3
    <2>5. ASSUME NEW i \in 1 .. n PROVE elog[i] \in Nat
      <3>1. elog[i] \in Epochs
        BY <2>3
      <3>2. QED
        BY <2>3, <3>1
    <2>6. QED
      BY <2>1, <2>2, <2>4, <2>5, Zenon
  <1>2. /\ q.epoch \in Nat /\ q.num \in Nat /\ q.low \in Nat
        /\ q.low <= q.num /\ q.num <= n
        /\ \A i \in 1 .. n : i > q.low => elog[i] > q.epoch
        /\ \A i \in 1 .. n : i <= q.num => elog[i] <= t[Len(t)].epoch
        /\ q.tab \in 1 .. Len(tabs)
    <2>1. /\ q.epoch \in Nat /\ q.num \in Nat /\ q.low \in Nat /\ q.base \in Nat
          /\ q.tab \in Nat /\ Len(tabs) \in Nat
      BY <1>1, BoundsAssumption
         DEF ReaderSound, ReaderType, NotLoaded, Epochs, IInv, TypeOK
    <2>2. /\ q.base <= q.low /\ q.low <= q.num /\ q.num <= n
          /\ \A i \in 1 .. n : i > q.base => elog[i] > q.epoch
          /\ \A i \in 1 .. n : i <= q.num => elog[i] <= t[Len(t)].epoch
          /\ q.tab # 0 /\ q.tab <= Len(tabs)
      BY <1>1 DEF ReaderSound, LastEpoch
    <2> HIDE DEF q, n, t
    <2>3. QED
      BY <1>1, <2>1, <2>2
  <1>3. t \in Seq(EpochEntry) /\ TableSound(t)
    BY <1>2 DEF IInv, TypeOK, TablesSound
  <1>4. Len(t) \in Nat /\ \A k \in 1 .. Len(t) : t[k].epoch \in Nat /\ t[k].offset \in Nat
    <2>1. Len(t) \in Nat /\ \A k \in 1 .. Len(t) : t[k] \in EpochEntry
      BY <1>3
    <2> HIDE DEF t
    <2>2. QED
      BY <2>1, BoundsAssumption DEF EpochEntry, Epochs
  <1>5. rd \in [Readers -> ReaderType]
    BY DEF IInv, TypeOK
  <1>6. CASE /\ \A k \in 1 .. Len(t) : t[k].epoch > q.epoch
             /\ rd' = [rd EXCEPT ![r].pc = "done", ![r].out = 0]
    <2>1. rd'[r].out = 0
      BY <1>1, <1>5, <1>6 DEF ReaderType
    <2>2. \A i \in 1 .. n : elog[i] >= t[1].epoch /\ t[1].epoch > q.epoch
      BY <1>1, <1>3, <1>4, <1>6 DEF TableSound
    <2> HIDE DEF q, n, t
    <2>3. \A i \in 1 .. n : ~(i <= 0) /\ ~(elog[i] <= q.epoch)
      <3>1. Len(t) >= 1
        BY <1>3 DEF TableSound
      <3>2. QED
        BY <1>1, <1>2, <1>4, <2>2, <3>1
    <2>4. QED
      BY <1>1, <2>1, <2>3 DEF q, n
  <1>7. ASSUME NEW k \in 1 .. Len(t), NewestReached(t, k, q.epoch),
               rd' = [rd EXCEPT ![r].pc = "done",
                        ![r].out = IF k = Len(t) THEN q.num ELSE t[k + 1].offset]
        PROVE  /\ rd'[r].out <= n
               /\ \A i \in 1 .. n : i <= rd'[r].out <=> elog[i] <= q.epoch
    <2>1. rd'[r].out = IF k = Len(t) THEN q.num ELSE t[k + 1].offset
      BY <1>1, <1>5, <1>7 DEF ReaderType
    <2>2. /\ t[k].epoch <= q.epoch
          /\ k # Len(t) => k + 1 \in 1 .. Len(t) /\ t[k + 1].epoch > q.epoch
      BY <1>4, <1>7 DEF NewestReached
    <2> HIDE DEF q, n, t
    <2>3. CASE k = Len(t)
      BY <1>1, <1>2, <1>4, <2>1, <2>2, <2>3
    <2>4. CASE k # Len(t)
      <3>1. /\ t[k + 1].offset <= n
            /\ \A i \in 1 .. n : i > t[k + 1].offset => elog[i] >= t[k + 1].epoch
            /\ \A i \in 1 .. n : i <= t[k + 1].offset => elog[i] <= t[k].epoch
        <4>1. k + 1 \in 1 .. Len(t) /\ k + 1 > 1 /\ (k + 1) - 1 = k
          BY <1>4, <2>2, <2>4
        <4>2. QED
          BY <1>3, <4>1 DEF TableSound, n
      <3>2. /\ rd'[r].out = t[k + 1].offset
            /\ t[k + 1].offset \in Nat /\ t[k + 1].epoch \in Nat /\ t[k].epoch \in Nat
        BY <1>4, <2>1, <2>2, <2>4
      <3>3. ASSUME NEW i \in 1 .. n
            PROVE  i <= t[k + 1].offset <=> elog[i] <= q.epoch
        <4>1. elog[i] \in Nat /\ q.epoch \in Nat
          BY <1>1, <1>2 DEF n
        <4>2. QED
          BY <2>2, <2>4, <3>1, <3>2, <4>1
      <3>4. QED
        BY <3>1, <3>2, <3>3
    <2>5. QED
      BY <2>3, <2>4
  <1>8. QED
    BY <1>6, <1>7 DEF InitIterator

(* A step of a reader establishes what the invariant says of that reader. *)
LEMMA ReaderStep ==
  ASSUME IInv, NEW r \in Readers, Read(r)
  PROVE  ReaderSound(r)' /\ SnapshotOf(r)'
  <1> DEFINE q == rd[r]
  <1>1. /\ rd \in [Readers -> ReaderType] /\ q \in ReaderType
        /\ Len(elog) \in Nat /\ Len(tabs) \in Nat /\ cur \in 0 .. Len(tabs)
        /\ wepoch \in Nat
        /\ \A i \in 1 .. Len(elog) : elog[i] \in Nat
        /\ ReaderSound(r) /\ CurrentComplete
    BY BoundsAssumption DEF IInv, TypeOK, Epochs
  <1>2. ASSUME NEW e \in Epochs, BeginRead(r, e)
        PROVE  ReaderSound(r)' /\ SnapshotOf(r)'
    <2>1. PICK n \in 0 .. Len(elog), c \in 0 .. cur :
            /\ \A i \in (n + 1) .. Len(elog) : elog[i] > e
            /\ c = 0 => n = 0
            /\ rd' = [rd EXCEPT ![r] = [IdleReader EXCEPT !.pc = "load", !.epoch = e,
                                          !.base = n, !.baseTab = c]]
      BY <1>2 DEF BeginRead
    <2>2. e < wepoch /\ UNCHANGED <<wepoch, elog, tabs, cur>>
      BY <1>2 DEF BeginRead
    <2>3. /\ rd'[r].pc = "load" /\ rd'[r].epoch = e /\ rd'[r].low = NotLoaded
          /\ rd'[r].tab = NotLoaded /\ rd'[r].view = "fresh"
          /\ rd'[r].base = n /\ rd'[r].baseTab = c
      BY <1>1, <2>1 DEF IdleReader
    <2>4. \A i \in 1 .. Len(elog) : i > n => elog[i] > e
      BY <1>1, <2>1
    <2>5. QED
      BY <1>1, <2>1, <2>2, <2>3, <2>4 DEF ReaderSound, SnapshotOf
  <1>3. CASE LoadBlock(r)
    <2>1. PICK n \in q.base .. Len(elog) : rd' = [rd EXCEPT ![r].low = n]
      BY <1>3 DEF LoadBlock
    <2>2. q.pc = "load" /\ UNCHANGED <<wepoch, elog, tabs, cur>>
      BY <1>3 DEF LoadBlock
    <2>3. /\ rd'[r].pc = "load" /\ rd'[r].epoch = q.epoch /\ rd'[r].low = n
          /\ rd'[r].tab = q.tab /\ rd'[r].view = q.view
          /\ rd'[r].base = q.base /\ rd'[r].baseTab = q.baseTab
      BY <1>1, <2>1, <2>2 DEF ReaderType
    <2>4. q.base \in Nat /\ q.base <= n /\ n <= Len(elog)
      BY <1>1, <2>1 DEF ReaderType
    <2>5. QED
      BY <1>1, <2>2, <2>3, <2>4 DEF ReaderSound, SnapshotOf
  <1>4. CASE LoadTable(r)
    <2>1. PICK c \in q.baseTab .. cur : rd' = [rd EXCEPT ![r].tab = c]
      BY <1>4 DEF LoadTable
    <2>2. q.pc = "load" /\ UNCHANGED <<wepoch, elog, tabs, cur>>
      BY <1>4 DEF LoadTable
    <2>3. /\ rd'[r].pc = "load" /\ rd'[r].epoch = q.epoch /\ rd'[r].low = q.low
          /\ rd'[r].tab = c /\ rd'[r].view = q.view
          /\ rd'[r].base = q.base /\ rd'[r].baseTab = q.baseTab
      BY <1>1, <2>1, <2>2 DEF ReaderType
    <2>4. q.baseTab \in Nat /\ q.baseTab <= c /\ c <= Len(tabs)
      BY <1>1, <2>1 DEF ReaderType
    <2>5. QED
      BY <1>1, <2>2, <2>3, <2>4 DEF ReaderSound, SnapshotOf
  <1>5. CASE ReadNull(r)
    <2>1. /\ rd'[r] = [q EXCEPT !.pc = "done", !.out = 0] /\ q.pc = "load"
          /\ q.low = 0 \/ q.tab = 0
          /\ UNCHANGED <<wepoch, elog, tabs, cur>>
      BY <1>1, <1>5 DEF ReadNull
    <2>2. /\ rd'[r].pc = "done" /\ rd'[r].epoch = q.epoch /\ rd'[r].low = q.low
          /\ rd'[r].base = q.base /\ rd'[r].baseTab = q.baseTab
          /\ rd'[r].tab = q.tab /\ rd'[r].view = q.view /\ rd'[r].out = 0
      BY <1>1, <2>1 DEF ReaderType
    <2>3. q.epoch \in Nat /\ \A i \in 1 .. Len(elog) : elog[i] > q.epoch
      <3>1. q.base \in Nat /\ q.baseTab \in Nat /\ q.epoch \in Nat
        BY <1>1, BoundsAssumption DEF ReaderType, Epochs
      <3>2. q.base = 0
        BY <1>1, <2>1, <3>1 DEF ReaderSound, NotLoaded
      <3>3. QED
        BY <1>1, <2>1, <3>1, <3>2 DEF ReaderSound
    <2>4. QED
      BY <1>1, <2>1, <2>2, <2>3 DEF ReaderSound, SnapshotOf
  <1>6. CASE LoadNum(r)
    <2>1. PICK n \in q.low .. Len(elog) :
            rd' = [rd EXCEPT ![r].pc = "init", ![r].num = n,
                     ![r].view = IF rd[r].tab = cur THEN "fresh" ELSE "stale"]
      BY <1>6 DEF LoadNum
    <2>2. /\ rd'[r].pc = "init" /\ rd'[r].epoch = q.epoch /\ rd'[r].low = q.low
          /\ rd'[r].base = q.base /\ rd'[r].baseTab = q.baseTab
          /\ rd'[r].tab = q.tab /\ rd'[r].num = n
          /\ rd'[r].view = "fresh" => q.tab = cur
      BY <1>1, <2>1 DEF ReaderType
    <2>3. /\ UNCHANGED <<wepoch, elog, tabs, cur>> /\ q.pc = "load"
          /\ q.low # NotLoaded /\ q.tab # NotLoaded /\ q.tab # 0
      BY <1>6 DEF LoadNum
    <2>4. q.low \in Nat
      BY <1>1, <2>3 DEF ReaderType
    <2>5. q.tab = cur => \A i \in 1 .. Len(elog) : elog[i] <= LastEpoch(tabs[q.tab])
      BY <1>1, <2>3 DEF CurrentComplete
    <2>6. QED
      BY <1>1, <2>1, <2>2, <2>3, <2>4, <2>5 DEF ReaderSound, SnapshotOf
  <1>7. CASE ReadEmptyBlock(r)
    <2>1. /\ rd'[r] = [q EXCEPT !.pc = "done", !.out = 0,
                        !.view = IF q.low = 0 THEN "fresh" ELSE "stale"]
          /\ q.pc = "load" /\ q.low # NotLoaded /\ q.tab # NotLoaded
          /\ UNCHANGED <<wepoch, elog, tabs, cur>>
      BY <1>1, <1>7 DEF ReadEmptyBlock
    <2>2. /\ rd'[r].pc = "done" /\ rd'[r].epoch = q.epoch /\ rd'[r].low = q.low
          /\ rd'[r].base = q.base /\ rd'[r].baseTab = q.baseTab
          /\ rd'[r].tab = q.tab /\ rd'[r].out = 0
          /\ rd'[r].view = "fresh" => q.low = 0
      BY <1>1, <2>1 DEF ReaderType
    <2>3. /\ q.epoch \in Nat
          /\ q.low = 0 => \A i \in 1 .. Len(elog) : elog[i] > q.epoch
      <3>1. q.base \in Nat /\ q.epoch \in Nat
        BY <1>1, BoundsAssumption DEF ReaderType, Epochs
      <3>2. q.low = 0 => q.base = 0
        BY <1>1, <2>1, <3>1 DEF ReaderSound, NotLoaded
      <3>3. QED
        BY <1>1, <2>1, <3>1, <3>2 DEF ReaderSound
    <2>4. QED
      BY <1>1, <2>1, <2>2, <2>3 DEF ReaderSound, SnapshotOf
  <1>8. CASE InitIterator(r)
    <2>1. /\ q.pc = "init" /\ UNCHANGED <<wepoch, elog, tabs, cur>>
          /\ \E m : rd' = [rd EXCEPT ![r].pc = "done", ![r].out = m]
      BY <1>8 DEF InitIterator
    <2>2. /\ rd'[r].pc = "done" /\ rd'[r].epoch = q.epoch /\ rd'[r].low = q.low
          /\ rd'[r].base = q.base /\ rd'[r].baseTab = q.baseTab
          /\ rd'[r].tab = q.tab /\ rd'[r].view = q.view
      BY <1>1, <2>1 DEF ReaderType
    <2>3. QED
      BY <1>1, <1>8, <2>1, <2>2, InitIteratorSnapshot DEF ReaderSound, SnapshotOf
  <1>9. CASE EndRead(r)
    <2>1. rd'[r] = IdleReader /\ UNCHANGED <<wepoch, elog, tabs, cur>>
      BY <1>1, <1>9 DEF EndRead
    <2>2. QED
      BY <2>1 DEF ReaderSound, SnapshotOf, IdleReader
  <1>10. CASE ReadRecycled(r)
    <2>1. /\ q.pc \in {"load", "init"} /\ UNCHANGED <<wepoch, elog, tabs, cur>>
          /\ \E m : rd' = [rd EXCEPT ![r].pc = "done", ![r].out = m,
                                     ![r].view = "stale"]
      BY <1>10 DEF ReadRecycled
    <2>2. /\ rd'[r].pc = "done" /\ rd'[r].epoch = q.epoch /\ rd'[r].low = q.low
          /\ rd'[r].base = q.base /\ rd'[r].baseTab = q.baseTab
          /\ rd'[r].tab = q.tab /\ rd'[r].view = "stale"
      BY <1>1, <2>1 DEF ReaderType
    <2>3. QED
      BY <1>1, <2>1, <2>2 DEF ReaderSound, SnapshotOf
  <1>11. QED
    BY <1>2, <1>3, <1>4, <1>5, <1>6, <1>7, <1>8, <1>9, <1>10 DEF Read

(* The inductive step: every action keeps the invariant. *)
LEMMA IInvStep == IInv /\ [Next]_vars => IInv'
  <1> SUFFICES ASSUME IInv, [Next]_vars PROVE IInv'
    OBVIOUS
  <1>1. \A s \in Readers : ReaderSound(s)' /\ SnapshotOf(s)'
    <2>1. CASE rd' = rd
      BY <2>1, WriterKeepsReader
    <2>2. ASSUME NEW r \in Readers, Read(r)
          PROVE  \A s \in Readers : ReaderSound(s)' /\ SnapshotOf(s)'
      <3> SUFFICES ASSUME NEW s \in Readers PROVE ReaderSound(s)' /\ SnapshotOf(s)'
        OBVIOUS
      <3>1. CASE s = r
        BY <2>2, <3>1, ReaderStep
      <3>2. CASE s # r
        <4>1. rd'[s] = rd[s] /\ UNCHANGED <<wepoch, elog, tabs, cur>>
          BY <2>2, <3>2 DEF IInv, TypeOK, Read, BeginRead, LoadBlock, LoadTable,
             ReadNull, LoadNum, ReadEmptyBlock, InitIterator, ReadRecycled, EndRead
        <4>2. ReaderSound(s) /\ SnapshotOf(s)
          BY DEF IInv, SnapshotRead
        <4>3. QED
          BY <4>1, <4>2 DEF ReaderSound, SnapshotOf, LastEpoch
      <3>3. QED
        BY <3>1, <3>2
    <2>3. QED
      BY <2>1, <2>2 DEF Next, Write, vars, NextEpoch, CreateTable, ReplaceTable,
         AppendEpoch, AppendEdge
  <1>2. QED
    BY <1>1, TypeStep, LogSortedStep, TablesSoundStep, CurrentCompleteStep
       DEF IInv, SnapshotRead

(* The inductive invariant holds in every reachable state. *)
THEOREM Invariance == Spec => []IInv
  BY InitIInv, IInvStep, PTL DEF Spec

(* The variables of the epoch-table protocol always have their types. *)
THEOREM TypeCorrect == Spec => []TypeOK
  <1>1. IInv => TypeOK
    BY DEF IInv
  <1>2. QED
    BY <1>1, Invariance, PTL

(* Whatever the number of readers, epochs and edges: a read of a published  *)
(* epoch that no writer overtook visits exactly the entries of the epochs   *)
(* up to its own.                                                           *)
THEOREM SnapshotCorrect == Spec => []SnapshotRead
  <1>1. IInv => SnapshotRead
    BY DEF IInv
  <1>2. QED
    BY <1>1, Invariance, PTL
=============================================================================
