------------------------- MODULE RevisionStoreProofs -------------------------
(* Proofs about RevisionStore for any set of configurations, any number of    *)
(* saves and any behaviour of the clock.                                      *)
EXTENDS RevisionStore, FiniteSetTheorems, SequenceTheorems, TLAPS

StoreInv == StoreTypeOK /\ SaveProgress /\ ListedComplete /\ CurrentListed

\* There are finitely many IDs, so the number of listed revisions is a number.
LEMMA ListedIsFinite == \A files : IsFiniteSet(Listed(files))
<1> TAKE files
<1>1. IsFiniteSet(0..MaxClock) /\ IsFiniteSet(0..MaxSuffix)
  BY StoreAssumption, FS_Interval
<1>2. IsFiniteSet(Ids)
  BY <1>1, FS_Product DEF Ids
<1>3. QED
  BY <1>2, FS_Subset DEF Listed

LEMMA ListedFinite == \A files : Cardinality(Listed(files)) \in Nat
BY ListedIsFinite, FS_CardinalityType

LEMMA StoreInitInv == StoreInit => StoreInv
BY StoreAssumption DEF StoreInit, StoreInv, StoreTypeOK, SaveProgress, ListedComplete,
   CurrentListed, Listed, Steps

LEMMA StoreStepInv == StoreInv /\ [StoreNext]_storeVars => StoreInv'
<1> SUFFICES ASSUME StoreInv, [StoreNext]_storeVars PROVE StoreInv'
  OBVIOUS
<1> USE StoreAssumption DEF StoreInv, diskVars, saveVars, readVars
<1>1. ASSUME NEW c \in Contents, BeginSave(c) PROVE StoreInv'
  BY <1>1 DEF BeginSave, FreeId, StoreTypeOK, SaveProgress, ListedComplete, CurrentListed,
     Listed, Steps
<1>2. CASE MakeDir
  BY <1>2 DEF MakeDir, StoreTypeOK, SaveProgress, ListedComplete, CurrentListed,
     Listed, Steps
<1>3. CASE CreateYaml
  BY <1>3 DEF CreateYaml, StoreTypeOK, SaveProgress, ListedComplete, CurrentListed,
     Listed, Steps
<1>4. CASE WriteYaml
  BY <1>4 DEF WriteYaml, StoreTypeOK, SaveProgress, ListedComplete, CurrentListed,
     Listed, Steps
<1>5. CASE CreateMeta
  BY <1>5 DEF CreateMeta, StoreTypeOK, SaveProgress, ListedComplete, CurrentListed,
     Listed, Steps
<1>6. CASE WriteMeta
  <2>1. Cardinality(Listed(meta)) \in Nat
    BY ListedFinite
  <2>2. QED
    BY <1>6, <2>1 DEF WriteMeta, StoreTypeOK, SaveProgress, ListedComplete, CurrentListed,
       Listed, Steps
<1>7. CASE Unlink
  BY <1>7 DEF Unlink, StoreTypeOK, SaveProgress, ListedComplete, CurrentListed,
     Listed, Steps
<1>8. CASE Link
  BY <1>8 DEF Link, ReturnFromSave, StoreTypeOK, SaveProgress, ListedComplete, CurrentListed,
     Listed, Steps
<1>9. CASE AbortSave
  BY <1>9 DEF AbortSave, ReturnFromSave, StoreTypeOK, SaveProgress, ListedComplete,
     CurrentListed, Listed, Steps
<1>10. CASE Tick \/ StepBack
  <2>1. clock' \in Nat /\ steps' \in Nat
    BY <1>10 DEF Tick, StepBack, StoreTypeOK
  <2>2. UNCHANGED <<dirs, yaml, meta, current, pc, id, content, now, order,
                    reader, list, seen, previous>>
    BY <1>10 DEF Tick, StepBack
  <2>3. QED
    BY <2>1, <2>2 DEF StoreTypeOK, SaveProgress, ListedComplete, CurrentListed, Listed
<1>11. CASE ReadList
  BY <1>11 DEF ReadList, StoreTypeOK, SaveProgress, ListedComplete,
     CurrentListed, Listed, Steps
<1>12. CASE ReadCurrent
  <2>1. previous' \in Ids \union {NoId}
    BY <1>12 DEF ReadCurrent, Listed
  <2>2. QED
    BY <1>12, <2>1 DEF ReadCurrent, StoreTypeOK, SaveProgress, ListedComplete,
       CurrentListed, Listed, Steps
<1>13. CASE UNCHANGED storeVars
  BY <1>13 DEF storeVars, StoreTypeOK, SaveProgress, ListedComplete,
     CurrentListed, Listed, Steps
<1>14. QED
  BY <1>1, <1>2, <1>3, <1>4, <1>5, <1>6, <1>7, <1>8, <1>9, <1>10, <1>11, <1>12, <1>13
  DEF StoreNext, Save

LEMMA StoreInvariance == StoreSpec => []StoreInv
BY StoreInitInv, StoreStepInv, PTL DEF StoreSpec

\* Every state of the store is well typed: what Save makes and the symlink names
\* are IDs of clock readings.
THEOREM StoreTypeCorrect == StoreSpec => []StoreTypeOK
<1>1. StoreInv => StoreTypeOK
  BY DEF StoreInv
<1>2. QED
  BY <1>1, StoreInvariance, PTL

\* Every revision List returns has its whole configuration, wherever any save
\* was cut off.
THEOREM ListedAreComplete == StoreSpec => []ListedComplete
<1>1. StoreInv => ListedComplete
  BY DEF StoreInv
<1>2. QED
  BY <1>1, StoreInvariance, PTL

\* The current symlink never points at a revision List does not return.
THEOREM CurrentIsListed == StoreSpec => []CurrentListed
<1>1. StoreInv => CurrentListed
  BY DEF StoreInv
<1>2. QED
  BY <1>1, StoreInvariance, PTL

\* The step of the proof of immutability: no action changes a listed revision.
LEMMA ListedUntouched ==
  StoreInv /\ [StoreNext]_storeVars =>
    (\A i \in Listed(meta) : yaml'[i] = yaml[i] /\ meta'[i] = meta[i])
<1> SUFFICES ASSUME StoreInv, [StoreNext]_storeVars, NEW i \in Listed(meta)
             PROVE  yaml'[i] = yaml[i] /\ meta'[i] = meta[i]
  OBVIOUS
<1>1. pc \in {"create yaml", "write yaml", "create meta", "write meta"} => i # id
  BY DEF StoreInv, SaveProgress, Steps
<1>2. CASE CreateYaml \/ WriteYaml
  BY <1>1, <1>2 DEF CreateYaml, WriteYaml, StoreInv, StoreTypeOK, Listed
<1>3. CASE CreateMeta \/ WriteMeta
  BY <1>1, <1>3 DEF CreateMeta, WriteMeta, StoreInv, StoreTypeOK, Listed
<1>4. CASE UNCHANGED <<yaml, meta>>
  BY <1>4
<1>5. QED
  BY <1>2, <1>3, <1>4 DEF StoreNext, Save, BeginSave, MakeDir, Unlink, Link, AbortSave, Tick,
     StepBack, ReadList, ReadCurrent, storeVars, diskVars

\* A listed revision is never changed, even if the clock is set back into the
\* second it was saved in.
THEOREM ListedAreImmutable == StoreSpec => RevisionsImmutable
<1>1. StoreInv /\ [StoreNext]_storeVars =>
        [\A i \in Listed(meta) : yaml'[i] = yaml[i] /\ meta'[i] = meta[i]]_storeVars
  BY ListedUntouched
<1>2. QED
  BY <1>1, StoreInvariance, PTL DEF StoreSpec, RevisionsImmutable

-----------------------------------------------------------------------------
(* The order of completion *)

OrderInv == OrderIsDense /\ TimesFollowOrder /\ ReaderSnapshot /\ PreviousPrecedes

\* A step that completes no revision: the listed ones, their timestamps and
\* their numbers stay.
LEMMA OnlyWriteMetaLists ==
  StoreInv /\ [StoreNext]_storeVars /\ ~WriteMeta =>
    Listed(meta') = Listed(meta) /\ order' = order
      /\ \A i \in Listed(meta) : meta'[i] = meta[i]
<1> SUFFICES ASSUME StoreInv, [StoreNext]_storeVars, ~WriteMeta
             PROVE  Listed(meta') = Listed(meta) /\ order' = order
                      /\ \A i \in Listed(meta) : meta'[i] = meta[i]
  OBVIOUS
<1>1. CASE CreateMeta
  <2>1. id \in Ids /\ id \notin Listed(meta) /\ meta \in [Ids -> Nat \union {Missing, Torn}]
    BY <1>1 DEF CreateMeta, StoreInv, StoreTypeOK, SaveProgress, Steps
  <2>2. meta' = [meta EXCEPT ![id] = Torn] /\ order' = order
    BY <1>1 DEF CreateMeta
  <2>3. QED
    BY <2>1, <2>2 DEF Listed
<1>2. CASE UNCHANGED <<meta, order>>
  BY <1>2
<1>3. QED
  BY <1>1, <1>2 DEF StoreNext, Save, BeginSave, MakeDir, CreateYaml, WriteYaml, Unlink, Link,
     AbortSave, Tick, StepBack, ReadList, ReadCurrent, storeVars, diskVars, saveVars

\* WriteMeta adds one revision, with the next number.
LEMMA WriteMetaListsOne ==
  StoreInv /\ WriteMeta =>
    /\ id \in Ids \ Listed(meta)
    /\ Listed(meta') = Listed(meta) \union {id}
    /\ \A i \in Listed(meta) : meta'[i] = meta[i] /\ order'[i] = order[i]
    /\ meta'[id] = now /\ order'[id] = Cardinality(Listed(meta))
    /\ Cardinality(Listed(meta)) \in Nat
    /\ Cardinality(Listed(meta')) = Cardinality(Listed(meta)) + 1
<1> SUFFICES ASSUME StoreInv, WriteMeta
             PROVE  /\ id \in Ids \ Listed(meta)
                    /\ Listed(meta') = Listed(meta) \union {id}
                    /\ \A i \in Listed(meta) : meta'[i] = meta[i] /\ order'[i] = order[i]
                    /\ meta'[id] = now /\ order'[id] = Cardinality(Listed(meta))
                    /\ Cardinality(Listed(meta)) \in Nat
                    /\ Cardinality(Listed(meta')) = Cardinality(Listed(meta)) + 1
  OBVIOUS
<1>1. id \in Ids /\ id \notin Listed(meta) /\ now \in Nat
      /\ meta \in [Ids -> Nat \union {Missing, Torn}] /\ order \in [Ids -> Nat]
  BY DEF WriteMeta, StoreInv, StoreTypeOK, SaveProgress, Steps
<1>2. meta' = [meta EXCEPT ![id] = now]
      /\ order' = [order EXCEPT ![id] = Cardinality(Listed(meta))]
  BY DEF WriteMeta
<1>3. now \notin {Missing, Torn}
  BY <1>1, StoreAssumption
<1>4. Listed(meta') = Listed(meta) \union {id}
  BY <1>1, <1>2, <1>3 DEF Listed
<1>5. \A i \in Listed(meta) : meta'[i] = meta[i] /\ order'[i] = order[i]
  BY <1>1, <1>2 DEF Listed
<1>6. meta'[id] = now /\ order'[id] = Cardinality(Listed(meta))
  BY <1>1, <1>2
<1>7. IsFiniteSet(Listed(meta))
  BY ListedIsFinite
<1>8. Cardinality(Listed(meta')) = Cardinality(Listed(meta)) + 1
  BY <1>1, <1>4, <1>7, FS_AddElement
<1>9. QED
  BY <1>1, <1>4, <1>5, <1>6, <1>8, ListedFinite

\* The numbers stay without gaps.
LEMMA OrderStaysDense ==
  StoreInv /\ OrderIsDense /\ [StoreNext]_storeVars => OrderIsDense'
<1> SUFFICES ASSUME StoreInv, OrderIsDense, [StoreNext]_storeVars PROVE OrderIsDense'
  OBVIOUS
<1>1. CASE WriteMeta
  <2> DEFINE n == Cardinality(Listed(meta))
  <2>1. n \in Nat /\ id \notin Listed(meta) /\ Listed(meta') = Listed(meta) \union {id}
        /\ order'[id] = n /\ Cardinality(Listed(meta')) = n + 1
        /\ \A i \in Listed(meta) : order'[i] = order[i]
    BY <1>1, WriteMetaListsOne
  <2>2. \A i \in Listed(meta) : order[i] \in Nat /\ order[i] < n
    BY DEF StoreInv, StoreTypeOK, OrderIsDense, Listed
  <2>3. \A i, j \in Listed(meta) : order[i] = order[j] => i = j
    BY DEF OrderIsDense
  <2>4. \A k \in 0..(n - 1) : \E i \in Listed(meta) : order[i] = k
    BY DEF OrderIsDense
  <2>5. \A k \in 0..(n + 1 - 1) : \E i \in Listed(meta') : order'[i] = k
    <3> SUFFICES ASSUME NEW k \in 0..n PROVE \E i \in Listed(meta') : order'[i] = k
      BY <2>1
    <3>1. CASE k = n
      BY <2>1, <3>1
    <3>2. CASE k # n
      <4>1. k \in 0..(n - 1)
        BY <2>1, <3>2
      <4>2. QED
        BY <2>1, <2>4, <4>1
    <3>3. QED
      BY <3>1, <3>2
  <2>6. \A i \in Listed(meta') : order'[i] < n + 1
    BY <2>1, <2>2
  <2>7. \A i, j \in Listed(meta') : order'[i] = order'[j] => i = j
    BY <2>1, <2>2, <2>3
  <2>8. order'[id'] + 1 = n + 1
    BY <1>1, <2>1 DEF WriteMeta
  <2>9. \A k \in 0..(Cardinality(Listed(meta')) - 1) : \E i \in Listed(meta') : order'[i] = k
    BY <2>1, <2>5
  <2>10. \A i \in Listed(meta') : order'[i] < Cardinality(Listed(meta'))
    BY <2>1, <2>6
  <2>11. order'[id'] + 1 = Cardinality(Listed(meta'))
    BY <2>1, <2>8
  <2>12. QED
    BY <2>7, <2>9, <2>10, <2>11 DEF OrderIsDense
<1>2. CASE ~WriteMeta
  <2>1. Listed(meta') = Listed(meta) /\ order' = order
    BY <1>2, OnlyWriteMetaLists
  <2>2. pc' \in {"unlink", "link"} => pc \in {"unlink", "link"} /\ id' = id
    BY <1>2 DEF StoreNext, Save, BeginSave, MakeDir, CreateYaml, WriteYaml, CreateMeta, Unlink,
       Link, AbortSave, ReturnFromSave, Tick, StepBack, ReadList, ReadCurrent, storeVars, saveVars
  <2>3. QED
    BY <2>1, <2>2 DEF OrderIsDense
<1>3. QED
  BY <1>1, <1>2

\* As long as the clock was never set back it only moves on.
LEMMA ClockSetBackCounts ==
  StoreInv /\ [StoreNext]_storeVars /\ steps' = 0 => steps = 0 /\ clock' \in Nat /\ clock <= clock'
<1> SUFFICES ASSUME StoreInv, [StoreNext]_storeVars, steps' = 0
             PROVE  steps = 0 /\ clock' \in Nat /\ clock <= clock'
  OBVIOUS
<1>1. steps \in Nat /\ clock \in Nat
  BY DEF StoreInv, StoreTypeOK
<1>2. ~StepBack
  BY <1>1 DEF StepBack
<1>3. CASE Tick \/ \E c \in Contents : BeginSave(c)
  <2>1. clock' = clock + 1 /\ steps' = steps
    BY <1>3 DEF Tick, BeginSave
  <2>2. QED
    BY <1>1, <2>1
<1>4. CASE UNCHANGED <<clock, steps>>
  BY <1>1, <1>4
<1>5. QED
  BY <1>2, <1>3, <1>4 DEF StoreNext, Save, MakeDir, CreateYaml, WriteYaml, CreateMeta, WriteMeta,
     Unlink, Link, AbortSave, ReadList, ReadCurrent, storeVars, saveVars

\* Timestamps stay in the order of completion, as long as the clock goes forward.
LEMMA TimesStayOrdered ==
  StoreInv /\ OrderInv /\ [StoreNext]_storeVars => TimesFollowOrder'
<1> SUFFICES ASSUME StoreInv, OrderInv, [StoreNext]_storeVars, steps' = 0
             PROVE  TimesFollowOrder'
  BY DEF TimesFollowOrder
<1>1. steps = 0
  BY ClockSetBackCounts
<1>2. \A i \in Listed(meta) : meta[i] \in Nat /\ meta[i] <= clock /\ order[i] \in Nat
  BY <1>1 DEF OrderInv, TimesFollowOrder, StoreInv, StoreTypeOK, Listed
<1>3. \A i, j \in Listed(meta) : order[i] < order[j] <=> meta[i] < meta[j]
  BY <1>1 DEF OrderInv, TimesFollowOrder
<1>4. clock \in Nat /\ now \in Nat
  BY DEF StoreInv, StoreTypeOK
<1>5. CASE WriteMeta
  <2>1. /\ Listed(meta') = Listed(meta) \union {id} /\ id \notin Listed(meta)
        /\ \A i \in Listed(meta) : meta'[i] = meta[i] /\ order'[i] = order[i]
        /\ meta'[id] = now /\ order'[id] = Cardinality(Listed(meta))
        /\ Cardinality(Listed(meta)) \in Nat
    BY <1>5, WriteMetaListsOne
  <2>2. now <= clock /\ \A i \in Listed(meta) : meta[i] < now
    BY <1>1, <1>5 DEF WriteMeta, OrderInv, TimesFollowOrder, Steps
  <2>3. \A i \in Listed(meta) : order[i] < Cardinality(Listed(meta))
    BY DEF OrderInv, OrderIsDense
  <2>4. \A i, j \in Listed(meta') : order'[i] < order'[j] <=> meta'[i] < meta'[j]
    BY <1>2, <1>3, <1>4, <2>1, <2>2, <2>3
  <2>5. \A i \in Listed(meta') : meta'[i] <= clock
    BY <1>2, <2>1, <2>2
  <2>6. pc' = "unlink" /\ clock' = clock /\ now' = now
    BY <1>5 DEF WriteMeta
  <2>7. QED
    BY <2>2, <2>4, <2>5, <2>6 DEF TimesFollowOrder, Steps
<1>6. CASE ~WriteMeta
  <2>1. Listed(meta') = Listed(meta) /\ order' = order
        /\ \A i \in Listed(meta) : meta'[i] = meta[i]
    BY <1>6, OnlyWriteMetaLists
  <2>2. CASE \E c \in Contents : BeginSave(c)
    <3>1. clock' = clock + 1 /\ now' = clock + 1
      BY <2>2 DEF BeginSave
    <3>2. QED
      BY <1>2, <1>3, <1>4, <2>1, <3>1 DEF TimesFollowOrder
  <2>3. CASE ~\E c \in Contents : BeginSave(c)
    <3>1. clock' \in Nat /\ clock <= clock'
      BY <1>4, ClockSetBackCounts
    <3>2. /\ pc' # "idle" => pc # "idle" /\ now' = now
          /\ pc' \in Steps \ {"unlink", "link"} => pc \in Steps \ {"unlink", "link"} /\ now' = now
      BY <1>6, <2>3 DEF StoreNext, Save, MakeDir, CreateYaml, WriteYaml, CreateMeta, WriteMeta,
         Unlink, Link, AbortSave, ReturnFromSave, Tick, StepBack, ReadList, ReadCurrent,
         storeVars, saveVars, Steps
    <3>3. pc # "idle" => now <= clock
      BY <1>1 DEF OrderInv, TimesFollowOrder
    <3>4. pc \in Steps \ {"unlink", "link"} => \A i \in Listed(meta) : meta[i] < now
      BY <1>1 DEF OrderInv, TimesFollowOrder
    <3>5. \A i \in Listed(meta') : meta'[i] <= clock'
      BY <1>2, <1>4, <2>1, <3>1
    <3>6. pc' # "idle" => now' <= clock'
      BY <1>4, <3>1, <3>2, <3>3
    <3>7. pc' \in Steps \ {"unlink", "link"} => \A i \in Listed(meta') : meta'[i] < now'
      BY <2>1, <3>2, <3>4
    <3>8. QED
      BY <1>3, <2>1, <3>5, <3>6, <3>7 DEF TimesFollowOrder
  <2>4. QED
    BY <2>2, <2>3
<1>7. QED
  BY <1>5, <1>6

\* What Previous has read stays a moment's view of the store.
LEMMA SnapshotStays ==
  StoreInv /\ OrderInv /\ [StoreNext]_storeVars => ReaderSnapshot'
<1> SUFFICES ASSUME StoreInv, OrderInv, [StoreNext]_storeVars PROVE ReaderSnapshot'
  OBVIOUS
<1>1. CASE WriteMeta
  <2>1. /\ Listed(meta') = Listed(meta) \union {id} /\ id \notin Listed(meta)
        /\ \A i \in Listed(meta) : meta'[i] = meta[i] /\ order'[i] = order[i]
        /\ order'[id] = Cardinality(Listed(meta))
    BY <1>1, WriteMetaListsOne
  <2>2. \A i \in Listed(meta) : order[i] < Cardinality(Listed(meta))
    BY DEF OrderInv, OrderIsDense
  <2>3. UNCHANGED <<reader, list, seen, previous>>
    BY <1>1 DEF WriteMeta, readVars
  <2>4. QED
    BY <2>1, <2>2, <2>3 DEF OrderInv, ReaderSnapshot
<1>2. CASE ReadList
  BY <1>2 DEF ReadList, diskVars, saveVars, ReaderSnapshot
<1>3. CASE ReadCurrent
  <2>1. {i \in Listed(list) : TRUE} \subseteq Listed(meta) /\ UNCHANGED meta
    BY <1>3 DEF ReadCurrent, OrderInv, ReaderSnapshot, diskVars
  <2>2. previous' # NoId => previous' \in Listed(list) /\ seen' \in Listed(list)
    BY <1>3 DEF ReadCurrent
  <2>3. reader' = "done"
    BY <1>3 DEF ReadCurrent
  <2>4. QED
    BY <2>1, <2>2, <2>3 DEF ReaderSnapshot
<1>4. CASE ~WriteMeta /\ ~ReadList /\ ~ReadCurrent
  <2>1. Listed(meta') = Listed(meta) /\ order' = order
        /\ \A i \in Listed(meta) : meta'[i] = meta[i]
    BY <1>4, OnlyWriteMetaLists
  <2>2. UNCHANGED <<reader, list, seen, previous>>
    BY <1>4 DEF StoreNext, Save, BeginSave, MakeDir, CreateYaml, WriteYaml, CreateMeta, Unlink,
       Link, AbortSave, Tick, StepBack, storeVars, readVars
  <2>3. QED
    BY <2>1, <2>2 DEF OrderInv, ReaderSnapshot
<1>5. QED
  BY <1>1, <1>2, <1>3, <1>4

\* The heart of the argument: in a list that holds the oldest revisions up to
\* some moment, the neighbour of current is the revision completed before it.
LEMMA NeighbourIsPredecessor ==
  ASSUME StoreInv, OrderInv, steps = 0, reader = "listed",
         current \in Listed(list), NEW j \in Listed(list), Follows(list, current, j)
  PROVE  order[current] = order[j] + 1
<1>1. /\ \A i \in Listed(list) : i \in Listed(meta) /\ list[i] = meta[i]
      /\ \A i \in Listed(meta) \ Listed(list), k \in Listed(list) : order[k] < order[i]
  BY DEF OrderInv, ReaderSnapshot
<1>2. \A i \in Listed(meta) : meta[i] \in Nat /\ order[i] \in Nat
  BY DEF StoreInv, StoreTypeOK, Listed
<1>3. \A i, k \in Listed(meta) : order[i] < order[k] <=> meta[i] < meta[k]
  BY DEF OrderInv, TimesFollowOrder
<1>4. \A i, k \in Listed(meta) : order[i] = order[k] => i = k
  BY DEF OrderInv, OrderIsDense
<1>5. order[j] < order[current]
  BY <1>1, <1>2, <1>3, <1>4 DEF Follows
<1>6. SUFFICES ASSUME order[j] + 1 < order[current] PROVE FALSE
  BY <1>1, <1>2, <1>5
<1>7. PICK k \in Listed(meta) : order[k] = order[j] + 1
  <2>1. order[j] + 1 \in 0..(Cardinality(Listed(meta)) - 1)
    <3>1. order[current] < Cardinality(Listed(meta)) /\ Cardinality(Listed(meta)) \in Nat
      BY <1>1, ListedFinite DEF OrderInv, OrderIsDense
    <3>2. QED
      BY <1>1, <1>2, <1>6, <3>1
  <2>2. QED
    BY <2>1 DEF OrderInv, OrderIsDense
<1>8. k \in Listed(list)
  BY <1>1, <1>2, <1>6, <1>7
<1>9. meta[j] < meta[k] /\ meta[k] < meta[current]
  BY <1>1, <1>2, <1>3, <1>6, <1>7
<1>10. k # j /\ k # current
  BY <1>1, <1>2, <1>9
<1>11. list[k] <= list[j] \/ list[k] >= list[current]
  BY <1>8, <1>10 DEF Follows
<1>12. QED
  BY <1>1, <1>2, <1>8, <1>9, <1>11

LEMMA PreviousStaysRight ==
  StoreInv /\ OrderInv /\ [StoreNext]_storeVars => PreviousPrecedes'
<1> SUFFICES ASSUME StoreInv, OrderInv, [StoreNext]_storeVars,
                    reader' = "done", previous' # NoId, steps' = 0
             PROVE  previous' \in Listed(meta') /\ order'[seen'] = order'[previous'] + 1
  BY DEF PreviousPrecedes
<1>1. steps = 0
  BY ClockSetBackCounts
<1>2. {previous', seen'} \subseteq Listed(meta')
  BY SnapshotStays DEF ReaderSnapshot
<1>3. CASE ReadCurrent
  <2>1. reader = "listed" /\ current \in Listed(list) /\ previous' \in Listed(list)
        /\ Follows(list, current, previous') /\ seen' = current /\ order' = order
    BY <1>3 DEF ReadCurrent, saveVars
  <2>2. QED
    BY <1>1, <1>2, <2>1, NeighbourIsPredecessor
<1>4. CASE ~ReadCurrent
  <2>1. UNCHANGED <<reader, seen, previous>>
    BY <1>4 DEF StoreNext, Save, BeginSave, MakeDir, CreateYaml, WriteYaml, CreateMeta, WriteMeta,
       Unlink, Link, AbortSave, Tick, StepBack, ReadList, storeVars, readVars
  <2>2. {previous, seen} \subseteq Listed(meta) /\ order[seen] = order[previous] + 1
    BY <1>1, <2>1 DEF OrderInv, ReaderSnapshot, PreviousPrecedes
  <2>3. \A i \in Listed(meta) : order'[i] = order[i]
    <3>1. CASE WriteMeta
      BY <3>1, WriteMetaListsOne
    <3>2. CASE ~WriteMeta
      BY <3>2, OnlyWriteMetaLists
    <3>3. QED
      BY <3>1, <3>2
  <2>4. QED
    BY <1>2, <2>1, <2>2, <2>3
<1>5. QED
  BY <1>3, <1>4

LEMMA OrderInitInv == StoreInit => OrderInv
<1> SUFFICES ASSUME StoreInit PROVE OrderInv
  OBVIOUS
<1>1. Listed(meta) = {} /\ Cardinality({}) = 0
  BY FS_EmptySet DEF StoreInit, Listed
<1>2. pc = "idle" /\ reader = "idle"
  BY DEF StoreInit
<1>3. QED
  BY <1>1, <1>2 DEF OrderInv, OrderIsDense, TimesFollowOrder, ReaderSnapshot,
     PreviousPrecedes, Steps

LEMMA OrderInvariance == StoreSpec => []OrderInv
<1>1. StoreInv /\ OrderInv /\ [StoreNext]_storeVars => OrderInv'
  BY OrderStaysDense, TimesStayOrdered, SnapshotStays, PreviousStaysRight DEF OrderInv
<1>2. QED
  BY <1>1, OrderInitInv, StoreInvariance, PTL DEF StoreSpec

\* What `warp rollback` takes for the previous revision is the one completed
\* directly before the one it took for current, although List, Current and the
\* steps of a Save interleave without a lock; only a clock set back breaks it.
THEOREM PreviousIsPredecessor == StoreSpec => []PreviousPrecedes
<1>1. OrderInv => PreviousPrecedes
  BY DEF OrderInv
<1>2. QED
  BY <1>1, OrderInvariance, PTL

-----------------------------------------------------------------------------
(* The store implements RevisionLog *)

LogOf == [n \in 1..Cardinality(Listed(meta)) |-> yaml[Nth(Listed(meta), order, n)]]
HeadOf == IF current = NoId THEN 0 ELSE order[current] + 1

\* Nth finds the revision with a number.
LEMMA NthIsUnique ==
  ASSUME NEW revisions, NEW ord,
         \A i, j \in revisions : ord[i] = ord[j] => i = j,
         \A i \in revisions : ord[i] \in Nat,
         NEW i \in revisions
  PROVE  Nth(revisions, ord, ord[i] + 1) = i
<1>1. \E j \in revisions : ord[j] + 1 = ord[i] + 1
  OBVIOUS
<1>2. /\ Nth(revisions, ord, ord[i] + 1) \in revisions
      /\ ord[Nth(revisions, ord, ord[i] + 1)] + 1 = ord[i] + 1
  BY <1>1 DEF Nth
<1>3. ord[Nth(revisions, ord, ord[i] + 1)] = ord[i]
  BY <1>2
<1>4. QED
  BY <1>2, <1>3

\* The log is a sequence of whole configurations, one per number.
LEMMA LogIsSequence ==
  StoreInv /\ OrderInv =>
    /\ LogOf \in Seq(Contents)
    /\ Len(LogOf) = Cardinality(Listed(meta))
    /\ \A n \in 1..Cardinality(Listed(meta)) :
         \E i \in Listed(meta) : order[i] + 1 = n /\ Nth(Listed(meta), order, n) = i
<1> SUFFICES ASSUME StoreInv, OrderInv
             PROVE  /\ LogOf \in Seq(Contents)
                    /\ Len(LogOf) = Cardinality(Listed(meta))
                    /\ \A n \in 1..Cardinality(Listed(meta)) :
                         \E i \in Listed(meta) : order[i] + 1 = n /\ Nth(Listed(meta), order, n) = i
  OBVIOUS
<1> DEFINE size == Cardinality(Listed(meta))
<1>1. size \in Nat
  BY ListedFinite
<1>2. \A i \in Listed(meta) : order[i] \in Nat
  BY DEF StoreInv, StoreTypeOK, Listed
<1>3. \A i, j \in Listed(meta) : order[i] = order[j] => i = j
  BY DEF OrderInv, OrderIsDense
<1>4. ASSUME NEW n \in 1..size
      PROVE  \E i \in Listed(meta) : order[i] + 1 = n /\ Nth(Listed(meta), order, n) = i
  <2>1. n - 1 \in 0..(size - 1)
    BY <1>1
  <2>2. PICK i \in Listed(meta) : order[i] = n - 1
    BY <2>1 DEF OrderInv, OrderIsDense
  <2>3. order[i] + 1 = n
    BY <2>2
  <2>4. Nth(Listed(meta), order, order[i] + 1) = i
    BY <1>2, <1>3, NthIsUnique
  <2>5. QED
    BY <2>3, <2>4
<1>5. \A n \in 1..size : yaml[Nth(Listed(meta), order, n)] \in Contents
  BY <1>4 DEF StoreInv, ListedComplete
<1>6. LogOf \in [1..size -> Contents]
  BY <1>5 DEF LogOf
<1>7. LogOf \in Seq(Contents) /\ Len(LogOf) = size
  BY <1>1, <1>6
<1>8. QED
  BY <1>4, <1>7

\* WriteMeta is the step that appends to the log.
LEMMA WriteMetaAppends ==
  StoreInv /\ OrderInv /\ StoreInv' /\ OrderInv' /\ WriteMeta => Log!Complete(content)
<1> SUFFICES ASSUME StoreInv, OrderInv, StoreInv', OrderInv', WriteMeta
             PROVE  Log!Complete(content)
  OBVIOUS
<1> DEFINE size == Cardinality(Listed(meta))
<1>1. /\ id \in Ids \ Listed(meta)
      /\ Listed(meta') = Listed(meta) \union {id}
      /\ \A i \in Listed(meta) : order'[i] = order[i]
      /\ order'[id] = size
      /\ size \in Nat
      /\ Cardinality(Listed(meta')) = size + 1
  BY WriteMetaListsOne
<1>2. yaml' = yaml /\ yaml[id] = content /\ current' = current
  BY DEF WriteMeta, StoreInv, SaveProgress
<1>3. \A i \in Listed(meta') : order'[i] \in Nat
  BY DEF StoreInv, StoreTypeOK, Listed
<1>4. \A i, j \in Listed(meta') : order'[i] = order'[j] => i = j
  BY DEF OrderInv, OrderIsDense
<1>5. Nth(Listed(meta'), order', size + 1) = id
  <2>1. Nth(Listed(meta'), order', order'[id] + 1) = id
    BY <1>1, <1>3, <1>4, NthIsUnique
  <2>2. QED
    BY <1>1, <2>1
<1>6. ASSUME NEW n \in 1..size
      PROVE  Nth(Listed(meta'), order', n) = Nth(Listed(meta), order, n)
  <2>1. PICK i \in Listed(meta) : order[i] + 1 = n /\ Nth(Listed(meta), order, n) = i
    BY LogIsSequence
  <2>2. i \in Listed(meta') /\ order'[i] + 1 = n
    BY <1>1, <2>1
  <2>3. Nth(Listed(meta'), order', order'[i] + 1) = i
    BY <1>3, <1>4, <2>2, NthIsUnique
  <2>4. QED
    BY <2>1, <2>2, <2>3
<1>7. LogOf \in Seq(Contents) /\ Len(LogOf) = size
  BY LogIsSequence
<1>8. content \in Contents
  BY DEF WriteMeta, StoreInv, StoreTypeOK
<1>9. LogOf' = Append(LogOf, content)
  <2>1. LogOf' = [n \in 1..(size + 1) |-> yaml[Nth(Listed(meta'), order', n)]]
    BY <1>1, <1>2 DEF LogOf
  <2>2. ASSUME NEW n \in 1..size PROVE LogOf'[n] = LogOf[n]
    <3>1. LogOf'[n] = yaml[Nth(Listed(meta'), order', n)]
      BY <1>1, <2>1
    <3>2. LogOf[n] = yaml[Nth(Listed(meta), order, n)]
      BY DEF LogOf
    <3>3. QED
      BY <1>6, <3>1, <3>2
  <2>3. LogOf'[size + 1] = content
    BY <1>1, <1>2, <1>5, <2>1
  <2>4. LogOf' \in Seq(Contents) /\ Len(LogOf') = size + 1
    <3>1. \A n \in 1..(size + 1) : LogOf'[n] \in Contents
      <4>1. \A n \in 1..size : LogOf[n] \in Contents
        BY <1>7
      <4>2. QED
        BY <1>1, <1>8, <2>2, <2>3, <4>1
    <3>2. LogOf' \in [1..(size + 1) -> Contents]
      BY <2>1, <3>1
    <3>3. QED
      BY <1>1, <3>2
  <2>5. /\ Append(LogOf, content) \in Seq(Contents)
        /\ Len(Append(LogOf, content)) = size + 1
        /\ \A n \in 1..size : Append(LogOf, content)[n] = LogOf[n]
        /\ Append(LogOf, content)[size + 1] = content
    BY <1>7, <1>8, AppendProperties
  <2>6. \A n \in 1..(size + 1) : LogOf'[n] = Append(LogOf, content)[n]
    BY <1>1, <2>2, <2>3, <2>5
  <2>7. QED
    BY <2>4, <2>5, <2>6, SeqEqual
<1>10. HeadOf' = HeadOf
  BY <1>1, <1>2 DEF HeadOf, StoreInv, CurrentListed
<1>11. QED
  BY <1>9, <1>10 DEF Log!Complete, LogOf, HeadOf

\* Every other step leaves the log alone.
LEMMA LogKept ==
  StoreInv /\ OrderInv /\ [StoreNext]_storeVars /\ ~WriteMeta => LogOf' = LogOf
<1> SUFFICES ASSUME StoreInv, OrderInv, [StoreNext]_storeVars, ~WriteMeta PROVE LogOf' = LogOf
  OBVIOUS
<1>1. Listed(meta') = Listed(meta) /\ order' = order
  BY OnlyWriteMetaLists
<1>2. \A i \in Listed(meta) : yaml'[i] = yaml[i]
  BY ListedUntouched
<1>3. \A n \in 1..Cardinality(Listed(meta)) : Nth(Listed(meta), order, n) \in Listed(meta)
  BY LogIsSequence
<1>4. \A n \in 1..Cardinality(Listed(meta)) :
        yaml'[Nth(Listed(meta), order, n)] = yaml[Nth(Listed(meta), order, n)]
  BY <1>2, <1>3
<1>5. QED
  BY <1>1, <1>4 DEF LogOf

LEMMA LogStep ==
  StoreInv /\ OrderInv /\ StoreInv' /\ OrderInv' /\ [StoreNext]_storeVars
    => [Log!LogNext]_(Log!logVars)
<1> SUFFICES ASSUME StoreInv, OrderInv, StoreInv', OrderInv', [StoreNext]_storeVars
             PROVE  Log!LogNext \/ (LogOf' = LogOf /\ HeadOf' = HeadOf)
  BY DEF Log!logVars, LogOf, HeadOf
<1>1. CASE WriteMeta
  <2>1. content \in Contents
    BY <1>1 DEF WriteMeta, StoreInv, StoreTypeOK
  <2>2. QED
    BY <1>1, <2>1, WriteMetaAppends DEF Log!LogNext
<1>2. CASE Unlink
  <2>1. ~WriteMeta
    BY <1>2 DEF Unlink, WriteMeta
  <2>2. LogOf' = LogOf
    BY <2>1, LogKept
  <2>3. HeadOf' = 0
    BY <1>2 DEF Unlink, HeadOf
  <2>4. QED
    BY <2>2, <2>3 DEF Log!LogNext, Log!Detach, LogOf, HeadOf
<1>3. CASE Link
  <2>1. ~WriteMeta /\ current' = id /\ id \in Ids /\ order' = order
    BY <1>3 DEF Link, WriteMeta, StoreInv, StoreTypeOK
  <2>2. LogOf' = LogOf
    BY <2>1, LogKept
  <2>3. order[id] + 1 = Cardinality(Listed(meta)) /\ order[id] \in Nat
    BY <1>3, <2>1 DEF Link, OrderInv, OrderIsDense, StoreInv, StoreTypeOK
  <2>4. HeadOf' = Cardinality(Listed(meta))
    BY <2>1, <2>3, StoreAssumption DEF HeadOf
  <2>5. LogOf \in Seq(Contents) /\ Len(LogOf) = Cardinality(Listed(meta))
    BY LogIsSequence
  <2>6. LogOf # <<>>
    BY <2>3, <2>5
  <2>7. QED
    BY <2>2, <2>4, <2>5, <2>6 DEF Log!LogNext, Log!Attach, LogOf, HeadOf
<1>4. CASE ~WriteMeta /\ ~Unlink /\ ~Link
  <2>1. LogOf' = LogOf
    BY <1>4, LogKept
  <2>2. current' = current /\ order' = order
    BY <1>4 DEF StoreNext, Save, BeginSave, MakeDir, CreateYaml, WriteYaml, CreateMeta,
       AbortSave, Tick, StepBack, ReadList, ReadCurrent, storeVars, diskVars, saveVars
  <2>3. HeadOf' = HeadOf
    BY <2>2 DEF HeadOf
  <2>4. QED
    BY <2>1, <2>3
<1>5. QED
  BY <1>1, <1>2, <1>3, <1>4

\* The files of internal/revision implement the log RevisionLog promises, for
\* any number of saves, cut off anywhere, and any behaviour of the clock.
THEOREM StoreImplementsLog == StoreSpec => ImplementsLog
<1>1. StoreInit => Log!LogInit
  <2> SUFFICES ASSUME StoreInit PROVE LogOf = <<>> /\ HeadOf = 0
    BY DEF Log!LogInit, LogOf, HeadOf
  <2>1. Listed(meta) = {} /\ Cardinality({}) = 0
    BY FS_EmptySet DEF StoreInit, Listed
  <2>2. LogOf = <<>>
    BY <2>1 DEF LogOf
  <2>3. QED
    BY <2>2 DEF StoreInit, HeadOf
<1>2. QED
  BY <1>1, LogStep, StoreInvariance, OrderInvariance, PTL
  DEF StoreSpec, ImplementsLog, Log!LogSpec
=============================================================================
