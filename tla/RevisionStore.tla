---------------------------- MODULE RevisionStore ----------------------------
(* internal/revision: the revisions of the site configuration on disk.  Save  *)
(* takes several file operations, each of which can fail or be the last one   *)
(* the process performs; what is on disk by then stays.  `warp rollback`,     *)
(* `warp revisions` and `warp status` read without a lock, so their reads can *)
(* fall between any two steps of a Save.  Saves themselves are serialised by  *)
(* the apply lock.                                                            *)
EXTENDS Naturals, FiniteSets

CONSTANTS
  Contents,        \* site configurations
  Missing,         \* a file that does not exist
  Torn,            \* a file that was created but not written to its end
  NoId,            \* the empty revision ID
  TicksPerSecond,  \* clock readings that fall into one second of the ID
  MaxClock,        \* bound: the last clock reading
  MaxSuffix,       \* bound: the highest collision suffix
  MaxStepBacks     \* bound: how often the clock may be set back

\* baseID is the second, the suffix tells saves of one second apart; 0 stands
\* for the ID without a suffix.
Ids == (0..MaxClock) \X (0..MaxSuffix)
Second(t) == t \div TicksPerSecond

ASSUME StoreAssumption ==
  /\ {Missing, Torn} \cap (Contents \union Nat) = {}
  /\ Missing # Torn
  /\ NoId \notin Ids
  /\ TicksPerSecond \in Nat \ {0}
  /\ MaxClock \in Nat /\ MaxSuffix \in Nat /\ MaxStepBacks \in Nat

VARIABLES
  dirs,      \* revision directories that exist
  yaml,      \* site.yaml of each revision
  meta,      \* metadata.json of each revision: its timestamp
  current,   \* target of the "current" symlink
  pc,        \* the next step of the Save in progress, "idle" if none
  id,        \* its revision ID
  content,   \* its yamlContent
  now,       \* its clock reading
  clock,     \* the wall clock
  steps,     \* how often the clock was set back
  order,     \* history: order[i] = the number of revisions complete before i
  reader,    \* a call of Previous: "idle", "listed" or "done"
  list,      \* what its List returned: the timestamp of each listed revision
  seen,      \* what its Current returned
  previous   \* what it returned

diskVars == <<dirs, yaml, meta, current>>
saveVars == <<pc, id, content, now, clock, steps, order>>
readVars == <<reader, list, seen, previous>>
storeVars == <<diskVars, saveVars, readVars>>

Steps == {"mkdir", "create yaml", "write yaml", "create meta", "write meta", "unlink", "link"}

StoreTypeOK ==
  /\ dirs \in SUBSET Ids
  /\ yaml \in [Ids -> Contents \union {Missing, Torn}]
  /\ meta \in [Ids -> Nat \union {Missing, Torn}]
  /\ current \in Ids \union {NoId}
  /\ pc \in Steps \union {"idle"}
  /\ id \in Ids \union {NoId}
  /\ pc # "idle" => id \in Ids /\ content \in Contents
  /\ now \in Nat /\ clock \in Nat /\ steps \in Nat
  /\ order \in [Ids -> Nat]
  /\ reader \in {"idle", "listed", "done"}
  /\ list \in [Ids -> Nat \union {Missing, Torn}]
  /\ seen \in Ids \union {NoId}
  /\ previous \in Ids \union {NoId}

\* A listed revision: its metadata can be read and parsed.
Listed(files) == {i \in Ids : files[i] \notin {Missing, Torn}}

StoreInit ==
  /\ dirs = {}
  /\ yaml = [i \in Ids |-> Missing]
  /\ meta = [i \in Ids |-> Missing]
  /\ current = NoId
  /\ pc = "idle" /\ id = NoId /\ content = Missing /\ now = 0
  /\ clock = 0 /\ steps = 0
  /\ order = [i \in Ids |-> 0]
  /\ reader = "idle" /\ list = [i \in Ids |-> Missing]
  /\ seen = NoId /\ previous = NoId

-----------------------------------------------------------------------------
(* Save *)

\* Mutant of FreeId: IDs are bare seconds, as before the collision suffix.
SecondOnly(i) == i[2] = 0

\* The loop over os.Stat: the first suffix whose directory does not exist.
FreeId(i) == i \notin dirs /\ \A n \in 0..MaxSuffix : n < i[2] => <<i[1], n>> \in dirs

\* Save reads the clock, which has moved on since the last reading, and settles
\* on an ID.
BeginSave(c) ==
  /\ pc = "idle"
  /\ clock < MaxClock
  /\ clock' = clock + 1
  /\ now' = clock'
  /\ \E i \in Ids : i[1] = Second(clock') /\ FreeId(i) /\ id' = i
  /\ content' = c
  /\ pc' = "mkdir"
  /\ UNCHANGED <<diskVars, steps, order, readVars>>

MakeDir ==
  /\ pc = "mkdir"
  /\ dirs' = dirs \union {id}
  /\ pc' = "create yaml"
  /\ UNCHANGED <<yaml, meta, current, id, content, now, clock, steps, order, readVars>>

\* Mutant of CreateYaml: a write of site.yaml that falls short goes unnoticed.
CreateYamlUnchecked ==
  /\ pc = "create yaml"
  /\ yaml' = [yaml EXCEPT ![id] = Torn]
  /\ pc' \in {"write yaml", "create meta"}
  /\ UNCHANGED <<dirs, meta, current, id, content, now, clock, steps, order, readVars>>

\* os.WriteFile truncates or creates the file before it writes.
CreateYaml ==
  /\ pc = "create yaml"
  /\ yaml' = [yaml EXCEPT ![id] = Torn]
  /\ pc' = "write yaml"
  /\ UNCHANGED <<dirs, meta, current, id, content, now, clock, steps, order, readVars>>

\* Mutant of WriteYaml: the symlink is moved before the metadata is written.
WriteYamlAndLink ==
  /\ pc = "write yaml"
  /\ yaml' = [yaml EXCEPT ![id] = content]
  /\ current' = id
  /\ pc' = "create meta"
  /\ UNCHANGED <<dirs, meta, id, content, now, clock, steps, order, readVars>>

WriteYaml ==
  /\ pc = "write yaml"
  /\ yaml' = [yaml EXCEPT ![id] = content]
  /\ pc' = "create meta"
  /\ UNCHANGED <<dirs, meta, current, id, content, now, clock, steps, order, readVars>>

CreateMeta ==
  /\ pc = "create meta"
  /\ meta' = [meta EXCEPT ![id] = Torn]
  /\ pc' = "write meta"
  /\ UNCHANGED <<dirs, yaml, current, id, content, now, clock, steps, order, readVars>>

\* From here on List returns the revision.
WriteMeta ==
  /\ pc = "write meta"
  /\ meta' = [meta EXCEPT ![id] = now]
  /\ order' = [order EXCEPT ![id] = Cardinality(Listed(meta))]
  /\ pc' = "unlink"
  /\ UNCHANGED <<dirs, yaml, current, id, content, now, clock, steps, readVars>>

\* os.Remove of the symlink, error ignored.
Unlink ==
  /\ pc = "unlink"
  /\ current' = NoId
  /\ pc' = "link"
  /\ UNCHANGED <<dirs, yaml, meta, id, content, now, clock, steps, order, readVars>>

\* Save returns and its locals are gone.
ReturnFromSave == pc' = "idle" /\ id' = NoId /\ content' = Missing /\ now' = 0

Link ==
  /\ pc = "link"
  /\ current' = id
  /\ ReturnFromSave
  /\ UNCHANGED <<dirs, yaml, meta, clock, steps, order, readVars>>

\* Mutant of AbortSave: a Save that fails removes what it has written, also when
\* only the symlink could not be made.
AbortSaveRemoves ==
  /\ pc # "idle"
  /\ dirs' = dirs \ {id}
  /\ yaml' = [yaml EXCEPT ![id] = Missing]
  /\ meta' = [meta EXCEPT ![id] = Missing]
  /\ ReturnFromSave
  /\ UNCHANGED <<current, clock, steps, order, readVars>>

\* The next operation fails and Save returns its error, or the process dies.
AbortSave ==
  /\ pc # "idle"
  /\ ReturnFromSave
  /\ UNCHANGED <<diskVars, clock, steps, order, readVars>>

Save ==
  \/ MakeDir \/ CreateYaml \/ WriteYaml \/ CreateMeta \/ WriteMeta \/ Unlink \/ Link
  \/ AbortSave

\* Time passes, or the clock is set back (external).
Tick ==
  /\ clock < MaxClock
  /\ clock' = clock + 1
  /\ UNCHANGED <<diskVars, pc, id, content, now, steps, order, readVars>>

StepBack ==
  /\ steps < MaxStepBacks
  /\ steps' = steps + 1
  /\ clock' \in {t \in 0..MaxClock : t < clock}
  /\ UNCHANGED <<diskVars, pc, id, content, now, order, readVars>>

-----------------------------------------------------------------------------
(* Previous, as `warp rollback` calls it before it takes the apply lock *)

\* List: the metadata files are read.
ReadList ==
  /\ reader # "listed"
  /\ list' = meta
  /\ reader' = "listed"
  /\ seen' = NoId /\ previous' = NoId
  /\ UNCHANGED <<diskVars, saveVars>>

\* Mutant of Follows: the list is sorted oldest first.
FollowsOldest(times, i, j) ==
  /\ j # i
  /\ times[j] >= times[i]
  /\ \A k \in Listed(times) \ {i, j} : times[k] >= times[j] \/ times[k] <= times[i]

\* j follows i in the list sorted newest first.
Follows(times, i, j) ==
  /\ j # i
  /\ times[j] <= times[i]
  /\ \A k \in Listed(times) \ {i, j} : times[k] <= times[j] \/ times[k] >= times[i]

\* Current is read after the list, and its successor in the list is returned;
\* the empty ID if there is none or if current is not in the list.
ReadCurrent ==
  /\ reader = "listed"
  /\ seen' = current
  /\ LET after == {j \in Listed(list) : current \in Listed(list) /\ Follows(list, current, j)}
     IN  IF after = {} THEN previous' = NoId ELSE previous' \in after
  /\ reader' = "done"
  /\ list' = [i \in Ids |-> Missing]
  /\ UNCHANGED <<diskVars, saveVars>>

StoreNext ==
  \/ \E c \in Contents : BeginSave(c)
  \/ Save
  \/ Tick \/ StepBack
  \/ ReadList \/ ReadCurrent

StoreSpec == StoreInit /\ [][StoreNext]_storeVars

-----------------------------------------------------------------------------

\* A revision that List returns has its whole configuration on disk, wherever
\* earlier saves were cut off: Get and rollback never read a torn site.yaml.
ListedComplete == \A i \in Listed(meta) : yaml[i] \in Contents

\* The current revision is one that List returns, also in the middle of a Save
\* and after one that was cut off.
CurrentListed == current # NoId => current \in Listed(meta)

\* Nothing overwrites a revision once it can be listed.
RevisionsImmutable ==
  [][\A i \in Listed(meta) : yaml'[i] = yaml[i] /\ meta'[i] = meta[i]]_storeVars

\* The revision Previous returns is the one that was completed directly before
\* the revision it took for current, however its reads fall among the steps of
\* saves; this needs a clock that is not set back.
PreviousPrecedes ==
  (reader = "done" /\ previous # NoId /\ steps = 0)
    => previous \in Listed(meta) /\ order[seen] = order[previous] + 1

\* The revision that is number n in the order of completion.
Nth(revisions, ord, n) == CHOOSE i \in revisions : ord[i] + 1 = n

\* The files implement the log of RevisionLog: whatever the clock does and
\* wherever saves are cut off, a revision appears whole and in one step, none
\* is changed or removed, and current only ever moves to the newest one.
Log == INSTANCE RevisionLog WITH
  log <- [n \in 1..Cardinality(Listed(meta)) |-> yaml[Nth(Listed(meta), order, n)]],
  head <- IF current = NoId THEN 0 ELSE order[current] + 1
ImplementsLog == Log!LogSpec

\* The files a Save in progress has written so far: what makes the properties
\* above inductive.
SaveProgress ==
  /\ \A i \in Ids \ dirs : yaml[i] = Missing /\ meta[i] = Missing
  /\ pc = "mkdir" => id \notin dirs
  /\ pc \in Steps \ {"mkdir", "unlink", "link"} => id \in dirs /\ id \notin Listed(meta)
  /\ pc \in {"create meta", "write meta"} => yaml[id] = content
  /\ pc \in {"unlink", "link"} => id \in Listed(meta)

\* order numbers the listed revisions without gaps, and a Save that has written
\* its metadata has the last number.
OrderIsDense ==
  LET n == Cardinality(Listed(meta))
  IN  /\ \A i \in Listed(meta) : order[i] < n
      /\ \A i, j \in Listed(meta) : order[i] = order[j] => i = j
      /\ \A k \in 0..(n - 1) : \E i \in Listed(meta) : order[i] = k
      /\ pc \in {"unlink", "link"} => order[id] + 1 = n

\* While the clock is not set back, timestamps are in the order of completion,
\* and that of a Save in progress is later than all of them.
TimesFollowOrder ==
  steps = 0 =>
    /\ \A i \in Listed(meta) : meta[i] <= clock
    /\ \A i, j \in Listed(meta) : order[i] < order[j] <=> meta[i] < meta[j]
    /\ pc # "idle" => now <= clock
    /\ pc \in Steps \ {"unlink", "link"} => \A i \in Listed(meta) : meta[i] < now

\* What a call of Previous has read so far: the revisions that were complete at
\* one moment, so that those it does not know of came later.
ReaderSnapshot ==
  /\ reader = "listed" =>
       /\ \A i \in Listed(list) : i \in Listed(meta) /\ list[i] = meta[i]
       /\ \A i \in Listed(meta) \ Listed(list), j \in Listed(list) : order[j] < order[i]
  /\ (reader = "done" /\ previous # NoId) => {previous, seen} \subseteq Listed(meta)
=============================================================================
