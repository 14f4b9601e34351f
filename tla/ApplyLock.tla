------------------------------ MODULE ApplyLock ------------------------------
(* apply.AcquireLock: the advisory lock that keeps two `warp apply` or        *)
(* `warp rollback` processes apart.  The lock is flock on an open file, so it *)
(* belongs to an inode; the path /run/warp-apply.lock names at most one inode *)
(* at a time, and the clean-up removes that name after it has let the lock    *)
(* go.  A process that fails or is killed leaves the name in place and the    *)
(* kernel drops its lock.                                                     *)
EXTENDS Naturals

CONSTANTS
  Procs,      \* processes that run warp apply or warp rollback, again and again
  NoProc,
  Inodes,     \* inodes of lock files, reused once nothing refers to them
  NoInode

ASSUME LockAssumption == NoProc \notin Procs /\ NoInode \notin Inodes

VARIABLES
  path,      \* the inode LockFilePath names
  holder,    \* external: who holds flock on each inode
  fd,        \* the inode each process has open
  pc,        \* where each process is
  strayed    \* history: a clean-up removed a name another process had opened

lockVars == <<path, holder, fd, pc, strayed>>

LockTypeOK ==
  /\ path \in Inodes \union {NoInode}
  /\ holder \in [Inodes -> Procs \union {NoProc}]
  /\ fd \in [Procs -> Inodes \union {NoInode}]
  /\ pc \in [Procs -> {"idle", "opened", "critical", "unlocked", "closed"}]
  /\ strayed \in BOOLEAN

LockInit ==
  /\ path = NoInode
  /\ holder = [i \in Inodes |-> NoProc]
  /\ fd = [p \in Procs |-> NoInode]
  /\ pc = [p \in Procs |-> "idle"]
  /\ strayed = FALSE

Unused(i) == i # path /\ \A p \in Procs : fd[p] # i

\* os.OpenFile with O_CREATE: the file the path names, or a new one.
Open(p) ==
  /\ pc[p] = "idle"
  /\ \E i \in Inodes :
       /\ i = path \/ (path = NoInode /\ Unused(i))
       /\ path' = i
       /\ fd' = [fd EXCEPT ![p] = i]
  /\ pc' = [pc EXCEPT ![p] = "opened"]
  /\ UNCHANGED <<holder, strayed>>

\* Mutant of FlockOk: the result of flock is not looked at.
FlockIgnored(p) ==
  /\ pc[p] = "opened"
  /\ holder' = [holder EXCEPT ![fd[p]] = p]
  /\ pc' = [pc EXCEPT ![p] = "critical"]
  /\ UNCHANGED <<path, fd, strayed>>

\* flock with LOCK_EX|LOCK_NB succeeds: the pipeline may run.
FlockOk(p) ==
  /\ pc[p] = "opened"
  /\ holder[fd[p]] = NoProc
  /\ holder' = [holder EXCEPT ![fd[p]] = p]
  /\ pc' = [pc EXCEPT ![p] = "critical"]
  /\ UNCHANGED <<path, fd, strayed>>

\* flock would block: "another warp apply is already running", exit 1.
FlockBusy(p) ==
  /\ pc[p] = "opened"
  /\ holder[fd[p]] # NoProc
  /\ fd' = [fd EXCEPT ![p] = NoInode]
  /\ pc' = [pc EXCEPT ![p] = "idle"]
  /\ UNCHANGED <<path, holder, strayed>>

\* cleanup, first call: LOCK_UN.
Unlock(p) ==
  /\ pc[p] = "critical"
  /\ holder' = [holder EXCEPT ![fd[p]] = NoProc]
  /\ pc' = [pc EXCEPT ![p] = "unlocked"]
  /\ UNCHANGED <<path, fd, strayed>>

\* cleanup, second call: f.Close.
Close(p) ==
  /\ pc[p] = "unlocked"
  /\ fd' = [fd EXCEPT ![p] = NoInode]
  /\ pc' = [pc EXCEPT ![p] = "closed"]
  /\ UNCHANGED <<path, holder, strayed>>

\* cleanup, third call: os.Remove takes the name away whatever it stands for
\* by now; its error is ignored.
Remove(p) ==
  /\ pc[p] = "closed"
  /\ path' = NoInode
  /\ strayed' = (strayed \/ \E q \in Procs : fd[q] # NoInode /\ fd[q] = path)
  /\ pc' = [pc EXCEPT ![p] = "idle"]
  /\ UNCHANGED <<holder, fd>>

\* os.Exit(1) after a failed pipeline, which skips the deferred clean-up, or a
\* kill at any other point: the kernel closes the file and drops the lock.
Die(p) ==
  /\ pc[p] # "idle"
  /\ holder' = [i \in Inodes |-> IF holder[i] = p THEN NoProc ELSE holder[i]]
  /\ fd' = [fd EXCEPT ![p] = NoInode]
  /\ pc' = [pc EXCEPT ![p] = "idle"]
  /\ UNCHANGED <<path, strayed>>

LockStep(p) ==
  \/ Open(p) \/ FlockOk(p) \/ FlockBusy(p)
  \/ Unlock(p) \/ Close(p) \/ Remove(p) \/ Die(p)

LockNext == \E p \in Procs : LockStep(p)
LockSpec == LockInit /\ [][LockNext]_lockVars

-----------------------------------------------------------------------------

\* Two processes never run the apply pipeline at the same time: what the
\* comment on AcquireLock says.
OneApplyAtATime ==
  \A p, q \in Procs : pc[p] = "critical" /\ pc[q] = "critical" => p = q

\* As long as no clean-up has removed the name of a lock file that another
\* process had already opened, two pipelines never run at the same time, no
\* matter how processes die: the removal is the only hole in AcquireLock.
ExclusiveUnlessStrayed == ~strayed => OneApplyAtATime

\* No lock is leaked and none is assumed: flock on an inode belongs to exactly
\* the process that runs its pipeline with that file open, and until a name has
\* strayed every open lock file is the one the path names.
LockInv ==
  /\ LockTypeOK
  /\ \A p \in Procs :
       /\ fd[p] # NoInode <=> pc[p] \in {"opened", "critical", "unlocked"}
       /\ \A i \in Inodes : holder[i] = p <=> (pc[p] = "critical" /\ fd[p] = i)
       /\ (~strayed /\ fd[p] # NoInode) => fd[p] = path
=============================================================================
