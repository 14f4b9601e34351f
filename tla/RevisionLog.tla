---------------------------- MODULE RevisionLog ----------------------------
(* What internal/revision promises to those who read it: a log of site        *)
(* configurations that only grows, by one whole configuration at a time, and  *)
(* a current revision that is the newest one whenever it is set.  Save cannot *)
(* replace the symlink in one step, so there are moments without a current    *)
(* revision.  WarpCli relies on this log; RevisionStore implements it with    *)
(* files.                                                                     *)
EXTENDS Naturals, Sequences

CONSTANT Contents   \* site configurations

VARIABLES
  log,    \* the complete revisions in the order in which they were completed
  head    \* the position of the current revision, 0 if there is none

logVars == <<log, head>>

LogInit == log = <<>> /\ head = 0

Complete(c) == log' = Append(log, c) /\ UNCHANGED head
Detach == head' = 0 /\ UNCHANGED log
Attach == log # <<>> /\ head' = Len(log) /\ UNCHANGED log

LogNext == (\E c \in Contents : Complete(c)) \/ Detach \/ Attach
LogSpec == LogInit /\ [][LogNext]_logVars
=============================================================================
