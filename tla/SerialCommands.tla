--------------------------- MODULE SerialCommands ---------------------------
(* What the apply lock is for: commands that change the system take effect    *)
(* one after the other.  From the moment a command owns the system until it   *)
(* lets go, only that command changes what the services run and what is       *)
(* stored: it switches the services in order and stores one revision at most, *)
(* after all of them.  A command may let go at any point, and the service it  *)
(* was about to switch may then have taken the configuration or have stopped, *)
(* or the revision it was about to store may be there.                        *)
EXTENDS Naturals, Sequences

CONSTANTS Procs, NoProc, Versions, Factory, Nothing, Stopped, Services

VARIABLES
  serving,   \* the configuration each service runs
  stored,    \* the revisions
  owner,     \* the command in effect
  goal,      \* the configuration it applies
  done       \* how many services it has switched; one more when it has stored

serialVars == <<serving, stored, owner, goal, done>>

SerialInit ==
  /\ serving = [s \in 1..Services |-> Factory]
  /\ stored = <<>>
  /\ owner = NoProc /\ goal = Nothing /\ done = 0

Own(p, v) ==
  /\ owner = NoProc
  /\ owner' = p /\ goal' = v /\ done' = 0
  /\ UNCHANGED <<serving, stored>>

Switch ==
  /\ owner # NoProc /\ done < Services
  /\ serving' = [serving EXCEPT ![done + 1] = goal]
  /\ done' = done + 1
  /\ UNCHANGED <<stored, owner, goal>>

\* The revision is stored, or storing it fails.
Store ==
  /\ owner # NoProc /\ done = Services
  /\ UNCHANGED stored \/ \E c \in Versions : stored' = Append(stored, c)
  /\ done' = Services + 1
  /\ UNCHANGED <<serving, owner, goal>>

LetGo ==
  /\ owner # NoProc
  /\ \/ UNCHANGED <<serving, stored>>
     \/ /\ done < Services
        /\ \E r \in {goal, Stopped} : serving' = [serving EXCEPT ![done + 1] = r]
        /\ UNCHANGED stored
     \/ /\ done = Services
        /\ \E c \in Versions : stored' = Append(stored, c)
        /\ UNCHANGED serving
  /\ owner' = NoProc /\ goal' = Nothing /\ done' = 0

SerialNext == (\E p \in Procs, v \in Versions : Own(p, v)) \/ Switch \/ Store \/ LetGo
SerialSpec == SerialInit /\ [][SerialNext]_serialVars
=============================================================================
