----------------------------- MODULE Deployment -----------------------------
(* What apply.Pipeline promises of the configuration files and services: a    *)
(* run installs and activates the new configuration service by service, in    *)
(* order, or gives every file its old content back.  How it remembers the old *)
(* contents is left to ApplyPipeline; here they are simply known.  What the   *)
(* code does not promise is stated too: services are not switched back, the   *)
(* kernel settings may be taken in part only, and a file whose own backup or  *)
(* restore meets an error, or whose restore is cut off, is lost.              *)
EXTENDS Naturals

CONSTANTS N, BestEffort, Versions, Initial, Absent, Torn, Broken

VARIABLES
  conf,      \* the configuration file of each service
  serves,    \* the configuration each service runs
  goal,      \* the configuration being applied
  outcome,   \* "applying" or "undoing" during a run, then its result
  old,       \* the files when the run began
  partly,    \* services the run went past although they refused settings
  lost       \* files that will not be given back

deployVars == <<conf, serves, goal, outcome, old, partly, lost>>

DeployInit ==
  /\ conf \in [1..N -> {Initial, Absent}]
  /\ serves = [s \in 1..N |-> Initial]
  /\ goal = Initial
  /\ outcome = "none"
  /\ old = conf
  /\ partly = {} /\ lost = {}

Ended == outcome \in {"none", "ok", "failed", "crashed"}

Start(v) ==
  /\ Ended
  /\ outcome' = "applying" /\ goal' = v
  /\ old' = conf /\ partly' = {} /\ lost' = {}
  /\ UNCHANGED <<conf, serves>>

\* A run that ends before it has touched a file.
Refuse ==
  /\ Ended
  /\ outcome' = "failed"
  /\ old' = conf /\ partly' = {} /\ lost' = {}
  /\ UNCHANGED <<conf, serves, goal>>

\* A file is replaced as a whole, once the services before it have switched.
Install(s) ==
  /\ outcome = "applying"
  /\ \A t \in 1..N : t < s => conf[t] = goal /\ (serves[t] = goal \/ t \in partly)
  /\ conf' = [conf EXCEPT ![s] = goal]
  /\ UNCHANGED <<serves, goal, outcome, old, partly, lost>>

\* A service takes its new file, or of the kernel settings those that are not
\* refused; the run is a success when the last one has.
Switch(s) ==
  /\ outcome = "applying"
  /\ conf[s] = goal
  /\ \/ serves' = [serves EXCEPT ![s] = goal] /\ UNCHANGED partly
     \/ /\ s \in BestEffort
        /\ \E r \in {serves[s], Broken} : serves' = [serves EXCEPT ![s] = r]
        /\ partly' = partly \union {s}
  /\ outcome' = IF s = N THEN "ok" ELSE "applying"
  /\ outcome' = "ok" =>
       \A t \in 1..N : conf[t] = goal /\ (serves'[t] = goal \/ t \in partly')
  /\ UNCHANGED <<conf, goal, old, lost>>

\* The first error ends the installing for good; the service at hand may have
\* taken its file or stopped.
TurnBack(s) ==
  /\ outcome = "applying"
  /\ outcome' = "undoing"
  /\ \/ UNCHANGED serves
     \/ \E r \in {goal, Broken} : conf[s] = goal /\ serves' = [serves EXCEPT ![s] = r]
  /\ UNCHANGED <<conf, goal, old, partly, lost>>

GiveBack(s) ==
  /\ outcome = "undoing"
  /\ conf' = [conf EXCEPT ![s] = old[s]]
  /\ UNCHANGED <<serves, goal, outcome, old, partly, lost>>

\* A file that is lost stays as it is, or is truncated while it is given back.
Lose(s) ==
  /\ outcome \in {"applying", "undoing"}
  /\ lost' = lost \union {s}
  /\ UNCHANGED conf \/ (outcome = "undoing" /\ conf' = [conf EXCEPT ![s] = Torn])
  /\ UNCHANGED <<serves, goal, outcome, old, partly>>

\* A failed run has given back all files that there were and that are not lost.
Fail ==
  /\ outcome = "undoing"
  /\ \A s \in (1..N) \ lost : old[s] # Absent => conf[s] = old[s]
  /\ outcome' = "failed"
  /\ UNCHANGED <<conf, serves, goal, old, partly, lost>>

\* The process dies; at most the file just being given back is lost.
Die ==
  /\ outcome \in {"applying", "undoing"}
  /\ outcome' = "crashed"
  /\ \/ UNCHANGED <<conf, lost>>
     \/ \E s \in 1..N : /\ outcome = "undoing"
                        /\ lost' = lost \union {s}
                        /\ conf' = [conf EXCEPT ![s] = Torn]
  /\ UNCHANGED <<serves, goal, old, partly>>

DeployNext ==
  \/ \E v \in Versions : Start(v)
  \/ Refuse \/ Fail \/ Die
  \/ \E s \in 1..N : Install(s) \/ Switch(s) \/ TurnBack(s) \/ GiveBack(s) \/ Lose(s)

DeploySpec == DeployInit /\ [][DeployNext]_deployVars
=============================================================================
