------------------------------- MODULE Prober -------------------------------
(* internal/health: one goroutine per uplink waits for its ticker, pings, and *)
(* records the result under p.mu.  When the status changed it calls           *)
(* OnStateChange after releasing p.mu, in the same goroutine, so an uplink is *)
(* not probed again before its callback has returned.                         *)
EXTENDS WanConfig

VARIABLES
  status,   \* UplinkState.Status
  fails,    \* UplinkState.ConsecutiveFails, saturated at Threshold(u)
  loop,     \* where the goroutine of each uplink is
  note,     \* newStatusForCallback of a pending callback
  ctx       \* the context the goroutines watch

proberVars == <<status, fails, loop, note, ctx>>

Status == {"unknown", "healthy", "degraded", "down"}
NoNote == "none"

ProberTypeOK ==
  /\ status \in [Uplinks -> Status]
  /\ fails \in [Uplinks -> Nat]
  /\ loop \in [Uplinks -> {"none", "select", "ping", "callback", "done"}]
  /\ note \in [Uplinks -> Status \union {NoNote}]
  /\ ctx \in {"none", "live", "cancelled"}

\* NewProber: no states and no goroutines yet.
ProberInit ==
  /\ status = [u \in Uplinks |-> "unknown"]
  /\ fails = [u \in Uplinks |-> 0]
  /\ loop = [u \in Uplinks |-> "none"]
  /\ note = [u \in Uplinks |-> NoNote]
  /\ ctx = "none"

\* One iteration of Start: the goroutine of u runs from here on, while the
\* remaining uplinks are still to be started.
StartUplink(u) ==
  /\ loop[u] = "none"
  /\ ctx \in {"none", "live"}
  /\ ctx' = "live"
  /\ status' = [status EXCEPT ![u] = "unknown"]
  /\ fails' = [fails EXCEPT ![u] = 0]
  /\ loop' = [loop EXCEPT ![u] = "select"]
  /\ UNCHANGED note

Started == \A u \in Uplinks : loop[u] # "none"

\* Mutant of Tick: OnStateChange runs in a goroutine of its own and the uplink
\* is probed again meanwhile.
TickDuringCallback(u) ==
  /\ loop[u] \in {"select", "callback"}
  /\ loop' = [loop EXCEPT ![u] = "ping"]
  /\ UNCHANGED <<status, fails, note, ctx>>

\* select: the ticker fired.  Go picks any ready case, so this may also happen
\* after the context was cancelled.
Tick(u) ==
  /\ loop[u] = "select"
  /\ loop' = [loop EXCEPT ![u] = "ping"]
  /\ UNCHANGED <<status, fails, note, ctx>>

\* The counter after one more result.  Only its comparison with the threshold
\* matters, so it stops there.
NextFails(u, ok) ==
  IF ok THEN 0
  ELSE IF fails[u] < Threshold(u) THEN fails[u] + 1 ELSE fails[u]

NextStatus(u, ok) ==
  IF ok THEN "healthy"
  ELSE IF NextFails(u, ok) >= Threshold(u) THEN "down" ELSE "degraded"

\* doPing from the return of PingFunc to p.mu.Unlock.
RecordPing(u, ok) ==
  /\ loop[u] = "ping"
  /\ fails' = [fails EXCEPT ![u] = NextFails(u, ok)]
  /\ status' = [status EXCEPT ![u] = NextStatus(u, ok)]
  /\ IF NextStatus(u, ok) # status[u]
       THEN /\ loop' = [loop EXCEPT ![u] = "callback"]
            /\ note' = [note EXCEPT ![u] = NextStatus(u, ok)]
       ELSE /\ loop' = [loop EXCEPT ![u] = "select"]
            /\ UNCHANGED note
  /\ UNCHANGED ctx

\* OnStateChange returned: the goroutine is back in its select.
CallbackReturns(u) ==
  /\ loop[u] = "callback"
  /\ loop' = [loop EXCEPT ![u] = "select"]
  /\ note' = [note EXCEPT ![u] = NoNote]
  /\ UNCHANGED <<status, fails, ctx>>

\* cancel() once Start has returned.
Cancel ==
  /\ ctx = "live"
  /\ Started
  /\ ctx' = "cancelled"
  /\ UNCHANGED <<status, fails, loop, note>>

\* select: ctx.Done.
LoopExit(u) ==
  /\ loop[u] = "select"
  /\ ctx = "cancelled"
  /\ loop' = [loop EXCEPT ![u] = "done"]
  /\ UNCHANGED <<status, fails, note, ctx>>

\* wg.Wait in Stop has returned.
Stopped == \A u \in Uplinks : loop[u] = "done"
=============================================================================
