# TLA+ specification of warp-router

warp-router turns a Debian machine into a multi-WAN router. One YAML file,
`site.yaml`, describes the site; the `warp` command validates it, renders the
configuration of FRR, nftables, Kea, Unbound and sysctl from it, activates it,
and keeps the revisions it applied. A second, long-running command,
`warp monitor`, probes the WAN gateways and takes a dead uplink out of the
default route.

This directory models the parts of the program that keep state, and the pure
parts (validation and rendering) as operators, checks them with TLC on small
instances, and proves the central properties with TLAPS for every instance.
`PROJECT.json` has the machine-readable index: components, runs, mutants, the map from definitions to source lines, findings, hazards, theorems.

## Inventory

| Part | State | Operations | Talks to |
|------|-------|------------|----------|
| Prober, `internal/health/probe.go` | status and failure counter per uplink under `p.mu`; one goroutine each; a context | `Start`, tick, ping, record, call back, `Stop` | `ping`; the controller, by callback in the probing goroutine |
| Controller, `internal/failover/controller.go` | `active` flag per uplink under `c.mu` | `InstallInitialRoutes`, `HandleStateChange` | the route manager, called under `c.mu` |
| vtysh manager, `internal/failover/vtysh.go` | `installed`, what it believes FRR has | `ReplaceECMPRoute`, one vtysh command per change | FRR |
| `warp monitor`, `cmd/warp/main.go` | the process | launch, signal, exit | all of the above |
| Apply lock, `internal/apply/apply.go` | `/run/warp-apply.lock` and `flock` on its inode | `AcquireLock`, clean-up | every apply and rollback |
| VLAN provisioning, same file | VLAN links, their state and addresses, in the kernel | `ProvisionVLANs` | `ip`; called by `Execute` |
| Pipeline, same file | configuration files, `.warp-backup` files, running services | `Execute`, backup, write, reload, restore | renderers, `systemctl`, `sysctl` |
| Revision store, `internal/revision/store.go` | a directory per revision, the `current` symlink | `Save`, `List`, `Current`, `Previous`, `Get` | read without a lock by rollback, revisions, status |
| `warp apply`, `warp rollback` | `site.yaml`, the command's copy of it | load, lock, execute, save | lock, pipeline, store |
| Status file, `internal/health/status.go` | `/run/warp/health.json`, and the counters under `p.mu` it is copied from | written once a second by a goroutine of the monitor, read by `warp status` | prober |
| Configuration, `internal/config` | none (pure) | `Parse`, `Validate` | `validate`, `apply`, `monitor`; rollback only parses |
| Renderers, `internal/services` | none (pure) | `Render` of sysctl, FRR, nftables, Kea, Unbound | pipeline |
| netlink manager, `internal/failover/netlink.go` | kernel routes | not created by any command | |

What is hard here: goroutines that call into a lock held for the duration of
external commands; errors of those commands; a process restarted over state that
outlives it (FRR's routes, kernel links, backups, half-saved revisions); two
commands at once; readers without a lock; and values that are read, used later,
and may have changed in between. The list, line by line and with the properties
that cover each entry, is `hazards` in `PROJECT.json`.

What makes each part correct:

- *monitor*: an uplink is down after the configured number of failed probes in a row;
  a route is withdrawn only from an uplink that is down and restored only to one that
  is healthy; flags, map and FRR agree as far as errors permit;
  a dead uplink leaves the default route; stopping ends.
- *lock*: one pipeline at a time; nothing that dies keeps the lock.
- *pipeline*: success means everything has the new configuration (kernel settings as
  far as the kernel takes them); failure means the old files are back; old content is
  never lost.
- *VLANs*: success means the wanted links exist, are up and have their address.
- *store*: what is listed is complete and immutable; `current` and `Previous`
  mean what they say.
- *commands*: the last revision is what runs; only validated configurations run; a
  rollback goes back one revision.
- *status*: a report is one moment of the prober, calls of `warp status` never go
  back in time, and a running monitor's report gets through.
- *validation and rendering*: what passed `Validate` means, once rendered, what
  `site.yaml` says, to the firewall, the DHCP server, the resolver and the routes.

## Modules

| Module | Models | Notes |
|--------|--------|-------|
| `WanConfig` | the WAN part of a configuration, thresholds, route keys | constants and pure definitions |
| `Prober` | `internal/health` | a building block of `Monitor` |
| `VtyshRoutes` | the route manager and FRR's routes | a building block of `Monitor` |
| `Monitor` | `warp monitor`: both of the above, the controller, signals, death, restart, FRR reloads | the composition |
| `WanFailover` | the abstract promise of failover: when an uplink is down, and whose routes may change | `Monitor` implements it |
| `ApplyLock` | `AcquireLock` and its clean-up | used by `WarpCli` |
| `ApplyPipeline` | `Pipeline.Execute` | |
| `Deployment` | the abstract promise of the pipeline: all services in order, or the old files back | `ApplyPipeline` implements it |
| `VlanProvisioning` | `ProvisionVLANs` | |
| `RevisionStore` | `revision.Store` | |
| `RevisionLog` | the abstract promise of the store: a log that only grows, and its current entry | `RevisionStore` implements it |
| `WarpCli` | `warp apply` and `warp rollback` as whole commands | extends `ApplyLock` |
| `SerialCommands` | the abstract promise of the lock: commands take effect one after the other | `WarpCli` implements it until a lock file strays |
| `StatusFile` | `WriteStatusFile`, the goroutine that calls it, the part of `doPing` it shares `p.mu` with, `warp status` | extends `WanConfig` |
| `SiteConfig` | a parsed `site.yaml` and `Validate` | pure |
| `Renderers` | the five renderers, and what the services make of their input | pure, extends `SiteConfig` |
| `SiteCommands` | `warp validate`, the first half of `warp apply`, the set-up of `warp monitor` | extends `Renderers` |
| `MC...` | instances for TLC | constants and symmetry only |
| `...Proofs` | theorems about the module they extend | |

**Monitor.** A goroutine of the prober is at `select`, in `ping`, in its
`callback` or `done`. `RecordPing` is `doPing` up to the unlock of `p.mu`; the
callback that follows is part of the same goroutine, so `Tick` needs the
goroutine to be back in its `select`. `HandleStateChange` takes `c.mu`, flips the
flag and collects the nexthops in one step, because nothing else can observe the
moments in between; from there each vtysh command is a step of its own, during
which other uplinks go on. A command succeeds (`CommandOk`), fails and changes
nothing (`CommandError`), or changes FRR and reports an error all the same
(`CommandLost`). The failure counter is saturated at the threshold, because only
the comparison is ever used. `Kill` may let a command that was already started
reach FRR. `FrrReload` is the frr step of an apply.

**ApplyLock.** `flock` belongs to an inode and the path names at most one; `Open`
with `O_CREATE` yields the inode named or a fresh one. `strayed` records that a
clean-up removed a name that another process had opened.

**ApplyPipeline.** Writing a file in place (`os.WriteFile`, for backups and
restores) is two steps, truncate and write; `atomicWrite` is one. `before` and
`ranBefore` remember the start of the run; `damaged` holds the steps whose own
backup or restore met an I/O error or was cut off. Each service's
configuration is one value; a failed reload leaves the service with the old
configuration, the new one, or broken. `applySysctl` runs `sysctl -e`, which reports
success although the kernel refused settings (`apply.go:221`, AD-010 in
`doc/WARP_ROUTER_DECISIONS.md`): `ActivateSkips` leaves the settings as they were, or
in part new (`Broken` stands for the mixture), and the run goes on; `refused` records
it. `BestEffort` is the set of steps that are activated in this way, sysctl alone in
the code.

**VlanProvisioning.** Each `ip` command is a step. Listing, deleting and flushing
may fail without consequence (`ignored`); the other failures, and a process that
dies, are `CutShort`. VLAN links stacked on VLAN links are left out.

**RevisionStore.** An ID is a second and a suffix; the clock has several readings
per second. A save is seven file operations, and `AbortSave` can be any of them
failing or the process dying. A reader calls `Previous` without the lock: the
list is read in one step and the symlink in another. `order` counts completed
revisions and gives "before" a meaning that does not depend on the clock.
Timestamps of two saves differ: the clock has nanosecond resolution and a save
takes far longer.

**WarpCli.** A command loads before it locks. Pipeline and store are coarse:
services are activated one after the other, and a save is one step. A save that is
cut off (`CutSave`), by an error or a kill, has stored nothing, or has listed its
revision and left `current` at the old one or removed. The services are those the
pipeline reloads; kernel settings taken in part are left to `ApplyPipeline`. A reload
that fails (`ActivateFails`) ends the command and leaves its service with the old
configuration, the new one, or stopped, as in `ApplyPipeline`. `edited`,
`drift`, `raced` and `overtaken` record the races that the code has, so that the
properties can say exactly what holds outside them.

**StatusFile.** `doPing` is split where it holds `p.mu`: `Count` takes the lock and
counts, `Judge` sets the status, unlocks and goes into the callback, from which it
may never come back. `WriteStatusFile` is a copy of the states under the lock
(`Snapshot`), an open that truncates, and a write; each can fail and is tried again
a second later, and the process can be killed or exit in between, since nobody
waits for the writer. The file outlives the process, whose number `boot` stands for
the report's time stamp. Latencies and times are left out.

**SiteConfig, Renderers, SiteCommands.** A document is a record with the fields of
`config.go`; a string is as detailed as the code tells apart: `Unset` when empty,
`Bad` when `net.ParseIP` or `net.ParseCIDR` refuses it, an address as its bits. An
issue is a kind and a position, so two issues of one kind and entry count once.
`Validate` keeps every check, the renderers every entry that depends on the
configuration; what is fixed text is left out. Lines of the firewall carry the
position of the rule they come from. What nft, pbrd, Kea and Unbound do with their
input is marked external: first match decides, a pool is an interval, access follows
the most permissive list. A port is one value here, never a range.

## What is checked

Passing runs:

| Run | Instance | Distinct states |
|-----|----------|--------|
| `monitor` | two uplinks with the same gateway on two devices, one with a threshold of one, one with the default of three; one fault of each kind; fair | 65 thousand |
| `apply_pipeline` | two steps, the first of them best-effort, two configurations, any number of runs | 3.2 million |
| `vlan_provisioning` | two links on one parent, one on another, 36 configurations, any number of runs | 0.9 million |
| `revision_store` | three clock readings in two seconds after the initial one, two suffixes, one step back | 3.9 million with symmetry |
| `warp_cli` | two commands at a time, three configurations of which one is invalid, two edits, three revisions | 2.2 million with symmetry |
| `status_file` | two uplinks, one down at its first failure with two probes, one degraded at its first with one probe; two processes, one failing write; fair | 1.0 million |
| `site_config` | 4,945 documents, 1,340 of them valid, addresses of three bits, 256 packets | 37 thousand |

What they show:

- `monitor`: the books of controller, manager and FRR agree as far as errors permit
  (`InstalledMatchesActive`, `VerdictApplied`, `TrackedIsReal`); uplinks are judged,
  after the configured or the default number of failures, and FRR's routes change,
  only as `WanFailover` allows (`ImplementsFailover`); a verdict reaches FRR unless
  the uplink itself was disturbed, whatever errors the others meet
  (`WithdrawnUnlessDisturbed`, `RestoredUnlessDisturbed`); a signal ends the process
  (`StopTerminates`).
- `apply_pipeline`, `vlan_provisioning`, `revision_store`: what a success and what a
  failure or a crash leaves behind, after any history of earlier ones: every file is
  new after a success and every service runs it, except kernel settings that
  `sysctl -e` passed over in that run (`AppliedEverywhere`), the old content is on disk
  until then (`OldContentOnDisk`), only the restore can tear a file
  (`TornOnlyByRestore`); a listed revision is complete (`ListedComplete`) and never
  changes (`RevisionsImmutable`), and `Previous` precedes `current`
  (`PreviousPrecedes`). The pipeline implements `Deployment`
  (`ImplementsDeployment`) and the store `RevisionLog` (`ImplementsLog`).
- `warp_cli`: with two commands at once, one holds the lock unless its file was
  unlinked under another (`ExclusiveUnlessStrayed`), and the newest revision is the
  one that runs (`LastRevisionIsLive`, with its exceptions stated there); a rollback
  goes back one revision unless a command changes the current one in the window
  between its reading and its lock (`RollbackTargetsPrevious`); the steps of both are those of
  `SerialCommands` until a lock file strays (`CommandsAreSerial`).
- `status_file`: reports are never copied from the middle of a `doPing`
  (`ReportCoherent`), an unreadable file is being written or waits for the next
  write (`UnreadableOnlyWhileWriting`), `warp status` never goes back
  (`SeenNeverGoesBack`), a down uplink is reported even if its callback hangs in
  vtysh (`DownEventuallyReported`), and a file left by a dead process is replaced
  (`StaleReplaced`). Deadlock is not checked there: a monitor that nobody starts
  again is a legitimate end.
- `site_config`: the overlap check is exact (`OverlapIsExact`); Kea leases only
  addresses of the subnet (`LeasesInsideSubnet`); monitor, controller and FRR mean
  the same uplinks (`MonitorMatchesFrr`); the firewall's lines decide as its rules
  do (`FirewallFollowsRules`); without rules new connections are forwarded from
  every interface but the WANs (`DefaultKeepsWanOut`); by default the resolver serves the LANs and no WAN
  network (`ResolverServesLansOnly`); policy rules listed by priority take effect by
  priority (`PbrFollowsPriorityIfSorted`).

Why the bounds are enough for the questions asked: two uplinks are the least with
contention for `c.mu`, and the shared gateway address makes routes differ by
device only; the thresholds cover the immediate step to down, the degraded state
and the default. One fault of each kind composes in every order, and the proofs
lift the bound. Two processes that come
back are enough for the lock race: one cleans up while the other has the file open,
then opens a new one. Two pipeline steps give a step before and a step
after the failing one; runs repeat on what earlier ones left, so stale backups and
stale files occur. The VLAN configurations drop links, drop a whole parent, change
an ID, change an address and switch to DHCP. Two seconds with several readings
give suffix collisions and a change of second. Three revisions let a rollback store
its own, and two edits reach all three contents. Two processes of the monitor leave
one file to the next; one uplink goes down and comes back, the other
goes degraded, so every status is reported. Three bits give networks of every length, nested, equal, apart and with
host bits; the documents vary one section at a time, because `Validate` and the
renderers treat sections separately apart from the interface names, and pairs of
rules suffice for first-match order.

Each property has a mutant, an operator marked "Mutant of" next to the definition
it replaces, that shows a plausible bug in that code to violate it.

**Fairness** of the monitor (`FairSpec`). Weak fairness for what a running goroutine does next:
the scheduler runs it, `ping -W` ends, and vtysh ends. The last is an assumption:
the code sets no timeout for vtysh. Strong fairness for taking `c.mu`, since
`sync.Mutex` hands a starving waiter the lock, and for the `ctx.Done` case of the
select, since Go chooses among ready cases at random. Nothing is assumed of
operators: no fairness on launching, signals, kills or reloads.

Fairness of the status file (`StatusFairSpec`): a goroutine that holds `p.mu` goes
on, the writer's timer fires and its file operations return. Strong fairness for
`Snapshot`, since an `RWMutex` lets waiting readers in when its holder unlocks.
Nothing is assumed of pings, callbacks, signals or of `warp status`.

Deadlock checking is on in every run but `status_file`.

## Findings

Five runs are expected to find a violation: each states what a comment, a test or a
document says and shows how the code departs from it.

| Run | What happens |
|-----|--------------|
| `monitor_no_retry` | one failed vtysh command, and a down uplink stays routed: nobody retries before the next change of status |
| `monitor_restart` | a monitor restarted while a route is withdrawn believes it is installed and never restores it |
| `apply_lock_unlink` | removing the lock file lets two processes hold the lock |
| `cli_edited` | an edit during apply is stored as the applied revision |
| `pbr_priority` | policy rules take effect by their position in the file, not by their priority |

Further limits of the code that the models show, stated as the exceptions of
passing properties:

- `warp apply` reloads FRR and so brings back a route the monitor has withdrawn; the
  monitor's map does not notice (`WithdrawnUnlessDisturbed` and `TrackedIsReal`
  except a reload);
- a success of `warp apply` does not mean that the kernel settings are in force:
  `sysctl -e` passes over what the kernel refuses, by decision (AD-010), and nothing
  but its output tells (`AppliedEverywhere` and `ServicesChangeInOrder` except steps
  in `BestEffort` whose settings were refused in that run);
- a save that fails after its metadata was written leaves a revision that is listed,
  that runs, and that is not `current`; the next rollback goes back from the older
  current one, past it (`RollbackTargetsPrevious` speaks of `current`,
  `LastRevisionIsLive` of the last one listed);
- a VLAN link that was created but not set up stays down after the next successful
  apply, although the plan calls provisioning "idempotent on repeated apply"
  (`UpUnlessCutOff` excepts it);
- a failed apply restores files but reloads nothing, so an initial stretch of the
  services goes on running the new configuration, and files that did not exist
  before stay (`ServicesChangeInOrder`, `FailureRestoresFiles`);
- stale VLAN links are removed only from parents that still carry a wanted VLAN
  (`NoStaleOnUsedParents`), and a link switched to DHCP keeps its static address
  (`ProvisionedOnSuccess` speaks of static ones only);
- a save cut off between removing and creating the symlink leaves revisions and no
  current one (`CurrentListed` allows no current revision);
- `Previous` is the predecessor only while the clock is not set back
  (`PreviousPrecedes`);
- rollback determines its revision before it takes the lock, so it need not be the
  previous one any more when it is applied (`RollbackTargetsPrevious` names the
  window); it is a validated one all the same (`OnlyValidatedRuns`);
- `warp status` cannot tell the report of a dead monitor from a live one's
  (`StaleReplaced` only speaks of a running monitor);
- `Validate` accepts what the services will not or not as meant: an action in
  capitals is rendered as it is, a port without a protocol is dropped
  (`FirewallFollowsRules` is about rules that are spelled out), a policy rule
  without a source or towards an interface without a gateway is rendered as an
  incomplete entry, a DHCP subnet needs no interface although
  `doc/site-config-reference.md` calls it required, and the ends of a pool may be
  swapped (it then leases nothing);
- the default forward rule, "allow all LAN → WAN forwarding", also forwards between
  LANs (`DefaultKeepsWanOut` says so: what is forwarded depends on the device a
  connection comes from, not on where it goes), and ECMP switched off renders the
  same default routes as ECMP switched on (`DefaultRoutes`).

## What is proved

All theorems hold for every value of the constants that satisfies the named
`ASSUME` of the module; TLC evaluates those assumptions in the runs.

- `MonitorProofs`. The inductive invariant `MonitorInv` adds to the properties:
  a pending callback carries the status that was recorded last (an uplink is not
  probed during its callback), the shape of the lock and of `desired` while a
  handler runs, that a verdict not yet applied is exactly the one of a goroutine
  in its callback, that goroutines that have not started have not failed, and that a
  counter reaches its threshold exactly when the uplink is down.
  Without the first the refinement fails: a stale callback could withdraw a
  healthy uplink. The flags and the map agreeing on all uplinks but the one being
  handled means that a handler issues at most commands for its own uplink, which
  is why flipping one flag back is a correct undo and why every command maps to
  `Withdraw` or `Restore` of that uplink in `WanFailover`. A recorded ping maps to
  `Answer`, `Miss` or `GoDown` there, which count to the configured number on their
  own. Distinct devices
  (`WanAssumption`) make route keys distinct. Theorems: `TypeCorrect`,
  `BooksAgree`, `VerdictsAreApplied`, `TrackingIsExact`, `MonitorRefinesFailover`.
- `ApplyLockProofs`. `LockInv` is inductive: open files, program counters and
  lock holders determine one another, and until a name strays every open file is
  the one the path names; exclusion follows. Theorems: `LockNeverLeaks`,
  `ExclusionUnlessStrayed`.
- `ApplyPipelineProofs`. `PipelineInv` describes each phase: which backups are
  complete, which files are written, which are restored, for steps whose own I/O
  did not fail, and which services run the target or were passed over in this run.
  Theorems: `SuccessMeansApplied`, `FailureMeansRestored`,
  `OldContentSurvives`, `WritesAreAtomic`, and, with `ServiceOrder` on top,
  `ActivationIsInOrder`. `PipelineImplementsDeployment` maps a run to `Deployment`:
  the backups disappear, `before` is what the abstract run knows, backing up is
  unseen, `damaged` is what is lost, `refused` what was taken in part. A file under restore counts as given back from
  its truncation on, until the write fails or the process dies (then it is `Lose` or
  `Die`), which needs one more invariant, `RewriteTorn`: during the rewrite the file
  is truncated. The guards of `Fail` and of the last `Switch` in `Deployment` are
  where `FailureRestoresFiles` and `AppliedEverywhere` come in.
- `VlanProofs`. `VlanInv` says what the two loops have achieved for the devices
  and parents they are done with. Theorems: `SuccessMeansProvisioned`,
  `UsedParentsAreClean`, `LinksAreUp`.
- `RevisionStoreProofs`. `StoreInv` adds `SaveProgress`: the directory chosen was
  free, so the files being written belong to no listed revision. Theorems:
  `ListedAreComplete`, `CurrentIsListed`, `ListedAreImmutable`. For
  `PreviousIsPredecessor` three facts about the order are needed: `OrderIsDense`
  (the listed revisions are numbered without gaps, by counting them, and a save
  past its metadata has the last number), `TimesFollowOrder` (while the clock has not
  been set back, time stamps are in that order and the one of a save under way is
  later than all), and `ReaderSnapshot` (what a reader's list misses was completed
  after everything it has). Then the next older entry of the list is the one with the
  number before, although the list and the symlink are read at two moments: a
  current revision that is too new for the list makes `Previous` return none,
  not a wrong revision. `StoreImplementsLog` maps the directories to the
  sequence of their contents by `order` and the symlink to a position; `AbortSave`
  and everything before the metadata is unseen.
- `WarpCliProofs`. `CliInv` builds on `LockInv`: until a name strays a command
  past its lock is alone, so what it has activated so far is what runs, and what
  it stores is what it activated unless the file was edited. Theorems:
  `LastRevisionRuns`, `OnlyValidatedConfigurationsRun`, and, with a step of its own
  on top of `CliInv`, `RollbackHitsPrevious`. A complete and a cut-off save share one
  lemma (`Stored`): the list is as it was or has one more entry, which runs unless
  the file was edited. `CliUsesLock` shows that the commands
  obey `ApplyLock`'s specification, from which they inherit its invariant.
  `CommandsTakeTurns` maps the process in its critical section to the owner of
  `SerialCommands` and its program counter and phase to how far it has come; what
  the other commands do (load, wait, be refused, clean up, die) is unseen, because
  `CliInv` says that they do not hold the lock. Attempting this refinement is what
  added `ActivateFails` to `WarpCli`, which had left out what a failed reload does
  to a service.
- `StatusFileProofs`. The inductive invariant says that the holder of `p.mu` is the
  loop between `Count` and `Judge`, that every other state, the pending report and
  the file are coherent, that reports are ordered (what was shown, what is in the
  file, what is pending, what the prober has now), and that a torn file is being
  written or was cut off. Theorems: `StatusTypeCorrect`, `ReportIsCoherent`,
  `UnreadableIsTransient`, `SeenInOrder`.
- `SiteProofs`. `SiteInv` says that whatever is rendered is the rendering of the
  accepted configuration; the rest is about the operators. Prefixes: two networks
  share an address exactly when one holds the other's base address; an address
  between two addresses of a network is in it (by well-founded induction on the
  first bit where they differ, in the form the provers can use: a least
  counterexample). Validated interfaces have distinct names and devices, so a
  device stands for one interface and a block of lines for one rule, whose
  positions are those of the rules; the same fact, in `MonitorStartsRight`, is what
  justifies the distinct devices that `WanAssumption` asks of the monitor's uplinks.
  Theorems: `OverlapCheckExact`,
  `LeasesStayInside`, `MonitorStartsRight`, `FirewallFaithful`, `WanKeptOut`,
  `ResolverFaithful`, `PbrFaithfulIfSorted`.

Type correctness is part of every inductive invariant and a theorem of its own in
each of these modules (`TypeCorrect`, `PipelineTypeCorrect`, `VlanTypeCorrect`,
`StoreTypeCorrect`, `CliTypeCorrect`, `StatusTypeCorrect`).

Every invariant and every safety property of the passing runs is proved. Only
model-checked are the liveness properties, since fairness and `ENABLED` are outside
the prover's reach: `WithdrawnUnlessDisturbed`, `RestoredUnlessDisturbed`,
`StopTerminates`, `DownEventuallyReported`, `StaleReplaced`. Of the refinements the
safety part is proved, which is all that the abstract specifications state. The
parts of the inductive invariants that no run lists were checked with TLC on the
instances above before they were proved.

## Not modelled, and the plan

Left to do, in this order:

1. Refinement: the prober of `StatusFile` as the one of `Monitor` (`StatusFile`
   takes tick and ping in one step, so it needs a step for the ping first), and the
   coarse pipeline and store inside `WarpCli` as `Deployment` and `RevisionLog`.
2. Loss of unsynced writes in `RevisionStore`, whose files are not synced, as
   opposed to `atomicWrite`: nothing of the store survives it for certain, so it
   would weaken every property there to "unless power was lost".

Not modelled, with reasons:

- the netlink route manager and the controller's PBR bookkeeping: no command creates
  that manager (`doc/WARP_ROUTER_DECISIONS.md`, AD-015, moved failover to vtysh), and
  the vtysh manager's PBR calls do nothing;
- `warp revisions`: it reads what `Previous` reads and prints it;
- YAML decoding, text formatting and the template engine; `icmpPing`, which
  `warp monitor` replaces by `/bin/ping`;
- image building, packaging and the integration-test harness.
