# A TLA+ development of lychgate

lychgate is a break-glass control plane: an operator (or an agent behind a
second, gated socket) asks for time-boxed access to a host, somebody approves,
the daemon opens channels on the host (ssh, vnc, bmc, http, mqtt, serial, a
hardware device) and closes them again when the time is over. What makes it
correct is that access never outlives or escapes its record, whatever thread,
process, crash or failed call comes in between. These modules model that part of
the code and check or prove it.

## 1. Inventory

| Part | Source | State it keeps | Operations |
| --- | --- | --- | --- |
| Grant | `core/src/grant.rs`, `ttl.rs` | one of Closed, Pending, Opening, Open, NeedsRevert with its times and channels | `begin_pending`, `add_satisfied`, `approve_to_opening`, `cancel_pending`, `finish_open`, `abort_open`, `fail_open`, `begin_revert`, `retain_stuck`, `finish_revert`, `renew`, `status` |
| Registry | `core/src/registry.rs` | a grant per host | the above by host, `reap_to_revert`, `reap_expired_pending`, `demote_opening`, lists |
| Snapshot | `core/src/snapshot.rs` | the stored document | parse with validation, write |
| Lifecycle | `daemon/src/lifecycle.rs` | nothing of its own: store, journal, drivers, dead-man behind locks | `open`, `approve`, `close`, `renew`, `drill`, `pass`, `boot_recover`, the MCP gate |
| Process | `daemon/src/main.rs`, `listener.rs` | threads, SHUTDOWN flag | pass loop, one thread per socket, `--once`, `--dry-run` |
| Channels | `core/src/channel.rs` | the driver set | apply in order with unwind, revert all, re-establish |
| SSH drivers | `drivers/ssh.rs`, `remote.rs`, `core/src/ssh.rs` | the sshd drop-in, the fence in `authorized_keys` | apply, revert, verify, each a few remote commands |
| Dead-man | `core/src/deadman.rs`, `daemon/src/drivers/deadman.rs` | script, deadline file and cron line on the host | install, reschedule, remove, fire |
| Authority | `core/src/authority.rs` | authenticators, groups, profiles | evaluate weighted thresholds and waits |
| Store, lock file | `daemon/src/store.rs`, `lockfile.rs` | `grants.json`, a lock file | read, mutate under lock, break a stale lock |
| Journal | `daemon/src/journal.rs` | an append-only file | record |
| Ledgers | `totp_ledger.rs`, `fido2_counters.rs`, `device_state.rs` | spent codes, counters, sequence numbers | consume, advance, reserve |
| Device protocol | `drivers/device.rs`, `embed/`, `wire/` | a device's high-water counter and lease | challenge, capability, revocation |
| Other drivers | `drivers/bmc.rs`, `vnc.rs`, `tunnel.rs`, `http.rs`, `serial.rs`, `mqtt.rs` | the tunnel processes, the last password made | apply, revert, verify, suspend, re-establish |
| Proof verification | `core/src/approval.rs`, `fido2.rs`, `totp.rs`, `tpm.rs`, ... | none | verify |
| Inventory, protocol | `core/src/inventory.rs`, `proto.rs` | none | parse, validate, encode |
| Clients | `cli/`, `mcp/` | none that outlives a request | requests to a socket |
| Firmware, simulator | `firmware/esp32c3/`, `devsim/` | the anti-replay mark in flash, a relay | main loop, store a mark; fault controls |
| Secure element, FPGA | `firmware/esp32c3/**/atecc.rs`, gateware | keys in hardware | sign, verify |

How they interact.  Clients send one request per line to a socket; the listener
thread of the socket runs it to the end. The main thread loops over `pass`.
Cron may start `lychgated --once` on the same state directory. All of them share
one document behind a lock file: a *mutation* parses it, applies a registry
operation and writes it only if the operation was accepted. The lock is **not**
held while a host is being talked to, so every operation is a sequence of
critical sections with driver calls in between, and it works with the `now` it
sampled at its start. The dead-man acts on its own, from the host's cron.

What is hard, in the order of how much of the code's correctness rests on it:

- *interleaving*: two sockets, the pass and a `--once` process reach the same
  grant between each other's critical sections;
- *crashes*: between any two steps, and in the middle of a driver call;
- *partial failure*: an apply that stops half way, a revert that leaves some
  channels stuck, a dead-man install, move or removal that fails after having
  had its effect;
- *stale reads*: a list of hosts, a profile, a status or an instant read early
  and used late;
- *time*: expiry during an operation, boundary instants, renewals that add up;
- *unreliable lines*: tokens and answers lost, late or repeated, a connection
  that drops with half a command sent, a state topic that lags, a flash write that
  loses power;
- *somebody else at the target*: an administrator in the same file, a stranger in
  the account slot, a stray process on the port, a relay that sticks;
- *liveness*: a failing revert must be retried until it works; with the daemon
  gone the host, and the device, must close by themselves.

`PROJECT.json` lists each of these with its line under `hazards`.

What makes each part correct:

| Part | Properties |
| --- | --- |
| Grant, registry | a transition is accepted only in its state; a grant always has the fields of its state; what may be applied stays recorded |
| Snapshot | everything the daemon writes, it can read back |
| Lifecycle | no access without record, no ssh-borne access without a backstop, one opener per host, one Close per request, nothing opens unless its own profile is met, every open and renewal is committed under a dead-man due no sooner than the grant, access ends |
| Process | a lost listener takes the daemon down; a restart recovers what was interrupted |
| SSH drivers, dead-man | a closed grant leaves nothing on the host; the dead-man is complete while access is open and ends it by itself; foreign lines are kept |
| Other drivers | a closed grant is closed at its target; the password handed out works |
| Authority, inventory | the cycle check is right and ends; what is accepted can be served, is never free, can be met in its window and stays met |
| Store, ledgers | an update is whole or not at all, also over kills and stale locks; no code is honoured twice, counters advance |
| Device | a closed grant is closed on the device; a token sets one deadline; a revert is Ok only with the load off; the device closes alone |

## 2. Modules

    Grant            pure: states, status, transitions, what loads
      ^ EXTENDS
    Lifecycle        the daemon, the hosts and the dead-men: the state machine
      ^ EXTENDS                          ^ EXTENDS
    MCLifecycle                          LifecycleProofs   types, the exclusive claim,
                                           ^ EXTENDS        record and backstop
                                         RequestProofs     approval, journal, the
                                                           backstop's deadline

    AtomicDocument   what the daemon relies on in a shared file of state
      ^ INSTANCE (refinement)
    LockFile         lock file, read, replacement write, kills
                                                     MCLockFile   LockFileProofs

    Authority        pure: build, references, cycle search, evaluate, max_wait
      ^ EXTENDS
    Inventory        loading an inventory file, then one request
                                                     MCInventory  InventoryProofs

    Approval         proofs, TOTP and FIDO2 ledgers  MCApproval   ApprovalProofs
    Device           device driver, line, engine, flash, relay
                                                     MCDevice     DeviceProofs
    SshHost          ssh drivers, dead-man and its script on a host
                                                     MCSshHost    SshHostProofs
    Drivers          bmc, vnc and tunnel, http, serial, mqtt
                                                     MCDrivers    DriversProofs

`Lifecycle` composes the parts: it takes from the others what they are shown to
provide. A mutation of the store is one step because `LockFile` implements
`AtomicDocument`; a driver call is one step with every outcome because `SshHost`,
`Drivers` and `Device` spell that call out and show that Ok means what it says;
the authority is a parameter, and `Authority` is what the code puts there.

**Grant.** Each method of `Grant` that may refuse is a predicate (`CanApprove`,
`CanRevert`, `MidOpen`, `Reverting`, ...) and an operator for the state it
leaves (`ApproveToOpening`, `BeginRevert`, ...). `Reap` and `Demote` are one
host's share of the registry's bulk operations. `Loads` is what `parts_of`
demands of a stored interval and approval window. A channel list is a set: no
property here depends on order. A nonce is a number that is never drawn twice.

**Lifecycle.** Variables and what they stand for:

| Variable | In the code |
| --- | --- |
| `store` | `grants.json`, as every reader sees it |
| `applied` | what is really in force on a host, whatever the store says |
| `deadman` | the dead-man of the host: the deadline `at` it is armed with (`NotInstalled`, -1, if none), whether its last write was `cut` short, and (ghost) the thread it was written `by`; `NoDeadman` when nothing is there |
| `pc`, `job` | where each thread stands and the locals it carries |
| `clock` | the time all machines read |
| `nonces` | requests a host has had (names the current one) |
| `closes`, `panicked` | Close lines in the journal; `expect`s that failed |
| `crossed` | ghost, see below |
| `faults`, `crashes` | used up parts of the bounds |

Threads are `Main`, the `Listeners` (those in `Mcp` come through the front door)
and the `Once` processes. A step is one critical section or one call under the
drivers' mutex; the label of a thread names the step it takes next.

| Code | Actions, in order |
| --- | --- |
| `open` | `OpenRequest` |
| `approve` | `Approve` (operator) or `McpApprove`, `ApproveGated` (front door); `Prove`, `EvaluateProofs`, then the shared tail |
| `open_pending_now`, `drive_open` | `Claim`, `ApplyChannels`, `InstallDeadman` [, `UnwindApplied`], `FinishOpening` or `UnwindOpening` |
| `close` | `Close`; `CancelPending`, or `BeginReverting` and a revert |
| `drive_one_revert` | `RevertChannels`, `RemoveDeadman`, `FinishReverting`, `JournalClose`, or `RetainStuck` |
| `renew` | `RenewRequest`, `RescheduleDeadman`, `RenewChannels`, `CommitRenewal` |
| `drill` | `Drill`, `BeginDrill`, the tail, `CloseDrill` and a close |
| `pass` | `PassReap`, `PassList`, `PassRevert` (a revert per item), `PassAwaiting`, `PassWait` (the tail per matured wait) |
| `boot_recover` | `BootDemote`, `BootList`, `BootReestablish`, `BootRetract`, `BootDone` |
| process | `Crash` (with `CutShort`: the driver call under way happened in part), `Lost` (an I/O failure ends one listener or a `--once` run), `Shutdown`, `Fatal` (the stored document does not load) |
| world | `Tick`, `DeadmanFires` |

A call to a host that fails may still have had its effect. An install or a
reschedule of the dead-man that fails, or that a crash cuts off, leaves what one of
its three writes can leave (`ArmStopped`): nothing touched, an empty script, a whole
script and an empty deadline, a cron line lost, or everything done; a dead-man with a
file cut short does not fire (`Armed`, and the run `reschedule`). A removal that fails
has removed it or not, a stuck channel may or may not be in force. A failed `expect` is modelled by what it
does: the listener thread is lost and the main loop then stops the daemon, or
the process dies.

*The ghost `crossed`.*  Nothing in the code ties a running operation to the
request it was begun for: a revert, a claim or a renewal acts on whatever grant
it finds at the commit. `crossed` collects the hosts on which a thread acted
with work it had taken from an earlier request (or on which a `--once` run
demoted a live open). `Cross(t)` is its only writer besides `BootDemote` and it
guards nothing. The safety properties that do not survive such a step are stated
for hosts outside `crossed`; the unconditional statements are the configurations
of section 4. `SoleOpener`, `OpenSettles` and `CloseJournaledOnce` need no such
exemption.

**LockFile, AtomicDocument.** The four files of state share one discipline:
`acquire` a lock file, read, apply a closure, write a temporary file, rename it,
remove the lock. Each call to the file system is a step (`Create`, `RecordPid`,
`Judge`, `Steal`, `Deadline`, `Read`, `CreateTmp`, `SyncTmp`, `Rename`,
`Release`; `Refuse` is any error on the way), `Kill` ends a process between any
two. A document is the sequence of updates it holds. The threads of a process
share its PID, and with it the temporary name. `AtomicDocument` says what
everybody relies on: an update is appended to what the update before it left, or
has no effect, and one that was answered is there. The mapping is
`Atomic == INSTANCE AtomicDocument WITH document <- file, void <- robbed`: the
lock, the copies and the temporary files are hidden, and the promise is void once
a lock was taken from a live holder, which the aging rule permits.

**Authority, Inventory.** `Authority` has the checks of `from_spec` and
`build_authority` as predicates, the iterative three-colour search of
`check_group_acyclic` as operators on its stack and colours (`Pushed` is its loop over
a group's factors), `evaluate` as a recursive function over the groups, a sum of
weights as the loop that adds them, and `max_wait` as a maximum over the groups that
are reached, the smallest set closed under the references. `Parsed` is what the types
of the parsed structs guarantee. `Inventory` is a daemon that loads one file: `ValidateHosts`,
`FromSpec`, the search one iteration per step, `CheckAccess`; then one request at
a time, `Open`, `Prove`, `Wait`. Formats (keys, hashes, durations, TOML) are a
set of defects of a host and one bit of an authenticator.

**Approval.** `approve` and `verify_proof` per thread: `Present` reads the
request and samples `now`; one action per shape of token verifies and updates its
ledger (`VerifyBound`, `VerifyFido2`, `VerifyTotp`, `VerifyPassword`,
`LedgerFails`); `Record` and `Evaluate` go on with whatever request is pending
then. A token is what its verifier can tell about it; signatures are unforgeable.
Codes are drawn so that one comes back inside a window and two secrets collide.

**Device.** The driver (`Apply`, `Renew`, `Revert`, `Restore`), each write of its
ledger a step of its own (`RecordNonce`, `Reserve`, `Clear`; `LedgerFails`), one or
two transactions, and the daemon's own commit (`Close`) after the driver's, so that a
crash may fall between any two of them; the line; and the device: the engine
(`Accepts`, `Anchor`, `Revoke`, `Tick`), the anti-replay mark in two flash slots, a
relay that may stick. The slots share a sector and the storage library writes by
erasing and programming that sector, so a write that power cuts (`PowerCut`) or that
reports an error (`StoreFails`) leaves any subset of the slots whole (`Interrupted`);
the ghost `erased` remembers that it left none, which the first four properties
exempt and `MCDevice_mark` shows. A device that has lost its mark may take up a grant
the ledger does not name, and then refuses every revocation (`Estranged`) until its
own deadline. The line is a queue in
each direction: a reply that missed its transaction may be taken for the answer
of the next, and any token ever sent may arrive again. A failed attempt because
of a stuck relay or an estranged device counts as a fault, so retries are bounded. The fail-state the
inventory declares is the one the device is wired to. `verify` only reads.

**SshHost.** One host and the daemon's operations on it, one remote command per
step, in the order of `lifecycle.rs`: an open writes the drop-in, reloads, checks
the posture, rewrites the keys, then writes script, deadline and crontab and
reads them back; a revert goes the other way and removes the dead-man last. Any
command may fail before or after its effect; `DropConnection` and `Crash` may cut
a file's content off while the remote shell runs on. The script is one line per
step, one run at a time. The daemon's `cat > tmp && mv` and the script's
`awk > tmp && mv` rewrite `authorized_keys` through the same temporary file, so its
truncation, its filling and its move are three steps of each (`WriteKeys`,
`FillKeys`, `MoveKeys`; `TruncateTmp`, `StripFence`, `ReplaceKeys`), and the writer's
handle follows the file a move of the other renames (`Moved`, `Follows`). A file of
keys has the administrator's lines above and below the fence; the script's awk drops
what is below a fence without END (`Stripped`). An administrator adds lines, tears the fence, changes
`sshd_config` and repairs what the drivers only report. `mishaps` remembers what
no property can ask the code to survive: a script that ran into an open, or an
open that began while the script of an earlier grant, or what that grant had put
there, was still on the host (`overlap`), a line of the script that failed (`botched`),
a file that was cut (`cut`). `exposed` keeps, by cause, the lines a rewrite may lose:
added while the file was rewritten or there when a rewrite was cut (`late`), there
when the two rewrites met in the temporary file (`raced`), below a torn fence when the
script fired (`torn`).

**Drivers.** A behaviour is about one channel, on two hosts that share its driver
behind the drivers' mutex, as `lifecycle.rs` uses it: `Open`, `Lock`, the
driver's requests one by one, `Commit`, `TakeSecret`; `Revert`; `Stop`, `Boot`,
`Reestablish`. The http and serial drivers have the same shape and share
`RequestOn`, `ProbeOn`, `RequestOff`, `ProbeOff`. The targets act on their own: a
stranger takes the account slot, a stray process the port, a tunnel drops, a
device carries out its commands late (`Process`) and publishes its state later still
(`Report`). `mixed` remembers the hosts whose password section 4 says is mixed up;
`stale` those whose topic the driver read before the device had carried out, and
reported, everything it was sent.

## 3. Passing runs

The runs of `Lifecycle` use one host: hosts share nothing but the document, and
an operation touches one host's entry at a time, except `PassReap` and
`BootDemote`, which do the same to each. (The theorems hold for any number of
hosts.) Time has a bound (`MaxTime`), requests stop at `LastOp` so that every
behaviour has room to wind down, and the number of requests, failed calls and
crashes is bounded. Two requests are needed for anything about an earlier
request; one fault and one crash each may come at any step, and two faults let a
retry fail too.

| Run | Instance | Shows |
| --- | --- | --- |
| `race` | operator and pass, 2 requests, 2 channels, profiles with and without a wait, 1 fault, 1 crash | `TypeOK`; `NoHiddenAccess`: what is in force is recorded; `Backstopped`: no open grant with ssh-borne access is without a dead-man; `BackstopOutlivesAccess`: the dead-man leaves only after what it guards (both until a write of it was cut short); `SoleOpener`, `OpenSettles`: the claim is exclusive and its `expect`s hold; `CloseJournaledOnce`; `OpensOnlyWhenMet` |
| `renewal` | two listeners approve and renew one grant (the operator drills too), ttls shorter than and equal to the renewal window, 1 fault, only time and cron are fair | `OpensUnderBackstop`: an open and a renewal are committed under a whole dead-man due no sooner than the grant, unless the other renewal rewrote it; `BackstopEndsAccess`: with the daemon free to stop for good, ssh-borne access ends, unless a write of the dead-man was cut short |
| `once` | a `--once` process beside the daemon | `NoHiddenAccess`, `CloseJournaledOnce` |
| `live` | fair daemon with renewals, 2 faults, 1 crash or lost thread | `NoHiddenAccess`, `AccessEnds`, `RevertCompletes` |
| `store` | a process of two threads and one of one, an update each, 1 kill, live holders may stall | `OneHolder`: two threads hold the lock only if a live one was robbed; `KeepsPromise`: the refinement of `AtomicDocument`; `DeadHolderStolen`: the lock of a killed process is taken over by whoever meets it |
| `policy` | some 7000 files: every graph over three groups in which two have up to two factors and the third has one, thresholds and waits on two levels, malformed policies, overrides, channels against sections, defects | `CycleVerdict`: the search agrees with reachability; `LoadDecides`: every load ends; `AcceptedIsServable`; `NothingForFree`; `Approvable`: whatever `open` lets in can be met in its window; `MetStays` |
| `proofs` | 2 threads, 2 requests, 3 proofs of 5 authenticators, 1 crash, `now` up to one unit old | `SpentOnce`, `CountersAdvance` |
| `device` | 2 grants, 1 renewal, 3 faults of any kind, interrupted flash writes among them | until the sector is left empty: `ClosedIsClosed`, `OwnGrant`, `AnchorsOnce`, `LoadIsOff`; always: `RevertSucceeds`, `DeviceCloses` |
| `host` | 2 grants, 1 renewal, 1 fault, 1 crash, `sshd_config` with and without the include | `ClosedHostIsClean`, `Guarded`: open access is always under a complete dead-man; `HostEndsAccess` |
| `keys` | 2 grants, 1 fault, 2 edits of the administrator (a line and a torn fence in one behaviour, among others) | `ClosedHostIsClean`; `LinesKept`: a foreign line is lost only for one of the four causes in `exposed` |
| `drivers` | each channel, 2 hosts, 2 threads, 3 opens, 2 faults, 1 restart | `TypeOK` (the mutex and the grants in flight included), `ClosedTargetIsClosed`, `SecretWorks` |

Why these bounds are enough: one update per thread already has every pair of
threads meet in every step of the lock, and a further kill would only leave one
process to go on; the third fault of `device` lets a revert lose its token, then
its retry's answer, then the daemon; the second grant of `host` and `device` meets
what the first left behind; a third open of `drivers` lets a host be reopened
while the other is at work; the second edit of `keys` puts a line below a fence that is
then torn; a deadline of `renewal` that two renewals may move lies before `MaxTime`, so
that every dead-man comes due; the retention of `proofs` is the least its assumption
allows for the lag, so that one unit less is caught.

The scaled constants keep the relations of the code's: `RETAIN_SECS` (600 s in
the code) is at least three steps of 30 s and the lag, which the lock's timeout
bounds; a wait of 3 is refused by `open` at an `ApprovalWindow` of 3, one of 2 is not.

`renewal` does not check for deadlock: a document that no longer loads (section 4)
stops the daemon for good. In `proofs`, `device`, `host`, `keys` and `drivers` nobody
is obliged to ask for anything once the bounds are used up, and the system rests.
The other runs check it. The `TypeOK` of the modules whose run does not
list it holds on the same instance; it is there for their proofs.

*Fairness.* `FairSpec` assumes: time passes and cron runs (`Tick`,
`DeadmanFires`, weak); a thread that has begun goes on (`Continue`, weak: the
locks are held briefly and handed on); the service manager restarts the daemon
(`BootDemote(Main)`, weak: `systemd/lychgated.service` has
`Restart=on-failure`, `RestartSec=5`); the main loop looks at its listeners
between two passes, so a shutdown that is due again and again happens
(`Shutdown`, strong: the condition comes and goes with each pass, the loop looks
every 250 ms in between). No request is ever owed, no call is assumed to
succeed; only the number of failures is finite. `BackstopSpec` drops all of it
but time and cron, and so does the specification of `SshHost`. In `LockFile` a
thread that has begun goes on and a file left behind grows old; in `Inventory`
the loading thread goes on; in `Device` a device with power counts down
(`FairSpec`), and only for `RevertSucceeds` (`Served`) does the daemon retry, the
device answer and a stuck relay get freed some time. Each failure uses up a bound
and none is owed.

## 4. Where the code departs from what it says

The run `reschedule` (a finding in `PROJECT.json`): `write_file` runs `cat > tmp &&
mv tmp path` and its content follows on standard input. When the connection drops,
or the daemon dies, after the remote shell has started and before the content was
sent (`transport.rs:94-104`), `cat` sees the end of its input and succeeds, and an
empty file is moved into place. If that file is the dead-man's deadline, a renewal
fails and is refused, as it should be, but the script from then on exits at its
first lines: `docs/ROADMAP.md:243-246` says "if the reschedule fails, the renewal is
refused and the backstop still fires on time". The same happens to the script itself
and, in an open, to `authorized_keys`; there the read-back notices, if the daemon
lives.

More counterexamples are kept as configurations that are not listed as runs. Each
violates the one property it names, and a passing run states what holds without the
step in question.

| Configuration | Property | What happens, and what the code says of it |
| --- | --- | --- |
| `MCLifecycle_hidden` | `NoHiddenAccessEver` | a pass begins to revert request 1; the operator's close finishes it; request 2 is opened, fails and leaves a stuck channel; the old revert commits Closed over it: access in force that no grant records. `lifecycle.rs:9-10`: the daemon never restarts into "a grant that ... hides access it does" |
| `MCLifecycle_cancel` | `PendingAlwaysCancels` | close reads Pending, the request is opened, reaped or replaced, and the `expect` "a pending grant can always cancel" (`lifecycle.rs:1191`) fails: the daemon goes down |
| `MCLifecycle_claim` | `ClaimIsOfTheRequestEvaluated` | the request evaluated is cancelled and replaced before the claim, which opens the new one unapproved. `lifecycle.rs:816-817`: the claim "re-checks the state, closing the gap with the reads above" |
| `MCLifecycle_frontdoor` | `FrontDoorGated` | the MCP gate looks at the profile of the pending request, `approve` reads the request again, and one that replaced it in between gets a proof that came through the front door although its profile is closed to it. `lifecycle.rs:202-204`: "`open`/`approve` are refused unless the target profile is `mcp = true`" |
| `MCLifecycle_renew_race` | `NeverPastTheBackstop` | two renewals move the dead-man in one order and commit in the other, and a grant is committed that ends after its dead-man is due; `lifecycle.rs:1001`: "extending the grant past its backstop would be fail-open" |
| `MCLifecycle_loads` | `StoreAlwaysLoads` | a renewal keeps `opened_at`, so the stored interval can exceed the cap `parts_of` enforces; nothing loads after that. `snapshot.rs:58-59`: the check "refuses every combination the daemon would never write" |
| `MCLifecycle_once_coexists` | `OnceCoexists` | a `--once` run demotes the open a live daemon is driving, whose `expect` then fails. `main.rs:184-185`: "cron passes coexist with a daemon by design" |
| `MCLockFile_steal` | `OneWinner` | two waiters judge one stale lock; the first steals it and creates its own; the second renames that one away. `lockfile.rs:76`: "Steal by atomic rename so only one waiter wins" |
| `MCApproval_replay` | `CountsForOne` | a proof is verified for the request read first and recorded for the request pending by then, and presented again for the first. `lifecycle.rs:599-600`: "a distinct nonce per request means it cannot be replayed for another grant" |
| `MCDevice_mark` | `MarkSurvives` | both slots of the anti-replay mark lie in one flash sector (`firmware/esp32c3/src/main.rs:48-50`), which the `write` of esp-storage erases and programs again. Power lost in between leaves no mark, and a token the device has honoured is fresh again. `logic/src/lib.rs:6-8`: "A power cut mid-write corrupts at most the slot being written; the previous mark survives in the other." The crate is not in the repository: modelled is its documented behaviour, and that NOR flash needs an erase |
| `MCSshHost_torn` | `TornFenceSpared` | with the END line of the fence edited away, the script's awk drops every line below BEGIN, the administrator's included; the drivers do report such a file. `docs/ROADMAP.md:204-206`: "keys outside the fence are never touched, and a fence that has been hand-edited is reported, not clobbered" |
| `MCSshHost_tmp` | `BothRewritesKeepLines` | a revert of the daemon and the script meet in the temporary file they share: one truncates it, the other moves it into place empty. `core/src/ssh.rs:202`: "preserving every byte outside it" |
| `MCDrivers_stranger` | `StrangerUntouched` | an apply refuses a slot that is not its own, and the unwinding of that apply, whose revert does not look at the owner first, disables it. `bmc.rs:135`: "Refuse a slot held by a stranger before touching anything" |
| `MCDrivers_swap` | `SecretAlwaysWorks` | the drivers' mutex is released between the apply and the collection of its password, and the apply of another host replaces it: each operator is given the other's password, or none |

One more of the ssh side: `docs/ROADMAP.md:239-241` says that every revert path
removes the dead-man first; `drive_one_revert` removes it last, after the
channels are out, which is the safer order and the one `BackstopOutlivesAccess`
and `Guarded` rest on.

Three more steps of `Lifecycle` that the comments of the code do not expect,
without a configuration of their own:

- a milder form of `MCLifecycle_hidden`: the stale list of a pass is used while
  request 2 is Opening, and a retry reverts a fresh open (`lifecycle.rs:14-15`
  says retries touch only NeedsRevert);
- a renewal begun in time commits after the expiry and reopens a grant no pass
  has reaped yet (`grant.rs:320-321`); its dead-man moved with it;
- in `--dry-run` a close still removes, and a renewal still moves, the dead-man
  of a host with `[ssh]` (`README.md:117`).

## 5. Proofs

Twenty-nine theorems in eight modules, each for every value of the constants: any number
of hosts, threads, channels, grants, faults and crashes. The assumptions are the
`ASSUME`s of the modules, which TLC evaluates in every run. Every inductive invariant
below was also checked by TLC on the runs' instances, and each module
has one lemma per action (or per group of actions that share a shape).

**`TypeCorrect`** (`LifecycleProofs`): `Spec => []TypeOK`. `TypeOK` is inductive
as it stands. Lemmas for what the actions share: the transitions of `Grant` stay in
`GrantState`, `Call` and `Return` keep `pc` and `job` well typed, the outcomes of host
calls keep `applied` within the channels. `LifecycleAssumption`: finitely many, at
least one host; threads of different kinds are different; the inventory is well typed;
an open may not name one of the two synthetic profiles.

**`ClaimIsExclusive`, `ExpectsHold`** (`LifecycleProofs`), for a daemon without a
concurrent `--once` process (`Once = {}`; with one they are false, see
`MCLifecycle_once_coexists`): `Spec => []SoleOpener` and `Spec => []OpenSettles`.
Neither is inductive. The induction is on `OpenerInv`, the conjunction of

- `SoleOpener`: a thread that drives an open finds its grant Opening, and is
  alone in it;
- `OpenSettles`: its `expect`s have not failed;
- `ReturnsOK`: an operation returns only to the idle loop, to the two loops of a
  pass or to the close of a drill, never into the middle of an open. Without it
  `Return` could produce a second driver;
- `BootAlone`: while the main thread is in boot recovery every other thread of
  the daemon is down. It makes the bulk demotion harmless: nobody is driving;
- `BootCanRetract`: every host the boot still has to look at holds a grant that
  can be reverted, so the `expect` of the retraction holds.

The argument: `Claim` is the only way in, and it needs a Pending grant while
every driver needs an Opening one; nothing but the two settling commits and the
demotion takes a grant out of Opening (each transition lemma says so); the
demotion happens when nobody drives.

**`NothingIsHidden`, `OpenIsBackstopped`, `BackstopLeavesLast`** (`LifecycleProofs`), with
`--once` processes: `[]NoHiddenAccess`, `[]Backstopped`, `BackstopOutlivesAccess`. The
last two hold until a write of the host's dead-man was cut short (`cut`, which
`Standing` carries through the induction): a renewal that fails can take the dead-man
of an open grant away, as `reschedule` shows, and no theorem could say otherwise.
`AccessInv` says of every host outside `crossed` what each thread knows of it between
two of its steps:

- the thread that drives an open (`DriverOK`) is of the current request, the grant
  records its channels, nothing is in force before the apply, only what is stuck after
  an unwinding, and the dead-man is armed before the last commit;
- a thread that reverts (`ReverterOK`) and every item of a pass's list (`ListOK`) hold
  work that is right for as long as its request is the current one: the grant is
  NeedsRevert or Closed, and at most the work's channels are in force. A list may be
  as stale as it likes; once its request is over, using it puts the host in `crossed`;
- two threads never drive one such host (`OneDriver`), and an operation returns where
  it may (`ReturnsOK`, `ListsOwn`).

A step is classified by what it does to a host (`Quiet`, `Benign`, `Spared`) and to a
thread (`Same`, `Settles`); the frame lemmas `SettlingStep`, `CommitStep` and `LocalStep`
do the induction once, and an action's lemma only says which kind it is.

**`OpensWhenMet`, `ClosesOnce`** (`RequestProofs`): `OpensOnlyWhenMet`,
`[]CloseJournaledOnce`. A thread that found its request met carries the nonce of that
request. `ClaimOK` says that while this is the host's request and the thread would
still act on it, what the thread found holds; if the request is replaced the nonce
differs for good, and the claim crosses. `OpensWhenMet` needs `EvaluateAssumption`: more
proofs and more time never take away what was met (the lemma `EvaluateGrows` of
`InventoryProofs` shows it of the authority's own `evaluate`). For the journal, `JournalInv` counts:
lines written, threads about to write one, and one for a grant that is not Closed never
exceed the requests.

**`CommitsUnderBackstop`** (`RequestProofs`): `Spec => OpensUnderBackstop`, for any
number of threads that renew and any ttls, also shorter than the renewal window. The
thing to show is that what a thread wrote before it went on is what stands when it
commits, although the host's dead-man may have fired, been removed by a revert or been
cut short meanwhile. `DeadlineInv` has three parts. `DeadlineOK`: a renewal carries the
expiry it will commit, and if the dead-man was last written by a thread that is past
its install or reschedule, it is whole and due at that thread's expiry. `NobodysOK`: a
dead-man nobody has written is not there. `OpenerOK`: the driver of an open carries the
expiry of the grant it drives. `AccessInv` adds that with ssh-borne access in force
under an open or opening grant the dead-man is there or cut. A step is `Placid` (it
writes no dead-man and takes up no open or renewal) or one of the few that are not: the
claim, the install, the start of a renewal, the reschedule and a crash that cuts one
off. What the theorem exempts is the dead-man that another thread wrote after this one,
the case of `MCLifecycle_renew_race`; hosts in `crossed` are exempt as above. It does not
say that the dead-man is never due before the stored expiry: a renewal that shortens the
interval moves the dead-man first, and until it commits the dead-man is early, which is
the safe order.

**`OneHolderAlways`, `FilesKeepPromise`** (`LockFileProofs`): `[]OneHolder`, and
`Spec => KeepsPromise`, the refinement of `AtomicDocument`. Until a live holder is
robbed: who holds owns the file at the lock's path (`HolderOwns`); what a writer has
read is still there (`CopyIsFresh`); the temporary file about to be renamed is that
document with the update at its end (`TmpIsWhole`); an update is in the document from
its Rename on and only then (`AppliedAtRename`). Then Rename maps to the abstract
update, the answer to the abstract answer, and every other step to a stutter.

**`TotpSpentOnce`, `Fido2CountersAdvance`** (`ApprovalProofs`): `[]SpentOnce`,
`[]CountersAdvance`. `LedgerCovers`: whatever was honoured is in the ledger, or its
window is out of reach of every thread, now and later. Pruning keeps it because an
entry is written at most one step before the step it names (`EntriesOK`), a thread's
`now` is at most `MaxLag` old, and `RETAIN_SECS` is at least `3 * STEP_SECS - 1 +
MaxLag`, the assumption of the module. `MarksCover`: a mark is at least every counter
honoured.

**`GrantIsOwn`, `ClosedStaysClosed`, `TokenAnchorsOnce`, `RevertLeavesLoadOff`**
(`DeviceProofs`): `[]OwnGrant`, `[]ClosedIsClosed`, `[]AnchorsOnce`, `LoadIsOff`. The
invariant relates the mark in flash, the numbers reserved, the tokens ever sent and the
step the driver is at: a token above the mark names the recorded grant (`LiveIsOwn`);
an acknowledged revocation means that no token ever sent can be accepted
(`AckMeansDead`); a report that missed its transaction cannot answer the read-back of a
later one (`LateOK`); what set a deadline is at or below the mark (`BelowMark`). All of it
is about the mark, so all of it is claimed until an interrupted write leaves the sector
empty (`erased`): any other interrupted write leaves the mark at the old value or the new
one, and a token above the old mark is one the argument already covers.

**`ClosedLeavesNothing`, `AccessIsGuarded`, `ForeignLinesSurvive`** (`SshHostProofs`):
`[]ClosedHostIsClean`, `[]Guarded`, `[]LinesKept`. The invariant has one part for each,
per command and per line of the script: what is undone stays undone (`CleanInv`,
without an overlap), the parts of the dead-man that are there when (`GuardInv`, without
a mishap), and the lines that a copy of the keys under way, the temporary file and what
the two writers will put into it have (`LinesInv`). `LinesKept` exempts the lines in
`exposed`; `MCSshHost_tmp` and `MCSshHost_torn` show that its last two causes are real. The first
attempt failed for a reason: with three grants and two faults an open could begin while
the script of an earlier grant was still at work, which no instance of the run
reaches. That is an overlap too, and the ghost now says so.

**`DriversTypeCorrect`, `ClosedOverClosedTarget`, `SecretIsTheHosts`** (`DriversProofs`):
`[]TypeOK`, `[]ClosedTargetIsClosed`, `[]SecretWorks`. `IInv` says where a thread may be
(`PlaceOK`: which steps belong to its channel and operation), how its operation may have
come out (`OutcomeOK`), which grant it has in flight (`GrantOf`), what a revert has undone
so far (`UndoneOK`: the forward is down from the port's check on, the password cleared
before the wipe, nothing left when it reports closed), and whose password the target and
the driver hold (`SecretOK`). Two threads are never at one host (`Apart`), and what a
boot has yet to re-establish is open and left alone (`RestoreOK`). Closed has to mean a
little more than the property: nothing is on its way in a broker's inbox either (`Off`),
unless the topic was stale when the driver read it.
`LocalStep` reduces a step to the host it is at; `FailStep`, `DoneStep` and `MoveStep`
are the three ways a driver's step can end, and `EnvStep` is a target that moves by
itself.

**`LoadTypeCorrect`, `CyclesAreRefused`, `AcceptedCanBeServed`, `NothingIsFree`,
`AdmittedIsApprovable`, `MetIsKept`** (`InventoryProofs`): `[]TypeOK`, `[]CycleVerdict`,
`[]AcceptedIsServable`, `[]NothingForFree`, `[]Approvable`, `MetStays`, for every set of
files whose fields have the types of the structs they are parsed into
(`ParsedAssumption`), so for any number of groups, factors, weights and levels. The
induction is on `LoadInv` (what the phases passed so far have established) and
`RequestInv` (a pending request was let in by `open` on its host).

The search: what lies on the stack above a group that is being left is reached from it
(`PathOK`), and a grey group is one being left (`GreyOK`), so a back edge closes a cycle.
For the other direction a `Knot` is a set of groups each of which names one of the set.
Each child of a group being left is black or still above it (`ExploredOK`); when the group
is left all are black, and if no black group is in a knot (`BlackOK`) neither is this one.
A group the stack holds twice is entered again after it was black, so "the children of a
black group are black" would not be an invariant; `BlackOK` speaks of the graph alone. At
the end every group is black and no knot is left, in particular nobody reaches himself.

The evaluation: sums are shown to exist and to grow with their summands by induction up
to the length of the list, stated over sets (`UpTo`, from the well-foundedness of `<`).
The recursion of `evaluate` has a solution because it is monotone (`SomeMet`: the groups
in every set closed under being met). The three properties then each look at a set of
groups that would be a knot: those met for free, those met once and not later, those not
met with all proofs and all waits over.

Only model-checked:

- liveness (`AccessEnds`, `RevertCompletes`, `BackstopEndsAccess`, `DeadHolderStolen`,
  `LoadDecides`, `RevertSucceeds`, `DeviceCloses`, `HostEndsAccess`): reasoning under
  fairness is not for this prover.

## 6. What is abstracted or left out

- `Lifecycle` takes a read or a mutation of the store as atomic; `LockFile` is
  about what is inside. An I/O failure of the store, journal or a ledger is
  `Lost`, at any step, for a listener or a `--once` run, and a `Crash` for the
  main thread.
- `Lifecycle` takes the authority as the operator `Evaluate(profile, satisfied,
  elapsed)` and a proof as an authenticator's id.
- Order of channels in `Lifecycle`: an apply that fails may have tried any
  nonempty subset, which is more than the prefixes the code can leave. Its clock is
  shared by daemon and hosts, and its
  dead-man is one call: an install or reschedule that stops has one of the outcomes of
  `ArmStopped`, in which a file cut short is taken as one that does not work (a prefix of
  the deadline is not told from an empty file).
- Cryptography is unforgeable. Which byte string verifies is not modelled: CBOR,
  ASN.1, base64, token and frame encodings are left out.
- The age of a lock is one bit, the wait for it ends at any time.
- `LockFile` syncs a document when it writes it; what a power failure of the
  daemon's own machine does to a renamed file is the file system's.
- `Device`: esp-storage is outside the repository; a write that does not complete leaves
  any subset of the two slots whole, and a slot that is not whole does not decode. One
  device per behaviour.
- `SshHost`: `sshd -T` reads the configuration, so the check of a posture does not
  see a reload that failed silently. Two runs of the script at once are not
  modelled. The commands of a dead-man's removal are grouped as the code groups
  them. Two writers of one temporary file leave the content of either. Of the ways
  to damage a fence only a lost END is modelled.
- `Drivers`: an escrow that refuses the password is a failed request of the same
  apply. A vnc revert ignores a failure to remove the staged file, as the code does.
  A set or clear command of vnc that exits 0 is taken to have acted: `vnc.rs:12-13`
  says that only the tunnel half can be read back. `ProbePort` is the check of `up`
  and the one after it in one step.
  Without a probe (`verify = "none"`) nothing is claimed of a target.
- `Grant::begin_open` is used only by the core's own tests; `probe_writable` of the
  store leaves nothing behind.

Not modelled:

- CLI and MCP front end: clients that keep nothing; what they can make the daemon
  do are the requests of `Lifecycle`'s listeners.
- Protocol, journal format, snapshot migrations: encodings.
- `sim.rs`: in-memory stand-ins for the drivers, with their contract.
- TPM sealing, the secure element and the FPGA gateware: calls to a vendor library
  and hardware timing.
- Argument parsing, secret loading, socket permissions.

## 7. Plan

All modules of section 2, their runs and the proofs of section 5 are done: every
invariant and every action property a passing run checks is also a theorem. What could follow: a
run of `Lifecycle` whose `Evaluate` is the one of `Authority`, and the one-step driver
calls of `Lifecycle` as a refinement of `SshHost`.
