# A formal model of the PVE node driver

`pve-rancher-driver` is a docker-machine driver: Rancher runs it as a plugin
process for one machine at a time, and it creates and removes that machine's VM
through the API of a Proxmox VE (PVE) cluster. The TLA+ modules here model the
driver's operations against a cluster that other machines, other users and the
HA manager work on at the same time. TLC checks them on small instances; where the
argument does not depend on the instance, TLAPS proves the central properties
for every value of the constants.

Paths below are relative to the repository (`src/` in `PROJECT.json`).

## 1. Inventory

The driver has **no state of its own**. Every operation is a fresh process that
loads the record Rancher saved (`Driver` in `pkg/driver/driver.go`), works on
the cluster and ends; Rancher saves the record again. Everything that is hard
about it follows from this: a machine is tied to its VM by two numbers in a
saved record, VMID and node, while the cluster moves on between any two calls.

| Component | State | Operations | Interacts with | Correct when |
|---|---|---|---|---|
| Machine lifecycle (`driver.go`, `client.go`) | record: VMID, node | Create, Remove, Start, Stop, Kill, Restart | Rancher (record), PVE (calls) | acts on its own VM only; a failed Create and a finished Remove leave nothing; every operation ends |
| VMID allocation (`cloneFromTemplate`, `NextFreeVMID`, `vmidrange.go`) | none; the cluster's id space | scan, claim by cloning, retry | lifecycle | the loser of a race neither keeps nor cleans up the winner's id; the loop ends |
| HA registration (`AddHAResource`, `RemoveHAResource`) | `resources.cfg` of the cluster | register last, unregister first | HA manager | no half-configured VM is booted, no stale entry, a stopped VM stays down for its deletion |
| Static addressing (`ipconfig.go`) | pool fields | validate, derive from the VMID | VMID allocation | usable addresses, no two alike |
| VM configuration and data disks (`client.go`, `diskspec.go`, `extraconfig.go`) | the PVE config of the clone | Configure, resize, backup flag, attach, read MAC | each other, through one config | no writer undoes another |
| Node and template selection (`selectNode`, `FindTemplateByTags`, `nodeOf`, `tags.go`) | resolved node, resolved template | match tags, look up the template, select by free memory, clone | lifecycle; people who maintain templates and nodes | the image is one the form identified during this Create; the record names the node the VM is on |
| Address discovery (`waitUntilGuestIP`, `GuestIP*`) | MAC, address | poll until a deadline, `GetURL` | guest agent | the address of the right NIC, or a timeout |
| Guest setup (`guestdisk.go`, `cloudinitwait.go`, `diskspec.go`) | a goroutine with an SSH session; the guest's disks and fstab | wait for cloud-init, format and mount over SSH | discovery, the booting guest | handed over only when ready; storage stays on the data disks, across reboots |
| Flags and record (`SetConfigFromFlags`, `tags.go`) | record | read once | everything | the checks of `PreCreateCheck` |
| Permission probe (`VerifyPermissions`) | none | one read | – | – |
| Plugin entry point (`cmd/`) | none | – | – | – |
| Release pipeline (`.github/`) | tags, releases, a checksum commit | detect, tag, build, write back | GitHub | the chart names the digest of the released binary |
| Deployment manifests (`deploy/`) | none | – | – | – |

What is hard, line by line, is the list `hazards` in `PROJECT.json`. In short:
ids raced for and reused; calls that take effect and report an error; processes
that die halfway; guests that move, restart or vanish between two calls; steps
of the rollback and of Remove that fail and are only logged; config keys
written by several fields; addresses derived instead of allocated; templates and
nodes that change between two looks at them; and a guest that boots, reboots and
rewrites its fstab while a script works in it.

## 2. Modules

| Module | Models | Lines |
|---|---|---|
| `Cluster` | the shared PVE cluster, as the driver can tell it apart: owner, node and power state of each VMID, and the HA list. External except for the driver's two ways of looking at it (`UsedVMIDs`, `client.vm`) | ~110 |
| `Lifecycle` (extends `Cluster`) | Create, rollback, Remove and the power operations of several machines, one action per PVE call | ~580 |
| `MachineService` | the promise to Rancher, abstractly; `Lifecycle!ImplementsService` is the refinement | ~60 |
| `LifecycleProofs` | theorems about `Lifecycle`: types, and whose VM a process works on | |
| `LifecycleServiceProofs` (extends `LifecycleProofs`) | the other invariants of `Lifecycle`, and the refinement | |
| `StaticIP` | pools, their settings over time, machines that claim ids and derive addresses | ~260 |
| `StaticIPProofs` | theorems about `StaticIP` | |
| `VMConfig` | the writes to one clone's config, and the checks of `PreCreateCheck` about it | ~350 |
| `VMConfigProofs` | theorems about `VMConfig` | |
| `Placement` | from `PreCreateCheck` to the clone: which image, which node, what is recorded | ~320 |
| `PlacementProofs` | theorems about `Placement` | |
| `GuestSetup` | from the start of the VM to the hand-over: address, cloud-init, data disks; the driver, its goroutine and the guest | ~510 |
| `GuestSetupProofs` | theorems about `GuestSetup`: readiness and address | |
| `GuestStorageProofs` (extends `GuestSetupProofs`) | types, and where data is stored | |
| `MCLifecycle`, `MCStaticIP`, `MCVMConfig`, `MCPlacement`, `MCGuestSetup` | constants for TLC | |

`Placement`, `VMConfig` and `GuestSetup` each look closely at a stretch of Create
that is a few steps in `Lifecycle` (`Resolve` and `Clone`; `Prepare`;
`WaitForGuest`), where any of them may fail and is followed by the rollback.

Operators named `Mutation of ...` are plausible bugs of the definition that
follows them: with one of them in its place the named property is violated, which
shows that the property depends on the code. Nothing in the specifications uses
them.

### Lifecycle and Cluster

`phase[m]` and `rec[m]` are what Rancher keeps: what it believes about machine
`m`, and the record (`vmid`, `node`). `pc[m]`, `d[m]`, `pick[m]` and
`attempt[m]` are the running process: the call it makes next, `d.VMID` and the
client's node, the id of the current clone attempt and the loop counter. When
a process ends (`Ends`) they are reset.

An action is one call to PVE with everything the code does on its answer, so
everybody else can act between two calls. A small lookup directly in front of
a call (`client.vm` reads the guest before it destroys or starts it) is part
of that call. Every fallible action has three outcomes: the call works, PVE
refuses it for a reason the model knows (the guest is not on that node, is
running, already exists), or a `Fault` is spent. A fault in `Refusable` has no
effect, one in `Losable` has the call's effect and reports an error, which is
what a lost answer or the timeout of `waitTask` looks like to the driver.

| Code | Action |
|---|---|
| `Create` up to the clone, `resolveTemplateVMID` | `BeginCreate`, `Resolve` |
| `cloneFromTemplate`, `NextFreeVMID` | `Scan`, `Clone` (`CloneLands`, `CloneTaken`, `CloneErrors`) |
| `finalizeCreate` | `Prepare` (Configure, resize, backup flag, disks), `StartVM`, `WaitForGuest`, `AddHAResource`, `CreateReturns`, in the order of `Rank` |
| the cleanup in `Create` | `Rollback` |
| `Remove` | `BeginRemove` or `RemoveNothing`, `RemoveHAResource`, `ReadStateForRemove`, `Kill`, `Delete` |
| `Start`, `Stop`, `Kill` | `BeginPower`, `ReadStateForStart`, `Power` |

`MachineService` says "unless the process dies" where it has to: a Create cut
short has no rollback, and its VM is one nobody knows of (`Die`, which `Crash`
implements). Everything else of the promise is unconditional in it.

`Restart` reboots a running guest in place: nothing the model keeps changes,
and it has no action. `VMNetMAC`, the wait for an address, for cloud-init
and the disk setup are one step, `guest`; each of them ends in success or in an
error after a timeout.

What PVE and Rancher do is not in the repository. The model takes it from the
repository's own words and tests:

* A running guest cannot be destroyed (`driver.go`, comment of `Remove`;
  `client_test.go`). A guest asked for on a node it is not on "does not exist".
* Destroying a VM leaves its HA entry (comments of `finalizeCreate` and
  `RemoveHAResource`). In case PVE refuses instead, `DestroyNeedsNoHA` is that
  variant; `lifecycle_live` has it.
* Whether Rancher keeps the record of a failed Create is unknown, so
  `SaveOnFailure` is a constant; `lifecycle_live` sets it.
* `/cluster/nextid` (no `pve-vmid-range`) sees every id; a scan of a range
  sees what the token sees. `UseRange` selects between them.
* An id is visible to nobody else before its clone lands.

### StaticIP

A subnet mask `/b` is represented by the number of addresses in its subnets,
2^(32-b), so `Network` and `Broadcast` are arithmetic with `%`. The fields of a
pool are saved by an operator at any time (`SavePool`), any machine is created
with the fields of that moment (`conf[m]`), and `PreCreateCheck` is `Accepted`.
`Scan`, `Clone` and `Configure` are the claim of an id and the address derived
from it; the number of retries is not counted here, a loser retries or gives up.

### VMConfig

The config is a function on the keys that are set. `PreCreateCheck` decides
whether the form is accepted, then the writers follow in the order of
`finalizeCreate`. A value is a record of what somebody looks at: who wrote it,
size, backup flag, disk label, MAC. `SetBootDiskBackup` and `AddDisks` read
the config in one action and write in the next. `pve-boot-disk-device` is free
text: it may name no key of the VM, or one that is no disk (`net0`), which PVE
refuses to resize or to give a backup flag (`HasBootDisk`). `DiscoveryKnowsNIC`
is about the whole sequence: the MAC that discovery is given in the end (`NICMAC`)
follows from the form and the template alone, and the three ways to have none
are the only ones.

### Placement

An action is one look at the cluster. Templates are VMIDs with tags, a node, and
a flag for shared storage; a node is online or not and reports free memory.
Tags are as PVE has them; what somebody typed is a different value, which
`TagOf` trims and lowers, or finds blank or invalid.

| Code | Definition |
|---|---|
| `validateTemplateSelection`, `normalizeTagList`, node and allowed nodes in `PreCreateCheck` | `Accepted`, `BeginCreate` |
| `FindTemplateByTags`, `resolveTemplateVMID` | `FoundTemplates`, `ResolveTemplate` |
| `nodeOf`, then reading the template on the node found | `FindTemplateNode`, `ReadTemplate` |
| `ResolveNode`, `selectNode`, `freeMem` | `ResolveNode`, `selectNode`, `freeMem` |
| the clone request and its `target`, `d.Node` | `Target`, `CloneLands` |
| the retry loop of `cloneFromTemplate` | `CloneTaken` |

`Identified` is not the code: it is what the words of `docs/flags.md` say a form
identifies, and `images[m]` collects what it has identified at any moment since
`m`'s Create began. So `ImageOfItsTime` does not ask for an atomic look, which
no code could give, but rules out an image that was never the right one.

External: PVE clones to the source node unless told otherwise, to another node only
from shared storage, and nothing from or to a node that is offline. A VMID is
not used again for another image while a Create is running. Machines do not
meet here (their meeting for an id is in `Lifecycle`), so one machine
against everybody else is the general case for TLC; the proofs have any number.

### GuestSetup

Three parties act at once. The driver is in a wait (`pc`) whose deadline may have
passed (`late`). A goroutine (`job`) tries to get in over SSH, then runs a
script in the guest (`script`), and goes on after the driver gave up. The guest
gets and loses addresses, lets SSH in, runs cloud-init, and reboots. Times
are not modelled: a deadline may pass at any moment.

| Code | Definition |
|---|---|
| `parseDataDisk`, `normalizeMount`, `checkDataDiskCollisions` | `DataDisksAccepted` |
| `finalizeCreate` after `StartVM` | `AfterCheck`, `AfterAddress`, `AfterCloudInit` |
| `waitUntilGuestIP`, `GetURL` | `GotAddress`, `AddressTimesOut`, `GetURL` |
| `GuestIP`, `GuestIPByMAC` | the same names |
| the two `select`s of `waitForCloudInit` and `setupGuestDisks` | `JobReturns`, `JobTimesOut` |
| their goroutines | `StartScript`, `SessionLost`, `ScriptReturns` |
| `cloudInitWaitScript` | `CloudInitStatus`, `CloudInitStatusSudo` |
| `interpretCloudInitResult`, `parseCloudInitResult` | `interpretCloudInitResult`; the code `""` is an output without a readable result, which is let through |
| `renderDiskSetupScript`, line by line | `FormatDisk`, `AddLine`, `MountDisks`, `VerifyDisks` |

A session can succeed without its script having run: the login runs something
else, or half of a pipeline does nothing. `StartScript` has this as its second
outcome, at any moment and for both sessions, and the driver goes on, as
`interpretCloudInitResult` means to ("cannot tell") and `setupGuestDisks` has no
way to notice. An output that was only mangled on its way is the same to the
driver, and does less harm. The history variable `unheard` keeps which session it
was; no action looks at it. `HandedOverReady` and `StorageMounted` claim nothing of
what was unheard, and so say that there is no other way around the two waits.

A mount path is a sequence of segments. The textual checks compare what was
typed, without its empty segments; the guest's mount table (`Place`) is also
without `.` segments, because that is what the kernel makes of them.

External, as the scripts rely on it: `mount -a` mounts in the order of fstab
what is not mounted yet and passes over a `nofail` line whose label
nothing carries; a label can be too long for its filesystem, which `mkfs.xfs`
refuses and `mkfs.ext4` cuts; `findmnt` is content with whatever is mounted at
the path. cloud-init reads fstab and writes it back with its own lines, once,
on the first boot; a reboot ends the script, and mounts fstab anew.

## 3. Runs

All runs end within three minutes on two workers. Bounds not named here are in the `.cfg`.

| Run | Question | Bounds, and why they are enough |
|---|---|---|
| `lifecycle` | does a process ever work on or change another machine's guest? is a machine in service reachable, is nothing orphaned, does HA never get in the way, and does the driver implement `MachineService`? | two machines, three ids of which two are in the range, two nodes, three faults among those the driver can make up for (`Survivable`), a process that dies, two foreign guests that come and go: the smallest instance with a race for an id, a loser that retries, and an id that is freed and taken again. The other faults and migrations are in `lifecycle_live`; for the two properties about other machines' guests the theorems have them too, and `nextid` |
| `lifecycle_live` | do Create and retried deletions end? | one machine, three faults on any call, a crash, migrations, two foreign guests, an operator who deletes VMs, VMs and records kept after a failed Create, a PVE that refuses to destroy HA guests |
| `static_pools` | is every address usable, and when can two machines have the same? | two pools, three machines, fifteen forms: equal, shifted, at the top of the address space, and one for each reason to refuse; three edits. `StaticIPProofs` has the same for every form |
| `config` | does a writer undo another, is every disk attached where asked, and does discovery get the MAC of the NIC that boots? | three templates, all combinations of resize, backup, bridge, cloud-init, up to two extra keys and two disks; then SCSI slots 0..4 for 0..30 with up to four disks, pinned or not, so that slots do run out; and each of three NICs, of which the driver can read two |
| `placement` | which image and which node, while templates and nodes change? | one machine, forms by VMID and by tag (both matches, typed with capitals and blanks, refused ones), on a fixed, an allowed or any node, clusters with up to two candidates, two attempts, three changes between any two looks: a candidate that appears, one that goes, and one that moves |
| `guest` | is what is handed over ready, reached at its NIC, with its storage on the data disks, and does Create end? | eleven lists of disks (accepted ones with a raw disk between two others and with labels that do not fit, and one for each reason to refuse), four images (without cloud-init; status readable or not; with own mounts at, below and beside a disk's path), with and without MAC, a bridge that is up first, two leases, one reboot; at any session, one that succeeds unheard |

Deadlock is not checked where the system really stops: in the lifecycle when
every machine is gone, failed or in service and the bounds are used up, and in
`VMConfig`, `Placement` and `GuestSetup` when Create is over and nothing around it
may change any more. Symmetry is over machines and nodes, which the
specification never tells apart, and is not used with liveness.

### Runs that end in a counterexample

Each checks one sentence of a document or a comment, and finds it violated by
what the code does.

| Run | What happens |
|---|---|
| `lifecycle_orphan` | a step after the start fails; the rollback destroys without stopping; PVE refuses; the VM stays ("so a failed Create never leaves an orphan") |
| `lifecycle_hidden` | the lowest id is held by a guest the token cannot see; every retry picks it again ("In practice this is harmless") |
| `lifecycle_migrated` | CRS has moved the VM; on the saved node it "does not exist", so Remove succeeds and the VM runs on |
| `lifecycle_flag` | `pve-vmid` names a taken id; Create fails, Remove destroys the guest that has it ("there is nothing to remove") |
| `config_mac` | a device above `net9` has no MAC as far as the driver can see |
| `guest_dot` | `/data` and `/./data` are two mount points to the checks and one to the kernel; the second disk hides the first, although every script ran and was heard |

The passing runs leave out what these show: `lifecycle` has no migrations and
no fault in the steps after the start, `guest` no `.` segments, and
`HandlesStayGood` below names the rest. Smaller disagreements have no run:

* `docs/flags.md` says that the driver "never partitions and mounts while cloud-init
  is still ... rewriting fstab", and lists what follows from cloud-init's outcome. An
  output that cannot be read is missing from the list: the driver goes on, on purpose,
  and may do just that. Without `"cloudinit" \notin unheard` TLC finds both
  `HandedOverReady` and `StorageMounted` violated.
* "A node must never join the cluster with its storage directory unmounted"
  (`guestdisk.go`) rests on the exit status of `echo ... | base64 -d | sudo bash -s`.
  The script's last line, "pve: data disk setup complete", is not looked for, so a
  login that runs something else and succeeds is taken for a finished setup. Without
  `"disks" \notin unheard` TLC finds `StorageMounted` violated.
* A clone that was accepted but not waited out stays behind (with the lost call
  `clone`, `NoOrphan` is violated); `RollbackWorks` leaves it out.
* When unregistering fails, Remove only warns, so the HA entry can outlive the VM
  (with the fault `unregister` allowed, `HAEntriesNameLiveVMs` is violated).
* Where two pools share a VMID range, a machine can be refused an address
  although its own pool has room, because the offset follows the id. And VMID
  ranges of their own, which the table in `docs/rancher-setup.md` recommends
  against collisions, do not help two pools with the same first address:
  `CollisionNeedsShift` says what does.
* `/var/.` and `/.` are accepted as mount points although `/var` and `/` are not;
  `normalizeMount` keeps the segment, as in `guest_dot`.
* `docs/flags.md` says `pve-net-iface` restricts discovery to that interface;
  `GuestIP` answers with another one's address as long as it has none.
  `AddressOfNIC` therefore speaks of machines whose MAC was captured.
* If the image's own fstab has a line for a disk's path, the disk is formatted
  and not mounted. `StorageMounted` allows what the image mounts there itself.
* With no wait for cloud-init, lines that the script adds to fstab can be
  overwritten by cloud-init. `StorageMounted` is about machines that waited, which
  is the default, and whose cloud-init was heard.

### Fairness

`FairSpec` assumes weak fairness of a running driver process (`Driver(m)`: a
process that has a next call makes it; every wait in the code has a timeout and
so ends) and of Rancher retrying a deletion that returned an error, which the
comment of `client.Remove` speaks of ("leaves Rancher retrying its machine
deletion forever"). Nothing is assumed of the HA manager, of other users or of
the operator. With it `CreateEnds` and `RemoveEnds` hold although an HA
restart may undo a kill, because the bounded faults let some attempt get through
with the HA entry removed.

`GuestSetup!FairSpec` assumes that the driver process runs and that its timers
fire: weak fairness of `Driver` and of `Deadline`. Both waits look at a timer
after every poll or in a `select`. Nothing is asked of the agent, of SSH, of
the script or of cloud-init, and `SetupEnds` holds when none of them ever answers.

## 4. Proofs

Proved for every value of the constants that satisfies `ClusterAssumption` and
`LifecycleAssumption` (respectively the assumption of the other modules): any
number of machines, ids, nodes, pools, disks, slots, faults and crashes, any set
of forms and images. Every safety property of a passing run is a theorem, the
action properties and the refinement included; liveness is not.

A theorem that needs more than those assumptions says so as a named premise. A
premise is about what the driver has no influence on, and for each there is a
run, or a sentence below, that shows what happens without it:

| Premise | What it says | Without it |
|---|---|---|
| `HandlesStayGood` | nobody deletes a pool's VM by hand, the record of a rolled-back Create is not kept, no destroy call that worked is reported as failed, no explicit `pve-vmid` | `lifecycle_flag`; an id is reused and the record names another machine's VM |
| `NodesStayGood` | VMs stay on their node: no migrations, or no machine asks for HA | `lifecycle_migrated` |
| `HAStaysClean` | no registration is reported as failed that worked, no unregistration fails; or PVE refuses to destroy what is registered | an HA entry outlives its VM, and the HA manager boots the next clone with that id half-configured |
| `ForceStopWorks` | the calls Remove only warns about do not fail | the VM is still up when the destroy call goes out, which PVE refuses; Rancher retries |
| `RollbackWorks` | nothing fails between the start and the end of Create, no clone or start works and is reported as failed, the cleanup call works | `lifecycle_orphan` |
| `SerialsAreNew` | no disk of a template carries the serial of a data disk | the template's disk and the data disk look alike in the guest; the code does not look for it |
| `NoDots` | no mount path has a `.` segment | `guest_dot` |

The constants of the passing runs satisfy all of them, so no premise is empty.

**`LifecycleProofs`.** `TypeCorrect` is `Spec => []TypeOK`. `TypeOK` is not
inductive: that `d[m].vmid` is an id where a call uses it follows from where
the process stands. `HandleOK` adds this: which steps belong to which phase, an
id is picked before it is cloned, the counter stays in the loop's bounds, and a
process past the clone, or a machine in service, has an id. `AfterIsLater`
shows that the order of the configured steps is well defined.

`OwnVM` proves `WorksOnOwnVM` and `OthersAreSafe` proves `ActsOnlyOnOwnVM`, both
under `HandlesStayGood`. Each of its conjuncts
is necessary: ids are reused lowest first, so a record that outlives its VM comes to
name another machine's VM, which a later Remove then destroys (TLC finds
this for each of them). The strengthening is `OwnInv`, one
`OwnsAt(m)` per machine: not only the running process but also the saved record
names a VM the machine owns, or no VM at all; a machine in service or being
deleted has one in its record, and a machine whose Create is under way has none
in it, and none in its process until the clone has landed. The argument has three lemmas about one step of one
machine: it moves only its own variables (`StepMovesOwn`), touches no guest
owned by another (`StepTouchesOwn`), and keeps its own part (`StepOwns`).
`EnvironmentOwns` is the same for everybody else.

**`LifecycleServiceProofs`** puts layers on this, each an invariant of its own
that uses the ones below:

* `SingleInv`: a machine has at most one VM, and none before its clone lands.
  It needs no premise: only the claim makes a VM a machine's.
* `CleanInv` (with `AskedInv`): every HA entry names a driver's VM, and a process
  between the clone and its registration, or past the unregistration, works on a VM
  without one; so nobody but the driver starts it. Hence `EntriesLive` and
  `BootedConfigured`. The two go together: an entry without a VM would be inherited
  by the next clone with that id.
* `PlacedInv`: the node in the process and in the record is the VM's, and
  with `pve-ha` the entry is there while the machine is in service. Hence
  `ReachableInService`.
* `DownForTheDestroy`: nothing that is not registered is started by the HA
  manager, and no other process touches it.
* `UndoneInv`: at the rollback the VM is not running, so that the destroy call works,
  and a machine that failed or is gone has no VM. Hence `OrphanFree`.

Most of these lemmas are about what a step can do at all, and not about one action:
the actions are grouped by what they change (a step of Create that only goes on,
one that ends the process, the claim, the destroy call, ...), which a lemma per
group states first.

`ServiceImplemented` is the refinement: initial states map to initial states,
and under the same premises as `OrphanFree` each step of `Lifecycle`
maps to a step of `MachineService` or to a stutter. A machine's VM, `VMOf(m)`, is
a `CHOOSE` in the refinement mapping; `SingleInv` makes it a fact to reason with.

**`StaticIPProofs`.** `IInv` is `TypeOK` with, for each machine, what its step
says of it: accepted settings from the beginning, an id inside their range from
the scan, the id held by it from the clone, and the address `AddressOf` the
held id once it is up. From it follow `AddressesAreUsable`, where the
arithmetic is that a subnet is convex (`SubnetIsConvex`, from `ProductsApart`),
so that an address strictly between two usable ends is usable; and
`CollisionsNeedShift`, where equal addresses with an equal shift mean equal ids,
which two machines cannot hold.

**`VMConfigProofs`.** `IInv` has three parts. `TypeInv` is `TypeOK` with the
MACs a string can hold. `ReadInv`: a config that is about to be written back, or to
be searched for free slots, is still the VM's. `WriteInv` says, from each writer on,
what it has left behind, and thus what the later ones must keep: the accepted form
(`DisksApart`, `ExtraAllowed`), the extra keys, the keys no field claims, the
boot disk's size, then its flag, then the data disks. `BootDiskServed` and
`WritersStayApart` follow from it. `DiscoveryServed` adds `NICInv`: from Configure on
the config has the NIC's MAC as form and template determine it, because the resize
and the flag keep the MAC in a string they rewrite and a data disk's key is no NIC
(`NICIsNoSlot`); and a call that failed before has ended Create.
`DisksServed` and `GivesUpOnlyFull` need to know what `allocateDiskSlots`
computes. `SlotOf` is a recursive function; that it satisfies its
own equation (`SlotOfEquation`) is proved by looking at the least disk for which it
would not. Then unpinned disks get free slots, all different (`SlotsAreApart`).
`GivesUpOnlyFull` counts: if the greedy choice gave up at a disk, the disks
before it fill all free slots, and no other assignment has room either.

**`PlacementProofs`.** `IInv` is `TypeOK` with what each Create knows at its
step: `ImageSound` (the template is in `images[m]` from its resolution on, and
what the form identifies now always is), `NodeSound` (a fixed node is never
replaced, a selected one is allowed, the source is a node) and `TriesSound`. The
step that matters is the resolution: `FoundIsIdentified` shows that comparing
numbers of tags, as `tagsMatch` does for `exact`, and asking for one match
gives what the documentation's words describe. `ChangeGuestSound` is the
other half, a template that changes under a running Create. With them
`ImageOfItsTime`, `RecordedNodeIsHost` and the bound of the clone loop hold for
any templates, tags, nodes and number of changes.

**`GuestSetupProofs`.** `HandedOverReady` needs to know what a script's exit code
still says when the driver reads it. `IInv` has it in `Verdicts`: a code stands
for the state of cloud-init as long as the script exists (`CodeHolds`), because
only a reboot leaves a settled state and a reboot ends the script; and
`BootOver`, once true, stays true, because a second boot does not repeat the
first one's work. A session that went unheard has no verdict to hold, which is why
`Verdicts` and the property have it as a premise; `unheard` only grows.
`ScriptOfJob` ties the script to the goroutine, so that the disk setup never starts
with a script of the wait before. `AddressOfNIC` is proved for any order of
interfaces (`FirstIPv4IsTheirs`, `MinIsMember`).

**`GuestStorageProofs`.** `SpecTypeOK` needs `WorkInv`, the discipline of
driver, goroutine and script: a wait has a job of its own for as long as it is
waited for, no script works for a job of another kind, a given-up script may
go on, but only when Create has failed. `SpecStorageMounted` is the theorem with the
longest argument. `StorageInv` holds as long as Create has not failed:

* `LinesInv`: fstab has the image's lines first, then the disks', each at its path.
* `MountsInv`: the same order among the mounts; each of them is there by its line, and
  all of the image's are mounted. So a mount of the image's is never above a disk's, and
  a reboot mounts the same again (`MountsStay`).
* `FirstBootInv`: until the disks are worked on fstab is the image's, and what
  cloud-init will write back is what is there; once they are, it writes
  nothing. This is where the wait for cloud-init, `BootOver`, is needed, and thus that
  its answer was heard.
* `VerifiedInv`: from the script's last check on there is a mount at every disk's
  path, if it was the script that succeeded.

Then the latest mount on the way to a disk's path is that disk's: a disk's mount on
the way to it is its own, because `checkDataDiskCollisions` has refused all others
(`MountsApart`), and an image's one is below it. `MountAll` is a loop over the lines of
fstab and `normalizeMount` one over segments; the lemmas `MountAllLines` and
`WithoutSegments` say what they return, by the least step that would break it.

**Only model-checked:** the three liveness properties `CreateEnds`, `RemoveEnds` and
`SetupEnds`, because liveness under fairness is out of reach of the prover. The
properties that are violated are shown by TLC's counterexamples.

## 5. Not modelled, and the plan

Not modelled: the permission probe (one read with a fixed answer), the plugin's
main function, the deployment manifests, and the syntax of flags. That several
machines created at once choose the same least loaded node is possible and not a
property: nothing in the repository promises otherwise.

In this order:

1. A composition of `Lifecycle` and `StaticIP`, in which the address is freed with
   the VM and not with the machine's own belief.
2. `Release`: `detect-release.sh` and the two workflows, with pushes racing the
   checksum writeback.
3. Theorems about those two. Of the modules here every safety property is proved; what
   remains are weaker premises, such as a Remove that is retried
   until `ForceStopWorks` holds.
