------------------------------ MODULE GuestSetup ------------------------------
(***************************************************************************)
(* The end of Create, from the started VM to the hand-over to Rancher: the *)
(* wait for the guest's address, for cloud-init, and the formatting and    *)
(* mounting of the data disks over SSH (finalizeCreate, waitUntilGuestIP   *)
(* in pkg/driver/driver.go; cloudinitwait.go, guestdisk.go, diskspec.go;   *)
(* GuestIP, GuestIPByMAC in pkg/proxmox/client.go).                        *)
(*                                                                         *)
(* Three parties act at once: the driver, which waits with timeouts; a     *)
(* goroutine with an SSH session whose script runs in the guest, and which *)
(* outlives the driver's patience; and the guest, which boots, configures  *)
(* its network, rewrites its fstab and may reboot.                         *)
(***************************************************************************)
EXTENDS Integers, SequencesExt

CONSTANTS
  Forms,        \* machine pool forms an operator may save
  Images,       \* guests a template may boot
  Leases,       \* addresses the NIC may be given
  BridgeAddr,   \* the address a container bridge in the guest has
  MaxReboots,   \* bound: reboots of the guest
  MaxLeases     \* bound: times the NIC is given an address

VARIABLES
  form,       \* the pool's fields
  image,      \* what the guest is like
  pc,         \* the wait finalizeCreate is in
  late,       \* the deadline of that wait has passed
  ip,         \* d.IPAddress, 0 when unset
  job,        \* the goroutine: what for, and how far
  script,     \* what runs in the guest for it
  agent,      \* the guest agent answers
  login,      \* sshd is up and the driver's key is accepted
  addr,       \* addr[i]: the IPv4 address of interface i, 0 for none
  cloudinit,  \* what cloud-init is doing
  ciFstab,    \* the fstab cloud-init has read and will write back
  formatted,  \* disks with a filesystem
  fstab,      \* lines of /etc/fstab
  mounts,     \* mounted filesystems, the latest last
  unheard,    \* history: sessions that succeeded and did not run their script
  reboots, leases

driver == <<form, image, pc, late, ip, unheard>>
guest == <<agent, login, addr, cloudinit, ciFstab, reboots, leases>>
storage == <<formatted, fstab, mounts>>
vars == <<driver, job, script, guest, storage>>

NIC == "nic"           \* the interface of the VM's net device
Bridge == "bridge"     \* one the guest made
Interfaces == {NIC, Bridge}
Addresses == Leases \cup {BridgeAddr, 0}

-----------------------------------------------------------------------------
(* ParseDataDisks. A path is what stands between its slashes, so a doubled  *)
(* or a trailing slash is an empty segment. A label may be longer than the  *)
(* filesystem can hold.                                                     *)
Disk == [fs : {"ext4", "xfs", "none"}, mount : Seq(STRING), long : BOOLEAN]
Form == [disks : Seq(Disk), cloudInitTimeout : BOOLEAN, mac : BOOLEAN,
         iface : Interfaces \cup {""}]
Line(disks) == [what : disks, path : Seq(STRING)]   \* 0: what the image has
Image == [cloudinit : {"absent", "first"}, readable : BOOLEAN,
          fstab : Seq(Line({0})), own : Seq(Line({0})), order : Seq(Interfaces)]

ASSUME GuestSetupAssumption ==
  /\ Forms \subseteq Form
  /\ Images \subseteq Image
  /\ Leases \subseteq Nat \ {0} /\ BridgeAddr \in Nat \ {0}
  /\ BridgeAddr \notin Leases
  /\ {MaxReboots, MaxLeases} \subseteq Nat

(* A path without some of its segments.                                     *)
Without(path, dropped) ==
  LET kept[k \in 0..Len(path)] ==
        IF k = 0 THEN <<>>
        ELSE IF path[k] \in dropped THEN kept[k - 1]
        ELSE Append(kept[k - 1], path[k])
  IN kept[Len(path)]

normalizeMount(path) == Without(path, {""})

SystemDirs == {"bin", "boot", "dev", "etc", "home", "lib", "lib64", "proc",
               "root", "run", "sbin", "sys", "usr", "var"}
forbiddenMounts == {<<>>} \cup {<<d>> : d \in SystemDirs}
forbiddenMountTrees == SystemDirs \ {"home", "root", "run", "var"}

MountAllowed(path) ==
  /\ ~Contains(path, "..")
  /\ path \notin forbiddenMounts
  /\ Len(path) > 1 => path[1] \notin forbiddenMountTrees

NeedsGuestSetup(disk) == disk.fs # "none"

(* Disks to set up, by position, and where they go.                         *)
Pending == {i \in DOMAIN form.disks : NeedsGuestSetup(form.disks[i])}
Mount(i) == normalizeMount(form.disks[i].mount)

(* Mutation of MountsApart: the later disk may be the outer one.            *)
MountsApartInner ==
  \A i, j \in Pending : i < j =>
    Mount(i) # Mount(j) /\ ~IsStrictPrefix(Mount(i), Mount(j))

MountsApart ==
  \A i, j \in Pending : i # j =>
    Mount(i) # Mount(j) /\ ~IsStrictPrefix(Mount(i), Mount(j))

DataDisksAccepted ==
  /\ \A i \in DOMAIN form.disks :
       /\ NeedsGuestSetup(form.disks[i]) <=> form.disks[i].mount # <<>>
       /\ i \in Pending => MountAllowed(Mount(i))
  /\ MountsApart

-----------------------------------------------------------------------------
(* Address discovery. The agent lists interfaces in an order of its own.    *)
FirstIPv4(names) ==
  LET up == {k \in DOMAIN image.order :
               image.order[k] \in names /\ addr[image.order[k]] # 0}
  IN IF up = {} THEN 0 ELSE addr[image.order[Min(up)]]

(* With an interface that has no address the answer is anybody's.           *)
GuestIP(iface) ==
  IF iface # "" /\ FirstIPv4({iface}) # 0 THEN FirstIPv4({iface})
  ELSE FirstIPv4(Interfaces)

(* Mutation of GuestIPByMAC: the fallback of GuestIP here as well.          *)
GuestIPByMACOrAny == GuestIP(NIC)

GuestIPByMAC == FirstIPv4({NIC})

(* One poll of waitUntilGuestIP, 0 for an error.                            *)
Polled ==
  IF ~agent THEN 0
  ELSE IF form.mac THEN GuestIPByMAC ELSE GuestIP(form.iface)

-----------------------------------------------------------------------------
(* The guest's mount table, by canonical paths. A filesystem whose label    *)
(* did not fit is not found by LABEL=, and nofail makes that no error.      *)
Place(path) == Without(path, {"", "."})

Present(what) == what = 0 \/ (what \in formatted /\ ~form.disks[what].long)

(* mount -a: line by line of fstab, what is not mounted yet.                *)
MountAll(mounted, tab) ==
  LET after[k \in 0..Len(tab)] ==
        IF k = 0 THEN mounted
        ELSE LET line == [tab[k] EXCEPT !.path = Place(@)]
             IN IF Present(line.what) /\ ~Contains(after[k - 1], line)
                THEN Append(after[k - 1], line) ELSE after[k - 1]
  IN after[Len(tab)]

IsMounted(path) == \E k \in DOMAIN mounts : mounts[k].path = Place(path)

(* What a file below a path is stored on: the latest mount on the way to it *)
(* or -1, the root filesystem.                                              *)
StoredOn(path) ==
  LET over == {k \in DOMAIN mounts : IsPrefix(mounts[k].path, Place(path))}
  IN IF over = {} THEN -1 ELSE mounts[Max(over)].what

-----------------------------------------------------------------------------
NoJob == [for |-> "none", at |-> "none"]
NoScript == [step |-> "none", disk |-> 0, code |-> ""]
Waits == {"address", "cloudinit", "disks"}
Sessions == {"cloudinit", "disks"}

Init ==
  /\ form \in Forms
  /\ image \in Images
  /\ pc = "check"
  /\ late = FALSE
  /\ ip = 0
  /\ job = NoJob
  /\ script = NoScript
  /\ agent = FALSE
  /\ login = FALSE
  /\ addr = [i \in Interfaces |-> 0]
  /\ cloudinit = image.cloudinit
  /\ ciFstab = <<>>
  /\ formatted = {}
  /\ fstab = image.fstab
  /\ mounts = MountAll(<<>>, image.fstab)
  /\ unheard = {}
  /\ reboots = 0
  /\ leases = 0

(* Entering a wait resets its timer and, over SSH, starts a goroutine.      *)
Enter(wait) ==
  /\ pc' = wait
  /\ late' = FALSE
  /\ job' = IF wait \in Sessions THEN [for |-> wait, at |-> "ssh"] ELSE job
  /\ UNCHANGED <<form, image, unheard>>

(* What comes after a wait: waitForCloudInit and setupGuestDisks return at  *)
(* once when there is nothing to wait for.                                  *)
AfterCloudInit == IF Pending # {} THEN "disks" ELSE "done"
AfterAddress == IF form.cloudInitTimeout THEN "cloudinit" ELSE AfterCloudInit
AfterCheck ==
  IF form.cloudInitTimeout \/ form.disks # <<>> THEN "address" ELSE "done"

(* PreCreateCheck; the VM is cloned, configured and started.                *)
StartVM ==
  /\ pc = "check"
  /\ Enter(IF DataDisksAccepted THEN AfterCheck ELSE "failed")
  /\ UNCHANGED <<ip, script, guest, storage>>

(* waitUntilGuestIP: an answer is taken even after the deadline ...         *)
GotAddress ==
  /\ pc = "address"
  /\ Polled # 0
  /\ ip' = Polled
  /\ Enter(AfterAddress)
  /\ UNCHANGED <<script, guest, storage>>

(* Mutation of AddressTimesOut: an agent that does not answer is waited for *)
(* without end.                                                             *)
AddressTimesOutIfAgent ==
  /\ pc = "address"
  /\ late
  /\ agent
  /\ Enter("failed")
  /\ UNCHANGED <<ip, script, guest, storage>>

(* ... which is looked at after a poll without one; any poll may fail.      *)
AddressTimesOut ==
  /\ pc = "address"
  /\ late
  /\ Enter("failed")
  /\ UNCHANGED <<ip, script, guest, storage>>

(* The select of waitForCloudInit and setupGuestDisks, its two branches.    *)
JobReturns ==
  /\ pc \in Sessions
  /\ job.for = pc /\ job.at \in {"ok", "error"}
  /\ Enter(CASE job.at = "error" -> "failed"
             [] job.at = "ok" /\ pc = "cloudinit" -> AfterCloudInit
             [] OTHER -> "done")
  /\ UNCHANGED <<ip, script, guest, storage>>

(* Mutation of JobTimesOut: a cloud-init that takes too long is left alone. *)
JobTimesOutGoesOn ==
  /\ pc \in Sessions
  /\ late
  /\ Enter(IF pc = "cloudinit" THEN AfterCloudInit ELSE "failed")
  /\ UNCHANGED <<ip, script, guest, storage>>

JobTimesOut ==
  /\ pc \in Sessions
  /\ late
  /\ Enter("failed")
  /\ UNCHANGED <<ip, script, guest, storage>>

Deadline ==
  /\ pc \in Waits
  /\ ~late
  /\ late' = TRUE
  /\ UNCHANGED <<form, image, pc, ip, unheard, job, script, guest, storage>>

(* GetURL of the handed-over machine records the address anew.              *)
GetURL ==
  /\ pc = "done"
  /\ Polled \notin {0, ip}
  /\ ip' = Polled
  /\ UNCHANGED <<form, image, pc, late, unheard, job, script, guest, storage>>

-----------------------------------------------------------------------------
(* The goroutine. WaitForSSH tries until the guest lets it in, with a newly *)
(* discovered address each time, and the script is started the same way.    *)
(* The login may also run something else than what it is given, a banner or *)
(* a start-up file that exits, and succeed: the output then has no result.  *)
FirstStep == IF job.for = "cloudinit" THEN "status" ELSE "format"

StartScript ==
  /\ job.at = "ssh"
  /\ login /\ Polled # 0 /\ Polled = addr[NIC]
  /\ job' = [job EXCEPT !.at = "running"]
  /\ \/ /\ script' = [step |-> FirstStep, code |-> "",
                      disk |-> IF job.for = "disks" THEN Min(Pending) ELSE 0]
        /\ UNCHANGED unheard
     \/ /\ script' = [step |-> "ok", code |-> "", disk |-> 0]
        /\ unheard' = unheard \cup {job.for}
  /\ UNCHANGED <<form, image, pc, late, ip, guest, storage>>

(* SSH gives up, or the session breaks; what runs in the guest runs on.     *)
SessionLost ==
  /\ job.at \in {"ssh", "running"}
  /\ job' = [job EXCEPT !.at = "error"]
  /\ UNCHANGED <<driver, script, guest, storage>>

(* What goes on: no cloud-init, a first boot that did not fail, and an      *)
(* output without a result ("": "cannot tell" is no error). setupGuestDisks *)
(* asks for no result.                                                      *)
interpretCloudInitResult(code) == code \in {"", "absent", "0", "2"}

ScriptReturns ==
  /\ job.at = "running"
  /\ script.step \in {"ok", "error"}
  /\ LET ok == /\ script.step = "ok"
               /\ job.for = "cloudinit" => interpretCloudInitResult(script.code)
     IN job' = [job EXCEPT !.at = IF ok THEN "ok" ELSE "error"]
  /\ script' = NoScript
  /\ UNCHANGED <<driver, guest, storage>>

(* cloudInitWaitScript: status --wait, and with sudo unless the answer was  *)
(* one of those that end the wait.                                          *)
FirstBoot == {"first", "mounts", "later"}
Settled == cloudinit \in {"absent", "done", "degraded", "error"}

ExitCode ==
  CASE cloudinit = "absent" -> "absent" [] cloudinit = "done" -> "0"
    [] cloudinit = "degraded" -> "2"    [] cloudinit = "error" -> "1"

CloudInitStatus ==
  /\ script.step = "status"
  /\ \/ /\ cloudinit = "absent" \/ (image.readable /\ Settled)
        /\ script' = [script EXCEPT !.code = ExitCode,
             !.step = IF ExitCode = "1" THEN "sudo" ELSE "ok"]
     \/ /\ cloudinit # "absent" /\ ~image.readable
        /\ script' = [script EXCEPT !.step = "sudo"]
  /\ UNCHANGED <<driver, job, guest, storage>>

CloudInitStatusSudo ==
  /\ script.step = "sudo"
  /\ Settled
  /\ script' = [script EXCEPT !.code = ExitCode, !.step = "ok"]
  /\ UNCHANGED <<driver, job, guest, storage>>

(* renderDiskSetupScript, disk by disk: a filesystem unless there is one    *)
(* (xfs refuses a long label), a line in fstab unless the path has one.     *)
FormatDisk ==
  /\ script.step = "format"
  /\ LET disk == form.disks[script.disk]
     IN IF disk.fs = "xfs" /\ disk.long
        THEN script' = [script EXCEPT !.step = "error"] /\ UNCHANGED formatted
        ELSE /\ formatted' = formatted \cup {script.disk}
             /\ script' = [script EXCEPT !.step = "line"]
  /\ UNCHANGED <<driver, job, guest, fstab, mounts>>

HasLine(path) == \E k \in DOMAIN fstab : fstab[k].path = path

(* Mutation of NextDisk: positions of the form, raw disks included.         *)
NextDiskRaw(i) == IF i < Len(form.disks) THEN i + 1 ELSE 0

NextDisk(i) ==
  LET later == {j \in Pending : j > i}
  IN IF later = {} THEN 0 ELSE Min(later)

AddLine ==
  /\ script.step = "line"
  /\ LET path == Mount(script.disk)
         next == NextDisk(script.disk)
     IN /\ fstab' = IF HasLine(path) THEN fstab
                    ELSE Append(fstab, [what |-> script.disk, path |-> path])
        /\ script' = IF next = 0 THEN [script EXCEPT !.step = "mount"]
                     ELSE [script EXCEPT !.step = "format", !.disk = next]
  /\ UNCHANGED <<driver, job, guest, formatted, mounts>>

MountDisks ==
  /\ script.step = "mount"
  /\ mounts' = MountAll(mounts, fstab)
  /\ script' = [script EXCEPT !.step = "verify"]
  /\ UNCHANGED <<driver, job, guest, formatted, fstab>>

(* findmnt of every path.                                                   *)
VerifyDisks ==
  /\ script.step = "verify"
  /\ LET good == \A i \in Pending : IsMounted(Mount(i))
     IN script' = [script EXCEPT !.step = IF good THEN "ok" ELSE "error"]
  /\ UNCHANGED <<driver, job, guest, storage>>

Script ==
  \/ CloudInitStatus \/ CloudInitStatusSudo
  \/ FormatDisk \/ AddLine \/ MountDisks \/ VerifyDisks

-----------------------------------------------------------------------------
(* The guest.                                                               *)
Boots ==
  /\ agent' \in {agent, TRUE} /\ login' \in {login, TRUE}
  /\ <<agent, login>>' # <<agent, login>>
  /\ UNCHANGED <<driver, job, script, addr, cloudinit, ciFstab, reboots, leases,
                 storage>>

(* DHCP, a static address, or a restart of the network.                     *)
NetworkChanges ==
  /\ leases < MaxLeases
  /\ leases' = leases + 1
  /\ \/ \E a \in Leases \cup {0} : addr' = [addr EXCEPT ![NIC] = a]
     \/ addr' = [addr EXCEPT ![Bridge] = BridgeAddr]
  /\ addr' # addr
  /\ UNCHANGED <<driver, job, script, agent, login, cloudinit, ciFstab, reboots,
                 storage>>

(* On the first boot cloud-init reads fstab and writes it back with lines   *)
(* of its own; in the end it reports how it went.                           *)
CloudInitReadsFstab ==
  /\ cloudinit = "first"
  /\ image.own # <<>>
  /\ cloudinit' = "mounts"
  /\ ciFstab' = fstab
  /\ UNCHANGED <<driver, job, script, agent, login, addr, reboots, leases, storage>>

CloudInitWritesFstab ==
  /\ cloudinit = "mounts"
  /\ cloudinit' = "later"
  /\ fstab' = ciFstab \o image.own
  /\ ciFstab' = <<>>
  /\ mounts' = MountAll(mounts, fstab')
  /\ UNCHANGED <<driver, job, script, agent, login, addr, reboots, leases,
                 formatted>>

CloudInitEnds ==
  /\ cloudinit \in {"later", "again"} \/ (cloudinit = "first" /\ image.own = <<>>)
  /\ cloudinit' \in {"done", "degraded", "error"}
  /\ UNCHANGED <<driver, job, script, agent, login, addr, ciFstab, reboots,
                 leases, storage>>

(* A reboot ends what runs in the guest; the modules that ran once do not   *)
(* run again, and fstab is mounted.                                         *)
Reboot ==
  /\ reboots < MaxReboots
  /\ reboots' = reboots + 1
  /\ agent' = FALSE /\ login' = FALSE
  /\ addr' = [i \in Interfaces |-> 0]
  /\ script' = NoScript
  /\ cloudinit' = CASE cloudinit = "absent" -> "absent"
                    [] cloudinit \in FirstBoot ->
                         IF cloudinit = "later" THEN "later" ELSE "first"
                    [] OTHER -> "again"
  /\ ciFstab' = <<>>
  /\ mounts' = MountAll(<<>>, fstab)
  /\ UNCHANGED <<driver, job, leases, formatted, fstab>>

Driver ==
  \/ StartVM \/ GotAddress \/ AddressTimesOut \/ JobReturns \/ JobTimesOut

Goroutine == StartScript \/ SessionLost \/ ScriptReturns

Guest ==
  \/ Boots \/ NetworkChanges \/ CloudInitReadsFstab \/ CloudInitWritesFstab
  \/ CloudInitEnds \/ Reboot

Next == Driver \/ Deadline \/ GetURL \/ Goroutine \/ Script \/ (pc # "check" /\ Guest)

Spec == Init /\ [][Next]_vars

(* The driver process runs and its timers fire; nothing is asked of the     *)
(* guest or of SSH.                                                         *)
FairSpec == Spec /\ WF_vars(Driver) /\ WF_vars(Deadline)

-----------------------------------------------------------------------------
(* Variables hold values of their types; the script works on disks the form *)
(* asks it to set up, never on a raw one.                                   *)
TypeOK ==
  /\ form \in Forms /\ image \in Images
  /\ pc \in Waits \cup {"check", "done", "failed"}
  /\ late \in BOOLEAN
  /\ ip \in Addresses
  /\ job \in [for : Sessions \cup {"none"},
              at : {"none", "ssh", "running", "ok", "error"}]
  /\ script.step \in {"none", "status", "sudo", "format", "line", "mount",
                      "verify", "ok", "error"}
  /\ script.disk \in Pending \cup {0}
  /\ script.code \in {"", "absent", "0", "1", "2"}
  /\ agent \in BOOLEAN /\ login \in BOOLEAN
  /\ addr \in [Interfaces -> Addresses]
  /\ cloudinit \in {"absent", "first", "mounts", "later", "again", "done",
                    "degraded", "error"}
  /\ formatted \subseteq Pending
  /\ {fstab, ciFstab, mounts} \subseteq Seq(Line(Pending \cup {0}))
  /\ unheard \subseteq Sessions
  /\ reboots \in 0..MaxReboots /\ leases \in 0..MaxLeases

(* Once the MAC was captured, no address but one of the VM's own NIC is     *)
(* ever recorded, however interfaces come and go before and after DHCP      *)
(* (GuestIPByMAC, waitUntilGuestIP, GetURL).                                *)
AddressOfNIC == form.mac => ip \in Leases \cup {0}

(* A machine that was handed over has an address where Create needed one;   *)
(* and if Create was told to wait for cloud-init, the work of the first     *)
(* boot is over and, unless the guest rebooted since, did not fail. Neither *)
(* a deadline next to a late answer, nor a reboot or a lost session between *)
(* the steps, nor an unreadable status file gets around it. The one way     *)
(* around is the one the code means to leave: an output without a result    *)
(* (waitForCloudInit, cloudInitWaitScript, interpretCloudInitResult,        *)
(* finalizeCreate).                                                         *)
HandedOverReady ==
  pc = "done" =>
    /\ form.cloudInitTimeout \/ form.disks # <<>> => ip # 0
    /\ form.cloudInitTimeout /\ "cloudinit" \notin unheard =>
         /\ cloudinit \notin FirstBoot
         /\ reboots = 0 => cloudinit \in {"absent", "done", "degraded"}

(* From the hand-over on, after any reboot too, what is stored below a data *)
(* disk's path is stored on that disk, or on what the image itself mounts   *)
(* at that place: never on the root filesystem, and never under another     *)
(* mount ("a node must never join the cluster with its storage directory    *)
(* unmounted"). It takes two answers: cloud-init's, by default, because it  *)
(* may write back an fstab it read before, and the setup script's, of which *)
(* the code looks at the exit status only (setupGuestDisks,                 *)
(* renderDiskSetupScript, checkDataDiskCollisions, normalizeMount).         *)
Waited ==
  \/ form.cloudInitTimeout /\ "cloudinit" \notin unheard
  \/ image.cloudinit = "absent"

Claimed(path) ==
  \E line \in ToSet(image.fstab \o image.own) : Place(line.path) = Place(path)

StorageMounted ==
  pc = "done" /\ Waited /\ "disks" \notin unheard =>
    \A i \in Pending :
      StoredOn(Mount(i)) \in {i} \cup (IF Claimed(Mount(i)) THEN {0} ELSE {})

(* Create comes to an end although the agent may never answer, SSH may      *)
(* never let the driver in and cloud-init may never finish.                 *)
SetupEnds == pc = "address" ~> pc \in {"done", "failed"}
===============================================================================
