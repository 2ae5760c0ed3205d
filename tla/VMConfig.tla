------------------------------- MODULE VMConfig -------------------------------
(***************************************************************************)
(* What Create does to the PVE config of a fresh clone before and right    *)
(* after it boots (finalizeCreate; Configure, ResizeBootDisk,              *)
(* SetBootDiskBackup, AddDisks, VMNetMAC in pkg/proxmox/client.go), and    *)
(* the checks of PreCreateCheck that keep the writers of one config apart  *)
(* (checkDataDiskCollisions, reservedConfigKeys, ParseExtraConfig).        *)
(*                                                                         *)
(* The config is a function on the keys that are set. PVE rewrites a key's *)
(* whole property string at once, so a write is as good as what was read   *)
(* before it. One action is one API call.                                  *)
(***************************************************************************)
EXTENDS Integers, Sequences, FiniteSets

CONSTANTS
  MaxSlot,      \* highest SCSI slot (30)
  MaxNet,       \* highest net<N> PVE has (31)
  MaxNetRead,   \* highest net<N> netDeviceFromConfig knows (9)
  Forms,        \* machine pool forms an operator may save
  Templates,    \* configs a fresh clone may start from
  MaxFaults     \* bound: failed API calls

VARIABLES
  form,      \* the pool's fields
  template,  \* the clone's config before the driver touched it
  cfg,       \* the VM's config
  pc,        \* the API call the driver makes next
  read,      \* the config the driver read last, in the call after it
  mac,       \* d.NetMAC, 0 when unset
  faults

vars == <<form, template, cfg, pc, read, mac, faults>>

Scsi(i) == <<"scsi", i>>
Net(i) == <<"net", i>>
Name == <<"driver", 1>>       \* agent, name, tags, ...: always written
CiUser == <<"driver", 2>>     \* ipconfig0, ciuser, ...: with cloud-init
Other == <<"other", 1>>       \* a key the driver has no field for (virtio0)

DiskKeys == {Scsi(i) : i \in 0..MaxSlot} \cup {Other}
Keys == DiskKeys \cup {Net(i) : i \in 0..MaxNet} \cup {Name, CiUser}

(* A property string, as far as anybody here looks into it.                 *)
Value == [by : {"template", "driver", "extra"}, label : Nat, size : Nat,
          backup : {"unset", "0", "1"}, mac : Nat]
OldMAC == 1   \* of the template's NIC
NewMAC == 2   \* of a NIC whose config was rewritten
Plain(writer) ==
  [by |-> writer, label |-> 0, size |-> 0, backup |-> "unset", mac |-> 0]

(* A data disk: its label, and the slot it is pinned to (0: none).          *)
Disk == [label : Nat \ {0}, device : 0..MaxSlot]

Form == [disks : Seq(Disk), extra : Seq(Keys), boot : Keys, bootGB : Nat,
         backup : {"unset", "0", "1"}, cloudInit : BOOLEAN, bridge : BOOLEAN,
         netDevice : 0..MaxNet]

ASSUME VMConfigAssumption ==
  /\ {MaxSlot, MaxNet, MaxNetRead, MaxFaults} \subseteq Nat
  /\ Forms \subseteq Form
  /\ \A t \in Templates :
       /\ t \in [DOMAIN t -> Value] /\ DOMAIN t \subseteq Keys
       /\ \A k \in DOMAIN t : t[k].by = "template" /\ t[k].mac \in {0, OldMAC}

DiskIndices == DOMAIN form.disks
Pinned(i) == form.disks[i].device # 0
PinnedSlots == {form.disks[i].device : i \in {j \in DiskIndices : Pinned(j)}}

-----------------------------------------------------------------------------
(* PreCreateCheck, the parts about one config written by several fields.    *)
Distinct(s) == \A i, j \in DOMAIN s : i # j => s[i] # s[j]

DisksApart ==
  /\ Len(form.disks) <= MaxSlot
  /\ \A i, j \in DiskIndices : i # j =>
       /\ form.disks[i].label # form.disks[j].label
       /\ Pinned(i) => form.disks[i].device # form.disks[j].device

(* The keys Configure writes for this form ...                              *)
DriverKeys ==
  {Name} \cup (IF form.cloudInit THEN {CiUser} ELSE {})
         \cup (IF form.bridge THEN {Net(form.netDevice)} ELSE {})

(* Mutation of ReservedKeys: only the keys Configure writes.                *)
ReservedKeysConfigureOnly == DriverKeys

(* ... and with those of the later steps, the ones pve-extra-config may not *)
(* set. Keys the form leaves alone are not reserved.                        *)
ReservedKeys ==
  DriverKeys
    \cup (IF form.bootGB > 0 \/ form.backup # "unset" THEN {form.boot} ELSE {})
    \cup {Scsi(s) : s \in PinnedSlots}

ExtraKeys == {form.extra[i] : i \in DOMAIN form.extra}

ExtraAllowed == Distinct(form.extra) /\ ExtraKeys \cap ReservedKeys = {}

-----------------------------------------------------------------------------
Init ==
  /\ form \in Forms
  /\ template \in Templates
  /\ cfg = template
  /\ pc = "check"
  /\ read = template
  /\ mac = 0
  /\ faults = 0

Goto(step) == pc' = step /\ UNCHANGED <<form, template, faults>>

(* Any call may fail: finalizeCreate returns the error.                     *)
CallFails ==
  /\ pc \notin {"check", "mac", "done", "failed"}
  /\ faults < MaxFaults
  /\ faults' = faults + 1
  /\ pc' = "failed"
  /\ UNCHANGED <<form, template, cfg, read, mac>>

PreCreateCheck ==
  /\ pc = "check"
  /\ Goto(IF DisksApart /\ ExtraAllowed THEN "configure" ELSE "failed")
  /\ UNCHANGED <<cfg, read, mac>>

(* A net device that is rewritten without macaddr= gets a new MAC.          *)
Written(k) ==
  LET writer == IF k \in ExtraKeys THEN "extra" ELSE "driver"
  IN [Plain(writer) EXCEPT !.mac = IF k[1] = "net" THEN NewMAC ELSE 0]

(* A PUT leaves the keys alone that it does not name.                       *)
Put(values, config) ==
  [k \in DOMAIN values \cup DOMAIN config |->
     IF k \in DOMAIN values THEN values[k] ELSE config[k]]

(* One PUT for every field; pve-extra-config comes last.                    *)
Configure ==
  /\ pc = "configure"
  /\ cfg' = Put([k \in DriverKeys \cup ExtraKeys |-> Written(k)], cfg)
  /\ Goto("resize")
  /\ UNCHANGED <<read, mac>>

(* pve-boot-disk-device is whatever was typed: it may name no key of the VM, *)
(* or one that is no disk.                                                  *)
HasBootDisk == form.boot \in DOMAIN cfg \cap DiskKeys

(* PVE rewrites size= in the disk's string; it only ever grows a disk, and  *)
(* nothing else.                                                            *)
ResizeBootDisk ==
  /\ pc = "resize"
  /\ \/ form.bootGB = 0 /\ Goto("backup") /\ UNCHANGED cfg
     \/ /\ form.bootGB > 0
        /\ HasBootDisk
        /\ form.bootGB >= cfg[form.boot].size
        /\ cfg' = [cfg EXCEPT ![form.boot].size = form.bootGB]
        /\ Goto("backup")
     \/ /\ form.bootGB > 0
        /\ HasBootDisk => form.bootGB < cfg[form.boot].size
        /\ Goto("failed")
        /\ UNCHANGED cfg
  /\ UNCHANGED <<read, mac>>

(* SetBootDiskBackup: read the string back ...                              *)
ReadBootDisk ==
  /\ pc = "backup"
  /\ \/ form.backup = "unset" /\ Goto("disks") /\ UNCHANGED read
     \/ /\ form.backup # "unset" /\ form.boot \in DOMAIN cfg
        /\ read' = cfg
        /\ Goto(IF cfg[form.boot].backup = form.backup THEN "disks"
                                                        ELSE "set_backup")
     \/ /\ form.backup # "unset" /\ form.boot \notin DOMAIN cfg
        /\ Goto("failed")
        /\ UNCHANGED read
  /\ UNCHANGED <<cfg, mac>>

(* Mutation of SetBootDiskBackup: it writes back the string of before the   *)
(* resize.                                                                  *)
SetBootDiskBackupStale ==
  /\ pc = "set_backup"
  /\ \/ /\ HasBootDisk
        /\ cfg' = [cfg EXCEPT ![form.boot] =
                     [template[form.boot] EXCEPT !.backup = form.backup]]
        /\ Goto("disks")
     \/ ~HasBootDisk /\ Goto("failed") /\ UNCHANGED cfg
  /\ UNCHANGED <<read, mac>>

(* ... and write it as a whole, with the flag set (setDiskProperty). PVE    *)
(* takes that flag in the string of a disk only.                            *)
SetBootDiskBackup ==
  /\ pc = "set_backup"
  /\ \/ /\ HasBootDisk
        /\ cfg' = [cfg EXCEPT ![form.boot] =
                     [read[form.boot] EXCEPT !.backup = form.backup]]
        /\ Goto("disks")
     \/ ~HasBootDisk /\ Goto("failed") /\ UNCHANGED cfg
  /\ UNCHANGED <<read, mac>>

ReadDisks ==
  /\ pc = "disks"
  /\ IF form.disks = <<>> THEN UNCHANGED read ELSE read' = cfg
  /\ Goto(IF form.disks = <<>> THEN "start" ELSE "attach")
  /\ UNCHANGED <<cfg, mac>>

(* Mutations of FreeSlots: the pinned slots are not claimed first, one slot *)
(* too many, one too few.                                                   *)
FreeSlotsPinsLast == {s \in 1..MaxSlot : Scsi(s) \notin DOMAIN read}

FreeSlotsOneMore ==
  {s \in 1..(MaxSlot + 1) : Scsi(s) \notin DOMAIN read} \ PinnedSlots

FreeSlotsOneLess ==
  {s \in 1..(MaxSlot - 1) : Scsi(s) \notin DOMAIN read} \ PinnedSlots

(* allocateDiskSlots: explicit slots first, the rest lowest free slot first. *)
FreeSlots == {s \in 1..MaxSlot : Scsi(s) \notin DOMAIN read} \ PinnedSlots

PinsFree == \A s \in PinnedSlots : Scsi(s) \notin DOMAIN read

NoSlot == 0
LowestFree(S) ==
  IF S = {} THEN NoSlot ELSE CHOOSE s \in S : \A t \in S : s <= t

SlotOf[i \in DiskIndices] ==
  IF Pinned(i) THEN form.disks[i].device
  ELSE LowestFree({s \in FreeSlots :
                     \A j \in 1..(i - 1) : ~Pinned(j) => SlotOf[j] # s})

(* All disks in one PUT.                                                    *)
AddDisks ==
  /\ pc = "attach"
  /\ LET fits == PinsFree /\ \A i \in DiskIndices : SlotOf[i] # NoSlot
         disk(k) == CHOOSE i \in DiskIndices : Scsi(SlotOf[i]) = k
         slots == {Scsi(SlotOf[i]) : i \in DiskIndices}
     IN \/ /\ fits
           /\ cfg' = Put([k \in slots |->
                            [Plain("driver") EXCEPT
                               !.label = form.disks[disk(k)].label,
                               !.size = 1, !.backup = "0"]], cfg)
           /\ Goto("start")
        \/ ~fits /\ Goto("failed") /\ UNCHANGED cfg
  /\ UNCHANGED <<read, mac>>

Start ==
  /\ pc = "start"
  /\ Goto("mac")
  /\ UNCHANGED <<cfg, read, mac>>

(* Mutation of ReadNetMAC: the MAC is taken from the clone as it landed.    *)
ReadNetMACEarly ==
  /\ pc = "mac"
  /\ LET device == Net(form.netDevice)
     IN mac' = IF device \in DOMAIN template THEN template[device].mac ELSE 0
  /\ pc' = "done"
  /\ UNCHANGED <<form, template, cfg, read, faults>>

(* VMNetMAC. Any error is only a warning: discovery falls back to the first *)
(* IPv4 address of any interface.                                           *)
ReadNetMAC ==
  /\ pc = "mac"
  /\ LET device == Net(form.netDevice)
         known == form.netDevice <= MaxNetRead /\ device \in DOMAIN cfg
     IN \/ mac' = (IF known THEN cfg[device].mac ELSE 0) /\ UNCHANGED faults
        \/ faults < MaxFaults /\ faults' = faults + 1 /\ mac' = 0
  /\ pc' = "done"
  /\ UNCHANGED <<form, template, cfg, read>>

Next ==
  \/ PreCreateCheck \/ Configure \/ ResizeBootDisk \/ ReadBootDisk
  \/ SetBootDiskBackup \/ ReadDisks \/ AddDisks \/ Start \/ ReadNetMAC
  \/ CallFails

Spec == Init /\ [][Next]_vars

-----------------------------------------------------------------------------
(* Type invariant.                                                          *)
TypeOK ==
  /\ form \in Forms /\ template \in Templates
  /\ DOMAIN cfg \subseteq Keys /\ \A k \in DOMAIN cfg : cfg[k] \in Value
  /\ pc \in {"check", "configure", "resize", "backup", "set_backup", "disks",
             "attach", "start", "mac", "done", "failed"}
  /\ DOMAIN read \subseteq Keys /\ \A k \in DOMAIN read : read[k] \in Value
  /\ mac \in {0, OldMAC, NewMAC}
  /\ faults \in 0..MaxFaults

Booted == pc \in {"mac", "done"}

(* The boot disk goes into its first boot with the size and the backup flag *)
(* that were asked for: neither write puts back what the other changed, and *)
(* neither is lost to pve-extra-config or to a data disk.                   *)
BootDiskAsAsked ==
  Booted =>
    /\ form.bootGB > 0 => cfg[form.boot].size = form.bootGB
    /\ form.backup # "unset" => cfg[form.boot].backup = form.backup
    /\ (/\ form.bootGB = 0
        /\ form.boot \in (DOMAIN template \cap DiskKeys) \ ExtraKeys)
         => cfg[form.boot].size = template[form.boot].size

(* Every data disk is attached once, at its slot if it names one.           *)
DisksInPlace ==
  \A i \in DiskIndices :
    \E k \in DOMAIN cfg :
      /\ {l \in DOMAIN cfg : cfg[l].label = form.disks[i].label} = {k}
      /\ k[1] = "scsi" /\ k # Scsi(0)
      /\ Pinned(i) => k = Scsi(form.disks[i].device)

(* The VM boots with every data disk in place: none is missing, none is     *)
(* there twice, none took the slot of another or of the boot disk.          *)
DisksAttached == Booted => DisksInPlace

(* Nobody's key is overwritten: what pve-extra-config set stays set, and    *)
(* what the template had and no field claims is still there at boot (a disk *)
(* of the template, an unmanaged NIC).                                      *)
NothingOverwritten ==
  Booted =>
    /\ \A k \in ExtraKeys : cfg[k] = Written(k)
    /\ \A k \in DOMAIN template \ (ExtraKeys \cup ReservedKeys) :
         cfg[k] = template[k]

(* What discovery is given: the MAC of the NIC in the VM that boots. That is *)
(* a new one if a field or pve-extra-config wrote the NIC, whatever the     *)
(* template had, else the clone's own, which no later write of Create       *)
(* touches. Discovery is left to any interface only if there is no such MAC, *)
(* the read failed, or the device is one the driver cannot read (Configure, *)
(* VMNetMAC, finalizeCreate).                                               *)
NICRewritten == Net(form.netDevice) \in DriverKeys \cup ExtraKeys

NICMAC ==
  CASE NICRewritten -> NewMAC
    [] ~NICRewritten /\ Net(form.netDevice) \in DOMAIN template ->
         template[Net(form.netDevice)].mac
    [] OTHER -> 0

DiscoveryKnowsNIC ==
  pc = "done" =>
    mac = IF faults > 0 \/ form.netDevice > MaxNetRead THEN 0 ELSE NICMAC

(* Attaching gives up only when it has to: when no assignment of distinct   *)
(* free slots to the disks, pinned ones as pinned, exists at all.           *)
Assignable ==
  \E slots \in [DiskIndices -> 1..MaxSlot] :
    /\ \A i, j \in DiskIndices : i # j => slots[i] # slots[j]
    /\ \A i \in DiskIndices :
         /\ Scsi(slots[i]) \notin DOMAIN read
         /\ Pinned(i) => slots[i] = form.disks[i].device
GivesUpOnlyIfFull ==
  [][pc = "attach" /\ pc' = "failed" /\ UNCHANGED faults => ~Assignable]_vars

(* "VirtualMachineConfig exposes Net0..Net31 ... so we fall through to a    *)
(* small switch" (client.go): the MAC of whichever device is configured is  *)
(* found when nothing fails.                                                *)
MACIsFound ==
  pc = "done" /\ faults = 0 /\ Net(form.netDevice) \in DOMAIN cfg => mac # 0
=============================================================================
