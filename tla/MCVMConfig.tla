------------------------------ MODULE MCVMConfig ------------------------------
(* VMConfig instantiated for TLC: SCSI slots 0..4, NICs net0..net2 of which *)
(* the driver can read net0 and net1.                                       *)
EXTENDS VMConfig, TLC

BootDisk == [Plain("template") EXCEPT !.size = 2]
NIC == [Plain("template") EXCEPT !.mac = OldMAC]

(* A template with a boot disk and a NIC, one with a second disk and a      *)
(* foreign key, one that boots from another slot and has two NICs.          *)
TemplateConfigs ==
  { Scsi(0) :> BootDisk @@ Net(0) :> NIC,
    Scsi(0) :> BootDisk @@ Scsi(2) :> BootDisk @@ Net(0) :> NIC
      @@ Other :> Plain("template"),
    Scsi(1) :> BootDisk @@ Net(1) :> NIC @@ Net(2) :> NIC @@ Name :> Plain("template") }

SeqsUpTo(S, n) == UNION {[1..k -> S] : k \in 0..n}
OneDisk(label, device) == [label |-> label, device |-> device]

NoDisks == {<<>>}
FewDisks == {<<>>, <<OneDisk(1, 0)>>, <<OneDisk(1, 0), OneDisk(2, 1)>>}
AnyDisks == SeqsUpTo({OneDisk(l, v) : l \in 1..4, v \in {0, 1, 3}}, 2)
              \cup [1..3 -> {OneDisk(l, v) : l \in 1..3, v \in {0, 2}}]
              \cup {[i \in 1..4 |-> OneDisk(i, pins[i])] :
                      pins \in [1..4 -> {0, 1, 4}]}

(* Forms about the disks, with pve-extra-config taking a slot or not.       *)
DiskForms ==
  [disks : AnyDisks, extra : {<<>>, <<Scsi(2)>>, <<Scsi(1), Other>>},
   boot : {Scsi(0)}, bootGB : {0}, backup : {"unset"}, cloudInit : {TRUE},
   bridge : {FALSE}, netDevice : {0}]

(* Forms about everything that writes a key.                                *)
WriterForms ==
  [disks : FewDisks, extra : SeqsUpTo({Other, Net(0), Scsi(0), Scsi(1), CiUser}, 2),
   boot : {Scsi(0), Scsi(1), Net(0)}, bootGB : {0, 1, 3}, backup : {"unset", "0", "1"},
   cloudInit : BOOLEAN, bridge : BOOLEAN, netDevice : {0, 1}]

(* Forms that name the third NIC.                                           *)
NICForms ==
  [disks : {<<>>}, extra : {<<>>}, boot : {Scsi(0)}, bootGB : {0},
   backup : {"unset"}, cloudInit : {TRUE}, bridge : BOOLEAN, netDevice : 0..2]

AllForms == WriterForms \cup DiskForms \cup NICForms
===============================================================================
