----------------------------- MODULE MCGuestSetup -----------------------------
(* GuestSetup instantiated for TLC.                                         *)
EXTENDS GuestSetup

Data == <<"data">>
Sub == <<"data", "sub">>
Srv == <<"srv">>

On(path) == [fs |-> "ext4", mount |-> path, long |-> FALSE]
Raw == [fs |-> "none", mount |-> <<>>, long |-> FALSE]

(* Accepted: no disk, raw ones, two set up around a raw one, a label that   *)
(* does not fit; refused: one path twice, one below the other in either     *)
(* order, system directories.                                               *)
SomeDisks ==
  { <<>>, <<Raw>>, <<On(Data), Raw, On(Srv)>>,
    <<[On(Data) EXCEPT !.long = TRUE]>>,
    <<[On(Data) EXCEPT !.long = TRUE, !.fs = "xfs"]>>,
    <<On(Data), On(<<"data", "">>)>>, <<On(Sub), On(Data)>>, <<On(Data), On(Sub)>>,
    <<On(<<"", "var", "">>)>>, <<On(<<"etc", "data">>)>>, <<On(<<"data", "..">>)>> }

FormOf(disks, wait, mac, iface) ==
  [disks |-> disks, cloudInitTimeout |-> wait, mac |-> mac, iface |-> iface]

(* The ways to discover the address matter without disks as much as with.   *)
SomeForms ==
  {FormOf(ds, wait, TRUE, "") : ds \in SomeDisks, wait \in BOOLEAN}
    \cup {FormOf(ds, TRUE, FALSE, i) : ds \in {<<>>, <<On(Data)>>}, i \in {"", NIC}}

(* Two disks on one mount point, by a path with a segment that is no step.  *)
DotForms == {FormOf(<<On(Data), On(<<".", "data">>)>>, TRUE, TRUE, "")}

Other(path) == [what |-> 0, path |-> path]

(* Without cloud-init; with one that mounts nothing, or something of its    *)
(* own; fstab empty or with a line for the path of a disk.                  *)
Image1 == [cloudinit |-> "first", readable |-> TRUE, fstab |-> <<>>,
           own |-> <<>>, order |-> <<Bridge, NIC>>]

SomeImages ==
  { [Image1 EXCEPT !.cloudinit = "absent"],
    [Image1 EXCEPT !.readable = FALSE, !.order = <<NIC, Bridge>>],
    [Image1 EXCEPT !.own = <<Other(Sub)>>],
    [Image1 EXCEPT !.fstab = <<Other(Data)>>, !.own = <<Other(Srv)>>] }

(* Images whose cloud-init has something to say, so that it is waited for.  *)
DotImages == {i \in SomeImages : i.cloudinit = "first"}
===============================================================================
