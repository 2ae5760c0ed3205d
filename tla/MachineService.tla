--------------------------- MODULE MachineService ---------------------------
(***************************************************************************)
(* What the driver promises Rancher, without saying how: a machine has at  *)
(* most one VM and no two machines share one; Create either hands over a   *)
(* machine with its VM or fails and leaves none; nothing but its own       *)
(* deletion takes the VM of a machine in service away; and a machine is    *)
(* forgotten only when its VM is gone. The one exception is a process that *)
(* dies: a Create cut short has no rollback, and nobody then knows of the  *)
(* VM it may have made.                                                    *)
(***************************************************************************)
EXTENDS Naturals

CONSTANTS Machines, VMIDs
VARIABLES status, vm, died

serviceVars == <<status, vm, died>>

NoVM == 0   \* VMIDs are positive

Unused == {id \in VMIDs : \A m \in Machines : vm[m] # id}

Init ==
  /\ status = [m \in Machines |-> "new"]
  /\ vm = [m \in Machines |-> NoVM]
  /\ died = 0

Becomes(m, s) == status' = [status EXCEPT ![m] = s]

Request(m) ==
  status[m] = "new" /\ Becomes(m, "creating") /\ UNCHANGED <<vm, died>>

Acquire(m) ==
  /\ status[m] = "creating" /\ vm[m] = NoVM
  /\ \E id \in Unused : vm' = [vm EXCEPT ![m] = id]
  /\ UNCHANGED <<status, died>>

Succeed(m) ==
  /\ status[m] = "creating" /\ vm[m] # NoVM
  /\ Becomes(m, "active") /\ UNCHANGED <<vm, died>>

Fail(m) ==
  /\ status[m] = "creating"
  /\ Becomes(m, "failed") /\ vm' = [vm EXCEPT ![m] = NoVM]
  /\ UNCHANGED died

Die(m) ==
  /\ died' = died + 1
  /\ status' = [status EXCEPT ![m] = IF @ = "creating" THEN "failed" ELSE @]
  /\ UNCHANGED vm

StartDeletion(m) ==
  /\ status[m] \in {"active", "failed"}
  /\ Becomes(m, "deleting") /\ UNCHANGED <<vm, died>>

Forget(m) ==
  /\ \/ status[m] = "deleting" /\ vm' = [vm EXCEPT ![m] = NoVM]
     \/ status[m] = "failed" /\ UNCHANGED vm
  /\ Becomes(m, "gone")
  /\ UNCHANGED died

Next == \E m \in Machines :
  \/ Request(m) \/ Acquire(m) \/ Succeed(m) \/ Fail(m) \/ Die(m)
  \/ StartDeletion(m) \/ Forget(m)

Spec == Init /\ [][Next]_serviceVars
=============================================================================
