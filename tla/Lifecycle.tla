------------------------------ MODULE Lifecycle ------------------------------
(***************************************************************************)
(* The driver's machine lifecycle: Create (claim a VMID, clone, finalize,  *)
(* roll back), Remove, and the day-2 power operations, for several         *)
(* machines of one pool against one shared cluster.                        *)
(*                                                                         *)
(* Every driver operation is a fresh process that loads the record Rancher *)
(* saved, so d[m] and pc[m] live only while an operation runs and rec[m]   *)
(* is all that survives it. One action is one PVE call with what the code  *)
(* does on its result; between two calls anybody else may act.             *)
(***************************************************************************)
EXTENDS Cluster

CONSTANTS
  UseRange,       \* pve-vmid-range is set
  Range,          \* ... and these are its ids
  FlagVMID,       \* FlagVMID[m]: pve-vmid of machine m, 0 when unset
  Candidates,     \* nodes selectNode may choose (pve-node pins a single one)
  Options,        \* optional finalize steps that are configured
  KeepOnFailure,  \* pve-keep-on-failure
  MaxAttempts,    \* vmidClaimAttempts
  SaveOnFailure,  \* Rancher saves the machine's record after a failed Create
  DestroyNeedsNoHA, \* PVE refuses to destroy a guest that is an HA resource
  Refusable,      \* calls that may fail without taking effect
  Losable,        \* calls that may take effect and still report an error
  MaxFaults,      \* bound: failed calls in a behaviour
  MaxCrashes,     \* bound: driver processes that die halfway
  MaxForeign,     \* bound: foreign guests that appear
  ForeignLeaves,  \* foreign guests may disappear again
  OperatorDeletes, \* an operator may delete a pool VM by hand
  Migration       \* HA guests may move between nodes

VARIABLES
  phase,    \* phase[m]: what Rancher believes about m
  rec,      \* rec[m]: the driver record Rancher has saved for m
  pc,       \* pc[m]: the call the running driver process makes next
  d,        \* d[m]: VMID and node in that process (d.VMID, c.node)
  pick,     \* pick[m]: the id of the clone attempt under way
  attempt,  \* attempt[m]: the claim loop's counter
  faults, crashes, foreigns   \* how much of each bound is used up

machineVars == <<phase, rec, pc, d, pick, attempt>>
budgetVars == <<faults, crashes, foreigns>>
vars == <<clusterVars, machineVars, budgetVars>>

Phases == {"new", "creating", "active", "failed", "deleting", "gone"}
CreateSteps == {"resolve", "scan", "clone", "configure", "resize", "backup",
                "disks", "start", "guest", "register", "return", "rollback"}
RemoveSteps == {"unregister", "state", "kill", "delete"}
PowerSteps == {"read_state", "power_on", "power_off"}
Steps == {"idle"} \cup CreateSteps \cup RemoveSteps \cup PowerSteps

Record == [vmid : IDs \cup {0}, node : Nodes \cup {NoNode}]
NoRecord == [vmid |-> 0, node |-> NoNode]
Flags(m) == [vmid |-> FlagVMID[m], node |-> NoNode]

ASSUME LifecycleAssumption ==
  /\ UseRange \in BOOLEAN
  /\ Range \subseteq IDs
  /\ FlagVMID \in [Machines -> IDs \cup {0}]
  /\ Candidates \subseteq Nodes /\ Candidates # {}
  /\ Options \subseteq {"resize", "backup", "disks", "guest", "register"}
  /\ {KeepOnFailure, SaveOnFailure, DestroyNeedsNoHA, ForeignLeaves,
      OperatorDeletes, Migration} \subseteq BOOLEAN
  /\ MaxAttempts \in Nat \ {0}
  /\ {MaxFaults, MaxCrashes, MaxForeign} \subseteq Nat
  (* pve-vmid and pve-vmid-range are mutually exclusive (PreCreateCheck).  *)
  /\ UseRange => \A m \in Machines : FlagVMID[m] = 0

Init ==
  /\ ClusterInit
  /\ phase = [m \in Machines |-> "new"]
  /\ rec = [m \in Machines |-> Flags(m)]
  /\ pc = [m \in Machines |-> "idle"]
  /\ d = [m \in Machines |-> NoRecord]
  /\ pick = [m \in Machines |-> 0]
  /\ attempt = [m \in Machines |-> 0]
  /\ faults = 0 /\ crashes = 0 /\ foreigns = 0

-----------------------------------------------------------------------------
(* How a step moves on, and how a process ends.                             *)
Goto(m, step) ==
  /\ pc' = [pc EXCEPT ![m] = step]
  /\ UNCHANGED <<phase, rec, d, pick, attempt>>

Ends(m, newPhase, record) ==
  /\ phase' = [phase EXCEPT ![m] = newPhase]
  /\ rec' = [rec EXCEPT ![m] = record]
  /\ pc' = [pc EXCEPT ![m] = "idle"]
  /\ d' = [d EXCEPT ![m] = NoRecord]
  /\ pick' = [pick EXCEPT ![m] = 0]
  /\ attempt' = [attempt EXCEPT ![m] = 0]

CreateFails(m) ==
  Ends(m, "failed", IF SaveOnFailure THEN d[m] ELSE rec[m])

Healthy == UNCHANGED budgetVars
Fault(call, failing) ==
  /\ call \in failing
  /\ faults < MaxFaults
  /\ faults' = faults + 1
  /\ UNCHANGED <<crashes, foreigns>>

(* client.vm and the raw PUTs address the guest on c.node only.             *)
Reaches(m) == FoundAt(d[m].vmid, d[m].node)

(* A call that changes nothing the cluster part of the model keeps.         *)
Unaffected == UNCHANGED clusterVars

-----------------------------------------------------------------------------
(* Create, up to the clone.                                                 *)
BeginCreate(m) ==
  /\ phase[m] = "new"
  /\ phase' = [phase EXCEPT ![m] = "creating"]
  /\ pc' = [pc EXCEPT ![m] = "resolve"]
  /\ d' = [d EXCEPT ![m] = rec[m]]
  /\ UNCHANGED <<rec, pick, attempt>>
  /\ Unaffected /\ Healthy

(* Template selection and the SSH key pair: nothing exists yet, so an error *)
(* just ends Create. Only the auto-assigned modes have to choose an id.     *)
Resolve(m) ==
  /\ pc[m] = "resolve"
  /\ \/ /\ pick' = [pick EXCEPT ![m] = d[m].vmid]
        /\ attempt' = [attempt EXCEPT ![m] = 1]
        /\ pc' = [pc EXCEPT ![m] = IF d[m].vmid = 0 THEN "scan" ELSE "clone"]
        /\ UNCHANGED <<phase, rec, d>>
        /\ Healthy
     \/ Fault("resolve", Refusable) /\ CreateFails(m)
  /\ Unaffected

(* NextFreeVMID sees what the token sees; /cluster/nextid sees everything.  *)
FreeIDs == IF UseRange THEN Range \ UsedVMIDs
                       ELSE {id \in IDs : ~Exists(id)}

Scan(m) ==
  /\ pc[m] = "scan"
  /\ \/ /\ FreeIDs # {}
        /\ pick' = [pick EXCEPT ![m] = LowestOf(FreeIDs)]
        /\ pc' = [pc EXCEPT ![m] = "clone"]
        /\ UNCHANGED <<phase, rec, d, attempt>>
        /\ Healthy
     \/ FreeIDs = {} /\ Healthy /\ CreateFails(m)
     \/ Fault("scan", Refusable) /\ CreateFails(m)
  /\ Unaffected

(* The clone landed: only now does the process know its VMID and node.      *)
CloneLands(m) ==
  /\ ~Exists(pick[m])
  /\ Healthy
  /\ \E node \in Candidates :
       /\ PutGuest(pick[m], m, node, FALSE)
       /\ d' = [d EXCEPT ![m] = [vmid |-> pick[m], node |-> node]]
  /\ UNCHANGED ha
  /\ pc' = [pc EXCEPT ![m] = "configure"]
  /\ UNCHANGED <<phase, rec, pick, attempt>>

(* Mutations of CloneTaken: the retry is not bounded, the attempts are not  *)
(* counted, a refused clone is cleaned up like one that landed.             *)
CloneTakenUnbounded(m) ==
  /\ Exists(pick[m])
  /\ Healthy /\ Unaffected
  /\ attempt' = [attempt EXCEPT ![m] = @ + 1]
  /\ pc' = [pc EXCEPT ![m] = "scan"]
  /\ UNCHANGED <<phase, rec, d, pick>>

CloneTakenUncounted(m) ==
  /\ Exists(pick[m])
  /\ Healthy /\ Unaffected
  /\ IF UseRange THEN Goto(m, "scan") ELSE CreateFails(m)

CloneTakenCleansUp(m) ==
  /\ Exists(pick[m])
  /\ Healthy /\ Unaffected
  /\ pc' = [pc EXCEPT ![m] = "rollback"]
  /\ d' = [d EXCEPT ![m] = [vmid |-> pick[m], node |-> host[pick[m]]]]
  /\ UNCHANGED <<phase, rec, pick, attempt>>

(* "already exists": with a range, scan again; the refused id is not        *)
(* remembered. Without one the error ends Create.                           *)
CloneTaken(m) ==
  /\ Exists(pick[m])
  /\ Healthy /\ Unaffected
  /\ IF UseRange /\ attempt[m] < MaxAttempts
     THEN /\ attempt' = [attempt EXCEPT ![m] = @ + 1]
          /\ pc' = [pc EXCEPT ![m] = "scan"]
          /\ UNCHANGED <<phase, rec, d, pick>>
     ELSE CreateFails(m)

(* Any other clone error ends Create with d.VMID unset and no rollback, a   *)
(* clone task that was accepted and then not waited out included.           *)
CloneErrors(m) ==
  /\ \/ Fault("clone", Refusable) /\ Unaffected
     \/ /\ Fault("clone", Losable)
        /\ ~Exists(pick[m])
        /\ \E node \in Candidates : PutGuest(pick[m], m, node, FALSE)
        /\ UNCHANGED ha
  /\ CreateFails(m)

Clone(m) == pc[m] = "clone" /\ (CloneLands(m) \/ CloneTaken(m) \/ CloneErrors(m))

-----------------------------------------------------------------------------
(* Mutation of Rank: HA takes the VM over before it has been started.       *)
RankRegistersFirst ==
  [configure |-> 1, resize |-> 2, backup |-> 3, disks |-> 4,
   start |-> 6, guest |-> 7, register |-> 5, return |-> 8]

(* finalizeCreate: the configured steps in their order, then the return.    *)
Rank == [configure |-> 1, resize |-> 2, backup |-> 3, disks |-> 4,
         start |-> 5, guest |-> 6, register |-> 7, return |-> 8]

Requested == {"configure", "start", "return"} \cup Options

After(step) ==
  CHOOSE s \in Requested :
    /\ Rank[s] > Rank[step]
    /\ \A t \in Requested : Rank[t] > Rank[step] => Rank[s] <= Rank[t]

Advance(m) == Healthy /\ Goto(m, After(pc[m]))

(* Mutation of StepFails: an early return the deferred cleanup misses.      *)
StepFailsUncleaned(m) == CreateFails(m)
StepFails(m) == Goto(m, "rollback")

(* Configure, ResizeBootDisk, SetBootDiskBackup, AddDisks.                  *)
Prepare(m) ==
  /\ pc[m] \in {"configure", "resize", "backup", "disks"}
  /\ \/ Reaches(m) /\ Advance(m)
     \/ ~Reaches(m) /\ Healthy /\ StepFails(m)
     \/ Fault(pc[m], Refusable \cup Losable) /\ StepFails(m)
  /\ Unaffected

(* PVE refuses to start a guest that already runs.                          *)
StartVM(m) ==
  /\ pc[m] = "start"
  /\ LET startable == Reaches(m) /\ ~running[d[m].vmid]
     IN \/ startable /\ SetPower(d[m].vmid, TRUE) /\ Advance(m)
        \/ ~startable /\ Unaffected /\ Healthy /\ StepFails(m)
        \/ Fault("start", Refusable) /\ Unaffected /\ StepFails(m)
        \/ startable /\ Fault("start", Losable)
             /\ SetPower(d[m].vmid, TRUE) /\ StepFails(m)

(* The address, cloud-init's verdict and the data disks, all of them in the *)
(* running guest and all of them with a timeout.                            *)
WaitForGuest(m) ==
  /\ pc[m] = "guest"
  /\ \/ Reaches(m) /\ running[d[m].vmid] /\ Advance(m)
     \/ ~(Reaches(m) /\ running[d[m].vmid]) /\ Healthy /\ StepFails(m)
     \/ Fault("guest", Refusable) /\ StepFails(m)
  /\ Unaffected

(* The HA endpoints are cluster-wide; an id that has an entry is refused.   *)
AddHAResource(m) ==
  /\ pc[m] = "register"
  /\ UNCHANGED <<owner, host, running>>
  /\ LET id == d[m].vmid
         addable == Exists(id) /\ id \notin ha
     IN \/ addable /\ ha' = ha \cup {id} /\ Advance(m)
        \/ ~addable /\ UNCHANGED ha /\ Healthy /\ StepFails(m)
        \/ Fault("register", Refusable) /\ UNCHANGED ha /\ StepFails(m)
        \/ addable /\ Fault("register", Losable)
             /\ ha' = ha \cup {id} /\ StepFails(m)

(* Mutation of CreateReturns: the node is not persisted.                    *)
CreateReturnsNoNode(m) ==
  /\ pc[m] = "return"
  /\ Ends(m, "active", [vmid |-> d[m].vmid, node |-> NoNode])
  /\ Unaffected /\ Healthy

(* Create returns (after the provision delay) and Rancher saves the record. *)
CreateReturns(m) ==
  /\ pc[m] = "return"
  /\ Ends(m, "active", d[m])
  /\ Unaffected /\ Healthy

-----------------------------------------------------------------------------
(* client.Remove: not found is success, a running guest is refused.         *)
Destroyable(id) == ~running[id] /\ (DestroyNeedsNoHA => id \notin ha)

RemoveSucceeds(m) ==
  /\ Healthy
  /\ IF Reaches(m)
     THEN Destroyable(d[m].vmid) /\ DestroyGuest(d[m].vmid)
     ELSE Unaffected

RemoveErrors(m, call) ==
  \/ Reaches(m) /\ ~Destroyable(d[m].vmid) /\ Healthy /\ Unaffected
  \/ Fault(call, Refusable) /\ Unaffected
  \/ /\ Reaches(m) /\ Destroyable(d[m].vmid)
     /\ Fault(call, Losable)
     /\ DestroyGuest(d[m].vmid)

(* Create's cleanup. Whether it worked only reaches the log.                *)
Rollback(m) ==
  /\ pc[m] = "rollback"
  /\ \/ KeepOnFailure /\ Unaffected /\ Healthy
     \/ ~KeepOnFailure /\ (RemoveSucceeds(m) \/ RemoveErrors(m, "cleanup"))
  /\ CreateFails(m)

-----------------------------------------------------------------------------
(* Mutation of BeginRemove: the VM is not taken out of HA first.            *)
BeginRemoveStillInHA(m) ==
  /\ phase[m] \in {"active", "failed", "deleting"}
  /\ pc[m] = "idle"
  /\ rec[m].vmid # 0
  /\ phase' = [phase EXCEPT ![m] = "deleting"]
  /\ \E node \in IF rec[m].node = NoNode THEN Candidates ELSE {rec[m].node} :
       d' = [d EXCEPT ![m] = [vmid |-> rec[m].vmid, node |-> node]]
  /\ pc' = [pc EXCEPT ![m] = "state"]
  /\ UNCHANGED <<rec, pick, attempt>>
  /\ Unaffected /\ Healthy

(* Remove. A record without a node makes the fresh process select one.      *)
BeginRemove(m) ==
  /\ phase[m] \in {"active", "failed", "deleting"}
  /\ pc[m] = "idle"
  /\ rec[m].vmid # 0
  /\ phase' = [phase EXCEPT ![m] = "deleting"]
  /\ \E node \in IF rec[m].node = NoNode THEN Candidates ELSE {rec[m].node} :
       d' = [d EXCEPT ![m] = [vmid |-> rec[m].vmid, node |-> node]]
  /\ pc' = [pc EXCEPT ![m] = IF "register" \in Options THEN "unregister"
                                                       ELSE "state"]
  /\ UNCHANGED <<rec, pick, attempt>>
  /\ Unaffected /\ Healthy

RemoveNothing(m) ==
  /\ phase[m] \in {"active", "failed", "deleting"}
  /\ pc[m] = "idle"
  /\ rec[m].vmid = 0
  /\ Ends(m, "gone", NoRecord)
  /\ Unaffected /\ Healthy

(* An error here is only a warning.                                         *)
RemoveHAResource(m) ==
  /\ pc[m] = "unregister"
  /\ \/ ha' = ha \ {d[m].vmid} /\ (Healthy \/ Fault("unregister", Losable))
     \/ UNCHANGED ha /\ Fault("unregister", Refusable)
  /\ UNCHANGED <<owner, host, running>>
  /\ Goto(m, "state")

(* An unreadable state falls through to the destroy call.                   *)
ReadStateForRemove(m) ==
  /\ pc[m] = "state"
  /\ \/ Reaches(m) /\ running[d[m].vmid] /\ Healthy /\ Goto(m, "kill")
     \/ ~(Reaches(m) /\ running[d[m].vmid]) /\ Healthy /\ Goto(m, "delete")
     \/ Fault("state", Refusable) /\ Goto(m, "delete")
  /\ Unaffected

(* An error here is only a warning, too.                                    *)
Kill(m) ==
  /\ pc[m] = "kill"
  /\ \/ Reaches(m) /\ SetPower(d[m].vmid, FALSE)
          /\ (Healthy \/ Fault("kill", Losable))
     \/ ~Reaches(m) /\ Unaffected /\ Healthy
     \/ Unaffected /\ Fault("kill", Refusable)
  /\ Goto(m, "delete")

(* Mutations of Delete: a refused destroy call is only a warning, a VM that *)
(* is already gone is an error.                                             *)
DeleteOnlyWarns(m) ==
  /\ pc[m] = "delete"
  /\ RemoveSucceeds(m) \/ RemoveErrors(m, "delete")
  /\ Ends(m, "gone", NoRecord)

DeleteNeedsVM(m) ==
  /\ pc[m] = "delete"
  /\ \/ Reaches(m) /\ RemoveSucceeds(m) /\ Ends(m, "gone", NoRecord)
     \/ ~Reaches(m) /\ Healthy /\ Unaffected /\ Ends(m, "deleting", rec[m])
     \/ RemoveErrors(m, "delete") /\ Ends(m, "deleting", rec[m])

(* Rancher forgets the machine on success and calls Remove again otherwise. *)
Delete(m) ==
  /\ pc[m] = "delete"
  /\ \/ RemoveSucceeds(m) /\ Ends(m, "gone", NoRecord)
     \/ RemoveErrors(m, "delete") /\ Ends(m, "deleting", rec[m])

-----------------------------------------------------------------------------
(* Start, Stop, Kill of a machine in service (Restart leaves it running).   *)
BeginPower(m, step) ==
  /\ phase[m] = "active"
  /\ pc[m] = "idle"
  /\ d' = [d EXCEPT ![m] = rec[m]]
  /\ pc' = [pc EXCEPT ![m] = step]
  /\ UNCHANGED <<phase, rec, pick, attempt>>
  /\ Unaffected /\ Healthy

PowerDone(m) == Ends(m, phase[m], rec[m])

ReadStateForStart(m) ==
  /\ pc[m] = "read_state"
  /\ \/ Reaches(m) /\ ~running[d[m].vmid] /\ Healthy /\ Goto(m, "power_on")
     \/ ~(Reaches(m) /\ ~running[d[m].vmid]) /\ Healthy /\ PowerDone(m)
     \/ Fault("state", Refusable) /\ PowerDone(m)
  /\ Unaffected

Power(m) ==
  /\ pc[m] \in {"power_on", "power_off"}
  /\ \/ Reaches(m) /\ SetPower(d[m].vmid, pc[m] = "power_on")
          /\ (Healthy \/ Fault("power", Losable))
     \/ ~Reaches(m) /\ Unaffected /\ Healthy
     \/ Unaffected /\ Fault("power", Refusable)
  /\ PowerDone(m)

-----------------------------------------------------------------------------
(* The process dies between two calls; Rancher keeps what it had saved.     *)
Crash(m) ==
  /\ pc[m] # "idle"
  /\ crashes < MaxCrashes
  /\ crashes' = crashes + 1
  /\ UNCHANGED <<faults, foreigns>>
  /\ Ends(m, IF phase[m] = "creating" THEN "failed" ELSE phase[m], rec[m])
  /\ Unaffected

Create(m) ==
  \/ Resolve(m) \/ Scan(m) \/ Clone(m) \/ Prepare(m) \/ StartVM(m)
  \/ WaitForGuest(m) \/ AddHAResource(m) \/ CreateReturns(m) \/ Rollback(m)

Remove(m) ==
  RemoveHAResource(m) \/ ReadStateForRemove(m) \/ Kill(m) \/ Delete(m)

PowerOp(m) == ReadStateForStart(m) \/ Power(m)

Driver(m) == Create(m) \/ Remove(m) \/ PowerOp(m)

Rancher(m) ==
  \/ BeginCreate(m)
  \/ BeginRemove(m)
  \/ RemoveNothing(m)
  \/ \E step \in {"read_state", "power_off"} : BeginPower(m, step)

Environment ==
  \/ /\ \E id \in IDs :
          \/ ForeignLeaves /\ ForeignDestroy(id)
          \/ OperatorDeletes /\ OperatorDestroy(id)
          \/ HARestart(id)
          \/ Migration /\ \E node \in Nodes : HAMigrate(id, node)
     /\ UNCHANGED <<machineVars, budgetVars>>
  \/ /\ foreigns < MaxForeign
     /\ foreigns' = foreigns + 1
     /\ \E id \in IDs : ForeignCreate(id)
     /\ UNCHANGED <<machineVars, faults, crashes>>

Next ==
  \/ \E m \in Machines : Rancher(m) \/ Driver(m) \/ Crash(m)
  \/ Environment

(* A process that runs takes its next step, and Rancher retries a deletion  *)
(* that failed. Neither the HA manager nor anybody else has to do anything. *)
Fairness ==
  \A m \in Machines :
    /\ WF_vars(Driver(m))
    /\ WF_vars(phase[m] = "deleting" /\ (BeginRemove(m) \/ RemoveNothing(m)))

Spec == Init /\ [][Next]_vars
FairSpec == Spec /\ Fairness

-----------------------------------------------------------------------------
MachineTypeOK ==
  /\ phase \in [Machines -> Phases]
  /\ rec \in [Machines -> Record]
  /\ pc \in [Machines -> Steps]
  /\ d \in [Machines -> Record]
  /\ pick \in [Machines -> IDs \cup {0}]
  /\ attempt \in [Machines -> 0..MaxAttempts]

BudgetTypeOK ==
  /\ faults \in 0..MaxFaults
  /\ crashes \in 0..MaxCrashes
  /\ foreigns \in 0..MaxForeign

(* Type invariant.                                                          *)
TypeOK == ClusterTypeOK /\ MachineTypeOK /\ BudgetTypeOK

(* A VMID is the only handle a machine has on its VM, and ids are reused    *)
(* lowest first. What has to be true of the world for that handle to stay   *)
(* good: nobody deletes a pool VM by hand, the record of a failed Create    *)
(* does not outlive its rolled-back VM, no deletion takes effect without    *)
(* Remove learning of it, and no machine is given an id it did not claim.   *)
HandlesStayGood ==
  /\ ~OperatorDeletes
  /\ SaveOnFailure => KeepOnFailure
  /\ "delete" \notin Losable
  /\ \A m \in Machines : FlagVMID[m] = 0

(* The saved node stays the VM's node: driver VMs only move when the HA     *)
(* manager has them and the cluster moves HA guests.                        *)
NodesStayGood == Migration => "register" \notin Options

(* No HA entry outlives its VM: PVE refuses to destroy an HA resource, or   *)
(* an entry is never made or left behind by a call that reported an error.  *)
HAStaysClean ==
  DestroyNeedsNoHA \/ ("register" \notin Losable /\ "unregister" \notin Refusable)

(* The calls Remove only warns about take effect before the destroy call.   *)
ForceStopWorks == Refusable \cap {"unregister", "state", "kill"} = {}

(* What Create has to undo can be undone: nothing fails once the clone is   *)
(* powered on (the destroy call refuses a running guest), no clone lands    *)
(* unnoticed, and the rollback runs and its destroy call works.             *)
RollbackWorks ==
  /\ ~KeepOnFailure
  /\ Refusable \cap {"guest", "register", "cleanup"} = {}
  /\ Losable \cap {"clone", "start", "register", "cleanup"} = {}

HoldingSteps == Steps \ {"idle", "resolve", "scan", "clone"}
PreBootSteps == {"configure", "resize", "backup", "disks", "start"}
OwnedBy(m) == {id \in IDs : owner[id] = m}

(* Whatever VMID a process works on, from the clone's return to the end of  *)
(* Create and all through Remove and the power operations, names a VM this  *)
(* very machine cloned: two machines racing for the lowest free id, foreign *)
(* guests, migrations and crashes never make one process hold another's VM. *)
WorksOnOwnVM ==
  \A m \in Machines : pc[m] \in HoldingSteps => owner[d[m].vmid] = m

(* No step of one machine's process destroys, moves or switches a guest     *)
(* that is not that machine's, whichever way Create, Rollback and Remove    *)
(* interleave (every driver step moves its own pc).                         *)
ActsOnlyOnOwnVM ==
  [][\A m \in Machines, id \in IDs :
       pc'[m] # pc[m] /\ owner[id] \notin {m, None}
         => /\ owner'[id] = owner[id]
            /\ host'[id] = host[id]
            /\ running'[id] = running[id]]_vars

(* A machine in service is one whose saved record leads to its own VM: the  *)
(* id is right, the VM is on the saved node, and it is an HA resource when  *)
(* pve-ha asked for that (flags.md, "the right node").                      *)
InServiceIsReachable ==
  \A m \in Machines :
    phase[m] = "active" =>
      /\ OwnedBy(m) = {rec[m].vmid}
      /\ FoundAt(rec[m].vmid, rec[m].node)
      /\ "register" \in Options => rec[m].vmid \in ha

(* Unless a process died, a Create that has failed and a Remove that has    *)
(* succeeded both leave no VM of the machine anywhere in the cluster        *)
(* (Create: "so a failed Create never leaves an orphan").                   *)
NoOrphan ==
  crashes = 0 => \A m \in Machines :
    phase[m] \in {"failed", "gone"} => OwnedBy(m) = {}

(* The part of it that Remove alone promises: a machine Rancher forgets has *)
(* no VM left behind (flags.md, "does not leave running VMs behind").       *)
ForgottenIsGone ==
  \A m \in Machines : phase[m] = "gone" => OwnedBy(m) = {}

(* resources.cfg names no VMID without a VM, so no later machine inherits   *)
(* an entry: Create registers last and Remove unregisters first.            *)
HAEntriesNameLiveVMs ==
  \A id \in ha : owner[id] \in Machines

(* A fresh clone is never booted before Configure, the resize and the data  *)
(* disks are through, not even by the HA manager.                           *)
NotBootedHalfConfigured ==
  \A m \in Machines : pc[m] \in PreBootSteps => ~running[d[m].vmid]

(* Once Remove has force-stopped the VM it is down when the destroy call    *)
(* goes out: nothing restarts what the driver stopped.                      *)
DownWhenDeleted ==
  \A m \in Machines : pc[m] = "delete" => ~running[d[m].vmid]

(* Losing the race for an id, or picking one the token cannot see, is       *)
(* harmless: with nothing else going wrong Create gives up only when the    *)
(* range is full (rancher-setup.md, "In practice this is harmless").        *)
CollisionIsHarmless ==
  \A m \in Machines :
    phase[m] = "failed" /\ faults = 0 /\ crashes = 0
      => \A id \in Range : Exists(id)

(* Create ends, whatever fails: every loop in it is bounded.                *)
CreateEnds ==
  \A m \in Machines : phase[m] = "creating" ~> phase[m] \in {"active", "failed"}

(* A deletion Rancher keeps retrying ends, also when the VM is already gone *)
(* or the HA manager has restarted it in between.                           *)
RemoveEnds ==
  \A m \in Machines : phase[m] = "deleting" ~> phase[m] = "gone"

-----------------------------------------------------------------------------
(* The promise to Rancher, and the VM a machine has under it.               *)
VMOf(m) == IF OwnedBy(m) = {} THEN 0 ELSE CHOOSE id \in OwnedBy(m) : TRUE

Service == INSTANCE MachineService WITH
  VMIDs <- IDs, status <- phase, vm <- [m \in Machines |-> VMOf(m)],
  died <- crashes

(* The interleaved, failing, retrying driver implements that promise.       *)
ImplementsService == Service!Spec
=============================================================================
