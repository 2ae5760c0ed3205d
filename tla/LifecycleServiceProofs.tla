----------------------- MODULE LifecycleServiceProofs -----------------------
(***************************************************************************)
(* What Rancher and the HA manager may rely on, for every value of the     *)
(* constants: no HA entry without a VM, no VM booted before it is          *)
(* configured or left running when it is destroyed, a machine in service   *)
(* reachable through its record, no orphan, and the refinement of          *)
(* MachineService. Each result names the premises it needs; the runs of    *)
(* TLC that violate a property each break one of them.                     *)
(***************************************************************************)
EXTENDS LifecycleProofs

USE DEF Unaffected, clusterVars, machineVars

-----------------------------------------------------------------------------
(* Every step of a machine's process has one of the forms below, written in *)
(* terms of the values it leaves in that machine's own variables. The later *)
(* proofs reason about the forms only.                                      *)
Claiming == {"resolve", "scan", "clone"}
FinalizeSteps == PreBootSteps \cup {"guest", "register"}

Now(m, step, ph, r, h) ==
  pc'[m] = step /\ phase'[m] = ph /\ rec'[m] = r /\ d'[m] = h

Continues(m, step) == Now(m, step, phase[m], rec[m], d[m])

Stops(m, ph, r) ==
  pc'[m] = "idle" /\ phase'[m] = ph /\ rec'[m] = r

Fails(m) == Stops(m, "failed", IF SaveOnFailure THEN d[m] ELSE rec[m])

Destroys(m) ==
  Reaches(m) /\ Destroyable(d[m].vmid) /\ DestroyGuest(d[m].vmid)

Lands(m) ==
  /\ ~Exists(pick[m]) /\ UNCHANGED ha
  /\ \E node \in Candidates :
       /\ PutGuest(pick[m], m, node, FALSE)
       /\ \/ Now(m, "configure", phase[m], rec[m],
                    [vmid |-> pick[m], node |-> node])
          \/ "clone" \in Losable /\ Fails(m)

ClaimForm(m) ==
  \/ phase[m] = "new" /\ Unaffected /\ Now(m, "resolve", "creating", rec[m], rec[m])
  \/ /\ pc[m] \in Claiming /\ Unaffected
     /\ Fails(m) \/ \E step \in {"scan", "clone"} : Continues(m, step)
  \/ pc[m] = "clone" /\ Lands(m)

BootForm(m) ==
  /\ pc[m] = "start"
  /\ \/ Unaffected /\ Continues(m, "rollback")
     \/ /\ SetPower(d[m].vmid, TRUE)
        /\ \/ Continues(m, After("start"))
           \/ "start" \in Losable /\ Continues(m, "rollback")

RegisterForm(m) ==
  /\ pc[m] = "register" /\ UNCHANGED <<owner, host, running>>
  /\ \/ /\ UNCHANGED ha /\ Continues(m, "rollback")
        /\ "register" \in Refusable \/ ~Exists(d[m].vmid) \/ d[m].vmid \in ha
     \/ /\ ha' = ha \cup {d[m].vmid}
        /\ \/ Continues(m, After("register"))
           \/ "register" \in Losable /\ Continues(m, "rollback")

FinalizeForm(m) ==
  \/ /\ pc[m] \in PreBootSteps \ {"start"} /\ Unaffected
     /\ Continues(m, "rollback") \/ Continues(m, After(pc[m]))
  \/ BootForm(m)
  \/ /\ pc[m] = "guest" /\ Unaffected
     /\ \/ /\ Continues(m, "rollback")
           /\ "guest" \in Refusable \/ ~Reaches(m) \/ ~running[d[m].vmid]
        \/ Continues(m, After("guest"))
  \/ RegisterForm(m)
  \/ pc[m] = "return" /\ Unaffected /\ Stops(m, "active", d[m])
  \/ /\ pc[m] = "rollback" /\ Fails(m)
     /\ \/ ~KeepOnFailure /\ Destroys(m)
        \/ /\ Unaffected
           /\ \/ KeepOnFailure \/ "cleanup" \in Refusable
              \/ ~Reaches(m) \/ ~Destroyable(d[m].vmid)

RemoveForm(m) ==
  \/ /\ pc[m] = "idle" /\ phase[m] \in {"active", "failed", "deleting"}
     /\ Unaffected
     /\ \/ rec[m].vmid = 0 /\ Stops(m, "gone", NoRecord)
        \/ \E node \in IF rec[m].node = NoNode THEN Candidates
                                               ELSE {rec[m].node} :
             /\ rec[m].vmid # 0
             /\ Now(m, IF "register" \in Options THEN "unregister" ELSE "state",
                    "deleting", rec[m], [vmid |-> rec[m].vmid, node |-> node])
  \/ /\ pc[m] = "unregister" /\ Continues(m, "state")
     /\ UNCHANGED <<owner, host, running>>
     /\ ha' = ha \ {d[m].vmid} \/ ("unregister" \in Refusable /\ UNCHANGED ha)
  \/ /\ pc[m] = "state" /\ Unaffected
     /\ \/ Continues(m, "kill")
        \/ /\ Continues(m, "delete")
           /\ "state" \in Refusable \/ ~Reaches(m) \/ ~running[d[m].vmid]
  \/ /\ pc[m] = "kill" /\ Continues(m, "delete")
     /\ \/ SetPower(d[m].vmid, FALSE)
        \/ Unaffected /\ ("kill" \in Refusable \/ ~Reaches(m))
  \/ /\ pc[m] = "delete"
     /\ \/ Stops(m, "gone", NoRecord) /\ (Destroys(m) \/ (~Reaches(m) /\ Unaffected))
        \/ /\ Stops(m, "deleting", rec[m])
           /\ Unaffected \/ ("delete" \in Losable /\ Destroys(m))

PowerForm(m) ==
  \/ /\ pc[m] = "idle" /\ phase[m] = "active" /\ Unaffected
     /\ \E step \in {"read_state", "power_off"} :
          Now(m, step, phase[m], rec[m], rec[m])
  \/ /\ pc[m] \in PowerSteps /\ Unaffected
     /\ Continues(m, "power_on") \/ Stops(m, phase[m], rec[m])
  \/ /\ pc[m] \in PowerSteps /\ Stops(m, phase[m], rec[m])
     /\ \E on \in BOOLEAN : SetPower(d[m].vmid, on)

DeathForm(m) ==
  /\ pc[m] # "idle" /\ Unaffected /\ crashes' = crashes + 1
  /\ Stops(m, IF phase[m] = "creating" THEN "failed" ELSE phase[m], rec[m])

LEMMA GotoValues ==
  ASSUME MachineTypeOK, NEW m \in Machines, NEW step, Goto(m, step)
  PROVE  Continues(m, step)
BY DEF MachineTypeOK, Goto, Continues, Now

LEMMA EndsValues ==
  ASSUME MachineTypeOK, NEW m \in Machines, NEW ph, NEW r, Ends(m, ph, r)
  PROVE  Stops(m, ph, r)
BY DEF MachineTypeOK, Ends, Stops

LEMMA FailsValues ==
  ASSUME MachineTypeOK, NEW m \in Machines, CreateFails(m)
  PROVE  Fails(m)
BY EndsValues DEF CreateFails, Fails

LEMMA ClaimForms ==
  ASSUME TypeInv, NEW m \in Machines,
         BeginCreate(m) \/ Resolve(m) \/ Scan(m) \/ Clone(m)
  PROVE  ClaimForm(m)
<1>0. MachineTypeOK
  BY DEF TypeInv, TypeOK
<1>1. CASE BeginCreate(m)
  BY <1>0, <1>1 DEF BeginCreate, MachineTypeOK, ClaimForm, Now
<1>2. CASE Resolve(m)
  <2>1. CASE CreateFails(m)
    BY <1>0, <1>2, <2>1, FailsValues DEF Resolve, ClaimForm, Claiming
  <2>2. CASE ~CreateFails(m)
    <3>1. \E step \in {"scan", "clone"} : Continues(m, step)
      BY <1>0, <1>2, <2>2 DEF Resolve, MachineTypeOK, Continues, Now
    <3>2. QED
      BY <1>2, <3>1 DEF Resolve, ClaimForm, Claiming
  <2>3. QED
    BY <2>1, <2>2
<1>3. CASE Scan(m)
  <2>1. CASE CreateFails(m)
    BY <1>0, <1>3, <2>1, FailsValues DEF Scan, ClaimForm, Claiming
  <2>2. CASE ~CreateFails(m)
    <3>1. Continues(m, "clone")
      BY <1>0, <1>3, <2>2 DEF Scan, MachineTypeOK, Continues, Now
    <3>2. QED
      BY <1>3, <3>1 DEF Scan, ClaimForm, Claiming
  <2>3. QED
    BY <2>1, <2>2
<1>4. CASE Clone(m)
  <2>1. CASE CloneLands(m)
    <3>1. Lands(m)
      BY <1>0, <2>1 DEF CloneLands, MachineTypeOK, Lands, Now
    <3>2. QED
      BY <1>4, <3>1 DEF Clone, ClaimForm
  <2>2. CASE CloneTaken(m)
    <3>1. Fails(m) \/ Continues(m, "scan")
      <4>1. CASE CreateFails(m)
        BY <1>0, <4>1, FailsValues
      <4>2. CASE ~CreateFails(m)
        BY <1>0, <2>2, <4>2 DEF CloneTaken, MachineTypeOK, Continues, Now
      <4>3. QED
        BY <4>1, <4>2
    <3>2. QED
      BY <1>4, <2>2, <3>1 DEF Clone, CloneTaken, ClaimForm, Claiming
  <2>3. CASE CloneErrors(m)
    <3>1. Fails(m)
      BY <1>0, <2>3, FailsValues DEF CloneErrors
    <3>2. Unaffected \/ Lands(m)
      BY <2>3, <3>1 DEF CloneErrors, Fault, Lands
    <3>3. QED
      BY <1>4, <3>1, <3>2 DEF Clone, ClaimForm, Claiming
  <2>4. QED
    BY <1>4, <2>1, <2>2, <2>3 DEF Clone
<1>5. QED
  BY <1>1, <1>2, <1>3, <1>4

LEMMA FinalizeForms ==
  ASSUME TypeInv, NEW m \in Machines,
         \/ Prepare(m) \/ StartVM(m) \/ WaitForGuest(m) \/ AddHAResource(m)
         \/ CreateReturns(m) \/ Rollback(m)
  PROVE  FinalizeForm(m)
<1>0. MachineTypeOK
  BY DEF TypeInv, TypeOK
<1>a. Advance(m) => Continues(m, After(pc[m]))
  BY <1>0, GotoValues DEF Advance
<1>b. StepFails(m) => Continues(m, "rollback")
  BY <1>0, GotoValues DEF StepFails
<1>1. CASE Prepare(m)
  BY <1>1, <1>a, <1>b DEF Prepare, FinalizeForm, PreBootSteps
<1>2. CASE StartVM(m)
  <2>1. BootForm(m)
    BY <1>2, <1>a, <1>b DEF StartVM, BootForm, Fault
  <2>2. QED
    BY <2>1 DEF FinalizeForm
<1>3. CASE WaitForGuest(m)
  BY <1>3, <1>a, <1>b DEF WaitForGuest, FinalizeForm, Fault
<1>4. CASE AddHAResource(m)
  <2>1. RegisterForm(m)
    BY <1>4, <1>a, <1>b DEF AddHAResource, RegisterForm, Fault
  <2>2. QED
    BY <2>1 DEF FinalizeForm
<1>5. CASE CreateReturns(m)
  BY <1>0, <1>5, EndsValues DEF CreateReturns, FinalizeForm
<1>6. CASE Rollback(m)
  <2>1. Fails(m)
    BY <1>0, <1>6, FailsValues DEF Rollback
  <2>2. \/ ~KeepOnFailure /\ Destroys(m)
        \/ /\ Unaffected
           /\ \/ KeepOnFailure \/ "cleanup" \in Refusable
              \/ ~Reaches(m) \/ ~Destroyable(d[m].vmid)
    BY <1>6 DEF Rollback, RemoveSucceeds, RemoveErrors, Fault, Destroys
  <2>3. QED
    BY <1>6, <2>1, <2>2 DEF Rollback, FinalizeForm
<1>7. QED
  BY <1>1, <1>2, <1>3, <1>4, <1>5, <1>6

LEMMA RemoveForms ==
  ASSUME TypeInv, NEW m \in Machines,
         BeginRemove(m) \/ RemoveNothing(m) \/ Remove(m)
  PROVE  RemoveForm(m)
<1>0. MachineTypeOK
  BY DEF TypeInv, TypeOK
<1>1. CASE BeginRemove(m)
  <2>1. PICK node \in IF rec[m].node = NoNode THEN Candidates
                                              ELSE {rec[m].node} :
          Now(m, IF "register" \in Options THEN "unregister" ELSE "state",
              "deleting", rec[m], [vmid |-> rec[m].vmid, node |-> node])
    BY <1>0, <1>1 DEF BeginRemove, MachineTypeOK, Now
  <2>2. QED
    BY <1>1, <2>1 DEF BeginRemove, RemoveForm
<1>2. CASE RemoveNothing(m)
  BY <1>0, <1>2, EndsValues DEF RemoveNothing, RemoveForm
<1>3. CASE RemoveHAResource(m)
  BY <1>0, <1>3, GotoValues DEF RemoveHAResource, Fault, RemoveForm
<1>4. CASE ReadStateForRemove(m)
  BY <1>0, <1>4, GotoValues DEF ReadStateForRemove, Fault, RemoveForm
<1>5. CASE Kill(m)
  BY <1>0, <1>5, GotoValues DEF Kill, Fault, RemoveForm
<1>6. CASE Delete(m)
  <2>1. Ends(m, "gone", NoRecord) => Stops(m, "gone", NoRecord)
    BY <1>0, EndsValues
  <2>2. Ends(m, "deleting", rec[m]) => Stops(m, "deleting", rec[m])
    BY <1>0, EndsValues
  <2>3. RemoveSucceeds(m) => Destroys(m) \/ (~Reaches(m) /\ Unaffected)
    BY DEF RemoveSucceeds, Destroys
  <2>4. RemoveErrors(m, "delete")
          => Unaffected \/ ("delete" \in Losable /\ Destroys(m))
    BY DEF RemoveErrors, Fault, Destroys
  <2>5. QED
    BY <1>6, <2>1, <2>2, <2>3, <2>4 DEF Delete, RemoveForm
<1>7. QED
  BY <1>1, <1>2, <1>3, <1>4, <1>5, <1>6 DEF Remove

LEMMA PowerForms ==
  ASSUME TypeInv, NEW m \in Machines,
         \/ \E step \in {"read_state", "power_off"} : BeginPower(m, step)
         \/ PowerOp(m)
  PROVE  PowerForm(m)
<1>0. MachineTypeOK
  BY DEF TypeInv, TypeOK
<1>1. ASSUME NEW step \in {"read_state", "power_off"}, BeginPower(m, step)
      PROVE  PowerForm(m)
  <2>1. Now(m, step, phase[m], rec[m], rec[m])
    BY <1>0, <1>1 DEF BeginPower, MachineTypeOK, Now
  <2>2. QED
    BY <1>1, <2>1 DEF BeginPower, PowerForm
<1>2. PowerDone(m) => Stops(m, phase[m], rec[m])
  BY <1>0, EndsValues DEF PowerDone
<1>3. CASE ReadStateForStart(m)
  BY <1>0, <1>2, <1>3, GotoValues DEF ReadStateForStart, PowerForm, PowerSteps
<1>4. CASE Power(m)
  BY <1>2, <1>4 DEF Power, PowerForm, PowerSteps
<1>5. QED
  BY <1>1, <1>3, <1>4 DEF PowerOp

LEMMA StepForms ==
  ASSUME TypeInv, NEW m \in Machines, Step(m)
  PROVE  \/ ClaimForm(m) \/ FinalizeForm(m) \/ RemoveForm(m)
         \/ PowerForm(m) \/ DeathForm(m)
<1>1. CASE Crash(m)
  BY <1>1, EndsValues DEF TypeInv, TypeOK, Crash, DeathForm
<1>2. CASE ~Crash(m)
  BY <1>2, ClaimForms, FinalizeForms, RemoveForms, PowerForms
     DEF Step, Rancher, Driver, Create
<1>3. QED
  BY <1>1, <1>2

(* Where finalizeCreate goes next: nothing before the start follows it, the *)
(* guest is waited for right after the start, and with pve-ha Create only   *)
(* returns from the registration.                                           *)
LEMMA AfterIsNext ==
  ASSUME NEW step \in FinalizeSteps
  PROVE  /\ After(step) \in Requested
         /\ Rank[After(step)] > Rank[step]
         /\ \A t \in Requested : Rank[t] > Rank[step]
                                   => Rank[After(step)] <= Rank[t]
<1> DEFINE Next1(s) ==
             /\ Rank[s] > Rank[step]
             /\ \A t \in Requested : Rank[t] > Rank[step] => Rank[s] <= Rank[t]
<1>1. \A s \in Requested : s \in DOMAIN Rank
  BY LifecycleAssumption DEF Requested, Rank
<1>2. \E s \in Requested : Next1(s)
  BY <1>1, LifecycleAssumption DEF Requested, Rank, FinalizeSteps, PreBootSteps
<1>3. QED
  BY <1>2 DEF After

LEMMA AfterPlace ==
  ASSUME NEW step \in FinalizeSteps
  PROVE  /\ After(step) \in (HoldingSteps \cap CreateSteps) \ {"rollback"}
         /\ After(step) \in PreBootSteps => step \in PreBootSteps \ {"start"}
         /\ After(step) = "guest" => step = "start"
         /\ After(step) = "register" => "register" \in Options
         /\ "register" \in Options /\ After(step) = "return"
              => step = "register"
         /\ step = "register" => After(step) = "return"
<1>1. /\ After(step) \in Requested
      /\ Rank[After(step)] > Rank[step]
      /\ \A t \in Requested : Rank[t] > Rank[step]
                                => Rank[After(step)] <= Rank[t]
  BY AfterIsNext
<1>2. {"start", "return"} \subseteq Requested
  BY DEF Requested
<1>3. Options \subseteq {"resize", "backup", "disks", "guest", "register"}
  BY LifecycleAssumption
<1>4. After(step) \in (HoldingSteps \cap CreateSteps) \ {"rollback"}
  BY <1>1, <1>3 DEF Requested, HoldingSteps, Steps, CreateSteps
<1>5. After(step) \in PreBootSteps => step \in PreBootSteps \ {"start"}
  BY <1>1 DEF Rank, FinalizeSteps, PreBootSteps
<1>6. After(step) = "guest" => step = "start"
  BY <1>1, <1>2 DEF Rank, FinalizeSteps, PreBootSteps
<1>7. After(step) = "register" => "register" \in Options
  BY <1>1 DEF Requested
<1>8. "register" \in Options /\ After(step) = "return" => step = "register"
  <2>1. "register" \in Options => "register" \in Requested
    BY DEF Requested
  <2>2. QED
    BY <1>1, <2>1 DEF Rank, FinalizeSteps, PreBootSteps
<1>9. step = "register" => After(step) = "return"
  <2>1. \A s \in Requested \ {"return"} : Rank[s] <= Rank["register"]
    BY <1>3 DEF Rank, Requested
  <2>2. QED
    <3>1. Rank["register"] = 7 /\ \A s \in Requested : Rank[s] \in Int
      BY <1>3 DEF Rank, Requested
    <3>2. QED
      BY <1>1, <2>1, <3>1
<1>10. QED
  BY <1>4, <1>5, <1>6, <1>7, <1>8, <1>9

(* The steps by name, for the case splits below.                            *)
LEMMA HoldingFacts ==
  /\ {"idle", "resolve", "scan", "clone"} \cap HoldingSteps = {}
  /\ FinalizeSteps \cup {"return", "rollback"}
       = HoldingSteps \cap CreateSteps
  /\ {"unregister", "state", "kill", "delete"} = RemoveSteps
  /\ {"read_state", "power_on", "power_off"} = PowerSteps
  /\ HoldingSteps = (HoldingSteps \cap CreateSteps) \cup RemoveSteps
                       \cup PowerSteps
  /\ CreateSteps = (HoldingSteps \cap CreateSteps) \cup Claiming
  /\ CreateSteps \cap (RemoveSteps \cup PowerSteps) = {}
  /\ RemoveSteps \cap PowerSteps = {}
  /\ "idle" \notin CreateSteps \cup RemoveSteps \cup PowerSteps
BY DEF HoldingSteps, Steps, CreateSteps, RemoveSteps, PowerSteps, Claiming,
       FinalizeSteps, PreBootSteps

-----------------------------------------------------------------------------
(* One VM for a machine. This needs no premise at all: only a clone makes   *)
(* a VM the machine's, and a machine clones at most once in its life.       *)
SingleAt(m) ==
  /\ \A i, j \in IDs : owner[i] = m /\ owner[j] = m => i = j
  /\ phase[m] = "new" \/ pc[m] \in Claiming => \A id \in IDs : owner[id] # m

SingleInv == \A m \in Machines : SingleAt(m)

(* Only the claim makes a VM somebody's.                                    *)
LEMMA StepOwners ==
  ASSUME TypeInv, NEW m \in Machines, Step(m), NEW id \in IDs
  PROVE  \/ owner'[id] \in {owner[id], None}
         \/ pc[m] = "clone" /\ Lands(m) /\ id = pick[m] /\ owner'[id] = m
<1> USE DEF TypeInv, TypeOK, ClusterTypeOK
<1>1. CASE ClaimForm(m)
  BY <1>1 DEF ClaimForm, Lands, PutGuest
<1>2. CASE FinalizeForm(m)
  BY <1>2 DEF FinalizeForm, BootForm, RegisterForm, Destroys, DestroyGuest,
              PutGuest, SetPower
<1>3. CASE RemoveForm(m)
  BY <1>3 DEF RemoveForm, Destroys, DestroyGuest, PutGuest, SetPower
<1>4. CASE PowerForm(m) \/ DeathForm(m)
  BY <1>4 DEF PowerForm, DeathForm, SetPower
<1>5. QED
  BY <1>1, <1>2, <1>3, <1>4, StepForms

(* A process is never set back to before its clone.                         *)
LEMMA StepClaims ==
  ASSUME TypeInv, NEW m \in Machines, Step(m)
  PROVE  /\ phase'[m] # "new"
         /\ pc'[m] \in Claiming
              => (phase[m] = "new" \/ pc[m] \in Claiming) /\ owner' = owner
<1> USE HoldingFacts DEF Now, Continues, Stops, Fails, Claiming
<1>0. /\ pc[m] \in CreateSteps => phase[m] = "creating"
      /\ pc[m] \in RemoveSteps => phase[m] = "deleting"
      /\ pc[m] \in PowerSteps => phase[m] = "active"
      /\ pc[m] \in Steps
  BY DEF TypeInv, TypeOK, MachineTypeOK, HandleOK
<1>1. CASE ClaimForm(m)
  BY <1>0, <1>1 DEF ClaimForm, Lands, CreateSteps
<1>2. CASE FinalizeForm(m)
  <2>1. ASSUME NEW step \in FinalizeSteps, Continues(m, After(step))
        PROVE  pc'[m] \notin Claiming
    BY <2>1, AfterPlace DEF HoldingSteps
  <2>2. phase'[m] # "new"
    BY <1>0, <1>2
       DEF FinalizeForm, BootForm, RegisterForm, PreBootSteps, CreateSteps
  <2>3. pc'[m] \notin Claiming
    BY <1>2, <2>1
       DEF FinalizeForm, BootForm, RegisterForm, PreBootSteps, FinalizeSteps
  <2>4. QED
    BY <2>2, <2>3
<1>3. CASE RemoveForm(m)
  BY <1>0, <1>3 DEF RemoveForm
<1>4. CASE PowerForm(m)
  BY <1>0, <1>4 DEF PowerForm
<1>5. CASE DeathForm(m)
  BY <1>0, <1>5 DEF DeathForm, Steps
<1>6. QED
  BY <1>1, <1>2, <1>3, <1>4, <1>5, StepForms

LEMMA EnvironmentOwners ==
  ASSUME TypeInv, Environment, NEW id \in IDs, owner'[id] \in Machines
  PROVE  owner'[id] = owner[id]
<1> USE ClusterAssumption DEF TypeInv, TypeOK, ClusterTypeOK
<1>1. ASSUME NEW other \in IDs,
             ForeignDestroy(other) \/ OperatorDestroy(other)
      PROVE  owner'[id] = owner[id]
  BY <1>1 DEF ForeignDestroy, OperatorDestroy, DestroyGuest, PutGuest
<1>2. ASSUME NEW other \in IDs, ForeignCreate(other)
      PROVE  owner'[id] = owner[id]
  BY <1>2 DEF ForeignCreate, PutGuest
<1>3. ASSUME NEW other \in IDs,
             HARestart(other) \/ \E node \in Nodes : HAMigrate(other, node)
      PROVE  owner'[id] = owner[id]
  BY <1>3 DEF HARestart, HAMigrate, SetPower
<1>4. QED
  BY <1>1, <1>2, <1>3 DEF Environment

LEMMA SingleStep == TypeInv /\ SingleInv /\ [Next]_vars => SingleInv'
<1> SUFFICES ASSUME TypeInv, SingleInv, [Next]_vars
             PROVE  SingleInv'
  OBVIOUS
<1>1. CASE UNCHANGED vars
  BY <1>1 DEF vars, SingleInv, SingleAt
<1>2. ASSUME NEW m \in Machines, Step(m)
      PROVE  SingleInv'
  <2>1. \A id \in IDs : owner'[id] # None /\ owner'[id] # m
                           => owner'[id] = owner[id]
    BY <1>2, StepOwners
  <2>2. ASSUME NEW n \in Machines \ {m}
        PROVE  SingleAt(n)'
    <3>1. pc'[n] = pc[n] /\ phase'[n] = phase[n]
      BY <1>2, StepMovesOwn
    <3>2. \A id \in IDs : owner'[id] = n => owner[id] = n
      BY <2>1, ClusterAssumption
    <3>3. QED
      BY <3>1, <3>2 DEF SingleInv, SingleAt
  <2>3. SingleAt(m)'
    <3>1. CASE pc[m] = "clone" /\ Lands(m)
      <4>1. \A id \in IDs : owner[id] # m
        BY <3>1 DEF SingleInv, SingleAt, Claiming
      <4>2. \A id \in IDs : owner'[id] = m => id = pick[m]
        BY <1>2, <4>1, StepOwners, ClusterAssumption
      <4>3. pick[m] \in IDs /\ owner'[pick[m]] = m /\ owner[pick[m]] # m
        BY <3>1, <4>1 DEF TypeInv, TypeOK, ClusterTypeOK, HandleOK, Lands,
                          PutGuest
      <4>4. phase'[m] # "new" /\ pc'[m] \notin Claiming
        BY <1>2, <4>3, StepClaims
      <4>5. QED
        BY <4>2, <4>4 DEF SingleAt
    <3>2. CASE ~(pc[m] = "clone" /\ Lands(m))
      <4>1. \A id \in IDs : owner'[id] = m => owner[id] = m
        BY <1>2, <3>2, StepOwners, ClusterAssumption
      <4>2. phase'[m] # "new"
            /\ (pc'[m] \in Claiming => phase[m] = "new" \/ pc[m] \in Claiming)
        BY <1>2, StepClaims
      <4>3. QED
        BY <4>1, <4>2 DEF SingleInv, SingleAt
    <3>3. QED
      BY <3>1, <3>2
  <2>4. QED
    BY <2>2, <2>3 DEF SingleInv
<1>3. CASE Environment
  <2>1. pc' = pc /\ phase' = phase
    BY <1>3 DEF Environment
  <2>2. \A id \in IDs : owner'[id] \in Machines => owner'[id] = owner[id]
    BY <1>3, EnvironmentOwners
  <2>3. QED
    BY <2>1, <2>2 DEF SingleInv, SingleAt
<1>4. QED
  BY <1>1, <1>2, <1>3 DEF Next, Step

LEMMA SingleInit == Init => SingleInv
BY ClusterAssumption DEF Init, ClusterInit, SingleInv, SingleAt, Claiming

-----------------------------------------------------------------------------
(* What a step of one machine, or of the environment, leaves alone of a     *)
(* machine n: with it, each invariant below is only proved for the machine  *)
(* that moves.                                                              *)
SameProcess(n) ==
  pc'[n] = pc[n] /\ phase'[n] = phase[n] /\ rec'[n] = rec[n] /\ d'[n] = d[n]

Spared(n) ==
  /\ SameProcess(n)
  /\ \A id \in IDs : owner[id] = n =>
       /\ owner'[id] = n /\ host'[id] = host[id] /\ running'[id] = running[id]
       /\ id \in ha' <=> id \in ha

LEMMA StepTouchesHA ==
  ASSUME TypeInv, NEW m \in Machines, Step(m), NEW id
  PROVE  \/ id \in ha' <=> id \in ha
         \/ pc[m] = "register" /\ id = d[m].vmid
         \/ pc[m] = "unregister" /\ id = d[m].vmid /\ id \notin ha'
<1>1. CASE ClaimForm(m) \/ PowerForm(m) \/ DeathForm(m)
  BY <1>1 DEF ClaimForm, Lands, PowerForm, DeathForm, SetPower
<1>2. CASE FinalizeForm(m)
  BY <1>2 DEF FinalizeForm, BootForm, RegisterForm, Destroys, DestroyGuest,
              SetPower
<1>3. CASE RemoveForm(m)
  BY <1>3 DEF RemoveForm, Destroys, DestroyGuest, SetPower
<1>4. QED
  BY <1>1, <1>2, <1>3, StepForms

LEMMA StepSpares ==
  ASSUME TypeInv, OwnInv, NEW m \in Machines, Step(m), NEW n \in Machines \ {m}
  PROVE  Spared(n)
<1>1. SameProcess(n)
  BY StepMovesOwn DEF SameProcess
<1>2. ASSUME NEW id \in IDs, owner[id] = n
      PROVE  /\ owner'[id] = n /\ host'[id] = host[id]
             /\ running'[id] = running[id]
             /\ id \in ha' <=> id \in ha
  <2>1. owner[id] \notin {m, None}
    BY <1>2, ClusterAssumption
  <2>2. Untouched(id)
    BY <2>1, StepTouchesOwn
  <2>3. pc[m] \in {"register", "unregister"} => owner[d[m].vmid] = m
    BY DEF OwnInv, OwnsAt, HoldingSteps, Steps, CreateSteps, RemoveSteps
  <2>4. id \in ha' <=> id \in ha
    BY <2>1, <2>3, StepTouchesHA
  <2>5. QED
    BY <1>2, <2>2, <2>4 DEF Untouched
<1>3. QED
  BY <1>1, <1>2 DEF Spared

LEMMA EnvironmentSpares ==
  ASSUME HandlesStayGood, TypeInv, Environment
  PROVE  /\ \A n \in Machines : SameProcess(n)
         /\ ha' = ha
         /\ \A id \in IDs : owner[id] \in Machines =>
              /\ owner'[id] = owner[id]
              /\ host'[id] # host[id] => Migration /\ id \in ha
              /\ running'[id] # running[id] => id \in ha
<1> USE ClusterAssumption DEF TypeInv, TypeOK, ClusterTypeOK
<1> DEFINE Mild ==
      /\ ha' = ha
      /\ \A id \in IDs : owner[id] \in Machines =>
           /\ owner'[id] = owner[id]
           /\ host'[id] # host[id] => Migration /\ id \in ha
           /\ running'[id] # running[id] => id \in ha
<1>1. ASSUME NEW other \in IDs, ForeignCreate(other) \/ ForeignDestroy(other)
      PROVE  Mild
  BY <1>1 DEF ForeignCreate, ForeignDestroy, DestroyGuest, PutGuest, Exists
<1>2. ASSUME NEW other \in IDs, HARestart(other)
      PROVE  Mild
  BY <1>2 DEF HARestart, SetPower
<1>3. ASSUME NEW other \in IDs, Migration,
             \E node \in Nodes : HAMigrate(other, node)
      PROVE  Mild
  BY <1>3 DEF HAMigrate
<1>4. Mild
  BY <1>1, <1>2, <1>3 DEF Environment, HandlesStayGood
<1>5. UNCHANGED machineVars
  BY DEF Environment
<1>6. QED
  BY <1>4, <1>5 DEF SameProcess

(* resources.cfg is only ever written to when pve-ha asks for it.           *)
AskedInv ==
  /\ "register" \notin Options => ha = {}
  /\ \A m \in Machines : pc[m] = "register" => "register" \in Options

LEMMA AskedStep == TypeInv /\ AskedInv /\ [Next]_vars => AskedInv'
<1> SUFFICES ASSUME TypeInv, AskedInv, [Next]_vars
             PROVE  AskedInv'
  OBVIOUS
<1>1. CASE UNCHANGED vars
  BY <1>1 DEF vars, AskedInv
<1>2. ASSUME NEW m \in Machines, Step(m)
      PROVE  AskedInv'
  <2>1. pc'[m] = "register" => "register" \in Options
    <3> USE HoldingFacts DEF Now, Continues, Stops, Fails
    <3>1. CASE ClaimForm(m) \/ RemoveForm(m) \/ PowerForm(m) \/ DeathForm(m)
      BY <3>1 DEF ClaimForm, Lands, RemoveForm, PowerForm, DeathForm
    <3>2. CASE FinalizeForm(m)
      BY <3>2, AfterPlace
         DEF FinalizeForm, BootForm, RegisterForm, PreBootSteps, FinalizeSteps
    <3>3. QED
      BY <1>2, <3>1, <3>2, StepForms
  <2>2. ASSUME NEW n \in Machines \ {m}
        PROVE  pc'[n] = pc[n]
    BY <1>2, StepMovesOwn
  <2>3. ASSUME "register" \notin Options
        PROVE  ha' = {}
    <3>1. ASSUME NEW id \in ha'
          PROVE  FALSE
      BY <1>2, <2>3, <3>1, StepTouchesHA DEF AskedInv
    <3>2. QED
      BY <3>1
  <2>4. QED
    BY <2>1, <2>2, <2>3 DEF AskedInv
<1>3. CASE Environment
  <2>1. pc' = pc
    BY <1>3 DEF Environment
  <2>2. ha' \subseteq ha
    BY <1>3 DEF Environment, ForeignDestroy, OperatorDestroy, HARestart,
                HAMigrate, ForeignCreate, DestroyGuest, SetPower
  <2>3. QED
    BY <2>1, <2>2 DEF AskedInv
<1>4. QED
  BY <1>1, <1>2, <1>3 DEF Next, Step

LEMMA AskedInit == Init => AskedInv
BY DEF Init, ClusterInit, AskedInv

-----------------------------------------------------------------------------
(* The HA manager and the driver. An entry without a VM would be inherited  *)
(* by the next machine that gets the id, and the HA manager would boot its  *)
(* clone; so the entry list has to be clean for the boot property, and the  *)
(* driver has to know at every step whether its VM has an entry.            *)
CleanAt(m) ==
  /\ pc[m] \in FinalizeSteps => d[m].vmid \notin ha
  /\ pc[m] = "rollback" /\ "register" \notin Losable => d[m].vmid \notin ha
  /\ pc[m] \in {"state", "kill", "delete"} /\ "unregister" \notin Refusable
       => d[m].vmid \notin ha
  /\ pc[m] \in PreBootSteps => ~running[d[m].vmid]

CleanInv == HAEntriesNameLiveVMs /\ \A m \in Machines : CleanAt(m)

LEMMA CleanAtStep ==
  ASSUME TypeInv, OwnInv, AskedInv, CleanInv, NEW m \in Machines, Step(m)
  PROVE  CleanAt(m)'
<1> USE HoldingFacts
    DEF Now, Continues, Stops, Fails, CleanAt, TypeInv, TypeOK, ClusterTypeOK
<1>0. /\ CleanAt(m)
      /\ pc[m] \in HoldingSteps => d[m].vmid \in IDs
      /\ PreBootSteps \subseteq FinalizeSteps
      /\ {"rollback", "state", "kill", "delete", "return", "idle"}
           \cap FinalizeSteps = {}
  BY DEF CleanInv, HandleOK, FinalizeSteps, PreBootSteps
<1>1. CASE ClaimForm(m)
  <2>1. CASE pc'[m] \in {"resolve", "scan", "clone", "idle"}
    BY <1>0, <2>1
  <2>2. CASE pc[m] = "clone" /\ Lands(m) /\ ~Fails(m)
    <3>1. /\ d'[m].vmid = pick[m] /\ pc'[m] = "configure" /\ ha' = ha
          /\ running' = [running EXCEPT ![pick[m]] = FALSE]
          /\ owner[pick[m]] = None
      BY <2>2 DEF Lands, PutGuest, Exists
    <3>2. pick[m] \in IDs
      BY <2>2 DEF HandleOK
    <3>3. pick[m] \notin ha
      BY <3>1, ClusterAssumption DEF CleanInv, HAEntriesNameLiveVMs
    <3>4. QED
      BY <3>1, <3>2, <3>3
  <2>3. QED
    BY <1>1, <2>1, <2>2 DEF ClaimForm
<1>2. CASE FinalizeForm(m)
  <2>1. CASE pc[m] \in PreBootSteps \ {"start"} /\ Unaffected
               /\ (Continues(m, "rollback") \/ Continues(m, After(pc[m])))
    BY <1>0, <2>1
  <2>2. CASE BootForm(m)
    BY <1>0, <2>2, AfterPlace DEF BootForm, SetPower, FinalizeSteps, PreBootSteps
  <2>3. CASE pc[m] = "guest" /\ Unaffected
               /\ (Continues(m, "rollback") \/ Continues(m, After("guest")))
    BY <1>0, <2>3, AfterPlace DEF FinalizeSteps
  <2>4. CASE RegisterForm(m)
    <3>1. CASE ha' = ha /\ Continues(m, "rollback")
      BY <1>0, <2>4, <3>1 DEF RegisterForm, FinalizeSteps
    <3>2. CASE Continues(m, "return")
      BY <1>0, <3>2
    <3>3. CASE Continues(m, "rollback") /\ "register" \in Losable
      BY <1>0, <3>3
    <3>4. QED
      BY <2>4, <3>1, <3>2, <3>3, AfterPlace DEF RegisterForm, FinalizeSteps
  <2>5. CASE pc'[m] = "idle"
    BY <1>0, <2>5
  <2>6. QED
    BY <1>2, <2>1, <2>2, <2>3, <2>4, <2>5 DEF FinalizeForm
<1>3. CASE RemoveForm(m)
  <2>1. CASE pc'[m] = "idle"
    BY <1>0, <2>1
  <2>2. CASE pc[m] = "idle" /\ pc'[m] # "idle"
    <3>1. pc'[m] = IF "register" \in Options THEN "unregister" ELSE "state"
      BY <1>3, <2>2 DEF RemoveForm
    <3>2. ha' = ha
      BY <1>3, <2>2 DEF RemoveForm
    <3>3. QED
      BY <1>0, <3>1, <3>2 DEF AskedInv
  <2>3. CASE pc[m] = "unregister"
    BY <1>0, <1>3, <2>3 DEF RemoveForm
  <2>4. CASE pc[m] \in {"state", "kill"}
    BY <1>0, <1>3, <2>4 DEF RemoveForm, SetPower
  <2>5. QED
    BY <1>3, <2>1, <2>2, <2>3, <2>4 DEF RemoveForm
<1>4. CASE PowerForm(m) \/ DeathForm(m)
  BY <1>0, <1>4 DEF PowerForm, DeathForm
<1>5. QED
  BY <1>1, <1>2, <1>3, <1>4, StepForms

(* No destroy call takes a VM away from under its HA entry.                 *)
LEMMA DestroysClean ==
  ASSUME HAStaysClean, CleanInv, NEW m \in Machines,
         Destroys(m), pc[m] = "rollback" \/ pc[m] = "delete"
  PROVE  d[m].vmid \notin ha
BY DEF HAStaysClean, CleanInv, CleanAt, Destroys, Destroyable

LEMMA EntriesStep ==
  ASSUME HAStaysClean, TypeInv, OwnInv, CleanInv, NEW m \in Machines, Step(m)
  PROVE  HAEntriesNameLiveVMs'
<1> USE HoldingFacts DEF TypeInv, TypeOK, ClusterTypeOK
<1> SUFFICES ASSUME NEW id \in ha'
             PROVE  owner'[id] \in Machines
  BY DEF HAEntriesNameLiveVMs
<1>0. \A i \in ha : i \in IDs /\ owner[i] \in Machines
  BY DEF CleanInv, HAEntriesNameLiveVMs
<1>1. CASE id \notin ha
  <2>1. pc[m] = "register" /\ id = d[m].vmid
    BY <1>1, StepTouchesHA
  <2>2. pc[m] \in HoldingSteps
    BY <2>1 DEF FinalizeSteps
  <2>3. id \in IDs /\ owner[id] = m
    BY <2>1, <2>2 DEF HandleOK, OwnInv, OwnsAt
  <2>4. owner' = owner
    BY <2>1, StepForms
       DEF ClaimForm, Claiming, FinalizeForm, PreBootSteps, BootForm,
           RegisterForm, RemoveForm, PowerForm, DeathForm
  <2>5. QED
    BY <2>3, <2>4
<1>2. CASE id \in ha
  <2>0. id \in IDs /\ owner[id] \in Machines /\ owner[id] # None
    BY <1>0, <1>2, ClusterAssumption
  <2>1. CASE owner' = owner
    BY <2>0, <2>1
  <2>2. CASE Lands(m)
    BY <2>0, <2>2 DEF Lands, PutGuest, Exists
  <2>3. CASE Destroys(m) /\ pc[m] \in {"rollback", "delete"}
    <3>1. d[m].vmid # id
      BY <1>2, <2>3, DestroysClean
    <3>2. owner' = [owner EXCEPT ![d[m].vmid] = None]
      BY <2>3 DEF Destroys, DestroyGuest, PutGuest
    <3>3. QED
      BY <2>0, <3>1, <3>2
  <2>4. owner' = owner \/ Lands(m)
          \/ (Destroys(m) /\ pc[m] \in {"rollback", "delete"})
    BY StepForms
       DEF ClaimForm, FinalizeForm, BootForm, RegisterForm, RemoveForm,
           PowerForm, DeathForm, SetPower
  <2>5. QED
    BY <2>1, <2>2, <2>3, <2>4
<1>3. QED
  BY <1>1, <1>2

LEMMA CleanStep ==
  HandlesStayGood /\ HAStaysClean /\ TypeInv /\ OwnInv /\ AskedInv /\ CleanInv
    /\ [Next]_vars => CleanInv'
<1> SUFFICES ASSUME HandlesStayGood, HAStaysClean, TypeInv, OwnInv, AskedInv,
                    CleanInv, [Next]_vars
             PROVE  CleanInv'
  OBVIOUS
<1>0. \A n \in Machines : pc[n] \in HoldingSteps
        => d[n].vmid \in IDs /\ owner[d[n].vmid] = n
  BY DEF TypeInv, HandleOK, OwnInv, OwnsAt
<1>a. /\ FinalizeSteps \cup PreBootSteps \subseteq HoldingSteps
      /\ {"rollback", "state", "kill", "delete"} \subseteq HoldingSteps
  BY HoldingFacts DEF FinalizeSteps
<1>1. CASE UNCHANGED vars
  BY <1>1 DEF vars, CleanInv, CleanAt, HAEntriesNameLiveVMs
<1>2. ASSUME NEW m \in Machines, Step(m)
      PROVE  CleanInv'
  <2>1. ASSUME NEW n \in Machines \ {m}
        PROVE  CleanAt(n)'
    BY <1>0, <1>2, <1>a, <2>1, StepSpares
       DEF Spared, SameProcess, CleanInv, CleanAt
  <2>2. QED
    BY <1>2, <2>1, CleanAtStep, EntriesStep DEF CleanInv
<1>3. CASE Environment
  <2>1. HAEntriesNameLiveVMs'
    BY <1>3, EnvironmentSpares
       DEF CleanInv, HAEntriesNameLiveVMs, TypeInv, TypeOK, ClusterTypeOK
  <2>2. ASSUME NEW n \in Machines
        PROVE  CleanAt(n)'
    <3>1. SameProcess(n) /\ ha' = ha
      BY <1>3, EnvironmentSpares
    <3>2. pc[n] \in PreBootSteps => running'[d[n].vmid] = running[d[n].vmid]
      BY <1>0, <1>3, <1>a, EnvironmentSpares
         DEF CleanInv, CleanAt, FinalizeSteps
    <3>3. QED
      BY <3>1, <3>2 DEF SameProcess, CleanInv, CleanAt
  <2>3. QED
    BY <2>1, <2>2 DEF CleanInv
<1>4. QED
  BY <1>1, <1>2, <1>3 DEF Next, Step

LEMMA CleanInit == Init => CleanInv
BY HoldingFacts
   DEF Init, ClusterInit, CleanInv, CleanAt, HAEntriesNameLiveVMs,
       FinalizeSteps, PreBootSteps

LEMMA CleanCorrect ==
  ASSUME HandlesStayGood, HAStaysClean
  PROVE  Spec => [](TypeInv /\ OwnInv /\ AskedInv /\ CleanInv)
<1>1. Init => AskedInv /\ CleanInv
  BY AskedInit, CleanInit
<1>2. TypeInv /\ OwnInv /\ AskedInv /\ CleanInv /\ [Next]_vars
        => AskedInv' /\ CleanInv'
  BY AskedStep, CleanStep
<1>3. QED
  BY <1>1, <1>2, OwnCorrect, PTL DEF Spec

(* resources.cfg never names a VMID without one of the driver's VMs, for    *)
(* any number of machines and with any other call failing.                  *)
THEOREM EntriesLive ==
  ASSUME HandlesStayGood, HAStaysClean
  PROVE  Spec => []HAEntriesNameLiveVMs
<1>1. CleanInv => HAEntriesNameLiveVMs
  BY DEF CleanInv
<1>2. QED
  BY CleanCorrect, <1>1, PTL

(* Neither the driver nor the HA manager boots a clone before Configure,    *)
(* the resize and the data disks are through.                               *)
THEOREM BootedConfigured ==
  ASSUME HandlesStayGood, HAStaysClean
  PROVE  Spec => []NotBootedHalfConfigured
<1>1. CleanInv => NotBootedHalfConfigured
  BY DEF CleanInv, CleanAt, NotBootedHalfConfigured
<1>2. QED
  BY CleanCorrect, <1>1, PTL

-----------------------------------------------------------------------------
(* Reachability. The node in the process and the node in the record both    *)
(* stay the VM's node; with pve-ha the entry exists from Create's return to *)
(* the removal.                                                             *)
PlacedAt(m) ==
  /\ pc[m] \in HoldingSteps
       => d[m].node \in Nodes /\ host[d[m].vmid] = d[m].node
  /\ rec[m].vmid # 0
       => rec[m].node \in Nodes /\ host[rec[m].vmid] = rec[m].node
  /\ "register" \in Options /\ pc[m] = "return" => d[m].vmid \in ha
  /\ "register" \in Options /\ phase[m] = "active" => rec[m].vmid \in ha

PlacedInv == \A m \in Machines : PlacedAt(m)

(* Which operation a process is in, as one fact.                            *)
LEMMA OperationOf ==
  ASSUME TypeInv, OwnInv, NEW m \in Machines
  PROVE  /\ pc[m] \in CreateSteps <=> phase[m] = "creating"
         /\ pc[m] \in RemoveSteps => phase[m] = "deleting"
         /\ pc[m] \in PowerSteps => phase[m] = "active"
         /\ pc[m] \in HoldingSteps => d[m].vmid \in IDs /\ owner[d[m].vmid] = m
         /\ rec[m].vmid # 0 => rec[m].vmid \in IDs /\ owner[rec[m].vmid] = m
         /\ phase[m] = "creating" => rec[m].vmid = 0
         /\ phase[m] \in {"active", "deleting"} => rec[m].vmid # 0
         /\ pc[m] \in Claiming => d[m].vmid = 0
BY DEF TypeInv, HandleOK, OwnInv, OwnsAt, Claiming

(* The process's VM is found where it is looked for.                        *)
LEMMA HandleReaches ==
  ASSUME TypeInv, OwnInv, PlacedInv, NEW m \in Machines,
         pc[m] \in HoldingSteps
  PROVE  Reaches(m)
BY OperationOf, ClusterAssumption DEF PlacedInv, PlacedAt, Reaches, FoundAt, Exists

LEMMA PlacedAtStep ==
  ASSUME HandlesStayGood, TypeInv, OwnInv, PlacedInv,
         NEW m \in Machines, Step(m)
  PROVE  PlacedAt(m)'
<1> USE HoldingFacts, OperationOf DEF Now, Continues, Stops, Fails, PlacedAt
<1>0. PlacedAt(m)
  BY DEF PlacedInv
<1>1. CASE ClaimForm(m)
  <2>1. CASE phase[m] = "new"
    <3>1. Now(m, "resolve", "creating", rec[m], rec[m]) /\ Unaffected
      BY <1>1, <2>1 DEF ClaimForm, Claiming
    <3>2. QED
      BY <1>0, <3>1
  <2>2. CASE pc[m] \in Claiming /\ Unaffected
               /\ (Fails(m) \/ \E step \in {"scan", "clone"} : Continues(m, step))
    BY <1>0, <2>2
  <2>3. CASE pc[m] = "clone" /\ Lands(m)
    <3>1. rec[m].vmid = 0 /\ d[m].vmid = 0 /\ phase[m] = "creating"
      BY <2>3 DEF Claiming
    <3>2. CASE Fails(m)
      BY <3>1, <3>2
    <3>3. CASE ~Fails(m)
      <4>1. PICK node \in Candidates :
              /\ PutGuest(pick[m], m, node, FALSE)
              /\ Now(m, "configure", phase[m], rec[m],
                     [vmid |-> pick[m], node |-> node])
        BY <2>3, <3>3 DEF Lands
      <4>2. pick[m] \in IDs /\ node \in Nodes
        BY <2>3, LifecycleAssumption DEF TypeInv, HandleOK
      <4>3. host'[pick[m]] = node
        BY <4>1, <4>2 DEF PutGuest, TypeInv, TypeOK, ClusterTypeOK
      <4>4. QED
        BY <3>1, <4>1, <4>2, <4>3
    <3>4. QED
      BY <3>2, <3>3
  <2>4. QED
    BY <1>1, <2>1, <2>2, <2>3 DEF ClaimForm
<1>2. CASE FinalizeForm(m)
  <2>0. pc[m] \in HoldingSteps /\ phase[m] = "creating" /\ rec[m].vmid = 0
    BY <1>2 DEF FinalizeForm, BootForm, RegisterForm, FinalizeSteps,
                PreBootSteps
  <2>1. ASSUME NEW step, Continues(m, step), host' = host,
               step = "return" /\ "register" \in Options => d[m].vmid \in ha'
        PROVE  PlacedAt(m)'
    BY <1>0, <2>0, <2>1
  <2>2. ASSUME NEW step \in FinalizeSteps, step # "register", host' = host,
               Continues(m, After(step)) \/ Continues(m, "rollback")
        PROVE  PlacedAt(m)'
    BY <2>1, <2>2, AfterPlace
  <2>3. CASE pc[m] \in PreBootSteps \cup {"guest"}
    BY <1>2, <2>2, <2>3
       DEF FinalizeForm, BootForm, RegisterForm, SetPower, FinalizeSteps,
           PreBootSteps
  <2>4. CASE pc[m] = "register"
    <3>1. RegisterForm(m)
      BY <1>2, <2>4 DEF FinalizeForm, BootForm, PreBootSteps
    <3>2. host' = host
      BY <3>1 DEF RegisterForm
    <3>3. Continues(m, "rollback")
            \/ (Continues(m, After("register")) /\ d[m].vmid \in ha')
      BY <3>1 DEF RegisterForm
    <3>4. QED
      BY <2>1, <3>2, <3>3
  <2>5. CASE pc[m] = "return"
    <3>1. Unaffected /\ Stops(m, "active", d[m])
      BY <1>2, <2>5
         DEF FinalizeForm, BootForm, RegisterForm, PreBootSteps
    <3>2. QED
      BY <1>0, <2>0, <2>5, <3>1
  <2>6. CASE pc[m] = "rollback"
    <3>1. Fails(m) /\ (SaveOnFailure => Unaffected)
      BY <1>2, <2>6
         DEF FinalizeForm, BootForm, RegisterForm, PreBootSteps,
             HandlesStayGood
    <3>2. CASE SaveOnFailure
      BY <1>0, <2>0, <3>1, <3>2
    <3>3. CASE ~SaveOnFailure
      BY <2>0, <3>1, <3>3
    <3>4. QED
      BY <3>2, <3>3
  <2>7. QED
    BY <1>2, <2>3, <2>4, <2>5, <2>6
       DEF FinalizeForm, BootForm, RegisterForm, PreBootSteps
<1>3. CASE RemoveForm(m)
  <2>1. CASE pc[m] = "idle" /\ rec[m].vmid # 0
    <3>1. rec[m].node \in Nodes /\ rec[m].node # NoNode
      BY <1>0, <2>1, ClusterAssumption
    <3>2. Unaffected /\ phase'[m] = "deleting" /\ rec'[m] = rec[m]
            /\ d'[m] = [vmid |-> rec[m].vmid, node |-> rec[m].node]
            /\ pc'[m] # "return"
      BY <1>3, <2>1, <3>1 DEF RemoveForm
    <3>3. QED
      BY <1>0, <2>1, <3>1, <3>2
  <2>2. CASE Stops(m, "gone", NoRecord)
    BY <2>2 DEF NoRecord
  <2>3. CASE pc[m] \in RemoveSteps /\ ~Stops(m, "gone", NoRecord)
    <3>1. host' = host
      BY <1>3, <2>3
         DEF RemoveForm, SetPower, Destroys, HandlesStayGood
    <3>2. /\ rec'[m] = rec[m] /\ phase'[m] = "deleting"
          /\ pc'[m] = "idle" \/ d'[m] = d[m]
          /\ pc'[m] # "return"
      BY <1>3, <2>3 DEF RemoveForm
    <3>3. QED
      BY <1>0, <2>3, <3>1, <3>2
  <2>4. QED
    BY <1>3, <2>1, <2>2, <2>3 DEF RemoveForm
<1>4. CASE PowerForm(m)
  BY <1>0, <1>4 DEF PowerForm, SetPower
<1>5. CASE DeathForm(m)
  BY <1>0, <1>5 DEF DeathForm
<1>6. QED
  BY <1>1, <1>2, <1>3, <1>4, <1>5, StepForms

LEMMA PlacedStep ==
  HandlesStayGood /\ NodesStayGood /\ TypeInv /\ OwnInv /\ AskedInv
    /\ PlacedInv /\ [Next]_vars => PlacedInv'
<1> SUFFICES ASSUME HandlesStayGood, NodesStayGood, TypeInv, OwnInv, AskedInv,
                    PlacedInv, [Next]_vars
             PROVE  PlacedInv'
  OBVIOUS
<1>0. "return" \in HoldingSteps
  BY HoldingFacts
<1>1. CASE UNCHANGED vars
  BY <1>1 DEF vars, PlacedInv, PlacedAt
<1>2. ASSUME NEW m \in Machines, Step(m)
      PROVE  PlacedInv'
  <2>1. ASSUME NEW n \in Machines \ {m}
        PROVE  PlacedAt(n)'
    BY <1>0, <1>2, <2>1, StepSpares, OperationOf
       DEF Spared, SameProcess, PlacedInv, PlacedAt
  <2>2. QED
    BY <1>2, <2>1, PlacedAtStep DEF PlacedInv
<1>3. CASE Environment
  <2>1. \A id \in IDs : owner[id] \in Machines => host'[id] = host[id]
    BY <1>3, EnvironmentSpares DEF NodesStayGood, AskedInv
  <2>2. ASSUME NEW n \in Machines
        PROVE  PlacedAt(n)'
    <3>1. SameProcess(n) /\ ha' = ha
      BY <1>3, EnvironmentSpares
    <3>2. QED
      BY <1>0, <2>1, <3>1, OperationOf DEF SameProcess, PlacedInv, PlacedAt
  <2>3. QED
    BY <2>2 DEF PlacedInv
<1>4. QED
  BY <1>1, <1>2, <1>3 DEF Next, Step

LEMMA PlacedInit == HandlesStayGood /\ Init => PlacedInv
BY HoldingFacts
   DEF Init, PlacedInv, PlacedAt, Flags, HandlesStayGood

LEMMA PlacedCorrect ==
  ASSUME HandlesStayGood, NodesStayGood
  PROVE  Spec => [](TypeInv /\ OwnInv /\ SingleInv /\ PlacedInv)
<1>1. Init => SingleInv /\ AskedInv /\ PlacedInv
  BY SingleInit, AskedInit, PlacedInit
<1>2. TypeInv /\ OwnInv /\ SingleInv /\ AskedInv /\ PlacedInv /\ [Next]_vars
        => SingleInv' /\ AskedInv' /\ PlacedInv'
  BY SingleStep, AskedStep, PlacedStep
<1>3. QED
  BY <1>1, <1>2, OwnCorrect, PTL DEF Spec

(* Rancher's record of a machine in service leads to that machine's one VM, *)
(* on the recorded node and, with pve-ha, under the HA manager, whatever    *)
(* calls fail and whichever processes die.                                  *)
THEOREM ReachableInService ==
  ASSUME HandlesStayGood, NodesStayGood
  PROVE  Spec => []InServiceIsReachable
<1>1. TypeInv /\ OwnInv /\ SingleInv /\ PlacedInv => InServiceIsReachable
  <2> SUFFICES ASSUME TypeInv, OwnInv, SingleInv, PlacedInv,
                      NEW m \in Machines, phase[m] = "active"
               PROVE  /\ OwnedBy(m) = {rec[m].vmid}
                      /\ FoundAt(rec[m].vmid, rec[m].node)
                      /\ "register" \in Options => rec[m].vmid \in ha
    BY DEF InServiceIsReachable
  <2>1. rec[m].vmid \in IDs /\ owner[rec[m].vmid] = m
    BY OperationOf
  <2>2. OwnedBy(m) = {rec[m].vmid}
    BY <2>1 DEF OwnedBy, SingleInv, SingleAt
  <2>3. QED
    BY <2>1, <2>2, OperationOf, ClusterAssumption
       DEF PlacedInv, PlacedAt, FoundAt, Exists
<1>2. QED
  BY PlacedCorrect, <1>1, PTL

-----------------------------------------------------------------------------
(* The destroy call. Reading the state and stopping the VM only puts it     *)
(* down if it is found on the node; that it stays down takes an entry list  *)
(* the VM is no longer in.                                                  *)
LEMMA DownAtStep ==
  ASSUME ForceStopWorks, TypeInv, OwnInv, PlacedInv, NEW m \in Machines,
         Step(m), pc'[m] = "delete"
  PROVE  ~running'[d'[m].vmid]
<1> USE HoldingFacts DEF Now, Continues, Stops, Fails
<1>1. RemoveForm(m)
  <2>1. ~ClaimForm(m) /\ ~PowerForm(m) /\ ~DeathForm(m)
    BY DEF ClaimForm, Lands, PowerForm, DeathForm
  <2>2. ~FinalizeForm(m)
    <3>1. ASSUME NEW step \in FinalizeSteps, pc'[m] = After(step)
          PROVE  FALSE
      BY <3>1, AfterPlace
    <3>2. QED
      BY <3>1
         DEF FinalizeForm, BootForm, RegisterForm, FinalizeSteps, PreBootSteps
  <2>3. QED
    BY <2>1, <2>2, StepForms
<1>2. pc[m] \in {"state", "kill"} /\ d'[m] = d[m]
  BY <1>1 DEF RemoveForm
<1>3. Reaches(m) /\ d[m].vmid \in IDs
  BY <1>2, HandleReaches, OperationOf
<1>4. CASE pc[m] = "state"
  BY <1>1, <1>2, <1>3, <1>4 DEF RemoveForm, ForceStopWorks
<1>5. CASE pc[m] = "kill"
  <2>1. SetPower(d[m].vmid, FALSE)
    BY <1>1, <1>3, <1>5 DEF RemoveForm, ForceStopWorks
  <2>2. QED
    BY <1>2, <1>3, <2>1 DEF SetPower, TypeInv, TypeOK, ClusterTypeOK
<1>6. QED
  BY <1>2, <1>4, <1>5

LEMMA DownStep ==
  HandlesStayGood /\ HAStaysClean /\ NodesStayGood /\ ForceStopWorks
    /\ TypeInv /\ OwnInv /\ CleanInv /\ PlacedInv /\ DownWhenDeleted
    /\ [Next]_vars => DownWhenDeleted'
<1> SUFFICES ASSUME HandlesStayGood, HAStaysClean, NodesStayGood,
                    ForceStopWorks, TypeInv, OwnInv, CleanInv, PlacedInv,
                    DownWhenDeleted, [Next]_vars,
                    NEW n \in Machines, pc'[n] = "delete"
             PROVE  ~running'[d'[n].vmid]
  BY DEF DownWhenDeleted
<1>0. "delete" \in HoldingSteps
  BY HoldingFacts
<1>1. CASE UNCHANGED vars
  BY <1>1 DEF vars, DownWhenDeleted
<1>2. ASSUME NEW m \in Machines, Step(m)
      PROVE  ~running'[d'[n].vmid]
  <2>1. CASE n = m
    BY <1>2, <2>1, DownAtStep
  <2>2. CASE n # m
    BY <1>0, <1>2, <2>2, StepSpares, OperationOf
       DEF Spared, SameProcess, DownWhenDeleted
  <2>3. QED
    BY <2>1, <2>2
<1>3. CASE Environment
  <2>1. pc[n] = "delete" /\ d'[n] = d[n]
    BY <1>3, EnvironmentSpares DEF SameProcess
  <2>2. ~running[d[n].vmid] /\ d[n].vmid \notin ha
    BY <2>1 DEF DownWhenDeleted, CleanInv, CleanAt, ForceStopWorks
  <2>3. running'[d[n].vmid] = running[d[n].vmid]
    BY <1>0, <1>3, <2>1, <2>2, EnvironmentSpares, OperationOf
  <2>4. QED
    BY <2>1, <2>2, <2>3
<1>4. QED
  BY <1>1, <1>2, <1>3 DEF Next, Step

LEMMA DownInit == Init => DownWhenDeleted
BY DEF Init, DownWhenDeleted

(* What the driver has force-stopped stays down until the destroy call goes *)
(* out: neither the HA manager nor another process restarts it.             *)
THEOREM DownForTheDestroy ==
  ASSUME HandlesStayGood, HAStaysClean, NodesStayGood, ForceStopWorks
  PROVE  Spec => []DownWhenDeleted
<1>1. TypeInv /\ OwnInv /\ CleanInv /\ PlacedInv /\ DownWhenDeleted
        /\ [Next]_vars => DownWhenDeleted'
  BY DownStep
<1>2. QED
  BY <1>1, DownInit, CleanCorrect, PlacedCorrect, PTL DEF Spec

-----------------------------------------------------------------------------
(* No orphan. The destroy call refuses a running guest, so a rollback works *)
(* only if the clone is not powered on when it is entered; and Remove never *)
(* takes its own VM on another node for one that is gone.                   *)
UndoneAt(m) ==
  /\ pc[m] = "guest" => running[d[m].vmid]
  /\ pc[m] = "rollback" => ~running[d[m].vmid]
  /\ crashes = 0 /\ phase[m] \in {"failed", "gone"}
       => \A id \in IDs : owner[id] # m

UndoneInv == \A m \in Machines : UndoneAt(m)

UndoPremises ==
  HandlesStayGood /\ HAStaysClean /\ NodesStayGood /\ RollbackWorks

UndoInv ==
  TypeInv /\ OwnInv /\ SingleInv /\ AskedInv /\ CleanInv /\ PlacedInv

(* Only a process that dies is counted.                                     *)
LEMMA StepCrashes ==
  ASSUME TypeInv, NEW m \in Machines, Step(m)
  PROVE  crashes' = crashes \/ (Crash(m) /\ crashes' = crashes + 1)
<1> USE DEF Healthy, Fault, budgetVars, Advance
<1>1. CASE Rancher(m)
  BY <1>1 DEF Rancher, BeginCreate, BeginRemove, RemoveNothing, BeginPower
<1>2. CASE Resolve(m) \/ Scan(m) \/ Clone(m)
  BY <1>2 DEF Resolve, Scan, Clone, CloneLands, CloneTaken, CloneErrors
<1>3. CASE Prepare(m) \/ StartVM(m) \/ WaitForGuest(m) \/ AddHAResource(m)
  BY <1>3 DEF Prepare, StartVM, WaitForGuest, AddHAResource
<1>4. CASE CreateReturns(m) \/ Rollback(m) \/ Remove(m)
  BY <1>4 DEF CreateReturns, Rollback, Remove, RemoveHAResource,
              ReadStateForRemove, Kill, Delete, RemoveSucceeds, RemoveErrors
<1>5. CASE PowerOp(m) \/ Crash(m)
  BY <1>5 DEF PowerOp, ReadStateForStart, Power, Crash
<1>6. QED
  BY <1>1, <1>2, <1>3, <1>4, <1>5 DEF Step, Driver, Create

(* A destroy call that took effect leaves the machine without a VM.         *)
LEMMA DestroysLast ==
  ASSUME TypeInv, OwnInv, SingleInv, NEW m \in Machines, Destroys(m),
         pc[m] \in HoldingSteps, NEW id \in IDs
  PROVE  owner'[id] # m
<1>1. d[m].vmid \in IDs /\ owner[d[m].vmid] = m
  BY OperationOf
<1>2. owner' = [owner EXCEPT ![d[m].vmid] = None]
  BY DEF Destroys, DestroyGuest, PutGuest
<1>3. owner[id] = m => id = d[m].vmid
  BY <1>1 DEF SingleInv, SingleAt
<1>4. QED
  BY <1>1, <1>2, <1>3, ClusterAssumption DEF TypeInv, TypeOK, ClusterTypeOK

(* A Create that fails without dying has undone what it did.                *)
LEMMA FailureUndone ==
  ASSUME UndoPremises, UndoInv, UndoneInv, NEW m \in Machines, Step(m),
         phase[m] = "creating", phase'[m] = "failed", ~DeathForm(m),
         NEW id \in IDs
  PROVE  owner'[id] # m
<1> USE HoldingFacts
    DEF Now, Continues, Stops, UndoPremises, UndoInv
<1>0. pc[m] \in CreateSteps
  BY OperationOf
<1>1. CASE ClaimForm(m)
  <2>1. pc[m] \in Claiming
    BY <1>0, <1>1 DEF ClaimForm, Claiming
  <2>2. owner' = owner
    BY <1>1 DEF ClaimForm, Lands, RollbackWorks
  <2>3. QED
    BY <2>1, <2>2 DEF SingleInv, SingleAt
<1>2. CASE FinalizeForm(m)
  <2>1. pc[m] = "rollback"
    BY <1>2 DEF FinalizeForm, BootForm, RegisterForm
  <2>2. Reaches(m)
    BY <2>1, HandleReaches
  <2>3. Destroyable(d[m].vmid)
    BY <2>1 DEF UndoneInv, UndoneAt, CleanInv, CleanAt, RollbackWorks,
                Destroyable
  <2>4. Destroys(m)
    BY <1>2, <2>1, <2>2, <2>3
       DEF FinalizeForm, BootForm, RegisterForm, PreBootSteps, RollbackWorks
  <2>5. QED
    BY <2>1, <2>4, DestroysLast
<1>3. CASE RemoveForm(m) \/ PowerForm(m)
  BY <1>0, <1>3 DEF RemoveForm, PowerForm
<1>4. QED
  BY <1>1, <1>2, <1>3, StepForms

(* A machine is forgotten by Remove once its VM is destroyed, or because    *)
(* its Create failed before it had one.                                     *)
LEMMA ForgottenHasNone ==
  ASSUME UndoPremises, UndoInv, NEW m \in Machines, Step(m),
         phase'[m] = "gone"
  PROVE  \/ phase[m] = "deleting" /\ \A id \in IDs : owner'[id] # m
         \/ phase[m] = "failed" /\ owner' = owner
<1> USE HoldingFacts DEF Now, Continues, Stops, Fails, UndoPremises, UndoInv
<1>1. RemoveForm(m)
  <2>1. phase[m] # "gone"
    <3>1. pc[m] # "idle" => phase[m] \in {"creating", "deleting", "active"}
      BY OperationOf DEF TypeInv, TypeOK, MachineTypeOK, Steps
    <3>2. phase[m] = "gone" => FALSE
      BY <3>1, StepForms, OperationOf
         DEF ClaimForm, Claiming, FinalizeForm, BootForm, RegisterForm,
             RemoveForm, PowerForm, DeathForm, PreBootSteps
    <3>3. QED
      BY <3>2
  <2>2. QED
    BY <2>1, StepForms
       DEF ClaimForm, Lands, FinalizeForm, BootForm, RegisterForm, PowerForm,
           DeathForm
<1>2. CASE pc[m] = "idle"
  BY <1>1, <1>2, OperationOf DEF RemoveForm
<1>3. CASE pc[m] # "idle"
  <2>1. pc[m] = "delete" /\ (Destroys(m) \/ ~Reaches(m))
    <3>1. phase[m] # "gone"
      BY <1>1, <1>3, OperationOf DEF RemoveForm
    <3>2. QED
      BY <1>1, <1>3, <3>1 DEF RemoveForm
  <2>2. Destroys(m)
    BY <2>1, HandleReaches
  <2>3. QED
    BY <2>1, <2>2, DestroysLast, OperationOf
<1>4. QED
  BY <1>2, <1>3

LEMMA UndoneAtStep ==
  ASSUME UndoPremises, UndoInv, UndoneInv, NEW m \in Machines, Step(m)
  PROVE  UndoneAt(m)'
<1> USE HoldingFacts DEF UndoPremises, UndoInv
<1>1. ASSUME pc'[m] = "guest"
      PROVE  running'[d'[m].vmid]
  <2>1. BootForm(m) /\ Continues(m, After("start")) /\ SetPower(d[m].vmid, TRUE)
    <3> USE DEF Now, Continues, Stops, Fails
    <3>1. FinalizeForm(m)
      BY <1>1, StepForms
         DEF ClaimForm, Lands, RemoveForm, PowerForm, DeathForm
    <3>2. PICK step \in FinalizeSteps :
            pc[m] = step /\ pc'[m] = After(step)
      BY <1>1, <3>1
         DEF FinalizeForm, BootForm, RegisterForm, FinalizeSteps, PreBootSteps
    <3>3. pc[m] = "start"
      BY <1>1, <3>2, AfterPlace
    <3>4. QED
      BY <1>1, <3>1, <3>3
         DEF FinalizeForm, BootForm, RegisterForm, PreBootSteps
  <2>2. d[m].vmid \in IDs
    BY <2>1, OperationOf DEF BootForm, FinalizeSteps, PreBootSteps
  <2>3. QED
    BY <2>1, <2>2
       DEF SetPower, Continues, Now, TypeInv, TypeOK, ClusterTypeOK
<1>2. ASSUME pc'[m] = "rollback"
      PROVE  ~running'[d'[m].vmid]
  <2>0. \A step \in FinalizeSteps : pc'[m] # After(step)
    BY <1>2, AfterPlace
  <2>1. pc[m] \in FinalizeSteps /\ Continues(m, "rollback") /\ FinalizeForm(m)
    <3> USE DEF Now, Continues, Stops, Fails
    <3>1. FinalizeForm(m)
      BY <1>2, StepForms
         DEF ClaimForm, Lands, RemoveForm, PowerForm, DeathForm
    <3>2. QED
      BY <1>2, <2>0, <3>1
         DEF FinalizeForm, BootForm, RegisterForm, FinalizeSteps, PreBootSteps
  <2>2. Reaches(m) /\ d[m].vmid \notin ha
    BY <2>1, HandleReaches DEF CleanInv, CleanAt
  <2>3. pc[m] \notin {"guest", "register"}
    <3>1. pc[m] # "guest"
      BY <2>0, <2>1, <2>2
         DEF FinalizeForm, BootForm, RegisterForm, PreBootSteps,
             FinalizeSteps, RollbackWorks, UndoneInv, UndoneAt, Continues, Now
    <3>2. pc[m] # "register"
      BY <2>0, <2>1, <2>2
         DEF FinalizeForm, BootForm, RegisterForm, PreBootSteps,
             FinalizeSteps, RollbackWorks, Reaches, FoundAt, Continues, Now
    <3>3. QED
      BY <3>1, <3>2
  <2>4. ~running[d[m].vmid]
    BY <2>1, <2>3 DEF CleanInv, CleanAt, FinalizeSteps
  <2>5. running' = running /\ d'[m] = d[m]
    BY <2>0, <2>1, <2>3
       DEF FinalizeForm, BootForm, RegisterForm, FinalizeSteps, PreBootSteps,
           RollbackWorks, Continues, Now
  <2>6. QED
    BY <2>4, <2>5
<1>3. ASSUME crashes' = 0, phase'[m] \in {"failed", "gone"}, NEW id \in IDs
      PROVE  owner'[id] # m
  <2>1. crashes = 0 /\ ~Crash(m)
    BY <1>3, StepCrashes DEF TypeInv, TypeOK, BudgetTypeOK, Crash
  <2>2. CASE phase'[m] = "gone"
    BY <1>3, <2>1, <2>2, ForgottenHasNone DEF UndoneInv, UndoneAt
  <2>3. CASE phase'[m] = "failed"
    <3>1. ~DeathForm(m)
      BY <1>3, <2>1 DEF DeathForm
    <3>2. phase[m] = "creating"
      BY <2>3, <3>1, StepForms, OperationOf
         DEF ClaimForm, Claiming, FinalizeForm, BootForm, RegisterForm,
             RemoveForm, PowerForm, PreBootSteps, CreateSteps, Now, Continues,
             Stops, Fails
    <3>3. QED
      BY <2>3, <3>1, <3>2, FailureUndone
  <2>4. QED
    BY <1>3, <2>2, <2>3
<1>4. QED
  BY <1>1, <1>2, <1>3 DEF UndoneAt

LEMMA UndoneStep ==
  UndoPremises /\ UndoInv /\ UndoneInv /\ [Next]_vars => UndoneInv'
<1> SUFFICES ASSUME UndoPremises, UndoInv, UndoneInv, [Next]_vars
             PROVE  UndoneInv'
  OBVIOUS
<1> USE DEF UndoPremises, UndoInv
<1>0. {"guest", "rollback"} \subseteq HoldingSteps
  BY HoldingFacts DEF FinalizeSteps
<1>1. CASE UNCHANGED vars
  BY <1>1 DEF vars, budgetVars, UndoneInv, UndoneAt
<1>2. ASSUME NEW m \in Machines, Step(m)
      PROVE  UndoneInv'
  <2>1. crashes' = 0 => crashes = 0
    BY <1>2, StepCrashes DEF TypeInv, TypeOK, BudgetTypeOK
  <2>2. ASSUME NEW n \in Machines \ {m}
        PROVE  UndoneAt(n)'
    <3>1. Spared(n)
      BY <1>2, StepSpares
    <3>2. \A id \in IDs : owner'[id] = n => owner[id] = n
      BY <1>2, StepOwners, ClusterAssumption
    <3>3. QED
      BY <1>0, <2>1, <3>1, <3>2, OperationOf
         DEF Spared, SameProcess, UndoneInv, UndoneAt
  <2>3. QED
    BY <1>2, <2>2, UndoneAtStep DEF UndoneInv
<1>3. CASE Environment
  <2>1. ASSUME NEW n \in Machines
        PROVE  UndoneAt(n)'
    <3>1. SameProcess(n) /\ crashes' = crashes
      BY <1>3, EnvironmentSpares DEF Environment, budgetVars
    <3>2. pc[n] \in {"guest", "rollback"} => d[n].vmid \notin ha
      BY DEF CleanInv, CleanAt, RollbackWorks, FinalizeSteps
    <3>3. pc[n] \in {"guest", "rollback"}
            => running'[d[n].vmid] = running[d[n].vmid]
      BY <1>0, <1>3, <3>2, EnvironmentSpares, OperationOf
    <3>4. \A id \in IDs : owner'[id] = n => owner[id] = n
      BY <1>3, EnvironmentOwners
    <3>5. QED
      BY <3>1, <3>3, <3>4 DEF SameProcess, UndoneInv, UndoneAt
  <2>2. QED
    BY <2>1 DEF UndoneInv
<1>4. QED
  BY <1>1, <1>2, <1>3 DEF Next, Step

LEMMA UndoneInit == Init => UndoneInv
BY DEF Init, UndoneInv, UndoneAt

LEMMA UndoneCorrect ==
  ASSUME UndoPremises
  PROVE  Spec => [](UndoInv /\ UndoneInv)
<1>1. HandlesStayGood /\ HAStaysClean /\ NodesStayGood
  BY DEF UndoPremises
<1>2. TypeInv /\ OwnInv /\ SingleInv /\ AskedInv /\ CleanInv /\ PlacedInv
        => UndoInv
  BY DEF UndoInv
<1>3. UndoInv /\ UndoneInv /\ [Next]_vars => UndoneInv'
  BY UndoneStep
<1>4. QED
  BY <1>1, <1>2, <1>3, UndoneInit, CleanCorrect, PlacedCorrect, PTL DEF Spec

(* While no process has died, a Create that failed and a Remove that        *)
(* succeeded have left no VM of the machine in the cluster.                 *)
THEOREM OrphanFree ==
  ASSUME HandlesStayGood, HAStaysClean, NodesStayGood, RollbackWorks
  PROVE  Spec => []NoOrphan
<1>1. UndoPremises
  BY DEF UndoPremises
<1>2. UndoneInv => NoOrphan
  BY DEF UndoneInv, UndoneAt, NoOrphan, OwnedBy
<1>3. QED
  BY <1>1, <1>2, UndoneCorrect, PTL

-----------------------------------------------------------------------------
(* The refinement. What a step is to MachineService depends on the phase,   *)
(* on the set of VMs the machine owns and on the count of deaths only.      *)
KeepsVM(m) == OwnedBy(m)' = OwnedBy(m) /\ crashes' = crashes
LosesVM(m) == OwnedBy(m)' = {} /\ crashes' = crashes
Turns(m, from, to) == phase[m] \in from /\ phase'[m] = to

Outcome(m) ==
  \/ phase'[m] = phase[m] /\ KeepsVM(m)
  \/ Turns(m, {"new"}, "creating") /\ KeepsVM(m)
  \/ /\ Turns(m, {"creating"}, "creating") /\ crashes' = crashes
     /\ OwnedBy(m) = {}
     /\ \E id \in IDs : ~Exists(id) /\ OwnedBy(m)' = {id}
  \/ Turns(m, {"creating"}, "active") /\ KeepsVM(m) /\ OwnedBy(m) # {}
  \/ Turns(m, {"creating"}, "failed") /\ LosesVM(m)
  \/ /\ phase'[m] = IF phase[m] = "creating" THEN "failed" ELSE phase[m]
     /\ OwnedBy(m)' = OwnedBy(m) /\ crashes' = crashes + 1
  \/ Turns(m, {"active", "failed"}, "deleting") /\ KeepsVM(m)
  \/ Turns(m, {"deleting"}, "gone") /\ LosesVM(m)
  \/ Turns(m, {"failed"}, "gone") /\ KeepsVM(m)

LEMMA StepOutcome ==
  ASSUME UndoPremises, UndoInv, UndoneInv, NEW m \in Machines, Step(m)
  PROVE  Outcome(m)
<1> USE HoldingFacts DEF UndoPremises, UndoInv
<1>a. (\A id \in IDs : owner'[id] # m) => OwnedBy(m)' = {}
  BY DEF OwnedBy
<1>b. owner' = owner => OwnedBy(m)' = OwnedBy(m)
  BY DEF OwnedBy
<1>1. CASE DeathForm(m)
  BY <1>1, <1>b DEF DeathForm, Stops, Outcome
<1>2. ASSUME ~DeathForm(m)
      PROVE  crashes' = crashes
  BY <1>2, StepCrashes, EndsValues DEF Crash, DeathForm, TypeInv, TypeOK
<1>3. CASE ~DeathForm(m) /\ phase[m] = "creating" /\ phase'[m] = "failed"
  <2>1. LosesVM(m)
    BY <1>2, <1>3, <1>a, FailureUndone DEF LosesVM
  <2>2. QED
    BY <1>3, <2>1 DEF Outcome, Turns
<1>4. CASE ~DeathForm(m) /\ phase'[m] = "gone"
  <2>1. CASE phase[m] = "deleting" /\ \A id \in IDs : owner'[id] # m
    BY <1>2, <1>4, <1>a, <2>1 DEF Outcome, Turns, LosesVM
  <2>2. CASE phase[m] = "failed" /\ owner' = owner
    BY <1>2, <1>4, <1>b, <2>2 DEF Outcome, Turns, KeepsVM
  <2>3. QED
    BY <1>4, <2>1, <2>2, ForgottenHasNone
<1>5. CASE /\ ~DeathForm(m) /\ phase'[m] # "gone"
           /\ ~(phase[m] = "creating" /\ phase'[m] = "failed")
  <2> USE DEF Now, Continues, Stops, Fails
  <2>1. CASE ClaimForm(m)
    <3>1. CASE pc[m] = "clone" /\ Lands(m)
      <4>1. OwnedBy(m) = {}
        BY <3>1 DEF OwnedBy, SingleInv, SingleAt, Claiming
      <4>2. pick[m] \in IDs /\ ~Exists(pick[m]) /\ phase[m] = "creating"
        BY <3>1 DEF Lands, TypeInv, HandleOK, CreateSteps
      <4>3. owner' = [owner EXCEPT ![pick[m]] = m]
        BY <3>1 DEF Lands, PutGuest
      <4>4. OwnedBy(m)' = {pick[m]}
        BY <4>1, <4>2, <4>3 DEF OwnedBy, TypeInv, TypeOK, ClusterTypeOK
      <4>5. phase'[m] = "creating"
        BY <1>5, <3>1, <4>2 DEF Lands
      <4>6. QED
        BY <1>2, <1>5, <4>1, <4>2, <4>4, <4>5 DEF Outcome, Turns
    <3>2. CASE owner' = owner
      <4>1. phase'[m] = phase[m] \/ Turns(m, {"new"}, "creating")
        BY <1>5, <2>1, OperationOf
           DEF ClaimForm, Lands, Turns, CreateSteps, Claiming
      <4>2. QED
        BY <1>2, <1>5, <1>b, <3>2, <4>1 DEF Outcome, KeepsVM
    <3>3. QED
      BY <2>1, <3>1, <3>2 DEF ClaimForm
  <2>2. CASE FinalizeForm(m)
    <3>0. phase[m] = "creating" /\ pc[m] \in HoldingSteps
      BY <2>2, OperationOf
         DEF FinalizeForm, BootForm, RegisterForm, FinalizeSteps, PreBootSteps
    <3>1. pc[m] # "rollback"
      BY <1>5, <2>2, <3>0
         DEF FinalizeForm, BootForm, RegisterForm, PreBootSteps
    <3>2. owner' = owner
      BY <2>2, <3>1 DEF FinalizeForm, BootForm, RegisterForm, SetPower
    <3>3. OwnedBy(m) # {}
      BY <3>0, OperationOf DEF OwnedBy
    <3>4. phase'[m] \in {"creating", "active"}
      BY <2>2, <3>0, <3>1 DEF FinalizeForm, BootForm, RegisterForm
    <3>5. QED
      BY <1>2, <1>5, <1>b, <3>0, <3>2, <3>3, <3>4
         DEF Outcome, KeepsVM, Turns
  <2>3. CASE RemoveForm(m)
    <3>1. owner' = owner
      BY <1>5, <2>3 DEF RemoveForm, SetPower, HandlesStayGood
    <3>2. phase'[m] = phase[m] \/ Turns(m, {"active", "failed"}, "deleting")
      BY <1>5, <2>3, OperationOf DEF RemoveForm, Turns
    <3>3. QED
      BY <1>2, <1>5, <1>b, <3>1, <3>2 DEF Outcome, KeepsVM
  <2>4. CASE PowerForm(m)
    <3>1. owner' = owner /\ phase'[m] = phase[m]
      BY <2>4 DEF PowerForm, SetPower
    <3>2. QED
      BY <1>2, <1>5, <1>b, <3>1 DEF Outcome, KeepsVM
  <2>5. QED
    BY <1>5, <2>1, <2>2, <2>3, <2>4, StepForms
<1>6. QED
  BY <1>1, <1>3, <1>4, <1>5

(* The VM a machine has under the mapping.                                  *)
VMs == [m \in Machines |-> VMOf(m)]

LEMMA VMOfFacts ==
  ASSUME NEW m \in Machines
  PROVE  /\ OwnedBy(m) = {} => VMOf(m) = 0
         /\ OwnedBy(m) # {} => VMOf(m) \in OwnedBy(m) /\ VMOf(m) # 0
<1>1. 0 \notin OwnedBy(m)
  BY ClusterAssumption DEF OwnedBy
<1>2. QED
  BY <1>1 DEF VMOf

LEMMA VMOfKept ==
  ASSUME NEW m \in Machines, OwnedBy(m)' = OwnedBy(m)
  PROVE  VMOf(m)' = VMOf(m)
BY DEF VMOf

LEMMA VMOfLost ==
  ASSUME NEW m \in Machines, OwnedBy(m)' = {}
  PROVE  VMOf(m)' = 0
BY DEF VMOf

LEMMA VMOfTaken ==
  ASSUME NEW m \in Machines, NEW id, OwnedBy(m)' = {id}
  PROVE  VMOf(m)' = id
BY DEF VMOf

(* A machine's step is a step of the promise or none.                       *)
LEMMA StepServes ==
  ASSUME UndoPremises, UndoInv, UndoneInv, NEW m \in Machines, Step(m)
  PROVE  [Service!Next]_Service!serviceVars
<1> USE DEF UndoPremises, UndoInv
<1>1. phase' = [phase EXCEPT ![m] = phase'[m]]
  <2>1. \A n \in Machines \ {m} : phase'[n] = phase[n]
    BY StepMovesOwn
  <2>2. phase \in [Machines -> Phases] /\ phase' \in [Machines -> Phases]
    BY StepForms, TypeStep DEF TypeInv, TypeOK, MachineTypeOK, Next, Step
  <2>3. QED
    BY <2>1, <2>2
<1>2. VMs' = [VMs EXCEPT ![m] = VMOf(m)']
  <2>1. ASSUME NEW n \in Machines \ {m}
        PROVE  VMOf(n)' = VMOf(n)
    <3>1. OwnedBy(n)' = OwnedBy(n)
      <4>1. \A id \in IDs : owner[id] = n => owner'[id] = n
        BY StepSpares DEF Spared
      <4>2. \A id \in IDs : owner'[id] = n => owner[id] = n
        BY StepOwners, ClusterAssumption
      <4>3. QED
        BY <4>1, <4>2 DEF OwnedBy
    <3>2. QED
      BY <3>1, VMOfKept
  <2>2. QED
    BY <2>1 DEF VMs
<1>3. Outcome(m)
  BY StepOutcome
<1>4. ASSUME KeepsVM(m) \/ OwnedBy(m)' = OwnedBy(m)
      PROVE  VMs' = VMs
  <2>1. VMOf(m)' = VMOf(m)
    BY <1>4, VMOfKept DEF KeepsVM
  <2>2. QED
    BY <1>2, <2>1 DEF VMs
<1>5. VMs[m] = VMOf(m) /\ VMs = [n \in Machines |-> VMOf(n)]
  BY DEF VMs
<1> USE <1>1 DEF Service!Becomes, Turns, KeepsVM, LosesVM, TypeInv, TypeOK,
                 MachineTypeOK
<1>6. CASE phase'[m] = phase[m] /\ KeepsVM(m)
  <2>1. phase' = phase
    BY <1>6
  <2>2. QED
    BY <1>4, <1>6, <2>1 DEF Service!serviceVars, VMs
<1>7. CASE Turns(m, {"new"}, "creating") /\ KeepsVM(m)
  <2>1. Service!Request(m)
    BY <1>4, <1>7 DEF Service!Request, VMs
  <2>2. QED
    BY <2>1 DEF Service!Next
<1>8. CASE /\ Turns(m, {"creating"}, "creating") /\ crashes' = crashes
           /\ OwnedBy(m) = {}
           /\ \E id \in IDs : ~Exists(id) /\ OwnedBy(m)' = {id}
  <2>1. PICK id \in IDs : ~Exists(id) /\ OwnedBy(m)' = {id}
    BY <1>8
  <2>2. \A n \in Machines : VMs[n] # id
    <3>1. \A n \in Machines : id \notin OwnedBy(n)
      BY <2>1, ClusterAssumption DEF OwnedBy, Exists
    <3>2. id # 0
      BY ClusterAssumption
    <3>3. QED
      BY <3>1, <3>2, VMOfFacts DEF VMs
  <2>3. VMs' = [VMs EXCEPT ![m] = id]
    BY <1>2, <2>1, VMOfTaken
  <2>4. VMs[m] = 0
    BY <1>5, <1>8, VMOfFacts
  <2>5. phase' = phase
    BY <1>8
  <2>6. Service!Acquire(m)
    BY <1>8, <2>2, <2>3, <2>4, <2>5
       DEF Service!Acquire, Service!Unused, Service!NoVM, VMs
  <2>7. QED
    BY <2>6 DEF Service!Next
<1>9. CASE Turns(m, {"creating"}, "active") /\ KeepsVM(m) /\ OwnedBy(m) # {}
  <2>1. VMs[m] # 0
    BY <1>5, <1>9, VMOfFacts
  <2>2. Service!Succeed(m)
    BY <1>4, <1>9, <2>1 DEF Service!Succeed, Service!NoVM, VMs
  <2>3. QED
    BY <2>2 DEF Service!Next
<1>10. CASE Turns(m, {"creating"}, "failed") /\ LosesVM(m)
  <2>1. VMs' = [VMs EXCEPT ![m] = 0]
    BY <1>2, <1>10, VMOfLost
  <2>2. Service!Fail(m)
    BY <1>10, <2>1 DEF Service!Fail, Service!NoVM, VMs
  <2>3. QED
    BY <2>2 DEF Service!Next
<1>11. CASE /\ phase'[m] = IF phase[m] = "creating" THEN "failed" ELSE phase[m]
            /\ OwnedBy(m)' = OwnedBy(m) /\ crashes' = crashes + 1
  <2>1. Service!Die(m)
    BY <1>4, <1>11 DEF Service!Die, VMs
  <2>2. QED
    BY <2>1 DEF Service!Next
<1>12. CASE Turns(m, {"active", "failed"}, "deleting") /\ KeepsVM(m)
  <2>1. Service!StartDeletion(m)
    BY <1>4, <1>12 DEF Service!StartDeletion, VMs
  <2>2. QED
    BY <2>1 DEF Service!Next
<1>13. CASE Turns(m, {"deleting"}, "gone") /\ LosesVM(m)
  <2>1. VMs' = [VMs EXCEPT ![m] = 0]
    BY <1>2, <1>13, VMOfLost
  <2>2. Service!Forget(m)
    BY <1>13, <2>1 DEF Service!Forget, Service!NoVM, VMs
  <2>3. QED
    BY <2>2 DEF Service!Next
<1>14. CASE Turns(m, {"failed"}, "gone") /\ KeepsVM(m)
  <2>1. Service!Forget(m)
    BY <1>4, <1>14 DEF Service!Forget, VMs
  <2>2. QED
    BY <2>1 DEF Service!Next
<1>15. QED
  BY <1>3, <1>6, <1>7, <1>8, <1>9, <1>10, <1>11, <1>12, <1>13, <1>14
     DEF Outcome

(* Nobody else moves the promise: foreign guests, restarts and migrations   *)
(* leave every machine its VMs.                                             *)
LEMMA EnvironmentServes ==
  ASSUME HandlesStayGood, TypeInv, Environment
  PROVE  UNCHANGED Service!serviceVars
<1>1. ASSUME NEW n \in Machines
      PROVE  VMOf(n)' = VMOf(n)
  <2>1. OwnedBy(n)' = OwnedBy(n)
    BY EnvironmentSpares, EnvironmentOwners DEF OwnedBy
  <2>2. QED
    BY <2>1, VMOfKept
<1>2. phase' = phase /\ crashes' = crashes
  BY DEF Environment, budgetVars
<1>3. QED
  BY <1>1, <1>2 DEF Service!serviceVars

LEMMA InitServes == Init => Service!Init
<1> SUFFICES ASSUME Init PROVE Service!Init
  OBVIOUS
<1>1. \A m \in Machines : OwnedBy(m) = {}
  BY ClusterAssumption DEF Init, ClusterInit, OwnedBy
<1>2. \A m \in Machines : VMOf(m) = 0
  BY <1>1, VMOfFacts
<1>3. QED
  BY <1>2 DEF Init, Service!Init, Service!NoVM

(* The driver's calls, with all their interleavings and with every failure  *)
(* a rollback or a retried Remove can make up for, implement the promise:   *)
(* one VM for a machine, kept until its deletion, none left by a Create     *)
(* that failed or a Remove that succeeded.                                  *)
THEOREM ServiceImplemented ==
  ASSUME HandlesStayGood, HAStaysClean, NodesStayGood, RollbackWorks
  PROVE  Spec => ImplementsService
<1>1. UndoPremises
  BY DEF UndoPremises
<1>2. UndoInv /\ UndoneInv /\ [Next]_vars
        => [Service!Next]_Service!serviceVars
  <2> SUFFICES ASSUME UndoInv, UndoneInv, [Next]_vars
               PROVE  [Service!Next]_Service!serviceVars
    OBVIOUS
  <2>1. CASE UNCHANGED vars
    BY <2>1 DEF vars, budgetVars, Service!serviceVars, VMOf, OwnedBy
  <2>2. CASE Environment
    BY <2>2, EnvironmentServes DEF UndoInv
  <2>3. ASSUME NEW m \in Machines, Step(m)
        PROVE  [Service!Next]_Service!serviceVars
    BY <1>1, <2>3, StepServes
  <2>4. QED
    BY <2>1, <2>2, <2>3 DEF Next, Step
<1>3. QED
  BY <1>1, <1>2, UndoneCorrect, InitServes, PTL
     DEF Spec, ImplementsService, Service!Spec
=============================================================================
