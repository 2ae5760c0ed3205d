--------------------------- MODULE LifecycleProofs ---------------------------
(* What TLAPS proves of Lifecycle for every value of its constants.         *)
EXTENDS Lifecycle, WellFoundedInduction, TLAPS

USE LifecycleAssumption, ClusterAssumption

(* The next configured step of finalizeCreate always exists and is a later  *)
(* one, so "return" is reached after all of them.                           *)
LEMMA AfterIsLater ==
  ASSUME NEW step \in PreBootSteps \cup {"guest", "register"}
  PROVE  After(step) \in Requested /\ Rank[After(step)] > Rank[step]
<1> DEFINE Later(s) == s \in Requested /\ Rank[s] > Rank[step]
           Next1(s) ==
             /\ Later(s)
             /\ \A t \in Requested : Rank[t] > Rank[step] => Rank[s] <= Rank[t]
<1>1. \A s \in Requested : s \in DOMAIN Rank
  BY DEF Requested, Rank
<1>2. \E s \in Requested : Next1(s)
  BY <1>1 DEF Requested, Rank, PreBootSteps
<1>3. QED
  BY <1>2 DEF After

(* The lowest id of a set of ids is one of them.                            *)
LEMMA LowestIsMember ==
  ASSUME NEW S, S \subseteq Nat, S # {}
  PROVE  LowestOf(S) \in S
<1>1. IsWellFoundedOn(OpToRel(<, Nat), Nat)
  BY NatLessThanWellFounded
<1>2. \E x \in S : \A y \in S : <<y, x>> \notin OpToRel(<, Nat)
  BY <1>1, WFMin, Zenon
<1>3. \A x, y \in S : <<y, x>> \notin OpToRel(<, Nat) => x <= y
  BY DEF OpToRel
<1>4. \E x \in S : \A y \in S : x <= y
  BY <1>2, <1>3
<1>5. QED
  BY <1>4 DEF LowestOf

-----------------------------------------------------------------------------
(* Which operation a process is in, and that it has an id where it needs    *)
(* one: the part of the type invariant that makes it inductive.             *)
HandleOK ==
  \A m \in Machines :
    /\ pc[m] \in CreateSteps => phase[m] = "creating"
    /\ pc[m] \in RemoveSteps => phase[m] = "deleting"
    /\ pc[m] \in PowerSteps => phase[m] = "active"
    /\ pc[m] = "clone" => pick[m] \in IDs
    /\ pc[m] \in {"scan", "clone"} => attempt[m] \in 1..MaxAttempts
    /\ pc[m] \in HoldingSteps => d[m].vmid \in IDs
    /\ phase[m] = "active" => rec[m].vmid \in IDs

TypeInv == TypeOK /\ HandleOK

LEMMA StepKinds ==
  /\ CreateSteps \subseteq Steps /\ RemoveSteps \subseteq Steps
  /\ PowerSteps \subseteq Steps
  /\ HoldingSteps \subseteq Steps
BY DEF CreateSteps, RemoveSteps, PowerSteps, Steps, HoldingSteps

LEMMA GotoType ==
  ASSUME MachineTypeOK, NEW m \in Machines, NEW step \in Steps, Goto(m, step)
  PROVE  MachineTypeOK'
BY DEF MachineTypeOK, Goto

LEMMA EndsType ==
  ASSUME MachineTypeOK, NEW m \in Machines, NEW ph \in Phases,
         NEW r \in Record, Ends(m, ph, r)
  PROVE  MachineTypeOK'
BY DEF MachineTypeOK, Ends, Steps, NoRecord, Record

LEMMA BudgetType ==
  ASSUME BudgetTypeOK, NEW call, NEW failing, Healthy \/ Fault(call, failing)
  PROVE  BudgetTypeOK'
BY DEF BudgetTypeOK, Healthy, Fault, budgetVars

LEMMA PutGuestType ==
  ASSUME ClusterTypeOK, NEW id, NEW o \in Owners \cup {None},
         NEW node \in Nodes \cup {NoNode}, NEW on \in BOOLEAN,
         PutGuest(id, o, node, on), ha' \subseteq IDs
  PROVE  ClusterTypeOK'
BY DEF ClusterTypeOK, PutGuest

LEMMA SetPowerType ==
  ASSUME ClusterTypeOK, NEW id, NEW on \in BOOLEAN, SetPower(id, on)
  PROVE  ClusterTypeOK'
BY DEF ClusterTypeOK, SetPower

USE DEF Unaffected, clusterVars, machineVars

LEMMA GotoHandle ==
  ASSUME TypeInv, NEW m \in Machines, NEW step \in Steps, Goto(m, step),
         step \notin {"scan", "clone"},
         step \in CreateSteps => phase[m] = "creating",
         step \in RemoveSteps => phase[m] = "deleting",
         step \in PowerSteps => phase[m] = "active",
         step \in HoldingSteps => d[m].vmid \in IDs
  PROVE  MachineTypeOK' /\ HandleOK'
<1>1. MachineTypeOK'
  BY GotoType DEF TypeInv, TypeOK
<1>2. HandleOK'
  BY DEF TypeInv, TypeOK, MachineTypeOK, HandleOK, Goto
<1>3. QED
  BY <1>1, <1>2

LEMMA EndsHandle ==
  ASSUME TypeInv, NEW m \in Machines, NEW ph \in Phases, NEW r \in Record,
         Ends(m, ph, r), ph = "active" => r.vmid \in IDs
  PROVE  MachineTypeOK' /\ HandleOK'
<1>1. MachineTypeOK'
  BY EndsType DEF TypeInv, TypeOK
<1>2. "idle" \notin CreateSteps \cup RemoveSteps \cup PowerSteps \cup HoldingSteps
  BY DEF CreateSteps, RemoveSteps, PowerSteps, HoldingSteps
<1>3. HandleOK'
  BY <1>2 DEF TypeInv, TypeOK, MachineTypeOK, HandleOK, Ends
<1>4. QED
  BY <1>1, <1>3

LEMMA CreateFailsHandle ==
  ASSUME TypeInv, NEW m \in Machines, CreateFails(m)
  PROVE  MachineTypeOK' /\ HandleOK'
<1>1. (IF SaveOnFailure THEN d[m] ELSE rec[m]) \in Record
  BY DEF TypeInv, TypeOK, MachineTypeOK
<1>2. QED
  BY <1>1, EndsHandle DEF CreateFails, Phases

LEMMA UnchangedMachine ==
  ASSUME TypeInv, UNCHANGED machineVars
  PROVE  MachineTypeOK' /\ HandleOK'
BY DEF TypeInv, TypeOK, MachineTypeOK, HandleOK

LEMMA UnaffectedType ==
  ASSUME ClusterTypeOK, Unaffected
  PROVE  ClusterTypeOK'
BY DEF ClusterTypeOK

LEMMA DestroyType ==
  ASSUME ClusterTypeOK, NEW id, DestroyGuest(id)
  PROVE  ClusterTypeOK'
BY PutGuestType DEF ClusterTypeOK, DestroyGuest

LEMMA CloneType ==
  ASSUME ClusterTypeOK, NEW id, NEW m \in Machines, NEW node \in Candidates,
         PutGuest(id, m, node, FALSE), UNCHANGED ha
  PROVE  ClusterTypeOK'
BY PutGuestType DEF ClusterTypeOK, Owners

(* Every step of the pipeline is a create step that holds an id.            *)
LEMMA AdvanceHandle ==
  ASSUME TypeInv, NEW m \in Machines, Advance(m),
         pc[m] \in PreBootSteps \cup {"guest", "register"}
  PROVE  MachineTypeOK' /\ HandleOK'
<1>1. pc[m] \in CreateSteps /\ pc[m] \in HoldingSteps
  BY DEF PreBootSteps, Requested, CreateSteps, RemoveSteps, PowerSteps,
         HoldingSteps, Steps
<1>2. After(pc[m]) \in Requested
  BY AfterIsLater
<1>3. /\ After(pc[m]) \in Steps /\ After(pc[m]) \notin {"scan", "clone"}
      /\ After(pc[m]) \notin RemoveSteps /\ After(pc[m]) \notin PowerSteps
  BY <1>2 DEF PreBootSteps, Requested, CreateSteps, RemoveSteps, PowerSteps,
              HoldingSteps, Steps
<1>4. phase[m] = "creating" /\ d[m].vmid \in IDs
  BY <1>1 DEF TypeInv, HandleOK
<1>5. QED
  BY <1>3, <1>4, GotoHandle DEF Advance

LEMMA StepFailsHandle ==
  ASSUME TypeInv, NEW m \in Machines, StepFails(m),
         pc[m] \in PreBootSteps \cup {"guest", "register"}
  PROVE  MachineTypeOK' /\ HandleOK'
<1>1. phase[m] = "creating" /\ d[m].vmid \in IDs
  BY DEF TypeInv, HandleOK, PreBootSteps, Requested, CreateSteps,
         RemoveSteps, PowerSteps, HoldingSteps, Steps
<1>2. QED
  BY <1>1, GotoHandle
     DEF StepFails, PreBootSteps, Requested, CreateSteps, RemoveSteps,
         PowerSteps, HoldingSteps, Steps

(* The claim: what BeginCreate, Resolve, Scan and Clone do to the types.    *)
LEMMA ClaimType ==
  ASSUME TypeInv, NEW m \in Machines,
         BeginCreate(m) \/ Resolve(m) \/ Scan(m) \/ Clone(m)
  PROVE  TypeInv'
<1>1. CASE BeginCreate(m)
  <2>1. ClusterTypeOK' /\ BudgetTypeOK'
    BY <1>1, UnaffectedType, BudgetType DEF TypeInv, TypeOK, BeginCreate
  <2>2. MachineTypeOK' /\ HandleOK'
    BY <1>1 DEF TypeInv, TypeOK, MachineTypeOK, HandleOK, BeginCreate,
                Phases, PreBootSteps, Requested, CreateSteps, RemoveSteps,
                PowerSteps, HoldingSteps, Steps
  <2>3. QED
    BY <2>1, <2>2 DEF TypeInv, TypeOK
<1>2. CASE Resolve(m)
  <2>1. ClusterTypeOK' /\ BudgetTypeOK'
    BY <1>2, UnaffectedType, BudgetType DEF TypeInv, TypeOK, Resolve
  <2>2. CASE CreateFails(m)
    BY <2>1, <2>2, CreateFailsHandle DEF TypeInv, TypeOK
  <2>3. CASE ~CreateFails(m)
    <3>1. MachineTypeOK'
      <4>1. d[m].vmid \in IDs \cup {0}
        BY DEF TypeInv, TypeOK, MachineTypeOK, Record
      <4>2. 1 \in 0..MaxAttempts
        OBVIOUS
      <4>3. /\ pick' = [pick EXCEPT ![m] = d[m].vmid]
            /\ attempt' = [attempt EXCEPT ![m] = 1]
            /\ pc' \in {[pc EXCEPT ![m] = "scan"], [pc EXCEPT ![m] = "clone"]}
            /\ UNCHANGED <<phase, rec, d>>
        BY <1>2, <2>3, Zenon DEF Resolve
      <4>4. {"scan", "clone"} \subseteq Steps
        BY DEF Steps, CreateSteps
      <4>5. QED
        BY <4>1, <4>2, <4>3, <4>4 DEF TypeInv, TypeOK, MachineTypeOK
    <3>2. HandleOK'
      BY <1>2, <2>3
         DEF TypeInv, TypeOK, MachineTypeOK, HandleOK, Resolve, Record,
             PreBootSteps, Requested, CreateSteps, RemoveSteps, PowerSteps,
             HoldingSteps, Steps
    <3>3. QED
      BY <2>1, <3>1, <3>2 DEF TypeInv, TypeOK
  <2>4. QED
    BY <2>2, <2>3
<1>3. CASE Scan(m)
  <2>1. ClusterTypeOK' /\ BudgetTypeOK'
    BY <1>3, UnaffectedType, BudgetType DEF TypeInv, TypeOK, Scan
  <2>2. CASE CreateFails(m)
    BY <2>1, <2>2, CreateFailsHandle DEF TypeInv, TypeOK
  <2>3. CASE ~CreateFails(m)
    <3>1. FreeIDs # {} /\ LowestOf(FreeIDs) \in IDs
      <4>1. FreeIDs \subseteq IDs /\ FreeIDs \subseteq Nat
        BY DEF FreeIDs
      <4>2. QED
        BY <1>3, <2>3, <4>1, LowestIsMember DEF Scan
    <3>2. MachineTypeOK'
      BY <1>3, <2>3, <3>1
         DEF TypeInv, TypeOK, MachineTypeOK, Scan, PreBootSteps, Requested,
             CreateSteps, RemoveSteps, PowerSteps, HoldingSteps, Steps
    <3>3. HandleOK'
      BY <1>3, <2>3, <3>1
         DEF TypeInv, TypeOK, MachineTypeOK, HandleOK, Scan, PreBootSteps,
             Requested, CreateSteps, RemoveSteps, PowerSteps, HoldingSteps,
             Steps
    <3>4. QED
      BY <2>1, <3>2, <3>3 DEF TypeInv, TypeOK
  <2>4. QED
    BY <2>2, <2>3
<1>4. CASE Clone(m)
  <2>0. pick[m] \in IDs /\ phase[m] = "creating" /\ attempt[m] \in 1..MaxAttempts
    BY <1>4 DEF TypeInv, HandleOK, Clone, CreateSteps
  <2>1. CASE CloneLands(m)
    <3>1. ClusterTypeOK' /\ BudgetTypeOK'
      BY <2>1, CloneType, BudgetType DEF TypeInv, TypeOK, CloneLands
    <3>2. MachineTypeOK'
      BY <2>0, <2>1
         DEF TypeInv, TypeOK, MachineTypeOK, CloneLands, Record,
             PreBootSteps, Requested, CreateSteps, RemoveSteps, PowerSteps,
             HoldingSteps, Steps
    <3>3. HandleOK'
      BY <2>0, <2>1
         DEF TypeInv, TypeOK, MachineTypeOK, HandleOK, CloneLands,
             PreBootSteps, Requested, CreateSteps, RemoveSteps, PowerSteps,
             HoldingSteps, Steps
    <3>4. QED
      BY <3>1, <3>2, <3>3 DEF TypeInv, TypeOK
  <2>2. CASE CloneTaken(m)
    <3>1. ClusterTypeOK' /\ BudgetTypeOK'
      BY <2>2, UnaffectedType, BudgetType DEF TypeInv, TypeOK, CloneTaken
    <3>2. CASE CreateFails(m)
      BY <3>1, <3>2, CreateFailsHandle DEF TypeInv, TypeOK
    <3>3. CASE ~CreateFails(m)
      <4>1. MachineTypeOK'
        BY <2>0, <2>2, <3>3
           DEF TypeInv, TypeOK, MachineTypeOK, CloneTaken, PreBootSteps,
               Requested, CreateSteps, RemoveSteps, PowerSteps, HoldingSteps,
               Steps
      <4>2. HandleOK'
        BY <2>0, <2>2, <3>3
           DEF TypeInv, TypeOK, MachineTypeOK, HandleOK, CloneTaken,
               PreBootSteps, Requested, CreateSteps, RemoveSteps, PowerSteps,
               HoldingSteps, Steps
      <4>3. QED
        BY <3>1, <4>1, <4>2 DEF TypeInv, TypeOK
    <3>4. QED
      BY <3>2, <3>3
  <2>3. CASE CloneErrors(m)
    <3>1. ClusterTypeOK'
      BY <2>3, UnaffectedType, CloneType DEF TypeInv, TypeOK, CloneErrors
    <3>2. BudgetTypeOK'
      BY <2>3, BudgetType DEF TypeInv, TypeOK, CloneErrors
    <3>3. QED
      BY <2>3, <3>1, <3>2, CreateFailsHandle DEF TypeInv, TypeOK, CloneErrors
  <2>4. QED
    BY <1>4, <2>1, <2>2, <2>3 DEF Clone
<1>5. QED
  BY <1>1, <1>2, <1>3, <1>4

(* finalizeCreate, the return and the rollback.                             *)
LEMMA FinalizeType ==
  ASSUME TypeInv, NEW m \in Machines,
         \/ Prepare(m) \/ StartVM(m) \/ WaitForGuest(m) \/ AddHAResource(m)
         \/ CreateReturns(m) \/ Rollback(m)
  PROVE  TypeInv'
<1>1. CASE Prepare(m)
  <2>1. ClusterTypeOK' /\ BudgetTypeOK'
    BY <1>1, UnaffectedType, BudgetType DEF TypeInv, TypeOK, Prepare, Advance
  <2>2. MachineTypeOK' /\ HandleOK'
    BY <1>1, AdvanceHandle, StepFailsHandle DEF Prepare, PreBootSteps
  <2>3. QED
    BY <2>1, <2>2 DEF TypeInv, TypeOK
<1>2. CASE StartVM(m)
  <2>1. ClusterTypeOK'
    BY <1>2, UnaffectedType, SetPowerType DEF TypeInv, TypeOK, StartVM
  <2>2. BudgetTypeOK'
    BY <1>2, BudgetType DEF TypeInv, TypeOK, StartVM, Advance
  <2>3. MachineTypeOK' /\ HandleOK'
    BY <1>2, AdvanceHandle, StepFailsHandle DEF StartVM, PreBootSteps
  <2>4. QED
    BY <2>1, <2>2, <2>3 DEF TypeInv, TypeOK
<1>3. CASE WaitForGuest(m)
  <2>1. ClusterTypeOK' /\ BudgetTypeOK'
    BY <1>3, UnaffectedType, BudgetType
       DEF TypeInv, TypeOK, WaitForGuest, Advance
  <2>2. MachineTypeOK' /\ HandleOK'
    BY <1>3, AdvanceHandle, StepFailsHandle DEF WaitForGuest
  <2>3. QED
    BY <2>1, <2>2 DEF TypeInv, TypeOK
<1>4. CASE AddHAResource(m)
  <2>1. d[m].vmid \in IDs
    BY <1>4 DEF TypeInv, HandleOK, AddHAResource, PreBootSteps, Requested,
                CreateSteps, RemoveSteps, PowerSteps, HoldingSteps, Steps
  <2>2. ClusterTypeOK'
    BY <1>4, <2>1 DEF TypeInv, TypeOK, ClusterTypeOK, AddHAResource
  <2>3. BudgetTypeOK'
    BY <1>4, BudgetType DEF TypeInv, TypeOK, AddHAResource, Advance
  <2>4. MachineTypeOK' /\ HandleOK'
    BY <1>4, AdvanceHandle, StepFailsHandle DEF AddHAResource
  <2>5. QED
    BY <2>2, <2>3, <2>4 DEF TypeInv, TypeOK
<1>5. CASE CreateReturns(m)
  <2>1. d[m] \in Record /\ d[m].vmid \in IDs
    BY <1>5 DEF TypeInv, TypeOK, MachineTypeOK, HandleOK, CreateReturns,
                PreBootSteps, Requested, CreateSteps, RemoveSteps,
                PowerSteps, HoldingSteps, Steps
  <2>2. ClusterTypeOK' /\ BudgetTypeOK'
    BY <1>5, UnaffectedType, BudgetType DEF TypeInv, TypeOK, CreateReturns
  <2>3. MachineTypeOK' /\ HandleOK'
    BY <1>5, <2>1, EndsHandle DEF CreateReturns, Phases
  <2>4. QED
    BY <2>2, <2>3 DEF TypeInv, TypeOK
<1>6. CASE Rollback(m)
  <2>1. ClusterTypeOK'
    BY <1>6, UnaffectedType, DestroyType
       DEF TypeInv, TypeOK, Rollback, RemoveSucceeds, RemoveErrors
  <2>2. BudgetTypeOK'
    BY <1>6, BudgetType
       DEF TypeInv, TypeOK, Rollback, RemoveSucceeds, RemoveErrors
  <2>3. MachineTypeOK' /\ HandleOK'
    BY <1>6, CreateFailsHandle DEF Rollback
  <2>4. QED
    BY <2>1, <2>2, <2>3 DEF TypeInv, TypeOK
<1>7. QED
  BY <1>1, <1>2, <1>3, <1>4, <1>5, <1>6

(* Remove.                                                                  *)
LEMMA RemoveType ==
  ASSUME TypeInv, NEW m \in Machines,
         BeginRemove(m) \/ RemoveNothing(m) \/ Remove(m)
  PROVE  TypeInv'
<1>1. CASE BeginRemove(m)
  <2>1. ClusterTypeOK' /\ BudgetTypeOK'
    BY <1>1, UnaffectedType, BudgetType DEF TypeInv, TypeOK, BeginRemove
  <2>a. PICK node \in Nodes \cup {NoNode} :
          d' = [d EXCEPT ![m] = [vmid |-> rec[m].vmid, node |-> node]]
    <3>1. rec[m].node \in Nodes \cup {NoNode}
      BY DEF TypeInv, TypeOK, MachineTypeOK, Record
    <3>2. QED
      BY <1>1, <3>1 DEF BeginRemove
  <2>b. PICK step \in {"unregister", "state"} : pc' = [pc EXCEPT ![m] = step]
    BY <1>1, Zenon DEF BeginRemove
  <2>3. rec[m].vmid \in IDs
    BY <1>1 DEF TypeInv, TypeOK, MachineTypeOK, Record, BeginRemove
  <2>4. MachineTypeOK'
    BY <1>1, <2>a, <2>b, <2>3
       DEF TypeInv, TypeOK, MachineTypeOK, BeginRemove, Record, Phases,
           PreBootSteps, Requested, CreateSteps, RemoveSteps, PowerSteps,
           HoldingSteps, Steps
  <2>5. HandleOK'
    BY <1>1, <2>a, <2>b, <2>3
       DEF TypeInv, TypeOK, MachineTypeOK, HandleOK, BeginRemove, Phases,
           PreBootSteps, Requested, CreateSteps, RemoveSteps, PowerSteps,
           HoldingSteps, Steps
  <2>6. QED
    BY <2>1, <2>4, <2>5 DEF TypeInv, TypeOK
<1>2. CASE RemoveNothing(m)
  <2>1. ClusterTypeOK' /\ BudgetTypeOK'
    BY <1>2, UnaffectedType, BudgetType DEF TypeInv, TypeOK, RemoveNothing
  <2>2. MachineTypeOK' /\ HandleOK'
    BY <1>2, EndsHandle DEF RemoveNothing, Phases, NoRecord, Record
  <2>3. QED
    BY <2>1, <2>2 DEF TypeInv, TypeOK
<1>3. CASE RemoveHAResource(m)
  <2>1. ClusterTypeOK'
    BY <1>3 DEF TypeInv, TypeOK, ClusterTypeOK, RemoveHAResource
  <2>2. BudgetTypeOK'
    BY <1>3, BudgetType DEF TypeInv, TypeOK, RemoveHAResource
  <2>3. MachineTypeOK' /\ HandleOK'
    BY <1>3, GotoHandle
       DEF TypeInv, TypeOK, HandleOK, RemoveHAResource, PreBootSteps,
           Requested, CreateSteps, RemoveSteps, PowerSteps, HoldingSteps,
           Steps
  <2>4. QED
    BY <2>1, <2>2, <2>3 DEF TypeInv, TypeOK
<1>4. CASE ReadStateForRemove(m)
  <2>1. ClusterTypeOK' /\ BudgetTypeOK'
    BY <1>4, UnaffectedType, BudgetType DEF TypeInv, TypeOK, ReadStateForRemove
  <2>2. phase[m] = "deleting" /\ d[m].vmid \in IDs
    BY <1>4 DEF TypeInv, HandleOK, ReadStateForRemove, PreBootSteps,
                Requested, CreateSteps, RemoveSteps, PowerSteps,
                HoldingSteps, Steps
  <2>3. Goto(m, "kill") \/ Goto(m, "delete")
    BY <1>4 DEF ReadStateForRemove
  <2>4. MachineTypeOK' /\ HandleOK'
    BY <2>2, <2>3, GotoHandle
       DEF PreBootSteps, Requested, CreateSteps, RemoveSteps, PowerSteps,
           HoldingSteps, Steps
  <2>5. QED
    BY <2>1, <2>4 DEF TypeInv, TypeOK
<1>5. CASE Kill(m)
  <2>1. ClusterTypeOK'
    BY <1>5, UnaffectedType, SetPowerType DEF TypeInv, TypeOK, Kill
  <2>2. BudgetTypeOK'
    BY <1>5, BudgetType DEF TypeInv, TypeOK, Kill
  <2>3. phase[m] = "deleting" /\ d[m].vmid \in IDs
    BY <1>5 DEF TypeInv, HandleOK, Kill, PreBootSteps, Requested,
                CreateSteps, RemoveSteps, PowerSteps, HoldingSteps, Steps
  <2>4. MachineTypeOK' /\ HandleOK'
    BY <1>5, <2>3, GotoHandle
       DEF Kill, PreBootSteps, Requested, CreateSteps, RemoveSteps,
           PowerSteps, HoldingSteps, Steps
  <2>5. QED
    BY <2>1, <2>2, <2>4 DEF TypeInv, TypeOK
<1>6. CASE Delete(m)
  <2>1. ClusterTypeOK'
    BY <1>6, UnaffectedType, DestroyType
       DEF TypeInv, TypeOK, Delete, RemoveSucceeds, RemoveErrors
  <2>2. BudgetTypeOK'
    BY <1>6, BudgetType
       DEF TypeInv, TypeOK, Delete, RemoveSucceeds, RemoveErrors
  <2>3. rec[m] \in Record /\ NoRecord \in Record
    BY DEF TypeInv, TypeOK, MachineTypeOK, NoRecord, Record
  <2>4. MachineTypeOK' /\ HandleOK'
    BY <1>6, <2>3, EndsHandle DEF Delete, Phases
  <2>5. QED
    BY <2>1, <2>2, <2>4 DEF TypeInv, TypeOK
<1>7. QED
  BY <1>1, <1>2, <1>3, <1>4, <1>5, <1>6 DEF Remove

(* Start, Stop and Kill of a machine in service, and a crash anywhere.      *)
LEMMA PowerType ==
  ASSUME TypeInv, NEW m \in Machines,
         \/ \E step \in {"read_state", "power_off"} : BeginPower(m, step)
         \/ PowerOp(m)
         \/ Crash(m)
  PROVE  TypeInv'
<1>0. phase[m] \in Phases /\ rec[m] \in Record
  BY DEF TypeInv, TypeOK, MachineTypeOK
<1>1. ASSUME NEW step \in {"read_state", "power_off"}, BeginPower(m, step)
      PROVE  TypeInv'
  <2>1. ClusterTypeOK' /\ BudgetTypeOK'
    BY <1>1, UnaffectedType, BudgetType DEF TypeInv, TypeOK, BeginPower
  <2>2. MachineTypeOK'
    BY <1>1 DEF TypeInv, TypeOK, MachineTypeOK, BeginPower, PreBootSteps,
                Requested, CreateSteps, RemoveSteps, PowerSteps,
                HoldingSteps, Steps
  <2>3. HandleOK'
    BY <1>1 DEF TypeInv, TypeOK, MachineTypeOK, HandleOK, BeginPower,
                PreBootSteps, Requested, CreateSteps, RemoveSteps,
                PowerSteps, HoldingSteps, Steps
  <2>4. QED
    BY <2>1, <2>2, <2>3 DEF TypeInv, TypeOK
<1>2. ASSUME PowerDone(m), pc[m] \in PowerSteps
      PROVE  MachineTypeOK' /\ HandleOK'
  <2>1. phase[m] = "active" => rec[m].vmid \in IDs
    BY DEF TypeInv, HandleOK
  <2>2. QED
    BY <1>0, <1>2, <2>1, EndsHandle DEF PowerDone
<1>3. CASE ReadStateForStart(m)
  <2>1. ClusterTypeOK' /\ BudgetTypeOK'
    BY <1>3, UnaffectedType, BudgetType DEF TypeInv, TypeOK, ReadStateForStart
  <2>2. phase[m] = "active" /\ d[m].vmid \in IDs /\ pc[m] \in PowerSteps
    BY <1>3 DEF TypeInv, HandleOK, ReadStateForStart, PreBootSteps,
                Requested, CreateSteps, RemoveSteps, PowerSteps,
                HoldingSteps, Steps
  <2>3. Goto(m, "power_on") \/ PowerDone(m)
    BY <1>3 DEF ReadStateForStart
  <2>4. MachineTypeOK' /\ HandleOK'
    BY <1>2, <2>2, <2>3, GotoHandle
       DEF PreBootSteps, Requested, CreateSteps, RemoveSteps, PowerSteps,
           HoldingSteps, Steps
  <2>5. QED
    BY <2>1, <2>4 DEF TypeInv, TypeOK
<1>4. CASE Power(m)
  <2>1. ClusterTypeOK'
    BY <1>4, UnaffectedType, SetPowerType DEF TypeInv, TypeOK, Power
  <2>2. BudgetTypeOK'
    BY <1>4, BudgetType DEF TypeInv, TypeOK, Power
  <2>3. MachineTypeOK' /\ HandleOK'
    BY <1>2, <1>4 DEF Power, PowerSteps
  <2>4. QED
    BY <2>1, <2>2, <2>3 DEF TypeInv, TypeOK
<1>5. CASE Crash(m)
  <2>1. ClusterTypeOK'
    BY <1>5, UnaffectedType DEF TypeInv, TypeOK, Crash
  <2>2. BudgetTypeOK'
    BY <1>5 DEF TypeInv, TypeOK, BudgetTypeOK, Crash
  <2>3. (IF phase[m] = "creating" THEN "failed" ELSE phase[m]) \in Phases
    BY <1>0 DEF Phases
  <2>4. phase[m] = "active" => rec[m].vmid \in IDs
    BY DEF TypeInv, HandleOK
  <2>5. MachineTypeOK' /\ HandleOK'
    BY <1>0, <1>5, <2>3, <2>4, EndsHandle DEF Crash
  <2>6. QED
    BY <2>1, <2>2, <2>5 DEF TypeInv, TypeOK
<1>6. QED
  BY <1>1, <1>3, <1>4, <1>5 DEF PowerOp

LEMMA EnvironmentType ==
  ASSUME TypeInv, Environment
  PROVE  TypeInv'
<1>1. MachineTypeOK' /\ HandleOK'
  BY UnchangedMachine DEF Environment
<1>2. BudgetTypeOK'
  BY DEF TypeInv, TypeOK, BudgetTypeOK, Environment, budgetVars
<1>3. ClusterTypeOK'
  <2>1. ASSUME NEW id \in IDs, ForeignDestroy(id) \/ OperatorDestroy(id)
        PROVE  ClusterTypeOK'
    BY <2>1, PutGuestType, DestroyType
       DEF TypeInv, TypeOK, ClusterTypeOK, ForeignDestroy, OperatorDestroy
  <2>2. ASSUME NEW id \in IDs, ForeignCreate(id)
        PROVE  ClusterTypeOK'
    BY <2>2, PutGuestType
       DEF TypeInv, TypeOK, ClusterTypeOK, ForeignCreate, Owners
  <2>3. ASSUME NEW id \in IDs, HARestart(id)
        PROVE  ClusterTypeOK'
    BY <2>3, SetPowerType DEF TypeInv, TypeOK, HARestart
  <2>4. ASSUME NEW id \in IDs, NEW node \in Nodes, HAMigrate(id, node)
        PROVE  ClusterTypeOK'
    BY <2>4 DEF TypeInv, TypeOK, ClusterTypeOK, HAMigrate
  <2>5. QED
    BY <2>1, <2>2, <2>3, <2>4 DEF Environment
<1>4. QED
  BY <1>1, <1>2, <1>3 DEF TypeInv, TypeOK

LEMMA TypeInit == Init => TypeInv
<1> SUFFICES ASSUME Init PROVE TypeInv
  OBVIOUS
<1>1. ClusterTypeOK /\ BudgetTypeOK
  BY DEF Init, ClusterInit, ClusterTypeOK, BudgetTypeOK
<1>2. \A m \in Machines : Flags(m) \in Record
  BY DEF Flags, Record
<1>3. MachineTypeOK
  BY <1>2 DEF Init, MachineTypeOK, NoRecord, Record, Phases, Steps
<1>4. HandleOK
  BY DEF Init, HandleOK, PreBootSteps, Requested, CreateSteps, RemoveSteps,
         PowerSteps, HoldingSteps, Steps
<1>5. QED
  BY <1>1, <1>3, <1>4 DEF TypeInv, TypeOK

LEMMA TypeStep == TypeInv /\ [Next]_vars => TypeInv'
<1> SUFFICES ASSUME TypeInv, [Next]_vars PROVE TypeInv'
  OBVIOUS
<1>1. CASE UNCHANGED vars
  <2>1. ClusterTypeOK' /\ BudgetTypeOK'
    BY <1>1 DEF TypeInv, TypeOK, ClusterTypeOK, BudgetTypeOK, vars, budgetVars
  <2>2. MachineTypeOK' /\ HandleOK'
    BY <1>1, UnchangedMachine DEF vars
  <2>3. QED
    BY <2>1, <2>2 DEF TypeInv, TypeOK
<1>2. ASSUME NEW m \in Machines, Rancher(m) \/ Driver(m) \/ Crash(m)
      PROVE  TypeInv'
  BY <1>2, ClaimType, FinalizeType, RemoveType, PowerType
     DEF Rancher, Driver, Create
<1>3. CASE Environment
  BY <1>3, EnvironmentType
<1>4. QED
  BY <1>1, <1>2, <1>3 DEF Next

(* Every reachable state is well typed, and every process that has passed   *)
(* its clone, or runs Remove or a power operation, works on a real VMID.    *)
THEOREM TypeCorrect == Spec => []TypeOK
<1>1. TypeInv => TypeOK
  BY DEF TypeInv
<1>2. QED
  BY TypeInit, TypeStep, <1>1, PTL DEF Spec

-----------------------------------------------------------------------------
(* Ownership. WorksOnOwnVM is not inductive by itself: what a process loads *)
(* is the saved record, so the record has to name an owned VM for as long   *)
(* as Rancher may start an operation with it, and no VM otherwise.          *)
OwnsAt(m) ==
  /\ pc[m] \in HoldingSteps => owner[d[m].vmid] = m
  /\ rec[m].vmid # 0 => rec[m].vmid \in IDs /\ owner[rec[m].vmid] = m
  /\ phase[m] \in {"active", "deleting"} => rec[m].vmid # 0
  /\ phase[m] \in {"new", "creating"} => rec[m].vmid = 0
  /\ phase[m] = "creating" => pc[m] \in CreateSteps
  /\ pc[m] \in {"resolve", "scan", "clone"} => d[m].vmid = 0

OwnInv == \A m \in Machines : OwnsAt(m)

Step(m) == Rancher(m) \/ Driver(m) \/ Crash(m)

(* A machine's step moves no other machine's process or record.             *)
LEMMA StepMovesOwn ==
  ASSUME TypeInv, NEW m \in Machines, Step(m),
         NEW n \in Machines \ {m}
  PROVE  /\ pc'[n] = pc[n] /\ phase'[n] = phase[n]
         /\ rec'[n] = rec[n] /\ d'[n] = d[n]
<1> USE DEF Goto, Ends, CreateFails, StepFails, Advance, PowerDone, TypeInv,
            TypeOK, MachineTypeOK
<1>1. CASE Rancher(m)
  BY <1>1 DEF Rancher, BeginCreate, BeginRemove, RemoveNothing, BeginPower
<1>2. CASE Resolve(m) \/ Scan(m) \/ Clone(m)
  BY <1>2 DEF Resolve, Scan, Clone, CloneLands, CloneTaken, CloneErrors
<1>3. CASE Prepare(m) \/ StartVM(m) \/ WaitForGuest(m) \/ AddHAResource(m)
  BY <1>3 DEF Prepare, StartVM, WaitForGuest, AddHAResource
<1>4. CASE CreateReturns(m) \/ Rollback(m) \/ Remove(m)
  BY <1>4 DEF CreateReturns, Rollback, Remove, RemoveHAResource,
              ReadStateForRemove, Kill, Delete
<1>5. CASE PowerOp(m) \/ Crash(m)
  BY <1>5 DEF PowerOp, ReadStateForStart, Power, Crash
<1>6. QED
  BY <1>1, <1>2, <1>3, <1>4, <1>5 DEF Step, Driver, Create

(* The three ways a driver step changes a guest all hit an unused VMID or   *)
(* the machine's own VM.                                                    *)
Untouched(id) ==
  owner'[id] = owner[id] /\ host'[id] = host[id] /\ running'[id] = running[id]

LEMMA StepTouchesOwn ==
  ASSUME TypeInv, OwnInv, NEW m \in Machines, Step(m),
         NEW id \in IDs, owner[id] \notin {m, None}
  PROVE  Untouched(id)
<1> USE DEF Untouched, TypeInv, TypeOK, ClusterTypeOK, OwnInv, OwnsAt
<1>1. ASSUME NEW other, NEW o, NEW node, NEW on, PutGuest(other, o, node, on),
             other # id
      PROVE  Untouched(id)
  BY <1>1 DEF PutGuest
<1>2. ASSUME pc[m] \in HoldingSteps
      PROVE  d[m].vmid # id
  BY <1>2
<1>3. ASSUME pc[m] \in HoldingSteps, DestroyGuest(d[m].vmid)
      PROVE  Untouched(id)
  BY <1>1, <1>2, <1>3 DEF DestroyGuest
<1>4. ASSUME pc[m] \in HoldingSteps, NEW on, SetPower(d[m].vmid, on)
      PROVE  Untouched(id)
  BY <1>2, <1>4 DEF SetPower
<1>5. CASE Rancher(m) \/ Resolve(m) \/ Scan(m) \/ Prepare(m)
             \/ WaitForGuest(m) \/ CreateReturns(m) \/ Crash(m)
  BY <1>5 DEF Rancher, BeginCreate, BeginRemove, RemoveNothing, BeginPower,
              Resolve, Scan, Prepare, WaitForGuest, CreateReturns, Crash
<1>6. CASE Clone(m)
  <2>1. CASE Unaffected
    BY <2>1
  <2>2. CASE ~Unaffected
    <3>1. pick[m] # id
      BY <1>6, <2>2 DEF Clone, CloneLands, CloneTaken, CloneErrors, Exists
    <3>2. QED
      BY <1>1, <1>6, <2>2, <3>1 DEF Clone, CloneLands, CloneTaken, CloneErrors
  <2>3. QED
    BY <2>1, <2>2
<1>7. CASE StartVM(m)
  BY <1>4, <1>7 DEF StartVM, PreBootSteps, Requested, CreateSteps,
                    RemoveSteps, PowerSteps, HoldingSteps, Steps
<1>8. CASE AddHAResource(m) \/ RemoveHAResource(m) \/ ReadStateForRemove(m)
             \/ ReadStateForStart(m)
  BY <1>8 DEF AddHAResource, RemoveHAResource, ReadStateForRemove,
              ReadStateForStart
<1>9. CASE Rollback(m) \/ Delete(m)
  <2>1. pc[m] \in HoldingSteps
    BY <1>9 DEF Rollback, Delete, PreBootSteps, Requested, CreateSteps,
                RemoveSteps, PowerSteps, HoldingSteps, Steps
  <2>2. Unaffected \/ DestroyGuest(d[m].vmid)
    BY <1>9 DEF Rollback, Delete, RemoveSucceeds, RemoveErrors
  <2>3. QED
    BY <1>3, <2>1, <2>2
<1>10. CASE Kill(m) \/ Power(m)
  <2>1. pc[m] \in HoldingSteps
    BY <1>10 DEF Kill, Power, PreBootSteps, Requested, CreateSteps,
                 RemoveSteps, PowerSteps, HoldingSteps, Steps
  <2>2. Unaffected \/ \E on : SetPower(d[m].vmid, on)
    BY <1>10 DEF Kill, Power
  <2>3. QED
    BY <1>4, <2>1, <2>2
<1>11. QED
  BY <1>5, <1>6, <1>7, <1>8, <1>9, <1>10
     DEF Step, Driver, Create, Remove, PowerOp

(* ... and keeps the machine's own part of the invariant.                   *)
LEMMA StepOwns ==
  ASSUME HandlesStayGood, TypeInv, OwnInv, NEW m \in Machines, Step(m)
  PROVE  OwnsAt(m)'
<1> USE DEF TypeInv, TypeOK, MachineTypeOK, ClusterTypeOK, HandleOK, OwnInv,
            OwnsAt
<1>0. /\ "idle" \notin HoldingSteps /\ HoldingSteps \subseteq Steps
      /\ CreateSteps \cup RemoveSteps \cup PowerSteps \subseteq Steps
  BY DEF PreBootSteps, Requested, CreateSteps, RemoveSteps, PowerSteps,
         HoldingSteps, Steps
<1>1. ASSUME CreateFails(m), pc[m] \in {"resolve", "scan", "clone"}
      PROVE  OwnsAt(m)'
  BY <1>0, <1>1 DEF CreateFails, Ends, CreateSteps
<1>2. ASSUME NEW step \in HoldingSteps, Goto(m, step), pc[m] \in HoldingSteps,
             pc[m] \in CreateSteps => step \in CreateSteps,
             owner' = owner
      PROVE  OwnsAt(m)'
  BY <1>0, <1>2 DEF Goto, HoldingSteps
<1>3. ASSUME pc[m] \in PreBootSteps \cup {"guest", "register"},
             Advance(m) \/ StepFails(m), owner' = owner
      PROVE  OwnsAt(m)'
  <2>1. PICK step \in CreateSteps \cap HoldingSteps : Goto(m, step)
    <3>1. After(pc[m]) \in CreateSteps \cap HoldingSteps
      <4>1. After(pc[m]) \in Requested
        BY <1>3, AfterIsLater
      <4>2. Requested \subseteq CreateSteps \cap HoldingSteps
        BY DEF Requested, CreateSteps, HoldingSteps, Steps
      <4>3. QED
        BY <4>1, <4>2
    <3>2. "rollback" \in CreateSteps \cap HoldingSteps
      BY DEF CreateSteps, HoldingSteps, Steps
    <3>3. QED
      BY <1>3, <3>1, <3>2 DEF Advance, StepFails
  <2>2. pc[m] \in HoldingSteps
    BY <1>0, <1>3 DEF PreBootSteps, Requested, CreateSteps, RemoveSteps,
                      PowerSteps, HoldingSteps, Steps
  <2>3. QED
    BY <1>2, <1>3, <2>1, <2>2
<1>4. CASE Rancher(m)
  <2>1. CASE BeginCreate(m)
    BY <1>0, <2>1 DEF BeginCreate, Phases, PreBootSteps, Requested,
                      CreateSteps, RemoveSteps, PowerSteps, HoldingSteps,
                      Steps
  <2>2. CASE BeginRemove(m)
    BY <1>0, <2>2 DEF BeginRemove, PreBootSteps, Requested, CreateSteps,
                      RemoveSteps, PowerSteps, HoldingSteps, Steps
  <2>3. CASE RemoveNothing(m)
    BY <1>0, <2>3 DEF RemoveNothing, Ends, NoRecord
  <2>4. ASSUME NEW step \in {"read_state", "power_off"}, BeginPower(m, step)
        PROVE  OwnsAt(m)'
    BY <1>0, <2>4 DEF BeginPower
  <2>5. QED
    BY <1>4, <2>1, <2>2, <2>3, <2>4 DEF Rancher
<1>5. CASE Resolve(m)
  BY <1>1, <1>5 DEF Resolve, PreBootSteps, Requested, CreateSteps,
                    RemoveSteps, PowerSteps, HoldingSteps, Steps
<1>6. CASE Scan(m)
  BY <1>1, <1>6 DEF Scan, PreBootSteps, Requested, CreateSteps, RemoveSteps,
                    PowerSteps, HoldingSteps, Steps
<1>7. CASE Clone(m)
  <2>1. CASE CreateFails(m)
    BY <1>1, <1>7, <2>1 DEF Clone
  <2>2. CASE CloneTaken(m) /\ ~CreateFails(m)
    BY <1>7, <2>2 DEF Clone, CloneTaken, PreBootSteps, Requested,
                      CreateSteps, RemoveSteps, PowerSteps, HoldingSteps,
                      Steps
  <2>3. CASE CloneLands(m)
    BY <1>7, <2>3 DEF Clone, CloneLands, PutGuest, PreBootSteps, Requested,
                      CreateSteps, RemoveSteps, PowerSteps, HoldingSteps,
                      Steps
  <2>4. QED
    BY <1>7, <2>1, <2>2, <2>3 DEF Clone, CloneErrors
<1>8. CASE Prepare(m) \/ StartVM(m) \/ WaitForGuest(m) \/ AddHAResource(m)
  <2>1. pc[m] \in PreBootSteps \cup {"guest", "register"}
    BY <1>8 DEF Prepare, StartVM, WaitForGuest, AddHAResource, PreBootSteps
  <2>2. owner' = owner
    BY <1>8 DEF Prepare, StartVM, WaitForGuest, AddHAResource, SetPower
  <2>3. Advance(m) \/ StepFails(m)
    BY <1>8 DEF Prepare, StartVM, WaitForGuest, AddHAResource
  <2>4. QED
    BY <1>3, <2>1, <2>2, <2>3
<1>9. CASE CreateReturns(m)
  BY <1>0, <1>9 DEF CreateReturns, Ends, PreBootSteps, Requested,
                    CreateSteps, RemoveSteps, PowerSteps, HoldingSteps, Steps
<1>10. CASE Rollback(m)
  <2>1. phase[m] = "creating" /\ pc[m] \in HoldingSteps
    BY <1>10 DEF Rollback, CreateSteps, HoldingSteps, Steps
  <2>2. CASE SaveOnFailure
    BY <1>0, <1>10, <2>1, <2>2
       DEF Rollback, CreateFails, Ends, HandlesStayGood
  <2>3. CASE ~SaveOnFailure
    BY <1>0, <1>10, <2>1, <2>3 DEF Rollback, CreateFails, Ends
  <2>4. QED
    BY <2>2, <2>3
<1>11. CASE RemoveHAResource(m) \/ ReadStateForRemove(m) \/ Kill(m)
  <2>1. pc[m] \in HoldingSteps /\ pc[m] \notin CreateSteps /\ owner' = owner
    BY <1>11 DEF RemoveHAResource, ReadStateForRemove, Kill, SetPower,
                 PreBootSteps, Requested, CreateSteps, RemoveSteps,
                 PowerSteps, HoldingSteps, Steps
  <2>2. \E step \in {"state", "kill", "delete"} : Goto(m, step)
    BY <1>11 DEF RemoveHAResource, ReadStateForRemove, Kill
  <2>3. QED
    BY <1>2, <2>1, <2>2
       DEF PreBootSteps, Requested, CreateSteps, RemoveSteps, PowerSteps,
           HoldingSteps, Steps
<1>12. CASE Delete(m)
  <2>1. CASE Ends(m, "gone", NoRecord)
    BY <1>0, <2>1 DEF Ends, NoRecord
  <2>2. CASE ~Ends(m, "gone", NoRecord)
    <3>1. owner' = owner /\ Ends(m, "deleting", rec[m])
      BY <1>12, <2>2 DEF Delete, RemoveErrors, Fault, HandlesStayGood
    <3>2. phase[m] = "deleting"
      BY <1>12 DEF Delete, RemoveSteps
    <3>3. QED
      BY <1>0, <3>1, <3>2 DEF Ends
  <2>3. QED
    BY <2>1, <2>2
<1>13. CASE PowerOp(m) \/ Crash(m)
  <2>1. owner' = owner
    BY <1>13 DEF PowerOp, ReadStateForStart, Power, Crash, SetPower
  <2>2. CASE Goto(m, "power_on") /\ pc[m] = "read_state"
    BY <1>2, <2>1, <2>2
       DEF PreBootSteps, Requested, CreateSteps, RemoveSteps, PowerSteps,
           HoldingSteps, Steps
  <2>3. CASE PowerDone(m) /\ pc[m] \in PowerSteps
    BY <1>0, <2>1, <2>3 DEF PowerDone, Ends
  <2>4. CASE Crash(m)
    BY <1>0, <2>1, <2>4 DEF Crash, Ends
  <2>5. QED
    BY <1>13, <2>2, <2>3, <2>4
       DEF PowerOp, ReadStateForStart, Power, PowerSteps
<1>14. QED
  BY <1>4, <1>5, <1>6, <1>7, <1>8, <1>9, <1>10, <1>11, <1>12, <1>13
     DEF Step, Driver, Create, Remove

LEMMA EnvironmentOwns ==
  ASSUME HandlesStayGood, TypeInv, OwnInv, Environment
  PROVE  OwnInv'
<1>1. UNCHANGED machineVars
  BY DEF Environment
<1>2. \A id \in IDs : owner[id] \in Machines => owner'[id] = owner[id]
  <2>1. ASSUME NEW other \in IDs,
               ForeignCreate(other) \/ ForeignDestroy(other),
               NEW id \in IDs, owner[id] \in Machines
        PROVE  owner'[id] = owner[id]
    BY <2>1 DEF TypeInv, TypeOK, ClusterTypeOK, ForeignCreate, ForeignDestroy,
                DestroyGuest, PutGuest, Exists
  <2>2. ASSUME NEW other \in IDs,
               HARestart(other) \/ \E node \in Nodes : HAMigrate(other, node)
        PROVE  owner' = owner
    BY <2>2 DEF HARestart, HAMigrate, SetPower
  <2>3. QED
    BY <2>1, <2>2 DEF Environment, HandlesStayGood
<1>3. ASSUME NEW m \in Machines
      PROVE  OwnsAt(m)'
  <2>1. pc[m] \in HoldingSteps => d[m].vmid \in IDs
    BY DEF TypeInv, HandleOK
  <2>2. pc' = pc /\ phase' = phase /\ rec' = rec /\ d' = d
    BY <1>1
  <2>3. \A id \in IDs : owner[id] = m => owner'[id] = m
    BY <1>2
  <2>4. QED
    BY <2>1, <2>2, <2>3 DEF OwnInv, OwnsAt
<1>4. QED
  BY <1>3 DEF OwnInv

LEMMA OwnInit == HandlesStayGood /\ Init => OwnInv
BY DEF HandlesStayGood, Init, OwnInv, OwnsAt, Flags, HoldingSteps

LEMMA OwnStep ==
  HandlesStayGood /\ TypeInv /\ OwnInv /\ [Next]_vars => OwnInv'
<1> SUFFICES ASSUME HandlesStayGood, TypeInv, OwnInv, [Next]_vars
             PROVE  OwnInv'
  OBVIOUS
<1>1. CASE UNCHANGED vars
  BY <1>1 DEF vars, OwnInv, OwnsAt
<1>2. ASSUME NEW m \in Machines, Step(m)
      PROVE  OwnInv'
  <2>1. OwnsAt(m)'
    BY <1>2, StepOwns
  <2>2. ASSUME NEW n \in Machines \ {m}
        PROVE  OwnsAt(n)'
    <3>1. /\ pc'[n] = pc[n] /\ phase'[n] = phase[n]
          /\ rec'[n] = rec[n] /\ d'[n] = d[n]
      BY <1>2, StepMovesOwn
    <3>2. \A id \in IDs : owner[id] = n => owner'[id] = n
      BY <1>2, StepTouchesOwn DEF Untouched
    <3>3. pc[n] \in HoldingSteps => d[n].vmid \in IDs
      BY DEF TypeInv, HandleOK
    <3>4. QED
      BY <3>1, <3>2, <3>3 DEF OwnInv, OwnsAt
  <2>3. QED
    BY <2>1, <2>2 DEF OwnInv
<1>3. CASE Environment
  BY <1>3, EnvironmentOwns
<1>4. QED
  BY <1>1, <1>2, <1>3 DEF Next, Step

LEMMA OwnCorrect ==
  ASSUME HandlesStayGood
  PROVE  Spec => [](TypeInv /\ OwnInv)
<1>1. Init => TypeInv /\ OwnInv
  BY TypeInit, OwnInit
<1>2. TypeInv /\ OwnInv /\ [Next]_vars => TypeInv' /\ OwnInv'
  BY TypeStep, OwnStep
<1>3. QED
  BY <1>1, <1>2, PTL DEF Spec

(* As long as a machine's VMID stays good, every process that has claimed   *)
(* an id or loaded one works on the VM this machine cloned, for any number  *)
(* of machines, ids, nodes and attempts and with any of the calls failing.  *)
THEOREM OwnVM ==
  ASSUME HandlesStayGood
  PROVE  Spec => []WorksOnOwnVM
<1>1. TypeInv /\ OwnInv => WorksOnOwnVM
  BY DEF OwnInv, OwnsAt, WorksOnOwnVM
<1>2. QED
  BY OwnCorrect, <1>1, PTL

(* And no step of a machine's process ever changes another guest: neither   *)
(* the rollback of a failed Create nor Remove nor a power operation takes   *)
(* down a VM that is not the machine's own.                                 *)
THEOREM OthersAreSafe ==
  ASSUME HandlesStayGood
  PROVE  Spec => ActsOnlyOnOwnVM
<1> DEFINE Safe == \A m \in Machines, id \in IDs :
                     pc'[m] # pc[m] /\ owner[id] \notin {m, None}
                       => /\ owner'[id] = owner[id]
                          /\ host'[id] = host[id]
                          /\ running'[id] = running[id]
<1>1. TypeInv /\ OwnInv /\ [Next]_vars => [Safe]_vars
  <2> SUFFICES ASSUME TypeInv, OwnInv, [Next]_vars,
                      NEW m \in Machines, NEW id \in IDs,
                      pc'[m] # pc[m], owner[id] \notin {m, None}
               PROVE  Untouched(id)
    BY DEF Untouched
  <2>1. ~Environment /\ ~UNCHANGED vars
    BY DEF Environment, vars
  <2>2. PICK n \in Machines : Step(n)
    BY <2>1 DEF Next, Step
  <2>3. n = m
    BY <2>2, StepMovesOwn
  <2>4. QED
    BY <2>2, <2>3, StepTouchesOwn
<1>2. QED
  BY OwnCorrect, <1>1, PTL DEF Spec, ActsOnlyOnOwnVM
=============================================================================
