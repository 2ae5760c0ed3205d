------------------------------- MODULE Cluster -------------------------------
(***************************************************************************)
(* The shared Proxmox VE cluster, as far as the driver can tell it apart:  *)
(* which VMIDs exist and who they belong to, the node each guest is on,    *)
(* whether it is powered on, and the HA resource list (resources.cfg).     *)
(* PVE is not in this repository; everything here is modelled from how     *)
(* pkg/proxmox and its tests use the API.                                  *)
(***************************************************************************)
EXTENDS Integers, FiniteSets

CONSTANTS
  Machines,   \* machines of one Rancher pool, each with its own driver runs
  IDs,        \* the cluster-wide VMID space shared by VMs, CTs and templates
  Nodes,      \* PVE nodes
  NoNode,     \* "" in d.Node and c.node
  Foreign,    \* owner of a guest that is not the driver's, visible to the token
  Unseen,     \* owner of a guest outside the token's VM.Audit scope
  None        \* owner of an unused VMID

VARIABLES
  owner,      \* owner[id]: who the guest with this VMID belongs to, or None
  host,       \* host[id]: the node the guest is on
  running,    \* running[id]: anything but PVE status "stopped"
  ha          \* VMIDs with an entry vm:<id> in resources.cfg

clusterVars == <<owner, host, running, ha>>

Owners == Machines \cup {Foreign, Unseen}

(* VMIDs are positive: 0 means "no VMID" everywhere in the driver.          *)
ASSUME ClusterAssumption ==
  /\ IDs \subseteq Nat \ {0}
  /\ IDs # {}
  /\ NoNode \notin Nodes
  /\ {Foreign, Unseen, None} \cap Machines = {}
  /\ None \notin {Foreign, Unseen}
  /\ Foreign # Unseen

ClusterTypeOK ==
  /\ owner \in [IDs -> Owners \cup {None}]
  /\ host \in [IDs -> Nodes \cup {NoNode}]
  /\ running \in [IDs -> BOOLEAN]
  /\ ha \subseteq IDs

ClusterInit ==
  /\ owner = [id \in IDs |-> None]
  /\ host = [id \in IDs |-> NoNode]
  /\ running = [id \in IDs |-> FALSE]
  /\ ha = {}

-----------------------------------------------------------------------------
Exists(id) == owner[id] # None

(* What /cluster/resources lists for the driver's token.                    *)
UsedVMIDs == {id \in IDs : owner[id] \notin {None, Unseen}}

(* client.vm asks one node for the guest; a guest on another node answers  *)
(* "Configuration file ... does not exist" like one that is gone.          *)
FoundAt(id, node) == Exists(id) /\ host[id] = node

LowestOf(S) == CHOOSE id \in S : \A other \in S : id <= other

(* The effects of the API calls.                                           *)
PutGuest(id, o, node, on) ==
  /\ owner' = [owner EXCEPT ![id] = o]
  /\ host' = [host EXCEPT ![id] = node]
  /\ running' = [running EXCEPT ![id] = on]

DestroyGuest(id) == PutGuest(id, None, NoNode, FALSE) /\ UNCHANGED ha

SetPower(id, on) ==
  /\ running' = [running EXCEPT ![id] = on]
  /\ UNCHANGED <<owner, host, ha>>

-----------------------------------------------------------------------------
(* What the rest of the cluster does on its own.                            *)

(* Somebody else takes a VMID: another tool, another pool, a container.     *)
ForeignCreate(id) ==
  /\ ~Exists(id)
  /\ \E o \in {Foreign, Unseen}, node \in Nodes, on \in BOOLEAN :
       PutGuest(id, o, node, on)
  /\ UNCHANGED ha

ForeignDestroy(id) ==
  /\ owner[id] \in {Foreign, Unseen}
  /\ DestroyGuest(id)

(* An operator deletes one of the pool's VMs by hand, HA entry included.    *)
OperatorDestroy(id) ==
  /\ owner[id] \in Machines
  /\ PutGuest(id, None, NoNode, FALSE)
  /\ ha' = ha \ {id}

(* state=started is a promise the HA manager keeps: what is off, is started. *)
HARestart(id) ==
  /\ id \in ha
  /\ Exists(id)
  /\ ~running[id]
  /\ SetPower(id, TRUE)

(* CRS rebalancing or a node failure moves an HA guest to another node.     *)
HAMigrate(id, node) ==
  /\ id \in ha
  /\ Exists(id)
  /\ node # host[id]
  /\ host' = [host EXCEPT ![id] = node]
  /\ UNCHANGED <<owner, running, ha>>
=============================================================================
