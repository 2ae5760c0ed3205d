------------------------------- MODULE StaticIP -------------------------------
(***************************************************************************)
(* Static addressing (pkg/driver/ipconfig.go, vmidrange.go): machine pools *)
(* whose settings PreCreateCheck accepted, machines that claim VMIDs from  *)
(* the pools' ranges, and the address each derives from its VMID when the  *)
(* clone is configured. Nothing is allocated: that two machines get        *)
(* different addresses, and usable ones, has to follow from the checks and *)
(* from the VMIDs being different.                                         *)
(*                                                                         *)
(* An address is a number, and a prefix /b is the number of addresses in   *)
(* its subnets, 2^(32-b).                                                  *)
(***************************************************************************)
EXTENDS Integers, FiniteSets

CONSTANTS
  Pools,       \* machine pools
  Machines,    \* machines
  PoolOf,      \* PoolOf[m]: the pool m belongs to
  MinVMID,     \* minAllowedVMID
  MaxVMID,     \* maxAllowedVMID
  MaxAddr,     \* the highest IPv4 address
  MinSubnet,   \* addresses of the smallest subnet accepted (/30)
  MaxSubnet,   \* addresses of the largest subnet accepted (/8)
  Offered,     \* settings an operator may save for a pool
  Foreign,     \* owner of a VMID that is not a machine's
  None,        \* owner of an unused VMID
  Unset,       \* no settings, no address
  ForeignIDs,  \* bound: the VMIDs anybody else may take
  MaxSaves     \* bound: saves of pool settings in a behaviour

VARIABLES
  settings,  \* settings[p]: what pool p's next machine is created with
  guest,     \* guest[id]: who holds the VMID
  step,      \* step[m]: where machine m is
  conf,      \* conf[m]: the settings m was created with
  vmid,      \* vmid[m]: the id m tries to claim or has claimed
  address,   \* address[m]: what ipconfig0 of m's VM says
  saves      \* how much of MaxSaves is used up

vars == <<settings, guest, step, conf, vmid, address, saves>>

IDs == MinVMID..MaxVMID
Addresses == 0..MaxAddr
Steps == {"none", "scan", "clone", "configure", "up"}

(* What a pool's fields say: VMID range, first and last address, subnet     *)
(* size, gateway. Numbers that did not parse are refused like bad ones.     *)
Fields == [min : Nat, max : Nat, start : Addresses, end : Addresses,
           size : Nat, gateway : Addresses]

ASSUME StaticIPAssumption ==
  /\ MinVMID \in Nat \ {0} /\ MaxVMID \in Nat /\ MaxAddr \in Nat
  /\ PoolOf \in [Machines -> Pools]
  /\ MinSubnet \in Nat /\ MaxSubnet \in Nat
  /\ MinSubnet >= 4
  /\ Offered \subseteq Fields
  /\ Unset \notin Fields /\ Unset \notin Addresses
  /\ {Foreign, None} \cap Machines = {} /\ Foreign # None
  /\ ForeignIDs \subseteq IDs
  /\ MaxSaves \in Nat

-----------------------------------------------------------------------------
(* A subnet is named by the block of addresses it consists of.              *)
Network(addr, size) == addr - (addr % size)
Broadcast(addr, size) == Network(addr, size) + size - 1
SameSubnet(a, b, size) == Network(a, size) = Network(b, size)

VMIDRangeOK(s) == MinVMID <= s.min /\ s.min <= s.max /\ s.max <= MaxVMID

(* Mutation of PoolOK: only the ends' order and subnet are checked.         *)
PoolOKNoReserved(s) ==
  /\ MinSubnet <= s.size /\ s.size <= MaxSubnet
  /\ s.start <= s.end
  /\ SameSubnet(s.start, s.end, s.size)

(* parseStaticPool                                                          *)
PoolOK(s) ==
  /\ MinSubnet <= s.size /\ s.size <= MaxSubnet
  /\ s.start <= s.end
  /\ SameSubnet(s.start, s.end, s.size)
  /\ {s.start, s.end} \cap
       {Network(s.start, s.size), Broadcast(s.start, s.size)} = {}

(* PreCreateCheck's part for a static pool; it does not relate the sizes of *)
(* the pool and the range, nor the gateway and the pool.                    *)
Accepted(s) ==
  VMIDRangeOK(s) /\ PoolOK(s) /\ SameSubnet(s.start, s.gateway, s.size)

Capacity(s) == s.end - s.start + 1

(* Mutations of AddressOf: a slot beyond the pool's end is not refused, or  *)
(* wraps around.                                                            *)
AddressOfUnbounded(s, id) ==
  IF PoolOK(s) /\ s.min <= id THEN s.start + (id - s.min) ELSE Unset

AddressOfWrapped(s, id) ==
  IF PoolOK(s) /\ s.min <= id
  THEN s.start + ((id - s.min) % Capacity(s))
  ELSE Unset

(* buildIPConfig: an address, or Unset for its errors. The last one,        *)
(* offsetAddr's overflow, cannot happen below an accepted pool's end.       *)
AddressOf(s, id) ==
  LET offset == id - s.min
  IN IF /\ PoolOK(s)
        /\ 0 <= offset
        /\ offset < Capacity(s)
        /\ s.start + offset <= MaxAddr
     THEN s.start + offset
     ELSE Unset

FreeIDs(s) == {id \in s.min..s.max : guest[id] = None}

-----------------------------------------------------------------------------
Init ==
  /\ settings = [p \in Pools |-> Unset]
  /\ guest = [id \in IDs |-> None]
  /\ step = [m \in Machines |-> "none"]
  /\ conf = [m \in Machines |-> Unset]
  /\ vmid = [m \in Machines |-> 0]
  /\ address = [m \in Machines |-> Unset]
  /\ saves = 0

(* An operator saves the pool's form, also while the pool has machines.     *)
SavePool(p, s) ==
  /\ saves < MaxSaves
  /\ settings' = [settings EXCEPT ![p] = s]
  /\ saves' = saves + 1
  /\ UNCHANGED <<guest, step, conf, vmid, address>>

(* PreCreateCheck comes first; if it refuses the fields, nothing happens.   *)
BeginCreate(m) ==
  /\ step[m] = "none"
  /\ settings[PoolOf[m]] # Unset
  /\ Accepted(settings[PoolOf[m]])
  /\ conf' = [conf EXCEPT ![m] = settings[PoolOf[m]]]
  /\ step' = [step EXCEPT ![m] = "scan"]
  /\ UNCHANGED <<settings, guest, vmid, address, saves>>

(* Back to nothing: a failed Create, or a deleted machine.                  *)
Forget(m) ==
  /\ step' = [step EXCEPT ![m] = "none"]
  /\ conf' = [conf EXCEPT ![m] = Unset]
  /\ vmid' = [vmid EXCEPT ![m] = 0]
  /\ address' = [address EXCEPT ![m] = Unset]
  /\ UNCHANGED <<settings, saves>>

(* NextFreeVMID                                                             *)
Scan(m) ==
  /\ step[m] = "scan"
  /\ \/ \E id \in FreeIDs(conf[m]) :
          /\ \A other \in FreeIDs(conf[m]) : id <= other
          /\ vmid' = [vmid EXCEPT ![m] = id]
          /\ step' = [step EXCEPT ![m] = "clone"]
          /\ UNCHANGED <<settings, guest, conf, address, saves>>
     \/ FreeIDs(conf[m]) = {} /\ Forget(m) /\ UNCHANGED guest

(* Mutation of Clone: a machine keeps an id it lost the race for.           *)
CloneUnchecked(m) ==
  /\ step[m] = "clone"
  /\ guest' = [guest EXCEPT ![vmid[m]] = m]
  /\ step' = [step EXCEPT ![m] = "configure"]
  /\ UNCHANGED <<settings, conf, vmid, address, saves>>

(* The claim settles in the clone: lost, it is retried or given up.         *)
Clone(m) ==
  /\ step[m] = "clone"
  /\ \/ /\ guest[vmid[m]] = None
        /\ guest' = [guest EXCEPT ![vmid[m]] = m]
        /\ step' = [step EXCEPT ![m] = "configure"]
        /\ UNCHANGED <<settings, conf, vmid, address, saves>>
     \/ /\ guest[vmid[m]] # None
        /\ step' = [step EXCEPT ![m] = "scan"]
        /\ UNCHANGED <<settings, guest, conf, vmid, address, saves>>
     \/ /\ guest[vmid[m]] # None
        /\ Forget(m)
        /\ UNCHANGED guest

Release(m) ==
  /\ guest' = [guest EXCEPT ![vmid[m]] = None]
  /\ Forget(m)

(* resolveIPConfig with the final VMID; without an address Create rolls the *)
(* clone back.                                                              *)
Configure(m) ==
  /\ step[m] = "configure"
  /\ LET derived == AddressOf(conf[m], vmid[m])
     IN \/ /\ derived # Unset
           /\ address' = [address EXCEPT ![m] = derived]
           /\ step' = [step EXCEPT ![m] = "up"]
           /\ UNCHANGED <<settings, guest, conf, vmid, saves>>
        \/ derived = Unset /\ Release(m)

Remove(m) == step[m] = "up" /\ Release(m)

(* Anything else that takes or frees a VMID inside a pool's range.          *)
ForeignGuest(id) ==
  /\ \/ guest[id] = None /\ guest' = [guest EXCEPT ![id] = Foreign]
     \/ guest[id] = Foreign /\ guest' = [guest EXCEPT ![id] = None]
  /\ UNCHANGED <<settings, step, conf, vmid, address, saves>>

Machine(m) ==
  BeginCreate(m) \/ Scan(m) \/ Clone(m) \/ Configure(m) \/ Remove(m)

Next ==
  \/ \E p \in Pools, s \in Offered : SavePool(p, s)
  \/ \E m \in Machines : Machine(m)
  \/ \E id \in ForeignIDs : ForeignGuest(id)

Spec == Init /\ [][Next]_vars

-----------------------------------------------------------------------------
(* Type invariant.                                                          *)
TypeOK ==
  /\ settings \in [Pools -> Fields \cup {Unset}]
  /\ guest \in [IDs -> Machines \cup {Foreign, None}]
  /\ step \in [Machines -> Steps]
  /\ conf \in [Machines -> Fields \cup {Unset}]
  /\ vmid \in [Machines -> IDs \cup {0}]
  /\ address \in [Machines -> Addresses \cup {Unset}]
  /\ saves \in 0..MaxSaves

Up(m) == step[m] = "up"

(* A machine that came up has an address of its pool, which is neither the  *)
(* network nor the broadcast address of its subnet, and a gateway on-link:  *)
(* whatever fields PreCreateCheck let through and whatever VMID it got.     *)
AddressUsable ==
  \A m \in Machines : Up(m) =>
    LET s == conf[m]
    IN /\ s.start <= address[m] /\ address[m] <= s.end
       /\ Network(s.start, s.size) < address[m]
       /\ address[m] < Broadcast(s.start, s.size)
       /\ SameSubnet(address[m], s.gateway, s.size)

(* Two machines can only have the same address when their settings place    *)
(* the VMID range differently against the address pool: never within one    *)
(* pool, and never between pools sharing a range and a start (flags.md:     *)
(* "That case is safe"), not even while ids are raced for and reused.       *)
CollisionNeedsShift ==
  \A m, n \in Machines :
    m # n /\ Up(m) /\ Up(n) /\ address[m] = address[n]
      => conf[m].start - conf[m].min # conf[n].start - conf[n].min
=============================================================================
