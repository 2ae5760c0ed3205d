---------------------------- MODULE StaticIPProofs ----------------------------
(***************************************************************************)
(* Static addressing for any number of pools and machines, any width of    *)
(* the address space and any settings an operator saves.                   *)
(***************************************************************************)
EXTENDS StaticIP, TLAPS

USE DEF IDs, Addresses

(* What the accepted fields say about every slot of the pool.               *)
LEMMA SubnetBounds ==
  ASSUME NEW addr \in Nat, NEW size \in Nat, size > 0
  PROVE  /\ Network(addr, size) \in Int /\ Broadcast(addr, size) \in Int
         /\ Network(addr, size) <= addr
         /\ addr <= Broadcast(addr, size)
<1>1. addr % size \in 0..(size - 1)
  OBVIOUS
<1>2. QED
  BY <1>1 DEF Network, Broadcast

(* Multiples of one number are at least that number apart.                  *)
LEMMA ProductsApart ==
  ASSUME NEW size \in Nat, size > 0, NEW x \in Nat, NEW y \in Nat
  PROVE  /\ x < y => size * x + size <= size * y
         /\ size * x = size * y => x = y
<1>1. ASSUME NEW u \in Nat, NEW v \in Nat, u < v
      PROVE  size * u + size <= size * v
  <2>1. PICK k \in Nat : v = u + 1 + k
    <3>1. v - u - 1 \in Nat /\ v = u + 1 + (v - u - 1)
      BY <1>1
    <3>2. QED
      BY <3>1
  <2>2. size * v = size * u + size + size * k
    BY <2>1
  <2>3. size * k \in Nat
    OBVIOUS
  <2>4. size * u \in Nat
    OBVIOUS
  <2>5. QED
    BY <2>2, <2>3, <2>4
<1>2. size * x \in Nat /\ size * y \in Nat
  OBVIOUS
<1>3. CASE x < y
  BY <1>1, <1>2, <1>3
<1>4. CASE y < x
  BY <1>1, <1>2, <1>4
<1>5. CASE x = y
  BY <1>5
<1>6. QED
  BY <1>3, <1>4, <1>5

(* An address between two addresses of one subnet is in that subnet.        *)
LEMMA SubnetIsConvex ==
  ASSUME NEW a \in Nat, NEW b \in Nat, NEW c \in Nat, NEW size \in Nat,
         size > 0, a <= b, b <= c, SameSubnet(a, c, size)
  PROVE  SameSubnet(a, b, size)
<1> DEFINE q(x) == x \div size
<1>1. ASSUME NEW x \in Nat
      PROVE  /\ q(x) \in Nat /\ x % size \in 0..(size - 1)
             /\ x = size * q(x) + (x % size)
  OBVIOUS
<1>2. /\ Network(a, size) = size * q(a) /\ Network(b, size) = size * q(b)
      /\ Network(c, size) = size * q(c)
  BY <1>1 DEF Network
<1>3. q(a) = q(c)
  BY <1>1, <1>2, ProductsApart DEF SameSubnet
<1>4. q(a) <= q(b) /\ q(b) <= q(c)
  <2>1. ASSUME NEW x \in Nat, NEW y \in Nat, x <= y
        PROVE  q(x) <= q(y)
    <3>1. SUFFICES ASSUME q(y) < q(x) PROVE FALSE
      BY <1>1, <2>1
    <3>2. size * q(y) + size <= size * q(x)
      BY <1>1, <2>1, <3>1, ProductsApart
    <3>3. QED
      BY <1>1, <2>1, <3>2
  <2>2. QED
    BY <2>1
<1>5. q(b) = q(a)
  BY <1>1, <1>3, <1>4
<1>6. QED
  BY <1>2, <1>5 DEF SameSubnet

(* An address a VMID is given is a slot of the accepted pool.               *)
LEMMA AddressIsSlot ==
  ASSUME NEW f \in Fields, NEW id \in Nat, AddressOf(f, id) # Unset
  PROVE  /\ PoolOK(f)
         /\ AddressOf(f, id) = f.start + (id - f.min)
         /\ AddressOf(f, id) \in Addresses
         /\ f.start <= AddressOf(f, id) /\ AddressOf(f, id) <= f.end
  BY StaticIPAssumption DEF AddressOf, Capacity, Fields

-----------------------------------------------------------------------------
(* A machine on its way: its fields were accepted, the id it holds is its   *)
(* own, and its address is the slot of that id.                             *)
MachineInv(m) ==
  /\ step[m] # "none" => conf[m] \in Fields /\ Accepted(conf[m])
  /\ step[m] = "clone" => vmid[m] \in IDs
  /\ step[m] \in {"configure", "up"} => vmid[m] \in IDs /\ guest[vmid[m]] = m
  /\ step[m] = "up" => /\ address[m] # Unset
                       /\ address[m] = AddressOf(conf[m], vmid[m])

IInv == TypeOK /\ \A m \in Machines : MachineInv(m)

LEMMA InitInv == Init => IInv
  BY StaticIPAssumption DEF Init, IInv, TypeOK, MachineInv, Steps

(* The part of a step that concerns the machines which do not take it: they *)
(* keep what they have, because nobody else's id is released or taken.      *)
Others(m) ==
  \A n \in Machines \ {m} :
    /\ step'[n] = step[n] /\ conf'[n] = conf[n]
    /\ vmid'[n] = vmid[n] /\ address'[n] = address[n]
    /\ vmid[n] \in IDs /\ guest[vmid[n]] = n => guest'[vmid[n]] = n

LEMMA OthersKeep ==
  ASSUME NEW m \in Machines, NEW n \in Machines \ {m},
         MachineInv(n), Others(m)
  PROVE  MachineInv(n)'
  BY DEF Others, MachineInv, Accepted, VMIDRangeOK, PoolOK

LEMMA ForgetKeeps ==
  ASSUME TypeOK, NEW m \in Machines, Forget(m)
  PROVE  /\ settings' \in [Pools -> Fields \cup {Unset}]
         /\ step' \in [Machines -> Steps]
         /\ conf' \in [Machines -> Fields \cup {Unset}]
         /\ vmid' \in [Machines -> IDs \cup {0}]
         /\ address' \in [Machines -> Addresses \cup {Unset}]
         /\ saves' \in 0..MaxSaves
         /\ step'[m] = "none"
         /\ \A n \in Machines \ {m} :
              /\ step'[n] = step[n] /\ conf'[n] = conf[n]
              /\ vmid'[n] = vmid[n] /\ address'[n] = address[n]
  BY DEF TypeOK, Forget, Steps

LEMMA MachineStep ==
  ASSUME IInv, NEW m \in Machines, Machine(m)
  PROVE  TypeOK' /\ MachineInv(m)' /\ Others(m)
<1>1. TypeOK /\ MachineInv(m)
  BY DEF IInv
<1> USE <1>1, StaticIPAssumption
<1>2. CASE BeginCreate(m)
  <2>1. PoolOf[m] \in Pools /\ settings[PoolOf[m]] \in Fields
    BY <1>2 DEF BeginCreate, TypeOK
  <2>2. TypeOK'
    BY <1>2, <2>1 DEF BeginCreate, TypeOK, Steps
  <2>3. MachineInv(m)'
    BY <1>2, <2>1 DEF BeginCreate, TypeOK, MachineInv, Accepted, VMIDRangeOK,
                      PoolOK
  <2>4. Others(m)
    BY <1>2 DEF BeginCreate, TypeOK, Others
  <2>5. QED
    BY <2>2, <2>3, <2>4
<1>3. CASE Scan(m)
  <2>1. ASSUME FreeIDs(conf[m]) = {}, Forget(m), guest' = guest
        PROVE  TypeOK' /\ MachineInv(m)' /\ Others(m)
    BY <2>1, ForgetKeeps DEF TypeOK, MachineInv, Others
  <2>2. ASSUME NEW id \in FreeIDs(conf[m]), step[m] = "scan",
               vmid' = [vmid EXCEPT ![m] = id],
               step' = [step EXCEPT ![m] = "clone"],
               UNCHANGED <<settings, guest, conf, address, saves>>
        PROVE  TypeOK' /\ MachineInv(m)' /\ Others(m)
    <3>1. id \in IDs
      BY <2>2 DEF MachineInv, Accepted, VMIDRangeOK, FreeIDs, Fields
    <3>2. TypeOK'
      BY <2>2, <3>1 DEF TypeOK, Steps
    <3>3. MachineInv(m)'
      BY <2>2, <3>1 DEF TypeOK, MachineInv, Accepted, VMIDRangeOK, PoolOK
    <3>4. Others(m)
      BY <2>2 DEF TypeOK, Others
    <3>5. QED
      BY <3>2, <3>3, <3>4
  <2>3. QED
    BY <1>3, <2>1, <2>2 DEF Scan
<1>4. CASE Clone(m)
  <2>1. vmid[m] \in IDs /\ step[m] = "clone"
    BY <1>4 DEF Clone, MachineInv
  <2>2. CASE Forget(m) /\ guest' = guest
    BY <2>2, ForgetKeeps DEF TypeOK, MachineInv, Others
  <2>3. CASE /\ guest[vmid[m]] = None
             /\ guest' = [guest EXCEPT ![vmid[m]] = m]
             /\ step' = [step EXCEPT ![m] = "configure"]
             /\ UNCHANGED <<settings, conf, vmid, address, saves>>
    <3>1. TypeOK'
      BY <2>1, <2>3 DEF TypeOK, Steps
    <3>2. MachineInv(m)'
      BY <2>1, <2>3 DEF TypeOK, MachineInv, Accepted, VMIDRangeOK, PoolOK
    <3>3. Others(m)
      BY <2>1, <2>3 DEF TypeOK, Others
    <3>4. QED
      BY <3>1, <3>2, <3>3
  <2>4. CASE /\ step' = [step EXCEPT ![m] = "scan"]
             /\ UNCHANGED <<settings, guest, conf, vmid, address, saves>>
    BY <2>1, <2>4 DEF TypeOK, Steps, MachineInv, Others, Accepted,
                      VMIDRangeOK, PoolOK
  <2>5. QED
    BY <1>4, <2>2, <2>3, <2>4 DEF Clone
<1>5. ASSUME Release(m), step[m] \in {"configure", "up"}
      PROVE  TypeOK' /\ MachineInv(m)' /\ Others(m)
  <2>1. vmid[m] \in IDs /\ guest[vmid[m]] = m
    BY <1>5 DEF MachineInv
  <2>2. guest' = [guest EXCEPT ![vmid[m]] = None]
    BY <1>5 DEF Release
  <2>3. QED
    BY <1>5, <2>1, <2>2, ForgetKeeps DEF Release, TypeOK, MachineInv, Others
<1>6. CASE Configure(m)
  <2> DEFINE derived == AddressOf(conf[m], vmid[m])
  <2>1. CASE derived = Unset /\ Release(m)
    BY <1>5, <1>6, <2>1 DEF Configure
  <2>2. CASE /\ derived # Unset
             /\ address' = [address EXCEPT ![m] = derived]
             /\ step' = [step EXCEPT ![m] = "up"]
             /\ UNCHANGED <<settings, guest, conf, vmid, saves>>
    <3>1. step[m] = "configure" /\ conf[m] \in Fields /\ vmid[m] \in Nat
      BY <1>6 DEF Configure, MachineInv
    <3>2. derived \in Addresses
      BY <2>2, <3>1, AddressIsSlot
    <3>3. TypeOK'
      BY <2>2, <3>2 DEF TypeOK, Steps
    <3>4. MachineInv(m)'
      BY <2>2, <3>1 DEF TypeOK, MachineInv, Accepted, VMIDRangeOK, PoolOK,
                        AddressOf, Capacity
    <3>5. Others(m)
      BY <2>2 DEF TypeOK, Others
    <3>6. QED
      BY <3>3, <3>4, <3>5
  <2>3. QED
    BY <1>6, <2>1, <2>2 DEF Configure
<1>7. CASE Remove(m)
  BY <1>5, <1>7 DEF Remove
<1>8. QED
  BY <1>2, <1>3, <1>4, <1>6, <1>7 DEF Machine

LEMMA NextInv == IInv /\ [Next]_vars => IInv'
<1> SUFFICES ASSUME IInv, [Next]_vars PROVE IInv'
  OBVIOUS
<1> USE StaticIPAssumption
<1>1. ASSUME NEW m \in Machines, Machine(m)
      PROVE  IInv'
  BY <1>1, MachineStep, OthersKeep DEF IInv
<1>2. ASSUME NEW p \in Pools, NEW f \in Offered, SavePool(p, f)
      PROVE  IInv'
  BY <1>2 DEF SavePool, IInv, TypeOK, MachineInv, Accepted, VMIDRangeOK,
              PoolOK, AddressOf, Capacity
<1>3. ASSUME NEW id \in ForeignIDs, ForeignGuest(id)
      PROVE  IInv'
  <2>1. TypeOK'
    BY <1>3 DEF ForeignGuest, IInv, TypeOK
  <2>2. ASSUME NEW m \in Machines
        PROVE  MachineInv(m)'
    BY <1>3, <2>2 DEF ForeignGuest, IInv, TypeOK, MachineInv, Accepted,
                      VMIDRangeOK, PoolOK, AddressOf, Capacity
  <2>3. QED
    BY <2>1, <2>2 DEF IInv
<1>4. CASE UNCHANGED vars
  BY <1>4 DEF vars, IInv, TypeOK, MachineInv, Accepted, VMIDRangeOK, PoolOK,
              AddressOf, Capacity
<1>5. QED
  BY <1>1, <1>2, <1>3, <1>4 DEF Next

LEMMA InvHolds == Spec => []IInv
  BY InitInv, NextInv, PTL DEF Spec

-----------------------------------------------------------------------------
(* Types, for all constants.                                                *)
THEOREM StaticIPTypeCorrect == Spec => []TypeOK
  BY InvHolds, PTL DEF IInv

(* Whatever fields an operator saves and whatever ids are claimed: a machine *)
(* that came up has a usable address of its pool and reaches its gateway.   *)
THEOREM AddressesAreUsable == Spec => []AddressUsable
<1>1. IInv => AddressUsable
  <2> SUFFICES ASSUME IInv, NEW m \in Machines, Up(m)
               PROVE  LET f == conf[m]
                      IN /\ f.start <= address[m] /\ address[m] <= f.end
                         /\ Network(f.start, f.size) < address[m]
                         /\ address[m] < Broadcast(f.start, f.size)
                         /\ SameSubnet(address[m], f.gateway, f.size)
    BY DEF AddressUsable
  <2> DEFINE f == conf[m]
  <2>1. /\ f \in Fields /\ Accepted(f) /\ vmid[m] \in Nat
        /\ address[m] = AddressOf(f, vmid[m]) /\ address[m] # Unset
    BY StaticIPAssumption DEF IInv, MachineInv, Up
  <2>2. /\ PoolOK(f) /\ address[m] \in Addresses
        /\ f.start <= address[m] /\ address[m] <= f.end
    BY <2>1, AddressIsSlot
  <2>3. /\ f.start \in Nat /\ f.end \in Nat /\ f.size \in Nat /\ f.size > 0
        /\ address[m] \in Nat
    BY <2>1, <2>2, StaticIPAssumption DEF Fields, PoolOK
  <2>4. /\ SameSubnet(f.start, f.end, f.size)
        /\ f.start # Network(f.start, f.size)
        /\ f.end # Broadcast(f.start, f.size)
    BY <2>2 DEF PoolOK
  <2>5. /\ Network(f.start, f.size) < f.start
        /\ f.end < Broadcast(f.start, f.size)
    <3>1. /\ Network(f.start, f.size) \in Int
          /\ Broadcast(f.start, f.size) \in Int
          /\ Network(f.start, f.size) <= f.start
          /\ f.end <= Broadcast(f.end, f.size)
      BY <2>3, SubnetBounds
    <3>2. Broadcast(f.end, f.size) = Broadcast(f.start, f.size)
      BY <2>4 DEF SameSubnet, Broadcast
    <3>3. QED
      BY <2>3, <2>4, <3>1, <3>2
  <2>6. SameSubnet(f.start, address[m], f.size)
    BY <2>2, <2>3, <2>4, SubnetIsConvex
  <2>7. SameSubnet(address[m], f.gateway, f.size)
    BY <2>1, <2>6 DEF Accepted, SameSubnet
  <2>8. /\ Network(f.start, f.size) \in Int
        /\ Broadcast(f.start, f.size) \in Int
    BY <2>3, SubnetBounds
  <2>9. QED
    BY <2>2, <2>3, <2>5, <2>7, <2>8
<1>2. QED
  BY <1>1, InvHolds, PTL

(* Machines of one pool, and of pools that place the range alike against    *)
(* the addresses, never share an address: their VMIDs differ.               *)
THEOREM CollisionsNeedShift == Spec => []CollisionNeedsShift
<1>1. IInv => CollisionNeedsShift
  <2> SUFFICES ASSUME IInv, NEW m \in Machines, NEW n \in Machines, m # n,
                      Up(m), Up(n), address[m] = address[n],
                      conf[m].start - conf[m].min = conf[n].start - conf[n].min
               PROVE  FALSE
    BY DEF CollisionNeedsShift
  <2>1. ASSUME NEW k \in Machines, Up(k)
        PROVE  /\ conf[k] \in Fields /\ vmid[k] \in Nat
               /\ guest[vmid[k]] = k
               /\ address[k] = conf[k].start + (vmid[k] - conf[k].min)
    <3>1. /\ conf[k] \in Fields /\ vmid[k] \in Nat /\ guest[vmid[k]] = k
          /\ address[k] # Unset /\ address[k] = AddressOf(conf[k], vmid[k])
      BY <2>1, StaticIPAssumption DEF IInv, MachineInv, Up
    <3>2. QED
      BY <3>1, AddressIsSlot
  <2>2. vmid[m] = vmid[n]
    <3>1. /\ conf[m].start \in Int /\ conf[m].min \in Int
          /\ conf[n].start \in Int /\ conf[n].min \in Int
      BY <2>1 DEF Fields
    <3>2. QED
      BY <2>1, <3>1
  <2>3. QED
    BY <2>1, <2>2
<1>2. QED
  BY <1>1, InvHolds, PTL
=============================================================================
