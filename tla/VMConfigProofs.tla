---------------------------- MODULE VMConfigProofs ----------------------------
(* What TLAPS proves of VMConfig for every value of its constants: any      *)
(* number of slots and NICs, any forms, templates and failed calls.         *)
EXTENDS VMConfig, FiniteSetTheorems, WellFoundedInduction, TLAPS

-----------------------------------------------------------------------------
(* A nonempty set of numbers has a least one.                               *)
LEMMA LeastExists ==
  ASSUME NEW S \in SUBSET Nat, S # {}
  PROVE  \E x \in S : \A y \in S : x <= y
  <1> DEFINE Less == {ss \in Nat \X Nat : ss[1] < ss[2]}
  <1>1. IsWellFoundedOn(Less, Nat)
    BY NatLessThanWellFounded DEF OpToRel
  <1>2. PICK x \in S : \A y \in S : <<y, x>> \notin Less
    BY <1>1, WFMin
  <1>3. ASSUME NEW y \in S, y < x
        PROVE  FALSE
    <2>1. <<y, x>> \in Less
      BY <1>3
    <2> QED
      BY <1>2, <2>1
  <1>4. \A y \in S : x <= y
    <2> HIDE DEF Less
    <2> QED
      BY <1>3
  <1> QED
    BY <1>4

(* The lowest slot of a set is one of it, and there is none only if the set *)
(* is empty.                                                                *)
LEMMA LowestFreeIsFree ==
  ASSUME NEW S \in SUBSET (Nat \ {0})
  PROVE  /\ S # {} => LowestFree(S) \in S
         /\ LowestFree(S) = NoSlot <=> S = {}
  <1>1. CASE S = {}
    BY <1>1 DEF LowestFree
  <1>2. CASE S # {}
    <2>1. \E x \in S : \A y \in S : x <= y
      BY <1>2, LeastExists
    <2>2. LowestFree(S) \in S
      BY <1>2, <2>1 DEF LowestFree
    <2> QED
      BY <1>2, <2>2 DEF NoSlot
  <1> QED
    BY <1>1, <1>2

-----------------------------------------------------------------------------
(* What allocateDiskSlots makes of disk i, given the slots of the disks     *)
(* before it.                                                               *)
SlotAfter(slot, i) ==
  IF Pinned(i) THEN form.disks[i].device
  ELSE LowestFree({s \in FreeSlots :
                     \A j \in 1..(i - 1) : ~Pinned(j) => slot[j] # s})

(* A slot depends only on the slots of the disks before.                    *)
LEMMA SlotAfterLocal ==
  ASSUME NEW slot, NEW other, NEW i \in Nat,
         \A j \in 1..(i - 1) : slot[j] = other[j]
  PROVE  SlotAfter(slot, i) = SlotAfter(other, i)
  <1>1. {s \in FreeSlots : \A j \in 1..(i - 1) : ~Pinned(j) => slot[j] # s}
          = {s \in FreeSlots : \A j \in 1..(i - 1) : ~Pinned(j) => other[j] # s}
    OBVIOUS
  <1> QED
    BY <1>1 DEF SlotAfter

(* The first n disks have slots that follow the rule ...                    *)
LEMMA SlotsUpTo ==
  ASSUME NEW n \in Nat
  PROVE  \E slot : slot = [i \in 1..n |-> SlotAfter(slot, i)]
  <1> DEFINE Good(m) == \E slot : slot = [i \in 1..m |-> SlotAfter(slot, i)]
             Bad == {m \in Nat : ~Good(m)}
  <1>1. Good(0)
    <2>1. <<>> = [i \in 1..0 |-> SlotAfter(<<>>, i)]
      OBVIOUS
    <2> QED
      BY <2>1
  <1>2. ASSUME NEW m \in Nat, Good(m)
        PROVE  Good(m + 1)
    <2>1. PICK slot : slot = [i \in 1..m |-> SlotAfter(slot, i)]
      BY <1>2
    <2> DEFINE next == [i \in 1..(m + 1) |->
                          IF i = m + 1 THEN SlotAfter(slot, i) ELSE slot[i]]
    <2>2. ASSUME NEW i \in 1..(m + 1)
          PROVE  next[i] = SlotAfter(next, i)
      <3>1. \A j \in 1..(i - 1) : slot[j] = next[j]
        OBVIOUS
      <3>2. SlotAfter(slot, i) = SlotAfter(next, i)
        <4> HIDE DEF next
        <4> QED
          BY <3>1, SlotAfterLocal
      <3>3. next[i] = SlotAfter(slot, i)
        BY <2>1
      <3> QED
        BY <3>2, <3>3
    <2>3. next = [i \in 1..(m + 1) |-> next[i]]
      OBVIOUS
    <2>4. next = [i \in 1..(m + 1) |-> SlotAfter(next, i)]
      <3> HIDE DEF next
      <3> QED
        BY <2>2, <2>3
    <2> QED
      BY <2>4
  <1>3. ASSUME Bad # {}
        PROVE  FALSE
    <2> HIDE DEF Good
    <2>1. PICK m \in Bad : \A k \in Bad : m <= k
      BY <1>3, LeastExists
    <2>2. m # 0
      BY <1>1
    <2>3. m - 1 \in Nat /\ m - 1 \notin Bad
      BY <2>1, <2>2
    <2> QED
      BY <1>2, <2>1, <2>3
  <1> QED
    BY <1>3

(* ... so the function of allocateDiskSlots is what its definition says.    *)
LEMMA SlotOfEquation ==
  ASSUME form \in Form
  PROVE  /\ DOMAIN SlotOf = DiskIndices
         /\ \A i \in DiskIndices : SlotOf[i] = SlotAfter(SlotOf, i)
  <1>1. Len(form.disks) \in Nat /\ DiskIndices = 1..Len(form.disks)
    BY DEF Form, DiskIndices
  <1>2. \E slot : slot = [i \in DiskIndices |-> SlotAfter(slot, i)]
    BY <1>1, SlotsUpTo
  <1>3. SlotOf = CHOOSE slot : slot = [i \in DiskIndices |-> SlotAfter(slot, i)]
    BY DEF SlotOf, SlotAfter
  <1>4. SlotOf = [i \in DiskIndices |-> SlotAfter(SlotOf, i)]
    BY <1>2, <1>3
  <1> QED
    BY <1>4

-----------------------------------------------------------------------------
(* The disks are numbered from one.                                         *)
LEMMA DiskIndicesAre ==
  ASSUME form \in Form
  PROVE  /\ Len(form.disks) \in Nat
         /\ DiskIndices = 1..Len(form.disks)
         /\ \A i \in DiskIndices : form.disks[i] \in Disk
  BY DEF Form, DiskIndices

(* A disk without a pin gets a slot nobody is pinned to, free in the config *)
(* read, and not given to a disk before it; it gets none only when those    *)
(* disks have all of them.                                                  *)
LEMMA UnpinnedSlot ==
  ASSUME form \in Form, NEW i \in DiskIndices, ~Pinned(i)
  PROVE  /\ SlotOf[i] # NoSlot =>
              /\ SlotOf[i] \in FreeSlots
              /\ \A j \in 1..(i - 1) : ~Pinned(j) => SlotOf[j] # SlotOf[i]
         /\ SlotOf[i] = NoSlot =>
              \A s \in FreeSlots : \E j \in 1..(i - 1) : ~Pinned(j) /\ SlotOf[j] = s
  <1> DEFINE Left == {s \in FreeSlots :
                        \A j \in 1..(i - 1) : ~Pinned(j) => SlotOf[j] # s}
  <1>1. SlotOf[i] = LowestFree(Left)
    BY SlotOfEquation DEF SlotAfter
  <1>2. Left \in SUBSET (Nat \ {0})
    BY DEF FreeSlots
  <1>3. /\ Left # {} => LowestFree(Left) \in Left
        /\ LowestFree(Left) = NoSlot <=> Left = {}
    <2> HIDE DEF Left
    <2> QED
      BY <1>2, LowestFreeIsFree
  <1> QED
    BY <1>1, <1>3

(* A disk that names a slot gets that slot.                                 *)
LEMMA PinnedSlot ==
  ASSUME form \in Form, NEW i \in DiskIndices, Pinned(i)
  PROVE  /\ SlotOf[i] = form.disks[i].device
         /\ SlotOf[i] \in PinnedSlots /\ SlotOf[i] \in 1..MaxSlot
  <1>1. SlotOf[i] = form.disks[i].device
    BY SlotOfEquation DEF SlotAfter
  <1>2. form.disks[i] \in Disk
    BY DEF Form, DiskIndices
  <1> QED
    BY <1>1, <1>2, VMConfigAssumption DEF PinnedSlots, Pinned, Disk

(* When every disk gets a slot, no two get the same, and none one that the  *)
(* config uses: the boot disk, a disk of the template, a slot that          *)
(* pve-extra-config filled.                                                 *)
LEMMA SlotsAreApart ==
  ASSUME form \in Form, DisksApart, PinsFree,
         \A i \in DiskIndices : SlotOf[i] # NoSlot
  PROVE  /\ \A i \in DiskIndices :
              SlotOf[i] \in 1..MaxSlot /\ Scsi(SlotOf[i]) \notin DOMAIN read
         /\ \A i, j \in DiskIndices : i # j => SlotOf[i] # SlotOf[j]
  <1>1. DiskIndices \subseteq Nat
    BY DiskIndicesAre
  <1>2. ASSUME NEW i \in DiskIndices
        PROVE  SlotOf[i] \in 1..MaxSlot /\ Scsi(SlotOf[i]) \notin DOMAIN read
    <2>1. CASE Pinned(i)
      BY <2>1, PinnedSlot DEF PinsFree
    <2>2. CASE ~Pinned(i)
      BY <2>2, UnpinnedSlot DEF FreeSlots
    <2> QED
      BY <2>1, <2>2
  <1>3. ASSUME NEW i \in DiskIndices, NEW j \in DiskIndices, j < i
        PROVE  SlotOf[i] # SlotOf[j]
    <2>1. CASE Pinned(i) /\ Pinned(j)
      BY <1>1, <1>3, <2>1, PinnedSlot DEF DisksApart
    <2>2. CASE Pinned(i) /\ ~Pinned(j)
      BY <2>2, PinnedSlot, UnpinnedSlot DEF FreeSlots
    <2>3. CASE ~Pinned(i) /\ Pinned(j)
      BY <2>3, PinnedSlot, UnpinnedSlot DEF FreeSlots
    <2>4. CASE ~Pinned(i) /\ ~Pinned(j)
      <3>1. j \in 1..(i - 1)
        BY <1>3, DiskIndicesAre
      <3> QED
        BY <2>4, <3>1, UnpinnedSlot
    <2> QED
      BY <2>1, <2>2, <2>3, <2>4
  <1>4. \A i, j \in DiskIndices : i # j => (i < j \/ j < i)
    BY <1>1
  <1> QED
    BY <1>2, <1>3, <1>4

-----------------------------------------------------------------------------
(* The stages the invariants speak of: the checks have passed, Configure    *)
(* has written, the resize is done, the backup flag is set, the disks are   *)
(* attached.                                                                *)
Attached == pc \in {"start", "mac", "done"}
BackedUp == pc \in {"disks", "attach"} \/ Attached
Resized == pc \in {"backup", "set_backup"} \/ BackedUp
Configured == pc = "resize" \/ Resized
Checked == pc = "configure" \/ Configured

(* What the template brought and no field of the form claims.               *)
Unclaimed == DOMAIN template \ (ExtraKeys \cup ReservedKeys)

BootSizeKept ==
  (/\ form.bootGB = 0
   /\ form.boot \in (DOMAIN template \cap DiskKeys) \ ExtraKeys)
    => cfg[form.boot].size = template[form.boot].size

(* A config that is written back, or that slots are picked from, is still   *)
(* the VM's.                                                                *)
ReadInv ==
  /\ pc \in {"set_backup", "attach"} => read = cfg
  /\ pc = "set_backup" => form.backup # "unset" /\ form.boot \in DOMAIN cfg

(* What each write leaves behind, and what the later ones have to keep.     *)
WriteInv ==
  /\ Checked => DisksApart /\ ExtraAllowed
  /\ pc \in {"check", "configure"} => cfg = template
  /\ Configured =>
       /\ DOMAIN template \cup ExtraKeys \subseteq DOMAIN cfg
       /\ \A k \in ExtraKeys : cfg[k] = Written(k)
       /\ \A k \in Unclaimed : cfg[k] = template[k]
       /\ BootSizeKept
  /\ (Resized /\ form.bootGB > 0) =>
       form.boot \in DOMAIN cfg /\ cfg[form.boot].size = form.bootGB
  /\ (BackedUp /\ form.backup # "unset") =>
       form.boot \in DOMAIN cfg /\ cfg[form.boot].backup = form.backup

(* The type invariant, with the MACs a property string may hold.            *)
TypeInv ==
  /\ TypeOK
  /\ \A k \in DOMAIN cfg : cfg[k].mac \in {0, OldMAC, NewMAC}

IInv == TypeInv /\ ReadInv /\ WriteInv

-----------------------------------------------------------------------------
(* What a PUT leaves behind.                                                *)
LEMMA PutForm ==
  ASSUME NEW values, NEW config
  PROVE  /\ DOMAIN Put(values, config) = DOMAIN values \cup DOMAIN config
         /\ \A k \in DOMAIN values : Put(values, config)[k] = values[k]
         /\ \A k \in DOMAIN config \ DOMAIN values :
              Put(values, config)[k] = config[k]
  BY DEF Put

(* What Configure writes is a property string with no label.                *)
LEMMA WrittenIsValue ==
  ASSUME NEW k
  PROVE  /\ Written(k) \in Value /\ Written(k).label = 0
         /\ Written(k).mac \in {0, NewMAC}
  BY DEF Written, Plain, Value, NewMAC

(* A field of the form never names a key PVE does not have.                 *)
LEMMA WrittenKeysAreKeys ==
  ASSUME form \in Form
  PROVE  DriverKeys \cup ExtraKeys \subseteq Keys
  <1>1. form.netDevice \in 0..MaxNet /\ form.extra \in Seq(Keys)
    BY DEF Form
  <1>2. DriverKeys \subseteq Keys
    BY <1>1 DEF DriverKeys, Keys
  <1>3. ExtraKeys \subseteq Keys
    BY <1>1 DEF ExtraKeys
  <1> QED
    BY <1>2, <1>3

(* Configure writes its keys and leaves the others.                         *)
LEMMA ConfigureForm ==
  ASSUME Configure
  PROVE  /\ DOMAIN cfg' = DriverKeys \cup ExtraKeys \cup DOMAIN cfg
         /\ \A k \in DriverKeys \cup ExtraKeys : cfg'[k] = Written(k)
         /\ \A k \in DOMAIN cfg \ (DriverKeys \cup ExtraKeys) : cfg'[k] = cfg[k]
  <1> DEFINE values == [k \in DriverKeys \cup ExtraKeys |-> Written(k)]
  <1>1. cfg' = Put(values, cfg)
    BY DEF Configure
  <1>2. DOMAIN values = DriverKeys \cup ExtraKeys
    OBVIOUS
  <1>3. \A k \in DriverKeys \cup ExtraKeys : values[k] = Written(k)
    OBVIOUS
  <1> HIDE DEF values
  <1>4. DOMAIN Put(values, cfg) = DOMAIN values \cup DOMAIN cfg
    BY PutForm
  <1>5. \A k \in DOMAIN values : Put(values, cfg)[k] = values[k]
    BY PutForm
  <1>6. \A k \in DOMAIN cfg \ DOMAIN values : Put(values, cfg)[k] = cfg[k]
    BY PutForm
  <1> QED
    BY <1>1, <1>2, <1>3, <1>4, <1>5, <1>6

(* One field of a property string is set, the others stay.                  *)
LEMMA ResizedValue ==
  ASSUME NEW v \in Value, NEW n \in Nat
  PROVE  LET w == [v EXCEPT !.size = n]
         IN /\ w \in Value /\ w.size = n
            /\ w.label = v.label /\ w.mac = v.mac /\ w.backup = v.backup
  BY DEF Value

(* The resize changes the size of the boot disk at most.                    *)
LEMMA ResizeForm ==
  ASSUME TypeOK, ResizeBootDisk
  PROVE  /\ DOMAIN cfg' = DOMAIN cfg
         /\ \A k \in DOMAIN cfg :
              /\ cfg'[k] \in Value /\ cfg'[k].label = cfg[k].label
              /\ cfg'[k].mac = cfg[k].mac
              /\ k # form.boot \/ form.bootGB = 0 => cfg'[k] = cfg[k]
         /\ pc' \in {"backup", "failed"}
         /\ (pc' = "backup" /\ form.bootGB > 0) =>
              form.boot \in DOMAIN cfg' /\ cfg'[form.boot].size = form.bootGB
  <1> DEFINE b == form.boot
  <1>1. form \in Form /\ form.bootGB \in Nat
    BY VMConfigAssumption DEF TypeOK, Form
  <1>2. CASE cfg' = cfg /\ (form.bootGB = 0 \/ pc' = "failed")
    BY <1>1, <1>2 DEF ResizeBootDisk, Goto, TypeOK
  <1>3. CASE /\ form.bootGB > 0 /\ HasBootDisk /\ pc' = "backup"
             /\ cfg' = [cfg EXCEPT ![form.boot].size = form.bootGB]
    <2>1. b \in DOMAIN cfg /\ cfg[b] \in Value
      BY <1>3 DEF HasBootDisk, TypeOK
    <2>2. DOMAIN cfg' = DOMAIN cfg /\ cfg'[b] = [cfg[b] EXCEPT !.size = form.bootGB]
      BY <1>3, <2>1
    <2>3. \A k \in DOMAIN cfg : k # b => cfg'[k] = cfg[k]
      BY <1>3
    <2>4. /\ cfg'[b] \in Value /\ cfg'[b].size = form.bootGB
          /\ cfg'[b].label = cfg[b].label /\ cfg'[b].mac = cfg[b].mac
      BY <1>1, <2>1, <2>2, ResizedValue
    <2>5. \A k \in DOMAIN cfg : cfg[k] \in Value
      BY DEF TypeOK
    <2> QED
      BY <1>1, <1>3, <2>1, <2>2, <2>3, <2>4, <2>5
  <1> QED
    BY <1>2, <1>3 DEF ResizeBootDisk, Goto

(* Setting the flag changes the backup flag of the boot disk at most: the   *)
(* string that is written back is the one the VM still has.                 *)
LEMMA FlagForm ==
  ASSUME TypeOK, ReadInv, SetBootDiskBackup
  PROVE  /\ DOMAIN cfg' = DOMAIN cfg
         /\ \A k \in DOMAIN cfg :
              /\ cfg'[k] \in Value /\ cfg'[k].label = cfg[k].label
              /\ cfg'[k].mac = cfg[k].mac /\ cfg'[k].size = cfg[k].size
              /\ k # form.boot => cfg'[k] = cfg[k]
         /\ pc' \in {"disks", "failed"}
         /\ pc' = "disks" =>
              form.boot \in DOMAIN cfg' /\ cfg'[form.boot].backup = form.backup
  <1> DEFINE b == form.boot
  <1>1. form.backup \in {"unset", "0", "1"}
    BY VMConfigAssumption DEF TypeOK, Form
  <1>2. CASE cfg' = cfg /\ pc' = "failed"
    BY <1>2 DEF TypeOK
  <1>3. CASE /\ HasBootDisk /\ pc' = "disks"
             /\ cfg' = [cfg EXCEPT ![form.boot] =
                          [read[form.boot] EXCEPT !.backup = form.backup]]
    <2>1. b \in DOMAIN cfg /\ cfg[b] \in Value /\ read = cfg
      BY <1>3 DEF HasBootDisk, TypeOK, ReadInv, SetBootDiskBackup
    <2>2. DOMAIN cfg' = DOMAIN cfg /\ cfg'[b] = [cfg[b] EXCEPT !.backup = form.backup]
      BY <1>3, <2>1
    <2>3. \A k \in DOMAIN cfg : k # b => cfg'[k] = cfg[k]
      BY <1>3
    <2>4. /\ cfg'[b] \in Value /\ cfg'[b].backup = form.backup
          /\ cfg'[b].label = cfg[b].label /\ cfg'[b].mac = cfg[b].mac
          /\ cfg'[b].size = cfg[b].size
      BY <1>1, <2>1, <2>2 DEF Value
    <2>5. \A k \in DOMAIN cfg : cfg[k] \in Value
      BY DEF TypeOK
    <2> QED
      BY <1>3, <2>1, <2>2, <2>3, <2>4, <2>5
  <1> QED
    BY <1>2, <1>3 DEF SetBootDiskBackup, Goto

(* The disks land on keys the config did not have, each on one of its own.  *)
LEMMA AttachForm ==
  ASSUME TypeOK, DisksApart, read = cfg, AddDisks, pc' # "failed"
  PROVE  /\ pc' = "start"
         /\ \A i \in DiskIndices :
              SlotOf[i] \in 1..MaxSlot /\ Scsi(SlotOf[i]) \notin DOMAIN cfg
         /\ \A i, j \in DiskIndices : i # j => SlotOf[i] # SlotOf[j]
         /\ DOMAIN cfg' = {Scsi(SlotOf[i]) : i \in DiskIndices} \cup DOMAIN cfg
         /\ \A k \in DOMAIN cfg : cfg'[k] = cfg[k]
         /\ \A i \in DiskIndices :
              /\ cfg'[Scsi(SlotOf[i])] \in Value
              /\ cfg'[Scsi(SlotOf[i])].label = form.disks[i].label
              /\ cfg'[Scsi(SlotOf[i])].mac = 0
  <1> DEFINE slots == {Scsi(SlotOf[i]) : i \in DiskIndices}
             disk(k) == CHOOSE i \in DiskIndices : Scsi(SlotOf[i]) = k
             value(k) == [Plain("driver") EXCEPT
                            !.label = form.disks[disk(k)].label,
                            !.size = 1, !.backup = "0"]
             values == [k \in slots |-> value(k)]
  <1>1. form \in Form
    BY VMConfigAssumption DEF TypeOK
  <1>2. /\ PinsFree /\ \A i \in DiskIndices : SlotOf[i] # NoSlot
        /\ cfg' = Put(values, cfg) /\ pc' = "start"
    BY DEF AddDisks, Goto
  <1>3. /\ \A i \in DiskIndices :
             SlotOf[i] \in 1..MaxSlot /\ Scsi(SlotOf[i]) \notin DOMAIN cfg
        /\ \A i, j \in DiskIndices : i # j => SlotOf[i] # SlotOf[j]
    BY <1>1, <1>2, SlotsAreApart
  <1>4. DOMAIN values = slots
    OBVIOUS
  <1>5. \A k \in slots : values[k] = value(k)
    OBVIOUS
  <1>6. slots \cap DOMAIN cfg = {}
    BY <1>3
  <1>7. ASSUME NEW i \in DiskIndices
        PROVE  disk(Scsi(SlotOf[i])) = i
    BY <1>3 DEF Scsi
  <1>8. ASSUME NEW i \in DiskIndices
        PROVE  /\ value(Scsi(SlotOf[i])) \in Value
               /\ value(Scsi(SlotOf[i])).label = form.disks[i].label
               /\ value(Scsi(SlotOf[i])).mac = 0
    <2>1. form.disks[i].label \in Nat
      BY <1>1, DiskIndicesAre DEF Disk
    <2> HIDE DEF disk
    <2> QED
      BY <1>7, <2>1 DEF Plain, Value
  <1> HIDE DEF values, value, disk
  <1>9. DOMAIN Put(values, cfg) = DOMAIN values \cup DOMAIN cfg
    BY PutForm
  <1>10. \A k \in DOMAIN values : Put(values, cfg)[k] = values[k]
    BY PutForm
  <1>11. \A k \in DOMAIN cfg \ DOMAIN values : Put(values, cfg)[k] = cfg[k]
    BY PutForm
  <1>12. \A k \in DOMAIN cfg : cfg'[k] = cfg[k]
    BY <1>2, <1>4, <1>6, <1>11
  <1>13. ASSUME NEW i \in DiskIndices
         PROVE  cfg'[Scsi(SlotOf[i])] = value(Scsi(SlotOf[i]))
    <2>1. Scsi(SlotOf[i]) \in slots
      OBVIOUS
    <2> HIDE DEF slots
    <2> QED
      BY <1>2, <1>4, <1>5, <1>10, <2>1
  <1>14. DOMAIN cfg' = slots \cup DOMAIN cfg
    BY <1>2, <1>4, <1>9
  <1> QED
    BY <1>2, <1>3, <1>8, <1>12, <1>13, <1>14

-----------------------------------------------------------------------------
(* The form and the template are given; what is derived from them stays.    *)
LEMMA NextFrame ==
  ASSUME [Next]_vars
  PROVE  form' = form /\ template' = template
  BY DEF Next, vars, PreCreateCheck, Configure, ResizeBootDisk, ReadBootDisk,
         SetBootDiskBackup, ReadDisks, AddDisks, Start, ReadNetMAC, CallFails, Goto

LEMMA FormFrame ==
  ASSUME form' = form, template' = template
  PROVE  /\ DiskIndices' = DiskIndices /\ DriverKeys' = DriverKeys
         /\ ExtraKeys' = ExtraKeys /\ ReservedKeys' = ReservedKeys
         /\ Unclaimed' = Unclaimed
         /\ (DisksApart' <=> DisksApart) /\ (ExtraAllowed' <=> ExtraAllowed)
         /\ \A k : Written(k)' = Written(k)
         /\ \A i : Pinned(i)' <=> Pinned(i)
  <1>1. DiskIndices' = DiskIndices /\ (\A i : Pinned(i)' <=> Pinned(i))
    BY DEF DiskIndices, Pinned
  <1>2. DriverKeys' = DriverKeys /\ ExtraKeys' = ExtraKeys
    BY DEF DriverKeys, ExtraKeys
  <1>3. PinnedSlots' = PinnedSlots
    BY <1>1 DEF PinnedSlots
  <1>4. ReservedKeys' = ReservedKeys
    BY <1>2, <1>3 DEF ReservedKeys
  <1>5. Unclaimed' = Unclaimed
    BY <1>2, <1>4 DEF Unclaimed
  <1>6. DisksApart' <=> DisksApart
    BY <1>1 DEF DisksApart
  <1>7. ExtraAllowed' <=> ExtraAllowed
    BY <1>2, <1>4 DEF ExtraAllowed, Distinct
  <1>8. \A k : Written(k)' = Written(k)
    BY <1>2 DEF Written
  <1> QED
    BY <1>1, <1>2, <1>4, <1>5, <1>6, <1>7, <1>8

(* The clone starts as the template.                                        *)
LEMMA InitIInv ==
  ASSUME Init
  PROVE  IInv
  <1>1. /\ template \in [DOMAIN template -> Value] /\ DOMAIN template \subseteq Keys
        /\ \A k \in DOMAIN template : template[k].mac \in {0, OldMAC}
    BY VMConfigAssumption DEF Init
  <1>2. TypeInv
    BY <1>1, VMConfigAssumption DEF Init, TypeInv, TypeOK, OldMAC, NewMAC
  <1>3. ReadInv
    BY DEF Init, ReadInv
  <1>4. WriteInv
    BY DEF Init, WriteInv, Checked, Configured, Resized, BackedUp, Attached
  <1> QED
    BY <1>2, <1>3, <1>4 DEF IInv

(* Every call keeps the type invariant.                                     *)
LEMMA TypeStep ==
  ASSUME IInv, [Next]_vars
  PROVE  TypeInv'
  <1> DEFINE Good(c) == /\ DOMAIN c \subseteq Keys
                        /\ \A k \in DOMAIN c :
                             c[k] \in Value /\ c[k].mac \in {0, OldMAC, NewMAC}
             Rest == /\ pc' \in {"check", "configure", "resize", "backup",
                                 "set_backup", "disks", "attach", "start",
                                 "mac", "done", "failed"}
                     /\ read' \in {read, cfg}
                     /\ mac' \in {0, OldMAC, NewMAC} /\ faults' \in 0..MaxFaults
  <1>1. TypeOK /\ ReadInv /\ WriteInv /\ Good(cfg)
    BY DEF IInv, TypeInv, TypeOK
  <1>2. form' = form /\ template' = template /\ form \in Form
    BY <1>1, NextFrame, VMConfigAssumption DEF TypeOK
  <1>3. Rest /\ Good(cfg') => TypeInv'
    BY <1>1, <1>2 DEF TypeInv, TypeOK
  <1> HIDE DEF Good
  <1> USE <1>1, <1>2, <1>3
  <1>4. CASE UNCHANGED vars
    BY <1>4 DEF vars, TypeOK
  <1>5. CASE PreCreateCheck
    BY <1>5 DEF PreCreateCheck, Goto, TypeOK
  <1>6. CASE Configure
    <2>1. Good(cfg')
      <3>1. DriverKeys \cup ExtraKeys \subseteq Keys
        BY WrittenKeysAreKeys
      <3>2. \A k : Written(k) \in Value /\ Written(k).mac \in {0, OldMAC, NewMAC}
        BY WrittenIsValue
      <3> QED
        BY <1>6, <3>1, <3>2, ConfigureForm DEF Good
    <2> QED
      BY <1>6, <2>1 DEF Configure, Goto, TypeOK
  <1>7. CASE ResizeBootDisk
    <2>1. Good(cfg')
      BY <1>7, ResizeForm DEF Good
    <2> QED
      BY <1>7, <2>1 DEF ResizeBootDisk, Goto, TypeOK
  <1>8. CASE ReadBootDisk
    BY <1>8 DEF ReadBootDisk, Goto, TypeOK
  <1>9. CASE SetBootDiskBackup
    <2>1. Good(cfg')
      BY <1>9, FlagForm DEF Good
    <2> QED
      BY <1>9, <2>1 DEF SetBootDiskBackup, Goto, TypeOK
  <1>10. CASE ReadDisks
    BY <1>10 DEF ReadDisks, Goto, TypeOK
  <1>11. CASE AddDisks
    <2>1. pc = "attach" /\ read = cfg /\ DisksApart
      BY <1>11 DEF AddDisks, ReadInv, WriteInv, Checked, Configured, Resized,
                   BackedUp
    <2>2. CASE pc' = "failed" /\ cfg' = cfg
      BY <1>11, <2>2 DEF AddDisks, Goto, TypeOK
    <2>3. CASE pc' # "failed"
      <3>1. \A i \in DiskIndices : SlotOf[i] \in 1..MaxSlot => Scsi(SlotOf[i]) \in Keys
        BY DEF Keys, DiskKeys
      <3>2. Good(cfg')
        BY <1>11, <2>1, <2>3, <3>1, AttachForm DEF Good
      <3> QED
        BY <1>11, <2>3, <3>2 DEF AddDisks, Goto, TypeOK
    <2> QED
      BY <1>11, <2>2, <2>3 DEF AddDisks, Goto
  <1>12. CASE Start
    BY <1>12 DEF Start, Goto, TypeOK
  <1>13. CASE ReadNetMAC
    <2>1. mac' \in {0, OldMAC, NewMAC}
      BY <1>13 DEF ReadNetMAC, Good
    <2>2. faults' \in 0..MaxFaults
      BY <1>13, VMConfigAssumption DEF ReadNetMAC, TypeOK
    <2> QED
      BY <1>13, <2>1, <2>2 DEF ReadNetMAC
  <1>14. CASE CallFails
    BY <1>14, VMConfigAssumption DEF CallFails, TypeOK
  <1> QED
    BY <1>4, <1>5, <1>6, <1>7, <1>8, <1>9, <1>10, <1>11, <1>12, <1>13, <1>14 DEF Next

(* Between reading the config and writing it back nothing else writes.      *)
LEMMA ReadStep ==
  ASSUME IInv, [Next]_vars
  PROVE  ReadInv'
  <1>1. form' = form /\ ReadInv
    BY NextFrame DEF IInv
  <1>2. CASE UNCHANGED vars \/ PreCreateCheck \/ Configure \/ ResizeBootDisk
              \/ SetBootDiskBackup \/ AddDisks \/ Start \/ ReadNetMAC \/ CallFails
    BY <1>1, <1>2 DEF vars, ReadInv, PreCreateCheck, Configure, ResizeBootDisk,
         SetBootDiskBackup, AddDisks, Start, ReadNetMAC, CallFails, Goto
  <1>3. CASE ReadBootDisk \/ ReadDisks
    BY <1>1, <1>3 DEF ReadInv, ReadBootDisk, ReadDisks, Goto
  <1> QED
    BY <1>2, <1>3 DEF Next

(* The boot disk is out of reach of Configure, and of pve-extra-config when *)
(* a later step writes it.                                                  *)
LEMMA BootDiskApart ==
  ASSUME form \in Form, ExtraAllowed
  PROVE  /\ DriverKeys \cap DiskKeys = {}
         /\ DriverKeys \cap Unclaimed = {}
         /\ (form.bootGB > 0 \/ form.backup # "unset")
              => form.boot \notin ExtraKeys /\ form.boot \notin Unclaimed
  <1>1. DriverKeys \cap DiskKeys = {}
    BY DEF DriverKeys, DiskKeys, Name, CiUser, Net, Scsi, Other
  <1>2. DriverKeys \cap Unclaimed = {}
    BY DEF Unclaimed, ReservedKeys
  <1>3. (form.bootGB > 0 \/ form.backup # "unset") => form.boot \in ReservedKeys
    BY DEF ReservedKeys
  <1>4. (form.bootGB > 0 \/ form.backup # "unset")
          => form.boot \notin ExtraKeys /\ form.boot \notin Unclaimed
    BY <1>3 DEF ExtraAllowed, Unclaimed
  <1> QED
    BY <1>1, <1>2, <1>4

(* Every write keeps what the earlier ones left.                            *)
LEMMA WriteStep ==
  ASSUME IInv, [Next]_vars
  PROVE  WriteInv'
  <1>1. TypeOK /\ ReadInv /\ WriteInv /\ form \in Form
    BY VMConfigAssumption DEF IInv, TypeInv, TypeOK
  <1>2. form' = form /\ template' = template
    BY NextFrame
  <1>3. form.bootGB \in Nat
    BY <1>1 DEF Form
  <1>4. /\ DiskIndices' = DiskIndices /\ DriverKeys' = DriverKeys
        /\ ExtraKeys' = ExtraKeys /\ Unclaimed' = Unclaimed
        /\ (DisksApart' <=> DisksApart) /\ (ExtraAllowed' <=> ExtraAllowed)
        /\ \A k : Written(k)' = Written(k)
    BY <1>2, FormFrame
  <1> USE DEF Checked, Configured, Resized, BackedUp, Attached
  <1>5. CASE UNCHANGED vars
    <2>1. cfg' = cfg /\ pc' = pc
      BY <1>5 DEF vars
    <2> QED
      BY <1>1, <1>2, <1>4, <2>1 DEF WriteInv, BootSizeKept
  <1>6. CASE PreCreateCheck
    BY <1>1, <1>2, <1>4, <1>6 DEF WriteInv, PreCreateCheck, Goto
  <1>7. CASE Configure
    <2>1. cfg = template /\ pc' = "resize" /\ DisksApart /\ ExtraAllowed
      BY <1>1, <1>7 DEF Configure, Goto, WriteInv
    <2>2. /\ DOMAIN template \cup ExtraKeys \subseteq DOMAIN cfg'
          /\ \A k \in ExtraKeys : cfg'[k] = Written(k)
      BY <1>7, <2>1, ConfigureForm
    <2>3. \A k \in DOMAIN template \ (DriverKeys \cup ExtraKeys) : cfg'[k] = template[k]
      BY <1>7, <2>1, ConfigureForm
    <2>4. \A k \in Unclaimed : cfg'[k] = template[k]
      BY <1>1, <2>1, <2>3, BootDiskApart DEF Unclaimed
    <2>5. BootSizeKept'
      BY <1>1, <1>2, <1>4, <2>1, <2>3, BootDiskApart DEF BootSizeKept
    <2> QED
      BY <1>2, <1>4, <2>1, <2>2, <2>4, <2>5 DEF WriteInv
  <1>8. CASE ResizeBootDisk
    <2>1. pc = "resize" /\ DisksApart /\ ExtraAllowed
      BY <1>1, <1>8 DEF ResizeBootDisk, WriteInv
    <2>2. /\ DOMAIN cfg' = DOMAIN cfg /\ pc' \in {"backup", "failed"}
          /\ \A k \in DOMAIN cfg :
               k # form.boot \/ form.bootGB = 0 => cfg'[k] = cfg[k]
          /\ (pc' = "backup" /\ form.bootGB > 0) =>
               form.boot \in DOMAIN cfg' /\ cfg'[form.boot].size = form.bootGB
      BY <1>1, <1>8, ResizeForm
    <2>3. \A k \in ExtraKeys : cfg'[k] = cfg[k]
      BY <1>1, <1>3, <2>1, <2>2, BootDiskApart DEF WriteInv
    <2>4. \A k \in Unclaimed : cfg'[k] = cfg[k]
      BY <1>1, <1>3, <2>1, <2>2, BootDiskApart DEF WriteInv, Unclaimed
    <2>5. BootSizeKept'
      BY <1>1, <1>2, <1>4, <2>1, <2>2 DEF WriteInv, BootSizeKept
    <2> QED
      BY <1>1, <1>2, <1>4, <2>1, <2>2, <2>3, <2>4, <2>5 DEF WriteInv
  <1>9. CASE ReadBootDisk
    <2>1. cfg' = cfg /\ pc = "backup"
      BY <1>9 DEF ReadBootDisk
    <2>2. /\ pc' \in {"disks", "set_backup", "failed"}
          /\ (pc' = "disks" /\ form.backup # "unset") =>
               form.boot \in DOMAIN cfg /\ cfg[form.boot].backup = form.backup
      BY <1>9 DEF ReadBootDisk, Goto
    <2> QED
      BY <1>1, <1>2, <1>4, <2>1, <2>2 DEF WriteInv, BootSizeKept
  <1>10. CASE SetBootDiskBackup
    <2>1. pc = "set_backup" /\ DisksApart /\ ExtraAllowed /\ form.backup # "unset"
      BY <1>1, <1>10 DEF SetBootDiskBackup, WriteInv, ReadInv
    <2>2. /\ DOMAIN cfg' = DOMAIN cfg /\ pc' \in {"disks", "failed"}
          /\ \A k \in DOMAIN cfg : /\ cfg'[k].size = cfg[k].size
                                   /\ k # form.boot => cfg'[k] = cfg[k]
          /\ pc' = "disks" =>
               form.boot \in DOMAIN cfg' /\ cfg'[form.boot].backup = form.backup
      BY <1>1, <1>10, FlagForm
    <2>3. \A k \in ExtraKeys : cfg'[k] = cfg[k]
      BY <1>1, <2>1, <2>2, BootDiskApart DEF WriteInv
    <2>4. \A k \in Unclaimed : cfg'[k] = cfg[k]
      BY <1>1, <2>1, <2>2, BootDiskApart DEF WriteInv, Unclaimed
    <2>5. BootSizeKept'
      BY <1>1, <1>2, <1>4, <2>1, <2>2 DEF WriteInv, BootSizeKept
    <2> QED
      BY <1>1, <1>2, <1>4, <2>1, <2>2, <2>3, <2>4, <2>5 DEF WriteInv
  <1>11. CASE AddDisks
    <2>1. pc = "attach" /\ DisksApart /\ read = cfg
      BY <1>1, <1>11 DEF AddDisks, WriteInv, ReadInv
    <2>2. CASE pc' = "failed"
      BY <1>1, <1>2, <1>4, <2>1, <2>2 DEF WriteInv
    <2>3. CASE pc' # "failed"
      <3>1. /\ pc' = "start" /\ DOMAIN cfg \subseteq DOMAIN cfg'
            /\ \A k \in DOMAIN cfg : cfg'[k] = cfg[k]
        BY <1>1, <1>11, <2>1, <2>3, AttachForm
      <3>2. \A k \in ExtraKeys \cup Unclaimed : cfg'[k] = cfg[k]
        BY <1>1, <2>1, <3>1 DEF WriteInv, Unclaimed
      <3>3. BootSizeKept'
        BY <1>1, <1>2, <1>4, <2>1, <3>1 DEF WriteInv, BootSizeKept
      <3> QED
        BY <1>1, <1>2, <1>4, <2>1, <3>1, <3>2, <3>3 DEF WriteInv
    <2> QED
      BY <2>2, <2>3
  <1>12. CASE ReadDisks \/ Start \/ ReadNetMAC \/ CallFails
    <2>1. cfg' = cfg /\ pc # "check" /\ (Checked' => Checked)
      BY <1>12 DEF ReadDisks, Start, ReadNetMAC, CallFails, Goto
    <2>2. /\ Configured' => Configured
          /\ (Resized' => Resized) /\ (BackedUp' => BackedUp)
          /\ pc' \notin {"check", "configure"}
      BY <1>12 DEF ReadDisks, Start, ReadNetMAC, CallFails, Goto
    <2> HIDE DEF Checked, Configured, Resized, BackedUp, Attached
    <2> QED
      BY <1>1, <1>2, <1>4, <2>1, <2>2 DEF WriteInv, BootSizeKept
  <1> QED
    BY <1>5, <1>6, <1>7, <1>8, <1>9, <1>10, <1>11, <1>12 DEF Next

LEMMA Inductive == Spec => []IInv
  <1>1. Init => IInv
    BY InitIInv
  <1>2. IInv /\ [Next]_vars => IInv'
    BY TypeStep, ReadStep, WriteStep DEF IInv
  <1> QED
    BY <1>1, <1>2, PTL DEF Spec

-----------------------------------------------------------------------------
(* Type correctness: no step puts a key PVE does not have into the config,  *)
(* an ill-formed property string, or a MAC of nobody.                       *)
THEOREM TypeCorrect == Spec => []TypeOK
  <1>1. IInv => TypeOK
    BY DEF IInv, TypeInv
  <1> QED
    BY <1>1, Inductive, PTL

(* The boot disk boots with the size and the backup flag asked for, for any *)
(* form that passes the checks and whatever the boot device names.          *)
THEOREM BootDiskServed == Spec => []BootDiskAsAsked
  <1>1. IInv => BootDiskAsAsked
    BY DEF IInv, WriteInv, BootSizeKept, BootDiskAsAsked, Booted, Configured,
           Resized, BackedUp, Attached
  <1> QED
    BY <1>1, Inductive, PTL

(* The writers of one config stay apart: the checks of PreCreateCheck are   *)
(* enough for that, for any set of forms and any template.                  *)
THEOREM WritersStayApart == Spec => []NothingOverwritten
  <1>1. IInv => NothingOverwritten
    BY DEF IInv, WriteInv, NothingOverwritten, Unclaimed, Booted, Configured,
           Resized, BackedUp, Attached
  <1> QED
    BY <1>1, Inductive, PTL

-----------------------------------------------------------------------------
(* Once Configure has written, the NIC has the MAC it is to have, and only  *)
(* the reading of it can fail without ending Create.                        *)
NICInv ==
  /\ pc \notin {"done", "failed"} => faults = 0
  /\ Configured =>
       IF Net(form.netDevice) \in DOMAIN cfg
       THEN cfg[Net(form.netDevice)].mac = NICMAC ELSE NICMAC = 0

(* A NIC is no SCSI slot, so no data disk lands on it.                      *)
LEMMA NICIsNoSlot ==
  ASSUME NEW n, NEW s
  PROVE  Net(n) # Scsi(s)
  BY DEF Net, Scsi

LEMMA NICMACFrame ==
  ASSUME form' = form, template' = template
  PROVE  NICMAC' = NICMAC
  <1>1. DriverKeys' = DriverKeys /\ ExtraKeys' = ExtraKeys
    BY FormFrame
  <1> QED
    BY <1>1 DEF NICMAC, NICRewritten, Net

(* Configure gives the NIC its MAC; the resize, the flag and the data disks *)
(* leave it alone.                                                          *)
LEMMA NICStep ==
  ASSUME IInv, NICInv, [Next]_vars
  PROVE  NICInv'
  <1> DEFINE nic == Net(form.netDevice)
             Same == /\ nic \in DOMAIN cfg' <=> nic \in DOMAIN cfg
                     /\ nic \in DOMAIN cfg => cfg'[nic].mac = cfg[nic].mac
  <1>1. TypeOK /\ ReadInv /\ WriteInv
    BY DEF IInv, TypeInv
  <1>2. form' = form /\ template' = template /\ nic' = nic /\ NICMAC' = NICMAC
    BY NextFrame, NICMACFrame DEF Net
  <1>3. pc' \notin {"done", "failed"} => faults' = 0
    BY DEF NICInv, Next, vars, PreCreateCheck, Configure, ResizeBootDisk,
         ReadBootDisk, SetBootDiskBackup, ReadDisks, AddDisks, Start, ReadNetMAC,
         CallFails, Goto
  <1> USE DEF Configured, Resized, BackedUp, Attached
  <1>4. Same /\ (Configured' => Configured) => NICInv'
    <2> HIDE DEF Configured
    <2> QED
      BY <1>2, <1>3 DEF NICInv
  <1>5. CASE Configure
    <2>1. /\ cfg = template
          /\ DOMAIN cfg' = DriverKeys \cup ExtraKeys \cup DOMAIN cfg
          /\ \A k \in DriverKeys \cup ExtraKeys : cfg'[k] = Written(k)
          /\ \A k \in DOMAIN cfg \ (DriverKeys \cup ExtraKeys) : cfg'[k] = cfg[k]
      BY <1>1, <1>5, ConfigureForm DEF WriteInv, Configure
    <2>2. Written(nic).mac = NewMAC
      BY DEF Written, Plain, Net
    <2>3. IF nic \in DOMAIN cfg' THEN cfg'[nic].mac = NICMAC ELSE NICMAC = 0
      <3>1. CASE NICRewritten
        BY <2>1, <2>2, <3>1 DEF NICMAC, NICRewritten
      <3>2. CASE ~NICRewritten /\ nic \in DOMAIN template
        BY <2>1, <3>2 DEF NICMAC, NICRewritten
      <3>3. CASE ~NICRewritten /\ nic \notin DOMAIN template
        BY <2>1, <3>3 DEF NICMAC, NICRewritten
      <3> QED
        BY <3>1, <3>2, <3>3
    <2> QED
      BY <1>2, <1>3, <2>3 DEF NICInv
  <1>6. CASE ResizeBootDisk
    <2>1. Same /\ pc = "resize"
      BY <1>1, <1>6, ResizeForm DEF ResizeBootDisk
    <2> QED
      BY <1>4, <2>1
  <1>7. CASE SetBootDiskBackup
    <2>1. Same /\ pc = "set_backup"
      BY <1>1, <1>7, FlagForm DEF SetBootDiskBackup
    <2> QED
      BY <1>4, <2>1
  <1>8. CASE AddDisks
    <2>1. pc = "attach" /\ read = cfg /\ DisksApart
      BY <1>1, <1>8 DEF AddDisks, ReadInv, WriteInv, Checked
    <2>2. Same \/ pc' = "failed"
      <3>1. ASSUME pc' # "failed"
            PROVE  Same
        <4>1. /\ DOMAIN cfg' = {Scsi(SlotOf[i]) : i \in DiskIndices} \cup DOMAIN cfg
              /\ \A k \in DOMAIN cfg : cfg'[k] = cfg[k]
          BY <1>1, <1>8, <2>1, <3>1, AttachForm
        <4>2. nic \notin {Scsi(SlotOf[i]) : i \in DiskIndices}
          BY NICIsNoSlot
        <4> QED
          BY <4>1, <4>2
      <3> QED
        BY <3>1
    <2> QED
      BY <1>3, <1>4, <2>1, <2>2 DEF NICInv
  <1>9. CASE \/ PreCreateCheck \/ ReadBootDisk \/ ReadDisks \/ Start \/ ReadNetMAC
             \/ CallFails \/ UNCHANGED vars
    <2>1. cfg' = cfg /\ (Configured' => Configured)
      BY <1>9 DEF PreCreateCheck, ReadBootDisk, ReadDisks, Start, ReadNetMAC,
           CallFails, vars, Goto
    <2> QED
      BY <1>4, <2>1
  <1> QED
    BY <1>5, <1>6, <1>7, <1>8, <1>9 DEF Next

(* Discovery is given the MAC of the NIC that boots, new or the clone's,    *)
(* whatever else Create wrote in between; it is left to any interface for   *)
(* the three reasons only.                                                  *)
THEOREM DiscoveryServed == Spec => []DiscoveryKnowsNIC
  <1>1. Init => NICInv /\ DiscoveryKnowsNIC
    BY DEF Init, NICInv, DiscoveryKnowsNIC, Configured, Resized, BackedUp, Attached
  <1>2. ASSUME IInv, NICInv, DiscoveryKnowsNIC, [Next]_vars
        PROVE  DiscoveryKnowsNIC'
    <2>1. form' = form /\ template' = template /\ NICMAC' = NICMAC
      BY <1>2, NextFrame, NICMACFrame
    <2>2. CASE ReadNetMAC
      <3>1. /\ pc = "mac" /\ faults = 0
            /\ IF Net(form.netDevice) \in DOMAIN cfg
               THEN cfg[Net(form.netDevice)].mac = NICMAC ELSE NICMAC = 0
        BY <1>2, <2>2 DEF ReadNetMAC, NICInv, Configured, Resized, BackedUp, Attached
      <3>2. form.netDevice \in Int /\ MaxNetRead \in Int
        BY <1>2, VMConfigAssumption DEF IInv, TypeInv, TypeOK, Form
      <3> QED
        BY <2>1, <2>2, <3>1, <3>2 DEF ReadNetMAC, DiscoveryKnowsNIC
    <2>3. CASE UNCHANGED vars
      BY <1>2, <2>1, <2>3 DEF vars, DiscoveryKnowsNIC
    <2>4. pc' # "done" \/ ReadNetMAC \/ UNCHANGED vars
      BY <1>2 DEF Next, PreCreateCheck, Configure, ResizeBootDisk, ReadBootDisk,
             SetBootDiskBackup, ReadDisks, AddDisks, Start, CallFails, Goto
    <2> QED
      BY <2>2, <2>3, <2>4 DEF DiscoveryKnowsNIC
  <1> QED
    BY <1>1, <1>2, NICStep, Inductive, PTL DEF Spec

-----------------------------------------------------------------------------
(* The premise of DisksServed: no disk of a template already carries the    *)
(* serial of a data disk of a form. Nothing in the code rules that out.     *)
SerialsAreNew ==
  \A f \in Forms, t \in Templates :
    \A i \in DOMAIN f.disks, k \in DOMAIN t : t[k].label # f.disks[i].label

(* Up to AddDisks no key carries a label of the form; then each is once.    *)
LabelInv ==
  /\ (pc # "failed" /\ ~Attached) =>
       \A i \in DiskIndices : \A k \in DOMAIN cfg : cfg[k].label # form.disks[i].label
  /\ Attached => DisksInPlace

(* AddDisks puts every disk in its place.                                   *)
LEMMA AttachedInPlace ==
  ASSUME IInv, AddDisks, pc' # "failed",
         \A i \in DiskIndices : \A k \in DOMAIN cfg : cfg[k].label # form.disks[i].label
  PROVE  DisksInPlace'
  <1>1. TypeOK /\ read = cfg /\ DisksApart /\ form \in Form /\ pc = "attach"
    BY VMConfigAssumption DEF IInv, TypeInv, TypeOK, AddDisks, ReadInv, WriteInv,
         Checked, Configured, Resized, BackedUp
  <1>2. /\ \A i \in DiskIndices :
             SlotOf[i] \in 1..MaxSlot /\ Scsi(SlotOf[i]) \notin DOMAIN cfg
        /\ \A i, j \in DiskIndices : i # j => SlotOf[i] # SlotOf[j]
        /\ DOMAIN cfg' = {Scsi(SlotOf[i]) : i \in DiskIndices} \cup DOMAIN cfg
        /\ \A k \in DOMAIN cfg : cfg'[k] = cfg[k]
        /\ \A i \in DiskIndices :
             cfg'[Scsi(SlotOf[i])].label = form.disks[i].label
    BY <1>1, AttachForm
  <1>3. form' = form
    BY DEF AddDisks, Goto
  <1>4. \A i, j \in DiskIndices : i # j => form.disks[i].label # form.disks[j].label
    BY <1>1 DEF DisksApart
  <1>5. ASSUME NEW i \in DiskIndices
        PROVE  LET k == Scsi(SlotOf[i])
               IN /\ k \in DOMAIN cfg'
                  /\ {l \in DOMAIN cfg' : cfg'[l].label = form.disks[i].label} = {k}
                  /\ k[1] = "scsi" /\ k # Scsi(0)
                  /\ Pinned(i) => k = Scsi(form.disks[i].device)
    <2> DEFINE k == Scsi(SlotOf[i])
    <2>1. k \in DOMAIN cfg' /\ cfg'[k].label = form.disks[i].label
      BY <1>2
    <2>2. ASSUME NEW l \in DOMAIN cfg', cfg'[l].label = form.disks[i].label
          PROVE  l = k
      <3>1. l \notin DOMAIN cfg
        BY <1>2, <2>2
      <3>2. PICK j \in DiskIndices : l = Scsi(SlotOf[j])
        BY <1>2, <3>1
      <3>3. j = i
        BY <1>2, <1>4, <2>2, <3>2
      <3> QED
        BY <3>2, <3>3
    <2>3. k[1] = "scsi" /\ k # Scsi(0)
      <3>1. SlotOf[i] # 0
        BY <1>1, <1>2, VMConfigAssumption
      <3>2. \A n : Scsi(n)[1] = "scsi" /\ (n # 0 => Scsi(n) # Scsi(0))
        BY DEF Scsi
      <3> QED
        BY <3>1, <3>2
    <2>4. Pinned(i) => k = Scsi(form.disks[i].device)
      BY <1>1, PinnedSlot
    <2> HIDE DEF k
    <2>5. {l \in DOMAIN cfg' : cfg'[l].label = form.disks[i].label} = {k}
      BY <2>1, <2>2
    <2> QED
      BY <2>1, <2>3, <2>4, <2>5 DEF k
  <1> QED
    BY <1>3, <1>5 DEF DisksInPlace, DiskIndices, Pinned, Scsi

(* Nothing before AddDisks writes a label, and nothing after it writes.     *)
LEMMA LabelStep ==
  ASSUME IInv, LabelInv, [Next]_vars
  PROVE  LabelInv'
  <1>1. TypeOK /\ form' = form /\ template' = template /\ DiskIndices' = DiskIndices
    BY NextFrame, FormFrame DEF IInv, TypeInv
  <1>2. \A i \in DiskIndices : form.disks[i].label # 0
    BY <1>1, VMConfigAssumption, DiskIndicesAre DEF TypeOK, Disk
  <1>3. cfg' = cfg => (DisksInPlace' <=> DisksInPlace)
    BY <1>1 DEF DisksInPlace, Pinned, Scsi
  <1>4. CASE UNCHANGED vars
    BY <1>1, <1>3, <1>4 DEF vars, LabelInv, Attached
  <1>5. CASE PreCreateCheck \/ ReadBootDisk
    BY <1>1, <1>5 DEF PreCreateCheck, ReadBootDisk, Goto, LabelInv, Attached
  <1>6. CASE Configure
    <2>1. pc = "configure" /\ pc' = "resize"
      BY <1>6 DEF Configure, Goto
    <2>2. ASSUME NEW i \in DiskIndices, NEW k \in DOMAIN cfg'
          PROVE  cfg'[k].label # form.disks[i].label
      <3>1. CASE k \in DriverKeys \cup ExtraKeys
        BY <1>2, <1>6, <3>1, ConfigureForm, WrittenIsValue
      <3>2. CASE k \notin DriverKeys \cup ExtraKeys
        BY <1>6, <2>1, <3>2, ConfigureForm DEF LabelInv, Attached
      <3> QED
        BY <3>1, <3>2
    <2> QED
      BY <1>1, <2>1, <2>2 DEF LabelInv, Attached
  <1>7. CASE ResizeBootDisk
    BY <1>1, <1>7, ResizeForm DEF ResizeBootDisk, LabelInv, Attached
  <1>8. CASE SetBootDiskBackup
    <2>1. ReadInv
      BY DEF IInv
    <2> QED
      BY <1>1, <1>8, <2>1, FlagForm DEF SetBootDiskBackup, LabelInv, Attached
  <1>9. CASE ReadDisks
    <2>1. /\ pc = "disks" /\ pc' \in {"start", "attach"} /\ cfg' = cfg
          /\ pc' = "start" => form.disks = <<>>
      BY <1>9 DEF ReadDisks, Goto
    <2>2. pc' = "start" => DisksInPlace'
      BY <1>1, <2>1 DEF DisksInPlace, DiskIndices
    <2> QED
      BY <1>1, <2>1, <2>2 DEF LabelInv, Attached
  <1>10. CASE AddDisks
    <2>1. pc = "attach" /\ pc' \in {"start", "failed"}
      BY <1>10 DEF AddDisks, Goto
    <2>2. pc' # "failed" => DisksInPlace'
      BY <1>10, <2>1, AttachedInPlace DEF LabelInv, Attached
    <2> QED
      BY <2>1, <2>2 DEF LabelInv, Attached
  <1>11. CASE Start \/ ReadNetMAC \/ CallFails
    BY <1>1, <1>3, <1>11 DEF Start, ReadNetMAC, CallFails, Goto, LabelInv, Attached
  <1> QED
    BY <1>4, <1>5, <1>6, <1>7, <1>8, <1>9, <1>10, <1>11 DEF Next

(* Every VM boots with each data disk in place exactly once, unless the     *)
(* template brought a disk of that serial.                                  *)
THEOREM DisksServed ==
  ASSUME SerialsAreNew
  PROVE  Spec => []DisksAttached
  <1>1. Init => LabelInv
    BY DEF Init, LabelInv, Attached, SerialsAreNew, DiskIndices
  <1>2. IInv /\ LabelInv /\ [Next]_vars => LabelInv'
    BY LabelStep
  <1>3. LabelInv => DisksAttached
    BY DEF LabelInv, DisksAttached, Booted, Attached
  <1> QED
    BY <1>1, <1>2, <1>3, Inductive, PTL DEF Spec

-----------------------------------------------------------------------------
(* If some disk gets no slot, the disks before it have all the free ones:   *)
(* there are fewer free slots than disks without a pin.                     *)
LEMMA FullWhenNoSlot ==
  ASSUME form \in Form, NEW i \in DiskIndices, SlotOf[i] = NoSlot
  PROVE  ~Assignable
  <1> DEFINE Unpinned == {j \in DiskIndices : ~Pinned(j)}
             Before == Unpinned \ {i}
  <1>1. i \in Unpinned
    BY PinnedSlot DEF NoSlot
  <1>2. \A s \in FreeSlots : \E j \in Before : SlotOf[j] = s
    <2>1. \A s \in FreeSlots : \E j \in 1..(i - 1) : ~Pinned(j) /\ SlotOf[j] = s
      BY <1>1, UnpinnedSlot
    <2>2. 1..(i - 1) \subseteq DiskIndices \ {i}
      BY DiskIndicesAre
    <2> QED
      BY <2>1, <2>2
  <1>3. IsFiniteSet(Unpinned)
    <2>1. IsFiniteSet(DiskIndices)
      BY DiskIndicesAre, FS_Interval
    <2> QED
      BY <2>1, FS_Subset
  <1>4. IsFiniteSet(Before) /\ Cardinality(Before) < Cardinality(Unpinned)
    <2> HIDE DEF Unpinned
    <2>1. Cardinality(Unpinned) \in Nat
      BY <1>3, FS_CardinalityType
    <2>2. /\ IsFiniteSet(Unpinned \ {i})
          /\ Cardinality(Unpinned \ {i}) = Cardinality(Unpinned) - 1
      BY <1>1, <1>3, FS_RemoveElement
    <2> QED
      BY <2>1, <2>2
  <1>5. ASSUME NEW slots \in [DiskIndices -> 1..MaxSlot],
               \A j, l \in DiskIndices : j # l => slots[j] # slots[l],
               \A j \in DiskIndices :
                 /\ Scsi(slots[j]) \notin DOMAIN read
                 /\ Pinned(j) => slots[j] = form.disks[j].device
        PROVE  FALSE
    <2>1. \A j \in Unpinned : slots[j] \in FreeSlots
      <3>1. ASSUME NEW j \in Unpinned, slots[j] \in PinnedSlots
            PROVE  FALSE
        <4>1. PICK p \in DiskIndices : Pinned(p) /\ form.disks[p].device = slots[j]
          BY <3>1 DEF PinnedSlots
        <4>2. slots[p] = slots[j] /\ p # j
          BY <1>5, <4>1
        <4> QED
          BY <1>5, <4>2
      <3> QED
        BY <1>5, <3>1 DEF FreeSlots
    <2> DEFINE taker == [j \in Unpinned |->
                           CHOOSE l \in Before : SlotOf[l] = slots[j]]
    <2>2. \A j \in Unpinned : taker[j] \in Before /\ SlotOf[taker[j]] = slots[j]
      BY <1>2, <2>1
    <2>3. taker \in [Unpinned -> Before]
      BY <2>2
    <2> HIDE DEF taker, Before
    <2>4. PICK j, l \in Unpinned : j # l /\ taker[j] = taker[l]
      BY <1>3, <1>4, <2>3, FS_PigeonHole
    <2>5. slots[j] = slots[l]
      BY <2>2, <2>4
    <2> QED
      BY <1>5, <2>4, <2>5
  <1> QED
    BY <1>5 DEF Assignable

(* A pin on a slot in use cannot be honoured.                               *)
LEMMA FullWhenPinTaken ==
  ASSUME ~PinsFree
  PROVE  ~Assignable
  <1>1. PICK i \in DiskIndices : Pinned(i) /\ Scsi(form.disks[i].device) \in DOMAIN read
    BY DEF PinsFree, PinnedSlots
  <1> QED
    BY <1>1 DEF Assignable

(* Lowest slot first, pins claimed first, is good enough: no disk is turned *)
(* away while some choice of slots would take them all.                     *)
THEOREM GivesUpOnlyFull == Spec => GivesUpOnlyIfFull
  <1>1. ASSUME IInv, [Next]_vars, pc = "attach", pc' = "failed", UNCHANGED faults
        PROVE  ~Assignable
    <2>1. form \in Form /\ faults \in Nat
      BY <1>1, VMConfigAssumption DEF IInv, TypeInv, TypeOK
    <2>2. AddDisks
      BY <1>1, <2>1 DEF Next, vars, PreCreateCheck, Configure, ResizeBootDisk,
           ReadBootDisk, SetBootDiskBackup, ReadDisks, Start, ReadNetMAC, CallFails
    <2>3. ~PinsFree \/ \E i \in DiskIndices : SlotOf[i] = NoSlot
      BY <1>1, <2>2 DEF AddDisks, Goto
    <2> QED
      BY <2>1, <2>3, FullWhenNoSlot, FullWhenPinTaken
  <1>2. IInv /\ [Next]_vars =>
          [pc = "attach" /\ pc' = "failed" /\ UNCHANGED faults => ~Assignable]_vars
    BY <1>1
  <1> QED
    BY <1>2, Inductive, PTL DEF Spec, GivesUpOnlyIfFull
=============================================================================
