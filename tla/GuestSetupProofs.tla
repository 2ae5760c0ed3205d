-------------------------- MODULE GuestSetupProofs --------------------------
(***************************************************************************)
(* Theorems about GuestSetup, for any forms, images and disks, any number  *)
(* of reboots and leases.                                                  *)
(***************************************************************************)
EXTENDS GuestSetup, WellFoundedInduction, TLAPS

Steps == {"check", "done", "failed"} \cup Waits
Jobs == [for : Sessions \cup {"none"}, at : {"none", "ssh", "running", "ok", "error"}]

Control ==
  /\ pc \in Steps
  /\ job \in Jobs
  /\ script = [step |-> script.step, disk |-> script.disk, code |-> script.code]
  /\ reboots \in Nat

(* No script runs but the one of a job that is running or was given up, and *)
(* a wait for cloud-init runs only its own.                                 *)
ScriptOfJob ==
  /\ pc \in {"check", "address"} => job = NoJob
  /\ job.at \in {"none", "ssh", "ok"} => script.step = "none"
  /\ job.for = "cloudinit" /\ job.at = "running"
       => script.step \in {"none", "status", "sudo", "ok"}

(* The work of the first boot is over, and did not fail unless the guest    *)
(* rebooted since. Only a reboot starts cloud-init again, and it does not   *)
(* repeat that work.                                                        *)
BootOver ==
  /\ cloudinit \notin FirstBoot
  /\ reboots = 0 => cloudinit \in {"absent", "done", "degraded"}

(* What the code of a finished script still says of cloud-init: a reboot    *)
(* takes the code away together with the script. A script that did not run  *)
(* has no code, and says nothing.                                           *)
CodeHolds ==
  /\ Settled
  /\ interpretCloudInitResult(script.code)
       => cloudinit \in {"absent", "done", "degraded"}

Verdicts ==
  "cloudinit" \notin unheard =>
    /\ job.for = "cloudinit" /\ job.at = "running" /\ script.step = "ok" => CodeHolds
    /\ job.for = "cloudinit" /\ job.at = "ok" => BootOver
    /\ pc \in {"disks", "done"} /\ form.cloudInitTimeout => BootOver

Reached ==
  \/ pc \in {"check", "address", "failed"}
  \/ ip # 0
  \/ pc = "done" /\ ~form.cloudInitTimeout /\ form.disks = <<>>

IInv == Control /\ ScriptOfJob /\ Verdicts /\ Reached

-----------------------------------------------------------------------------
LEMMA InitReady ==
  Init => IInv
  <1> SUFFICES ASSUME Init PROVE IInv
    OBVIOUS
  <1>1. job \in Jobs /\ job = NoJob /\ job.for = "none" /\ job.at = "none"
    BY DEF Init, Jobs, NoJob, Sessions
  <1>2. /\ script = [step |-> script.step, disk |-> script.disk, code |-> script.code]
        /\ script.step = "none"
    BY DEF Init, NoScript
  <1> QED
    BY <1>1, <1>2
    DEF Init, IInv, Control, Steps, ScriptOfJob, Verdicts, Reached

(* An answer is taken only when there is one, and the wait for cloud-init   *)
(* is passed by only when the form asks for none.                           *)
LEMMA DriverReady ==
  IInv /\ Driver => IInv'
  <1> SUFFICES ASSUME IInv, Driver PROVE IInv'
    OBVIOUS
  <1> USE DEF IInv, Control, Steps, Waits, Sessions, Enter
  <1>1. CASE StartVM
    BY <1>1
    DEF StartVM, AfterCheck, guest, ScriptOfJob, Verdicts, Reached, BootOver,
        CodeHolds, Settled, Jobs, NoJob
  <1>2. CASE GotAddress
    BY <1>2
    DEF GotAddress, AfterAddress, AfterCloudInit, guest, ScriptOfJob, Verdicts,
        Reached, BootOver, CodeHolds, Settled, Jobs, NoJob
  <1>3. CASE AddressTimesOut
    BY <1>3
    DEF AddressTimesOut, guest, ScriptOfJob, Verdicts, Reached, BootOver,
        CodeHolds, Settled, Jobs, NoJob
  <1>4. CASE JobReturns
    BY <1>4
    DEF JobReturns, AfterCloudInit, guest, ScriptOfJob, Verdicts, Reached,
        BootOver, CodeHolds, Settled, Jobs, NoJob
  <1>5. CASE JobTimesOut
    BY <1>5
    DEF JobTimesOut, guest, ScriptOfJob, Verdicts, Reached, BootOver,
        CodeHolds, Settled, Jobs, NoJob
  <1> QED
    BY <1>1, <1>2, <1>3, <1>4, <1>5 DEF Driver

(* A timer only makes a wait late; GetURL replaces an address by another.   *)
LEMMA TimersReady ==
  IInv /\ (Deadline \/ GetURL \/ UNCHANGED vars) => IInv'
  BY DEF IInv, Control, Deadline, GetURL, vars, driver, guest, ScriptOfJob,
     Verdicts, Reached, BootOver, CodeHolds, Settled

(* The goroutine hands on what the script found out.                        *)
LEMMA GoroutineReady ==
  IInv /\ Goroutine => IInv'
  <1> SUFFICES ASSUME IInv, Goroutine PROVE IInv'
    OBVIOUS
  <1> USE DEF IInv, Control, Jobs, Sessions, Reached, BootOver, driver, guest
  <1>1. CASE StartScript
    <2>0. job.at = "ssh" /\ job' = [job EXCEPT !.at = "running"]
      BY <1>1 DEF StartScript
    <2>1. /\ job' \in Jobs /\ job'.at = "running" /\ job'.for = job.for
          /\ job.at = "ssh" /\ job # NoJob
      BY <2>0 DEF NoJob
    <2>2. UNCHANGED <<form, image, pc, late, ip, guest>>
      BY <1>1 DEF StartScript
    <2>3. CASE /\ script' = [step |-> FirstStep, code |-> "",
                             disk |-> IF job.for = "disks" THEN Min(Pending) ELSE 0]
               /\ unheard' = unheard
      <3>1. /\ script' = [step |-> FirstStep, disk |-> script'.disk, code |-> ""]
            /\ script'.step = FirstStep /\ script'.code = ""
        BY <2>3
      <3> QED
        BY <2>1, <2>2, <2>3, <3>1 DEF FirstStep, ScriptOfJob, Verdicts
    <2>4. CASE /\ script' = [step |-> "ok", code |-> "", disk |-> 0]
               /\ unheard' = unheard \cup {job.for}
      <3>1. /\ script' = [step |-> "ok", disk |-> script'.disk, code |-> ""]
            /\ script'.step = "ok" /\ script'.code = ""
        BY <2>4
      <3>2. job.for = "cloudinit" => "cloudinit" \in unheard'
        BY <2>4
      <3>3. "cloudinit" \notin unheard' => "cloudinit" \notin unheard
        BY <2>4
      <3> QED
        BY <2>1, <2>2, <3>1, <3>2, <3>3 DEF ScriptOfJob, Verdicts
    <2> QED
      BY <1>1, <2>3, <2>4 DEF StartScript
  <1>2. CASE SessionLost
    BY <1>2 DEF SessionLost, ScriptOfJob, Verdicts, CodeHolds, NoJob
  <1>3. CASE ScriptReturns
    <2>1. /\ job' \in Jobs /\ job'.for = job.for /\ job'.at \in {"ok", "error"}
          /\ job.at = "running" /\ job # NoJob
      BY <1>3 DEF ScriptReturns, NoJob
    <2>2. job'.at = "ok" =>
            /\ script.step = "ok"
            /\ job.for = "cloudinit" => interpretCloudInitResult(script.code)
      BY <1>3 DEF ScriptReturns
    <2>3. /\ script' = [step |-> script'.step, disk |-> script'.disk, code |-> script'.code]
          /\ script'.step = "none"
      BY <1>3 DEF ScriptReturns, NoScript
    <2>4. UNCHANGED <<driver, guest>>
      BY <1>3 DEF ScriptReturns
    <2>5. "cloudinit" \notin unheard /\ job.for = "cloudinit" /\ job'.at = "ok"
            => BootOver
      BY <2>1, <2>2 DEF Verdicts, CodeHolds, FirstBoot
    <2> QED
      BY <2>1, <2>3, <2>4, <2>5 DEF ScriptOfJob, Verdicts
  <1> QED
    BY <1>1, <1>2, <1>3 DEF Goroutine

(* The script sets its code from what cloud-init reports at that moment.    *)
LEMMA ScriptReady ==
  IInv /\ Script => IInv'
  <1> SUFFICES ASSUME IInv, Script PROVE IInv'
    OBVIOUS
  <1> USE DEF IInv, Control, Reached, BootOver, driver, guest, NoJob
  <1>1. CASE CloudInitStatus
    BY <1>1
    DEF CloudInitStatus, ExitCode, interpretCloudInitResult, ScriptOfJob,
        Verdicts, CodeHolds, Settled
  <1>2. CASE CloudInitStatusSudo
    BY <1>2
    DEF CloudInitStatusSudo, ExitCode, interpretCloudInitResult, ScriptOfJob,
        Verdicts, CodeHolds, Settled
  <1>3. CASE FormatDisk
    BY <1>3 DEF FormatDisk, ScriptOfJob, Verdicts, CodeHolds, Settled
  <1>4. CASE AddLine
    BY <1>4 DEF AddLine, ScriptOfJob, Verdicts, CodeHolds, Settled
  <1>5. CASE MountDisks
    BY <1>5 DEF MountDisks, ScriptOfJob, Verdicts, CodeHolds, Settled
  <1>6. CASE VerifyDisks
    BY <1>6 DEF VerifyDisks, ScriptOfJob, Verdicts, CodeHolds, Settled
  <1> QED
    BY <1>1, <1>2, <1>3, <1>4, <1>5, <1>6 DEF Script

(* Only a reboot takes cloud-init out of a settled state, and it ends the   *)
(* script.                                                                  *)
LEMMA GuestReady ==
  IInv /\ Guest => IInv'
  <1> SUFFICES ASSUME IInv, Guest PROVE IInv'
    OBVIOUS
  <1> USE DEF IInv, Control, ScriptOfJob, Verdicts, Reached, BootOver,
              CodeHolds, Settled, FirstBoot, driver
  <1>1. CASE Boots \/ NetworkChanges
    BY <1>1 DEF Boots, NetworkChanges
  <1>2. CASE CloudInitReadsFstab \/ CloudInitWritesFstab \/ CloudInitEnds
    BY <1>2 DEF CloudInitReadsFstab, CloudInitWritesFstab, CloudInitEnds
  <1>3. CASE Reboot
    <2>1. script' = NoScript /\ reboots' = reboots + 1 /\ UNCHANGED driver /\ job' = job
      BY <1>3 DEF Reboot
    <2>2. cloudinit \notin FirstBoot => cloudinit' \notin FirstBoot
      BY <1>3 DEF Reboot
    <2>3. BootOver => BootOver'
      BY <2>1, <2>2
    <2>4. /\ script' = [step |-> script'.step, disk |-> script'.disk, code |-> script'.code]
          /\ script'.step = "none"
      BY <2>1 DEF NoScript
    <2>5. reboots' \in Nat
      BY <2>1
    <2> QED
      BY <2>1, <2>3, <2>4, <2>5
  <1> QED
    BY <1>1, <1>2, <1>3 DEF Guest

LEMMA Inductive ==
  Spec => []IInv
  <1>1. IInv /\ [Next]_vars => IInv'
    BY DriverReady, TimersReady, GoroutineReady, ScriptReady, GuestReady DEF Next
  <1> QED
    BY InitReady, <1>1, PTL DEF Spec

-----------------------------------------------------------------------------
(* Whatever the order of deadlines, late answers, lost sessions and         *)
(* reboots: a machine is handed over with an address where Create needed    *)
(* one and, if Create waited for cloud-init, after the work of a first boot *)
(* that did not fail - unless the wait ended in an output without a result, *)
(* which is let through (waitForCloudInit, cloudInitWaitScript,             *)
(* interpretCloudInitResult, finalizeCreate).                               *)
THEOREM SpecHandedOverReady ==
  Spec => []HandedOverReady
  <1>1. IInv => HandedOverReady
    BY DEF IInv, Verdicts, Reached, BootOver, HandedOverReady
  <1> QED
    BY <1>1, Inductive, PTL

-----------------------------------------------------------------------------
(* A nonempty set of positions has a least one.                             *)
LEMMA MinIsMember ==
  ASSUME NEW S \in SUBSET Nat, S # {}
  PROVE  Min(S) \in S /\ \A y \in S : Min(S) <= y
  <1> DEFINE Less == {ss \in Nat \X Nat : ss[1] < ss[2]}
  <1>1. IsWellFoundedOn(Less, Nat)
    BY NatLessThanWellFounded DEF OpToRel
  <1>2. PICK x \in S : \A y \in S : <<y, x>> \notin Less
    BY <1>1, WFMin
  <1>3. ASSUME NEW y \in S, y < x
        PROVE  FALSE
    <2>1. <<y, x>> \in Less
      BY <1>3
    <2> QED
      BY <1>2, <2>1
  <1>4. \A y \in S : x <= y
    <2> HIDE DEF Less
    <2> QED
      BY <1>3
  <1> QED
    BY <1>4 DEF Min

(* An answer for some interfaces is the address of one of them.             *)
LEMMA FirstIPv4IsTheirs ==
  ASSUME image \in Images, NEW names, FirstIPv4(names) # 0
  PROVE  \E i \in names : FirstIPv4(names) = addr[i]
  <1> DEFINE up == {k \in DOMAIN image.order :
                      image.order[k] \in names /\ addr[image.order[k]] # 0}
  <1>1. image.order \in Seq(Interfaces)
    BY GuestSetupAssumption DEF Image
  <1>2. up \in SUBSET Nat
    BY <1>1
  <1>3. up # {}
    BY DEF FirstIPv4
  <1>4. Min(up) \in up
    BY <1>2, <1>3, MinIsMember
  <1> QED
    BY <1>3, <1>4 DEF FirstIPv4

Address ==
  /\ form \in Forms /\ image \in Images
  /\ addr \in [Interfaces -> Addresses]
  /\ addr[NIC] \in Leases \cup {0}
  /\ AddressOfNIC

(* With a MAC no poll answers with the address of another interface.        *)
LEMMA PolledIsOfNIC ==
  Address /\ form.mac => Polled \in Leases \cup {0}
  BY FirstIPv4IsTheirs DEF Address, Polled, GuestIPByMAC

LEMMA StepKeepsAddress ==
  Address /\ [Next]_vars => Address'
  <1> SUFFICES ASSUME Address, [Next]_vars PROVE Address'
    OBVIOUS
  <1>1. form' = form /\ image' = image
    BY DEF Next, Driver, StartVM, GotAddress, AddressTimesOut, JobReturns,
       JobTimesOut, Enter, Deadline, GetURL, Goroutine, StartScript, SessionLost,
       ScriptReturns, Script, CloudInitStatus, CloudInitStatusSudo, FormatDisk,
       AddLine, MountDisks, VerifyDisks, Guest, Boots, NetworkChanges,
       CloudInitReadsFstab, CloudInitWritesFstab, CloudInitEnds, Reboot, driver, vars
  <1>2. ip' \in {ip, Polled}
    BY DEF Next, Driver, StartVM, GotAddress, AddressTimesOut, JobReturns,
       JobTimesOut, Enter, Deadline, GetURL, Goroutine, StartScript, SessionLost,
       ScriptReturns, Script, CloudInitStatus, CloudInitStatusSudo, FormatDisk,
       AddLine, MountDisks, VerifyDisks, Guest, Boots, NetworkChanges,
       CloudInitReadsFstab, CloudInitWritesFstab, CloudInitEnds, Reboot, driver, vars
  <1>3. addr' = addr \/ NetworkChanges \/ Reboot
    BY DEF Next, Driver, StartVM, GotAddress, AddressTimesOut, JobReturns,
       JobTimesOut, Deadline, GetURL, Goroutine, StartScript, SessionLost,
       ScriptReturns, Script, CloudInitStatus, CloudInitStatusSudo, FormatDisk,
       AddLine, MountDisks, VerifyDisks, Guest, Boots, CloudInitReadsFstab,
       CloudInitWritesFstab, CloudInitEnds, guest, vars
  <1>4. addr' \in [Interfaces -> Addresses] /\ addr'[NIC] \in Leases \cup {0}
    <2>1. CASE addr' = addr
      BY <2>1 DEF Address
    <2>2. CASE NetworkChanges
      BY <2>2 DEF Address, NetworkChanges, Addresses, Interfaces, NIC, Bridge
    <2>3. CASE Reboot
      BY <2>3 DEF Reboot, Addresses, Interfaces
    <2> QED
      BY <1>3, <2>1, <2>2, <2>3
  <1>5. AddressOfNIC'
    BY <1>1, <1>2, PolledIsOfNIC DEF Address, AddressOfNIC
  <1> QED
    BY <1>1, <1>4, <1>5 DEF Address

(* Once the MAC was captured no other interface's address is ever recorded, *)
(* in whatever order the agent lists interfaces and however they come and   *)
(* go (GuestIPByMAC, waitUntilGuestIP, GetURL).                             *)
THEOREM SpecAddressOfNIC ==
  Spec => []AddressOfNIC
  <1>1. Init => Address
    BY DEF Init, Address, AddressOfNIC, Addresses, Interfaces, NIC
  <1>2. Address => AddressOfNIC
    BY DEF Address
  <1> QED
    BY <1>1, <1>2, StepKeepsAddress, PTL DEF Spec
=============================================================================
