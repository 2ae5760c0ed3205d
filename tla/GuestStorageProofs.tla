-------------------------- MODULE GuestStorageProofs --------------------------
(***************************************************************************)
(* Theorems about where the data of a handed-over machine ends up: the     *)
(* type invariant of GuestSetup, and that what is stored below a data      *)
(* disk's path is on that disk, for any forms, images, reboots and leases. *)
(***************************************************************************)
EXTENDS GuestSetupProofs

-----------------------------------------------------------------------------
(* Without, segment by segment.                                             *)
KeepStep(before, path, dropped, k) ==
  IF path[k] \in dropped THEN before ELSE Append(before, path[k])

Keeps(kept, path, dropped, n) ==
  kept = [k \in 0..n |->
            IF k = 0 THEN <<>> ELSE KeepStep(kept[k - 1], path, dropped, k)]

LEMMA KeptExists ==
  ASSUME NEW path, NEW dropped, NEW n \in Nat
  PROVE  \E kept : Keeps(kept, path, dropped, n)
  <1> DEFINE Good(m) == \E kept : Keeps(kept, path, dropped, m)
             Bad == {m \in Nat : ~Good(m)}
  <1>1. Good(0)
    <2> DEFINE one == [k \in 0..0 |-> <<>>]
    <2>1. one = [k \in 0..0 |->
             IF k = 0 THEN <<>> ELSE KeepStep(one[k - 1], path, dropped, k)]
      OBVIOUS
    <2> HIDE DEF one
    <2> QED
      BY <2>1 DEF Keeps
  <1>2. ASSUME NEW m \in Nat, Good(m)
        PROVE  Good(m + 1)
    <2>1. PICK kept : Keeps(kept, path, dropped, m)
      BY <1>2
    <2> DEFINE next == [k \in 0..(m + 1) |->
             IF k = m + 1 THEN KeepStep(kept[m], path, dropped, k) ELSE kept[k]]
    <2>2. ASSUME NEW k \in 0..(m + 1)
          PROVE  next[k] = IF k = 0 THEN <<>>
                           ELSE KeepStep(next[k - 1], path, dropped, k)
      <3>1. CASE k = m + 1
        BY <3>1
      <3>2. CASE k \in 0..m
        <4>1. next[k] = kept[k]
          BY <3>2
        <4>2. k # 0 => next[k - 1] = kept[k - 1]
          BY <3>2
        <4>3. kept[k] = IF k = 0 THEN <<>>
                        ELSE KeepStep(kept[k - 1], path, dropped, k)
          BY <2>1, <3>2 DEF Keeps
        <4> HIDE DEF next
        <4> QED
          BY <4>1, <4>2, <4>3
      <3> QED
        BY <3>1, <3>2
    <2>3. next = [k \in 0..(m + 1) |-> next[k]]
      OBVIOUS
    <2> HIDE DEF next
    <2>4. next = [k \in 0..(m + 1) |->
             IF k = 0 THEN <<>> ELSE KeepStep(next[k - 1], path, dropped, k)]
      BY <2>2, <2>3
    <2> QED
      BY <2>4 DEF Keeps
  <1>3. ASSUME Bad # {}
        PROVE  FALSE
    <2> HIDE DEF Good
    <2>1. Min(Bad) \in Bad /\ \A m \in Bad : Min(Bad) <= m
      BY <1>3, MinIsMember
    <2>2. Min(Bad) # 0
      BY <1>1, <2>1
    <2>3. Min(Bad) - 1 \in Nat /\ Min(Bad) - 1 \notin Bad
      BY <2>1, <2>2
    <2> QED
      BY <1>2, <2>1, <2>3
  <1> QED
    BY <1>3

(* What is left of a path are segments of it, in order, none dropped; a     *)
(* path without such segments stays as it is.                               *)
LEMMA WithoutSegments ==
  ASSUME NEW path \in Seq(STRING), NEW dropped
  PROVE  /\ Without(path, dropped) \in Seq(STRING)
         /\ \A i \in DOMAIN Without(path, dropped) :
              \E j \in DOMAIN path : Without(path, dropped)[i] = path[j]
         /\ \A i \in DOMAIN Without(path, dropped) :
              Without(path, dropped)[i] \notin dropped
         /\ (\A j \in DOMAIN path : path[j] \notin dropped)
              => Without(path, dropped) = path
  <1> DEFINE n == Len(path)
             kept == CHOOSE f : Keeps(f, path, dropped, n)
             Clean == \A j \in DOMAIN path : path[j] \notin dropped
  <1>0. n \in Nat /\ DOMAIN path = 1..n
    OBVIOUS
  <1>1. Without(path, dropped) = kept[n]
    BY DEF Without, Keeps, KeepStep
  <1>2. Keeps(kept, path, dropped, n)
    BY <1>0, KeptExists
  <1>3. /\ kept[0] = <<>>
        /\ \A k \in 1..n : kept[k] = KeepStep(kept[k - 1], path, dropped, k)
    <2> HIDE DEF kept
    <2> QED
      BY <1>0, <1>2 DEF Keeps
  <1> DEFINE Good(k) ==
        /\ kept[k] \in Seq(STRING)
        /\ \A i \in DOMAIN kept[k] :
             /\ \E j \in DOMAIN path : kept[k][i] = path[j]
             /\ kept[k][i] \notin dropped
        /\ Clean => kept[k] = [j \in 1..k |-> path[j]]
  <1> HIDE DEF kept, Clean
  <1>4. Good(0)
    BY <1>3
  <1>5. ASSUME NEW k \in 1..n, Good(k - 1)
        PROVE  Good(k)
    <2>0. path[k] \in STRING /\ k \in DOMAIN path /\ k - 1 \in Nat
      BY <1>0
    <2>1. CASE path[k] \in dropped
      BY <1>0, <1>3, <1>5, <2>0, <2>1 DEF KeepStep, Clean
    <2>2. CASE path[k] \notin dropped
      <3>1. kept[k] = Append(kept[k - 1], path[k])
        BY <1>3, <2>2 DEF KeepStep
      <3>2. kept[k] \in Seq(STRING)
        BY <1>5, <2>0, <3>1
      <3>3. ASSUME NEW i \in DOMAIN kept[k]
            PROVE  /\ \E j \in DOMAIN path : kept[k][i] = path[j]
                   /\ kept[k][i] \notin dropped
        <4> DEFINE before == kept[k - 1]
        <4>1. before \in Seq(STRING) /\ kept[k] = Append(before, path[k])
          BY <1>5, <3>1
        <4>2. \/ i = Len(before) + 1 /\ kept[k][i] = path[k]
              \/ i \in DOMAIN before /\ kept[k][i] = before[i]
          <5> HIDE DEF before
          <5> QED
            BY <2>0, <3>3, <4>1
        <4> QED
          BY <1>5, <2>0, <2>2, <4>2
      <3>4. ASSUME Clean
            PROVE  kept[k] = [j \in 1..k |-> path[j]]
        <4>1. kept[k - 1] = [j \in 1..(k - 1) |-> path[j]]
          BY <1>5, <3>4
        <4>2. Len(kept[k - 1]) = k - 1
          BY <1>5, <2>0, <4>1
        <4>3. /\ Len(kept[k]) = k
              /\ \A j \in 1..k : kept[k][j] = path[j]
          BY <1>5, <2>0, <3>1, <4>1, <4>2
        <4> DEFINE start == [j \in 1..k |-> path[j]]
        <4>4. /\ start \in Seq(STRING) /\ Len(start) = k
              /\ \A j \in 1..k : start[j] = path[j]
          BY <1>0
        <4> HIDE DEF start
        <4>5. kept[k] = start
          BY <3>2, <4>3, <4>4
        <4> QED
          BY <4>5 DEF start
      <3> QED
        BY <3>2, <3>3, <3>4
    <2> QED
      BY <2>1, <2>2
  <1>6. Good(n)
    <2> DEFINE Bad == {k \in 0..n : ~Good(k)}
    <2> HIDE DEF Good
    <2>1. ASSUME Bad # {}
          PROVE  FALSE
      <3>1. Min(Bad) \in Bad /\ \A k \in Bad : Min(Bad) <= k
        <4>1. Bad \in SUBSET Nat
          BY <1>0
        <4> HIDE DEF Bad
        <4> QED
          BY <2>1, <4>1, MinIsMember
      <3>2. Min(Bad) \in 1..n
        BY <1>0, <1>4, <3>1
      <3>3. Min(Bad) - 1 \in 0..n /\ Min(Bad) - 1 \notin Bad
        BY <1>0, <3>1, <3>2
      <3> QED
        BY <1>5, <3>1, <3>2, <3>3
    <2> QED
      BY <1>0, <2>1
  <1>7. Clean => kept[n] = path
    <2>1. path = [j \in 1..n |-> path[j]]
      OBVIOUS
    <2> QED
      BY <1>6, <2>1
  <1> QED
    BY <1>1, <1>6, <1>7 DEF Clean

(* The places of a path are paths.                                          *)
LEMMA PlaceIsPath ==
  ASSUME NEW path \in Seq(STRING)
  PROVE  Place(path) \in Seq(STRING)
  BY WithoutSegments DEF Place

-----------------------------------------------------------------------------
(* mount -a, line by line. A line is mounted by its canonical path.         *)
Placed(line) == [line EXCEPT !.path = Place(@)]

LEMMA PlacedLine ==
  ASSUME NEW W, NEW line \in Line(W)
  PROVE  /\ Placed(line) \in Line(W)
         /\ Placed(line).what = line.what
         /\ Placed(line).path = Place(line.path)
  BY PlaceIsPath DEF Placed, Line

MountStep(before, line) ==
  IF Present(line.what) /\ ~Contains(before, line)
  THEN Append(before, line) ELSE before

(* One line adds at most itself, at the end, unless it is mounted already.  *)
AddsAtMost(line, before, after, W) ==
  /\ after \in Seq(Line(W))
  /\ Len(before) <= Len(after)
  /\ \A k \in DOMAIN before : k \in DOMAIN after /\ after[k] = before[k]
  /\ \A k \in DOMAIN after : k \notin DOMAIN before =>
       /\ k = Len(before) + 1 /\ after[k] = line
       /\ Present(line.what) /\ ~Contains(before, line)
  /\ Present(line.what) => \E k \in DOMAIN after : after[k] = line

LEMMA MountStepLines ==
  ASSUME NEW W, NEW before \in Seq(Line(W)), NEW line \in Line(W),
         NEW after, after = MountStep(before, line)
  PROVE  AddsAtMost(line, before, after, W)
  <1>1. CASE Present(line.what) /\ ~Contains(before, line)
    <2>1. after = Append(before, line)
      BY <1>1 DEF MountStep
    <2>2. Append(before, line)[Len(before) + 1] = line
      OBVIOUS
    <2> QED
      BY <1>1, <2>1, <2>2 DEF AddsAtMost
  <1>2. CASE ~(Present(line.what) /\ ~Contains(before, line))
    <2>1. after = before
      BY <1>2 DEF MountStep
    <2>2. Present(line.what) => \E k \in DOMAIN before : before[k] = line
      BY <1>2 DEF Contains
    <2> QED
      BY <2>1, <2>2 DEF AddsAtMost
  <1> QED
    BY <1>1, <1>2

MountsUp(after, mounted, tab, n) ==
  after = [k \in 0..n |->
             IF k = 0 THEN mounted ELSE MountStep(after[k - 1], Placed(tab[k]))]

LEMMA MountsUpExists ==
  ASSUME NEW mounted, NEW tab, NEW n \in Nat
  PROVE  \E after : MountsUp(after, mounted, tab, n)
  <1> DEFINE Good(m) == \E after : MountsUp(after, mounted, tab, m)
             Bad == {m \in Nat : ~Good(m)}
  <1>1. Good(0)
    <2> DEFINE one == [k \in 0..0 |-> mounted]
    <2>1. one = [k \in 0..0 |->
             IF k = 0 THEN mounted ELSE MountStep(one[k - 1], Placed(tab[k]))]
      OBVIOUS
    <2> HIDE DEF one
    <2> QED
      BY <2>1 DEF MountsUp
  <1>2. ASSUME NEW m \in Nat, Good(m)
        PROVE  Good(m + 1)
    <2>1. PICK after : MountsUp(after, mounted, tab, m)
      BY <1>2
    <2> DEFINE next == [k \in 0..(m + 1) |->
             IF k = m + 1 THEN MountStep(after[m], Placed(tab[k])) ELSE after[k]]
    <2>2. ASSUME NEW k \in 0..(m + 1)
          PROVE  next[k] = IF k = 0 THEN mounted
                           ELSE MountStep(next[k - 1], Placed(tab[k]))
      <3>1. CASE k = m + 1
        BY <3>1
      <3>2. CASE k \in 0..m
        <4>1. next[k] = after[k]
          BY <3>2
        <4>2. k # 0 => next[k - 1] = after[k - 1]
          BY <3>2
        <4>3. after[k] = IF k = 0 THEN mounted
                         ELSE MountStep(after[k - 1], Placed(tab[k]))
          BY <2>1, <3>2 DEF MountsUp
        <4> HIDE DEF next
        <4> QED
          BY <4>1, <4>2, <4>3
      <3> QED
        BY <3>1, <3>2
    <2>3. next = [k \in 0..(m + 1) |-> next[k]]
      OBVIOUS
    <2> HIDE DEF next
    <2>4. next = [k \in 0..(m + 1) |->
             IF k = 0 THEN mounted ELSE MountStep(next[k - 1], Placed(tab[k]))]
      BY <2>2, <2>3
    <2> QED
      BY <2>4 DEF MountsUp
  <1>3. ASSUME Bad # {}
        PROVE  FALSE
    <2> HIDE DEF Good
    <2>1. Min(Bad) \in Bad /\ \A m \in Bad : Min(Bad) <= m
      BY <1>3, MinIsMember
    <2>2. Min(Bad) # 0
      BY <1>1, <2>1
    <2>3. Min(Bad) - 1 \in Nat /\ Min(Bad) - 1 \notin Bad
      BY <2>1, <2>2
    <2> QED
      BY <1>2, <2>1, <2>3
  <1> QED
    BY <1>3

(* The image's lines come before the disks'.                                *)
ImageFirst(lines) ==
  \A k, l \in DOMAIN lines : k < l /\ lines[k].what # 0 => lines[l].what # 0

(* The image's lines of a table are mounted already, or nothing else is.    *)
ImageReady(mounted, tab) ==
  \/ \A k \in DOMAIN mounted : mounted[k].what = 0
  \/ \A l \in DOMAIN tab : tab[l].what = 0 =>
       \E k \in DOMAIN mounted : mounted[k] = Placed(tab[l])

(* What the first n lines of a table leave behind.                          *)
UpTo(new, mounted, tab, n) ==
  /\ Len(mounted) <= Len(new)
  /\ \A k \in DOMAIN mounted : k \in DOMAIN new /\ new[k] = mounted[k]
  /\ \A k \in DOMAIN new : k \notin DOMAIN mounted =>
       \E l \in 1..n : new[k] = Placed(tab[l]) /\ Present(tab[l].what)
  /\ \A l \in 1..n : Present(tab[l].what) =>
       \E k \in DOMAIN new : new[k] = Placed(tab[l])
  /\ ImageFirst(mounted) /\ ImageFirst(tab) /\ ImageReady(mounted, tab)
       => ImageFirst(new)

LEMMA MountNext ==
  ASSUME NEW W, NEW mounted \in Seq(Line(W)), NEW tab \in Seq(Line(W)),
         NEW n \in 1..Len(tab), NEW before \in Seq(Line(W)),
         UpTo(before, mounted, tab, n - 1),
         NEW line, line = Placed(tab[n]), NEW new, new = MountStep(before, line)
  PROVE  new \in Seq(Line(W)) /\ UpTo(new, mounted, tab, n)
  <1>1. /\ line \in Line(W) /\ line.what = tab[n].what
        /\ \A l \in 1..n : l \in DOMAIN tab /\ Placed(tab[l]).what = tab[l].what
    BY PlacedLine
  <1>2. /\ new \in Seq(Line(W))
        /\ Len(before) <= Len(new)
        /\ \A k \in DOMAIN before : k \in DOMAIN new /\ new[k] = before[k]
        /\ \A k \in DOMAIN new : k \notin DOMAIN before =>
             /\ k = Len(before) + 1 /\ new[k] = line
             /\ Present(line.what) /\ ~Contains(before, line)
        /\ Present(line.what) => \E k \in DOMAIN new : new[k] = line
    <2>1. AddsAtMost(line, before, new, W)
      BY <1>1, MountStepLines
    <2> QED
      BY <2>1 DEF AddsAtMost
  <1>3. Len(mounted) <= Len(new)
    BY <1>2 DEF UpTo
  <1>4. \A k \in DOMAIN mounted : k \in DOMAIN new /\ new[k] = mounted[k]
    BY <1>2 DEF UpTo
  <1>5. ASSUME NEW k \in DOMAIN new, k \notin DOMAIN mounted
        PROVE  \E l \in 1..n : new[k] = Placed(tab[l]) /\ Present(tab[l].what)
    <2>1. CASE k \in DOMAIN before
      BY <1>2, <1>5, <2>1 DEF UpTo
    <2>2. CASE k \notin DOMAIN before
      BY <1>1, <1>2, <2>2
    <2> QED
      BY <2>1, <2>2
  <1>6. ASSUME NEW l \in 1..n, Present(tab[l].what)
        PROVE  \E k \in DOMAIN new : new[k] = Placed(tab[l])
    <2>1. CASE l = n
      BY <1>1, <1>2, <1>6, <2>1
    <2>2. CASE l # n
      <3>1. PICK k \in DOMAIN before : before[k] = Placed(tab[l])
        BY <1>6, <2>2 DEF UpTo
      <3> QED
        BY <1>2, <3>1
    <2> QED
      BY <2>1, <2>2
  <1>7. ASSUME ImageFirst(mounted), ImageFirst(tab), ImageReady(mounted, tab)
        PROVE  ImageFirst(new)
    <2>1. ImageFirst(before)
      BY <1>7 DEF UpTo
    <2>2. ASSUME NEW a \in DOMAIN before, before[a].what # 0,
                 NEW b \in DOMAIN new, b \notin DOMAIN before
          PROVE  new[b].what # 0
      <3>1. new[b] = line /\ ~Contains(before, line)
        BY <1>2, <2>2
      <3>2. ASSUME line.what = 0
            PROVE  FALSE
        <4>1. CASE \A k \in DOMAIN mounted : mounted[k].what = 0
          <5>1. a \notin DOMAIN mounted
            BY <2>2, <4>1 DEF UpTo
          <5>2. PICK l \in 1..(n - 1) : before[a] = Placed(tab[l])
            BY <2>2, <5>1 DEF UpTo
          <5>3. tab[l].what # 0 /\ l < n /\ l \in DOMAIN tab /\ n \in DOMAIN tab
            BY <1>1, <2>2, <5>2
          <5> QED
            BY <1>1, <1>7, <3>2, <5>3 DEF ImageFirst
        <4>2. CASE \A l \in DOMAIN tab : tab[l].what = 0 =>
                     \E k \in DOMAIN mounted : mounted[k] = Placed(tab[l])
          <5>1. PICK k \in DOMAIN mounted : mounted[k] = line
            BY <1>1, <3>2, <4>2
          <5>2. k \in DOMAIN before /\ before[k] = line
            BY <5>1 DEF UpTo
          <5> QED
            BY <3>1, <5>2 DEF Contains
        <4> QED
          BY <1>7, <4>1, <4>2 DEF ImageReady
      <3> QED
        BY <3>1, <3>2
    <2> QED
      BY <1>2, <2>1, <2>2 DEF ImageFirst
  <1>8. UpTo(new, mounted, tab, n)
    BY <1>3, <1>4, <1>5, <1>6, <1>7 DEF UpTo
  <1> QED
    BY <1>2, <1>8

(* mount -a keeps what is mounted, adds only lines of fstab, mounts each    *)
(* that is there to be mounted, and keeps the image's mounts below.         *)
LEMMA MountAllLines ==
  ASSUME NEW W, NEW mounted \in Seq(Line(W)), NEW tab \in Seq(Line(W))
  PROVE  /\ MountAll(mounted, tab) \in Seq(Line(W))
         /\ UpTo(MountAll(mounted, tab), mounted, tab, Len(tab))
  <1> DEFINE n == Len(tab)
             after == CHOOSE f : MountsUp(f, mounted, tab, n)
  <1>0. n \in Nat
    OBVIOUS
  <1>1. MountAll(mounted, tab) = after[n]
    BY DEF MountAll, MountsUp, MountStep, Placed
  <1>2. MountsUp(after, mounted, tab, n)
    BY <1>0, MountsUpExists
  <1>3. /\ after[0] = mounted
        /\ \A k \in 1..n : after[k] = MountStep(after[k - 1], Placed(tab[k]))
    <2> HIDE DEF after
    <2> QED
      BY <1>0, <1>2 DEF MountsUp
  <1> DEFINE Good(k) == after[k] \in Seq(Line(W)) /\ UpTo(after[k], mounted, tab, k)
  <1> HIDE DEF after
  <1>4. Good(0)
    BY <1>3 DEF UpTo
  <1>5. ASSUME NEW k \in 1..n, Good(k - 1)
        PROVE  Good(k)
    BY <1>3, <1>5, MountNext
  <1>6. Good(n)
    <2> DEFINE Bad == {k \in 0..n : ~Good(k)}
    <2> HIDE DEF Good
    <2>1. ASSUME Bad # {}
          PROVE  FALSE
      <3>1. Min(Bad) \in Bad /\ \A k \in Bad : Min(Bad) <= k
        <4>1. Bad \in SUBSET Nat
          BY <1>0
        <4> HIDE DEF Bad
        <4> QED
          BY <2>1, <4>1, MinIsMember
      <3>2. Min(Bad) \in 1..n
        BY <1>0, <1>4, <3>1
      <3>3. Min(Bad) - 1 \in 0..n /\ Min(Bad) - 1 \notin Bad
        BY <1>0, <3>1, <3>2
      <3> QED
        BY <1>5, <3>1, <3>2, <3>3
    <2> QED
      BY <1>0, <2>1
  <1> QED
    BY <1>1, <1>6

-----------------------------------------------------------------------------
(* Which scripts may run for which goroutine: a wait has a job of its own   *)
(* for as long as it is waited for, and a script never does the work of     *)
(* another one. The disk at work is one to set up.                          *)
StatusSteps == {"none", "status", "sudo", "ok"}
DiskSteps == {"none", "format", "line", "mount", "verify", "ok", "error"}

WorkInv ==
  /\ pc \in Sessions => job.for = pc
  /\ pc \in {"check", "address"} => job = NoJob
  /\ job.for = "none" => script.step = "none" /\ job.at = "none"
  /\ job.at \in {"none", "ssh", "ok"} => script.step = "none"
  /\ job.for = "cloudinit" => script.step \in StatusSteps
  /\ job.for = "disks" => script.step \in DiskSteps /\ Pending # {}
  /\ script.step \in {"format", "line"} => script.disk \in Pending
  /\ pc = "done" => job.at \in {"none", "ok"}

(* The part of the type invariant about who does what.                      *)
ControlOK ==
  /\ form \in Forms /\ image \in Images
  /\ pc \in Waits \cup {"check", "done", "failed"}
  /\ late \in BOOLEAN
  /\ job \in Jobs
  /\ script = [step |-> script.step, disk |-> script.disk, code |-> script.code]
  /\ script.step \in StatusSteps \cup DiskSteps
  /\ script.disk \in Pending \cup {0}
  /\ script.code \in {"", "absent", "0", "1", "2"}

(* The form and the image are given, and an answer that was missed stays    *)
(* missed.                                                                  *)
LEMMA NextFrame ==
  ASSUME [Next]_vars
  PROVE  /\ form' = form /\ image' = image /\ Pending' = Pending
         /\ \A i : Mount(i)' = Mount(i)
         /\ unheard \subseteq unheard'
         /\ Waited' => Waited
         /\ (DataDisksAccepted' <=> DataDisksAccepted)
  <1>1. form' = form /\ image' = image
    BY DEF Next, Driver, StartVM, GotAddress, AddressTimesOut, JobReturns,
       JobTimesOut, Enter, Deadline, GetURL, Goroutine, StartScript, SessionLost,
       ScriptReturns, Script, CloudInitStatus, CloudInitStatusSudo, FormatDisk,
       AddLine, MountDisks, VerifyDisks, Guest, Boots, NetworkChanges,
       CloudInitReadsFstab, CloudInitWritesFstab, CloudInitEnds, Reboot, driver, vars
  <1>2. Pending' = Pending /\ (\A i : Mount(i)' = Mount(i))
    BY <1>1 DEF Pending, Mount
  <1>3. unheard \subseteq unheard'
    BY DEF Next, Driver, StartVM, GotAddress, AddressTimesOut, JobReturns,
       JobTimesOut, Enter, Deadline, GetURL, Goroutine, StartScript, SessionLost,
       ScriptReturns, Script, CloudInitStatus, CloudInitStatusSudo, FormatDisk,
       AddLine, MountDisks, VerifyDisks, Guest, Boots, NetworkChanges,
       CloudInitReadsFstab, CloudInitWritesFstab, CloudInitEnds, Reboot, driver, vars
  <1>4. Waited' => Waited
    BY <1>1, <1>3 DEF Waited
  <1>5. DataDisksAccepted' <=> DataDisksAccepted
    BY <1>1, <1>2 DEF DataDisksAccepted, MountsApart
  <1> QED
    BY <1>1, <1>2, <1>3, <1>4, <1>5

(* The disks to set up are positions in the form.                           *)
LEMMA PendingArePositions ==
  ASSUME form \in Forms
  PROVE  Pending \in SUBSET (Nat \ {0})
  <1>1. form.disks \in Seq(Disk)
    BY GuestSetupAssumption DEF Form
  <1> QED
    BY <1>1 DEF Pending

(* The next disk to set up is one of them, if any is left.                  *)
LEMMA NextDiskIsPending ==
  ASSUME form \in Forms, NEW i
  PROVE  NextDisk(i) \in Pending \cup {0}
  <1> DEFINE later == {j \in Pending : j > i}
  <1>1. later \in SUBSET Nat
    BY PendingArePositions
  <1>2. later # {} => Min(later) \in later
    <2> HIDE DEF later
    <2> QED
      BY <1>1, MinIsMember
  <1> QED
    BY <1>2 DEF NextDisk

(* Entering a wait, or leaving the last one.                                *)
LEMMA EnterWork ==
  ASSUME ControlOK, WorkInv, form' = form, image' = image, script' = script,
         NEW wait \in Waits \cup {"done", "failed"}, Enter(wait),
         wait \in Sessions => script.step = "none",
         wait = "address" => job = NoJob,
         wait = "disks" => Pending # {},
         wait = "done" => job.at \in {"none", "ok"}
  PROVE  ControlOK' /\ WorkInv'
  <1>1. Pending' = Pending /\ pc' = wait /\ late' = FALSE
    BY DEF Pending, Enter
  <1>2. CASE wait \in Sessions
    <2>1. /\ job' = [for |-> wait, at |-> "ssh"] /\ job'.for = wait /\ job'.at = "ssh"
          /\ job' \in Jobs
      BY <1>2 DEF Enter, Jobs
    <2>2. ControlOK'
      BY <1>1, <2>1 DEF ControlOK
    <2>3. WorkInv'
      BY <1>1, <1>2, <2>1 DEF WorkInv, Sessions, StatusSteps, DiskSteps
    <2> QED
      BY <2>2, <2>3
  <1>3. CASE wait \notin Sessions
    <2>1. job' = job
      BY <1>3 DEF Enter
    <2>2. ControlOK'
      BY <1>1, <2>1 DEF ControlOK
    <2>3. WorkInv'
      BY <1>1, <1>3, <2>1 DEF WorkInv, Waits, Sessions
    <2> QED
      BY <2>2, <2>3
  <1> QED
    BY <1>2, <1>3

(* A driver that goes on is one that does not wait any more.                *)
LEMMA DriverWork ==
  ASSUME ControlOK, WorkInv, Driver
  PROVE  ControlOK' /\ WorkInv'
  <1>1. form' = form /\ image' = image /\ script' = script
    BY DEF Driver, StartVM, GotAddress, AddressTimesOut, JobReturns, JobTimesOut, Enter
  <1>2. pc \in {"check", "address"} =>
          job = NoJob /\ job.at = "none" /\ script.step = "none"
    BY DEF WorkInv, NoJob
  <1>3. CASE StartVM
    <2>1. PICK wait \in {"address", "done", "failed"} : Enter(wait)
      BY <1>3 DEF StartVM, AfterCheck
    <2> QED
      BY <1>1, <1>2, <1>3, <2>1, EnterWork DEF StartVM, Waits, Sessions
  <1>4. CASE GotAddress
    <2>1. PICK wait \in {"cloudinit", "disks", "done"} :
            Enter(wait) /\ (wait = "disks" => Pending # {})
      BY <1>4 DEF GotAddress, AfterAddress, AfterCloudInit
    <2> QED
      BY <1>1, <1>2, <1>4, <2>1, EnterWork DEF GotAddress, Waits
  <1>5. CASE AddressTimesOut \/ JobTimesOut
    BY <1>1, <1>5, EnterWork DEF AddressTimesOut, JobTimesOut, Waits, Sessions
  <1>6. CASE JobReturns
    <2>1. PICK wait \in {"disks", "done", "failed"} :
            /\ Enter(wait)
            /\ wait = "disks" => Pending # {}
            /\ wait # "failed" => job.at = "ok"
      BY <1>6 DEF JobReturns, AfterCloudInit
    <2>2. wait # "failed" => script.step = "none"
      BY <2>1 DEF WorkInv
    <2> QED
      BY <1>1, <2>1, <2>2, EnterWork DEF Waits, Sessions
  <1> QED
    BY <1>3, <1>4, <1>5, <1>6 DEF Driver

LEMMA TimersWork ==
  ASSUME ControlOK, WorkInv, Deadline \/ GetURL \/ Guest \/ UNCHANGED vars
  PROVE  ControlOK' /\ WorkInv'
  <1>1. form' = form /\ image' = image /\ job' = job /\ pc' = pc /\ late' \in BOOLEAN
    BY DEF Deadline, GetURL, Guest, Boots, NetworkChanges, CloudInitReadsFstab,
       CloudInitWritesFstab, CloudInitEnds, Reboot, driver, vars, ControlOK
  <1>2. script' = script \/ script' = NoScript
    BY DEF Deadline, GetURL, Guest, Boots, NetworkChanges, CloudInitReadsFstab,
       CloudInitWritesFstab, CloudInitEnds, Reboot, driver, vars
  <1>3. Pending' = Pending
    BY <1>1 DEF Pending
  <1>4. CASE script' = script
    BY <1>1, <1>3, <1>4 DEF ControlOK, WorkInv
  <1>5. CASE script' = NoScript
    BY <1>1, <1>3, <1>5 DEF ControlOK, WorkInv, NoScript, StatusSteps, DiskSteps
  <1> QED
    BY <1>2, <1>4, <1>5

LEMMA GoroutineWork ==
  ASSUME ControlOK, WorkInv, Goroutine
  PROVE  ControlOK' /\ WorkInv'
  <1>1. form' = form /\ image' = image /\ Pending' = Pending /\ pc' = pc /\ late' = late
    <2>1. form' = form /\ image' = image /\ pc' = pc /\ late' = late
      BY DEF Goroutine, StartScript, SessionLost, ScriptReturns, driver
    <2> QED
      BY <2>1 DEF Pending
  <1>2. /\ job.at # "none" /\ job # NoJob /\ job.for \in Sessions
        /\ pc \notin {"check", "address"}
        /\ job.at # "ok" /\ pc # "done"
    <2>1. job.at \in {"ssh", "running"}
      BY DEF Goroutine, StartScript, SessionLost, ScriptReturns
    <2>2. job # NoJob
      BY <2>1 DEF NoJob
    <2>3. job.for \in Sessions
      BY <2>1 DEF ControlOK, WorkInv, Jobs
    <2> QED
      BY <2>1, <2>2, <2>3 DEF WorkInv
  <1>3. ASSUME NEW at \in {"running", "ok", "error"}, job' = [job EXCEPT !.at = at],
               script' = [step |-> script'.step, disk |-> script'.disk,
                          code |-> script'.code],
               script'.step \in {"none", "ok", FirstStep, script.step},
               script'.disk \in Pending \cup {0},
               script'.code \in {"", script.code},
               at = "ok" => script'.step = "none",
               script'.step \in {"format", "line"} => script'.disk \in Pending
        PROVE  ControlOK' /\ WorkInv'
    <2>1. job' \in Jobs /\ job'.for = job.for /\ job'.at = at
      BY <1>3 DEF ControlOK, Jobs
    <2>2. /\ job.for = "cloudinit" => script'.step \in StatusSteps
          /\ job.for = "disks" => script'.step \in DiskSteps
      BY <1>3 DEF WorkInv, FirstStep, StatusSteps, DiskSteps
    <2>3. ControlOK'
      BY <1>1, <1>2, <1>3, <2>1, <2>2 DEF ControlOK, Sessions
    <2>4. WorkInv'
      BY <1>1, <1>2, <1>3, <2>1, <2>2 DEF WorkInv, Sessions
    <2> QED
      BY <2>3, <2>4
  <1>4. CASE StartScript
    <2>1. job.for = "disks" => Min(Pending) \in Pending
      BY PendingArePositions, MinIsMember DEF ControlOK, WorkInv
    <2>2. job' = [job EXCEPT !.at = "running"]
      BY <1>4 DEF StartScript
    <2>3. job.for # "disks" => FirstStep = "status"
      BY <1>2 DEF Sessions, FirstStep
    <2>4. CASE script' = [step |-> FirstStep, code |-> "",
                          disk |-> IF job.for = "disks" THEN Min(Pending) ELSE 0]
      <3>1. /\ script' = [step |-> script'.step, disk |-> script'.disk,
                          code |-> script'.code]
            /\ script'.step = FirstStep /\ script'.code = ""
            /\ script'.disk = IF job.for = "disks" THEN Min(Pending) ELSE 0
        BY <2>4
      <3> QED
        BY <1>3, <2>1, <2>2, <2>3, <3>1
    <2>5. CASE script' = [step |-> "ok", code |-> "", disk |-> 0]
      <3>1. /\ script' = [step |-> script'.step, disk |-> script'.disk,
                          code |-> script'.code]
            /\ script'.step = "ok" /\ script'.code = "" /\ script'.disk = 0
        BY <2>5
      <3> QED
        BY <1>3, <2>2, <3>1
    <2> QED
      BY <1>4, <2>4, <2>5 DEF StartScript
  <1>5. CASE SessionLost
    BY <1>3, <1>5 DEF SessionLost, ControlOK, WorkInv
  <1>6. CASE ScriptReturns
    <2>1. PICK at \in {"ok", "error"} : job' = [job EXCEPT !.at = at]
      BY <1>6 DEF ScriptReturns
    <2> QED
      BY <1>3, <1>6, <2>1 DEF ScriptReturns, NoScript
  <1> QED
    BY <1>4, <1>5, <1>6 DEF Goroutine

LEMMA ScriptWork ==
  ASSUME ControlOK, WorkInv, Script
  PROVE  ControlOK' /\ WorkInv'
  <1>1. /\ form' = form /\ image' = image /\ Pending' = Pending
        /\ pc' = pc /\ late' = late /\ job' = job
    <2>1. form' = form /\ image' = image /\ pc' = pc /\ late' = late /\ job' = job
      BY DEF Script, CloudInitStatus, CloudInitStatusSudo, FormatDisk, AddLine,
         MountDisks, VerifyDisks, driver
    <2> QED
      BY <2>1 DEF Pending
  <1> DEFINE Moves ==
        /\ script' = [step |-> script'.step, disk |-> script'.disk, code |-> script'.code]
        /\ script'.disk \in Pending \cup {0}
        /\ script'.code \in {"", "absent", "0", "1", "2"}
        /\ \/ script.step \in {"status", "sudo"} /\ script'.step \in {"sudo", "ok"}
           \/ /\ script.step \in {"format", "line", "mount", "verify"}
              /\ script'.step \in {"format", "line", "mount", "verify", "ok", "error"}
              /\ script'.step \in {"format", "line"} => script'.disk \in Pending
  <1>2. ExitCode \in {"absent", "0", "1", "2"} \/ ~Settled
    BY DEF ExitCode, Settled
  <1>3. Moves
    <2> USE DEF ControlOK
    <2>1. CASE CloudInitStatus
      BY <1>2, <2>1 DEF CloudInitStatus, Settled
    <2>2. CASE CloudInitStatusSudo
      BY <1>2, <2>2 DEF CloudInitStatusSudo
    <2>3. CASE FormatDisk
      BY <2>3 DEF FormatDisk, WorkInv
    <2>4. CASE AddLine
      <3>1. NextDisk(script.disk) \in Pending \cup {0}
        BY NextDiskIsPending
      <3> QED
        BY <2>4, <3>1 DEF AddLine
    <2>5. CASE MountDisks \/ VerifyDisks
      BY <2>5 DEF MountDisks, VerifyDisks
    <2> QED
      BY <2>1, <2>2, <2>3, <2>4, <2>5 DEF Script
  <1>4. script.step # "none"
    BY <1>3
  <1> QED
    BY <1>1, <1>3, <1>4 DEF ControlOK, WorkInv, StatusSteps, DiskSteps, NoJob, Jobs, Sessions

-----------------------------------------------------------------------------
(* The part of the type invariant about the guest.                          *)
Lines == Seq(Line(Pending \cup {0}))

GuestOK ==
  /\ ip \in Addresses
  /\ agent \in BOOLEAN /\ login \in BOOLEAN
  /\ cloudinit \in {"absent", "first", "mounts", "later", "again", "done",
                    "degraded", "error"}
  /\ formatted \subseteq Pending
  /\ fstab \in Lines /\ ciFstab \in Lines /\ mounts \in Lines
  /\ unheard \subseteq Sessions
  /\ reboots \in 0..MaxReboots /\ leases \in 0..MaxLeases

TypeInv == ControlOK /\ WorkInv /\ Address /\ GuestOK

LEMMA MoreValues ==
  ASSUME NEW A, NEW B, A \subseteq B, NEW s \in Seq(A)
  PROVE  s \in Seq(B)
  <1>1. s = [k \in 1..Len(s) |-> s[k]] /\ Len(s) \in Nat
    OBVIOUS
  <1>2. \A k \in 1..Len(s) : s[k] \in B
    OBVIOUS
  <1>3. [k \in 1..Len(s) |-> s[k]] \in Seq(B)
    BY <1>1, <1>2
  <1> QED
    BY <1>1, <1>3

(* Lines and mounts may get one more, or follow one another.                *)
LEMMA OneMore ==
  ASSUME NEW A, NEW s \in Seq(A), NEW a \in A
  PROVE  Append(s, a) \in Seq(A)
  OBVIOUS

LEMMA OneAfterAnother ==
  ASSUME NEW A, NEW s \in Seq(A), NEW t \in Seq(A)
  PROVE  s \o t \in Seq(A)
  OBVIOUS

LEMMA NoLines ==
  <<>> \in Lines
  BY DEF Lines

LEMMA BoundsAreNumbers ==
  MaxReboots \in Nat /\ MaxLeases \in Nat
  BY GuestSetupAssumption

(* The image's own lines are lines.                                         *)
LEMMA ImageLines ==
  ASSUME image \in Images
  PROVE  /\ image.fstab \in Lines /\ image.own \in Lines
         /\ image.fstab \in Seq(Line({0})) /\ image.own \in Seq(Line({0}))
         /\ image.cloudinit \in {"absent", "first"}
  <1>1. /\ image.fstab \in Seq(Line({0})) /\ image.own \in Seq(Line({0}))
        /\ image.cloudinit \in {"absent", "first"}
    BY GuestSetupAssumption DEF Image
  <1>2. Line({0}) \subseteq Line(Pending \cup {0})
    BY DEF Line
  <1> QED
    BY <1>1, <1>2, MoreValues DEF Lines

LEMMA InitTypes ==
  Init => TypeInv
  <1> SUFFICES ASSUME Init PROVE TypeInv
    OBVIOUS
  <1>0. image \in Images /\ form \in Forms /\ fstab = image.fstab
    BY DEF Init
  <1>1. image.fstab \in Lines /\ image.cloudinit \in {"absent", "first"}
    BY <1>0, ImageLines
  <1>2. <<>> \in Lines
    BY NoLines
  <1>3. MountAll(<<>>, image.fstab) \in Lines
    BY <1>1, <1>2, MountAllLines DEF Lines
  <1>4. ControlOK
    <2>1. job \in Jobs
      BY DEF Init, NoJob, Jobs, Sessions
    <2>2. /\ script = [step |-> script.step, disk |-> script.disk, code |-> script.code]
          /\ script.step = "none" /\ script.disk = 0 /\ script.code = ""
      BY DEF Init, NoScript
    <2> QED
      BY <2>1, <2>2 DEF Init, ControlOK, StatusSteps
  <1>5. WorkInv
    BY DEF Init, WorkInv, NoJob, NoScript, Sessions
  <1>6. Address
    BY DEF Init, Address, AddressOfNIC, Addresses, Interfaces, NIC
  <1>7. GuestOK
    <2>1. /\ ip = 0 /\ agent = FALSE /\ login = FALSE /\ formatted = {}
          /\ cloudinit = image.cloudinit /\ ciFstab = <<>>
          /\ mounts = MountAll(<<>>, image.fstab) /\ reboots = 0 /\ leases = 0
          /\ unheard = {}
      BY DEF Init
    <2>2. 0 \in 0..MaxReboots /\ 0 \in 0..MaxLeases
      BY GuestSetupAssumption
    <2>3. fstab \in Lines /\ ciFstab \in Lines /\ mounts \in Lines
      BY <1>0, <1>1, <1>2, <1>3, <2>1
    <2> QED
      BY <1>1, <2>1, <2>2, <2>3 DEF GuestOK, Addresses
  <1> QED
    BY <1>4, <1>5, <1>6, <1>7 DEF TypeInv

(* A poll answers with an address an interface may have.                    *)
LEMMA PolledIsAddress ==
  ASSUME Address
  PROVE  Polled \in Addresses
  <1>1. ASSUME NEW names \in SUBSET Interfaces
        PROVE  FirstIPv4(names) \in Addresses
    <2>1. CASE FirstIPv4(names) = 0
      BY <2>1 DEF Addresses
    <2>2. CASE FirstIPv4(names) # 0
      BY <2>2, FirstIPv4IsTheirs DEF Address
    <2> QED
      BY <2>1, <2>2
  <1>2. form.iface # "" => {form.iface} \in SUBSET Interfaces
    BY GuestSetupAssumption DEF Address, Form
  <1> QED
    BY <1>1, <1>2 DEF Polled, GuestIPByMAC, GuestIP, Addresses, Interfaces

(* Where a disk to set up is mounted.                                       *)
LEMMA DiskMount ==
  ASSUME form \in Forms, NEW i \in Pending
  PROVE  Mount(i) \in Seq(STRING)
  <1>1. form.disks \in Seq(Disk) /\ i \in DOMAIN form.disks
    BY GuestSetupAssumption DEF Form, Pending
  <1>2. form.disks[i] \in Disk
    BY <1>1
  <1>3. form.disks[i].mount \in Seq(STRING)
    BY <1>2 DEF Disk
  <1>4. Without(form.disks[i].mount, {""}) \in Seq(STRING)
    BY <1>3, WithoutSegments
  <1> QED
    BY <1>4 DEF Mount, normalizeMount

LEMMA GuestTypes ==
  ASSUME TypeInv, [Next]_vars
  PROVE  GuestOK'
  <1> USE DEF TypeInv, GuestOK, ControlOK
  <1>0. form' = form /\ image' = image /\ Pending' = Pending /\ Lines' = Lines
    BY NextFrame DEF Lines, Line
  <1>1. ip' \in Addresses
    <2>1. ip' \in {ip, Polled}
      BY DEF Next, Driver, StartVM, GotAddress, AddressTimesOut, JobReturns,
         JobTimesOut, Enter, Deadline, GetURL, Goroutine, StartScript, SessionLost,
         ScriptReturns, Script, CloudInitStatus, CloudInitStatusSudo, FormatDisk,
         AddLine, MountDisks, VerifyDisks, Guest, Boots, NetworkChanges,
         CloudInitReadsFstab, CloudInitWritesFstab, CloudInitEnds, Reboot, driver, vars
    <2> QED
      BY <2>1, PolledIsAddress
  <1>2. \/ Guest
        \/ UNCHANGED guest
    BY DEF Next, Driver, StartVM, GotAddress, AddressTimesOut, JobReturns,
       JobTimesOut, Deadline, GetURL, Goroutine, StartScript, SessionLost,
       ScriptReturns, Script, CloudInitStatus, CloudInitStatusSudo, FormatDisk,
       AddLine, MountDisks, VerifyDisks, vars
  <1>3. /\ agent' \in BOOLEAN /\ login' \in BOOLEAN
        /\ cloudinit' \in {"absent", "first", "mounts", "later", "again", "done",
                           "degraded", "error"}
        /\ reboots' \in 0..MaxReboots /\ leases' \in 0..MaxLeases
    <2>1. agent' \in BOOLEAN /\ login' \in BOOLEAN
      BY <1>2
      DEF Guest, Boots, NetworkChanges, CloudInitReadsFstab, CloudInitWritesFstab,
          CloudInitEnds, Reboot, guest
    <2>2. cloudinit' \in {"absent", "first", "mounts", "later", "again", "done",
                           "degraded", "error"}
      BY <1>2
      DEF Guest, Boots, NetworkChanges, CloudInitReadsFstab, CloudInitWritesFstab,
          CloudInitEnds, Reboot, guest
    <2>3. \/ reboots' = reboots
          \/ reboots < MaxReboots /\ reboots' = reboots + 1
      BY <1>2
      DEF Guest, Boots, NetworkChanges, CloudInitReadsFstab, CloudInitWritesFstab,
          CloudInitEnds, Reboot, guest
    <2>4. \/ leases' = leases
          \/ leases < MaxLeases /\ leases' = leases + 1
      BY <1>2
      DEF Guest, Boots, NetworkChanges, CloudInitReadsFstab, CloudInitWritesFstab,
          CloudInitEnds, Reboot, guest
    <2>5. reboots \in 0..MaxReboots /\ leases \in 0..MaxLeases
      OBVIOUS
    <2> HIDE DEF TypeInv, GuestOK, ControlOK
    <2>6. reboots' \in 0..MaxReboots
      BY <2>3, <2>5, BoundsAreNumbers
    <2>7. leases' \in 0..MaxLeases
      BY <2>4, <2>5, BoundsAreNumbers
    <2> QED
      BY <2>1, <2>2, <2>6, <2>7
  <1>4. formatted' \subseteq Pending
    <2>1. formatted' = formatted \/ FormatDisk
      BY DEF Next, Driver, StartVM, GotAddress, AddressTimesOut, JobReturns,
         JobTimesOut, Deadline, GetURL, Goroutine, StartScript, SessionLost,
         ScriptReturns, Script, CloudInitStatus, CloudInitStatusSudo,
         AddLine, MountDisks, VerifyDisks, Guest, Boots, NetworkChanges,
         CloudInitReadsFstab, CloudInitWritesFstab, CloudInitEnds, Reboot,
         storage, vars
    <2>2. FormatDisk => script.disk \in Pending
      BY DEF FormatDisk, WorkInv
    <2> QED
      BY <2>1, <2>2 DEF FormatDisk
  <1>5. ciFstab' \in Lines
    <2>1. <<>> \in Lines
      BY NoLines
    <2>2. ciFstab' \in {ciFstab, fstab, <<>>}
      BY <1>2
      DEF Guest, Boots, NetworkChanges, CloudInitReadsFstab, CloudInitWritesFstab,
          CloudInitEnds, Reboot, guest
    <2> QED
      BY <2>1, <2>2
  <1>6. fstab' \in Lines
    <2>1. fstab' = fstab \/ AddLine \/ CloudInitWritesFstab
      BY DEF Next, Driver, StartVM, GotAddress, AddressTimesOut, JobReturns,
         JobTimesOut, Deadline, GetURL, Goroutine, StartScript, SessionLost,
         ScriptReturns, Script, CloudInitStatus, CloudInitStatusSudo,
         FormatDisk, MountDisks, VerifyDisks, Guest, Boots, NetworkChanges,
         CloudInitReadsFstab, CloudInitEnds, Reboot, storage, vars
    <2>2. CASE CloudInitWritesFstab
      <3>1. fstab' = ciFstab \o image.own
        BY <2>2 DEF CloudInitWritesFstab
      <3>2. ciFstab \in Lines /\ image.own \in Lines
        BY ImageLines
      <3> QED
        BY <3>1, <3>2, OneAfterAnother DEF Lines
    <2>3. CASE AddLine
      <3> DEFINE new == [what |-> script.disk, path |-> Mount(script.disk)]
      <3>1. fstab' \in {fstab, Append(fstab, new)} /\ script.disk \in Pending
        BY <2>3 DEF AddLine, WorkInv
      <3>2. Mount(script.disk) \in Seq(STRING)
        BY <3>1, DiskMount
      <3>3. new \in Line(Pending \cup {0})
        BY <3>1, <3>2 DEF Line
      <3> HIDE DEF new
      <3> QED
        BY <3>1, <3>3, OneMore DEF Lines
    <2> QED
      BY <2>1, <2>2, <2>3
  <1>7. mounts' \in Lines
    <2>1. \/ mounts' = mounts
          \/ mounts' = MountAll(mounts, fstab) \/ mounts' = MountAll(mounts, fstab')
          \/ mounts' = MountAll(<<>>, fstab)
      BY DEF Next, Driver, StartVM, GotAddress, AddressTimesOut, JobReturns,
         JobTimesOut, Deadline, GetURL, Goroutine, StartScript, SessionLost,
         ScriptReturns, Script, CloudInitStatus, CloudInitStatusSudo,
         FormatDisk, AddLine, MountDisks, VerifyDisks, Guest, Boots, NetworkChanges,
         CloudInitReadsFstab, CloudInitWritesFstab, CloudInitEnds, Reboot, storage, vars
    <2>2. <<>> \in Lines
      BY NoLines
    <2>3. \A m, tab \in Lines : MountAll(m, tab) \in Lines
      BY MountAllLines DEF Lines
    <2>4. \/ mounts' \in Lines
          \/ \E m, tab \in Lines : mounts' = MountAll(m, tab)
      BY <1>6, <2>1, <2>2
    <2> QED
      BY <2>3, <2>4
  <1>8. Addresses' = Addresses /\ Sessions' = Sessions
    BY DEF Addresses, Sessions
  <1>9. unheard' \subseteq Sessions
    <2>1. \/ unheard' = unheard
          \/ StartScript /\ unheard' = unheard \cup {job.for}
      BY DEF Next, Driver, StartVM, GotAddress, AddressTimesOut, JobReturns,
         JobTimesOut, Enter, Deadline, GetURL, Goroutine, StartScript, SessionLost,
         ScriptReturns, Script, CloudInitStatus, CloudInitStatusSudo, FormatDisk,
         AddLine, MountDisks, VerifyDisks, Guest, Boots, NetworkChanges,
         CloudInitReadsFstab, CloudInitWritesFstab, CloudInitEnds, Reboot, driver, vars
    <2>2. StartScript => job.for \in Sessions
      BY DEF StartScript, WorkInv, Jobs
    <2> QED
      BY <2>1, <2>2
  <1> HIDE DEF TypeInv, GuestOK, ControlOK
  <1> QED
    BY <1>0, <1>1, <1>3, <1>4, <1>5, <1>6, <1>7, <1>8, <1>9 DEF GuestOK

LEMMA TypeStep ==
  TypeInv /\ [Next]_vars => TypeInv'
  <1> SUFFICES ASSUME TypeInv, [Next]_vars PROVE TypeInv'
    OBVIOUS
  <1>1. ControlOK' /\ WorkInv'
    BY DriverWork, TimersWork, GoroutineWork, ScriptWork DEF TypeInv, Next
  <1>2. Address'
    BY StepKeepsAddress DEF TypeInv
  <1> QED
    BY <1>1, <1>2, GuestTypes DEF TypeInv

LEMMA Typed ==
  Spec => []TypeInv
  BY InitTypes, TypeStep, PTL DEF Spec

(* Types hold, and with them: the setup script works on disks the form asks *)
(* it to set up, never on a raw one, and only for a goroutine of its kind   *)
(* (renderDiskSetupScript, NeedsGuestSetup, waitForCloudInit).              *)
THEOREM SpecTypeOK ==
  Spec => []TypeOK
  <1>1. TypeInv => TypeOK
    BY DEF TypeInv, ControlOK, Address, GuestOK, TypeOK, Jobs, Lines, StatusSteps,
       DiskSteps
  <1> QED
    BY <1>1, Typed, PTL

-----------------------------------------------------------------------------
(* The invariant of the storage. A line with a disk is for that disk's      *)
(* path, and the others are the image's ...                                 *)
ImageLine(line) == line \in ToSet(image.fstab \o image.own)

LinesInv ==
  /\ ImageFirst(fstab)
  /\ \A k \in DOMAIN fstab :
       IF fstab[k].what = 0 THEN ImageLine(fstab[k])
       ELSE fstab[k].path = Mount(fstab[k].what)

(* ... what is mounted has its line, and what the image mounts is mounted,  *)
(* below the disks ...                                                      *)
MountsInv ==
  /\ ImageFirst(mounts)
  /\ \A k \in DOMAIN mounts :
       /\ Present(mounts[k].what)
       /\ \E l \in DOMAIN fstab : mounts[k] = Placed(fstab[l])
  /\ \A l \in DOMAIN fstab :
       fstab[l].what = 0 => \E k \in DOMAIN mounts : mounts[k] = Placed(fstab[l])

(* ... until the disks are worked on only the image has lines, and          *)
(* cloud-init writes back the fstab that is there; afterwards it writes     *)
(* none ...                                                                 *)
BeforeDisks == pc \in {"check", "address", "cloudinit"}

FirstBootInv ==
  /\ BeforeDisks => \A k \in DOMAIN fstab : fstab[k].what = 0
  /\ BeforeDisks /\ cloudinit = "mounts" => ciFstab = fstab
  /\ pc \in {"disks", "done"} => cloudinit \notin FirstBoot
  /\ image.cloudinit = "absent" => cloudinit = "absent"

(* ... and something is mounted at the path of every disk from the verdict  *)
(* of the script on, if the script ran.                                     *)
AllMounted == \A i \in Pending : IsMounted(Mount(i))

VerifiedInv ==
  /\ pc # "check" => DataDisksAccepted
  /\ "disks" \notin unheard =>
       /\ job.for = "disks" /\ job.at = "running" /\ script.step = "ok" => AllMounted
       /\ job.for = "disks" /\ job.at = "ok" => AllMounted
       /\ pc = "done" => AllMounted

StorageInv ==
  Waited /\ pc # "failed" => LinesInv /\ MountsInv /\ FirstBootInv /\ VerifiedInv

-----------------------------------------------------------------------------
(* A sequence with one element more, and one after another.                 *)
LEMMA AppendedLines ==
  ASSUME NEW A, NEW s \in Seq(A), NEW a \in A, NEW t, t = Append(s, a)
  PROVE  /\ \A k \in DOMAIN s : k \in DOMAIN t /\ t[k] = s[k]
         /\ \A k \in DOMAIN t : k \notin DOMAIN s => k = Len(s) + 1 /\ t[k] = a
  OBVIOUS

Joined(u, s, t) ==
  /\ \A k \in DOMAIN s : k \in DOMAIN u /\ u[k] = s[k]
  /\ \A l \in DOMAIN t : \E k \in DOMAIN u : u[k] = t[l]
  /\ \A k \in DOMAIN u : k \notin DOMAIN s => \E l \in DOMAIN t : u[k] = t[l]

LEMMA JoinedLines ==
  ASSUME NEW A, NEW s \in Seq(A), NEW t \in Seq(A), NEW u, u = s \o t
  PROVE  Joined(u, s, t)
  <1>1. u \in Seq(A) /\ Len(u) = Len(s) + Len(t)
    OBVIOUS
  <1>2. \A k \in 1..Len(u) : u[k] = IF k <= Len(s) THEN s[k] ELSE t[k - Len(s)]
    OBVIOUS
  <1>3. \A k \in DOMAIN s : k \in DOMAIN u /\ u[k] = s[k]
    BY <1>1, <1>2
  <1>4. ASSUME NEW l \in DOMAIN t
        PROVE  \E k \in DOMAIN u : u[k] = t[l]
    <2>1. Len(s) + l \in DOMAIN u /\ u[Len(s) + l] = t[l]
      BY <1>1, <1>2
    <2> QED
      BY <2>1
  <1>5. ASSUME NEW k \in DOMAIN u, k \notin DOMAIN s
        PROVE  \E l \in DOMAIN t : u[k] = t[l]
    <2>1. k - Len(s) \in DOMAIN t /\ u[k] = t[k - Len(s)]
      BY <1>1, <1>2, <1>5
    <2> QED
      BY <2>1
  <1> QED
    BY <1>3, <1>4, <1>5 DEF Joined

(* The image's lines, before and after cloud-init's first boot.             *)
LEMMA ImageLinesAre ==
  ASSUME image \in Images
  PROVE  /\ \A k \in DOMAIN image.fstab :
              image.fstab[k].what = 0 /\ ImageLine(image.fstab[k])
         /\ \A k \in DOMAIN image.own :
              image.own[k].what = 0 /\ ImageLine(image.own[k])
  <1>1. image.fstab \in Seq(Line({0})) /\ image.own \in Seq(Line({0}))
    BY ImageLines
  <1>2. /\ \A k \in DOMAIN image.fstab : image.fstab[k] \in Line({0})
        /\ \A k \in DOMAIN image.own : image.own[k] \in Line({0})
    BY <1>1
  <1>3. /\ \A k \in DOMAIN image.fstab : image.fstab[k].what = 0
        /\ \A k \in DOMAIN image.own : image.own[k].what = 0
    BY <1>2 DEF Line
  <1> DEFINE all == image.fstab \o image.own
  <1>4. /\ \A k \in DOMAIN image.fstab : k \in DOMAIN all /\ all[k] = image.fstab[k]
        /\ \A l \in DOMAIN image.own : \E k \in DOMAIN all : all[k] = image.own[l]
    <2>1. Joined(all, image.fstab, image.own)
      BY <1>1, JoinedLines
    <2> HIDE DEF all
    <2> QED
      BY <2>1 DEF Joined
  <1>5. /\ \A k \in DOMAIN image.fstab : image.fstab[k] \in ToSet(all)
        /\ \A k \in DOMAIN image.own : image.own[k] \in ToSet(all)
    <2> HIDE DEF all
    <2> QED
      BY <1>4 DEF ToSet
  <1> QED
    BY <1>3, <1>5 DEF ImageLine

(* A mount by its line is there for the same thing.                         *)
LEMMA LinePlaced ==
  ASSUME TypeInv, NEW l \in DOMAIN fstab
  PROVE  /\ fstab[l] \in Line(Pending \cup {0})
         /\ Placed(fstab[l]).what = fstab[l].what
         /\ Placed(fstab[l]).path = Place(fstab[l].path)
  <1>1. fstab[l] \in Line(Pending \cup {0})
    BY DEF TypeInv, GuestOK, Lines
  <1> QED
    BY <1>1, PlacedLine

(* A machine that does not get lost was not lost before; disks are worked   *)
(* on only in the wait for them.                                            *)
LEMMA NotFailedBefore ==
  ASSUME [Next]_vars, pc' # "failed"
  PROVE  pc # "failed"
  BY DEF Next, Driver, StartVM, GotAddress, AddressTimesOut, JobReturns,
     JobTimesOut, Enter, Deadline, GetURL, Goroutine, StartScript, SessionLost,
     ScriptReturns, Script, CloudInitStatus, CloudInitStatusSudo, FormatDisk,
     AddLine, MountDisks, VerifyDisks, Guest, Boots, NetworkChanges,
     CloudInitReadsFstab, CloudInitWritesFstab, CloudInitEnds, Reboot, driver,
     vars, Waits, Sessions

LEMMA DisksInTheirWait ==
  ASSUME TypeInv, pc # "failed", job.for = "disks"
  PROVE  pc \in {"disks", "done"}
  <1>1. job # NoJob
    BY DEF NoJob
  <1> QED
    BY <1>1 DEF TypeInv, ControlOK, WorkInv, Waits, Sessions

LEMMA LineInTheWait ==
  ASSUME TypeInv, pc # "failed", script.step \in {"format", "line", "mount", "verify"}
  PROVE  pc = "disks" /\ job.for = "disks"
  <1>1. job.for = "disks" /\ job.at \notin {"none", "ok"}
    BY DEF TypeInv, ControlOK, WorkInv, Jobs, Sessions, StatusSteps
  <1> QED
    BY <1>1, DisksInTheirWait DEF TypeInv, WorkInv

(* A step that is none of these leaves the storage as it is.                *)
LEMMA StorageSteps ==
  ASSUME [Next]_vars
  PROVE  \/ UNCHANGED <<fstab, mounts>> /\ formatted \subseteq formatted'
         \/ AddLine \/ MountDisks \/ CloudInitWritesFstab \/ Reboot
  BY DEF Next, Driver, StartVM, GotAddress, AddressTimesOut, JobReturns,
     JobTimesOut, Deadline, GetURL, Goroutine, StartScript, SessionLost,
     ScriptReturns, Script, CloudInitStatus, CloudInitStatusSudo, FormatDisk,
     VerifyDisks, Guest, Boots, NetworkChanges, CloudInitReadsFstab,
     CloudInitEnds, storage, vars

(* The line a disk gets.                                                    *)
LEMMA AddedLine ==
  ASSUME TypeInv, AddLine
  PROVE  /\ mounts' = mounts /\ formatted' = formatted
         /\ \/ fstab' = fstab
            \/ \E line \in Line(Pending \cup {0}) :
                 /\ fstab' = Append(fstab, line)
                 /\ line.what \in Pending /\ line.what # 0
                 /\ line.path = Mount(line.what)
  <1>1. script.disk \in Pending /\ form \in Forms
    BY DEF AddLine, TypeInv, WorkInv, ControlOK
  <1>2. Mount(script.disk) \in Seq(STRING) /\ script.disk # 0
    BY <1>1, DiskMount, PendingArePositions
  <1> DEFINE line == [what |-> script.disk, path |-> Mount(script.disk)]
  <1>3. /\ line \in Line(Pending \cup {0}) /\ line.what = script.disk
        /\ line.path = Mount(script.disk)
    BY <1>1, <1>2 DEF Line
  <1>4. /\ mounts' = mounts /\ formatted' = formatted
        /\ fstab' = fstab \/ fstab' = Append(fstab, line)
    BY DEF AddLine
  <1> HIDE DEF line
  <1> QED
    BY <1>1, <1>2, <1>3, <1>4

(* The fstab cloud-init writes back has only lines of the image's.          *)
LEMMA WrittenBack ==
  ASSUME TypeInv, StorageInv, Waited, pc # "failed", CloudInitWritesFstab
  PROVE  /\ BeforeDisks
         /\ \A k \in DOMAIN fstab : fstab[k].what = 0
         /\ \A k \in DOMAIN fstab : k \in DOMAIN fstab' /\ fstab'[k] = fstab[k]
         /\ \A k \in DOMAIN fstab' : fstab'[k].what = 0 /\ ImageLine(fstab'[k])
  <1>1. cloudinit = "mounts" /\ fstab' = ciFstab \o image.own
    BY DEF CloudInitWritesFstab
  <1>2. LinesInv /\ FirstBootInv
    BY DEF StorageInv
  <1>3. BeforeDisks
    BY <1>1, <1>2 DEF FirstBootInv, FirstBoot, BeforeDisks, TypeInv, ControlOK, Waits
  <1>4. ciFstab = fstab /\ \A k \in DOMAIN fstab : fstab[k].what = 0
    BY <1>1, <1>2, <1>3 DEF FirstBootInv
  <1>5. \A k \in DOMAIN fstab : ImageLine(fstab[k])
    BY <1>2, <1>4 DEF LinesInv
  <1>6. /\ fstab \in Lines /\ image.own \in Lines
        /\ \A k \in DOMAIN image.own : image.own[k].what = 0 /\ ImageLine(image.own[k])
    BY ImageLines, ImageLinesAre DEF TypeInv, GuestOK, ControlOK
  <1>7. Joined(fstab', fstab, image.own)
    BY <1>1, <1>4, <1>6, JoinedLines DEF Lines
  <1>8. /\ \A k \in DOMAIN fstab : k \in DOMAIN fstab' /\ fstab'[k] = fstab[k]
        /\ \A k \in DOMAIN fstab' : k \notin DOMAIN fstab =>
             \E l \in DOMAIN image.own : fstab'[k] = image.own[l]
    BY <1>7 DEF Joined
  <1>9. ASSUME NEW k \in DOMAIN fstab'
        PROVE  fstab'[k].what = 0 /\ ImageLine(fstab'[k])
    BY <1>4, <1>5, <1>6, <1>8
  <1> QED
    BY <1>3, <1>4, <1>8, <1>9

LEMMA LinesStep ==
  ASSUME TypeInv, StorageInv, Waited, pc # "failed", [Next]_vars
  PROVE  LinesInv'
  <1>1. LinesInv /\ fstab \in Lines
    BY DEF StorageInv, TypeInv, GuestOK
  <1>2. image' = image /\ (\A i : Mount(i)' = Mount(i))
    BY NextFrame
  <1>3. CASE fstab' = fstab
    BY <1>1, <1>2, <1>3 DEF LinesInv, ImageFirst, ImageLine
  <1>4. CASE AddLine
    <2>1. ASSUME NEW line \in Line(Pending \cup {0}), fstab' = Append(fstab, line),
                 line.what # 0, line.path = Mount(line.what)
          PROVE  LinesInv'
      <3>1. /\ \A k \in DOMAIN fstab : k \in DOMAIN fstab' /\ fstab'[k] = fstab[k]
            /\ \A k \in DOMAIN fstab' : k \notin DOMAIN fstab =>
                 k = Len(fstab) + 1 /\ fstab'[k] = line
        BY <1>1, <2>1, AppendedLines DEF Lines
      <3>2. ImageFirst(fstab')
        <4> SUFFICES ASSUME NEW k \in DOMAIN fstab', NEW l \in DOMAIN fstab',
                            k < l, fstab'[k].what # 0
                     PROVE  fstab'[l].what # 0
          BY DEF ImageFirst
        <4>1. CASE l \in DOMAIN fstab
          <5>1. k \in DOMAIN fstab
            BY <1>1, <3>1, <4>1 DEF Lines
          <5> QED
            BY <1>1, <3>1, <4>1, <5>1 DEF LinesInv, ImageFirst
        <4>2. CASE l \notin DOMAIN fstab
          BY <2>1, <3>1, <4>2
        <4> QED
          BY <4>1, <4>2
      <3>3. ASSUME NEW k \in DOMAIN fstab'
            PROVE  IF fstab'[k].what = 0 THEN ImageLine(fstab'[k])
                   ELSE fstab'[k].path = Mount(fstab'[k].what)
        BY <1>1, <2>1, <3>1 DEF LinesInv
      <3> QED
        BY <1>2, <3>2, <3>3 DEF LinesInv, ImageFirst, ImageLine
    <2> QED
      BY <1>3, <1>4, <2>1, AddedLine
  <1>5. CASE CloudInitWritesFstab
    BY <1>2, <1>5, WrittenBack DEF LinesInv, ImageFirst, ImageLine
  <1>6. CASE MountDisks \/ Reboot
    BY <1>3, <1>6 DEF MountDisks, Reboot
  <1> QED
    BY <1>3, <1>4, <1>5, <1>6, StorageSteps

(* What mount -a leaves, when what was mounted has its line.                *)
Lined(mounted, tab) ==
  \A k \in DOMAIN mounted :
    /\ Present(mounted[k].what)
    /\ \E l \in DOMAIN tab : mounted[k] = Placed(tab[l])

Mounted(new, tab) ==
  \A l \in DOMAIN tab :
    Present(tab[l].what) => \E k \in DOMAIN new : new[k] = Placed(tab[l])

LEMMA MountedLines ==
  ASSUME NEW W, NEW old \in Seq(Line(W)), NEW tab \in Seq(Line(W)),
         ImageFirst(old), ImageFirst(tab), ImageReady(old, tab), Lined(old, tab),
         NEW new, new = MountAll(old, tab)
  PROVE  /\ ImageFirst(new)
         /\ Lined(new, tab)
         /\ \A k \in DOMAIN old : k \in DOMAIN new /\ new[k] = old[k]
         /\ Mounted(new, tab)
  <1>1. UpTo(new, old, tab, Len(tab)) /\ DOMAIN tab = 1..Len(tab)
    BY MountAllLines
  <1>2. ImageFirst(new)
    BY <1>1 DEF UpTo
  <1>3. \A k \in DOMAIN old : k \in DOMAIN new /\ new[k] = old[k]
    BY <1>1 DEF UpTo
  <1>4. ASSUME NEW k \in DOMAIN new
        PROVE  /\ Present(new[k].what)
               /\ \E l \in DOMAIN tab : new[k] = Placed(tab[l])
    <2>1. CASE k \in DOMAIN old
      BY <1>3, <2>1 DEF Lined
    <2>2. CASE k \notin DOMAIN old
      <3>1. PICK l \in DOMAIN tab : new[k] = Placed(tab[l]) /\ Present(tab[l].what)
        BY <1>1, <2>2 DEF UpTo
      <3>2. tab[l] \in Line(W)
        OBVIOUS
      <3>3. new[k].what = tab[l].what
        BY <3>1, <3>2, PlacedLine
      <3> QED
        BY <3>1, <3>3
    <2> QED
      BY <2>1, <2>2
  <1>5. Mounted(new, tab)
    BY <1>1 DEF UpTo, Mounted
  <1> QED
    BY <1>2, <1>3, <1>4, <1>5 DEF Lined

(* Whatever happens, what is mounted stays mounted, or is mounted again     *)
(* after the reboot.                                                        *)
MountsStay ==
  \A k \in DOMAIN mounts : \E l \in DOMAIN mounts' : mounts'[l] = mounts[k]

LEMMA MountsStep ==
  ASSUME TypeInv, StorageInv, Waited, pc # "failed", [Next]_vars
  PROVE  MountsInv' /\ MountsStay
  <1>1. MountsInv /\ LinesInv /\ LinesInv' /\ fstab \in Lines /\ mounts \in Lines
        /\ ImageFirst(fstab) /\ ImageFirst(mounts)
    BY LinesStep DEF StorageInv, TypeInv, GuestOK, LinesInv, MountsInv
  <1>2. fstab' \in Lines
    <2>1. GuestOK'
      BY GuestTypes
    <2>2. Lines' = Lines
      BY NextFrame DEF Lines, Line
    <2> QED
      BY <2>1, <2>2 DEF GuestOK
  <1>3. /\ Lined(mounts, fstab)
        /\ \A l \in DOMAIN fstab : fstab[l].what = 0 =>
             \E k \in DOMAIN mounts : mounts[k] = Placed(fstab[l])
    BY <1>1 DEF MountsInv, Lined
  <1>4. form' = form
    BY NextFrame
  <1>5. ASSUME formatted \subseteq formatted', NEW w, Present(w)
        PROVE  Present(w)'
    BY <1>4, <1>5 DEF Present
  <1>6. CASE UNCHANGED <<fstab, mounts>> /\ formatted \subseteq formatted'
    BY <1>1, <1>5, <1>6 DEF MountsInv, MountsStay, ImageFirst, Placed
  <1>7. CASE AddLine
    <2>1. UNCHANGED <<mounts, formatted>>
      BY <1>7, AddedLine
    <2>2. ASSUME NEW line \in Line(Pending \cup {0}), fstab' = Append(fstab, line),
                 line.what # 0
          PROVE  MountsInv'
      <3>1. /\ \A k \in DOMAIN fstab : k \in DOMAIN fstab' /\ fstab'[k] = fstab[k]
            /\ \A k \in DOMAIN fstab' : k \notin DOMAIN fstab =>
                 k = Len(fstab) + 1 /\ fstab'[k] = line
        BY <1>1, <2>2, AppendedLines DEF Lines
      <3>2. \A k \in DOMAIN mounts :
              /\ Present(mounts[k].what)'
              /\ \E l \in DOMAIN fstab' : mounts[k] = Placed(fstab'[l])
        BY <1>3, <1>5, <2>1, <3>1 DEF Lined
      <3>3. \A l \in DOMAIN fstab' : fstab'[l].what = 0 =>
              \E k \in DOMAIN mounts : mounts[k] = Placed(fstab'[l])
        BY <1>3, <2>2, <3>1
      <3> QED
        BY <1>1, <2>1, <3>2, <3>3 DEF MountsInv, ImageFirst, Placed
    <2> QED
      BY <1>6, <1>7, <2>1, <2>2, AddedLine DEF MountsStay
  <1>8. ASSUME NEW old \in Lines, NEW tab \in Lines, tab = fstab', formatted' = formatted,
               mounts' = MountAll(old, tab), ImageFirst(old), Lined(old, tab),
               ImageReady(old, tab)
        PROVE  /\ MountsInv'
               /\ \A k \in DOMAIN old : k \in DOMAIN mounts' /\ mounts'[k] = old[k]
               /\ Mounted(mounts', tab)
    <2>1. ImageFirst(tab)
      BY <1>1, <1>8 DEF LinesInv, ImageFirst
    <2>2. ImageFirst(mounts') /\ Lined(mounts', tab)
      BY <1>8, <2>1, MountedLines DEF Lines
    <2>3. \A k \in DOMAIN old : k \in DOMAIN mounts' /\ mounts'[k] = old[k]
      BY <1>8, <2>1, MountedLines DEF Lines
    <2>4. Mounted(mounts', tab)
      BY <1>8, <2>1, MountedLines DEF Lines
    <2>5. MountsInv'
      BY <1>5, <1>8, <2>2, <2>4
      DEF MountsInv, Lined, Mounted, ImageFirst, Placed, Present
    <2> QED
      BY <2>3, <2>4, <2>5
  <1>9. CASE MountDisks
    <2>1. mounts' = MountAll(mounts, fstab) /\ fstab' = fstab /\ formatted' = formatted
      BY <1>9 DEF MountDisks
    <2>2. ImageReady(mounts, fstab)
      BY <1>3 DEF ImageReady
    <2> QED
      BY <1>1, <1>3, <1>8, <2>1, <2>2 DEF MountsStay
  <1>10. CASE CloudInitWritesFstab
    <2>1. mounts' = MountAll(mounts, fstab') /\ formatted' = formatted
      BY <1>10 DEF CloudInitWritesFstab
    <2>2. /\ \A k \in DOMAIN fstab : fstab[k].what = 0
          /\ \A k \in DOMAIN fstab : k \in DOMAIN fstab' /\ fstab'[k] = fstab[k]
      BY <1>10, WrittenBack
    <2>3. Lined(mounts, fstab')
      BY <1>3, <2>2 DEF Lined
    <2>4. ASSUME NEW k \in DOMAIN mounts
          PROVE  mounts[k].what = 0
      <3>1. PICK l \in DOMAIN fstab : mounts[k] = Placed(fstab[l])
        BY <1>3 DEF Lined
      <3> QED
        BY <2>2, <3>1, LinePlaced
    <2>5. ImageReady(mounts, fstab')
      BY <2>4 DEF ImageReady
    <2> QED
      BY <1>1, <1>2, <1>8, <2>1, <2>3, <2>5 DEF MountsStay
  <1>11. CASE Reboot
    <2>1. mounts' = MountAll(<<>>, fstab) /\ fstab' = fstab /\ formatted' = formatted
      BY <1>11 DEF Reboot
    <2>2. ImageFirst(<<>>) /\ Lined(<<>>, fstab) /\ ImageReady(<<>>, fstab)
      BY DEF ImageFirst, Lined, ImageReady
    <2>3. MountsInv' /\ Mounted(mounts', fstab)
      BY <1>1, <1>8, <2>1, <2>2, NoLines
    <2>4. ASSUME NEW k \in DOMAIN mounts
          PROVE  \E l \in DOMAIN mounts' : mounts'[l] = mounts[k]
      <3>1. PICK l \in DOMAIN fstab : mounts[k] = Placed(fstab[l])
        BY <1>3 DEF Lined
      <3>2. Present(fstab[l].what)
        BY <1>3, <3>1, LinePlaced DEF Lined
      <3> QED
        BY <2>3, <3>1, <3>2 DEF Mounted
    <2> QED
      BY <2>3, <2>4 DEF MountsStay
  <1> QED
    BY <1>6, <1>7, <1>9, <1>10, <1>11, StorageSteps

LEMMA FirstBootStep ==
  ASSUME TypeInv, StorageInv, Waited, Waited', pc # "failed", pc' # "failed", IInv',
         [Next]_vars
  PROVE  FirstBootInv'
  <1>1. FirstBootInv
    BY DEF StorageInv
  <1>2. form' = form /\ image' = image
    BY NextFrame
  <1>3. BeforeDisks' => BeforeDisks
    BY DEF BeforeDisks, Next, Driver, StartVM, GotAddress, AddressTimesOut,
       JobReturns, JobTimesOut, AfterCloudInit, Enter, Deadline, GetURL, Goroutine,
       StartScript, SessionLost, ScriptReturns, Script, CloudInitStatus,
       CloudInitStatusSudo, FormatDisk, AddLine, MountDisks, VerifyDisks, Guest,
       Boots, NetworkChanges, CloudInitReadsFstab, CloudInitWritesFstab,
       CloudInitEnds, Reboot, driver, vars
  <1>4. AddLine => ~BeforeDisks
    BY LineInTheWait DEF AddLine, BeforeDisks
  <1>5. BeforeDisks' => \A k \in DOMAIN fstab' : fstab'[k].what = 0
    <2>1. BeforeDisks' => fstab' = fstab \/ CloudInitWritesFstab
      BY <1>3, <1>4, StorageSteps DEF MountDisks, Reboot
    <2> QED
      BY <1>1, <1>3, <2>1, WrittenBack DEF FirstBootInv
  <1>6. ASSUME BeforeDisks', cloudinit' = "mounts"
        PROVE  ciFstab' = fstab'
    <2>1. /\ BeforeDisks /\ ~AddLine
          /\ fstab' = fstab \/ CloudInitWritesFstab
      BY <1>3, <1>4, <1>6, StorageSteps DEF MountDisks, Reboot
    <2>2. fstab' = fstab
      BY <1>6, <2>1 DEF CloudInitWritesFstab
    <2>3. \/ CloudInitReadsFstab
          \/ UNCHANGED <<cloudinit, ciFstab>>
      BY <1>6
      DEF Next, Driver, StartVM, GotAddress, AddressTimesOut, JobReturns,
          JobTimesOut, Deadline, GetURL, Goroutine, StartScript, SessionLost,
          ScriptReturns, Script, CloudInitStatus, CloudInitStatusSudo, FormatDisk,
          AddLine, MountDisks, VerifyDisks, Guest, Boots, NetworkChanges,
          CloudInitWritesFstab, CloudInitEnds, Reboot, guest, vars
    <2> QED
      BY <1>1, <1>6, <2>1, <2>2, <2>3 DEF CloudInitReadsFstab, FirstBootInv
  <1>7. image.cloudinit = "absent" => cloudinit' = "absent"
    <2>1. Guest \/ cloudinit' = cloudinit
      BY DEF Next, Driver, StartVM, GotAddress, AddressTimesOut, JobReturns,
         JobTimesOut, Deadline, GetURL, Goroutine, StartScript, SessionLost,
         ScriptReturns, Script, CloudInitStatus, CloudInitStatusSudo, FormatDisk,
         AddLine, MountDisks, VerifyDisks, guest, vars
    <2>2. cloudinit = "absent" /\ Guest => cloudinit' = "absent"
      BY DEF Guest, Boots, NetworkChanges, CloudInitReadsFstab,
         CloudInitWritesFstab, CloudInitEnds, Reboot, FirstBoot
    <2> QED
      BY <1>1, <2>1, <2>2 DEF FirstBootInv
  <1>8. pc' \in {"disks", "done"} => cloudinit' \notin FirstBoot
    <2>1. CASE form.cloudInitTimeout /\ "cloudinit" \notin unheard'
      BY <1>2, <2>1 DEF IInv, Verdicts, BootOver
    <2>2. CASE image.cloudinit = "absent"
      BY <1>7, <2>2 DEF FirstBoot
    <2> QED
      BY <1>2, <2>1, <2>2 DEF Waited
  <1> QED
    BY <1>2, <1>5, <1>6, <1>7, <1>8 DEF FirstBootInv, BeforeDisks, FirstBoot

LEMMA NothingPending ==
  ASSUME form.disks = <<>>
  PROVE  Pending = {}
  BY DEF Pending

LEMMA VerifiedStep ==
  ASSUME TypeInv, StorageInv, Waited, pc # "failed", pc' # "failed", [Next]_vars
  PROVE  VerifiedInv'
  <1>1. VerifiedInv
    BY DEF StorageInv
  <1>2. /\ Pending' = Pending /\ (\A i : Mount(i)' = Mount(i))
        /\ (DataDisksAccepted' <=> DataDisksAccepted) /\ unheard \subseteq unheard'
    BY NextFrame
  <1>3. AllMounted => AllMounted'
    <2> SUFFICES ASSUME AllMounted, NEW i \in Pending
                 PROVE  \E l \in DOMAIN mounts' : mounts'[l].path = Place(Mount(i))
      BY <1>2 DEF AllMounted, IsMounted, Place
    <2>1. PICK k \in DOMAIN mounts : mounts[k].path = Place(Mount(i))
      BY DEF AllMounted, IsMounted
    <2> QED
      BY <2>1, MountsStep DEF MountsStay
  <1>4. pc' # "check" => DataDisksAccepted
    <2>1. pc' = pc \/ Driver
      BY DEF Next, Deadline, GetURL, Goroutine, StartScript, SessionLost,
         ScriptReturns, Script, CloudInitStatus, CloudInitStatusSudo, FormatDisk,
         AddLine, MountDisks, VerifyDisks, Guest, Boots, NetworkChanges,
         CloudInitReadsFstab, CloudInitWritesFstab, CloudInitEnds, Reboot, driver, vars
    <2>2. Driver => pc # "check" \/ DataDisksAccepted
      BY DEF Driver, StartVM, GotAddress, AddressTimesOut, JobReturns, JobTimesOut,
         Enter, Sessions
    <2> QED
      BY <1>1, <2>1, <2>2 DEF VerifiedInv
  <1>5. \/ job' = job
        \/ Driver /\ job'.at = "ssh"
        \/ StartScript \/ SessionLost \/ ScriptReturns
    <2>1. ASSUME NEW wait, Enter(wait)
          PROVE  job' = job \/ job'.at = "ssh"
      BY <2>1 DEF Enter
    <2>2. Driver => \E wait : Enter(wait)
      BY DEF Driver, StartVM, GotAddress, AddressTimesOut, JobReturns, JobTimesOut
    <2>3. job' = job \/ Driver \/ StartScript \/ SessionLost \/ ScriptReturns
      BY DEF Next, Deadline, GetURL, Goroutine, Script, CloudInitStatus,
         CloudInitStatusSudo, FormatDisk, AddLine, MountDisks, VerifyDisks, Guest,
         Boots, NetworkChanges, CloudInitReadsFstab, CloudInitWritesFstab,
         CloudInitEnds, Reboot, vars
    <2> QED
      BY <2>1, <2>2, <2>3
  <1>6. job \in Jobs
    BY DEF TypeInv, ControlOK
  <1>7. StartScript =>
          /\ job'.at = "running" /\ job'.for = job.for
          /\ script'.step # "ok" \/ job.for \in unheard'
    <2>1. StartScript => job'.at = "running" /\ job'.for = job.for
      BY <1>6 DEF StartScript, Jobs
    <2>2. ASSUME StartScript
          PROVE  script'.step = FirstStep \/ job.for \in unheard'
      <3>1. CASE script' = [step |-> FirstStep, code |-> "",
                            disk |-> IF job.for = "disks" THEN Min(Pending) ELSE 0]
        BY <3>1
      <3>2. CASE unheard' = unheard \cup {job.for}
        BY <3>2
      <3> QED
        BY <2>2, <3>1, <3>2 DEF StartScript
    <2>3. FirstStep # "ok"
      BY DEF FirstStep
    <2> QED
      BY <2>1, <2>2, <2>3
  <1>8. SessionLost => job'.at = "error"
    BY <1>6 DEF SessionLost, Jobs
  <1>9. ScriptReturns =>
          /\ job.at = "running" /\ job'.for = job.for /\ job'.at # "running"
          /\ job'.at = "ok" => script.step = "ok"
    BY <1>6 DEF ScriptReturns, Jobs
  <1>10. ASSUME job'.for = "disks", job'.at = "running", script'.step = "ok",
                "disks" \notin unheard'
         PROVE  AllMounted'
    <2>1. job' = job
      BY <1>5, <1>7, <1>8, <1>9, <1>10
    <2>2. \/ script' = script \/ script' = NoScript
          \/ Script
      BY <2>1, <1>7, <1>9, <1>10
      DEF Next, Driver, StartVM, GotAddress, AddressTimesOut, JobReturns,
          JobTimesOut, Deadline, GetURL, Goroutine, SessionLost, ScriptReturns, Guest,
          Boots, NetworkChanges, CloudInitReadsFstab, CloudInitWritesFstab,
          CloudInitEnds, Reboot, vars
    <2>3. CASE script' = script
      BY <1>1, <1>2, <1>3, <1>10, <2>1, <2>3 DEF VerifiedInv
    <2>4. CASE Script
      <3>1. script.step \in DiskSteps /\ script = [step |-> script.step,
                   disk |-> script.disk, code |-> script.code]
        BY <1>10, <2>1 DEF TypeInv, WorkInv, ControlOK
      <3>2. VerifyDisks
        BY <1>10, <2>4, <3>1
        DEF Script, CloudInitStatus, CloudInitStatusSudo, FormatDisk, AddLine,
            MountDisks, DiskSteps
      <3>3. AllMounted
        BY <1>10, <3>1, <3>2 DEF VerifyDisks, AllMounted
      <3> QED
        BY <1>3, <3>3
    <2>5. script' # NoScript
      <3>1. NoScript.step # "ok"
        BY DEF NoScript
      <3> QED
        BY <1>10, <3>1
    <2> QED
      BY <2>2, <2>3, <2>4, <2>5
  <1>11. ASSUME job'.for = "disks", job'.at = "ok", "disks" \notin unheard'
         PROVE  AllMounted'
    <2>1. job' = job \/ ScriptReturns
      BY <1>5, <1>7, <1>8, <1>11
    <2> QED
      BY <1>1, <1>2, <1>3, <1>9, <1>11, <2>1 DEF VerifiedInv
  <1>12. ASSUME pc' = "done", "disks" \notin unheard'
         PROVE  AllMounted'
    <2>1. \/ pc = "done" \/ Pending = {}
          \/ JobReturns /\ pc = "disks" /\ job.at = "ok"
      BY <1>12, NothingPending
      DEF Next, Driver, StartVM, AfterCheck, GotAddress, AfterAddress, AfterCloudInit,
          AddressTimesOut, JobReturns, JobTimesOut, Enter, Sessions, Deadline, GetURL,
          Goroutine, StartScript, SessionLost, ScriptReturns, Script, CloudInitStatus,
          CloudInitStatusSudo, FormatDisk, AddLine, MountDisks, VerifyDisks, Guest,
          Boots, NetworkChanges, CloudInitReadsFstab, CloudInitWritesFstab,
          CloudInitEnds, Reboot, driver, vars
    <2>2. CASE pc = "done"
      BY <1>1, <1>2, <1>3, <1>12, <2>2 DEF VerifiedInv
    <2>3. CASE Pending = {}
      BY <1>2, <2>3 DEF AllMounted
    <2>4. CASE JobReturns /\ pc = "disks" /\ job.at = "ok"
      BY <1>1, <1>2, <1>3, <1>12, <2>4 DEF VerifiedInv, JobReturns
    <2> QED
      BY <2>1, <2>2, <2>3, <2>4
  <1> QED
    BY <1>2, <1>4, <1>10, <1>11, <1>12 DEF VerifiedInv

(* The image's mounts are there from the start.                             *)
LEMMA InitStorage ==
  Init => StorageInv
  <1> SUFFICES ASSUME Init PROVE StorageInv
    OBVIOUS
  <1>1. image \in Images /\ fstab = image.fstab /\ mounts = MountAll(<<>>, fstab)
    BY DEF Init
  <1>2. fstab \in Lines
    BY <1>1, ImageLines
  <1>3. \A k \in DOMAIN fstab : fstab[k].what = 0 /\ ImageLine(fstab[k])
    BY <1>1, ImageLinesAre
  <1>4. LinesInv
    BY <1>3 DEF LinesInv, ImageFirst
  <1>5. ImageFirst(<<>>) /\ Lined(<<>>, fstab) /\ ImageReady(<<>>, fstab)
    BY DEF ImageFirst, Lined, ImageReady
  <1>6. ImageFirst(mounts) /\ Lined(mounts, fstab) /\ Mounted(mounts, fstab)
    <2>1. <<>> \in Lines /\ ImageFirst(fstab)
      BY <1>4, NoLines DEF LinesInv
    <2>2. ImageFirst(mounts)
      BY <1>1, <1>2, <1>5, <2>1, MountedLines DEF Lines
    <2>3. Lined(mounts, fstab)
      BY <1>1, <1>2, <1>5, <2>1, MountedLines DEF Lines
    <2>4. Mounted(mounts, fstab)
      BY <1>1, <1>2, <1>5, <2>1, MountedLines DEF Lines
    <2> QED
      BY <2>2, <2>3, <2>4
  <1>7. MountsInv
    BY <1>6 DEF MountsInv, Lined, Mounted, Present
  <1>8. FirstBootInv
    BY <1>1, <1>3, ImageLines DEF Init, FirstBootInv, FirstBoot
  <1>9. VerifiedInv
    BY DEF Init, VerifiedInv, NoJob
  <1> QED
    BY <1>4, <1>7, <1>8, <1>9 DEF StorageInv

LEMMA StorageHolds ==
  Spec => []StorageInv
  <1>1. TypeInv /\ IInv' /\ StorageInv /\ [Next]_vars => StorageInv'
    <2> SUFFICES ASSUME TypeInv, IInv', StorageInv, [Next]_vars,
                        Waited', pc' # "failed"
                 PROVE  (LinesInv /\ MountsInv /\ FirstBootInv /\ VerifiedInv)'
      BY DEF StorageInv
    <2>1. Waited /\ pc # "failed"
      BY NextFrame, NotFailedBefore
    <2> QED
      BY <2>1, LinesStep, MountsStep, FirstBootStep, VerifiedStep
  <1> QED
    BY InitStorage, Typed, Inductive, <1>1, PTL DEF Spec

-----------------------------------------------------------------------------
(* No disk's path has a segment ".". The code does not see to it: it takes  *)
(* /data/./a and /data/a for two places (normalizeMount), and the run       *)
(* guest_dot shows what becomes of the data then.                           *)
NoDots ==
  \A f \in Forms : \A i \in DOMAIN f.disks :
    \A j \in DOMAIN f.disks[i].mount : f.disks[i].mount[j] # "."

(* Without it, a disk is mounted at the path the driver compares.           *)
LEMMA PlaceOfDisk ==
  ASSUME NoDots, form \in Forms, NEW i \in Pending
  PROVE  Place(Mount(i)) = Mount(i)
  <1> DEFINE asked == form.disks[i].mount
  <1>1. asked \in Seq(STRING) /\ \A j \in DOMAIN asked : asked[j] # "."
    <2>1. form.disks \in Seq(Disk) /\ i \in DOMAIN form.disks
      BY GuestSetupAssumption DEF Form, Pending
    <2>2. form.disks[i] \in Disk
      BY <2>1
    <2> QED
      BY <2>1, <2>2 DEF Disk, NoDots
  <1>2. Mount(i) = Without(asked, {""})
    BY DEF Mount, normalizeMount
  <1> HIDE DEF asked
  <1>3. /\ Mount(i) \in Seq(STRING)
        /\ \A j \in DOMAIN Mount(i) : Mount(i)[j] \notin {""}
        /\ \A j \in DOMAIN Mount(i) : \E l \in DOMAIN asked : Mount(i)[j] = asked[l]
    <2> DEFINE path == Without(asked, {""})
    <2>1. path \in Seq(STRING)
      BY <1>1, WithoutSegments
    <2>2. \A j \in DOMAIN path : path[j] \notin {""}
      BY <1>1, WithoutSegments
    <2>3. \A j \in DOMAIN path : \E l \in DOMAIN asked : path[j] = asked[l]
      BY <1>1, WithoutSegments
    <2> HIDE DEF path
    <2> QED
      BY <1>2, <2>1, <2>2, <2>3 DEF path
  <1>4. \A j \in DOMAIN Mount(i) : Mount(i)[j] \notin {"", "."}
    BY <1>1, <1>3
  <1> QED
    BY <1>3, <1>4, WithoutSegments DEF Place

LEMMA PrefixOfItself ==
  ASSUME NEW path \in Seq(STRING)
  PROVE  IsPrefix(path, path)
  BY DEF IsPrefix

(* The latest of some mounts.                                               *)
LEMMA MaxIsMember ==
  ASSUME NEW n \in Nat, NEW S \in SUBSET (1..n), S # {}
  PROVE  Max(S) \in S /\ \A y \in S : y <= Max(S)
  <1> DEFINE left == {n - x : x \in S}
  <1>1. left \in SUBSET Nat /\ left # {}
    <2>1. \A x \in S : n - x \in Nat
      OBVIOUS
    <2>2. PICK x \in S : TRUE
      OBVIOUS
    <2>3. n - x \in left
      OBVIOUS
    <2> QED
      BY <2>1, <2>3
  <1>2. PICK m \in left : \A y \in left : m <= y
    <2> HIDE DEF left
    <2> QED
      BY <1>1, MinIsMember
  <1>3. PICK x \in S : m = n - x
    OBVIOUS
  <1>4. ASSUME NEW y \in S
        PROVE  x >= y
    <2>1. n - y \in left
      OBVIOUS
    <2> QED
      BY <1>2, <1>3, <2>1
  <1>5. Max(S) \in S /\ \A y \in S : Max(S) >= y
    BY <1>4 DEF Max
  <1> QED
    BY <1>5

(* What is mounted on the way to a disk's path is that disk, or the image's *)
(* - which is below, unless the image has a mount at that very place.       *)
LEMMA StoredOnItself ==
  ASSUME NoDots, TypeInv, LinesInv, MountsInv, AllMounted, DataDisksAccepted,
         NEW i \in Pending
  PROVE  StoredOn(Mount(i)) \in {i} \cup (IF Claimed(Mount(i)) THEN {0} ELSE {})
  <1> DEFINE p == Mount(i)
             over == {k \in DOMAIN mounts : IsPrefix(mounts[k].path, Place(p))}
  <1>0. form \in Forms /\ mounts \in Lines /\ Pending \in SUBSET (Nat \ {0})
    BY PendingArePositions DEF TypeInv, ControlOK, GuestOK
  <1>1. p \in Seq(STRING) /\ Place(p) = p
    BY <1>0, DiskMount, PlaceOfDisk
  <1>2. PICK k0 \in DOMAIN mounts : mounts[k0].path = Place(p)
    BY DEF AllMounted, IsMounted
  <1>3. k0 \in over
    BY <1>1, <1>2, PrefixOfItself
  <1>4. over \in SUBSET (1..Len(mounts)) /\ Len(mounts) \in Nat
    BY <1>0 DEF Lines
  <1> DEFINE m == Max(over)
  <1>5. m \in over /\ k0 <= m
    <2> HIDE DEF over
    <2> QED
      BY <1>3, <1>4, MaxIsMember
  <1>6. StoredOn(p) = mounts[m].what
    BY <1>3 DEF StoredOn
  <1>7. ASSUME NEW k \in DOMAIN mounts
        PROVE  /\ mounts[k].what \in Pending \cup {0}
               /\ mounts[k].what # 0 => mounts[k].path = Mount(mounts[k].what)
               /\ mounts[k].what = 0 =>
                    \E line \in ToSet(image.fstab \o image.own) :
                      mounts[k].path = Place(line.path)
    <2>1. PICK l \in DOMAIN fstab : mounts[k] = Placed(fstab[l])
      BY DEF MountsInv
    <2>2. /\ fstab[l] \in Line(Pending \cup {0})
          /\ mounts[k].what = fstab[l].what
          /\ mounts[k].path = Place(fstab[l].path)
      BY <2>1, LinePlaced
    <2>3. mounts[k].what \in Pending \cup {0}
      BY <2>2 DEF Line
    <2>4. mounts[k].what # 0 => mounts[k].path = Mount(mounts[k].what)
      BY <1>0, <2>2, <2>3, PlaceOfDisk DEF LinesInv
    <2>5. mounts[k].what = 0 => ImageLine(fstab[l])
      BY <2>2 DEF LinesInv
    <2> QED
      BY <2>2, <2>3, <2>4, <2>5 DEF ImageLine
  <1>8. ASSUME NEW j \in Pending, j # i
        PROVE  Mount(j) # p /\ ~IsPrefix(Mount(j), p)
    BY <1>8 DEF DataDisksAccepted, MountsApart, IsStrictPrefix
  <1>9. CASE mounts[m].what # 0
    <2>1. mounts[m].what \in Pending /\ IsPrefix(Mount(mounts[m].what), p)
      BY <1>1, <1>5, <1>7, <1>9
    <2> QED
      BY <1>6, <1>8, <2>1
  <1>10. CASE mounts[m].what = 0
    <2>1. mounts[k0].what = 0
      <3>1. k0 \in Nat /\ m \in Nat /\ m \in DOMAIN mounts
        BY <1>3, <1>4, <1>5
      <3> QED
        BY <1>5, <1>10, <3>1 DEF MountsInv, ImageFirst
    <2>2. Claimed(p)
      BY <1>2, <1>7, <2>1 DEF Claimed
    <2> QED
      BY <1>6, <1>10, <2>2
  <1> QED
    BY <1>9, <1>10

(* However the first boot, the script, lost sessions and reboots interleave *)
(* and whatever the image mounts: from the hand-over on, if cloud-init was  *)
(* waited for and both scripts ran, what is stored below a data disk's path *)
(* is stored on that disk, or on what the image has at that very place      *)
(* (setupGuestDisks, renderDiskSetupScript, checkDataDiskCollisions,        *)
(* normalizeMount). For paths without a segment ".", which the code takes   *)
(* for a place of its own.                                                  *)
THEOREM SpecStorageMounted ==
  ASSUME NoDots
  PROVE  Spec => []StorageMounted
  <1>1. TypeInv /\ StorageInv => StorageMounted
    BY StoredOnItself DEF StorageInv, VerifiedInv, StorageMounted
  <1> QED
    BY <1>1, Typed, StorageHolds, PTL
=============================================================================
