----------------------------- MODULE MCLifecycle -----------------------------
(* Lifecycle instantiated for TLC.                                          *)
EXTENDS Lifecycle, TLC

NoFlags == [m \in Machines |-> 0]
FirstID == [m \in Machines |-> LowestOf(IDs)]

Calls == {"resolve", "scan", "clone", "configure", "resize", "backup", "disks",
          "start", "guest", "register", "cleanup", "unregister", "state",
          "kill", "delete", "power"}

(* Failures a rollback can undo or the next attempt of Remove makes up for.  *)
Survivable == {"resolve", "scan", "clone", "configure", "disks", "start",
               "delete", "power"}

Symmetry == Permutations(Machines) \cup Permutations(Nodes)
=============================================================================
