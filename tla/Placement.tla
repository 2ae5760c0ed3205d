------------------------------ MODULE Placement ------------------------------
(***************************************************************************)
(* Which image a machine is cloned from, and onto which node               *)
(* (resolveTemplateVMID, cloneFromTemplate in pkg/driver/driver.go;        *)
(* FindTemplateByTags, nodeOf, ResolveNode, selectNode, CloneFromTemplate  *)
(* in pkg/proxmox/client.go). Each is a look at a cluster in which         *)
(* templates are built, tagged, moved and deleted and nodes come and go;   *)
(* one action is one look.                                                 *)
(*                                                                         *)
(* A template is its VMID: no id is used again for another image. Nodes    *)
(* are numbered in the order of their names.                               *)
(***************************************************************************)
EXTENDS Integers, FiniteSets

CONSTANTS
  Machines,     \* machines of a pool
  IDs,          \* VMIDs of templates and of VMs that may become one
  Nodes,        \* PVE nodes
  Tags,         \* tags as PVE has them
  Typed,        \* tags as somebody types them
  TagOf,        \* TagOf[t]: t trimmed and in lower case; Blank or Invalid
  Blank,        \* nothing was typed
  Invalid,      \* not a PVE tag
  Forms,        \* machine pool forms an operator may save
  Clusters,     \* guests there may be at first
  MaxFree,      \* the most memory a node can have free
  MaxAttempts,  \* vmidClaimAttempts
  MaxChanges    \* bound: changes of the cluster in a behaviour

VARIABLES
  guest,    \* guest[id]: the template or VM with that id
  node,     \* node[n]: is it online, and its memory less what is in use
  pc,       \* pc[m]: the look at the cluster m's Create takes next
  form,     \* form[m]: the fields m was created with
  vmid,     \* vmid[m]: d.TemplateVMID
  cnode,    \* cnode[m]: the client's node, 0 when not resolved
  source,   \* source[m]: templateNode of the running CloneFromTemplate
  tries,    \* tries[m]: clones tried
  made,     \* made[m]: the VM that was cloned, and where PVE put it
  saved,    \* saved[m]: d.Node in the record
  images,   \* history: what the form has identified since Create began
  changes   \* how much of MaxChanges is used up

cluster == <<guest, node, changes>>
vars == <<guest, node, pc, form, vmid, cnode, source, tries, made, saved,
          images, changes>>

NoGuest == [kind |-> "none", tags |-> {}, node |-> 0, shared |-> FALSE]
Guest == [kind : {"vm", "template"}, tags : SUBSET Tags, node : Nodes,
          shared : BOOLEAN]

NoVM == [image |-> 0, host |-> 0]

(* pve-template-vmid (0: unset), -tag, -tag-match; pve-node, -allowed-nodes *)
Form == [vmid : IDs \cup {0}, tags : SUBSET Typed,
         match : {"subset", "exact", "other"},
         node : Nodes \cup {0}, allowed : SUBSET Nodes]

ASSUME PlacementAssumption ==
  /\ IDs \subseteq Nat \ {0}
  /\ Nodes \subseteq Nat \ {0} /\ IsFiniteSet(Nodes)
  /\ IsFiniteSet(Tags) /\ IsFiniteSet(IDs)
  /\ TagOf \in [Typed -> Tags \cup {Blank, Invalid}]
  /\ Blank \notin Tags /\ Invalid \notin Tags
  /\ Forms \subseteq Form
  /\ Clusters \subseteq [IDs -> Guest \cup {NoGuest}]
  /\ {MaxFree, MaxChanges} \subseteq Nat /\ MaxAttempts \in Nat \ {0}

-----------------------------------------------------------------------------
(* PreCreateCheck, the parts about template and node; Create repeats the    *)
(* first of them.                                                           *)
normalizeTagList(typed) == {TagOf[t] : t \in typed} \ {Blank}

validateTemplateSelection(f) ==
  /\ (f.vmid = 0) # (f.tags = {})
  /\ f.tags # {} =>
       /\ Invalid \notin normalizeTagList(f.tags)
       /\ normalizeTagList(f.tags) # {}
       /\ f.match \in {"subset", "exact"}

Accepted(f) ==
  /\ validateTemplateSelection(f)
  /\ f.node = 0 \/ f.allowed = {}

(* FindTemplateByTags.                                                      *)
tagsMatch(have, want, match) ==
  /\ want \subseteq have
  /\ match = "exact" => Cardinality(have) = Cardinality(want)

MatchingTemplates(f) ==
  {id \in IDs : /\ guest[id].kind = "template"
                /\ tagsMatch(guest[id].tags, normalizeTagList(f.tags), f.match)}

(* Mutation of FoundTemplates: the lowest VMID of several.                  *)
FoundTemplatesLowest(f) ==
  {id \in MatchingTemplates(f) : \A k \in MatchingTemplates(f) : id <= k}

FoundTemplates(f) ==
  {id \in MatchingTemplates(f) : MatchingTemplates(f) = {id}}

(* selectNode. PVE may report more memory in use than there is.             *)
freeMem(n) == IF node[n].free < 0 THEN 0 ELSE node[n].free

Candidates(f) ==
  {n \in Nodes : node[n].online /\ (f.allowed # {} => n \in f.allowed)}

selectNode(f) ==
  {n \in Candidates(f) : \A k \in Candidates(f) :
     freeMem(k) < freeMem(n) \/ (freeMem(k) = freeMem(n) /\ n <= k)}

-----------------------------------------------------------------------------
(* What the form identifies, by the words of docs/flags.md, in a cluster    *)
(* with the guests g: the template with that VMID, or the only one that     *)
(* carries at least, respectively exactly, the tags.                        *)
Carries(f, g, id) ==
  LET want == {TagOf[t] : t \in f.tags} \cap Tags
  IN /\ g[id].kind = "template"
     /\ want \subseteq g[id].tags
     /\ f.match = "exact" => g[id].tags \subseteq want

Identified(f, g) ==
  IF f.vmid # 0 THEN {f.vmid}
  ELSE {id \in IDs : Carries(f, g, id)
                       /\ \A k \in IDs : Carries(f, g, k) => k = id}

NodeState == [online : BOOLEAN, free : -1..MaxFree]
PCs == {"idle", "resolve", "locate", "read", "choose", "clone", "done", "failed"}
Creating == {"resolve", "locate", "read", "choose", "clone"}

Init ==
  /\ guest \in Clusters
  /\ node = [n \in Nodes |-> [online |-> TRUE, free |-> 0]]
  /\ pc = [m \in Machines |-> "idle"]
  /\ form \in [Machines -> Forms]
  /\ vmid = [m \in Machines |-> form[m].vmid]
  /\ cnode = [m \in Machines |-> form[m].node]
  /\ source = [m \in Machines |-> 0]
  /\ tries = [m \in Machines |-> 0]
  /\ made = [m \in Machines |-> NoVM]
  /\ saved = [m \in Machines |-> form[m].node]
  /\ images = [m \in Machines |-> {}]
  /\ changes = 0

Goto(m, step) == pc' = [pc EXCEPT ![m] = step]

(* PreCreateCheck accepts the form and Create begins, or one of them        *)
(* refuses it.                                                              *)
BeginCreate(m) ==
  /\ pc[m] = "idle"
  /\ \/ /\ Accepted(form[m])
        /\ Goto(m, IF form[m].vmid = 0 THEN "resolve" ELSE "locate")
        /\ images' = [images EXCEPT ![m] = Identified(form[m], guest)]
     \/ ~Accepted(form[m]) /\ Goto(m, "failed") /\ UNCHANGED images
  /\ UNCHANGED <<form, vmid, cnode, source, tries, made, saved, cluster>>

(* resolveTemplateVMID: none or several is an error.                        *)
ResolveTemplate(m) ==
  /\ pc[m] = "resolve"
  /\ \/ \E id \in FoundTemplates(form[m]) :
          vmid' = [vmid EXCEPT ![m] = id] /\ Goto(m, "locate")
     \/ FoundTemplates(form[m]) = {} /\ Goto(m, "failed") /\ UNCHANGED vmid
  /\ UNCHANGED <<form, cnode, source, tries, made, saved, images, cluster>>

(* nodeOf, the first look of CloneFromTemplate.                             *)
FindTemplateNode(m) ==
  /\ pc[m] = "locate"
  /\ tries' = [tries EXCEPT ![m] = @ + 1]
  /\ \/ /\ guest[vmid[m]].kind # "none"
        /\ source' = [source EXCEPT ![m] = guest[vmid[m]].node]
        /\ Goto(m, "read")
     \/ guest[vmid[m]].kind = "none" /\ Goto(m, "failed") /\ UNCHANGED source
  /\ UNCHANGED <<form, vmid, cnode, made, saved, images, cluster>>

(* The template is read on the node it was found on.                        *)
OnSource(m) == node[source[m]].online /\ guest[vmid[m]].node = source[m]

ReadTemplate(m) ==
  /\ pc[m] = "read"
  /\ Goto(m, IF OnSource(m) THEN "choose" ELSE "failed")
  /\ UNCHANGED <<form, vmid, cnode, source, tries, made, saved, images, cluster>>

(* ResolveNode selects once; a retried clone keeps to the same node.        *)
ResolveNode(m) ==
  /\ pc[m] = "choose"
  /\ \/ cnode[m] # 0 /\ Goto(m, "clone") /\ UNCHANGED cnode
     \/ /\ cnode[m] = 0
        /\ \E n \in selectNode(form[m]) :
             cnode' = [cnode EXCEPT ![m] = n] /\ Goto(m, "clone")
     \/ /\ cnode[m] = 0
        /\ selectNode(form[m]) = {}
        /\ Goto(m, "failed")
        /\ UNCHANGED cnode
  /\ UNCHANGED <<form, vmid, source, tries, made, saved, images, cluster>>

(* Mutation of Target: the clone stays where its template is.               *)
TargetNone(m) == 0

(* The target parameter of the clone request, 0 when it has none: PVE then  *)
(* clones onto the source node.                                             *)
Target(m) == IF cnode[m] # source[m] THEN cnode[m] ELSE 0

Destination(m) == IF Target(m) # 0 THEN Target(m) ELSE source[m]

(* PVE clones what is on the source node, to another node only from shared  *)
(* storage.                                                                 *)
Clonable(m) ==
  /\ OnSource(m)
  /\ node[Destination(m)].online
  /\ Destination(m) # source[m] => guest[vmid[m]].shared

CloneLands(m) ==
  /\ pc[m] = "clone"
  /\ Clonable(m)
  /\ made' = [made EXCEPT ![m] = [image |-> vmid[m], host |-> Destination(m)]]
  /\ saved' = [saved EXCEPT ![m] = cnode[m]]
  /\ Goto(m, "done")
  /\ UNCHANGED <<form, vmid, cnode, source, tries, images, cluster>>

(* Mutation of CloneTaken: one attempt too many.                            *)
CloneTakenOnceMore(m) ==
  /\ pc[m] = "clone"
  /\ Goto(m, IF tries[m] <= MaxAttempts THEN "locate" ELSE "failed")
  /\ UNCHANGED <<form, vmid, cnode, source, tries, made, saved, images, cluster>>

(* The new VM's id is taken: with a VMID range CloneFromTemplate is called  *)
(* again from its first look on, with the same TemplateVMID.                *)
CloneTaken(m) ==
  /\ pc[m] = "clone"
  /\ Goto(m, IF tries[m] < MaxAttempts THEN "locate" ELSE "failed")
  /\ UNCHANGED <<form, vmid, cnode, source, tries, made, saved, images, cluster>>

(* Any look or the clone itself may fail.                                   *)
CallFails(m) ==
  /\ pc[m] \in Creating
  /\ Goto(m, "failed")
  /\ UNCHANGED <<form, vmid, cnode, source, tries, made, saved, images, cluster>>

Create(m) ==
  \/ BeginCreate(m) \/ ResolveTemplate(m) \/ FindTemplateNode(m)
  \/ ReadTemplate(m) \/ ResolveNode(m) \/ CloneLands(m) \/ CloneTaken(m)
  \/ CallFails(m)

-----------------------------------------------------------------------------
(* The operators of the cluster. images follows every change of a guest.    *)
ChangeGuest(id, g) ==
  /\ changes < MaxChanges
  /\ changes' = changes + 1
  /\ guest' = [guest EXCEPT ![id] = g]
  /\ images' = [m \in Machines |->
       IF pc[m] \in Creating THEN images[m] \cup Identified(form[m], guest')
       ELSE images[m]]
  /\ UNCHANGED <<node, pc, form, vmid, cnode, source, tries, made, saved>>

Retag(id, tags) ==
  guest[id].kind # "none" /\ ChangeGuest(id, [guest[id] EXCEPT !.tags = tags])

MakeTemplate(id) ==
  guest[id].kind = "vm" /\ ChangeGuest(id, [guest[id] EXCEPT !.kind = "template"])

DeleteGuest(id) ==
  guest[id].kind # "none" /\ ChangeGuest(id, NoGuest)

MoveGuest(id, n) ==
  guest[id].kind # "none" /\ ChangeGuest(id, [guest[id] EXCEPT !.node = n])

ChangeNode(n, state) ==
  /\ changes < MaxChanges
  /\ changes' = changes + 1
  /\ node' = [node EXCEPT ![n] = state]
  /\ UNCHANGED <<guest, pc, form, vmid, cnode, source, tries, made, saved, images>>

Environment ==
  \/ \E id \in IDs :
       \/ \E tags \in SUBSET Tags : Retag(id, tags)
       \/ MakeTemplate(id)
       \/ DeleteGuest(id)
       \/ \E n \in Nodes : MoveGuest(id, n)
  \/ \E n \in Nodes, state \in NodeState : ChangeNode(n, state)

Next == (\E m \in Machines : Create(m)) \/ Environment

Spec == Init /\ [][Next]_vars

-----------------------------------------------------------------------------
(* Variables hold values of their types, and the clone loop its bound.      *)
TypeOK ==
  /\ guest \in [IDs -> Guest \cup {NoGuest}]
  /\ node \in [Nodes -> NodeState]
  /\ pc \in [Machines -> PCs]
  /\ form \in [Machines -> Forms]
  /\ vmid \in [Machines -> IDs \cup {0}]
  /\ cnode \in [Machines -> Nodes \cup {0}]
  /\ source \in [Machines -> Nodes \cup {0}]
  /\ tries \in [Machines -> 0..MaxAttempts]
  /\ made \in [Machines -> [image : IDs \cup {0}, host : Nodes \cup {0}]]
  /\ saved \in [Machines -> Nodes \cup {0}]
  /\ images \in [Machines -> SUBSET IDs]
  /\ changes \in 0..MaxChanges

(* A machine is cloned from an image that its form identified, with nothing *)
(* else matching, at some moment of its own Create: however templates are   *)
(* built, tagged, converted and deleted around the resolution and between   *)
(* the attempts to clone, no machine gets one of two candidates, a plain VM *)
(* or an image that lost the tag before the machine's time                  *)
(* (FindTemplateByTags, resolveTemplateVMID, docs/flags.md on               *)
(* pve-template-tag).                                                       *)
ImageOfItsTime ==
  \A m \in Machines : made[m] # NoVM => made[m].image \in images[m]

(* The node saved in the record, which every later operation asks, is the   *)
(* node the VM is on, and one the form allows: the choice survives the      *)
(* retries, while templates move and nodes fill up or go down (ResolveNode, *)
(* CloneFromTemplate, d.Node in Create).                                    *)
RecordedNodeIsHost ==
  \A m \in Machines : made[m] # NoVM =>
    /\ made[m].host = saved[m]
    /\ form[m].node # 0 => saved[m] = form[m].node
    /\ form[m].allowed # {} => saved[m] \in form[m].allowed
===============================================================================
