--------------------------- MODULE PlacementProofs ---------------------------
(***************************************************************************)
(* Theorems about Placement, for any images, tags, nodes, forms and        *)
(* changes of the cluster.                                                 *)
(***************************************************************************)
EXTENDS Placement, FiniteSetTheorems, TLAPS

Resolved == {"locate", "read", "choose", "clone"}

(* How far m's Create is says what it knows. The template it resolved is    *)
(* one its form identified since it began, and so is, at any time, what     *)
(* the form identifies now.                                                 *)
ImageSound(m) ==
  /\ pc[m] = "idle" => vmid[m] = form[m].vmid
  /\ pc[m] \in Creating => Accepted(form[m])
  /\ pc[m] = "resolve" => form[m].vmid = 0
  /\ pc[m] \in Creating => Identified(form[m], guest) \subseteq images[m]
  /\ pc[m] \in Resolved => vmid[m] \in images[m]
  /\ made[m] # NoVM => made[m].image \in images[m]

(* The client's node is the configured one or an allowed one, from the      *)
(* first selection on; the source is a node, from the first lookup on.      *)
NodeSound(m) ==
  /\ form[m].node # 0 => cnode[m] = form[m].node
  /\ pc[m] = "idle" => cnode[m] = form[m].node
  /\ pc[m] \in Creating /\ cnode[m] # 0 /\ form[m].allowed # {}
       => cnode[m] \in form[m].allowed
  /\ pc[m] \in {"read", "choose", "clone"} => source[m] \in Nodes
  /\ pc[m] = "clone" => cnode[m] # 0
  /\ made[m] # NoVM =>
       /\ pc[m] = "done"
       /\ made[m].host = saved[m]
       /\ form[m].node # 0 => saved[m] = form[m].node
       /\ form[m].allowed # {} => saved[m] \in form[m].allowed

TriesSound(m) ==
  /\ pc[m] \in {"idle", "resolve"} => tries[m] = 0
  /\ pc[m] = "locate" => tries[m] < MaxAttempts

IInv ==
  /\ TypeOK
  /\ \A m \in Machines : ImageSound(m) /\ NodeSound(m) /\ TriesSound(m)

-----------------------------------------------------------------------------
(* The tags the code asks for are those of the form: what was typed, when   *)
(* nothing of it is invalid.                                                *)
LEMMA WantedTags ==
  ASSUME NEW f \in Forms, Accepted(f), f.vmid = 0
  PROVE  /\ normalizeTagList(f.tags) = {TagOf[t] : t \in f.tags} \cap Tags
         /\ f.match \in {"subset", "exact"}
  BY PlacementAssumption DEF Accepted, validateTemplateSelection,
     normalizeTagList, Form

(* Comparing numbers of tags, as the code does, is comparing the tags.      *)
LEMMA MatchIsByTags ==
  ASSUME NEW have \in SUBSET Tags, NEW want \in SUBSET Tags, NEW match
  PROVE  tagsMatch(have, want, match)
           <=> /\ want \subseteq have
               /\ match = "exact" => have \subseteq want
  <1>1. IsFiniteSet(have)
    BY PlacementAssumption, FS_Subset
  <1>2. want \subseteq have => (Cardinality(have) = Cardinality(want) <=> have = want)
    BY <1>1, FS_Subset
  <1> QED
    BY <1>2 DEF tagsMatch

(* FindTemplateByTags answers with what the form identifies by the          *)
(* documentation's words, or not at all.                                    *)
LEMMA FoundIsIdentified ==
  ASSUME TypeOK, NEW f \in Forms, Accepted(f), f.vmid = 0
  PROVE  FoundTemplates(f) = Identified(f, guest)
  <1> DEFINE want == normalizeTagList(f.tags)
  <1>1. want = {TagOf[t] : t \in f.tags} \cap Tags
    BY WantedTags
  <1>2. ASSUME NEW id \in IDs
        PROVE  id \in MatchingTemplates(f) <=> Carries(f, guest, id)
    <2>1. guest[id] \in Guest \cup {NoGuest}
      BY <1>2 DEF TypeOK
    <2>2. guest[id].tags \in SUBSET Tags
      BY <2>1 DEF Guest, NoGuest
    <2>3. want \in SUBSET Tags
      BY <1>1
    <2>4. tagsMatch(guest[id].tags, want, f.match)
            <=> want \subseteq guest[id].tags
                /\ (f.match = "exact" => guest[id].tags \subseteq want)
      BY <2>2, <2>3, MatchIsByTags
    <2> QED
      BY <1>1, <2>4 DEF MatchingTemplates, Carries
  <1>3. MatchingTemplates(f) \subseteq IDs
    BY DEF MatchingTemplates
  <1> QED
    BY <1>2, <1>3, Zenon DEF FoundTemplates, Identified

(* What a form identifies are VMIDs.                                        *)
LEMMA IdentifiedAreIDs ==
  ASSUME NEW f \in Forms, NEW g
  PROVE  Identified(f, g) \subseteq IDs
  BY PlacementAssumption DEF Identified, Form

-----------------------------------------------------------------------------
(* The environment: it leaves every Create where it stands, and images      *)
(* takes in what each form identifies now.                                  *)
LEMMA InitSound ==
  Init => IInv
  <1> SUFFICES ASSUME Init PROVE IInv
    OBVIOUS
  <1>1. \A m \in Machines : form[m] \in Form
    BY PlacementAssumption DEF Init
  <1>2. TypeOK
    BY <1>1, PlacementAssumption DEF Init, TypeOK, NodeState, PCs, NoVM, Form
  <1>3. \A m \in Machines : ImageSound(m) /\ NodeSound(m) /\ TriesSound(m)
    BY <1>1, PlacementAssumption
    DEF Init, ImageSound, NodeSound, TriesSound, Creating, Resolved
  <1> QED
    BY <1>2, <1>3 DEF IInv

LEMMA ChangeGuestSound ==
  ASSUME IInv, NEW id \in IDs, NEW g \in Guest \cup {NoGuest}, ChangeGuest(id, g)
  PROVE  IInv'
  <1>1. guest' \in [IDs -> Guest \cup {NoGuest}]
    BY DEF IInv, TypeOK, ChangeGuest
  <1>2. \A m \in Machines : Identified(form[m], guest') \subseteq IDs
    BY IdentifiedAreIDs DEF IInv, TypeOK
  <1>3. images' \in [Machines -> SUBSET IDs]
    BY <1>2 DEF IInv, TypeOK, ChangeGuest
  <1>4. changes' \in 0..MaxChanges
    BY PlacementAssumption DEF IInv, TypeOK, ChangeGuest
  <1>5. TypeOK'
    BY <1>1, <1>3, <1>4 DEF IInv, TypeOK, ChangeGuest
  <1>6. ASSUME NEW m \in Machines
        PROVE  ImageSound(m)' /\ NodeSound(m)' /\ TriesSound(m)'
    <2>1. ImageSound(m) /\ NodeSound(m) /\ TriesSound(m)
      BY <1>6 DEF IInv
    <2>2. /\ images[m] \subseteq images'[m]
          /\ pc[m] \in Creating => Identified(form[m], guest') \subseteq images'[m]
      BY <1>6 DEF IInv, TypeOK, ChangeGuest
    <2>3. UNCHANGED <<pc, form, vmid, cnode, source, tries, made, saved>>
      BY DEF ChangeGuest
    <2>4. ImageSound(m)'
      BY <2>1, <2>2, <2>3 DEF ImageSound, Accepted, validateTemplateSelection,
         normalizeTagList
    <2>5. NodeSound(m)' /\ TriesSound(m)'
      BY <2>1, <2>3 DEF NodeSound, TriesSound
    <2> QED
      BY <2>4, <2>5
  <1> QED
    BY <1>5, <1>6 DEF IInv

LEMMA EnvironmentSound ==
  IInv /\ Environment => IInv'
  <1> SUFFICES ASSUME IInv, Environment PROVE IInv'
    OBVIOUS
  <1>1. \A id \in IDs : guest[id] \in Guest \cup {NoGuest}
    BY DEF IInv, TypeOK
  <1>2. CASE \E id \in IDs, tags \in SUBSET Tags : Retag(id, tags)
    <2>1. PICK id \in IDs, tags \in SUBSET Tags : Retag(id, tags)
      BY <1>2
    <2>2. [guest[id] EXCEPT !.tags = tags] \in Guest
      BY <1>1, <2>1 DEF Retag, Guest, NoGuest
    <2> QED
      BY <2>1, <2>2, ChangeGuestSound DEF Retag
  <1>3. CASE \E id \in IDs : MakeTemplate(id)
    <2>1. PICK id \in IDs : MakeTemplate(id)
      BY <1>3
    <2>2. [guest[id] EXCEPT !.kind = "template"] \in Guest
      BY <1>1, <2>1 DEF MakeTemplate, Guest, NoGuest
    <2> QED
      BY <2>1, <2>2, ChangeGuestSound DEF MakeTemplate
  <1>4. CASE \E id \in IDs : DeleteGuest(id)
    BY <1>4, ChangeGuestSound DEF DeleteGuest
  <1>5. CASE \E id \in IDs, n \in Nodes : MoveGuest(id, n)
    <2>1. PICK id \in IDs, n \in Nodes : MoveGuest(id, n)
      BY <1>5
    <2>2. [guest[id] EXCEPT !.node = n] \in Guest
      BY <1>1, <2>1 DEF MoveGuest, Guest, NoGuest
    <2> QED
      BY <2>1, <2>2, ChangeGuestSound DEF MoveGuest
  <1>6. CASE \E n \in Nodes, state \in NodeState : ChangeNode(n, state)
    <2>1. PICK n \in Nodes, state \in NodeState : ChangeNode(n, state)
      BY <1>6
    <2>2. TypeOK'
      BY <2>1, PlacementAssumption DEF IInv, TypeOK, ChangeNode
    <2>3. UNCHANGED <<guest, pc, form, vmid, cnode, source, tries, made, saved, images>>
      BY <2>1 DEF ChangeNode
    <2>4. \A m \in Machines : ImageSound(m)' /\ NodeSound(m)' /\ TriesSound(m)'
      BY <2>3 DEF IInv, ImageSound, NodeSound, TriesSound, Accepted,
         validateTemplateSelection, normalizeTagList, Identified, Carries
    <2> QED
      BY <2>2, <2>4 DEF IInv
  <1> QED
    BY <1>2, <1>3, <1>4, <1>5, <1>6 DEF Environment

-----------------------------------------------------------------------------
(* What one step of a Create leaves alone: the other machines, the cluster  *)
(* and what the forms identify.                                             *)
Others(m) ==
  \A n \in Machines \ {m} :
    /\ pc'[n] = pc[n] /\ vmid'[n] = vmid[n] /\ cnode'[n] = cnode[n]
    /\ source'[n] = source[n] /\ tries'[n] = tries[n] /\ made'[n] = made[n]
    /\ saved'[n] = saved[n] /\ images'[n] = images[n]

LEMMA StepMovesOwn ==
  ASSUME TypeOK, NEW m \in Machines, Create(m)
  PROVE  Others(m) /\ UNCHANGED <<form, cluster>>
  BY DEF TypeOK, Create, BeginCreate, ResolveTemplate, FindTemplateNode,
     ReadTemplate, ResolveNode, CloneLands, CloneTaken, CallFails, Goto, Others,
     cluster

(* So it keeps what is known of the others.                                 *)
LEMMA StepKeepsOthers ==
  ASSUME IInv, NEW m \in Machines, Create(m), NEW n \in Machines \ {m}
  PROVE  ImageSound(n)' /\ NodeSound(n)' /\ TriesSound(n)'
  <1>1. Others(m) /\ UNCHANGED <<form, guest>>
    BY StepMovesOwn DEF IInv, cluster
  <1>2. ImageSound(n) /\ NodeSound(n) /\ TriesSound(n)
    BY DEF IInv
  <1>3. /\ pc'[n] = pc[n] /\ vmid'[n] = vmid[n] /\ cnode'[n] = cnode[n]
        /\ source'[n] = source[n] /\ tries'[n] = tries[n] /\ made'[n] = made[n]
        /\ saved'[n] = saved[n] /\ images'[n] = images[n] /\ form'[n] = form[n]
    BY <1>1 DEF Others
  <1>4. NodeSound(n)' /\ TriesSound(n)'
    BY <1>2, <1>3 DEF NodeSound, TriesSound
  <1>5. Accepted(form[n])' <=> Accepted(form[n])
    BY <1>3 DEF Accepted, validateTemplateSelection, normalizeTagList
  <1>6. Identified(form[n], guest)' = Identified(form[n], guest)
    BY <1>1 DEF Identified, Carries
  <1>7. ImageSound(n)'
    BY <1>2, <1>3, <1>5, <1>6 DEF ImageSound
  <1> QED
    BY <1>4, <1>7

-----------------------------------------------------------------------------
(* What a Create knows of the template it resolved: a VMID, and a guest     *)
(* whose node, when it is there, is a node.                                 *)
LEMMA ResolvedTemplate ==
  ASSUME IInv, NEW m \in Machines, pc[m] \in Resolved
  PROVE  /\ vmid[m] \in IDs
         /\ guest[vmid[m]].kind # "none" => guest[vmid[m]].node \in Nodes
  <1>1. vmid[m] \in IDs
    BY DEF IInv, TypeOK, ImageSound
  <1>2. guest[vmid[m]] \in Guest \cup {NoGuest}
    BY <1>1 DEF IInv, TypeOK
  <1> QED
    BY <1>1, <1>2 DEF Guest, NoGuest

(* Each step keeps the types, the clone loop's bound among them.            *)
LEMMA CreateTypes ==
  ASSUME IInv, NEW m \in Machines, Create(m)
  PROVE  TypeOK'
  <1>1. TypeOK /\ form[m] \in Form /\ tries[m] \in 0..MaxAttempts
    BY PlacementAssumption DEF IInv, TypeOK
  <1>2. UNCHANGED <<guest, node, form, changes>>
    BY <1>1, StepMovesOwn DEF cluster
  <1>3. CASE BeginCreate(m)
    <2>1. Identified(form[m], guest) \subseteq IDs
      BY <1>1, IdentifiedAreIDs DEF TypeOK
    <2>2. images' \in [Machines -> SUBSET IDs]
      BY <1>1, <1>3, <2>1 DEF TypeOK, BeginCreate
    <2>3. pc' \in [Machines -> PCs]
      BY <1>1, <1>3 DEF TypeOK, BeginCreate, Goto, PCs
    <2> QED
      BY <1>1, <1>2, <1>3, <2>2, <2>3 DEF TypeOK, BeginCreate
  <1>4. CASE ResolveTemplate(m)
    <2>1. FoundTemplates(form[m]) \subseteq IDs
      BY DEF FoundTemplates, MatchingTemplates
    <2>2. vmid' \in [Machines -> IDs \cup {0}]
      BY <1>1, <1>4, <2>1 DEF TypeOK, ResolveTemplate
    <2>3. pc' \in [Machines -> PCs]
      BY <1>1, <1>4 DEF TypeOK, ResolveTemplate, Goto, PCs
    <2> QED
      BY <1>1, <1>2, <1>4, <2>2, <2>3 DEF TypeOK, ResolveTemplate
  <1>5. CASE FindTemplateNode(m)
    <2>1. pc[m] = "locate"
      BY <1>5 DEF FindTemplateNode
    <2>2. tries[m] + 1 \in 0..MaxAttempts
      BY <1>1, <2>1, PlacementAssumption DEF IInv, TriesSound
    <2>3. guest[vmid[m]].kind # "none" => guest[vmid[m]].node \in Nodes
      BY <2>1, ResolvedTemplate DEF Resolved
    <2> QED
      BY <1>1, <1>2, <1>5, <2>2, <2>3 DEF TypeOK, FindTemplateNode, Goto, PCs
  <1>6. CASE ReadTemplate(m)
    BY <1>1, <1>2, <1>6 DEF TypeOK, ReadTemplate, Goto, PCs
  <1>7. CASE ResolveNode(m)
    <2>1. selectNode(form[m]) \subseteq Nodes
      BY DEF selectNode, Candidates
    <2> QED
      BY <1>1, <1>2, <1>7, <2>1 DEF TypeOK, ResolveNode, Goto, PCs
  <1>8. CASE CloneLands(m)
    <2>1. pc[m] = "clone"
      BY <1>8 DEF CloneLands
    <2>2. vmid[m] \in IDs
      BY <2>1, ResolvedTemplate DEF Resolved
    <2>3. Destination(m) \in Nodes \cup {0}
      BY <1>1 DEF TypeOK, Destination, Target
    <2> QED
      BY <1>1, <1>2, <1>8, <2>2, <2>3 DEF TypeOK, CloneLands, Goto, PCs
  <1>9. CASE CloneTaken(m)
    BY <1>1, <1>2, <1>9 DEF TypeOK, CloneTaken, Goto, PCs
  <1>10. CASE CallFails(m)
    BY <1>1, <1>2, <1>10 DEF TypeOK, CallFails, Goto, PCs
  <1> QED
    BY <1>3, <1>4, <1>5, <1>6, <1>7, <1>8, <1>9, <1>10 DEF Create

(* Each step keeps what is known of the template: only a resolution sets    *)
(* it, and to what the form identifies at that moment.                      *)
LEMMA CreateKeepsImage ==
  ASSUME IInv, NEW m \in Machines, Create(m)
  PROVE  ImageSound(m)'
  <1>1. TypeOK /\ ImageSound(m) /\ NodeSound(m) /\ form[m] \in Forms
    BY DEF IInv, TypeOK
  <1>2. UNCHANGED <<guest, form>>
    BY <1>1, StepMovesOwn DEF cluster
  <1>3. Accepted(form[m])' <=> Accepted(form[m])
    BY <1>2 DEF Accepted, validateTemplateSelection, normalizeTagList
  <1>4. Identified(form[m], guest)' = Identified(form[m], guest)
    BY <1>2 DEF Identified, Carries
  <1>5. CASE BeginCreate(m)
    <2>1. form[m].vmid # 0 => form[m].vmid \in Identified(form[m], guest)
      BY DEF Identified
    <2> QED
      BY <1>1, <1>2, <1>3, <1>4, <1>5, <2>1
      DEF TypeOK, ImageSound, NodeSound, BeginCreate, Goto, Creating, Resolved
  <1>6. CASE ResolveTemplate(m)
    <2>1. FoundTemplates(form[m]) = Identified(form[m], guest)
      BY <1>1, <1>6, FoundIsIdentified DEF ImageSound, ResolveTemplate, Creating
    <2> QED
      BY <1>1, <1>2, <1>3, <1>4, <1>6, <2>1
      DEF TypeOK, ImageSound, ResolveTemplate, Goto, Creating, Resolved
  <1>7. CASE FindTemplateNode(m) \/ ReadTemplate(m) \/ ResolveNode(m)
             \/ CloneTaken(m) \/ CallFails(m)
    BY <1>1, <1>2, <1>3, <1>4, <1>7
    DEF TypeOK, ImageSound, FindTemplateNode, ReadTemplate, ResolveNode,
        CloneTaken, CallFails, Goto, Creating, Resolved
  <1>8. CASE CloneLands(m)
    BY <1>1, <1>2, <1>3, <1>4, <1>8
    DEF TypeOK, ImageSound, CloneLands, Goto, Creating, Resolved
  <1> QED
    BY <1>5, <1>6, <1>7, <1>8 DEF Create

(* Each step keeps what is known of the node: one selection, and the clone  *)
(* goes there whether or not that is where the template is.                 *)
LEMMA CreateKeepsNode ==
  ASSUME IInv, NEW m \in Machines, Create(m)
  PROVE  NodeSound(m)' /\ TriesSound(m)'
  <1>1. /\ TypeOK /\ ImageSound(m) /\ NodeSound(m) /\ TriesSound(m)
        /\ form[m] \in Form /\ tries[m] \in Nat
    BY PlacementAssumption DEF IInv, TypeOK
  <1>2. UNCHANGED <<guest, form>>
    BY <1>1, StepMovesOwn DEF cluster
  <1>3. CASE BeginCreate(m)
    BY <1>1, <1>2, <1>3, PlacementAssumption
    DEF TypeOK, NodeSound, TriesSound, BeginCreate, Goto, Creating, Accepted
  <1>4. CASE ResolveTemplate(m)
    BY <1>1, <1>2, <1>4, PlacementAssumption
    DEF TypeOK, NodeSound, TriesSound, ResolveTemplate, Goto, Creating
  <1>5. CASE FindTemplateNode(m)
    <2>1. guest[vmid[m]].kind # "none" => guest[vmid[m]].node \in Nodes
      BY <1>5, ResolvedTemplate DEF FindTemplateNode, Resolved
    <2> QED
      BY <1>1, <1>2, <1>5, <2>1
      DEF TypeOK, NodeSound, TriesSound, FindTemplateNode, Goto, Creating
  <1>6. CASE ReadTemplate(m)
    BY <1>1, <1>2, <1>6
    DEF TypeOK, NodeSound, TriesSound, ReadTemplate, Goto, Creating
  <1>7. CASE ResolveNode(m)
    <2>1. \A n \in selectNode(form[m]) :
            n \in Nodes /\ (form[m].allowed # {} => n \in form[m].allowed)
      BY DEF selectNode, Candidates
    <2> QED
      BY <1>1, <1>2, <1>7, <2>1, PlacementAssumption
      DEF TypeOK, NodeSound, TriesSound, ResolveNode, Goto, Creating
  <1>8. CASE CloneLands(m)
    <2>1. Destination(m) = cnode[m]
      BY <1>1, <1>8, PlacementAssumption
      DEF TypeOK, NodeSound, CloneLands, Destination, Target
    <2> QED
      BY <1>1, <1>2, <1>8, <2>1
      DEF TypeOK, NodeSound, TriesSound, CloneLands, Goto, Creating
  <1>9. CASE CloneTaken(m)
    BY <1>1, <1>2, <1>9
    DEF TypeOK, NodeSound, TriesSound, CloneTaken, Goto, Creating
  <1>10. CASE CallFails(m)
    BY <1>1, <1>2, <1>10
    DEF TypeOK, NodeSound, TriesSound, CallFails, Goto, Creating
  <1> QED
    BY <1>3, <1>4, <1>5, <1>6, <1>7, <1>8, <1>9, <1>10 DEF Create

LEMMA StepSound ==
  IInv /\ [Next]_vars => IInv'
  <1>1. ASSUME IInv, NEW m \in Machines, Create(m)
        PROVE  IInv'
    <2>1. \A n \in Machines : ImageSound(n)' /\ NodeSound(n)' /\ TriesSound(n)'
      BY <1>1, StepKeepsOthers, CreateKeepsImage, CreateKeepsNode
    <2> QED
      BY <1>1, <2>1, CreateTypes DEF IInv
  <1>2. ASSUME IInv, UNCHANGED vars
        PROVE  IInv'
    <2>1. TypeOK'
      BY <1>2 DEF IInv, vars, TypeOK
    <2>2. ASSUME NEW m \in Machines
          PROVE  ImageSound(m)' /\ NodeSound(m)' /\ TriesSound(m)'
      <3>1. Accepted(form[m])' <=> Accepted(form[m])
        BY <1>2 DEF vars, Accepted, validateTemplateSelection, normalizeTagList
      <3>2. Identified(form[m], guest)' = Identified(form[m], guest)
        BY <1>2 DEF vars, Identified, Carries
      <3>3. ImageSound(m)'
        BY <1>2, <3>1, <3>2 DEF IInv, vars, ImageSound
      <3>4. NodeSound(m)' /\ TriesSound(m)'
        BY <1>2 DEF IInv, vars, NodeSound, TriesSound
      <3> QED
        BY <3>3, <3>4
    <2> QED
      BY <2>1, <2>2 DEF IInv
  <1> QED
    BY <1>1, <1>2, EnvironmentSound DEF Next

LEMMA Inductive ==
  Spec => []IInv
  BY InitSound, StepSound, PTL DEF Spec

-----------------------------------------------------------------------------
(* Every reachable state is well typed, and no Create tries a clone more    *)
(* than vmidClaimAttempts times (cloneFromTemplate).                        *)
THEOREM SpecTypeOK ==
  Spec => []TypeOK
  <1>1. IInv => TypeOK
    BY DEF IInv
  <1> QED
    BY <1>1, Inductive, PTL

(* Whatever happens to the templates meanwhile, a machine is cloned from an *)
(* image its form identified during its own Create (FindTemplateByTags,     *)
(* resolveTemplateVMID).                                                    *)
THEOREM SpecImageOfItsTime ==
  Spec => []ImageOfItsTime
  <1>1. IInv => ImageOfItsTime
    BY DEF IInv, ImageSound, ImageOfItsTime
  <1> QED
    BY <1>1, Inductive, PTL

(* The node in the record is the node the VM was cloned to, and one the     *)
(* form allows (ResolveNode, CloneFromTemplate, d.Node in Create).          *)
THEOREM SpecRecordedNodeIsHost ==
  Spec => []RecordedNodeIsHost
  <1>1. IInv => RecordedNodeIsHost
    BY DEF IInv, NodeSound, RecordedNodeIsHost
  <1> QED
    BY <1>1, Inductive, PTL
===============================================================================
