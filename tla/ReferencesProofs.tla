-------------------------- MODULE ReferencesProofs --------------------------
(***************************************************************************)
(* Proofs about References for every set of parts and ids and any limits:  *)
(* the types, the graph that indexing and resolution build, the stack of   *)
(* traverse, and the walks: which of them the traversal has seen, in which *)
(* order, and that its answer is the verdict over all of them.             *)
(***************************************************************************)
EXTENDS References, TLAPS, SequenceTheorems, FiniteSetTheorems

-----------------------------------------------------------------------------
(* Types.                                                                  *)

Slots == {"Selector", "Component", "ElementCount", "ElementType", "Quality"}

Edge == [slot : Slots, to : {"Component", "Reference"}, index : Nat]

Link == [slot : Slots, href : Href, target : Nat \cup {None}]

Reading == [node : Nat, at : Nat \ {0}]

Visit == [node : Nat, next : Nat \ {0}, element : BOOLEAN]

\* What is indexed leads to what is indexed, an open component is being read,
\* and the traversal starts from nothing.
IndexInv ==
    /\ TypeOK
    /\ open \in Seq(Reading)
    /\ references \in Seq(Link)
    /\ edges \in Seq(Seq(Edge))
    /\ frames \in Seq(Visit)
    /\ outcome = None => components # <<>> /\ (stage = "index" => open # <<>>)
    /\ stage # "traverse" => frames = <<>> /\ active = {} /\ traversal = <<>>

\* The members of a component are one to three slots.
LEMMA MembersTypes ==
    ASSUME NEW kind \in Kinds
    PROVE  Members(kind) \in Seq(Slots) /\ Len(Members(kind)) \in 1 .. 3
<1> DEFINE first == CASE kind = "DataChoice" -> <<"Selector", "Component">>
                      [] kind \in Arrays -> <<"ElementCount", "ElementType">>
                      [] kind \in {"DataRecord", "Vector"} -> <<"Component">>
                      [] OTHER -> <<>>
<1>1. first \in Seq(Slots) /\ Len(first) \in 0 .. 2
  <2>1. /\ <<"Selector", "Component">> \in Seq(Slots)
        /\ <<"ElementCount", "ElementType">> \in Seq(Slots)
        /\ <<"Component">> \in Seq(Slots) /\ <<>> \in Seq(Slots)
    BY DEF Slots
  <2>2. first \in {<<"Selector", "Component">>, <<"ElementCount", "ElementType">>,
                   <<"Component">>, <<>>}
    OBVIOUS
  <2>3. QED
    BY <2>1, <2>2
<1>2. <<"Quality">> \in Seq(Slots) /\ Members(kind) = first \o <<"Quality">>
  BY DEF Slots, Members
<1> HIDE DEF first
<1>3. QED
  BY <1>1, <1>2

\* The last element of a sequence.
LEMMA LastTypes ==
    ASSUME NEW S, NEW s \in Seq(S), s # <<>>
    PROVE  Len(s) \in Nat \ {0} /\ Len(s) \in DOMAIN s /\ s[Len(s)] \in S
  OBVIOUS

\* A sequence of one element.
LEMMA SingleTypes ==
    ASSUME NEW S, NEW x \in S
    PROVE  <<x>> \in Seq(S) /\ DOMAIN <<x>> = {1} /\ <<x>>[1] = x /\ Len(<<x>>) = 1
  OBVIOUS

\* A sequence without its last element.
LEMMA FrontTypes ==
    ASSUME NEW S, NEW s \in Seq(S), s # <<>>
    PROVE  /\ SubSeq(s, 1, Len(s) - 1) \in Seq(S)
           /\ Len(SubSeq(s, 1, Len(s) - 1)) = Len(s) - 1
           /\ DOMAIN SubSeq(s, 1, Len(s) - 1) = 1 .. Len(s) - 1
           /\ \A i \in 1 .. Len(s) - 1 : i \in DOMAIN s /\ SubSeq(s, 1, Len(s) - 1)[i] = s[i]
<1>1. Len(s) \in Nat \ {0} /\ DOMAIN s = 1 .. Len(s)
  OBVIOUS
<1>2. 1 \in 1 .. Len(s) + 1 /\ Len(s) - 1 \in 1 - 1 .. Len(s)
  BY <1>1
<1>3. QED
  BY <1>1, <1>2, SubSeqProperties

\* A sequence with one more element.
LEMMA AppendTypes ==
    ASSUME NEW S, NEW s \in Seq(S), NEW x \in S
    PROVE  /\ Append(s, x) \in Seq(S) /\ Append(s, x) # <<>>
           /\ Len(Append(s, x)) = Len(s) + 1 /\ Len(s) \in Nat
           /\ DOMAIN Append(s, x) = DOMAIN s \cup {Len(s) + 1}
           /\ \A i \in DOMAIN s : Append(s, x)[i] = s[i]
           /\ Append(s, x)[Len(s) + 1] = x
           /\ DOMAIN s = 1 .. Len(s)
  OBVIOUS

\* A component is a part.
LEMMA PartTypes ==
    ASSUME components \in Seq(Part), NEW n \in Node
    PROVE  /\ components[n] \in Part /\ components[n].kind \in Kinds
           /\ components[n].id \in Id \cup {None} /\ components[n].value \in BOOLEAN
  BY PartAssumption DEF Node

\* While the document is read its innermost open component is one of the index.
LEMMA TopTypes ==
    ASSUME IndexInv, outcome = None, stage = "index"
    PROVE  /\ Len(open) \in Nat \ {0} /\ Top \in Reading
           /\ Top.node \in Node /\ Owner.kind \in Kinds /\ edges[Top.node] \in Seq(Edge)
           /\ \A p \in Top.at .. Len(Members(Owner.kind)) : p \in Nat \ {0} /\ Slot(p) \in Slots
<1>1. Len(open) \in Nat \ {0} /\ Top \in Reading /\ Top.node \in Node
  BY LastTypes DEF IndexInv, TypeOK, Top
<1>2. Owner.kind \in Kinds /\ edges[Top.node] \in Seq(Edge)
  BY <1>1, PartTypes DEF IndexInv, TypeOK, Owner, Node
<1>3. ASSUME NEW p \in Top.at .. Len(Members(Owner.kind))
      PROVE  p \in Nat \ {0} /\ Slot(p) \in Slots
  BY <1>1, <1>2, <1>3, MembersTypes DEF Slot, Reading
<1>4. QED
  BY <1>1, <1>2, <1>3

\* The edges after a member of the innermost open component.
LEMMA AddEdgeTypes ==
    ASSUME IndexInv, outcome = None, stage = "index", NEW p, MayRead(p),
           NEW to \in {"Component", "Reference"}, NEW index \in Nat
    PROVE  /\ AddEdge(p, to, index) \in Seq(Seq(Edge))
           /\ Len(AddEdge(p, to, index)) = Len(edges)
           /\ \A n \in Node : \A i \in DOMAIN AddEdge(p, to, index)[n] :
                 \/ i \in DOMAIN edges[n] /\ AddEdge(p, to, index)[n][i] = edges[n][i]
                 \/ /\ AddEdge(p, to, index)[n][i].slot = Slot(p)
                    /\ AddEdge(p, to, index)[n][i].to = to
                    /\ AddEdge(p, to, index)[n][i].index = index
<1> DEFINE e == [slot |-> Slot(p), to |-> to, index |-> index]
           new == AddEdge(p, to, index)
<1>1. e \in Edge /\ Top.node \in Node /\ edges[Top.node] \in Seq(Edge)
  BY TopTypes DEF MayRead, Edge
<1>2. edges \in Seq(Seq(Edge)) /\ Len(edges) = Len(components) /\ Top.node \in DOMAIN edges
  BY <1>1 DEF IndexInv, TypeOK, Node
<1>3. new = [edges EXCEPT ![Top.node] = Append(edges[Top.node], e)]
  BY DEF AddEdge
<1>4. Append(edges[Top.node], e) \in Seq(Edge)
  BY <1>1
<1> HIDE DEF e, new
<1>5. new \in Seq(Seq(Edge)) /\ Len(new) = Len(edges)
  BY <1>2, <1>3, <1>4
<1>6. ASSUME NEW n \in Node, NEW i \in DOMAIN new[n]
      PROVE  (i \in DOMAIN edges[n] /\ new[n][i] = edges[n][i]) \/ new[n][i] = e
  <2>1. CASE n = Top.node
    <3>1. new[n] = Append(edges[n], e) /\ edges[n] \in Seq(Edge)
      BY <1>1, <1>2, <1>3, <2>1
    <3>2. QED
      BY <1>6, <3>1
  <2>2. CASE n # Top.node
    BY <1>2, <1>3, <1>6, <2>2
  <2>3. QED
    BY <2>1, <2>2
<1>7. QED
  BY <1>5, <1>6 DEF e, new

\* The open components after a member.
LEMMA PastTypes ==
    ASSUME IndexInv, outcome = None, stage = "index", NEW p, MayRead(p)
    PROVE  /\ [open EXCEPT ![Len(open)] = Past(p)] \in Seq(Reading)
           /\ Len([open EXCEPT ![Len(open)] = Past(p)]) = Len(open)
           /\ \A i \in DOMAIN open : [open EXCEPT ![Len(open)] = Past(p)][i].node \in Node
<1>1. /\ Top \in Reading /\ p \in Nat \ {0} /\ Top.node \in Node
      /\ Len(open) \in Nat \ {0}
  BY TopTypes DEF MayRead
<1>2. Past(p) \in Reading /\ Past(p).node = Top.node
  BY <1>1 DEF Past, Reading
<1>3. open \in Seq(Reading) /\ \A i \in DOMAIN open : open[i].node \in Node
  BY DEF IndexInv, TypeOK
<1>4. QED
  BY <1>1, <1>2, <1>3

\* The errors of the index are outcomes, and a limit is not passed.
LEMMA IndexErrors ==
    ASSUME NEW p
    PROVE  /\ \A kind, id : /\ ComponentError(p, kind, id) \in Outcomes \cup {None}
                            /\ ComponentError(p, kind, id) = None => ~ComponentsReached
           /\ \A href, mixed :
                  /\ LinkError(p, href, mixed) \in Outcomes \cup {None}
                  /\ LinkError(p, href, mixed) = None => ~(Len(references) >= MaxReferences)
<1>1. {"Quality", "InvalidTarget", "ComponentLimit", "DuplicateId", "ReferenceLimit",
       "InvalidReference"} \subseteq Outcomes
  BY DEF Outcomes
<1>2. ASSUME NEW kind, NEW id
      PROVE  /\ ComponentError(p, kind, id) \in Outcomes \cup {None}
             /\ ComponentError(p, kind, id) = None => ~ComponentsReached
  BY <1>1, OutcomeAssumption DEF ComponentError
<1>3. ASSUME NEW href, NEW mixed
      PROVE  /\ LinkError(p, href, mixed) \in Outcomes \cup {None}
             /\ LinkError(p, href, mixed) = None => ~(Len(references) >= MaxReferences)
  BY <1>1, OutcomeAssumption DEF LinkError
<1>4. QED
  BY <1>2, <1>3

\* An error leaves nothing of the index.
LEMMA RefuseTypes ==
    ASSUME IndexInv, stage # "traverse", NEW error \in Outcomes, Refuse(error)
    PROVE  IndexInv'
<1>1. /\ frames' = <<>> /\ active' = {} /\ traversal' = <<>> /\ stage' = stage
      /\ open' = <<>> /\ components' = <<>> /\ references' = <<>> /\ edges' = <<>>
      /\ outcome' = error /\ outcome' # None
  BY OutcomeAssumption DEF IndexInv, Refuse, traverseVars
<1>2. Node' = {}
  BY <1>1 DEF Node
<1>3. TypeOK'
  BY <1>1, <1>2, LimitsAssumption DEF IndexInv, TypeOK
<1>4. QED
  BY <1>1, <1>3 DEF IndexInv

\* An inline component keeps the types.
LEMMA DeclareTypes ==
    ASSUME IndexInv, outcome = None, stage = "index", NEW p, NEW part \in Part,
           Declare(p, part)
    PROVE  IndexInv'
<1> DEFINE node == Len(components) + 1
           added == AddEdge(p, "Component", node)
           past == [open EXCEPT ![Len(open)] = Past(p)]
<1>1. CASE Refuse(ComponentError(p, part.kind, part.id))
           /\ ComponentError(p, part.kind, part.id) # None
  BY <1>1, IndexErrors, RefuseTypes
<1>2. CASE /\ ComponentError(p, part.kind, part.id) = None
           /\ components' = Append(components, part)
           /\ edges' = Append(added, <<>>)
           /\ open' = Append(past, [node |-> node, at |-> 1])
           /\ UNCHANGED <<stage, references, traverseVars, outcome>>
  <2>0. TypeOK /\ MayRead(p) /\ node \in Nat /\ Len(components) \in Nat
    BY DEF IndexInv, TypeOK, Declare
  <2>1. /\ added \in Seq(Seq(Edge)) /\ Len(added) = Len(edges)
        /\ \A n \in Node : \A i \in DOMAIN added[n] :
              \/ i \in DOMAIN edges[n] /\ added[n][i] = edges[n][i]
              \/ added[n][i].to = "Component" /\ added[n][i].index = node
    BY <2>0, AddEdgeTypes
  <2>2. /\ past \in Seq(Reading) /\ Len(past) = Len(open)
        /\ \A i \in DOMAIN open : past[i].node \in Node
    BY <2>0, PastTypes
  <2> HIDE DEF added, past
  <2>3. /\ components' \in Seq(Part) /\ Len(components') = node /\ Node' = Node \cup {node}
        /\ Node = 1 .. Len(components) /\ Node' = 1 .. node
    BY <1>2, <2>0 DEF Node, TypeOK
  <2>4. node <= MaxComponents
    <3>1. ~ComponentsReached
      BY <1>2, IndexErrors
    <3>2. QED
      BY <2>0, <3>1, LimitsAssumption DEF ComponentsReached
  <2>5. <<>> \in Seq(Edge)
    OBVIOUS
  <2>6. edges' \in Seq(Seq(Edge)) /\ Len(edges') = node
    BY <1>2, <2>0, <2>1, <2>5, AppendTypes DEF TypeOK
  <2>7. ASSUME NEW n \in Node', NEW i \in DOMAIN edges'[n]
        PROVE  IF edges'[n][i].to = "Component" THEN edges'[n][i].index \in Node'
               ELSE edges'[n][i].index \in DOMAIN references'
    <3>1. n \in Node /\ edges'[n] = added[n]
      BY <1>2, <2>0, <2>1, <2>3, <2>5, <2>7 DEF TypeOK
    <3>2. CASE i \in DOMAIN edges[n] /\ added[n][i] = edges[n][i]
      BY <1>2, <2>0, <2>3, <3>1, <3>2 DEF TypeOK
    <3>3. QED
      BY <2>1, <2>3, <2>7, <3>1, <3>2
  <2>8. [node |-> node, at |-> 1] \in Reading
    BY <2>0 DEF Reading
  <2>9. open' \in Seq(Reading) /\ open' # <<>>
    BY <1>2, <2>2, <2>8, AppendTypes
  <2>10. ASSUME NEW i \in DOMAIN open' PROVE open'[i].node \in Node'
    <3>1. DOMAIN open' = DOMAIN open \cup {Len(open) + 1} /\ DOMAIN past = DOMAIN open
      BY <1>2, <2>2, <2>8, AppendTypes DEF IndexInv
    <3>2. CASE i \in DOMAIN open
      <4>1. open'[i] = past[i]
        BY <1>2, <2>2, <2>8, <3>1, <3>2, AppendTypes
      <4>2. QED
        BY <2>2, <2>3, <3>2, <4>1
    <3>3. CASE i = Len(open) + 1
      <4>1. open'[i] = [node |-> node, at |-> 1]
        <5>1. Append(past, [node |-> node, at |-> 1])[Len(past) + 1] = [node |-> node, at |-> 1]
          BY <2>2, <2>8, AppendTypes
        <5>2. QED
          BY <1>2, <2>2, <3>3, <5>1
      <4>2. QED
        BY <2>0, <2>3, <4>1
    <3>4. QED
      BY <2>10, <3>1, <3>2, <3>3
  <2>11. /\ frames' = <<>> /\ active' = {} /\ traversal' = <<>> /\ components' # <<>>
    BY <1>2, <2>0, <2>3 DEF IndexInv, traverseVars
  <2>12. \A i \in DOMAIN references' : references'[i].target \in Node' \cup {None}
    BY <1>2, <2>0, <2>3 DEF TypeOK
  <2>13. TypeOK'
    BY <1>2, <2>0, <2>3, <2>4, <2>6, <2>7, <2>10, <2>11, <2>12 DEF TypeOK
  <2>14. QED
    BY <1>2, <2>6, <2>9, <2>11, <2>13 DEF IndexInv
<1>3. QED
  BY <1>1, <1>2 DEF Declare

\* A link keeps the types.
LEMMA ReferTypes ==
    ASSUME IndexInv, outcome = None, stage = "index", NEW p, NEW href \in Href,
           NEW mixed \in BOOLEAN, Refer(p, href, mixed)
    PROVE  IndexInv'
<1> DEFINE at == Len(references) + 1
           link == [slot |-> Slot(p), href |-> href, target |-> None]
           added == AddEdge(p, "Reference", at)
           past == [open EXCEPT ![Len(open)] = Past(p)]
<1>1. CASE Refuse(LinkError(p, href, mixed)) /\ LinkError(p, href, mixed) # None
  BY <1>1, IndexErrors, RefuseTypes
<1>2. CASE /\ LinkError(p, href, mixed) = None
           /\ references' = Append(references, link)
           /\ edges' = added
           /\ open' = past
           /\ UNCHANGED <<stage, components, traverseVars, outcome>>
  <2>0. TypeOK /\ MayRead(p) /\ at \in Nat /\ Len(references) \in Nat
    BY DEF IndexInv, TypeOK, Refer
  <2>1. /\ added \in Seq(Seq(Edge)) /\ Len(added) = Len(edges)
        /\ \A n \in Node : \A i \in DOMAIN added[n] :
              \/ i \in DOMAIN edges[n] /\ added[n][i] = edges[n][i]
              \/ added[n][i].to = "Reference" /\ added[n][i].index = at
    BY <2>0, AddEdgeTypes
  <2>2. /\ past \in Seq(Reading) /\ Len(past) = Len(open)
        /\ \A i \in DOMAIN open : past[i].node \in Node
    BY <2>0, PastTypes
  <2>3. link \in Link
    BY <2>0, TopTypes DEF Link, MayRead
  <2> HIDE DEF added, past, link
  <2>4. /\ references' \in Seq(Link) /\ Len(references') = at
        /\ DOMAIN references' = DOMAIN references \cup {at}
        /\ \A i \in DOMAIN references : references'[i] = references[i]
        /\ references'[at] = link
    BY <1>2, <2>0, <2>3 DEF IndexInv
  <2>5. at <= MaxReferences
    BY <1>2, <2>0, IndexErrors, LimitsAssumption
  <2>6. Node' = Node
    BY <1>2 DEF Node
  <2>7. ASSUME NEW n \in Node', NEW i \in DOMAIN edges'[n]
        PROVE  IF edges'[n][i].to = "Component" THEN edges'[n][i].index \in Node'
               ELSE edges'[n][i].index \in DOMAIN references'
    <3>1. CASE i \in DOMAIN edges[n] /\ added[n][i] = edges[n][i]
      BY <1>2, <2>0, <2>4, <2>6, <3>1 DEF TypeOK
    <3>2. QED
      BY <1>2, <2>1, <2>4, <2>6, <2>7, <3>1
  <2>8. \A i \in DOMAIN references' : references'[i].target \in Node' \cup {None}
    BY <1>2, <2>0, <2>4, <2>6 DEF TypeOK, link
  <2>9. open' # <<>> /\ DOMAIN open' = DOMAIN open
    BY <1>2, <2>2 DEF IndexInv
  <2>10. /\ frames' = <<>> /\ active' = {} /\ traversal' = <<>> /\ components' = components
    BY <1>2 DEF IndexInv, traverseVars
  <2>11. TypeOK'
    BY <1>2, <2>0, <2>1, <2>2, <2>4, <2>5, <2>6, <2>7, <2>8, <2>9, <2>10 DEF TypeOK
  <2>12. QED
    BY <1>2, <2>1, <2>2, <2>4, <2>9, <2>10, <2>11 DEF IndexInv
<1>3. QED
  BY <1>1, <1>2 DEF Refer

\* Index::component returns.
LEMMA CloseTypes ==
    ASSUME IndexInv, outcome = None, stage = "index", Close
    PROVE  IndexInv'
<1>1. TypeOK /\ Len(open) \in Nat \ {0} /\ open \in Seq(Reading)
  BY TopTypes DEF IndexInv
<1>2. /\ open' = SubSeq(open, 1, Len(open) - 1)
      /\ stage' = IF Len(open) = 1 THEN "resolve" ELSE stage
      /\ UNCHANGED <<components, references, edges, frames, active, traversal, outcome>>
  BY DEF Close, traverseVars
<1>3. /\ open' \in Seq(Reading) /\ Len(open') = Len(open) - 1
      /\ \A i \in DOMAIN open' : i \in DOMAIN open /\ open'[i] = open[i]
  BY <1>1, <1>2, FrontTypes
<1>4. Node' = Node
  BY <1>2 DEF Node
<1>5. /\ \A i \in DOMAIN open' : open'[i].node \in Node'
      /\ stage' \in {"index", "resolve"}
  BY <1>1, <1>2, <1>3, <1>4 DEF TypeOK
<1>6. TypeOK'
  BY <1>1, <1>2, <1>4, <1>5 DEF TypeOK
<1>7. stage' = "index" => open' # <<>>
  <2>1. stage' = "index" => Len(open) # 1
    BY <1>2
  <2>2. stage' = "index" => Len(open') # 0
    BY <1>1, <1>3, <2>1
  <2>3. QED
    BY <2>2, EmptySeq
<1>8. QED
  BY <1>2, <1>3, <1>5, <1>6, <1>7 DEF IndexInv

\* A nonempty set of numbers has a least one.
LEMMA MinIsLeast ==
    ASSUME NEW S \in SUBSET Nat, S # {}
    PROVE  Min(S) \in S /\ \A y \in S : Min(S) <= y
<1> DEFINE R == {ss \in Nat \X Nat : ss[1] < ss[2]}
<1>1. IsWellFoundedOn(R, Nat)
  BY NatLessThanWellFounded DEF OpToRel
<1> HIDE DEF R
<1>2. \E x \in S : \A y \in S : ~(<<y, x>> \in R)
  BY <1>1, WFMin
<1>3. \E x \in S : \A y \in S : x <= y
  <2>1. PICK x \in S : \A y \in S : ~(<<y, x>> \in R)
    BY <1>2
  <2>2. ASSUME NEW y \in S PROVE x <= y
    <3>1. x \in Nat /\ y \in Nat
      OBVIOUS
    <3>2. y < x => <<y, x>> \in R
      BY <3>1 DEF R
    <3>3. QED
      BY <2>1, <3>1, <3>2
  <2>3. QED
    BY <2>2
<1>4. QED
  BY <1>3 DEF Min

\* An id that is declared names a component.
LEMMA NamedIsNode ==
    ASSUME NEW id, \E n \in Node : components[n].id = id
    PROVE  Named(id) \in Node /\ components[Named(id)].id = id
  BY DEF Named

\* The errors of resolve_targets are outcomes, and without one a local link names
\* a component.
LEMMA LinkErrors ==
    ASSUME NEW r
    PROVE  /\ ReferenceError(r) \in Outcomes \cup {None}
           /\ ReferenceError(r) = None =>
                 \/ r.href = Nonlocal
                 \/ /\ Named(r.href) \in Node
                    /\ TargetFits(r.slot, components[Named(r.href)].kind)
<1>1. {"InvalidReference", "UnresolvedLocal", "InvalidTarget"} \subseteq Outcomes
  BY DEF Outcomes
<1>2. ReferenceError(r) \in Outcomes \cup {None}
  BY <1>1 DEF ReferenceError
<1>3. ASSUME ReferenceError(r) = None, r.href # Nonlocal
      PROVE  /\ \E n \in Node : components[n].id = r.href
             /\ TargetFits(r.slot, components[Named(r.href)].kind)
  BY <1>1, <1>3, OutcomeAssumption DEF ReferenceError
<1>4. QED
  BY <1>2, <1>3, NamedIsNode

\* resolve_targets keeps the types, and opens the traversal at the root.
LEMMA ResolveTypes ==
    ASSUME IndexInv, outcome = None, Resolve
    PROVE  IndexInv'
<1> DEFINE bad == {i \in DOMAIN references : ReferenceError(references[i]) # None}
<1>1. TypeOK /\ references \in Seq(Link) /\ DOMAIN references \subseteq Nat
  BY DEF IndexInv
<1>2. CASE bad # {}
  <2>1. Min(bad) \in bad
    BY <1>1, <1>2, MinIsLeast
  <2>2. ReferenceError(references[Min(bad)]) \in Outcomes
    BY <2>1, LinkErrors
  <2>3. QED
    BY <1>2, <2>2, RefuseTypes DEF Resolve
<1>3. CASE bad = {}
  <2>0. PICK resolved :
            resolved = [i \in DOMAIN references |->
                          IF references[i].href = Nonlocal THEN None
                          ELSE Named(references[i].href)]
    OBVIOUS
  <2>1. /\ stage' = "traverse"
        /\ references' = [i \in DOMAIN references |->
                            [references[i] EXCEPT !.target = resolved[i]]]
        /\ frames' = <<[node |-> 1, next |-> 1, element |-> FALSE]>>
        /\ active' = {1} /\ traversal' = <<1>>
        /\ UNCHANGED <<open, components, edges, outcome>>
    BY <1>3, <2>0 DEF Resolve
  <2>2. \A i \in DOMAIN references : resolved[i] \in Node \cup {None}
    BY <1>3, <2>0, LinkErrors
  <2>3. Node \subseteq Nat /\ 1 \in Node /\ Node' = Node
    BY <1>1, <2>1 DEF IndexInv, TypeOK, Node
  <2>4. \A i \in DOMAIN references :
            /\ [references[i] EXCEPT !.target = resolved[i]] \in Link
            /\ [references[i] EXCEPT !.target = resolved[i]].target = resolved[i]
    <3>1. ASSUME NEW l \in Link, NEW t \in Nat \cup {None}
          PROVE  [l EXCEPT !.target = t] \in Link /\ [l EXCEPT !.target = t].target = t
      BY <3>1 DEF Link
    <3>2. \A i \in DOMAIN references : references[i] \in Link /\ resolved[i] \in Nat \cup {None}
      <4>1. \A i \in DOMAIN references : references[i] \in Link
        BY <1>1
      <4>2. QED
        BY <2>2, <2>3, <4>1
    <3>3. QED
      BY <3>1, <3>2
  <2>5. /\ references' \in Seq(Link) /\ Len(references') = Len(references)
        /\ DOMAIN references' = DOMAIN references
        /\ \A i \in DOMAIN references : references'[i].target = resolved[i]
    <3>1. /\ Len(references) \in Nat /\ DOMAIN references = 1 .. Len(references)
          /\ \A i \in 1 .. Len(references) : references'[i] \in Link
      BY <1>1, <2>1, <2>4
    <3>2. references' \in [1 .. Len(references) -> Link]
      BY <2>1, <3>1
    <3>3. references' \in Seq(Link) /\ Len(references') = Len(references)
      BY <3>1, <3>2, SeqDef
    <3>4. QED
      BY <2>1, <2>4, <3>3
  <2>6. /\ frames' \in Seq(Visit)
        /\ \A i \in DOMAIN frames' : /\ frames'[i].node = 1 /\ frames'[i].next \in Nat
                                    /\ frames'[i].element \in BOOLEAN
    <3>1. PICK first : first = [node |-> 1, next |-> 1, element |-> FALSE]
      OBVIOUS
    <3>2. /\ first \in Visit /\ first.node = 1 /\ first.next \in Nat
          /\ first.element \in BOOLEAN
      BY <3>1 DEF Visit
    <3>3. frames' = <<first>>
      BY <2>1, <3>1
    <3>4. QED
      BY <3>2, <3>3, SingleTypes
  <2>7. TypeOK'
    <3>1. \A i \in DOMAIN references' : references'[i].target \in Node' \cup {None}
      BY <2>2, <2>3, <2>5
    <3>2. \A i \in DOMAIN frames' : /\ frames'[i].node \in Node' /\ frames'[i].next \in Nat
                                    /\ frames'[i].element \in BOOLEAN
      BY <2>3, <2>6
    <3>3. active' \subseteq Node' /\ traversal' \in Seq(Node')
      BY <2>1, <2>3, SingleTypes
    <3>4. QED
      BY <1>1, <2>1, <2>3, <2>5, <3>1, <3>2, <3>3 DEF TypeOK
  <2>8. QED
    BY <2>1, <2>5, <2>6, <2>7 DEF IndexInv
<1>4. QED
  BY <1>2, <1>3

\* The innermost frame visits a component of the index.
LEMMA FrameTypes ==
    ASSUME IndexInv, frames # <<>>
    PROVE  /\ Len(frames) \in Nat \ {0} /\ DOMAIN frames = 1 .. Len(frames)
           /\ Frame \in Visit /\ Frame.node \in Node
           /\ Frame.next \in Nat \ {0} /\ Frame.element \in BOOLEAN
           /\ edges[Frame.node] \in Seq(Edge)
<1>1. /\ Len(frames) \in Nat \ {0} /\ Len(frames) \in DOMAIN frames /\ Frame \in Visit
      /\ DOMAIN frames = 1 .. Len(frames)
  BY LastTypes DEF IndexInv, Frame
<1>2. Frame.node \in Node
  BY <1>1 DEF IndexInv, TypeOK, Frame
<1>3. edges[Frame.node] \in Seq(Edge)
  BY <1>2 DEF IndexInv, TypeOK, Node
<1>4. QED
  BY <1>1, <1>2, <1>3 DEF Visit

\* An edge leads to a component of the index, unless it is nonlocal.
LEMMA EdgeTypes ==
    ASSUME IndexInv, NEW n \in Node, NEW i \in DOMAIN edges[n]
    PROVE  edges[n][i] \in Edge /\ Target(edges[n][i]) \in Node \cup {None}
<1>1. edges[n] \in Seq(Edge)
  BY DEF IndexInv, TypeOK, Node
<1>2. edges[n][i] \in Edge
  BY <1>1
<1>3. Target(edges[n][i]) \in Node \cup {None}
  BY DEF IndexInv, TypeOK, Target
<1>4. QED
  BY <1>2, <1>3

\* The edge at which the traversal is.
LEMMA AtEdgeTypes ==
    ASSUME IndexInv, AtEdge
    PROVE  /\ Frame.next \in DOMAIN edges[Frame.node]
           /\ edges[Frame.node][Frame.next] \in Edge
           /\ Target(edges[Frame.node][Frame.next]) \in Node \cup {None}
<1>1. Frame.node \in Node /\ Frame.next \in Nat \ {0} /\ edges[Frame.node] \in Seq(Edge)
  BY FrameTypes DEF AtEdge
<1>2. Frame.next \in DOMAIN edges[Frame.node]
  BY <1>1 DEF AtEdge
<1>3. QED
  BY <1>1, <1>2, EdgeTypes

\* The frames after an edge.
LEMMA AdvancedTypes ==
    ASSUME IndexInv, frames # <<>>
    PROVE  /\ Advanced \in Seq(Visit) /\ Len(Advanced) = Len(frames)
           /\ DOMAIN Advanced = DOMAIN frames
           /\ \A i \in DOMAIN frames : /\ Advanced[i].node = frames[i].node
                                       /\ Advanced[i].element = frames[i].element
                                       /\ Advanced[i].next =
                                            IF i = Len(frames) THEN frames[i].next + 1
                                            ELSE frames[i].next
<1> DEFINE frame == [Frame EXCEPT !.next = @ + 1]
<1>1. frames \in Seq(Visit) /\ Len(frames) \in 1 .. Len(frames) /\ Frame \in Visit
  BY FrameTypes DEF IndexInv
<1>2. /\ frame \in Visit /\ frame.node = Frame.node /\ frame.element = Frame.element
      /\ frame.next = Frame.next + 1
  <2>1. Frame \in [node : Nat, next : Nat \ {0}, element : BOOLEAN]
    BY <1>1 DEF Visit
  <2>2. Frame.next + 1 \in Nat \ {0}
    BY <2>1
  <2>3. QED
    BY <2>1, <2>2 DEF Visit
<1>3. Advanced = [frames EXCEPT ![Len(frames)] = frame]
  BY <1>1 DEF Advanced, Frame
<1> HIDE DEF frame
<1>4. QED
  BY <1>1, <1>2, <1>3 DEF Frame

\* The errors of a visit are outcomes.
LEMMA VisitErrors ==
    ASSUME NEW e, NEW t, NEW element
    PROVE  VisitError(e, t, element) \in Outcomes \cup {None}
<1>1. {"InvalidTarget", "InlineElementValue", "Cycle", "DepthLimit", "TraversalLimit"}
        \subseteq Outcomes
  BY DEF Outcomes
<1>2. QED
  BY <1>1 DEF VisitError

\* What is not of the traversal is the same after a round.
Visited ==
    /\ UNCHANGED <<stage, open, components, references, edges>>
    /\ outcome' \in Outcomes \cup {None}

\* A round keeps the types if its frames have them.
LEMMA VisitedTypes ==
    ASSUME IndexInv, stage = "traverse", Visited, frames' \in Seq(Visit),
           \A i \in DOMAIN frames' : frames'[i].node \in Node,
           active' \subseteq Node, traversal' \in Seq(Node),
           outcome' = None => outcome = None
    PROVE  IndexInv'
<1>1. Node' = Node
  BY DEF Visited, Node
<1>2. \A i \in DOMAIN frames' : frames'[i] \in Visit
  OBVIOUS
<1>3. \A i \in DOMAIN frames' : /\ frames'[i].node \in Node' /\ frames'[i].next \in Nat
                                /\ frames'[i].element \in BOOLEAN
  BY <1>1, <1>2 DEF Visit
<1>4. TypeOK'
  BY <1>1, <1>3 DEF IndexInv, Visited, TypeOK
<1>5. QED
  BY <1>4 DEF IndexInv, Visited

\* What an edge leads to is part of an element or not.
LEMMA ElementTypes ==
    ASSUME NEW slot \in Slots, NEW element \in BOOLEAN
    PROVE  Element(slot, element) \in BOOLEAN
  BY DEF Slots, Element

\* Each round of traverse keeps the types.
LEMMA TraverseTypes ==
    ASSUME IndexInv, outcome = None, Traverse
    PROVE  IndexInv'
<1>0. /\ stage = "traverse" /\ TypeOK /\ frames \in Seq(Visit)
      /\ \A i \in DOMAIN frames : frames[i].node \in Node
  BY DEF IndexInv, TypeOK, Traverse, Leave, Skip, Enter, Complete, AtEdge
<1>1. CASE Leave
  <2>1. frames # <<>> /\ frames' = SubSeq(frames, 1, Len(frames) - 1) /\ Visited
    BY <1>1 DEF Leave, Visited, indexVars
  <2>2. active' \subseteq Node /\ traversal' \in Seq(Node)
    BY <1>0, <1>1 DEF Leave, TypeOK
  <2>3. frames' \in Seq(Visit) /\ \A i \in DOMAIN frames' : frames'[i].node \in Node
    BY <1>0, <2>1, FrontTypes
  <2>4. QED
    BY <1>0, <2>1, <2>2, <2>3, VisitedTypes
<1>2. CASE Skip
  <2>1. frames # <<>> /\ frames' = Advanced /\ Visited /\ UNCHANGED <<active, traversal>>
    BY <1>2 DEF Skip, AtEdge, Visited, indexVars
  <2>2. frames' \in Seq(Visit) /\ \A i \in DOMAIN frames' : frames'[i].node \in Node
    BY <1>0, <2>1, AdvancedTypes
  <2>3. QED
    BY <1>0, <2>1, <2>2, VisitedTypes DEF TypeOK
<1>3. CASE Enter
  <2>1. PICK e, t, element, error :
            /\ e = edges[Frame.node][Frame.next] /\ t = Target(e)
            /\ element = Element(e.slot, Frame.element)
            /\ error = VisitError(e, t, element)
    OBVIOUS
  <2>2. /\ AtEdge /\ t # None
        /\ \/ error # None /\ Fail(error)
           \/ /\ error = None
              /\ frames' = Append(Advanced, [node |-> t, next |-> 1, element |-> element])
              /\ active' = active \cup {t}
              /\ traversal' = Append(traversal, t)
              /\ UNCHANGED <<stage, indexVars, outcome>>
    BY <1>3, <2>1 DEF Enter
  <2>3. t \in Node /\ e \in Edge /\ error \in Outcomes \cup {None}
    BY <2>1, <2>2, AtEdgeTypes, VisitErrors
  <2>4. CASE error # None /\ Fail(error)
    <3>1. Visited /\ UNCHANGED <<frames, active, traversal>> /\ outcome' # None
      BY <2>3, <2>4 DEF Fail, Visited, indexVars, traverseVars
    <3>2. QED
      BY <1>0, <3>1, VisitedTypes DEF TypeOK
  <2>5. CASE /\ frames' = Append(Advanced, [node |-> t, next |-> 1, element |-> element])
             /\ active' = active \cup {t}
             /\ traversal' = Append(traversal, t)
             /\ UNCHANGED <<stage, indexVars, outcome>>
    <3>1. element \in BOOLEAN
      BY <2>1, <2>2, <2>3, FrameTypes, ElementTypes DEF AtEdge, Edge
    <3>2. PICK frame : frame = [node |-> t, next |-> 1, element |-> element]
      OBVIOUS
    <3>3. frame \in Visit /\ frame.node = t
      BY <1>0, <2>3, <3>1, <3>2 DEF Visit, Node
    <3>4. /\ Advanced \in Seq(Visit) /\ DOMAIN Advanced = DOMAIN frames
          /\ \A i \in DOMAIN Advanced : Advanced[i].node \in Node
      BY <1>0, <2>2, AdvancedTypes DEF AtEdge
    <3>5. frames' = Append(Advanced, frame)
      BY <2>5, <3>2
    <3>6. frames' \in Seq(Visit) /\ \A i \in DOMAIN frames' : frames'[i].node \in Node
      BY <2>3, <3>3, <3>4, <3>5, AppendTypes
    <3>7. Visited /\ active' \subseteq Node /\ traversal' \in Seq(Node)
      BY <1>0, <2>3, <2>5, AppendTypes DEF Visited, indexVars, TypeOK
    <3>8. QED
      BY <1>0, <3>6, <3>7, VisitedTypes
  <2>6. QED
    BY <2>2, <2>4, <2>5
<1>4. CASE Complete
  <2>1. Visited /\ UNCHANGED <<frames, active, traversal>> /\ outcome' # None
    BY <1>4, OutcomeAssumption DEF Complete, Visited, indexVars, traverseVars, Outcomes
  <2>2. QED
    BY <1>0, <2>1, VisitedTypes DEF TypeOK
<1>5. QED
  BY <1>1, <1>2, <1>3, <1>4 DEF Traverse

\* The index starts with the root alone.
LEMMA InitTypes == Init => IndexInv
<1> SUFFICES ASSUME Init PROVE IndexInv
  OBVIOUS
<1>1. PICK part \in Part : components = <<part>>
  BY DEF Init
<1>2. components \in Seq(Part) /\ Len(components) = 1 /\ Node = {1} /\ components # <<>>
  BY <1>1, SingleTypes DEF Node
<1>3. [node |-> 1, at |-> 1] \in Reading /\ <<>> \in Seq(Edge)
  BY DEF Reading
<1>4. PICK first : first = [node |-> 1, at |-> 1]
  OBVIOUS
<1>5. open \in Seq(Reading) /\ open # <<>> /\ \A i \in DOMAIN open : open[i].node \in Node
  <2>1. first \in Reading /\ first.node = 1 /\ open = <<first>>
    BY <1>3, <1>4 DEF Init
  <2>2. /\ open \in Seq(Reading) /\ DOMAIN open = {1} /\ open[1] = first
        /\ Len(open) = 1
    BY <2>1, SingleTypes
  <2>3. QED
    BY <1>2, <2>1, <2>2
<1>6. /\ edges \in Seq(Seq(Edge)) /\ Len(edges) = 1 /\ edges[1] = <<>> /\ DOMAIN edges = {1}
  BY <1>3, SingleTypes DEF Init
<1>7. \A n \in Node : \A i \in DOMAIN edges[n] : FALSE
  BY <1>2, <1>6
<1>8. /\ references = <<>> /\ frames = <<>> /\ active = {} /\ traversal = <<>>
      /\ stage = "index" /\ outcome = None
  BY DEF Init
<1>9. TypeOK
  BY <1>2, <1>5, <1>6, <1>7, <1>8, LimitsAssumption DEF TypeOK
<1>10. QED
  BY <1>2, <1>5, <1>6, <1>8, <1>9 DEF IndexInv

\* Every step keeps the types.
LEMMA NextTypes == IndexInv /\ [Next]_vars => IndexInv'
<1> SUFFICES ASSUME IndexInv, [Next]_vars PROVE IndexInv'
  OBVIOUS
<1>1. CASE UNCHANGED vars
  BY <1>1 DEF vars, indexVars, traverseVars, IndexInv, TypeOK, Node
<1>2. CASE outcome = None /\ Index
  BY <1>2, DeclareTypes, ReferTypes, CloseTypes DEF Index
<1>3. QED
  BY <1>1, <1>2, ResolveTypes, TraverseTypes DEF Next

\* references.rs: for any document and limits, what resolve indexes stays within
\* the limits and every edge, target, frame and visit is of a declared component.
THEOREM TypeCorrect == Spec => []TypeOK
<1>1. IndexInv => TypeOK
  BY DEF IndexInv
<1>2. QED
  BY <1>1, InitTypes, NextTypes, PTL DEF Spec

-----------------------------------------------------------------------------
(* The graph that is traversed.                                            *)

\* An inline member fits its slot, a link has the slot of its edge, and a
\* resolved link fits it too.
GraphInv ==
    /\ \A n \in Node : \A i \in DOMAIN edges[n] :
          IF edges[n][i].to = "Component"
          THEN TargetFits(edges[n][i].slot, components[edges[n][i].index].kind)
          ELSE references[edges[n][i].index].slot = edges[n][i].slot
    /\ stage = "traverse" =>
          \A i \in DOMAIN references : references[i].target # None =>
              TargetFits(references[i].slot, components[references[i].target].kind)

\* The root has no edges yet.
LEMMA InitGraph == Init => GraphInv
<1> SUFFICES ASSUME Init PROVE GraphInv
  OBVIOUS
<1>1. PICK part \in Part : components = <<part>>
  BY DEF Init
<1>2. Node = {1}
  BY <1>1, SingleTypes DEF Node
<1>3. <<>> \in Seq(Edge) /\ edges = <<<<>>>>
  BY DEF Init
<1>4. edges[1] = <<>>
  BY <1>3, SingleTypes
<1>5. QED
  BY <1>2, <1>4 DEF GraphInv, Init

\* An error leaves no graph.
LEMMA RefuseGraph == ASSUME stage # "traverse", NEW error, Refuse(error) PROVE GraphInv'
<1>1. components' = <<>> /\ stage' # "traverse"
  BY DEF Refuse
<1>2. QED
  BY <1>1 DEF GraphInv, Node

\* An inline component fits its slot.
LEMMA DeclareGraph ==
    ASSUME IndexInv, GraphInv, outcome = None, stage = "index", NEW p, NEW part \in Part,
           Declare(p, part)
    PROVE  GraphInv'
<1> DEFINE node == Len(components) + 1
           added == AddEdge(p, "Component", node)
<1>1. CASE Refuse(ComponentError(p, part.kind, part.id))
  BY <1>1, RefuseGraph
<1>2. CASE /\ ComponentError(p, part.kind, part.id) = None
           /\ components' = Append(components, part)
           /\ edges' = Append(added, <<>>)
           /\ UNCHANGED <<stage, references>>
  <2>1. /\ MayRead(p) /\ node \in Nat /\ TypeOK /\ components \in Seq(Part)
        /\ <<>> \in Seq(Edge) /\ Len(edges) = Len(components)
    BY DEF Declare, IndexInv, TypeOK
  <2>2. /\ added \in Seq(Seq(Edge)) /\ Len(added) = Len(edges)
        /\ \A n \in Node : \A i \in DOMAIN added[n] :
              \/ i \in DOMAIN edges[n] /\ added[n][i] = edges[n][i]
              \/ /\ added[n][i].slot = Slot(p) /\ added[n][i].to = "Component"
                 /\ added[n][i].index = node
    BY <2>1, AddEdgeTypes
  <2>3. TargetFits(Slot(p), part.kind)
    <3>1. Slot(p) = "Quality" => part.kind \in QualityKinds
      BY DEF Declare, Permitted
    <3>2. Slot(p) = "ElementCount" => part.kind = "Count"
      <4>1. "InvalidTarget" # None /\ "Quality" # None
        BY OutcomeAssumption DEF Outcomes
      <4>2. QED
        BY <1>2, <4>1 DEF ComponentError
    <3>3. QED
      BY <3>1, <3>2 DEF TargetFits
  <2> HIDE DEF added
  <2>4. /\ DOMAIN components' = DOMAIN components \cup {node}
        /\ \A n \in DOMAIN components : components'[n] = components[n]
        /\ components'[node] = part
    BY <1>2, <2>1, AppendTypes
  <2>5. /\ DOMAIN edges' = DOMAIN components \cup {node} /\ DOMAIN added = DOMAIN components
        /\ edges'[node] = <<>> /\ \A n \in DOMAIN components : edges'[n] = added[n]
    BY <1>2, <2>1, <2>2, AppendTypes
  <2>6. ASSUME NEW n \in Node', NEW i \in DOMAIN edges'[n]
        PROVE  IF edges'[n][i].to = "Component"
               THEN TargetFits(edges'[n][i].slot, components'[edges'[n][i].index].kind)
               ELSE references'[edges'[n][i].index].slot = edges'[n][i].slot
    <3>1. n \in Node /\ edges'[n] = added[n]
      BY <2>4, <2>5, <2>6 DEF Node
    <3>2. CASE i \in DOMAIN edges[n] /\ added[n][i] = edges[n][i]
      <4>1. PICK e : e = edges[n][i]
        OBVIOUS
      <4>2. /\ e.to = "Component" => e.index \in DOMAIN components
            /\ IF e.to = "Component" THEN TargetFits(e.slot, components[e.index].kind)
               ELSE references[e.index].slot = e.slot
        BY <2>1, <3>1, <3>2, <4>1 DEF GraphInv, TypeOK, Node
      <4>3. edges'[n][i] = e /\ references' = references
        BY <1>2, <3>1, <3>2, <4>1
      <4>4. CASE e.to = "Component"
        <5>1. components'[e.index] = components[e.index]
          BY <2>4, <4>2, <4>4
        <5>2. QED
          BY <4>2, <4>3, <4>4, <5>1
      <4>5. QED
        BY <4>2, <4>3, <4>4
    <3>3. CASE /\ added[n][i].slot = Slot(p) /\ added[n][i].to = "Component"
               /\ added[n][i].index = node
      BY <2>3, <2>4, <3>1, <3>3
    <3>4. QED
      BY <2>2, <2>6, <3>1, <3>2, <3>3
  <2>7. QED
    BY <1>2, <2>6 DEF GraphInv
<1>3. QED
  BY <1>1, <1>2 DEF Declare

\* A link remembers its slot.
LEMMA ReferGraph ==
    ASSUME IndexInv, GraphInv, outcome = None, stage = "index", NEW p, NEW href \in Href,
           NEW mixed \in BOOLEAN, Refer(p, href, mixed)
    PROVE  GraphInv'
<1> DEFINE at == Len(references) + 1
           link == [slot |-> Slot(p), href |-> href, target |-> None]
           added == AddEdge(p, "Reference", at)
<1>1. CASE Refuse(LinkError(p, href, mixed))
  BY <1>1, RefuseGraph
<1>2. CASE /\ references' = Append(references, link)
           /\ edges' = added
           /\ UNCHANGED <<stage, components>>
  <2>1. MayRead(p) /\ at \in Nat /\ TypeOK /\ references \in Seq(Link) /\ Node' = Node
    BY <1>2 DEF Refer, IndexInv, Node
  <2>2. \A n \in Node : \A i \in DOMAIN added[n] :
              \/ i \in DOMAIN edges[n] /\ added[n][i] = edges[n][i]
              \/ /\ added[n][i].slot = Slot(p) /\ added[n][i].to = "Reference"
                 /\ added[n][i].index = at
    BY <2>1, AddEdgeTypes
  <2>3. link \in Link /\ link.slot = Slot(p)
    BY <2>1, TopTypes DEF Link, MayRead
  <2> HIDE DEF added, link
  <2>4. /\ \A i \in DOMAIN references : references'[i] = references[i]
        /\ references'[at] = link
    BY <1>2, <2>1, <2>3, AppendTypes
  <2>5. ASSUME NEW n \in Node, NEW i \in DOMAIN added[n]
        PROVE  IF added[n][i].to = "Component"
               THEN TargetFits(added[n][i].slot, components'[added[n][i].index].kind)
               ELSE references'[added[n][i].index].slot = added[n][i].slot
    <3>1. CASE i \in DOMAIN edges[n] /\ added[n][i] = edges[n][i]
      <4>1. edges[n][i].to # "Component" => edges[n][i].index \in DOMAIN references
        BY <2>1, <3>1 DEF TypeOK
      <4>2. QED
        BY <1>2, <2>4, <3>1, <4>1 DEF GraphInv
    <3>2. CASE /\ added[n][i].slot = Slot(p) /\ added[n][i].to = "Reference"
               /\ added[n][i].index = at
      BY <2>3, <2>4, <3>2
    <3>3. QED
      BY <2>2, <2>5, <3>1, <3>2
  <2>6. QED
    BY <1>2, <2>1, <2>5 DEF GraphInv
<1>3. QED
  BY <1>1, <1>2 DEF Refer

\* A resolved link fits its slot.
LEMMA ResolveGraph ==
    ASSUME IndexInv, GraphInv, outcome = None, Resolve
    PROVE  GraphInv'
<1> DEFINE bad == {i \in DOMAIN references : ReferenceError(references[i]) # None}
<1>1. CASE \E error : Refuse(error)
  BY <1>1, RefuseGraph DEF Resolve
<1>2. CASE /\ bad = {} /\ stage' = "traverse" /\ UNCHANGED <<components, edges>>
           /\ references' = [i \in DOMAIN references |->
                               [references[i] EXCEPT !.target =
                                  IF references[i].href = Nonlocal THEN None
                                  ELSE Named(references[i].href)]]
  <2>0. references \in Seq(Link) /\ TypeOK /\ Node' = Node
    BY <1>2 DEF IndexInv, Node
  <2>1. ASSUME NEW i \in DOMAIN references
        PROVE  /\ references'[i].slot = references[i].slot
               /\ references'[i].target # None =>
                    TargetFits(references[i].slot, components[references'[i].target].kind)
    <3>1. PICK t : t = IF references[i].href = Nonlocal THEN None
                       ELSE Named(references[i].href)
      OBVIOUS
    <3>2. references'[i] = [references[i] EXCEPT !.target = t] /\ references[i] \in Link
      BY <1>2, <2>0, <3>1
    <3>3. references'[i].slot = references[i].slot /\ references'[i].target = t
      BY <3>2 DEF Link
    <3>4. t # None => TargetFits(references[i].slot, components[t].kind)
      BY <1>2, <3>1, LinkErrors
    <3>5. QED
      BY <3>3, <3>4
  <2>2. DOMAIN references' = DOMAIN references
    BY <1>2
  <2>3. \A n \in Node : \A i \in DOMAIN edges[n] :
            edges[n][i].to # "Component" => edges[n][i].index \in DOMAIN references
    BY <2>0 DEF TypeOK
  <2>4. QED
    BY <1>2, <2>0, <2>1, <2>2, <2>3 DEF GraphInv
<1>3. QED
  BY <1>1, <1>2 DEF Resolve

\* Every step keeps the slots filled with what fits.
LEMMA NextGraph == IndexInv /\ GraphInv /\ [Next]_vars => GraphInv'
<1> SUFFICES ASSUME IndexInv, GraphInv, [Next]_vars PROVE GraphInv'
  OBVIOUS
<1>1. CASE UNCHANGED <<components, references, edges>> /\ (stage' = "traverse" => stage = "traverse")
  BY <1>1 DEF GraphInv, Node
<1>2. CASE outcome = None /\ Index
  BY <1>1, <1>2, DeclareGraph, ReferGraph DEF Index, Close
<1>3. CASE outcome = None /\ Traverse
  BY <1>1, <1>3 DEF Traverse, Leave, Skip, Enter, Fail, Complete, indexVars
<1>4. CASE UNCHANGED vars
  BY <1>1, <1>4 DEF vars, indexVars
<1>5. QED
  BY <1>2, <1>3, <1>4, ResolveGraph DEF Next

\* What an edge that is followed leads to fits its slot.
LEMMA FollowedFits ==
    ASSUME IndexInv, GraphInv, stage = "traverse", NEW n \in Node, NEW i \in DOMAIN edges[n],
           Target(edges[n][i]) # None
    PROVE  /\ Target(edges[n][i]) \in Node
           /\ TargetFits(edges[n][i].slot, components[Target(edges[n][i])].kind)
<1>1. Target(edges[n][i]) \in Node
  BY EdgeTypes
<1>2. edges[n][i].to # "Component" => edges[n][i].index \in DOMAIN references
  BY DEF IndexInv, TypeOK
<1>3. QED
  BY <1>1, <1>2 DEF GraphInv, Target

-----------------------------------------------------------------------------
(* The stack.                                                              *)

\* The slots after the last element type, up to the n-th, are of parts.
Describes(slots, n) ==
    \E i \in 1 .. n : /\ slots[i] = "ElementType"
                      /\ \A j \in i + 1 .. n : slots[j] \in {"Component", "Selector"}

\* Element says of one more slot what the slots say.
LEMMA ElementDescribes ==
    ASSUME NEW n \in Nat \ {0}, NEW slots, slots[n] \in Slots, NEW element \in BOOLEAN,
           element = TRUE <=> Describes(slots, n - 1)
    PROVE  Element(slots[n], element) = TRUE <=> Describes(slots, n)
<1>1. CASE slots[n] = "ElementType"
  <2>1. n \in 1 .. n /\ \A j \in n + 1 .. n : FALSE
    OBVIOUS
  <2>2. Describes(slots, n)
    BY <1>1, <2>1 DEF Describes
  <2>3. QED
    BY <1>1, <2>2 DEF Element
<1>2. CASE slots[n] \in {"Component", "Selector"}
  <2>1. Element(slots[n], element) = element
    BY <1>2 DEF Element
  <2>2. ASSUME Describes(slots, n - 1) PROVE Describes(slots, n)
    <3>1. PICK i \in 1 .. n - 1 : /\ slots[i] = "ElementType"
                                  /\ \A j \in i + 1 .. n - 1 :
                                        slots[j] \in {"Component", "Selector"}
      BY <2>2 DEF Describes
    <3>2. i \in 1 .. n /\ \A j \in i + 1 .. n : j = n \/ j \in i + 1 .. n - 1
      BY <3>1
    <3>3. QED
      BY <1>2, <3>1, <3>2 DEF Describes
  <2>3. ASSUME Describes(slots, n) PROVE Describes(slots, n - 1)
    <3>1. PICK i \in 1 .. n : /\ slots[i] = "ElementType"
                              /\ \A j \in i + 1 .. n : slots[j] \in {"Component", "Selector"}
      BY <2>3 DEF Describes
    <3>2. i # n
      BY <1>2, <3>1
    <3>3. i \in 1 .. n - 1 /\ \A j \in i + 1 .. n - 1 : j \in i + 1 .. n
      BY <3>1, <3>2
    <3>4. QED
      BY <3>1, <3>3 DEF Describes
  <2>4. QED
    BY <2>1, <2>2, <2>3
<1>3. CASE slots[n] \in {"ElementCount", "Quality"}
  <2>1. Element(slots[n], element) = FALSE
    BY <1>3 DEF Element
  <2>2. ASSUME Describes(slots, n) PROVE FALSE
    <3>1. PICK i \in 1 .. n : /\ slots[i] = "ElementType"
                              /\ \A j \in i + 1 .. n : slots[j] \in {"Component", "Selector"}
      BY <2>2 DEF Describes
    <3>2. i = n \/ n \in i + 1 .. n
      BY <3>1
    <3>3. QED
      BY <1>3, <3>1, <3>2
  <2>3. QED
    BY <2>1, <2>2
<1>4. QED
  BY <1>1, <1>2, <1>3 DEF Slots

\* The edge through which the traversal left frame j for the next one.
Taken(j) == edges[frames[j].node][frames[j].next - 1]

\* The slots since the innermost element type before frame k are of parts.
InElement(k) ==
    \E i \in 1 .. k - 1 :
        /\ Taken(i).slot = "ElementType"
        /\ \A j \in i + 1 .. k - 1 : Taken(j).slot \in {"Component", "Selector"}

\* The frames are a path from the root that meets no component twice, and the
\* components on it are the active ones.
StackInv ==
    stage = "traverse" =>
        /\ active = {frames[i].node : i \in DOMAIN frames}
        /\ \A i, j \in DOMAIN frames : frames[i].node = frames[j].node => i = j
        /\ frames # <<>> => frames[1].node = 1
        /\ \A j \in 1 .. Len(frames) - 1 :
              /\ frames[j].next - 1 \in DOMAIN edges[frames[j].node]
              /\ Target(Taken(j)) = frames[j + 1].node
        /\ \A k \in DOMAIN frames : k # 1 => frames[k].node # None
        /\ \A k \in DOMAIN frames : frames[k].element = TRUE <=> InElement(k)

\* The traversal starts with a frame of the root.
LEMMA ResolveStack ==
    ASSUME IndexInv, outcome = None, Resolve
    PROVE  StackInv'
<1>1. CASE stage' # "traverse"
  BY <1>1 DEF StackInv
<1>2. CASE stage' = "traverse"
  <2>1. /\ frames' = <<[node |-> 1, next |-> 1, element |-> FALSE]>>
        /\ active' = {1}
    BY <1>2 DEF Resolve, Refuse
  <2>2. PICK first : first = [node |-> 1, next |-> 1, element |-> FALSE]
    OBVIOUS
  <2>3. first \in Visit /\ first.node = 1 /\ first.element = FALSE
    BY <2>2 DEF Visit
  <2>4. DOMAIN frames' = {1} /\ frames'[1] = first /\ Len(frames') = 1
    BY <2>1, <2>2, <2>3, SingleTypes
  <2>5. InElement(1)' <=> FALSE
    BY DEF InElement
  <2>6. active' = {frames'[i].node : i \in DOMAIN frames'}
    BY <2>1, <2>3, <2>4
  <2>7. QED
    BY <2>1, <2>3, <2>4, <2>5, <2>6 DEF StackInv
<1>3. QED
  BY <1>1, <1>2

\* Below the innermost frame nothing changes.
LEMMA TakenStays ==
    ASSUME NEW k \in Nat, \A j \in 1 .. k - 1 : Taken(j)' = Taken(j)
    PROVE  InElement(k)' <=> InElement(k)
  BY DEF InElement

\* A frame is left after its last edge.
LEMMA LeaveStack == ASSUME IndexInv, StackInv, Leave PROVE StackInv'
<1>1. /\ stage = "traverse" /\ frames # <<>> /\ frames' = SubSeq(frames, 1, Len(frames) - 1)
      /\ active' = active \ {Frame.node} /\ UNCHANGED <<edges, references>>
  BY DEF Leave, indexVars
<1>2. /\ Len(frames) \in Nat \ {0} /\ DOMAIN frames = 1 .. Len(frames)
      /\ Len(frames') = Len(frames) - 1 /\ DOMAIN frames' = 1 .. Len(frames) - 1
      /\ \A i \in 1 .. Len(frames) - 1 : frames'[i] = frames[i]
      /\ (frames' # <<>> => Len(frames') \in Nat \ {0})
  <2>1. frames \in Seq(Visit) /\ Len(frames) \in Nat \ {0} /\ DOMAIN frames = 1 .. Len(frames)
    BY <1>1, FrameTypes DEF IndexInv
  <2>2. /\ frames' \in Seq(Visit)
        /\ Len(frames') = Len(frames) - 1 /\ DOMAIN frames' = 1 .. Len(frames) - 1
        /\ \A i \in 1 .. Len(frames) - 1 : frames'[i] = frames[i]
    BY <1>1, <2>1, FrontTypes
  <2>3. frames' # <<>> => Len(frames') \in Nat \ {0}
    BY <2>2, LastTypes
  <2>4. QED
    BY <2>1, <2>2, <2>3
<1>3. \A j \in 1 .. Len(frames) - 1 : Taken(j)' = Taken(j)
  BY <1>1, <1>2 DEF Taken
<1>4. \A k \in 1 .. Len(frames) - 1 : InElement(k)' <=> InElement(k)
  BY <1>2, <1>3, TakenStays
<1>5. active' = {frames'[i].node : i \in DOMAIN frames'}
  <2>1. PICK n \in Nat \ {0} : n = Len(frames)
    BY <1>2
  <2>2. /\ active = {frames[i].node : i \in 1 .. n} /\ n \in 1 .. n
        /\ \A i \in 1 .. n : frames[i].node = frames[n].node => i = n
    <3>1. n \in 1 .. n /\ DOMAIN frames = 1 .. n
      BY <1>2, <2>1
    <3>2. QED
      BY <1>1, <3>1 DEF StackInv
  <2>3. active' = {frames[i].node : i \in 1 .. n - 1}
    <3>1. active' = active \ {frames[n].node} /\ 1 .. n - 1 = (1 .. n) \ {n}
      BY <1>1, <2>1 DEF Frame
    <3>2. QED
      BY <2>2, <3>1
  <2>4. QED
    BY <1>2, <2>1, <2>3
<1>6. \A j \in 1 .. Len(frames') - 1 :
          /\ frames'[j].next - 1 \in DOMAIN edges'[frames'[j].node]
          /\ Target(Taken(j))' = frames'[j + 1].node
  BY <1>1, <1>2, <1>3 DEF StackInv, Target
<1>7. /\ \A i, j \in DOMAIN frames' : frames'[i].node = frames'[j].node => i = j
      /\ frames' # <<>> => frames'[1].node = 1
      /\ \A k \in DOMAIN frames' : k # 1 => frames'[k].node # None
      /\ \A k \in DOMAIN frames' : frames'[k].element = TRUE <=> InElement(k)'
  BY <1>1, <1>2, <1>4 DEF StackInv
<1>8. QED
  BY <1>5, <1>6, <1>7 DEF StackInv

\* A nonlocal edge is passed over.
LEMMA SkipStack == ASSUME IndexInv, StackInv, Skip PROVE StackInv'
<1>1. /\ stage = "traverse" /\ frames # <<>> /\ frames' = Advanced
      /\ UNCHANGED <<edges, references, active>>
  BY DEF Skip, AtEdge, indexVars
<1>2. /\ Len(frames) \in Nat \ {0} /\ DOMAIN frames = 1 .. Len(frames)
      /\ Len(frames') = Len(frames) /\ DOMAIN frames' = 1 .. Len(frames)
      /\ \A i \in DOMAIN frames : /\ frames'[i].node = frames[i].node
                                  /\ frames'[i].element = frames[i].element
                                  /\ i # Len(frames) => frames'[i].next = frames[i].next
  BY <1>1, FrameTypes, AdvancedTypes
<1>3. \A j \in 1 .. Len(frames) - 1 : Taken(j)' = Taken(j)
  BY <1>1, <1>2 DEF Taken
<1>4. \A k \in 1 .. Len(frames) : InElement(k)' <=> InElement(k)
  BY <1>2, <1>3, TakenStays
<1>5. active' = {frames'[i].node : i \in DOMAIN frames'}
  BY <1>1, <1>2 DEF StackInv
<1>6. \A j \in 1 .. Len(frames') - 1 :
          /\ frames'[j].next - 1 \in DOMAIN edges'[frames'[j].node]
          /\ Target(Taken(j))' = frames'[j + 1].node
  <2>1. ASSUME NEW j \in 1 .. Len(frames) - 1
        PROVE  /\ frames'[j].next - 1 \in DOMAIN edges'[frames'[j].node]
               /\ Target(Taken(j))' = frames'[j + 1].node
    <3>1. j \in DOMAIN frames /\ j + 1 \in DOMAIN frames /\ j # Len(frames)
      <4>1. PICK n \in Nat \ {0} : n = Len(frames) /\ DOMAIN frames = 1 .. n
        BY <1>2
      <4>2. QED
        BY <4>1
    <3>2. /\ frames[j].next - 1 \in DOMAIN edges[frames[j].node]
          /\ Target(Taken(j)) = frames[j + 1].node
      BY <1>1 DEF StackInv
    <3>3. Target(Taken(j))' = Target(Taken(j))
      BY <1>1, <1>3 DEF Target
    <3>4. QED
      BY <1>1, <1>2, <3>1, <3>2, <3>3
  <2>2. QED
    BY <1>2, <2>1
<1>7. /\ \A i, j \in DOMAIN frames' : frames'[i].node = frames'[j].node => i = j
      /\ frames' # <<>> => frames'[1].node = 1
      /\ \A k \in DOMAIN frames' : k # 1 => frames'[k].node # None
      /\ \A k \in DOMAIN frames' : frames'[k].element = TRUE <=> InElement(k)'
  BY <1>1, <1>2, <1>4 DEF StackInv
<1>8. QED
  BY <1>5, <1>6, <1>7 DEF StackInv

\* The edge the traversal is at and what it would visit.
AtVisit(e, t, element) ==
    /\ e = edges[Frame.node][Frame.next] /\ t = Target(e)
    /\ element = Element(e.slot, Frame.element)

\* A visit is one more frame over an edge that is now taken.
LEMMA EnterFrames ==
    ASSUME IndexInv, stage = "traverse", AtEdge, NEW e, NEW t, NEW element,
           AtVisit(e, t, element), t # None,
           frames' = Append(Advanced, [node |-> t, next |-> 1, element |-> element])
    PROVE  /\ e \in Edge /\ t \in Node /\ element \in BOOLEAN
           /\ Len(frames) \in Nat \ {0} /\ Len(frames') = Len(frames) + 1
           /\ DOMAIN frames = 1 .. Len(frames) /\ DOMAIN frames' = 1 .. Len(frames) + 1
           /\ \A i \in DOMAIN frames : /\ frames'[i].node = frames[i].node
                                       /\ frames'[i].element = frames[i].element
                                       /\ frames'[i].next = IF i = Len(frames)
                                                            THEN frames[i].next + 1
                                                            ELSE frames[i].next
           /\ frames'[Len(frames) + 1].node = t
           /\ frames'[Len(frames) + 1].next = 1
           /\ frames'[Len(frames) + 1].element = element
<1>1. e \in Edge /\ t \in Node
  BY AtEdgeTypes DEF AtVisit
<1>2. element \in BOOLEAN
  BY <1>1, FrameTypes, ElementTypes DEF AtEdge, Edge, AtVisit
<1>3. PICK frame : frame = [node |-> t, next |-> 1, element |-> element]
  OBVIOUS
<1>4. frame \in Visit /\ frame.node = t /\ frame.next = 1 /\ frame.element = element
  BY <1>1, <1>2, <1>3 DEF Visit, Node, IndexInv, TypeOK
<1>5. /\ Advanced \in Seq(Visit) /\ Len(Advanced) = Len(frames)
      /\ DOMAIN Advanced = DOMAIN frames
      /\ \A i \in DOMAIN frames : /\ Advanced[i].node = frames[i].node
                                  /\ Advanced[i].element = frames[i].element
                                  /\ Advanced[i].next = IF i = Len(frames)
                                                        THEN frames[i].next + 1
                                                        ELSE frames[i].next
  BY AdvancedTypes DEF AtEdge
<1>6. Len(frames) \in Nat \ {0} /\ DOMAIN frames = 1 .. Len(frames)
  BY FrameTypes DEF AtEdge
<1>7. frames' = Append(Advanced, frame)
  BY <1>3
<1>8. /\ Len(frames') = Len(frames) + 1 /\ DOMAIN frames' = 1 .. Len(frames) + 1
      /\ \A i \in DOMAIN frames : frames'[i] = Advanced[i]
      /\ frames'[Len(frames) + 1] = frame
  BY <1>4, <1>5, <1>6, <1>7, AppendTypes
<1>9. QED
  BY <1>1, <1>2, <1>4, <1>5, <1>6, <1>8

\* A component that is not active is visited.
LEMMA EnterStack ==
    ASSUME IndexInv, StackInv, stage = "traverse", AtEdge, NEW e, NEW t, NEW element,
           AtVisit(e, t, element), t # None, t \notin active,
           frames' = Append(Advanced, [node |-> t, next |-> 1, element |-> element]),
           active' = active \cup {t}, UNCHANGED <<edges, references>>
    PROVE  StackInv'
<1>0. PICK n \in Nat : n = Len(frames)
  BY FrameTypes DEF AtEdge
<1>1. /\ e \in Edge /\ t \in Node /\ element \in BOOLEAN
      /\ n \in Nat \ {0} /\ Len(frames') = n + 1
      /\ DOMAIN frames = 1 .. n /\ DOMAIN frames' = 1 .. n + 1
      /\ \A i \in 1 .. n : /\ frames'[i].node = frames[i].node
                           /\ frames'[i].element = frames[i].element
                           /\ i # n => frames'[i].next = frames[i].next
      /\ frames'[n].next = frames[n].next + 1
      /\ frames'[n + 1].node = t /\ frames'[n + 1].next = 1
      /\ frames'[n + 1].element = element
  <2>1. n \in Nat \ {0}
    BY <1>0, FrameTypes DEF AtEdge
  <2>2. n \in 1 .. n
    BY <2>1
  <2>3. /\ e \in Edge /\ t \in Node /\ element \in BOOLEAN /\ Len(frames') = n + 1
        /\ DOMAIN frames = 1 .. n /\ DOMAIN frames' = 1 .. n + 1
        /\ \A i \in DOMAIN frames : /\ frames'[i].node = frames[i].node
                                    /\ frames'[i].element = frames[i].element
                                    /\ frames'[i].next = IF i = n THEN frames[i].next + 1
                                                         ELSE frames[i].next
        /\ frames'[n + 1].node = t /\ frames'[n + 1].next = 1
        /\ frames'[n + 1].element = element
    BY <1>0, EnterFrames
  <2>4. QED
    BY <2>1, <2>2, <2>3
<1>2. /\ \A j \in 1 .. n - 1 : Taken(j)' = Taken(j)
      /\ Taken(n)' = e
      /\ frames'[n].next - 1 \in DOMAIN edges'[frames'[n].node]
  <2>1. n \in 1 .. n /\ Frame = frames[n] /\ Frame.next \in Nat \ {0}
    BY <1>0, <1>1, FrameTypes DEF Frame, AtEdge
  <2>2. frames'[n].next - 1 = Frame.next /\ frames'[n].node = Frame.node
    BY <1>1, <2>1
  <2>3. Frame.next \in DOMAIN edges[Frame.node]
    BY AtEdgeTypes
  <2>4. \A j \in 1 .. n - 1 : Taken(j)' = Taken(j)
    BY <1>1 DEF Taken
  <2>5. QED
    BY <2>2, <2>3, <2>4 DEF Taken, AtVisit
<1>3. \A k \in 1 .. n : InElement(k)' <=> InElement(k)
  BY <1>1, <1>2, TakenStays
<1>4. InElement(n + 1)' <=> element = TRUE
  <2>1. PICK slots : slots = [j \in 1 .. n |-> Taken(j)'.slot]
    OBVIOUS
  <2>2. slots[n] = e.slot /\ \A j \in 1 .. n - 1 : slots[j] = Taken(j).slot
    BY <1>1, <1>2, <2>1
  <2>3. e.slot \in Slots /\ Frame.element \in BOOLEAN
    BY <1>1, FrameTypes DEF Edge, AtEdge
  <2>4. Frame.element = TRUE <=> InElement(n)
    BY <1>0, <1>1 DEF StackInv, Frame
  <2>5. InElement(n) <=> Describes(slots, n - 1)
    BY <2>2 DEF InElement, Describes
  <2>6. Element(e.slot, Frame.element) = TRUE <=> Describes(slots, n)
    <3>1. /\ n \in Nat \ {0} /\ slots[n] = e.slot /\ slots[n] \in Slots
          /\ Frame.element = TRUE <=> Describes(slots, n - 1)
      BY <1>1, <2>2, <2>3, <2>4, <2>5
    <3>2. QED
      BY <2>3, <3>1, ElementDescribes
  <2>7. InElement(n + 1)' <=> Describes(slots, n)
    <3>1. PICK m : m = n + 1
      OBVIOUS
    <3>2. InElement(m)' <=>
            \E i \in 1 .. m - 1 :
                /\ Taken(i)'.slot = "ElementType"
                /\ \A j \in i + 1 .. m - 1 : Taken(j)'.slot \in {"Component", "Selector"}
      BY DEF InElement
    <3>3. m - 1 = n
      BY <3>1
    <3>4. \A j \in 1 .. n : slots[j] = Taken(j)'.slot
      BY <2>1
    <3>5. QED
      BY <3>1, <3>2, <3>3, <3>4 DEF Describes
  <2>8. QED
    BY <2>6, <2>7 DEF AtVisit
<1>5. active' = {frames'[i].node : i \in DOMAIN frames'}
  <2>1. active = {frames[i].node : i \in 1 .. n}
    BY <1>1 DEF StackInv
  <2>2. QED
    BY <1>1, <2>1
<1>6. \A i, j \in DOMAIN frames' : frames'[i].node = frames'[j].node => i = j
  <2>1. \A i \in 1 .. n : frames'[i].node # t
    <3>1. active = {frames[i].node : i \in 1 .. n}
      BY <1>1 DEF StackInv
    <3>2. QED
      BY <1>1, <3>1
  <2>2. \A i, j \in 1 .. n : frames[i].node = frames[j].node => i = j
    BY <1>1 DEF StackInv
  <2>3. \A i \in 1 .. n + 1 : i \in 1 .. n \/ i = n + 1
    BY <1>1
  <2>4. QED
    BY <1>1, <2>1, <2>2, <2>3
<1>7. ASSUME NEW j \in 1 .. Len(frames') - 1
      PROVE  /\ frames'[j].next - 1 \in DOMAIN edges'[frames'[j].node]
             /\ Target(Taken(j))' = frames'[j + 1].node
  <2>1. CASE j = n
    <3>1. Target(Taken(j))' = Target(e)
      BY <1>2, <2>1 DEF Target
    <3>2. QED
      BY <1>1, <1>2, <2>1, <3>1 DEF AtVisit
  <2>2. CASE j # n
    <3>1. j \in 1 .. n - 1 /\ j + 1 \in 1 .. n
      BY <1>1, <1>7, <2>2
    <3>2. Target(Taken(j))' = Target(Taken(j))
      BY <1>2, <3>1 DEF Target
    <3>3. /\ frames[j].next - 1 \in DOMAIN edges[frames[j].node]
          /\ Target(Taken(j)) = frames[j + 1].node
      BY <1>0, <3>1 DEF StackInv
    <3>4. QED
      BY <1>1, <2>2, <3>1, <3>2, <3>3
  <2>3. QED
    BY <2>1, <2>2
<1>8. ASSUME NEW k \in DOMAIN frames' PROVE frames'[k].element = TRUE <=> InElement(k)'
  <2>1. CASE k = n + 1
    BY <1>1, <1>4, <2>1
  <2>2. CASE k # n + 1
    BY <1>1, <1>3, <1>8, <2>2 DEF StackInv
  <2>3. QED
    BY <2>1, <2>2
<1>9. frames'[1].node = 1 /\ \A k \in DOMAIN frames' : k # 1 => frames'[k].node # None
  <2>1. frames'[1].node = 1
    BY <1>1 DEF StackInv, AtEdge
  <2>2. \A k \in 1 .. n : k # 1 => frames'[k].node # None
    BY <1>1 DEF StackInv
  <2>3. QED
    BY <1>1, <2>1, <2>2
<1>10. QED
  BY <1>5, <1>6, <1>7, <1>8, <1>9 DEF StackInv

\* What Enter does at an edge that is followed.
LEMMA EnterSteps ==
    ASSUME Enter
    PROVE  \E e, t, element :
              /\ stage = "traverse" /\ AtEdge /\ AtVisit(e, t, element) /\ t # None
              /\ UNCHANGED <<stage, components, references, edges>>
              /\ \/ /\ VisitError(e, t, element) # None
                    /\ outcome' = VisitError(e, t, element)
                    /\ UNCHANGED <<frames, active, traversal>>
                 \/ /\ VisitError(e, t, element) = None
                    /\ frames' = Append(Advanced, [node |-> t, next |-> 1, element |-> element])
                    /\ active' = active \cup {t}
                    /\ traversal' = Append(traversal, t)
                    /\ outcome' = outcome
<1>1. PICK e, t, element : AtVisit(e, t, element)
  BY DEF AtVisit
<1>2. /\ stage = "traverse" /\ AtEdge /\ t # None
      /\ \/ /\ VisitError(e, t, element) # None
            /\ Fail(VisitError(e, t, element))
         \/ /\ VisitError(e, t, element) = None
            /\ frames' = Append(Advanced, [node |-> t, next |-> 1, element |-> element])
            /\ active' = active \cup {t}
            /\ traversal' = Append(traversal, t)
            /\ UNCHANGED <<stage, indexVars, outcome>>
  BY <1>1 DEF Enter, AtVisit, AtEdge
<1>3. /\ UNCHANGED <<stage, components, references, edges>>
      /\ \/ /\ VisitError(e, t, element) # None
            /\ outcome' = VisitError(e, t, element)
            /\ UNCHANGED <<frames, active, traversal>>
         \/ /\ VisitError(e, t, element) = None
            /\ frames' = Append(Advanced, [node |-> t, next |-> 1, element |-> element])
            /\ active' = active \cup {t}
            /\ traversal' = Append(traversal, t)
            /\ outcome' = outcome
  BY <1>2 DEF Fail, indexVars, traverseVars
<1>4. QED
  BY <1>1, <1>2, <1>3

\* A visit that is not made does not end the traversal well.
LEMMA VisitNotOk ==
    ASSUME NEW e, NEW t, NEW element
    PROVE  VisitError(e, t, element) # "Ok"
<1>1. None # "Ok"
  BY OutcomeAssumption DEF Outcomes
<1>2. QED
  BY <1>1 DEF VisitError

\* A visit that is made is of a component that is not active, within the limits.
LEMMA VisitAllowed ==
    ASSUME NEW e, NEW t, NEW element, VisitError(e, t, element) = None
    PROVE  t \notin active /\ ~DepthReached /\ ~StepsReached
<1>1. /\ "InvalidTarget" # None /\ "InlineElementValue" # None /\ "Cycle" # None
      /\ "DepthLimit" # None /\ "TraversalLimit" # None
  BY OutcomeAssumption DEF Outcomes
<1>2. QED
  BY <1>1 DEF VisitError

\* Every step keeps the stack a path.
LEMMA NextStack == IndexInv /\ StackInv /\ [Next]_vars => StackInv'
<1> SUFFICES ASSUME IndexInv, StackInv, [Next]_vars PROVE StackInv'
  OBVIOUS
<1>1. CASE UNCHANGED <<stage, frames, active, references, edges>>
  <2>1. \A j : Taken(j)' = Taken(j) /\ Target(Taken(j))' = Target(Taken(j))
    BY <1>1 DEF Taken, Target
  <2>2. \A k : InElement(k)' <=> InElement(k)
    BY <2>1 DEF InElement
  <2>3. QED
    BY <1>1, <2>1, <2>2 DEF StackInv
<1>2. CASE outcome = None /\ Index
  BY <1>2 DEF StackInv, Index, Declare, Refer, Refuse, Close
<1>3. CASE Enter
  <2>1. PICK e, t, element :
              /\ stage = "traverse" /\ AtEdge /\ AtVisit(e, t, element) /\ t # None
              /\ UNCHANGED <<stage, components, references, edges>>
              /\ \/ /\ VisitError(e, t, element) # None
                    /\ UNCHANGED <<frames, active, traversal>>
                 \/ /\ VisitError(e, t, element) = None
                    /\ frames' = Append(Advanced, [node |-> t, next |-> 1, element |-> element])
                    /\ active' = active \cup {t}
    BY <1>3, EnterSteps
  <2>2. QED
    BY <1>1, <2>1, VisitAllowed, EnterStack
<1>4. CASE outcome = None /\ Traverse
  <2>1. CASE Complete
    BY <1>1, <2>1 DEF Complete, indexVars, traverseVars
  <2>2. QED
    BY <1>3, <1>4, <2>1, LeaveStack, SkipStack DEF Traverse
<1>5. CASE UNCHANGED vars
  BY <1>1, <1>5 DEF vars, indexVars, traverseVars
<1>6. QED
  BY <1>2, <1>4, <1>5, ResolveStack DEF Next

-----------------------------------------------------------------------------
(* The walks that the traversal has seen.                                  *)

Step == [from : Nat, at : Nat]

\* A walk of followed edges from the root.
Walk(w) ==
    /\ w \in Seq(Step)
    /\ \A i \in DOMAIN w :
          /\ w[i].from = (IF i = 1 THEN 1 ELSE Follow(w[i - 1]))
          /\ w[i].from \in Node /\ w[i].at \in DOMAIN edges[w[i].from] /\ Follow(w[i]) # None

\* w begins as the stack does, up to frame k.
Along(w, k) ==
    /\ k - 1 <= Len(w)
    /\ \A j \in 1 .. k - 1 : w[j].from = frames[j].node /\ w[j].at = frames[j].next - 1

\* The edges of frame k that are done with, the subtree behind them included.
Done(k) == IF k = Len(frames) THEN frames[k].next ELSE frames[k].next - 1

\* The traversal is at the end of w, or was: w ends on the stack or has turned
\* off it over an edge that is done with.
Seen(w) ==
    \/ frames = <<>>
    \/ \E k \in DOMAIN frames :
          /\ Along(w, k)
          /\ Len(w) = k - 1 \/ (k <= Len(w) /\ w[k].at < Done(k))

\* A walk along the stack is where the stack is.
LEMMA AlongEnds ==
    ASSUME IndexInv, StackInv, stage = "traverse", NEW w, Walk(w), NEW k \in DOMAIN frames,
           Along(w, k), k <= Len(w)
    PROVE  w[k].from = frames[k].node /\ w[k].at \in DOMAIN edges[frames[k].node]
<1>1. w \in Seq(Step) /\ k \in DOMAIN w /\ k \in Nat \ {0} /\ Len(frames) \in Nat
  BY DEF Walk, IndexInv
<1>2. CASE k = 1
  BY <1>1, <1>2 DEF Walk, StackInv
<1>3. CASE k # 1
  <2>1. k - 1 \in 1 .. k - 1 /\ k - 1 \in 1 .. Len(frames) - 1 /\ k - 1 \in DOMAIN w
    BY <1>1, <1>3 DEF IndexInv
  <2>2. w[k].from = Follow(w[k - 1])
    BY <1>1, <1>3 DEF Walk
  <2>3. w[k - 1].from = frames[k - 1].node /\ w[k - 1].at = frames[k - 1].next - 1
    BY <2>1 DEF Along
  <2>4. Follow(w[k - 1]) = frames[k].node
    BY <2>1, <2>3 DEF StackInv, Taken, Follow
  <2>5. QED
    BY <1>1, <2>2, <2>4 DEF Walk
<1>4. QED
  BY <1>2, <1>3

\* The numbers of a walk and of the stack.
LEMMA WalkTypes ==
    ASSUME IndexInv, NEW w, Walk(w)
    PROVE  /\ w \in Seq(Step) /\ Len(w) \in Nat /\ DOMAIN w = 1 .. Len(w)
           /\ \A i \in DOMAIN w : w[i] \in Step /\ w[i].from \in Nat /\ w[i].at \in Nat \ {0}
           /\ Len(frames) \in Nat /\ DOMAIN frames = 1 .. Len(frames)
           /\ \A k \in DOMAIN frames : frames[k].node \in Node /\ frames[k].next \in Nat \ {0}
<1>1. w \in Seq(Step) /\ frames \in Seq(Visit) /\ \A k \in DOMAIN frames : frames[k].node \in Node
  BY DEF Walk, IndexInv, TypeOK
<1>2. /\ \A i \in DOMAIN w : w[i] \in Step
      /\ \A k \in DOMAIN frames : frames[k] \in Visit
      /\ Len(w) \in Nat /\ DOMAIN w = 1 .. Len(w)
      /\ Len(frames) \in Nat /\ DOMAIN frames = 1 .. Len(frames)
  BY <1>1
<1>3. ASSUME NEW i \in DOMAIN w PROVE w[i].at \in Nat \ {0}
  <2>1. w[i].from \in Node /\ w[i].at \in DOMAIN edges[w[i].from]
    BY DEF Walk
  <2>2. edges[w[i].from] \in Seq(Edge)
    BY <2>1 DEF IndexInv, TypeOK, Node
  <2>3. QED
    BY <2>1, <2>2
<1>4. QED
  BY <1>1, <1>2, <1>3 DEF Step, Visit

\* The same after a step.
LEMMA NextWalkTypes ==
    ASSUME IndexInv', NEW w, Walk(w)'
    PROVE  /\ w \in Seq(Step) /\ Len(w) \in Nat /\ DOMAIN w = 1 .. Len(w)
           /\ \A i \in DOMAIN w : w[i].at \in Nat \ {0}
<1>1. w \in Seq(Step) /\ DOMAIN w = 1 .. Len(w) /\ Len(w) \in Nat
  BY DEF Walk
<1>2. ASSUME NEW i \in DOMAIN w PROVE w[i].at \in Nat \ {0}
  <2>1. w[i].from \in Node' /\ w[i].at \in DOMAIN edges'[w[i].from]
    BY DEF Walk
  <2>2. edges'[w[i].from] \in Seq(Edge)
    BY <2>1 DEF IndexInv, TypeOK, Node
  <2>3. QED
    BY <2>1, <2>2
<1>3. QED
  BY <1>1, <1>2

\* After the last edge of the innermost frame all walks through it are seen.
LEMMA LastSeen ==
    ASSUME IndexInv, StackInv, stage = "traverse", frames # <<>>, ~AtEdge, NEW w, Walk(w),
           Along(w, Len(frames))
    PROVE  Seen(w)
<1>1. PICK n \in Nat \ {0} : n = Len(frames)
  BY FrameTypes
<1>2. n \in DOMAIN frames /\ n - 1 <= Len(w) /\ Len(w) \in Nat /\ DOMAIN w = 1 .. Len(w)
  BY <1>1, WalkTypes DEF Along
<1>3. CASE Len(w) = n - 1
  <2>1. Along(w, n) /\ n \in DOMAIN frames
    BY <1>1, <1>2
  <2>2. QED
    BY <1>3, <2>1 DEF Seen
<1>4. CASE n <= Len(w)
  <2>1. w[n].at \in DOMAIN edges[frames[n].node]
    BY <1>1, <1>2, <1>4, AlongEnds
  <2>2. edges[frames[n].node] \in Seq(Edge) /\ frames[n].next > Len(edges[frames[n].node])
        /\ frames[n].next \in Nat
    BY <1>1, FrameTypes DEF Frame, AtEdge
  <2>3. w[n].at < Done(n)
    BY <1>1, <2>1, <2>2 DEF Done
  <2>4. QED
    BY <1>1, <1>2, <1>4, <2>3 DEF Seen
<1>5. QED
  BY <1>1, <1>2, <1>3, <1>4

\* Leaving a frame shows no walk and hides none.
LEMMA LeaveSeen ==
    ASSUME IndexInv, StackInv, Leave, NEW w, Walk(w)
    PROVE  Seen(w)' <=> Seen(w)
<1>1. PICK n \in Nat \ {0} : n = Len(frames)
  BY FrameTypes DEF Leave
<1>2. stage = "traverse" /\ frames # <<>> /\ ~AtEdge
      /\ frames' = SubSeq(frames, 1, Len(frames) - 1)
  BY DEF Leave
<1>3. /\ DOMAIN frames = 1 .. n
      /\ Len(frames') = n - 1 /\ DOMAIN frames' = 1 .. n - 1
      /\ \A i \in 1 .. n - 1 : frames'[i] = frames[i]
  BY <1>1, <1>2, FrameTypes, FrontTypes DEF IndexInv
<1>4. /\ Len(w) \in Nat /\ \A i \in 1 .. Len(w) : w[i].from \in Nat /\ w[i].at \in Nat
      /\ \A k \in 1 .. n : frames[k].next \in Nat \ {0}
  BY <1>3, WalkTypes
<1>5. \A k \in 1 .. n - 1 : Along(w, k)' <=> Along(w, k)
  BY <1>1, <1>3 DEF Along
<1>6. \A k \in 1 .. n - 1 : Done(k)' = IF k = n - 1 THEN Done(k) + 1 ELSE Done(k)
  BY <1>1, <1>3, <1>4 DEF Done
<1>7. \A k \in 1 .. n - 1 : Done(k) = frames[k].next - 1
  BY <1>1 DEF Done
<1>8. CASE n = 1
  <2>1. frames' = <<>>
    BY <1>1, <1>2, <1>8
  <2>2. Along(w, 1)
    BY <1>4 DEF Along
  <2>3. QED
    BY <1>1, <1>2, <1>8, <2>1, <2>2, LastSeen DEF Seen
<1>9. CASE n # 1
  <2>1. frames' # <<>> /\ n - 1 \in 1 .. n - 1
    BY <1>3, <1>9
  <2>2. ASSUME Seen(w)' PROVE Seen(w)
    <3>1. PICK k \in 1 .. n - 1 :
              /\ Along(w, k)'
              /\ Len(w) = k - 1 \/ (k <= Len(w) /\ w[k].at < Done(k)')
      BY <1>3, <2>1, <2>2 DEF Seen
    <3>2. Along(w, k) /\ k \in DOMAIN frames
      BY <1>3, <1>5, <3>1
    <3>3. CASE Len(w) = k - 1 \/ (k <= Len(w) /\ w[k].at < Done(k))
      BY <3>2, <3>3 DEF Seen
    <3>4. CASE k = n - 1 /\ k <= Len(w) /\ w[k].at = Done(k)
      <4>1. w[k].from = frames[k].node /\ w[k].at = frames[k].next - 1
        BY <1>2, <1>7, <3>2, <3>4, AlongEnds
      <4>2. Along(w, n)
        <5>1. \A j \in 1 .. n - 1 : j = k \/ j \in 1 .. k - 1
          BY <3>4
        <5>2. n - 1 <= Len(w)
          BY <3>4
        <5>3. QED
          BY <3>2, <4>1, <5>1, <5>2 DEF Along
      <4>3. QED
        BY <1>1, <1>2, <4>2, LastSeen
    <3>5. CASE k <= Len(w)
      <4>1. /\ w[k].at \in Nat /\ frames[k].next \in Nat /\ Done(k) = frames[k].next - 1
            /\ Done(k)' = IF k = n - 1 THEN Done(k) + 1 ELSE Done(k)
        BY <1>4, <1>6, <1>7, <3>5
      <4>2. w[k].at < Done(k) \/ (k = n - 1 /\ w[k].at = Done(k))
        BY <1>4, <3>1, <3>5, <4>1
      <4>3. QED
        BY <3>3, <3>4, <3>5, <4>2
    <3>6. QED
      BY <3>1, <3>3, <3>5
  <2>3. ASSUME Seen(w) PROVE Seen(w)'
    <3>1. PICK k \in 1 .. n :
              /\ Along(w, k)
              /\ Len(w) = k - 1 \/ (k <= Len(w) /\ w[k].at < Done(k))
      BY <1>2, <1>3, <2>3 DEF Seen
    <3>2. CASE k \in 1 .. n - 1
      <4>1. Along(w, k)' /\ (k <= Len(w) /\ w[k].at < Done(k) => w[k].at < Done(k)')
        BY <1>4, <1>5, <1>6, <1>7, <3>1, <3>2
      <4>2. Len(w) = k - 1 \/ (k <= Len(w) /\ w[k].at < Done(k)')
        BY <3>1, <4>1
      <4>3. QED
        BY <1>3, <3>2, <4>1, <4>2 DEF Seen
    <3>3. CASE k = n
      <4>1. /\ n - 1 <= Len(w) /\ w[n - 1].at = frames[n - 1].next - 1
            /\ Along(w, n - 1)
        BY <1>4, <2>1, <3>1, <3>3 DEF Along
      <4>2. Along(w, n - 1)' /\ w[n - 1].at < Done(n - 1)'
        BY <1>4, <1>5, <1>6, <1>7, <2>1, <4>1
      <4>3. QED
        BY <1>3, <2>1, <4>1, <4>2 DEF Seen
    <3>4. QED
      BY <3>2, <3>3
  <2>4. QED
    BY <2>2, <2>3
<1>10. QED
  BY <1>8, <1>9

\* Passing over a nonlocal edge shows no walk.
LEMMA SkipSeen ==
    ASSUME IndexInv, StackInv, Skip, NEW w, Walk(w)
    PROVE  Seen(w)' <=> Seen(w)
<1>1. PICK n \in Nat \ {0} : n = Len(frames)
  BY FrameTypes DEF Skip, AtEdge
<1>2. stage = "traverse" /\ frames # <<>> /\ frames' = Advanced
      /\ Target(edges[frames[n].node][frames[n].next]) = None
  BY <1>1 DEF Skip, AtEdge, Frame
<1>3. /\ DOMAIN frames = 1 .. n /\ n \in 1 .. n
      /\ Len(frames') = n /\ DOMAIN frames' = 1 .. n /\ frames' # <<>>
      /\ \A i \in 1 .. n : /\ frames'[i].node = frames[i].node
                           /\ i # n => frames'[i].next = frames[i].next
      /\ frames'[n].next = frames[n].next + 1
  BY <1>1, <1>2, FrameTypes, AdvancedTypes
<1>4. /\ Len(w) \in Nat /\ \A i \in 1 .. Len(w) : w[i].from \in Nat /\ w[i].at \in Nat
      /\ \A k \in 1 .. n : frames[k].next \in Nat \ {0}
  BY <1>3, WalkTypes
<1>5. \A k \in 1 .. n : Along(w, k)' <=> Along(w, k)
  BY <1>1, <1>3 DEF Along
<1>6. /\ \A k \in 1 .. n : k # n => Done(k)' = Done(k)
      /\ Done(n) = frames[n].next /\ Done(n)' = Done(n) + 1
  BY <1>1, <1>3 DEF Done
<1>7. ASSUME Along(w, n), n <= Len(w) PROVE w[n].at # Done(n)
  <2>1. w[n].from = frames[n].node
    BY <1>2, <1>3, <1>7, AlongEnds
  <2>2. Follow(w[n]) # None
    BY <1>3, <1>4, <1>7, WalkTypes DEF Walk
  <2>3. QED
    BY <1>2, <1>6, <2>1, <2>2 DEF Follow
<1>8. ASSUME NEW k \in 1 .. n, Along(w, k), k <= Len(w)
      PROVE  w[k].at < Done(k)' <=> w[k].at < Done(k)
  <2>1. CASE k # n
    BY <1>6, <2>1
  <2>2. CASE k = n
    <3>1. w[n].at \in Nat /\ Done(n) \in Nat /\ w[n].at # Done(n)
      BY <1>3, <1>4, <1>6, <1>7, <1>8, <2>2
    <3>2. QED
      BY <1>6, <2>2, <3>1
  <2>3. QED
    BY <2>1, <2>2
<1>9. QED
  BY <1>2, <1>3, <1>5, <1>8 DEF Seen

\* w leads over the edge the traversal is at.
Here(w) ==
    /\ Along(w, Len(frames))
    /\ Len(w) = Len(frames) /\ w[Len(w)].at = Frame.next

\* A visit shows the walk that leads to it.
LEMMA EnterSeen ==
    ASSUME IndexInv, StackInv, stage = "traverse", AtEdge, NEW e, NEW t, NEW element,
           AtVisit(e, t, element), t # None,
           frames' = Append(Advanced, [node |-> t, next |-> 1, element |-> element]),
           NEW w, Walk(w)
    PROVE  Seen(w)' <=> Seen(w) \/ Here(w)
<1>1. PICK n \in Nat \ {0} : n = Len(frames)
  BY FrameTypes DEF AtEdge
<1>2. /\ DOMAIN frames = 1 .. n /\ n \in 1 .. n /\ frames # <<>>
      /\ Len(frames') = n + 1 /\ DOMAIN frames' = 1 .. n + 1 /\ frames' # <<>>
      /\ \A i \in 1 .. n : /\ frames'[i].node = frames[i].node
                           /\ i # n => frames'[i].next = frames[i].next
      /\ frames'[n].next = frames[n].next + 1
      /\ frames'[n + 1].next = 1
  <2>1. n \in 1 .. n
    OBVIOUS
  <2>2. /\ DOMAIN frames = 1 .. n
        /\ Len(frames') = n + 1 /\ DOMAIN frames' = 1 .. n + 1
        /\ \A i \in 1 .. n : /\ frames'[i].node = frames[i].node
                             /\ i # n => frames'[i].next = frames[i].next
        /\ frames'[n].next = frames[n].next + 1
        /\ frames'[n + 1].next = 1
    BY <1>1, <2>1, EnterFrames
  <2>3. frames # <<>> /\ frames' # <<>>
    BY <2>2 DEF AtEdge
  <2>4. QED
    BY <2>1, <2>2, <2>3
<1>3. /\ Len(w) \in Nat /\ DOMAIN w = 1 .. Len(w)
      /\ \A i \in 1 .. Len(w) : w[i].from \in Nat /\ w[i].at \in Nat \ {0}
      /\ \A k \in 1 .. n : frames[k].next \in Nat \ {0}
  BY <1>2, WalkTypes
<1>4. \A k \in 1 .. n : Along(w, k)' <=> Along(w, k)
  BY <1>2 DEF Along
<1>5. /\ \A k \in 1 .. n : Done(k)' = Done(k)
      /\ Done(n) = frames[n].next /\ Done(n + 1)' = 1
  <2>1. \A k \in 1 .. n : k # n => Done(k)' = Done(k)
    BY <1>1, <1>2 DEF Done
  <2>2. Done(n) = frames[n].next /\ Done(n + 1)' = 1
    BY <1>1, <1>2 DEF Done
  <2>3. Done(n)' = (frames[n].next + 1) - 1 /\ frames[n].next \in Nat
    BY <1>1, <1>2, <1>3 DEF Done
  <2>4. QED
    BY <2>1, <2>2, <2>3
<1>6. Along(w, n + 1)' <=> Along(w, n) /\ n <= Len(w) /\ w[n].at = frames[n].next
  <2>0. Along(w, n + 1)' <=>
            /\ n <= Len(w)
            /\ \A j \in 1 .. n : w[j].from = frames'[j].node /\ w[j].at = frames'[j].next - 1
    <3>1. PICK m : m = n + 1
      OBVIOUS
    <3>2. Along(w, m)' <=>
            /\ m - 1 <= Len(w)
            /\ \A j \in 1 .. m - 1 : w[j].from = frames'[j].node /\ w[j].at = frames'[j].next - 1
      BY DEF Along
    <3>3. m - 1 = n
      BY <3>1
    <3>4. QED
      BY <3>1, <3>2, <3>3
  <2>1. ASSUME Along(w, n + 1)'
        PROVE  Along(w, n) /\ n <= Len(w) /\ w[n].at = frames[n].next
    <3>1. w[n].at = (frames[n].next + 1) - 1 /\ n <= Len(w)
      BY <1>2, <2>0, <2>1
    <3>2. n - 1 <= Len(w) /\ \A j \in 1 .. n - 1 : j \in 1 .. n /\ j # n
      BY <1>3, <3>1
    <3>3. Along(w, n)
      BY <1>2, <2>0, <2>1, <3>2 DEF Along
    <3>4. QED
      BY <1>2, <1>3, <3>1, <3>3
  <2>2. ASSUME Along(w, n), n <= Len(w), w[n].at = frames[n].next PROVE Along(w, n + 1)'
    <3>1. w[n].from = frames[n].node
      BY <1>2, <2>2, AlongEnds
    <3>2. \A j \in 1 .. n : j = n \/ j \in 1 .. n - 1
      OBVIOUS
    <3>3. w[n].at = frames'[n].next - 1
      BY <1>2, <1>3, <2>2
    <3>4. \A j \in 1 .. n - 1 : w[j].from = frames'[j].node /\ w[j].at = frames'[j].next - 1
      <4>1. \A j \in 1 .. n - 1 : w[j].from = frames[j].node /\ w[j].at = frames[j].next - 1
        BY <2>2 DEF Along
      <4>2. \A j \in 1 .. n - 1 : j \in 1 .. n /\ j # n
        OBVIOUS
      <4>3. QED
        BY <1>2, <4>1, <4>2
    <3>5. QED
      BY <1>2, <2>0, <2>2, <3>1, <3>2, <3>3, <3>4
  <2>3. QED
    BY <2>1, <2>2
<1>7. ASSUME Seen(w) \/ Here(w) PROVE Seen(w)'
  <2>1. CASE Seen(w)
    BY <1>2, <1>4, <1>5, <2>1 DEF Seen
  <2>2. CASE Here(w)
    <3>1. Along(w, n + 1)' /\ n + 1 \in DOMAIN frames' /\ Len(w) = (n + 1) - 1
      BY <1>1, <1>2, <1>6, <2>2 DEF Here, Frame
    <3>2. QED
      BY <3>1 DEF Seen
  <2>3. QED
    BY <1>7, <2>1, <2>2
<1>8. ASSUME Seen(w)' PROVE Seen(w) \/ Here(w)
  <2>1. PICK k \in 1 .. n + 1 :
            /\ Along(w, k)'
            /\ Len(w) = k - 1 \/ (k <= Len(w) /\ w[k].at < Done(k)')
    BY <1>2, <1>8 DEF Seen
  <2>2. CASE k \in 1 .. n
    BY <1>2, <1>4, <1>5, <2>1, <2>2 DEF Seen
  <2>3. CASE k = n + 1
    <3>1. ~(k <= Len(w) /\ w[k].at < Done(k)')
      BY <1>3, <1>5, <2>3
    <3>2. Len(w) = n /\ Along(w, n) /\ w[n].at = frames[n].next
      BY <1>6, <2>1, <2>3, <3>1
    <3>3. QED
      BY <1>1, <3>2 DEF Here, Frame
  <2>4. QED
    BY <2>2, <2>3
<1>9. QED
  BY <1>7, <1>8

\* The checks before a visit say what is wrong with the walk that leads to it.
LEMMA VisitIsWalk ==
    ASSUME IndexInv, GraphInv, StackInv, stage = "traverse", AtEdge,
           NEW e, NEW t, NEW element, AtVisit(e, t, element), t # None,
           NEW w, Walk(w), Here(w)
    PROVE  VisitError(e, t, element) =
              IF Wrong(w) # None THEN Wrong(w)
              ELSE IF StepsReached THEN "TraversalLimit" ELSE None
<1>1. PICK n \in Nat \ {0} : n = Len(frames)
  BY FrameTypes DEF AtEdge
<1>2. /\ Len(w) = n /\ n \in DOMAIN w /\ n \in DOMAIN frames /\ DOMAIN frames = 1 .. n
      /\ DOMAIN w = 1 .. n /\ Along(w, n)
  BY <1>1, WalkTypes DEF Here
<1>3. /\ w[n].from = Frame.node /\ w[n].at = Frame.next
      /\ \A i \in 1 .. n - 1 : w[i].from = frames[i].node /\ w[i].at = frames[i].next - 1
  <2>1. w[n].from = frames[n].node
    BY <1>2, AlongEnds
  <2>2. w[n].at = Frame.next /\ Frame = frames[n]
    BY <1>1, <1>2 DEF Here, Frame
  <2>3. \A i \in 1 .. n - 1 : w[i].from = frames[i].node /\ w[i].at = frames[i].next - 1
    BY <1>2 DEF Along
  <2>4. QED
    BY <2>1, <2>2, <2>3
<1>4. Follow(w[n]) = t /\ SlotOf(w[n]) = e.slot
  BY <1>3 DEF AtVisit, Follow, SlotOf
<1>5. /\ e \in Edge /\ t \in Node /\ Frame.node \in Node /\ Frame.element \in BOOLEAN
      /\ Frame.next \in DOMAIN edges[Frame.node] /\ e.slot \in Slots
  BY AtEdgeTypes, FrameTypes DEF AtVisit, AtEdge, Edge
<1>6. /\ components[t].kind \in Kinds /\ components[t].value \in BOOLEAN
      /\ TargetFits(e.slot, components[t].kind)
  BY <1>5, PartTypes, FollowedFits DEF AtVisit, IndexInv, TypeOK
<1>7. components[t].kind \notin Fitting(w[n]) <=>
        /\ e.slot = "ElementType" /\ components[Frame.node].kind = "Matrix"
        /\ components[t].kind \notin MatrixElements
  BY <1>3, <1>4, <1>5, <1>6 DEF Fitting, TargetFits, Slots
<1>8. DescribesElement(w) <=> element = TRUE
  <2>1. PICK slots : slots = [i \in 1 .. n |-> SlotOf(w[i])]
    OBVIOUS
  <2>2. \A i \in 1 .. n - 1 : slots[i] = Taken(i).slot
    BY <1>3, <2>1 DEF SlotOf, Taken
  <2>3. InElement(n) <=> Describes(slots, n - 1)
    BY <2>2 DEF InElement, Describes
  <2>4. Frame.element = TRUE <=> InElement(n)
    BY <1>1, <1>2 DEF StackInv, Frame
  <2>5. slots[n] = e.slot
    BY <1>4, <2>1
  <2>6. element = TRUE <=> Describes(slots, n)
    BY <1>5, <2>3, <2>4, <2>5, ElementDescribes DEF AtVisit
  <2>7. DescribesElement(w) <=> Describes(slots, n)
    <3>1. DescribesElement(w) <=>
            \E i \in 1 .. n : /\ SlotOf(w[i]) = "ElementType"
                              /\ \A j \in i + 1 .. n : SlotOf(w[j]) \in {"Component", "Selector"}
      BY <1>2 DEF DescribesElement
    <3>2. \A i \in 1 .. n : slots[i] = SlotOf(w[i]) /\ \A j \in i + 1 .. n : j \in 1 .. n
      BY <2>1
    <3>3. \A i \in 1 .. n : \A j \in i + 1 .. n : slots[j] = SlotOf(w[j])
      BY <3>2
    <3>4. QED
      BY <3>1, <3>2, <3>3 DEF Describes
  <2>8. QED
    BY <2>6, <2>7
<1>9. t \in active <=> \E i \in DOMAIN w : w[i].from = t
  <2>1. \A i \in 1 .. n : w[i].from = frames[i].node
    BY <1>1, <1>3 DEF Frame
  <2>2. QED
    BY <1>2, <2>1 DEF StackInv
<1>10. DepthReached <=> Len(w) >= MaxDepth
  BY <1>1, <1>2 DEF DepthReached
<1>11. Wrong(w) =
         IF components[t].kind \notin Fitting(w[n]) THEN "InvalidTarget"
         ELSE IF DescribesElement(w) /\ components[t].value = TRUE THEN "InlineElementValue"
         ELSE IF \E i \in DOMAIN w : w[i].from = t THEN "Cycle"
         ELSE IF Len(w) >= MaxDepth THEN "DepthLimit"
         ELSE None
  BY <1>2, <1>4, <1>6 DEF Wrong
<1>12. VisitError(e, t, element) =
         IF /\ e.slot = "ElementType" /\ components[Frame.node].kind = "Matrix"
            /\ components[t].kind \notin MatrixElements THEN "InvalidTarget"
         ELSE IF element = TRUE /\ components[t].value = TRUE THEN "InlineElementValue"
         ELSE IF t \in active THEN "Cycle"
         ELSE IF DepthReached THEN "DepthLimit"
         ELSE IF StepsReached THEN "TraversalLimit"
         ELSE None
  <2>1. element \in BOOLEAN
    BY <1>5, ElementTypes DEF AtVisit
  <2>2. QED
    BY <1>6, <2>1 DEF VisitError
<1>13. /\ "InvalidTarget" # None /\ "InlineElementValue" # None /\ "Cycle" # None
       /\ "DepthLimit" # None /\ "TraversalLimit" # None
  BY OutcomeAssumption DEF Outcomes
<1>14. QED
  BY <1>7, <1>8, <1>9, <1>10, <1>11, <1>12, <1>13

-----------------------------------------------------------------------------
(* The walks in declaration order.                                         *)

\* The walks that have been seen, in declaration order, with their ends.
Listed(list) ==
    /\ list \in Seq(Seq(Step)) /\ Len(list) = Len(traversal)
    /\ \A i \in DOMAIN list :
          Walk(list[i]) /\ Seen(list[i]) /\ End(list[i]) = traversal[i]
    /\ \A w : Walk(w) /\ Seen(w) => \E i \in DOMAIN list : list[i] = w
    /\ \A i, j \in DOMAIN list : i < j => Before(list[i], list[j])

\* What is wrong with the walk the traversal is at, its number included.
Faulty(w, error) ==
    \/ Wrong(w) # None /\ error = Wrong(w)
    \/ Wrong(w) = None /\ StepsReached /\ error = "TraversalLimit"

\* The traversal lists the walks it has seen, none of them is wrong, and its
\* answer is about all of them or about the one it is at.
WalkInv ==
    stage = "traverse" =>
        /\ components # <<>> /\ Len(traversal) <= MaxSteps
        /\ \E list : Listed(list)
        /\ \A w : Walk(w) /\ w # <<>> /\ Seen(w) => Wrong(w) = None
        /\ \/ outcome = None
           \/ outcome = "Ok" /\ frames = <<>>
           \/ outcome # "Ok" /\ AtEdge /\ \E w : Walk(w) /\ Here(w) /\ Faulty(w, outcome)

\* Walks are of the graph alone.
LEMMA WalksStay ==
    ASSUME UNCHANGED <<components, references, edges>>, NEW w
    PROVE  /\ Walk(w)' <=> Walk(w)
           /\ Wrong(w)' = Wrong(w)
           /\ End(w)' = End(w)
<1>1. Walk(w)' <=> Walk(w)
  BY DEF Walk, Follow, Target, Node
<1>2. DescribesElement(w)' <=> DescribesElement(w)
  BY DEF DescribesElement, SlotOf
<1>3. Follow(w[Len(w)])' = Follow(w[Len(w)])
  BY DEF Follow, Target
<1>4. Fitting(w[Len(w)])' = Fitting(w[Len(w)])
  BY DEF Fitting, SlotOf
<1>5. Wrong(w)' = Wrong(w)
  BY <1>2, <1>3, <1>4 DEF Wrong
<1>6. End(w)' = End(w)
  BY <1>3 DEF End
<1>7. QED
  BY <1>1, <1>5, <1>6

\* A walk is where its steps are.
LEMMA SameWalk ==
    ASSUME NEW v \in Seq(Step), NEW w \in Seq(Step), Len(v) = Len(w),
           \A i \in 1 .. Len(w) : v[i].from = w[i].from /\ v[i].at = w[i].at
    PROVE  v = w
<1>1. ASSUME NEW i \in 1 .. Len(w) PROVE v[i] = w[i]
  <2>1. v[i] \in Step /\ w[i] \in Step
    OBVIOUS
  <2>2. v[i].from = w[i].from /\ v[i].at = w[i].at
    OBVIOUS
  <2>3. v[i] = [from |-> v[i].from, at |-> v[i].at] /\ w[i] = [from |-> w[i].from, at |-> w[i].at]
    BY <2>1 DEF Step
  <2>4. QED
    BY <2>2, <2>3
<1>2. QED
  BY <1>1

\* What has been seen comes before the walk the traversal is at.
LEMMA SeenIsBefore ==
    ASSUME IndexInv, AtEdge, NEW v, NEW w, Walk(v), Walk(w), Seen(v), Here(w)
    PROVE  Before(v, w)
<1>1. PICK n \in Nat \ {0} : n = Len(frames)
  BY FrameTypes DEF AtEdge
<1>2. /\ v \in Seq(Step) /\ Len(v) \in Nat /\ DOMAIN v = 1 .. Len(v)
      /\ w \in Seq(Step) /\ Len(w) = n /\ DOMAIN w = 1 .. n /\ DOMAIN frames = 1 .. n
      /\ Along(w, n) /\ w[n].at = frames[n].next
  BY <1>1, WalkTypes DEF Here, Frame
<1>3. PICK k \in 1 .. n :
          /\ Along(v, k)
          /\ Len(v) = k - 1 \/ (k <= Len(v) /\ v[k].at < Done(k))
  BY <1>2 DEF Seen, AtEdge
<1>4. \A j \in 1 .. k - 1 : v[j] = w[j]
  <2>1. ASSUME NEW j \in 1 .. k - 1 PROVE v[j] = w[j]
    <3>1. j \in 1 .. Len(v) /\ j \in 1 .. n - 1 /\ j \in 1 .. n
      BY <1>2, <1>3 DEF Along
    <3>2. v[j] \in Step /\ w[j] \in Step
      BY <1>2, <3>1
    <3>3. v[j].from = w[j].from /\ v[j].at = w[j].at
      BY <1>2, <1>3, <3>1 DEF Along
    <3>4. QED
      BY <3>2, <3>3 DEF Step
  <2>2. QED
    BY <2>1
<1>5. w[k].at = Done(k)
  BY <1>1, <1>2 DEF Along, Done
<1>6. CASE Len(v) = k - 1
  BY <1>2, <1>4, <1>6 DEF Before
<1>7. CASE k <= Len(v) /\ v[k].at < Done(k)
  <2>1. k \in DOMAIN v \cap DOMAIN w
    BY <1>2, <1>7
  <2>2. QED
    BY <1>4, <1>5, <1>7, <2>1 DEF Before
<1>8. QED
  BY <1>3, <1>6, <1>7

\* There is a walk to the edge the traversal is at.
LEMMA HereIs ==
    ASSUME IndexInv, StackInv, stage = "traverse", AtEdge,
           Target(edges[Frame.node][Frame.next]) # None
    PROVE  \E w : /\ Walk(w) /\ Here(w) /\ w # <<>>
                  /\ End(w) = Target(edges[Frame.node][Frame.next])
<1>1. PICK n \in Nat \ {0} : n = Len(frames)
  BY FrameTypes DEF AtEdge
<1>2. /\ DOMAIN frames = 1 .. n /\ frames \in Seq(Visit)
      /\ \A j \in 1 .. n : frames[j].node \in Node /\ frames[j].node \in Nat
                           /\ frames[j].next \in Nat \ {0}
  <2>1. DOMAIN frames = 1 .. n /\ frames \in Seq(Visit)
    BY <1>1 DEF IndexInv
  <2>2. ASSUME NEW j \in 1 .. n
        PROVE  frames[j].node \in Node /\ frames[j].node \in Nat /\ frames[j].next \in Nat \ {0}
    <3>1. frames[j] \in Visit
      BY <2>1
    <3>2. frames[j].node \in Node
      BY <2>1 DEF IndexInv, TypeOK
    <3>3. QED
      BY <3>1, <3>2 DEF Visit
  <2>3. QED
    BY <2>1, <2>2
<1>3. PICK at : at = [j \in 1 .. n |-> IF j = n THEN frames[j].next ELSE frames[j].next - 1]
  OBVIOUS
<1>4. /\ \A j \in 1 .. n : at[j] \in Nat
      /\ at[n] = frames[n].next
      /\ \A j \in 1 .. n - 1 : at[j] = frames[j].next - 1
  BY <1>2, <1>3
<1>5. PICK w : w = [j \in 1 .. n |-> [from |-> frames[j].node, at |-> at[j]]]
  OBVIOUS
<1>6. \A j \in 1 .. n : w[j] \in Step /\ w[j].from = frames[j].node /\ w[j].at = at[j]
  BY <1>2, <1>4, <1>5 DEF Step
<1>7. w \in Seq(Step) /\ Len(w) = n /\ DOMAIN w = 1 .. n
  BY <1>5, <1>6
<1>8. Along(w, n)
  BY <1>4, <1>6, <1>7 DEF Along
<1>9. Follow(w[n]) = Target(edges[Frame.node][Frame.next]) /\ Here(w)
  BY <1>1, <1>4, <1>6, <1>7, <1>8 DEF Follow, Frame, Here
<1>10. ASSUME NEW i \in 1 .. n
       PROVE  /\ w[i].from = (IF i = 1 THEN 1 ELSE Follow(w[i - 1]))
              /\ w[i].from \in Node /\ w[i].at \in DOMAIN edges[w[i].from] /\ Follow(w[i]) # None
  <2>1. \A j \in 1 .. n - 1 :
            /\ w[j].at \in DOMAIN edges[w[j].from]
            /\ Follow(w[j]) = frames[j + 1].node /\ Follow(w[j]) # None
    <3>1. ASSUME NEW j \in 1 .. n - 1
          PROVE  /\ w[j].at \in DOMAIN edges[w[j].from]
                 /\ Follow(w[j]) = frames[j + 1].node /\ Follow(w[j]) # None
      <4>1. j \in 1 .. n /\ j + 1 \in 1 .. n /\ j + 1 # 1
        OBVIOUS
      <4>2. /\ frames[j].next - 1 \in DOMAIN edges[frames[j].node]
            /\ Target(Taken(j)) = frames[j + 1].node /\ frames[j + 1].node # None
        BY <1>1, <1>2, <4>1 DEF StackInv
      <4>3. w[j].from = frames[j].node /\ w[j].at = frames[j].next - 1
        BY <1>4, <1>6, <4>1
      <4>4. QED
        BY <4>2, <4>3 DEF Taken, Follow
    <3>2. QED
      BY <3>1
  <2>2. w[i].from = (IF i = 1 THEN 1 ELSE Follow(w[i - 1]))
    <3>1. CASE i = 1
      BY <1>1, <1>6, <3>1 DEF StackInv, AtEdge
    <3>2. CASE i # 1
      <4>1. i - 1 \in 1 .. n - 1 /\ i - 1 + 1 = i
        BY <1>10, <3>2
      <4>2. QED
        BY <1>6, <2>1, <3>2, <4>1
    <3>3. QED
      BY <3>1, <3>2
  <2>3. w[i].at \in DOMAIN edges[w[i].from] /\ Follow(w[i]) # None
    <3>1. CASE i = n
      BY <1>1, <1>4, <1>6, <1>9, <3>1, AtEdgeTypes DEF Frame
    <3>2. CASE i # n
      <4>1. i \in 1 .. n - 1 /\ i + 1 \in 1 .. n
        BY <1>10, <3>2
      <4>2. QED
        BY <2>1, <4>1
    <3>3. QED
      BY <3>1, <3>2
  <2>4. QED
    BY <1>2, <1>6, <2>2, <2>3
<1>11. Walk(w)
  BY <1>7, <1>10 DEF Walk
<1>12. QED
  BY <1>7, <1>9, <1>11 DEF End

\* The traversal is at one edge only.
LEMMA HereIsOne ==
    ASSUME IndexInv, StackInv, stage = "traverse", AtEdge, NEW v, NEW w, Walk(v), Walk(w),
           Here(v), Here(w)
    PROVE  v = w
<1>1. PICK n \in Nat \ {0} : n = Len(frames)
  BY FrameTypes DEF AtEdge
<1>2. n \in DOMAIN frames /\ v \in Seq(Step) /\ w \in Seq(Step) /\ Len(v) = n /\ Len(w) = n
  BY <1>1, WalkTypes DEF Here
<1>3. v[n].from = frames[n].node /\ w[n].from = frames[n].node /\ v[n].at = w[n].at
  BY <1>1, <1>2, AlongEnds DEF Here
<1>4. \A i \in 1 .. n - 1 : v[i].from = w[i].from /\ v[i].at = w[i].at
  BY <1>1 DEF Here, Along
<1>5. \A i \in 1 .. n : v[i].from = w[i].from /\ v[i].at = w[i].at
  <2>1. \A i \in 1 .. n : i = n \/ i \in 1 .. n - 1
    OBVIOUS
  <2>2. QED
    BY <1>3, <1>4, <2>1
<1>6. QED
  BY <1>2, <1>5, SameWalk

\* A round that sees no further walk keeps the list.
LEMMA ListStays ==
    ASSUME IndexInv, WalkInv, stage = "traverse",
           UNCHANGED <<stage, components, references, edges, traversal>>,
           \A w : Walk(w) => (Seen(w)' <=> Seen(w)),
           \/ outcome' = None
           \/ outcome' = "Ok" /\ frames' = <<>>
           \/ /\ outcome' # "Ok" /\ AtEdge'
              /\ \E w : Walk(w)' /\ Here(w)' /\ Faulty(w, outcome)'
    PROVE  WalkInv'
<1>1. PICK list : Listed(list)
  BY DEF WalkInv
<1>2. /\ \A i \in DOMAIN list :
            Walk(list[i])' /\ Seen(list[i])' /\ End(list[i])' = traversal'[i]
      /\ \A w : Walk(w)' /\ Seen(w)' => \E i \in DOMAIN list : list[i] = w
  BY <1>1, WalksStay DEF Listed
<1>3. Listed(list)'
  BY <1>1, <1>2 DEF Listed
<1>4. \A w : Walk(w)' /\ w # <<>> /\ Seen(w)' => Wrong(w)' = None
  BY WalksStay DEF WalkInv
<1>5. components' # <<>> /\ Len(traversal') <= MaxSteps
  BY DEF WalkInv
<1>6. QED
  BY <1>3, <1>4, <1>5 DEF WalkInv

\* A visit lists the walk that leads to it, which nothing is wrong with.
LEMMA ListGrows ==
    ASSUME IndexInv, GraphInv, StackInv, WalkInv, stage = "traverse", outcome = None, AtEdge,
           NEW e, NEW t, NEW element, AtVisit(e, t, element), t # None,
           UNCHANGED <<stage, components, references, edges>>,
           VisitError(e, t, element) = None, outcome' = outcome,
           frames' = Append(Advanced, [node |-> t, next |-> 1, element |-> element]),
           traversal' = Append(traversal, t)
    PROVE  WalkInv'
<1>1. PICK here : Walk(here) /\ Here(here) /\ here # <<>> /\ End(here) = t
  BY HereIs DEF AtVisit
<1>2. PICK list : Listed(list)
  BY DEF WalkInv
<1>3. \A w : Walk(w) => (Seen(w)' <=> Seen(w) \/ w = here)
  BY <1>1, EnterSeen, HereIsOne
<1>4. Wrong(here) = None /\ ~StepsReached
  BY <1>1, VisitIsWalk, VisitAllowed
<1>5. \A i \in DOMAIN list : Before(list[i], here)
  BY <1>1, <1>2, SeenIsBefore DEF Listed
<1>6. PICK longer : longer = Append(list, here)
  OBVIOUS
<1>7. /\ list \in Seq(Seq(Step)) /\ here \in Seq(Step)
      /\ traversal \in Seq(Node) /\ t \in Node
      /\ Len(list) = Len(traversal) /\ Len(traversal) \in Nat
  <2>1. t \in Node
    BY AtEdgeTypes DEF AtVisit
  <2>2. QED
    BY <1>1, <1>2, <2>1 DEF Listed, Walk, IndexInv, TypeOK
<1>8. PICK n \in Nat : n = Len(traversal)
  BY <1>7
<1>9. /\ longer \in Seq(Seq(Step)) /\ Len(longer) = n + 1
      /\ DOMAIN list = 1 .. n /\ DOMAIN longer = 1 .. n + 1
      /\ \A i \in 1 .. n : longer[i] = list[i]
      /\ longer[n + 1] = here
  BY <1>6, <1>7, <1>8, AppendTypes
<1>10. /\ Len(traversal') = n + 1 /\ traversal'[n + 1] = t
       /\ \A i \in 1 .. n : traversal'[i] = traversal[i]
  BY <1>7, <1>8, AppendTypes
<1>11. ASSUME NEW i \in 1 .. n + 1
       PROVE  Walk(longer[i])' /\ Seen(longer[i])' /\ End(longer[i])' = traversal'[i]
  <2>1. CASE i = n + 1
    BY <1>1, <1>3, <1>9, <1>10, <2>1, WalksStay
  <2>2. CASE i # n + 1
    <3>1. i \in 1 .. n
      BY <1>11, <2>2
    <3>2. Walk(list[i]) /\ Seen(list[i]) /\ End(list[i]) = traversal[i]
      BY <1>2, <1>9, <3>1 DEF Listed
    <3>3. QED
      BY <1>3, <1>9, <1>10, <3>1, <3>2, WalksStay
  <2>3. QED
    BY <2>1, <2>2
<1>12. ASSUME NEW w, Walk(w)', Seen(w)' PROVE \E i \in 1 .. n + 1 : longer[i] = w
  <2>1. Seen(w) \/ w = here
    BY <1>3, <1>12, WalksStay
  <2>2. CASE w = here
    BY <1>9, <2>2
  <2>3. CASE Seen(w)
    <3>1. PICK i \in 1 .. n : list[i] = w
      BY <1>2, <1>9, <1>12, <2>3, WalksStay DEF Listed
    <3>2. QED
      BY <1>9, <3>1
  <2>4. QED
    BY <2>1, <2>2, <2>3
<1>13. ASSUME NEW i \in 1 .. n + 1, NEW j \in 1 .. n + 1, i < j
       PROVE  Before(longer[i], longer[j])
  <2>1. i \in 1 .. n
    BY <1>13
  <2>2. CASE j = n + 1
    BY <1>5, <1>9, <2>1, <2>2
  <2>3. CASE j # n + 1
    <3>1. j \in 1 .. n
      BY <1>13, <2>3
    <3>2. QED
      BY <1>2, <1>9, <1>13, <2>1, <3>1 DEF Listed
  <2>4. QED
    BY <2>2, <2>3
<1>14. Listed(longer)'
  BY <1>9, <1>10, <1>11, <1>12, <1>13 DEF Listed
<1>15. ASSUME NEW w, Walk(w)', w # <<>>, Seen(w)' PROVE Wrong(w)' = None
  BY <1>3, <1>4, <1>15, WalksStay DEF WalkInv
<1>16. components' # <<>> /\ Len(traversal') <= MaxSteps
  BY <1>4, <1>7, <1>8, <1>10, LimitsAssumption DEF StepsReached, WalkInv
<1>17. QED
  BY <1>14, <1>15, <1>16 DEF WalkInv

\* The list starts with the root.
LEMMA ResolveWalks ==
    ASSUME IndexInv, outcome = None, Resolve
    PROVE  WalkInv'
<1>1. CASE stage' # "traverse"
  BY <1>1 DEF WalkInv
<1>2. CASE stage' = "traverse"
  <2>1. /\ frames' = <<[node |-> 1, next |-> 1, element |-> FALSE]>>
        /\ traversal' = <<1>> /\ outcome' = None /\ components' # <<>>
    BY <1>2 DEF Resolve, Refuse, IndexInv
  <2>2. PICK first : first = [node |-> 1, next |-> 1, element |-> FALSE]
    OBVIOUS
  <2>3. first \in Visit /\ first.next = 1
    BY <2>2 DEF Visit
  <2>4. DOMAIN frames' = {1} /\ frames'[1] = first /\ Len(frames') = 1 /\ frames' # <<>>
    BY <2>1, <2>2, <2>3, SingleTypes
  <2>5. PICK list : list = << <<>> >>
    OBVIOUS
  <2>6. <<>> \in Seq(Step)
    OBVIOUS
  <2>7. list \in Seq(Seq(Step)) /\ DOMAIN list = {1} /\ list[1] = <<>> /\ Len(list) = 1
    BY <2>5, <2>6, SingleTypes
  <2>8. traversal'[1] = 1 /\ Len(traversal') = 1
    BY <2>1, 1 \in Nat, SingleTypes
  <2>9. Walk(<<>>)' /\ Seen(<<>>)' /\ End(<<>>)' = 1
    <3>1. Walk(<<>>)'
      BY <2>6 DEF Walk
    <3>2. Along(<<>>, 1)'
      BY DEF Along
    <3>3. Seen(<<>>)'
      BY <2>4, <3>2 DEF Seen
    <3>4. QED
      BY <3>1, <3>3 DEF End
  <2>10. ASSUME NEW w, Walk(w)', Seen(w)' PROVE w = <<>>
    <3>1. Len(w) = 0 \/ (1 <= Len(w) /\ w[1].at < Done(1)')
      BY <2>4, <2>10 DEF Seen
    <3>2. Done(1)' = 1
      BY <2>3, <2>4 DEF Done
    <3>3. IndexInv'
      BY ResolveTypes
    <3>4. w \in Seq(Step) /\ (1 <= Len(w) => w[1].at \in Nat \ {0})
      <4>1. /\ w \in Seq(Step) /\ DOMAIN w = 1 .. Len(w)
            /\ \A i \in DOMAIN w : w[i].at \in Nat \ {0}
        BY <2>10, <3>3, NextWalkTypes
      <4>2. QED
        BY <4>1
    <3>5. QED
      BY <3>1, <3>2, <3>4
  <2>11. Listed(list)'
    BY <2>7, <2>8, <2>9, <2>10 DEF Listed
  <2>12. Len(traversal') <= MaxSteps
    BY <2>8, LimitsAssumption
  <2>13. QED
    BY <2>1, <2>10, <2>11, <2>12 DEF WalkInv
<1>3. QED
  BY <1>1, <1>2

\* Every step keeps the walks in order.
LEMMA NextWalks ==
    IndexInv /\ GraphInv /\ StackInv /\ WalkInv /\ [Next]_vars => WalkInv'
<1> SUFFICES ASSUME IndexInv, GraphInv, StackInv, WalkInv, [Next]_vars PROVE WalkInv'
  OBVIOUS
<1>1. CASE UNCHANGED vars
  <2>1. UNCHANGED <<stage, components, references, edges, traversal, frames, outcome>>
    BY <1>1 DEF vars, indexVars, traverseVars
  <2>2. CASE stage # "traverse"
    BY <2>1, <2>2 DEF WalkInv
  <2>3. CASE stage = "traverse"
    <3>1. \A w : Seen(w)' <=> Seen(w)
      BY <2>1 DEF Seen, Along, Done
    <3>2. AtEdge' <=> AtEdge
      BY <2>1 DEF AtEdge, Frame
    <3>3. \A w : Here(w)' <=> Here(w)
      BY <2>1 DEF Here, Along, Frame
    <3>4. \A w : Faulty(w, outcome)' <=> Faulty(w, outcome)
      BY <2>1, WalksStay DEF Faulty, StepsReached
    <3>5. \/ outcome' = None
          \/ outcome' = "Ok" /\ frames' = <<>>
          \/ /\ outcome' # "Ok" /\ AtEdge'
             /\ \E w : Walk(w)' /\ Here(w)' /\ Faulty(w, outcome)'
      BY <2>1, <2>3, <3>2, <3>3, <3>4, WalksStay DEF WalkInv
    <3>6. QED
      BY <2>1, <2>3, <3>1, <3>5, ListStays
  <2>4. QED
    BY <2>2, <2>3
<1>2. CASE outcome = None /\ Index
  BY <1>2 DEF WalkInv, Index, Declare, Refer, Refuse, Close
<1>3. CASE outcome = None /\ Leave
  <2>1. stage = "traverse" /\ outcome' = None
        /\ UNCHANGED <<stage, components, references, edges, traversal>>
    BY <1>3 DEF Leave, indexVars
  <2>2. QED
    BY <1>3, <2>1, LeaveSeen, ListStays
<1>4. CASE outcome = None /\ Skip
  <2>1. stage = "traverse" /\ outcome' = None
        /\ UNCHANGED <<stage, components, references, edges, traversal>>
    BY <1>4 DEF Skip, AtEdge, indexVars
  <2>2. QED
    BY <1>4, <2>1, SkipSeen, ListStays
<1>5. CASE outcome = None /\ Enter
  <2>1. PICK e, t, element :
              /\ stage = "traverse" /\ AtEdge /\ AtVisit(e, t, element) /\ t # None
              /\ UNCHANGED <<stage, components, references, edges>>
              /\ \/ /\ VisitError(e, t, element) # None
                    /\ outcome' = VisitError(e, t, element)
                    /\ UNCHANGED <<frames, active, traversal>>
                 \/ /\ VisitError(e, t, element) = None
                    /\ frames' = Append(Advanced, [node |-> t, next |-> 1, element |-> element])
                    /\ active' = active \cup {t}
                    /\ traversal' = Append(traversal, t)
                    /\ outcome' = outcome
    BY <1>5, EnterSteps
  <2>2. CASE VisitError(e, t, element) = None
    BY <1>5, <2>1, <2>2, ListGrows
  <2>3. CASE VisitError(e, t, element) # None
    <3>1. UNCHANGED <<stage, components, references, edges, frames, traversal>>
          /\ outcome' = VisitError(e, t, element)
      BY <2>1, <2>3
    <3>2. PICK w : Walk(w) /\ Here(w)
      BY <2>1, HereIs DEF AtVisit
    <3>3. Faulty(w, outcome)'
      <4>1. VisitError(e, t, element) =
               IF Wrong(w) # None THEN Wrong(w)
               ELSE IF StepsReached THEN "TraversalLimit" ELSE None
        BY <2>1, <3>2, VisitIsWalk
      <4>2. Wrong(w)' = Wrong(w) /\ (StepsReached' <=> StepsReached)
        BY <3>1, WalksStay DEF StepsReached
      <4>3. QED
        BY <2>3, <3>1, <4>1, <4>2 DEF Faulty
    <3>4. AtEdge' /\ Walk(w)' /\ Here(w)'
      BY <2>1, <3>1, <3>2, WalksStay DEF AtEdge, Frame, Here, Along
    <3>5. \A v : Seen(v)' <=> Seen(v)
      BY <3>1 DEF Seen, Along, Done
    <3>6. outcome' # "Ok"
      BY <3>1 , VisitNotOk, <2>3
    <3>7. QED
      BY <2>1, <3>1, <3>3, <3>4, <3>5, <3>6, ListStays
  <2>4. QED
    BY <2>2, <2>3
<1>6. CASE outcome = None /\ Complete
  <2>1. stage = "traverse" /\ frames' = <<>> /\ frames = <<>> /\ outcome' = "Ok"
        /\ UNCHANGED <<stage, components, references, edges, traversal>>
    BY <1>6 DEF Complete, indexVars, traverseVars
  <2>2. \A w : Seen(w)' <=> Seen(w)
    BY <2>1 DEF Seen
  <2>3. QED
    BY <2>1, <2>2, ListStays
<1>7. QED
  BY <1>1, <1>2, <1>3, <1>4, <1>5, <1>6, ResolveWalks DEF Next, Traverse

-----------------------------------------------------------------------------
(* The order of walks.                                                     *)

\* Declaration order does not turn back.
LEMMA BeforeOnce ==
    ASSUME NEW v \in Seq(Step), NEW w \in Seq(Step), Before(v, w), Before(w, v)
    PROVE  FALSE
<1>1. /\ Len(v) \in Nat /\ DOMAIN v = 1 .. Len(v) /\ Len(w) \in Nat /\ DOMAIN w = 1 .. Len(w)
      /\ \A i \in DOMAIN v : v[i].at \in Nat
      /\ \A i \in DOMAIN w : w[i].at \in Nat
  <2>1. /\ \A i \in DOMAIN v : v[i] \in Step
        /\ \A i \in DOMAIN w : w[i] \in Step
    OBVIOUS
  <2>2. QED
    BY <2>1 DEF Step
<1>2. CASE Len(v) < Len(w) /\ \A i \in DOMAIN v : v[i] = w[i]
  <2>1. PICK i \in DOMAIN w \cap DOMAIN v : w[i].at < v[i].at
    BY <1>1, <1>2 DEF Before
  <2>2. QED
    BY <1>1, <1>2, <2>1
<1>3. CASE \E i \in DOMAIN v \cap DOMAIN w :
              v[i].at < w[i].at /\ \A j \in 1 .. i - 1 : v[j] = w[j]
  <2>1. PICK i \in DOMAIN v \cap DOMAIN w :
              v[i].at < w[i].at /\ \A j \in 1 .. i - 1 : v[j] = w[j]
    BY <1>3
  <2>2. CASE Len(w) < Len(v) /\ \A j \in DOMAIN w : w[j] = v[j]
    BY <1>1, <2>1, <2>2
  <2>3. CASE \E j \in DOMAIN w \cap DOMAIN v :
                w[j].at < v[j].at /\ \A l \in 1 .. j - 1 : w[l] = v[l]
    <3>1. PICK j \in DOMAIN w \cap DOMAIN v :
                w[j].at < v[j].at /\ \A l \in 1 .. j - 1 : w[l] = v[l]
      BY <2>3
    <3>2. i \in Nat /\ j \in Nat /\ i >= 1 /\ j >= 1
      BY <1>1, <2>1, <3>1
    <3>3. CASE i < j
      <4>1. i \in 1 .. j - 1
        BY <3>2, <3>3
      <4>2. QED
        BY <1>1, <2>1, <3>1, <4>1
    <3>4. CASE j < i
      <4>1. j \in 1 .. i - 1
        BY <3>2, <3>4
      <4>2. QED
        BY <1>1, <2>1, <3>1, <4>1
    <3>5. CASE i = j
      BY <1>1, <2>1, <3>1, <3>5
    <3>6. QED
      BY <3>2, <3>3, <3>4, <3>5
  <2>4. QED
    BY <2>2, <2>3 DEF Before
<1>4. QED
  BY <1>2, <1>3 DEF Before

\* What comes before a walk that has been seen has been seen.
LEMMA SeenDown ==
    ASSUME IndexInv, NEW v, NEW w, Walk(v), Walk(w), Seen(w), Before(v, w)
    PROVE  Seen(v)
<1>1. CASE frames = <<>>
  BY <1>1 DEF Seen
<1>2. CASE frames # <<>>
  <2>1. PICK n \in Nat \ {0} : n = Len(frames)
    BY <1>2, FrameTypes
  <2>2. /\ Len(v) \in Nat /\ DOMAIN v = 1 .. Len(v) /\ Len(w) \in Nat /\ DOMAIN w = 1 .. Len(w)
        /\ DOMAIN frames = 1 .. n
        /\ \A i \in 1 .. Len(v) : v[i].at \in Nat
        /\ \A i \in 1 .. Len(w) : w[i].at \in Nat
        /\ \A j \in 1 .. n : frames[j].next \in Nat \ {0}
    BY <2>1, WalkTypes
  <2>3. PICK k \in 1 .. n :
            /\ Along(w, k)
            /\ Len(w) = k - 1 \/ (k <= Len(w) /\ w[k].at < Done(k))
    BY <1>2, <2>2 DEF Seen
  <2>4. Done(k) \in Nat /\ \A j \in 1 .. k - 1 : Done(j) = frames[j].next - 1
    BY <2>1, <2>2 DEF Done
  <2>5. ASSUME NEW i \in 1 .. k, i - 1 <= Len(v), \A j \in 1 .. i - 1 : v[j] = w[j]
        PROVE  Along(v, i)
    BY <2>3, <2>5 DEF Along
  <2>6. CASE Len(v) < Len(w) /\ \A i \in DOMAIN v : v[i] = w[i]
    <3>1. PICK m \in Nat : m = Len(v)
      BY <2>2
    <3>2. CASE m <= k - 1
      <4>1. m + 1 \in 1 .. k /\ (m + 1) - 1 = m /\ m + 1 \in 1 .. n
        BY <3>1, <3>2
      <4>2. \A j \in 1 .. (m + 1) - 1 : v[j] = w[j]
        BY <2>2, <2>6, <3>1, <4>1
      <4>3. Along(v, m + 1)
        <5>1. (m + 1) - 1 <= Len(v)
          BY <3>1, <4>1
        <5>2. QED
          BY <2>5, <4>1, <4>2, <5>1
      <4>4. QED
        BY <2>2, <3>1, <4>1, <4>3 DEF Seen
    <3>3. CASE k <= m
      <4>1. k \in DOMAIN v /\ \A j \in 1 .. k - 1 : j \in DOMAIN v
        BY <2>2, <3>1, <3>3
      <4>2. Along(v, k)
        <5>1. k \in 1 .. k /\ k - 1 <= Len(v)
          BY <3>1, <3>3
        <5>2. \A j \in 1 .. k - 1 : v[j] = w[j]
          BY <2>6, <4>1
        <5>3. QED
          BY <2>5, <5>1, <5>2
      <4>3. v[k].at < Done(k) /\ k <= Len(v)
        <5>1. k <= Len(v) /\ Len(w) # k - 1
          BY <2>2, <2>6, <3>1, <3>3
        <5>2. v[k] = w[k]
          BY <2>6, <4>1
        <5>3. QED
          BY <2>3, <5>1, <5>2
      <4>4. QED
        BY <2>2, <4>2, <4>3 DEF Seen
    <3>4. QED
      BY <3>1, <3>2, <3>3
  <2>7. CASE \E i \in DOMAIN v \cap DOMAIN w :
                v[i].at < w[i].at /\ \A j \in 1 .. i - 1 : v[j] = w[j]
    <3>1. PICK i \in DOMAIN v \cap DOMAIN w :
                v[i].at < w[i].at /\ \A j \in 1 .. i - 1 : v[j] = w[j]
      BY <2>7
    <3>2. i \in Nat \ {0} /\ i <= Len(v) /\ i <= Len(w)
      BY <2>2, <3>1
    <3>3. CASE i <= k
      <4>1. i \in 1 .. k /\ i \in 1 .. n /\ Along(v, i)
        BY <2>5, <3>1, <3>2, <3>3
      <4>2. v[i].at < Done(i)
        <5>1. CASE i = k
          <6>1. w[k].at < Done(k)
            BY <2>2, <2>3, <3>2, <5>1
          <6>2. QED
            BY <2>2, <2>4, <3>1, <3>2, <5>1, <6>1
        <5>2. CASE i # k
          <6>1. i \in 1 .. k - 1
            BY <4>1, <5>2
          <6>2. w[i].at = frames[i].next - 1 /\ Done(i) = frames[i].next - 1
            BY <2>3, <2>4, <6>1 DEF Along
          <6>3. QED
            BY <3>1, <6>2
        <5>3. QED
          BY <5>1, <5>2
      <4>3. QED
        BY <2>2, <3>2, <4>1, <4>2 DEF Seen
    <3>4. CASE k < i
      <4>1. k \in 1 .. i - 1 /\ \A j \in 1 .. k - 1 : j \in 1 .. i - 1
        BY <3>2, <3>4
      <4>2. Along(v, k)
        <5>1. k \in 1 .. k /\ k - 1 <= Len(v) /\ \A j \in 1 .. k - 1 : v[j] = w[j]
          BY <2>2, <3>1, <3>2, <3>4, <4>1
        <5>2. QED
          BY <2>5, <5>1
      <4>3. v[k].at < Done(k) /\ k <= Len(v)
        BY <2>2, <2>3, <3>1, <3>2, <4>1
      <4>4. QED
        BY <2>2, <4>2, <4>3 DEF Seen
    <3>5. QED
      BY <3>2, <3>3, <3>4
  <2>8. QED
    BY <2>6, <2>7 DEF Before
<1>3. QED
  BY <1>1, <1>2

\* What has not been seen comes after the walk the traversal is at.
LEMMA UnseenIsAfter ==
    ASSUME IndexInv, StackInv, stage = "traverse", AtEdge, NEW h, NEW w, Walk(h), Walk(w),
           Here(h), ~Seen(w), w # h
    PROVE  Before(h, w)
<1>1. PICK n \in Nat \ {0} : n = Len(frames)
  BY FrameTypes DEF AtEdge
<1>2. /\ Len(h) = n /\ DOMAIN h = 1 .. n /\ Len(w) \in Nat /\ DOMAIN w = 1 .. Len(w)
      /\ h \in Seq(Step) /\ w \in Seq(Step) /\ DOMAIN frames = 1 .. n
      /\ \A i \in 1 .. n : h[i].at \in Nat /\ h[i] \in Step
      /\ \A i \in 1 .. Len(w) : w[i].at \in Nat /\ w[i] \in Step
      /\ Along(h, n) /\ h[n].at = frames[n].next
  BY <1>1, WalkTypes DEF Here, Frame
<1>3. PICK differ : differ = {i \in 1 .. n : i > Len(w) \/ w[i] # h[i]}
  OBVIOUS
<1>4. CASE differ = {}
  <2>1. \A i \in 1 .. n : i <= Len(w) /\ w[i] = h[i]
    BY <1>2, <1>3, <1>4
  <2>2. n <= Len(w)
    BY <2>1
  <2>3. CASE Len(w) = n
    BY <1>2, <2>1, <2>3, SameWalk
  <2>4. CASE n < Len(w)
    BY <1>2, <2>1, <2>4 DEF Before
  <2>5. n = Len(w) \/ n < Len(w)
    <3>1. Len(w) \in Nat
      BY <1>2
    <3>2. QED
      BY <2>2, <3>1
  <2>6. QED
    BY <2>3, <2>4, <2>5
<1>5. CASE differ # {}
  <2>1. PICK i \in differ : \A j \in differ : i <= j
    <3>1. differ \in SUBSET Nat
      BY <1>3
    <3>2. QED
      BY <1>5, <3>1, MinIsLeast
  <2>2. i \in 1 .. n /\ \A j \in 1 .. i - 1 : j <= Len(w) /\ w[j] = h[j]
    <3>1. ASSUME NEW j \in 1 .. i - 1 PROVE j <= Len(w) /\ w[j] = h[j]
      <4>1. j \in 1 .. n /\ ~(i <= j)
        BY <1>3, <2>1
      <4>2. j \notin differ
        BY <2>1, <4>1
      <4>3. QED
        BY <1>2, <1>3, <4>1, <4>2
    <3>2. QED
      BY <1>3, <2>1, <3>1
  <2>3. i - 1 <= Len(w)
    <3>1. CASE i = 1
      BY <1>2, <3>1
    <3>2. CASE i # 1
      BY <2>2, <3>2, i - 1 \in 1 .. i - 1
    <3>3. QED
      BY <3>1, <3>2
  <2>4. Along(h, i)
    BY <1>2, <2>2 DEF Along
  <2>5. Along(w, i)
    BY <2>2, <2>3, <2>4 DEF Along
  <2>6. i <= Len(w)
    <3>1. Len(w) # i - 1
      BY <1>2, <2>2, <2>5 DEF Seen
    <3>2. QED
      BY <1>2, <2>2, <2>3, <3>1
  <2>7. w[i].from = frames[i].node /\ h[i].from = frames[i].node /\ w[i] # h[i]
    <3>1. i \in DOMAIN frames /\ i <= Len(h)
      BY <1>2, <2>2
    <3>2. w[i].from = frames[i].node /\ h[i].from = frames[i].node
      BY <2>4, <2>5, <2>6, <3>1, AlongEnds
    <3>3. ~(i > Len(w))
      BY <1>2, <2>2, <2>6
    <3>4. w[i] # h[i]
      BY <1>3, <2>1, <3>3
    <3>5. QED
      BY <3>2, <3>4
  <2>8. w[i].at # h[i].at
    <3>1. w[i] \in Step /\ h[i] \in Step
      BY <1>2, <2>2, <2>6
    <3>2. QED
      BY <2>7, <3>1 DEF Step
  <2>9. h[i].at = Done(i) /\ ~(w[i].at < Done(i))
    <3>1. h[i].at = Done(i)
      <4>1. CASE i = n
        BY <1>1, <1>2, <4>1 DEF Done
      <4>2. CASE i # n
        <5>1. i \in 1 .. n - 1
          BY <2>2, <4>2
        <5>2. h[i].at = frames[i].next - 1
          BY <1>2, <5>1 DEF Along
        <5>3. QED
          BY <1>1, <4>2, <5>2 DEF Done
      <4>3. QED
        BY <4>1, <4>2
    <3>2. QED
      BY <1>2, <2>2, <2>5, <2>6, <3>1 DEF Seen
  <2>10. h[i].at < w[i].at
    BY <1>2, <2>2, <2>6, <2>8, <2>9
  <2>11. i \in DOMAIN h \cap DOMAIN w /\ \A j \in 1 .. i - 1 : h[j] = w[j]
    BY <1>2, <2>2, <2>6
  <2>12. QED
    BY <2>10, <2>11 DEF Before
<1>6. QED
  BY <1>4, <1>5

\* As many walks are listed up to one as its number says.
LEMMA ListCount ==
    ASSUME NEW list \in Seq(Seq(Step)), NEW m \in Nat, m <= Len(list),
           \A i, j \in DOMAIN list : i < j => Before(list[i], list[j])
    PROVE  Cardinality({list[j] : j \in 1 .. m}) = m
<1>1. PICK f : f = [j \in 1 .. m |-> list[j]]
  OBVIOUS
<1>2. PICK S : S = {list[j] : j \in 1 .. m}
  OBVIOUS
<1>3. Len(list) \in Nat /\ DOMAIN list = 1 .. Len(list)
      /\ \A j \in 1 .. m : j \in DOMAIN list /\ list[j] \in Seq(Step)
  OBVIOUS
<1>4. ASSUME NEW i \in 1 .. m, NEW j \in 1 .. m, i < j PROVE list[i] # list[j]
  <2>1. Before(list[i], list[j])
    BY <1>3, <1>4
  <2>2. QED
    BY <1>3, <2>1, BeforeOnce
<1>5. \A i, j \in 1 .. m : list[i] = list[j] => i = j
  <2>1. \A i, j \in 1 .. m : i < j \/ j < i \/ i = j
    OBVIOUS
  <2>2. QED
    BY <1>4, <2>1
<1>6. f \in Bijection(1 .. m, S)
  <2>1. f \in [1 .. m -> S] /\ \A x \in S : \E j \in 1 .. m : f[j] = x
    BY <1>1, <1>2
  <2>2. \A i, j \in 1 .. m : f[i] = f[j] => i = j
    BY <1>1, <1>5
  <2>3. DOMAIN f = 1 .. m
    BY <1>1
  <2>4. QED
    BY <2>1, <2>2, <2>3 DEF Bijection, Injection, IsInjective, Surjection
<1>7. ExistsBijection(1 .. m, S)
  BY <1>6 DEF ExistsBijection
<1>8. QED
  BY <1>2, <1>7, FS_CountingElements

\* The rank of a listed walk is its place in the list.
LEMMA ListedRank ==
    ASSUME IndexInv, NEW list, Listed(list), NEW walks, \A v \in walks : Walk(v),
           \A v : Walk(v) /\ Seen(v) => v \in walks, NEW i \in DOMAIN list
    PROVE  Rank(list[i], walks) = i - 1
<1>1. /\ list \in Seq(Seq(Step)) /\ DOMAIN list = 1 .. Len(list) /\ Len(list) \in Nat
      /\ i \in 1 .. Len(list) /\ \A j \in DOMAIN list : list[j] \in Seq(Step)
  BY DEF Listed
<1>2. Walk(list[i]) /\ Seen(list[i])
  BY DEF Listed
<1>3. ASSUME NEW v \in walks, Before(v, list[i]) PROVE \E j \in 1 .. i - 1 : v = list[j]
  <2>1. PICK j \in DOMAIN list : v = list[j]
    BY <1>2, <1>3, SeenDown DEF Listed
  <2>2. CASE i <= j
    <3>1. Before(list[i], v) \/ v = list[i]
      BY <1>1, <2>1, <2>2 DEF Listed
    <3>2. v \in Seq(Step)
      BY <1>1, <2>1
    <3>3. QED
      BY <1>1, <1>3, <3>1, <3>2, BeforeOnce
  <2>3. CASE j < i
    BY <1>1, <2>1, <2>3
  <2>4. QED
    BY <1>1, <2>1, <2>2, <2>3
<1>4. ASSUME NEW j \in 1 .. i - 1 PROVE list[j] \in walks /\ Before(list[j], list[i])
  <2>1. j \in DOMAIN list /\ j < i
    BY <1>1
  <2>2. Walk(list[j]) /\ Seen(list[j]) /\ Before(list[j], list[i])
    BY <2>1 DEF Listed
  <2>3. QED
    BY <2>2
<1>5. {v \in walks : Before(v, list[i])} = {list[j] : j \in 1 .. i - 1}
  BY <1>3, <1>4
<1>6. i - 1 \in Nat /\ i - 1 <= Len(list)
  BY <1>1
<1>7. Cardinality({list[j] : j \in 1 .. i - 1}) = i - 1
  BY <1>1, <1>6, ListCount DEF Listed
<1>8. QED
  BY <1>5, <1>7 DEF Rank

\* The rank of the walk the traversal is at is the length of the list.
LEMMA HereRank ==
    ASSUME IndexInv, StackInv, stage = "traverse", AtEdge, NEW list, Listed(list), NEW walks,
           \A v \in walks : Walk(v), \A v : Walk(v) /\ Seen(v) => v \in walks,
           NEW h, Walk(h), Here(h)
    PROVE  Rank(h, walks) = Len(traversal)
<1>1. /\ list \in Seq(Seq(Step)) /\ DOMAIN list = 1 .. Len(list) /\ Len(list) \in Nat
      /\ Len(list) = Len(traversal)
  BY DEF Listed
<1>2. ASSUME NEW v \in walks, Before(v, h) PROVE \E j \in 1 .. Len(list) : v = list[j]
  <2>1. h \in Seq(Step) /\ v \in Seq(Step) /\ Walk(v)
    BY DEF Walk
  <2>2. Seen(v)
    BY <1>2, <2>1, UnseenIsAfter, BeforeOnce
  <2>3. QED
    BY <1>1, <2>1, <2>2 DEF Listed
<1>3. ASSUME NEW j \in 1 .. Len(list) PROVE list[j] \in walks /\ Before(list[j], h)
  <2>1. Walk(list[j]) /\ Seen(list[j])
    BY <1>1 DEF Listed
  <2>2. QED
    BY <2>1, SeenIsBefore
<1>4. {v \in walks : Before(v, h)} = {list[j] : j \in 1 .. Len(list)}
  BY <1>2, <1>3
<1>5. Cardinality({list[j] : j \in 1 .. Len(list)}) = Len(list)
  <2>1. \A i, j \in DOMAIN list : i < j => Before(list[i], list[j])
    BY DEF Listed
  <2>2. PICK m \in Nat : m = Len(list)
    BY <1>1
  <2>3. Cardinality({list[j] : j \in 1 .. m}) = m
    <3>1. m <= Len(list) /\ list \in Seq(Seq(Step))
      BY <1>1, <2>2
    <3>2. QED
      BY <2>1, <3>1, ListCount
  <2>4. QED
    BY <2>2, <2>3
<1>6. QED
  BY <1>1, <1>4, <1>5 DEF Rank

-----------------------------------------------------------------------------
(* The walks that are tried.                                               *)

\* A beginning of a walk is a walk.
LEMMA WalkFront ==
    ASSUME NEW w, Walk(w), NEW m \in Nat, m <= Len(w)
    PROVE  /\ Walk(SubSeq(w, 1, m)) /\ Len(SubSeq(w, 1, m)) = m
           /\ DOMAIN SubSeq(w, 1, m) = 1 .. m
           /\ \A i \in 1 .. m : SubSeq(w, 1, m)[i] = w[i]
<1>1. w \in Seq(Step) /\ Len(w) \in Nat /\ DOMAIN w = 1 .. Len(w)
  BY DEF Walk
<1>2. PICK v : v = SubSeq(w, 1, m)
  OBVIOUS
<1>3. /\ v \in Seq(Step) /\ Len(v) = m /\ DOMAIN v = 1 .. m
      /\ \A i \in 1 .. m : v[i] = w[i] /\ i \in DOMAIN w
  <2>1. /\ \A i \in 1 .. m : w[i] \in Step
        /\ v = [i \in 1 .. m |-> w[i]]
    BY <1>1, <1>2
  <2>2. QED
    BY <1>1, <2>1
<1>4. ASSUME NEW i \in 1 .. m
      PROVE  /\ v[i].from = (IF i = 1 THEN 1 ELSE Follow(v[i - 1]))
             /\ v[i].from \in Node /\ v[i].at \in DOMAIN edges[v[i].from]
             /\ Follow(v[i]) # None
  <2>1. v[i] = w[i] /\ (i # 1 => v[i - 1] = w[i - 1])
    <3>1. i # 1 => i - 1 \in 1 .. m
      OBVIOUS
    <3>2. QED
      BY <1>3, <3>1
  <2>2. QED
    BY <1>3, <2>1 DEF Walk
<1>5. QED
  BY <1>2, <1>3, <1>4 DEF Walk

\* A walk ends at a component.
LEMMA WalkEnds ==
    ASSUME IndexInv, components # <<>>, NEW w, Walk(w)
    PROVE  End(w) \in Node
<1>1. CASE w = <<>>
  <2>1. components \in Seq(Part)
    BY DEF IndexInv, TypeOK
  <2>2. QED
    BY <1>1, <2>1 DEF End, Node
<1>2. CASE w # <<>>
  <2>1. Len(w) \in DOMAIN w
    BY <1>2, LastTypes DEF Walk
  <2>2. /\ w[Len(w)].from \in Node /\ w[Len(w)].at \in DOMAIN edges[w[Len(w)].from]
        /\ Follow(w[Len(w)]) # None
    BY <2>1 DEF Walk
  <2>3. Follow(w[Len(w)]) \in Node
    BY <2>2, EdgeTypes DEF Follow
  <2>4. QED
    BY <1>2, <2>3 DEF End
<1>3. QED
  BY <1>1, <1>2

\* The walks of n edges that lead over sound edges, up to their last.
SoundWalks(n) ==
    {w \in Seq(Step) : /\ Walk(w) /\ Len(w) = n
                       /\ \A m \in 1 .. n - 1 : Wrong(SubSeq(w, 1, m)) = None}

\* The walks of one edge more.
Longer(walks) ==
    UNION {{Append(w, e) : e \in FollowedFrom(End(w))} :
             w \in {v \in walks : v = <<>> \/ Wrong(v) = None}}

\* A walk over sound edges goes on over any edge that is followed.
LEMMA SoundGrows ==
    ASSUME IndexInv, components # <<>>, NEW n \in Nat, NEW w \in SoundWalks(n),
           w = <<>> \/ Wrong(w) = None, NEW e \in FollowedFrom(End(w))
    PROVE  Append(w, e) \in SoundWalks(n + 1)
<1>1. /\ w \in Seq(Step) /\ Walk(w) /\ Len(w) = n /\ DOMAIN w = 1 .. n
      /\ \A m \in 1 .. n - 1 : Wrong(SubSeq(w, 1, m)) = None
  BY DEF SoundWalks
<1>2. /\ End(w) \in Node /\ End(w) \in Nat
  <2>1. End(w) \in Node /\ components \in Seq(Part)
    BY <1>1, WalkEnds DEF IndexInv, TypeOK
  <2>2. QED
    BY <2>1 DEF Node
<1>3. e.from = End(w) /\ e.at \in DOMAIN edges[End(w)] /\ Follow(e) # None
  BY DEF FollowedFrom
<1>4. e \in Step
  <2>1. edges[End(w)] \in Seq(Edge)
    BY <1>2 DEF IndexInv, TypeOK, Node
  <2>2. e.at \in Nat
    BY <1>3, <2>1
  <2>3. e \in [from : {End(w)}, at : DOMAIN edges[End(w)]]
    BY DEF FollowedFrom
  <2>4. QED
    BY <1>2, <2>2, <2>3 DEF Step
<1>5. PICK v : v = Append(w, e)
  OBVIOUS
<1>6. /\ v \in Seq(Step) /\ Len(v) = n + 1 /\ DOMAIN v = 1 .. n + 1
      /\ v[n + 1] = e /\ \A i \in 1 .. n : v[i] = w[i]
  BY <1>1, <1>4, <1>5, AppendTypes
<1>7. ASSUME NEW i \in DOMAIN v
      PROVE  /\ v[i].from = (IF i = 1 THEN 1 ELSE Follow(v[i - 1]))
             /\ v[i].from \in Node /\ v[i].at \in DOMAIN edges[v[i].from]
             /\ Follow(v[i]) # None
  <2>1. CASE i = n + 1
    <3>1. End(w) = IF i = 1 THEN 1 ELSE Follow(v[i - 1])
      <4>1. CASE n = 0
        BY <1>1, <2>1, <4>1 DEF End
      <4>2. CASE n # 0
        <5>1. n \in 1 .. n /\ i - 1 = n /\ i # 1 /\ w # <<>>
          BY <1>1, <2>1, <4>2
        <5>2. QED
          BY <1>1, <1>6, <5>1 DEF End
      <4>3. QED
        BY <4>1, <4>2
    <3>2. QED
      BY <1>2, <1>3, <1>6, <2>1, <3>1
  <2>2. CASE i # n + 1
    <3>1. i \in 1 .. n /\ (i # 1 => i - 1 \in 1 .. n)
      BY <1>6, <1>7, <2>2
    <3>2. v[i] = w[i] /\ (i # 1 => v[i - 1] = w[i - 1])
      BY <1>6, <3>1
    <3>3. QED
      BY <1>1, <3>1, <3>2 DEF Walk
  <2>3. QED
    BY <2>1, <2>2
<1>8. Walk(v)
  BY <1>6, <1>7 DEF Walk
<1>9. ASSUME NEW m \in 1 .. (n + 1) - 1 PROVE Wrong(SubSeq(v, 1, m)) = None
  <2>1. m \in 1 .. n /\ m \in Nat
    BY <1>9
  <2>2. SubSeq(v, 1, m) = SubSeq(w, 1, m)
    BY <1>1, <1>6, <2>1
  <2>3. CASE m = n
    <3>1. SubSeq(w, 1, n) = w /\ w # <<>>
      BY <1>1, <2>1, <2>3
    <3>2. QED
      BY <2>2, <2>3, <3>1
  <2>4. CASE m # n
    <3>1. m \in 1 .. n - 1
      BY <2>1, <2>4
    <3>2. QED
      BY <1>1, <2>2, <3>1
  <2>5. QED
    BY <2>3, <2>4
<1>10. QED
  BY <1>5, <1>6, <1>8, <1>9 DEF SoundWalks

\* Without its last edge a walk over sound edges is one.
LEMMA SoundShrinks ==
    ASSUME NEW n \in Nat \ {0}, NEW w \in SoundWalks(n)
    PROVE  w \in Longer(SoundWalks(n - 1))
<1>1. /\ w \in Seq(Step) /\ Walk(w) /\ Len(w) = n /\ DOMAIN w = 1 .. n
      /\ \A m \in 1 .. n - 1 : Wrong(SubSeq(w, 1, m)) = None
  BY DEF SoundWalks
<1>2. PICK v : v = SubSeq(w, 1, n - 1)
  OBVIOUS
<1>3. n - 1 \in Nat /\ n - 1 <= Len(w)
  BY <1>1
<1>4. /\ Walk(v) /\ Len(v) = n - 1 /\ DOMAIN v = 1 .. n - 1 /\ v \in Seq(Step)
      /\ \A i \in 1 .. n - 1 : v[i] = w[i]
  BY <1>1, <1>2, <1>3, WalkFront DEF Walk
<1>5. w = Append(v, w[n])
  <2>1. w[n] \in Step /\ n \in 1 .. n
    BY <1>1
  <2>2. PICK u : u = Append(v, w[n])
    OBVIOUS
  <2>3. u \in Seq(Step) /\ Len(u) = n /\ \A i \in 1 .. n : u[i] = w[i]
    BY <1>4, <2>1, <2>2
  <2>4. QED
    BY <1>1, <2>2, <2>3, SameWalk
<1>6. w[n] \in FollowedFrom(End(v))
  <2>1. /\ w[n] \in Step /\ w[n].at \in DOMAIN edges[w[n].from] /\ Follow(w[n]) # None
        /\ w[n].from = (IF n = 1 THEN 1 ELSE Follow(w[n - 1]))
    BY <1>1 DEF Walk
  <2>2. w[n].from = End(v)
    <3>1. CASE n = 1
      BY <1>4, <2>1, <3>1 DEF End
    <3>2. CASE n # 1
      <4>1. n - 1 \in 1 .. n - 1 /\ v # <<>>
        BY <1>4, <3>2
      <4>2. QED
        BY <1>4, <2>1, <3>2, <4>1 DEF End
    <3>3. QED
      BY <3>1, <3>2
  <2>3. w[n] = [from |-> w[n].from, at |-> w[n].at]
    BY <2>1 DEF Step
  <2>4. QED
    BY <2>1, <2>2, <2>3 DEF FollowedFrom
<1>7. v \in SoundWalks(n - 1)
  <2>1. ASSUME NEW m \in 1 .. (n - 1) - 1 PROVE Wrong(SubSeq(v, 1, m)) = None
    <3>1. SubSeq(v, 1, m) = SubSeq(w, 1, m) /\ m \in 1 .. n - 1
      BY <1>1, <1>4
    <3>2. QED
      BY <1>1, <3>1
  <2>2. QED
    BY <1>4, <2>1 DEF SoundWalks
<1>8. v = <<>> \/ Wrong(v) = None
  <2>1. CASE n = 1
    BY <1>4, <2>1
  <2>2. CASE n # 1
    BY <1>1, <1>2, <2>2, n - 1 \in 1 .. n - 1
  <2>3. QED
    BY <2>1, <2>2
<1>9. QED
  BY <1>5, <1>6, <1>7, <1>8 DEF Longer

\* The walks of one edge more are those of the next length.
LEMMA SoundStep ==
    ASSUME IndexInv, components # <<>>, NEW n \in Nat \ {0}
    PROVE  SoundWalks(n) = Longer(SoundWalks(n - 1))
<1>1. ASSUME NEW w \in Longer(SoundWalks(n - 1)) PROVE w \in SoundWalks(n)
  <2>1. PICK v \in SoundWalks(n - 1) :
            /\ v = <<>> \/ Wrong(v) = None
            /\ \E e \in FollowedFrom(End(v)) : w = Append(v, e)
    BY <1>1 DEF Longer
  <2>2. n - 1 \in Nat /\ (n - 1) + 1 = n
    OBVIOUS
  <2>3. QED
    BY <2>1, <2>2, SoundGrows
<1>2. QED
  BY <1>1, SoundShrinks

\* The empty walk is the one of no edges.
LEMMA NoEdges == SoundWalks(0) = {<<>>}
<1>1. <<>> \in Seq(Step) /\ Len(<<>>) = 0 /\ Walk(<<>>)
  BY DEF Walk
<1>2. \A w \in Seq(Step) : Len(w) = 0 => w = <<>>
  OBVIOUS
<1>3. \A m \in 1 .. 0 - 1 : FALSE
  OBVIOUS
<1>4. <<>> \in SoundWalks(0)
  BY <1>1, <1>3 DEF SoundWalks
<1>5. \A w \in SoundWalks(0) : w = <<>>
  BY <1>2 DEF SoundWalks
<1>6. QED
  BY <1>4, <1>5

\* The recursion of Walks has a solution, and it is these.
LEMMA WalksAre ==
    ASSUME IndexInv, components # <<>>
    PROVE  \A n \in 0 .. MaxDepth : Walks[n] = SoundWalks(n)
<1> DEFINE Rec(f) == [n \in 0 .. MaxDepth |->
                        IF n = 0 THEN {<<>>}
                        ELSE UNION {{Append(w, e) : e \in FollowedFrom(End(w))} :
                               w \in {v \in f[n - 1] : v = <<>> \/ Wrong(v) = None}}]
<1>0. MaxDepth \in Nat \ {0}
  BY LimitsAssumption
<1>1. PICK sound : sound = [n \in 0 .. MaxDepth |-> SoundWalks(n)]
  OBVIOUS
<1>2. sound = Rec(sound)
  <2>1. ASSUME NEW n \in 0 .. MaxDepth
        PROVE  SoundWalks(n) = IF n = 0 THEN {<<>>} ELSE Longer(sound[n - 1])
    <3>1. CASE n = 0
      BY <3>1, NoEdges
    <3>2. CASE n # 0
      <4>1. n \in Nat \ {0} /\ n - 1 \in 0 .. MaxDepth
        BY <1>0, <2>1, <3>2
      <4>2. sound[n - 1] = SoundWalks(n - 1)
        BY <1>1, <4>1
      <4>3. QED
        BY <3>2, <4>1, <4>2, SoundStep
    <3>3. QED
      BY <3>1, <3>2
  <2>2. sound = [n \in 0 .. MaxDepth |-> IF n = 0 THEN {<<>>} ELSE Longer(sound[n - 1])]
    BY <1>1, <2>1
  <2>3. QED
    BY <2>2 DEF Longer
<1>3. Walks = CHOOSE f : f = Rec(f)
  BY DEF Walks
<1>4. Walks = Rec(Walks)
  <2>1. \E f : f = Rec(f)
    BY <1>2
  <2> HIDE DEF Rec
  <2>2. QED
    BY <1>3, <2>1
<1>5. \A n \in 0 .. MaxDepth :
          Walks[n] = IF n = 0 THEN {<<>>} ELSE Longer(Walks[n - 1])
  BY <1>4 DEF Longer
<1>6. PICK wrong : wrong = {n \in 0 .. MaxDepth : Walks[n] # SoundWalks(n)}
  OBVIOUS
<1>7. CASE wrong # {}
  <2>1. wrong \in SUBSET Nat
    BY <1>6
  <2>2. PICK n \in wrong : \A m \in wrong : n <= m
    BY <1>7, <2>1, MinIsLeast
  <2>3. n \in 0 .. MaxDepth /\ Walks[n] # SoundWalks(n)
    BY <1>6, <2>2
  <2>4. n # 0
    BY <1>5, <2>3, NoEdges
  <2>5. n \in Nat \ {0} /\ n - 1 \in 0 .. MaxDepth /\ ~(n <= n - 1)
    BY <1>0, <2>3, <2>4
  <2>6. Walks[n - 1] = SoundWalks(n - 1)
    BY <1>6, <2>2, <2>5
  <2>7. QED
    BY <1>5, <2>3, <2>4, <2>5, <2>6, SoundStep
<1>8. QED
  BY <1>6, <1>7

\* What is tried is a walk over sound edges, up to its last.
LEMMA TriedAre ==
    ASSUME IndexInv, components # <<>>
    PROVE  \A w : w \in Tried <=>
              /\ Walk(w) /\ Len(w) <= MaxDepth
              /\ \A m \in 1 .. Len(w) - 1 : Wrong(SubSeq(w, 1, m)) = None
<1>1. MaxDepth \in Nat
  BY LimitsAssumption
<1>2. \A w : w \in Tried <=> \E n \in 0 .. MaxDepth : w \in SoundWalks(n)
  BY WalksAre DEF Tried
<1>3. ASSUME NEW w
      PROVE  (\E n \in 0 .. MaxDepth : w \in SoundWalks(n)) <=>
              /\ Walk(w) /\ Len(w) <= MaxDepth
              /\ \A m \in 1 .. Len(w) - 1 : Wrong(SubSeq(w, 1, m)) = None
  <2>1. Walk(w) => w \in Seq(Step) /\ Len(w) \in Nat
    BY DEF Walk
  <2>2. QED
    BY <1>1, <2>1 DEF SoundWalks
<1>4. QED
  BY <1>2, <1>3

-----------------------------------------------------------------------------
(* The verdict.                                                            *)

\* A beginning of a walk comes before it.
LEMMA FrontIsBefore ==
    ASSUME NEW w, Walk(w), NEW m \in Nat, m < Len(w)
    PROVE  Before(SubSeq(w, 1, m), w)
<1>1. Len(w) \in Nat
  BY DEF Walk
<1>2. /\ Len(SubSeq(w, 1, m)) = m /\ DOMAIN SubSeq(w, 1, m) = 1 .. m
      /\ \A i \in 1 .. m : SubSeq(w, 1, m)[i] = w[i]
  BY <1>1, WalkFront
<1>3. QED
  BY <1>2 DEF Before

\* A walk that nothing is wrong with is shorter than the limit of depth.
LEMMA RightIsShallow ==
    ASSUME NEW w, Wrong(w) = None
    PROVE  ~(Len(w) >= MaxDepth)
<1>1. /\ "InvalidTarget" # None /\ "InlineElementValue" # None /\ "Cycle" # None
      /\ "DepthLimit" # None
  BY OutcomeAssumption DEF Outcomes
<1>2. QED
  BY <1>1 DEF Wrong

\* Walks within the limit of depth all of whose beginnings have been seen are tried.
LEMMA SeenIsTried ==
    ASSUME IndexInv, WalkInv, stage = "traverse", NEW w, Walk(w),
           \A v : Walk(v) /\ Before(v, w) => Seen(v)
    PROVE  w \in Tried
<1>1. Len(w) \in Nat /\ MaxDepth \in Nat \ {0}
  BY LimitsAssumption DEF Walk
<1>2. ASSUME NEW m \in 1 .. Len(w) - 1
      PROVE  /\ Wrong(SubSeq(w, 1, m)) = None
             /\ Len(SubSeq(w, 1, m)) = m
  <2>1. m \in Nat /\ m < Len(w) /\ m <= Len(w) /\ m # 0
    BY <1>1
  <2>2. Walk(SubSeq(w, 1, m)) /\ Len(SubSeq(w, 1, m)) = m
    BY <2>1, WalkFront
  <2>3. Seen(SubSeq(w, 1, m)) /\ SubSeq(w, 1, m) # <<>>
    BY <2>1, <2>2, FrontIsBefore
  <2>4. QED
    BY <2>2, <2>3 DEF WalkInv
<1>3. Len(w) <= MaxDepth
  <2>1. CASE Len(w) <= 1
    BY <1>1, <2>1
  <2>2. CASE Len(w) > 1
    <3>1. Len(w) - 1 \in 1 .. Len(w) - 1
      BY <1>1, <2>2
    <3>2. Wrong(SubSeq(w, 1, Len(w) - 1)) = None /\ Len(SubSeq(w, 1, Len(w) - 1)) = Len(w) - 1
      BY <1>2, <3>1
    <3>3. ~(Len(SubSeq(w, 1, Len(w) - 1)) >= MaxDepth)
      BY <3>2, RightIsShallow
    <3>4. QED
      BY <1>1, <3>2, <3>3
  <2>3. QED
    BY <1>1, <2>1, <2>2
<1>4. QED
  BY <1>2, <1>3, TriedAre DEF WalkInv

\* After Ok every walk has been listed.
LEMMA OkVerdict ==
    ASSUME IndexInv, WalkInv, stage = "traverse", frames = <<>>, outcome = "Ok"
    PROVE  /\ outcome = Verdict(Tried)
           /\ Len(traversal) = Cardinality(Tried)
           /\ \A w \in Tried : traversal[1 + Rank(w, Tried)] = End(w)
<1>1. \A w : Seen(w)
  BY DEF Seen
<1>2. PICK list : Listed(list)
  BY DEF WalkInv
<1>3. PICK walks : walks = Tried
  OBVIOUS
<1>4. \A w : w \in walks <=> Walk(w)
  BY <1>1, <1>3, SeenIsTried, TriedAre DEF WalkInv
<1>5. /\ list \in Seq(Seq(Step)) /\ DOMAIN list = 1 .. Len(list)
      /\ Len(list) = Len(traversal) /\ Len(list) \in Nat
  BY <1>2 DEF Listed
<1>6. \A i \in DOMAIN list : Rank(list[i], walks) = i - 1
  BY <1>2, <1>4, ListedRank
<1>7. \A w \in walks : \E i \in DOMAIN list : w = list[i]
  BY <1>1, <1>2, <1>4 DEF Listed
<1>8. Len(traversal) = Cardinality(walks)
  <2>1. walks = {list[i] : i \in 1 .. Len(list)}
    BY <1>2, <1>4, <1>5, <1>7 DEF Listed
  <2>2. \A i, j \in DOMAIN list : i < j => Before(list[i], list[j])
    BY <1>2 DEF Listed
  <2>3. PICK m \in Nat : m = Len(list)
    BY <1>5
  <2>4. m <= Len(list)
    BY <2>3
  <2>5. Cardinality({list[i] : i \in 1 .. m}) = m
    BY <1>5, <2>2, <2>4, ListCount
  <2>6. QED
    BY <1>5, <2>1, <2>3, <2>5
<1>9. ASSUME NEW w \in walks
      PROVE  /\ traversal[1 + Rank(w, walks)] = End(w)
             /\ ~(Rank(w, walks) >= MaxSteps)
  <2>1. PICK i \in DOMAIN list : w = list[i]
    BY <1>7
  <2>2. Rank(w, walks) = i - 1 /\ End(w) = traversal[i]
    BY <1>2, <1>6, <2>1 DEF Listed
  <2>3. i \in Nat /\ i <= Len(traversal) /\ Len(traversal) <= MaxSteps /\ MaxSteps \in Nat
    BY <1>5, <2>1, LimitsAssumption DEF WalkInv
  <2>4. 1 + (i - 1) = i /\ ~(i - 1 >= MaxSteps)
    BY <1>5, <2>3
  <2>5. QED
    BY <2>2, <2>4
<1>10. Bad(walks) = {}
  BY <1>1, <1>4, <1>9 DEF Bad, WalkInv
<1>11. QED
  BY <1>3, <1>8, <1>9, <1>10 DEF Verdict

\* A fault is of the walk the traversal is at, and no walk before it is bad.
LEMMA FaultVerdict ==
    ASSUME IndexInv, StackInv, WalkInv, stage = "traverse", AtEdge, NEW h, Walk(h), Here(h),
           Faulty(h, outcome)
    PROVE  outcome = Verdict(Tried)
<1>1. PICK list : Listed(list)
  BY DEF WalkInv
<1>2. PICK walks : walks = Tried
  OBVIOUS
<1>3. \A w : w \in walks => Walk(w) /\ w \in Seq(Step)
  BY <1>2, TriedAre DEF WalkInv, Walk
<1>4. \A w : Walk(w) /\ Seen(w) => w \in walks
  <2>1. ASSUME NEW w, Walk(w), Seen(w) PROVE w \in walks
    BY <1>2, <2>1, SeenIsTried, SeenDown
  <2>2. QED
    BY <2>1
<1>5. h \in walks
  <2>1. ASSUME NEW v, Walk(v), Before(v, h) PROVE Seen(v)
    <3>1. v \in Seq(Step) /\ h \in Seq(Step)
      BY <2>1 DEF Walk
    <3>2. QED
      BY <2>1, <3>1, UnseenIsAfter, BeforeOnce
  <2>2. QED
    BY <1>2, <2>1, SeenIsTried
<1>6. Rank(h, walks) = Len(traversal)
  BY <1>1, <1>3, <1>4, HereRank
<1>7. h # <<>>
  BY FrameTypes DEF Here, AtEdge
<1>8. h \in Bad(walks)
  BY <1>5, <1>6, <1>7 DEF Bad, Faulty, StepsReached
<1>9. ASSUME NEW w \in Bad(walks), w # h PROVE Before(h, w)
  <2>1. w \in walks /\ w # <<>> /\ (Wrong(w) # None \/ Rank(w, walks) >= MaxSteps)
    BY DEF Bad
  <2>2. ASSUME Seen(w) PROVE FALSE
    <3>1. Wrong(w) = None
      BY <1>3, <2>1, <2>2 DEF WalkInv
    <3>2. PICK i \in DOMAIN list : w = list[i]
      BY <1>1, <1>3, <2>1, <2>2 DEF Listed
    <3>3. Rank(w, walks) = i - 1
      BY <1>1, <1>3, <1>4, <3>2, ListedRank
    <3>4. i \in Nat /\ i <= Len(traversal) /\ Len(traversal) \in Nat
      BY <1>1, <3>2 DEF Listed
    <3>5. Len(traversal) <= MaxSteps /\ MaxSteps \in Nat
      BY LimitsAssumption DEF WalkInv
    <3>6. QED
      BY <2>1, <3>1, <3>3, <3>4, <3>5
  <2>3. QED
    BY <1>3, <1>9, <2>1, <2>2, UnseenIsAfter
<1>10. (CHOOSE x \in Bad(walks) : \A y \in Bad(walks) \ {x} : Before(x, y)) = h
  <2>1. ASSUME NEW x \in Bad(walks), \A y \in Bad(walks) \ {x} : Before(x, y) PROVE x = h
    <3>1. ASSUME x # h PROVE FALSE
      <4>1. Before(x, h) /\ Before(h, x)
        BY <1>8, <1>9, <2>1, <3>1
      <4>2. x \in Seq(Step) /\ h \in Seq(Step)
        BY <1>3, <1>5 DEF Bad
      <4>3. QED
        BY <4>1, <4>2, BeforeOnce
    <3>2. QED
      BY <3>1
  <2>2. \A y \in Bad(walks) \ {h} : Before(h, y)
    BY <1>9
  <2>3. QED
    BY <1>8, <2>1, <2>2
<1>11. Verdict(walks) = IF Wrong(h) # None THEN Wrong(h) ELSE "TraversalLimit"
  <2> DEFINE first == CHOOSE x \in Bad(walks) : \A y \in Bad(walks) \ {x} : Before(x, y)
  <2>1. Verdict(walks) = IF Bad(walks) = {} THEN "Ok"
                         ELSE IF Wrong(first) # None THEN Wrong(first) ELSE "TraversalLimit"
    BY DEF Verdict
  <2>2. first = h
    BY <1>10
  <2> HIDE DEF first
  <2>3. QED
    BY <1>8, <2>1, <2>2
<1>12. QED
  BY <1>2, <1>11 DEF Faulty

\* Only a traversal ends well.
OkInv == outcome = "Ok" => stage = "traverse"

\* What refuses a document is not Ok.
LEMMA NextOk == OkInv /\ [Next]_vars => OkInv'
<1> SUFFICES ASSUME OkInv, [Next]_vars PROVE OkInv'
  OBVIOUS
<1>1. None # "Ok"
  BY OutcomeAssumption DEF Outcomes
<1>2. ASSUME NEW error, error # "Ok", Refuse(error) PROVE OkInv'
  BY <1>2 DEF Refuse, OkInv
<1>3. \A p, kind, id : ComponentError(p, kind, id) # "Ok"
  BY <1>1 DEF ComponentError
<1>4. \A p, href, mixed : LinkError(p, href, mixed) # "Ok"
  BY <1>1 DEF LinkError
<1>5. \A r : ReferenceError(r) # "Ok"
  BY <1>1 DEF ReferenceError
<1>6. CASE outcome = None /\ Index
  BY <1>1, <1>2, <1>3, <1>4, <1>6 DEF Index, Declare, Refer, Close, OkInv
<1>7. CASE outcome = None /\ Resolve
  BY <1>1, <1>2, <1>5, <1>7 DEF Resolve, OkInv
<1>8. CASE outcome = None /\ Traverse
  BY <1>8 DEF Traverse, Leave, Skip, AtEdge, Enter, Fail, Complete, OkInv
<1>9. CASE UNCHANGED vars
  BY <1>9 DEF vars, OkInv
<1>10. QED
  BY <1>6, <1>7, <1>8, <1>9 DEF Next

\* Before the traversal there are no walks to speak of.
LEMMA InitStack == Init => StackInv /\ WalkInv /\ OkInv
  BY OutcomeAssumption DEF Init, StackInv, WalkInv, OkInv, Outcomes

\* The traversal and its walks at every step.
LEMMA TraversalInv == Spec => [](IndexInv /\ GraphInv /\ StackInv /\ WalkInv /\ OkInv)
<1>1. Init => IndexInv /\ GraphInv /\ StackInv /\ WalkInv /\ OkInv
  BY InitTypes, InitGraph, InitStack
<1>2. IndexInv /\ GraphInv /\ StackInv /\ WalkInv /\ OkInv /\ [Next]_vars
        => (IndexInv /\ GraphInv /\ StackInv /\ WalkInv /\ OkInv)'
  BY NextTypes, NextGraph, NextStack, NextWalks, NextOk
<1>3. QED
  BY <1>1, <1>2, PTL DEF Spec

\* references.rs, traverse: for any document and limits its answer is the first
\* fault in declaration order over all walks from the root, and after Ok the
\* occurrences it lists are these walks in that order.
THEOREM FirstFaultIsAnswered == Spec => []VerdictIsFirstFault
<1>1. IndexInv /\ GraphInv /\ StackInv /\ WalkInv => VerdictIsFirstFault
  <2> SUFFICES ASSUME IndexInv, StackInv, WalkInv, stage = "traverse", outcome # None
               PROVE  /\ outcome = Verdict(Tried)
                      /\ outcome = "Ok" =>
                            /\ Len(traversal) = Cardinality(Tried)
                            /\ \A w \in Tried : traversal[1 + Rank(w, Tried)] = End(w)
    BY DEF VerdictIsFirstFault
  <2>1. CASE outcome = "Ok" /\ frames = <<>>
    BY <2>1, OkVerdict
  <2>2. CASE outcome # "Ok" /\ AtEdge /\ \E w : Walk(w) /\ Here(w) /\ Faulty(w, outcome)
    BY <2>2, FaultVerdict
  <2>3. QED
    BY <2>1, <2>2 DEF WalkInv
<1>2. QED
  BY <1>1, TraversalInv, PTL

\* A document that is accepted has no fault on any walk, of whatever length: no
\* cycle, no value in an element's description, no misplaced target.
AcceptedIsSound == outcome = "Ok" => \A w : Walk(w) /\ w # <<>> => Wrong(w) = None

\* references.rs, traverse: no order of members and no sharing of targets hides a
\* fault from the traversal.
THEOREM AcceptedDocumentsAreSound == Spec => []AcceptedIsSound
<1>1. OkInv /\ WalkInv => AcceptedIsSound
  <2> SUFFICES ASSUME WalkInv, stage = "traverse", outcome = "Ok"
               PROVE  \A w : Walk(w) /\ w # <<>> => Wrong(w) = None
    BY DEF AcceptedIsSound, OkInv
  <2>1. "Ok" # None
    BY OutcomeAssumption DEF Outcomes
  <2>2. QED
    BY <2>1 DEF WalkInv, Seen
<1>2. QED
  BY <1>1, TraversalInv, PTL
=============================================================================
