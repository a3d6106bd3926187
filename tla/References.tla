----------------------------- MODULE References -----------------------------
(***************************************************************************)
(* ComponentGraph::resolve of references.rs: a SWE document is indexed in  *)
(* declaration order, its local references are resolved, and the graph of  *)
(* containment and references is traversed depth first under four limits.  *)
(*                                                                         *)
(* The document is what the indexing reads: each step takes the next member *)
(* of the innermost open component, so every document within the bounds is *)
(* read by some behaviour.  Components and references are numbered from 1, *)
(* the root is 1.  Of a component the model keeps its kind, its id and     *)
(* whether it has an inline value; of a reference where it leads.          *)
(***************************************************************************)
EXTENDS Naturals, Sequences, FiniteSets, FiniteSetsExt

CONSTANTS
    Part,           \* the component declarations that documents use
    Id,             \* ids, and the fragments that name them
    None,           \* no id, no error, no target
    Nonlocal,       \* an href that is not a fragment
    Empty,          \* "" or "#"
    BadEscape,      \* a fragment that does not decode
    MaxComponents,  \* MAX_COMPONENTS
    MaxReferences,  \* MAX_REFERENCES
    MaxDepth,       \* MAX_TRAVERSAL_DEPTH
    MaxSteps        \* MAX_TRAVERSAL_STEPS

Arrays == {"DataArray", "Matrix"}

Qualified == {"Boolean", "Text", "Category", "Count", "Quantity", "Time",
              "CategoryRange", "CountRange", "QuantityRange", "TimeRange"}

QualityKinds == {"Quantity", "QuantityRange", "Category", "Text"}

MatrixElements == {"Matrix", "Count", "Quantity", "Time"}

Kinds == Qualified \cup Arrays \cup {"DataRecord", "Vector", "DataChoice", "Geometry"}

Href == Id \cup {Nonlocal, Empty, BadEscape}

ASSUME PartAssumption == Part \subseteq [kind : Kinds, id : Id \cup {None}, value : BOOLEAN]
ASSUME LimitsAssumption ==
    {MaxComponents, MaxReferences, MaxDepth, MaxSteps} \subseteq Nat \ {0}
ASSUME HrefAssumption ==
    Cardinality({None, Nonlocal, Empty, BadEscape}) = 4
    /\ Id \cap {None, Nonlocal, Empty, BadEscape} = {}

VARIABLES
    stage,       \* "index", "resolve", "traverse"
    open,        \* the components whose members are being read
    components,
    references,
    edges,       \* per component the slots and targets of its members
    frames, active, traversal,
    outcome      \* what resolve returns

indexVars == <<open, components, references, edges>>
traverseVars == <<frames, active, traversal>>
vars == <<stage, indexVars, traverseVars, outcome>>

Node == DOMAIN components

\* An error while the graph is built: resolve returns and its index is gone.
Refuse(error) ==
    /\ outcome' = error
    /\ open' = <<>> /\ components' = <<>> /\ references' = <<>> /\ edges' = <<>>
    /\ UNCHANGED <<stage, traverseVars>>

\* An error of traverse; what is said of it below needs the graph.
Fail(error) ==
    /\ outcome' = error
    /\ UNCHANGED <<stage, indexVars, traverseVars>>

-----------------------------------------------------------------------------
(* Indexing.                                                               *)

\* The order in which Index::component reads the members of a component.
Members(kind) ==
    (CASE kind = "DataChoice" -> <<"Selector", "Component">>
       [] kind \in Arrays -> <<"ElementCount", "ElementType">>
       [] kind \in {"DataRecord", "Vector"} -> <<"Component">>
       [] OTHER -> <<>>) \o <<"Quality">>

Top == open[Len(open)]

Owner == components[Top.node]

\* A member of the schema that may not be left out: fields has one at least.
Required(at) ==
    \/ Members(Owner.kind)[at] = "ElementType"
    \/ Owner.kind = "DataRecord" /\ Members(Owner.kind)[at] = "Component"
       /\ edges[Top.node] = <<>>

\* The next member may be the one at position p.
MayRead(p) ==
    /\ p \in Top.at..Len(Members(Owner.kind))
    /\ \A q \in Top.at..p-1 : ~Required(q)

Slot(p) == Members(Owner.kind)[p]

\* Top after its member at p: items, fields and qualities repeat.
Past(p) == [Top EXCEPT !.at = IF Slot(p) \in {"Component", "Quality"} THEN p ELSE p + 1]

AddEdge(p, to, index) ==
    [edges EXCEPT ![Top.node] = Append(@, [slot |-> Slot(p), to |-> to, index |-> index])]

\* What the schemas let stand inline in a slot; elementCount is checked below.
Permitted(p, kind) ==
    /\ Slot(p) = "Selector" => kind = "Category"
    /\ Slot(p) = "Quality" => kind \in QualityKinds
    /\ Owner.kind = "Vector" /\ Slot(p) = "Component" => kind \in {"Count", "Quantity", "Time"}

\* Mutant: the limit of components is off by one.
ComponentsOver == Len(components) > MaxComponents

ComponentsReached == Len(components) >= MaxComponents

\* The errors of Index::component, in their order.
ComponentError(p, kind, id) ==
    IF Slot(p) = "Quality" /\ Owner.kind \notin Qualified THEN "Quality"
    ELSE IF Slot(p) = "ElementCount" /\ kind # "Count" THEN "InvalidTarget"
    ELSE IF ComponentsReached THEN "ComponentLimit"
    ELSE IF id # None /\ \E n \in Node : components[n].id = id THEN "DuplicateId"
    ELSE None

\* An inline component.
Declare(p, part) ==
    LET error == ComponentError(p, part.kind, part.id)
        node == Len(components) + 1
    IN
    /\ MayRead(p) /\ Permitted(p, part.kind)
    /\ \/ error # None /\ Refuse(error)
       \/ /\ error = None
          /\ components' = Append(components, part)
          /\ edges' = Append(AddEdge(p, "Component", node), <<>>)
          /\ open' = Append([open EXCEPT ![Len(open)] = Past(p)], [node |-> node, at |-> 1])
          /\ UNCHANGED <<stage, references, traverseVars, outcome>>

\* The errors of Index::reference, in their order; mixed is a count with members
\* of an inline Count.
LinkError(p, href, mixed) ==
    IF Slot(p) = "Quality" /\ Owner.kind \notin Qualified THEN "Quality"
    ELSE IF Len(references) >= MaxReferences THEN "ReferenceLimit"
    ELSE IF mixed \/ href = Empty THEN "InvalidReference"
    ELSE None

\* An association in place of a component.
Refer(p, href, mixed) ==
    LET error == LinkError(p, href, mixed) IN
    /\ MayRead(p)
    /\ Slot(p) # "Selector" /\ Owner.kind # "Vector"
    /\ mixed => Slot(p) = "ElementCount"
    /\ \/ error # None /\ Refuse(error)
       \/ /\ error = None
          /\ references' = Append(references, [slot |-> Slot(p), href |-> href, target |-> None])
          /\ edges' = AddEdge(p, "Reference", Len(references) + 1)
          /\ open' = [open EXCEPT ![Len(open)] = Past(p)]
          /\ UNCHANGED <<stage, components, traverseVars, outcome>>

\* Index::component returns.
Close ==
    /\ \A q \in Top.at..Len(Members(Owner.kind)) : ~Required(q)
    /\ open' = SubSeq(open, 1, Len(open) - 1)
    /\ stage' = IF Len(open) = 1 THEN "resolve" ELSE stage
    /\ UNCHANGED <<components, references, edges, traverseVars, outcome>>

Index ==
    /\ stage = "index"
    /\ \/ \E p \in 1..3 :
            \/ \E part \in Part : Declare(p, part)
            \/ \E href \in Href, mixed \in BOOLEAN : Refer(p, href, mixed)
       \/ Close

-----------------------------------------------------------------------------
(* resolve_targets.                                                        *)

Named(id) == CHOOSE n \in Node : components[n].id = id

\* Mutant: the kind of a count's target is not looked at.
TargetFitsAnyCount(slot, kind) == slot = "Quality" => kind \in QualityKinds

TargetFits(slot, kind) ==
    /\ slot = "ElementCount" => kind = "Count"
    /\ slot = "Quality" => kind \in QualityKinds

ReferenceError(r) ==
    IF r.href = Nonlocal THEN None
    ELSE IF r.href = BadEscape THEN "InvalidReference"
    ELSE IF \A n \in Node : components[n].id # r.href THEN "UnresolvedLocal"
    ELSE IF TargetFits(r.slot, components[Named(r.href)].kind) THEN None
    ELSE "InvalidTarget"

Resolve ==
    LET bad == {i \in DOMAIN references : ReferenceError(references[i]) # None} IN
    /\ stage = "resolve"
    /\ IF bad # {} THEN Refuse(ReferenceError(references[Min(bad)]))
       ELSE /\ stage' = "traverse"
            /\ references' = [i \in DOMAIN references |->
                 [references[i] EXCEPT !.target =
                    IF references[i].href = Nonlocal THEN None ELSE Named(references[i].href)]]
            /\ frames' = <<[node |-> 1, next |-> 1, element |-> FALSE]>>
            /\ active' = {1}
            /\ traversal' = <<1>>
            /\ UNCHANGED <<open, components, edges, outcome>>

-----------------------------------------------------------------------------
(* traverse.                                                               *)

Frame == frames[Len(frames)]

AtEdge ==
    /\ stage = "traverse" /\ frames # <<>>
    /\ Frame.next <= Len(edges[Frame.node])

\* The component behind an edge, or None for a nonlocal reference.
Target(e) == IF e.to = "Component" THEN e.index ELSE references[e.index].target

Advanced == [frames EXCEPT ![Len(frames)].next = @ + 1]

\* Mutant: the component stays active after its last edge.
LeaveActive ==
    /\ stage = "traverse" /\ frames # <<>> /\ ~AtEdge
    /\ frames' = SubSeq(frames, 1, Len(frames) - 1)
    /\ UNCHANGED <<stage, indexVars, active, traversal, outcome>>

Leave ==
    /\ stage = "traverse" /\ frames # <<>> /\ ~AtEdge
    /\ frames' = SubSeq(frames, 1, Len(frames) - 1)
    /\ active' = active \ {Frame.node}
    /\ UNCHANGED <<stage, indexVars, traversal, outcome>>

\* Mutant: the edge is looked at again.
SkipNothing ==
    /\ AtEdge /\ Target(edges[Frame.node][Frame.next]) = None
    /\ UNCHANGED vars

\* Mutant: an edge to a component that is being visited is passed over too.
SkipActive ==
    /\ AtEdge /\ Target(edges[Frame.node][Frame.next]) \in {None} \cup active
    /\ frames' = Advanced
    /\ UNCHANGED <<stage, indexVars, active, traversal, outcome>>

\* A nonlocal edge is passed over.
Skip ==
    /\ AtEdge /\ Target(edges[Frame.node][Frame.next]) = None
    /\ frames' = Advanced
    /\ UNCHANGED <<stage, indexVars, active, traversal, outcome>>

\* Mutant: a nested array carries the flag of the array around it to its count.
ElementKept(slot, element) == slot = "ElementType" \/ element

\* Whether what the slot leads to is part of an element's description.
Element(slot, element) ==
    CASE slot \in {"Component", "Selector"} -> element
      [] slot = "ElementType" -> TRUE
      [] slot \in {"ElementCount", "Quality"} -> FALSE

\* Mutant: the limit of depth is off by one.
DepthOver == Len(frames) > MaxDepth

DepthReached == Len(frames) >= MaxDepth

\* Mutant: repeated targets do not count.
StepsOver == Cardinality(active) >= MaxSteps

StepsReached == Len(traversal) >= MaxSteps

\* Mutant: a cycle is what a depth limit finds.
VisitErrorLimits(e, t, element) ==
    IF e.slot = "ElementType" /\ components[Frame.node].kind = "Matrix"
       /\ components[t].kind \notin MatrixElements THEN "InvalidTarget"
    ELSE IF element /\ components[t].value THEN "InlineElementValue"
    ELSE IF DepthReached THEN "DepthLimit"
    ELSE IF t \in active THEN "Cycle"
    ELSE IF StepsReached THEN "TraversalLimit"
    ELSE None

\* The checks before a visit, in their order.
VisitError(e, t, element) ==
    IF e.slot = "ElementType" /\ components[Frame.node].kind = "Matrix"
       /\ components[t].kind \notin MatrixElements THEN "InvalidTarget"
    ELSE IF element /\ components[t].value THEN "InlineElementValue"
    ELSE IF t \in active THEN "Cycle"
    ELSE IF DepthReached THEN "DepthLimit"
    ELSE IF StepsReached THEN "TraversalLimit"
    ELSE None

Enter ==
    /\ AtEdge
    /\ LET e == edges[Frame.node][Frame.next]
           t == Target(e)
           element == Element(e.slot, Frame.element)
           error == VisitError(e, t, element)
       IN /\ t # None
          /\ \/ error # None /\ Fail(error)
             \/ /\ error = None
                /\ frames' = Append(Advanced, [node |-> t, next |-> 1, element |-> element])
                /\ active' = active \cup {t}
                /\ traversal' = Append(traversal, t)
                /\ UNCHANGED <<stage, indexVars, outcome>>

Complete ==
    /\ stage = "traverse" /\ frames = <<>>
    /\ outcome' = "Ok"
    /\ UNCHANGED <<stage, indexVars, traverseVars>>

-----------------------------------------------------------------------------

Init ==
    /\ stage = "index" /\ outcome = None
    /\ \E part \in Part : components = <<part>>
    /\ open = <<[node |-> 1, at |-> 1]>>
    /\ references = <<>> /\ edges = <<<<>>>>
    /\ frames = <<>> /\ active = {} /\ traversal = <<>>

\* A round of the loop of traverse, or its end.
Traverse == Leave \/ Skip \/ Enter \/ Complete

Next ==
    /\ outcome = None
    /\ Index \/ Resolve \/ Traverse

Spec == Init /\ [][Next]_vars

\* One thread runs the loop to its end.
FairSpec == Spec /\ WF_vars(outcome = None /\ Traverse)
-----------------------------------------------------------------------------
(* What traverse decides, said of walks: a walk is a sequence of followed  *)
(* edges from the root, an edge is [from, at].                             *)

Follow(e) == Target(edges[e.from][e.at])

FollowedFrom(n) == {e \in [from : {n}, at : DOMAIN edges[n]] : Follow(e) # None}

End(w) == IF w = <<>> THEN 1 ELSE Follow(w[Len(w)])

SlotOf(e) == edges[e.from][e.at].slot

\* The last slot of w that is not one of a plain part describes an element.
DescribesElement(w) ==
    \E i \in DOMAIN w :
        /\ SlotOf(w[i]) = "ElementType"
        /\ \A j \in i+1..Len(w) : SlotOf(w[j]) \in {"Component", "Selector"}

\* The kinds that may stand at an edge, in place or through a link.
Fitting(e) ==
    CASE SlotOf(e) = "ElementCount" -> {"Count"}
      [] SlotOf(e) = "Quality" -> QualityKinds
      [] SlotOf(e) = "ElementType" /\ components[e.from].kind = "Matrix" -> MatrixElements
      [] OTHER -> Kinds

\* What is wrong with the last edge of w, the gravest first.
Wrong(w) ==
    LET e == w[Len(w)] IN
    IF components[Follow(e)].kind \notin Fitting(e) THEN "InvalidTarget"
    ELSE IF DescribesElement(w) /\ components[Follow(e)].value THEN "InlineElementValue"
    ELSE IF \E i \in DOMAIN w : w[i].from = Follow(e) THEN "Cycle"
    ELSE IF Len(w) >= MaxDepth THEN "DepthLimit"
    ELSE None

\* The walks of n edges from the root that lead over sound edges, up to their
\* last.
Walks[n \in 0..MaxDepth] ==
    IF n = 0 THEN {<<>>}
    ELSE UNION {{Append(w, e) : e \in FollowedFrom(End(w))} :
                   w \in {v \in Walks[n - 1] : v = <<>> \/ Wrong(v) = None}}

Tried == UNION {Walks[n] : n \in 0..MaxDepth}

\* Declaration order: a walk comes before its continuations.
Before(v, w) ==
    \/ Len(v) < Len(w) /\ \A i \in DOMAIN v : v[i] = w[i]
    \/ \E i \in DOMAIN v \cap DOMAIN w :
         v[i].at < w[i].at /\ \A j \in 1..i-1 : v[j] = w[j]

Rank(w, walks) == Cardinality({v \in walks : Before(v, w)})

Bad(walks) ==
    {w \in walks \ {<<>>} : Wrong(w) # None \/ Rank(w, walks) >= MaxSteps}

Verdict(walks) ==
    IF Bad(walks) = {} THEN "Ok"
    ELSE LET w == CHOOSE x \in Bad(walks) : \A y \in Bad(walks) \ {x} : Before(x, y)
         IN IF Wrong(w) # None THEN Wrong(w) ELSE "TraversalLimit"

-----------------------------------------------------------------------------
(* Properties.                                                             *)

Outcomes == {"Ok", "Quality", "InvalidTarget", "ComponentLimit", "DuplicateId",
             "ReferenceLimit", "InvalidReference", "UnresolvedLocal",
             "InlineElementValue", "Cycle", "DepthLimit", "TraversalLimit"}

ASSUME OutcomeAssumption == None \notin Outcomes

\* Types of the index and of the traversal.
TypeOK ==
    /\ stage \in {"index", "resolve", "traverse"}
    /\ outcome \in Outcomes \cup {None}
    /\ components \in Seq(Part)
    /\ Len(components) <= MaxComponents /\ Len(references) <= MaxReferences
    /\ \A i \in DOMAIN references : references[i].target \in Node \cup {None}
    /\ Len(edges) = Len(components)
    /\ \A n \in Node : \A i \in DOMAIN edges[n] :
          IF edges[n][i].to = "Component" THEN edges[n][i].index \in Node
          ELSE edges[n][i].index \in DOMAIN references
    /\ \A i \in DOMAIN open : open[i].node \in Node
    /\ \A i \in DOMAIN frames :
          frames[i].node \in Node /\ frames[i].next \in Nat /\ frames[i].element \in BOOLEAN
    /\ active \subseteq Node /\ traversal \in Seq(Node)

\* "using a link cannot evade those rules", and traversal "rejects cycles across
\* containment and local-reference edges" while "Shared acyclic targets remain
\* valid" (docs/component-references.md): the answer of traverse is the first
\* fault in declaration order over all walks from the root, whatever shares of
\* the graph it has seen before, and the occurrences it lists are those walks.
VerdictIsFirstFault ==
    stage = "traverse" /\ outcome # None =>
        LET walks == Tried IN
        /\ outcome = Verdict(walks)
        /\ outcome = "Ok" => /\ Len(traversal) = Cardinality(walks)
                            /\ \A w \in walks : traversal[1 + Rank(w, walks)] = End(w)

\* The loop of traverse ends for every document, whether it passes over an edge,
\* meets a component again or runs into a limit.
Terminates == stage = "traverse" ~> outcome # None
==============================================================================
