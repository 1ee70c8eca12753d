----------------------------- MODULE PageStructure -----------------------------
(***************************************************************************)
(* What the recorder's script and the replay read off the elements of a    *)
(* page: the structural description of a repeated group and its similarity *)
(* (injected.ts, step-actions.ts, workflow-contract/repeated-group.ts), and *)
(* the CSS and XPath candidates of an element.  Elements are numbered in   *)
(* document order; a document says which of them are there, which are not  *)
(* displayed, and which are hidden from assistive technology only.         *)
(***************************************************************************)
EXTENDS Naturals, Sequences, FiniteSets, SequencesExt, FiniteSetsExt

CONSTANTS
    Element,         \* the numbers of the elements, in document order
    ParentOf,        \* parentElement of each; Body above the topmost
    TagOf, RoleOf,   \* tag and (explicit or implicit) role
    IdOf,            \* id attribute, NoId where there is none
    NoId,
    MaxDepth,        \* bound: levels below a root that are described (3)
    MaxDescendants,  \* bound: descendants that are described (150)
    MaxAncestors,    \* bound: ancestors of a seed that are tried (6)
    MaxCandidates    \* bound: containers a replay compares (500)

Body == 0

ASSUME StructureAssumption ==
    /\ Element \subseteq Nat \ {Body}
    /\ \A e \in Element : ParentOf[e] \in Element \cup {Body} /\ ParentOf[e] < e

Document == [present : SUBSET Element, undisplayed : SUBSET Element, aria : SUBSET Element]

\* The elements from below the body down to e.
Chain[e \in Element] ==
    IF ParentOf[e] = Body THEN <<e>> ELSE Append(Chain[ParentOf[e]], e)

Above == [e \in Element |-> ToSet(Chain[e])]
Within(a, e) == a \in Above[e]
Depth(root, e) == Cardinality(Above[e]) - Cardinality(Above[root])
Segment(e) == <<TagOf[e], RoleOf[e]>>

-----------------------------------------------------------------------------
(* Repeated groups *)

Displayed(doc, e) == Above[e] \cap doc.undisplayed = {}
IsVisible(doc, e) == Displayed(doc, e) /\ Above[e] \cap doc.aria = {}

\* The descendants that are walked: depth first, so in document order.
Visited(doc, root) ==
    LET below == {e \in doc.present : Within(root, e) /\ Depth(root, e) \in 1 .. MaxDepth}
    IN  IF Cardinality(below) <= MaxDescendants THEN below
        ELSE {e \in below : Cardinality({x \in below : x <= e}) <= MaxDescendants}

Path(root, e) == [i \in 1 .. Depth(root, e) |-> Segment(Chain[e][Len(Chain[root]) + i])]

Describe(doc, root) ==
    [root |-> Segment(root),
     tokens |-> {<<0, <<Segment(root)>>>>}
                \cup {<<Depth(root, e), Path(root, e)>> : e \in Visited(doc, root)}]

\* At least 70 % of the tokens of the two are shared.
Similar(a, b) ==
    /\ a.root = b.root
    /\ 10 * Cardinality(a.tokens \cap b.tokens) >= 7 * Cardinality(a.tokens \cup b.tokens)

ChildrenOf(doc, p) == {e \in doc.present : ParentOf[e] = p}

GroupFor(doc, p, description) ==
    [parent |-> p, description |-> description,
     members |-> {e \in ChildrenOf(doc, p) :
                     IsVisible(doc, e) /\ Similar(description, Describe(doc, e))}]

\* Nearest ancestor first; a group has at least two members.
DiscoverRepeatedGroups(doc, seed) ==
    LET chain == Reverse(Chain[seed])
        tried == SubSeq(chain, 1, Min({MaxAncestors, Len(chain)}))
        group(e) == GroupFor(doc, ParentOf[e], Describe(doc, e))
    IN  SelectSeq([i \in DOMAIN tried |-> group(tried[i])],
                  LAMBDA g : Cardinality(g.members) >= 2)

\* What replay compares with a captured template, and when it is content.
ReplayCandidates(doc, description) == {e \in doc.present : Segment(e) = description.root}
ReplaySimilarity(recorded, candidate) ==
    /\ recorded.root = candidate.root
    /\ 10 * Cardinality(recorded.tokens \cap candidate.tokens)
         >= 7 * Cardinality(recorded.tokens \cup candidate.tokens)
TooMany(doc, description) == Cardinality(ReplayCandidates(doc, description)) > MaxCandidates
GroupVerdict(doc, description) ==
    CASE TooMany(doc, description) -> "candidate_limit_exceeded"
      [] \E e \in ReplayCandidates(doc, description) :
            Displayed(doc, e) /\ ReplaySimilarity(description, Describe(doc, e)) -> "passed"
      [] OTHER -> "group_not_matched"

-----------------------------------------------------------------------------
(* Locator candidates that say where an element is *)

SameType(doc, e) == {x \in ChildrenOf(doc, ParentOf[e]) : TagOf[x] = TagOf[e]}
Nth(doc, e) == Cardinality({x \in SameType(doc, e) : x <= e})

\* One step of a selector: nth-of-type only where siblings share the tag.
Part(doc, e) ==
    [tag |-> TagOf[e], nth |-> IF Cardinality(SameType(doc, e)) > 1 THEN Nth(doc, e) ELSE 0]

Fits(doc, part, x) == TagOf[x] = part.tag /\ part.nth \in {0, Nth(doc, x)}

\* The elements that the last n steps of the path to e select.
SelectedBy(doc, e, n) ==
    LET tail(s) == SubSeq(s, Len(s) - n + 1, Len(s)) IN
    {x \in doc.present : /\ Len(Chain[x]) >= n
                         /\ \A i \in 1 .. n : Fits(doc, Part(doc, tail(Chain[e])[i]), tail(Chain[x])[i])}
SelectedFromBody(doc, e) == {x \in SelectedBy(doc, e, Len(Chain[e])) : Len(Chain[x]) = Len(Chain[e])}

\* As if the tag of the element were enough.
SelectedByTag(doc, e) == SelectedBy(doc, e, 1)

\* The shortest tail of the path that is unique, else the path from the body.
SelectedByPath(doc, e) ==
    LET unique == {n \in 1 .. Len(Chain[e]) : Cardinality(SelectedBy(doc, e, n)) = 1} IN
    IF unique = {} THEN SelectedFromBody(doc, e) ELSE SelectedBy(doc, e, Min(unique))

CssPath(doc, e) ==
    IF IdOf[e] # NoId THEN {x \in doc.present : IdOf[x] = IdOf[e]} ELSE SelectedByPath(doc, e)

XPath(doc, e) ==
    {x \in doc.present : /\ Len(Chain[x]) = Len(Chain[e])
                         /\ \A i \in DOMAIN Chain[e] :
                              /\ TagOf[Chain[x][i]] = TagOf[Chain[e][i]]
                              /\ Nth(doc, Chain[x][i]) = Nth(doc, Chain[e][i])}

=============================================================================
