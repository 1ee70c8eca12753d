\* Two picks, or a pick and a change of a document, in a page with one frame.
SPECIFICATION PickSpec
CONSTANTS
    Element <- MCElement
    ParentOf <- MCParentOf
    TagOf <- MCTagOf
    RoleOf <- MCRoleOf
    IdOf <- MCIdOf
    NoId = ""
    MaxDepth = 3
    MaxDescendants = 150
    MaxAncestors = 6
    MaxCandidates = 2
    Top = top
    Child = {child}
    Whole <- MCWhole
    Pointable = {3, 9}
    Changing = {4, 10}
    MaxRequests = 2
    MaxPosts = 1
INVARIANTS OnePanel
PROPERTIES PickIsFound
CHECK_DEADLOCK FALSE
