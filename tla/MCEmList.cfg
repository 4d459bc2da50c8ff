\* Two lists and four entries.
CONSTANTS
    Anchor = {jobs, todo}
    Node = {n1, n2, n3, n4}
    Poison = Poison
    NoLoop = NoLoop
SPECIFICATION Spec
INVARIANTS
    TypeOK
    DoublyLinked
    InTurn
PROPERTY ListsSpec
