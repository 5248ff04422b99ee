SPECIFICATION Spec
CONSTANTS
    c1 = c1
    c2 = c2
    c3 = c3
    e1 = e1
    e2 = e2
    e3 = e3
    e4 = e4
    Categories <- MCCategories
    Engines <- MCEngines
    Parent <- MCParent
SYMMETRY Symmetry
INVARIANTS
    TypeOK
    NothingUnwanted
    ChosenIsAsked
    CategoryMeansAll
