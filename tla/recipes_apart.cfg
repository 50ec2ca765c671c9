\* Two requests at a time, apart from those that take names from under each other,
\* over both vocabularies, with a name that needs stripping.
CONSTANTS
    Clients = {c1, c2}
    RecipeIds = {r1, r2}
    TermIds = {t1, t2}
    Slugs = {s1}
    a = a
    b = b
    padded = padded
    x = x
    Inputs <- BothKinds
    Strip <- StripPadded
    Null = Null
    Unborn = Unborn
    Deleted = Deleted
SPECIFICATION ApartSpec
INVARIANTS RecipeNamesExist
PROPERTIES KeepsThePromise
SYMMETRY Symmetry
