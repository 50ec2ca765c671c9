\* Two requests at a time over two recipes, two slugs and one vocabulary of two names.
CONSTANTS
    Clients = {c1, c2}
    RecipeIds = {r1, r2}
    TermIds = {t1, t2}
    Slugs = {s1, s2}
    a = a
    b = b
    padded = padded
    x = x
    Inputs <- TwoCategories
    Strip <- StripPadded
    Null = Null
    Unborn = Unborn
    Deleted = Deleted
SPECIFICATION Spec
INVARIANTS TypeOK UniqueKeys
PROPERTIES UpdateKeepsRename OnlyLostRowsFail
SYMMETRY Symmetry
