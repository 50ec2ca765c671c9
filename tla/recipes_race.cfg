\* Two requests at a time, until a recipe carries a name that is gone.
CONSTANTS
    Clients = {c1, c2}
    RecipeIds = {r1}
    TermIds = {t1, t2}
    Slugs = {s1}
    a = a
    b = b
    padded = padded
    x = x
    Inputs <- TwoCategories
    Strip <- StripPadded
    Null = Null
    Unborn = Unborn
    Deleted = Deleted
SPECIFICATION Spec
INVARIANTS RecipeNamesExist
