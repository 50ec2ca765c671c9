\* Two requests at a time, until a rename to a taken name fails with 500.
CONSTANTS
    Clients = {c1, c2}
    RecipeIds = {r1}
    TermIds = {t1, t2}
    Slugs = {s1}
    a = a
    b = b
    padded = padded
    x = x
    Inputs <- TwoCategories
    Strip <- StripPadded
    Null = Null
    Unborn = Unborn
    Deleted = Deleted
SPECIFICATION Spec
PROPERTIES RenameConflictIs409
