\* One script at a time and three of the moderators' requests, over two recipes,
\* two slugs and a category that may be renamed; yields of up to four words.
SPECIFICATION Spec
CONSTANTS
    Words <- AllWords
    Number <- WordNumbers
    Yields <- ShortYields
    Times <- TwoTimes
    Sources <- ThreeSources
    Texts <- TwoTexts
    Files <- TwoFiles
    a = a
    b = b
    s1 = s1
    s2 = s2
    RecipeIds = {r1, r2}
    TermIds = {t1}
    Slugs = {s1, s2}
    Categories = {a, b}
    Counts = {1, 4, 6}
    Bodies = {b1, b2}
    Tools = {l1, l2}
    Edits = 3
    Null = Null
    Unborn = Unborn
    Deleted = Deleted
INVARIANTS RunsConverge ImportsAgree TimesAreNotCounts
PROPERTIES ScriptsKeepTheRest CountsStand
SYMMETRY Symmetry
