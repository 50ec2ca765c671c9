----------------------------- MODULE MCAuthoring -----------------------------
\* Small instances of Authoring for TLC.
EXTENDS Authoring, TLC

CONSTANTS a, b, s1, s2

YieldWords == {"serves", "servings", "makes", "cups", "to", "about", "4", "6"}
AllWords == YieldWords \cup {"total", "30", "min", ".", "adapted", "from", "nyt", "blog"}
WordNumbers == "4" :> 4 @@ "6" :> 6 @@ "30" :> 30
ShortYields == UNION {[1..n -> YieldWords] : n \in 0..4}
TwoTimes == {<<>>, <<"total", "30", "min">>}

\* A site, one whose address ends in a number, and one named after servings.
ThreeSources == {<<"nyt">>, <<"blog", "30">>, <<"serves", "6">>}

\* A summary that says four, and one that does not say.
TwoTexts == {<<"serves", "4", ".">>, <<"makes", "4", "cups", ".">>}

\* A file in the shape of the site's own, and one from import_recipe.py, whose
\* records have no category and no servings.
TwoFiles == {
    {[slug |-> s1, category |-> a, summary |-> <<"makes", "4", "cups", ".">>, servings |-> 1],
     [slug |-> s2, category |-> a, summary |-> <<"serves", "4", ".">>, servings |-> 4]},
    {[slug |-> s1, category |-> Null, summary |-> <<"serves", "4", ".">>, servings |-> 1]}}

Symmetry == Permutations(RecipeIds) \cup Permutations(Bodies) \cup Permutations(Tools)
=============================================================================
