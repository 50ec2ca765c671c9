----------------------------- MODULE MCRecipes -----------------------------
EXTENDS Recipes, TLC

CONSTANTS a, b, padded, x

TwoCategories == [k \in Kinds |-> IF k = "category" THEN {a, b} ELSE {}]
BothKinds == [k \in Kinds |-> IF k = "category" THEN {a, b, padded} ELSE {x}]

\* "padded" is a category name with spaces around it: str.strip() makes it a.
StripPadded == [n \in AllInputs |-> IF n = padded THEN a ELSE n]

Symmetry == Permutations(Clients) \cup Permutations(RecipeIds) \cup Permutations(TermIds)

=============================================================================
