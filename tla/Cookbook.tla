------------------------------ MODULE Cookbook ------------------------------
(***************************************************************************)
(* What the recipes API promises of its tables, with every request taken   *)
(* as one indivisible step: recipes with unique slugs, two vocabularies    *)
(* with unique names, and recipes that carry only names that exist.  A     *)
(* rename takes its recipes along, and a name in use cannot be deleted.    *)
(* Module Recipes has the requests as the code runs them.                  *)
(***************************************************************************)

CONSTANTS
    RecipeIds,  \* primary keys; every recipe ever created takes a fresh one
    TermIds,    \* primary keys of the categories, and of the cuisines
    Slugs,
    Inputs,     \* Inputs[kind]: names as they arrive in a payload
    Strip,      \* Strip[name]: str.strip() on such a name
    Null,       \* SQL null
    Unborn,     \* a primary key no row has had yet
    Deleted     \* a primary key whose row has been deleted

Kinds == {"category", "cuisine"}
AllInputs == Inputs["category"] \cup Inputs["cuisine"]

\* Stripping a name never leaves its kind, and the two kinds of nothing, and
\* null, are not names.
ASSUME NamesAssumption ==
    /\ Inputs \in [Kinds -> SUBSET AllInputs]
    /\ Strip \in [AllInputs -> AllInputs]
    /\ \A k \in Kinds : \A n \in Inputs[k] : Strip[n] \in Inputs[k]
    /\ {Null, Unborn, Deleted} \cap AllInputs = {}

\* The columns that matter here: the unique slug, and the name (or null) the
\* recipe carries from each vocabulary, denormalized.
Recipe ==
    [slug : Slugs, category : Inputs["category"] \cup {Null},
     cuisine : Inputs["cuisine"] \cup {Null}]

ASSUME RowsAssumption ==
    /\ Unborn # Deleted
    /\ {Null, Unborn, Deleted} \cap Recipe = {}
    /\ Null \notin RecipeIds \cup TermIds

VARIABLES
    recipes,    \* recipes[id]: the committed row, Unborn or Deleted
    vocab       \* vocab[kind][id]: the committed name, Unborn or Deleted

TablesOK ==
    /\ recipes \in [RecipeIds -> Recipe \cup {Unborn, Deleted}]
    /\ vocab \in [Kinds -> [TermIds -> AllInputs \cup {Unborn, Deleted}]]

LiveRecipes == {r \in RecipeIds : recipes[r] \notin {Unborn, Deleted}}
LiveTerms(k) == {t \in TermIds : vocab[k][t] \notin {Unborn, Deleted}}
TermNames(k) == {vocab[k][t] : t \in LiveTerms(k)}

SlugTaken(s, r) == \E q \in LiveRecipes \ {r} : recipes[q].slug = s
NameTaken(k, n, t) == \E u \in LiveTerms(k) \ {t} : vocab[k][u] = n

\* The recipes that carry a name.
Carrying(k, n) == {r \in LiveRecipes : recipes[r][k] = n}

------------------------------------------------------------------------------

Names(k) == {Strip[n] : n \in Inputs[k]}
ValidRow(row) == \A k \in Kinds : row[k] \in TermNames(k) \cup {Null}

WriteRecipe(r, row) ==
    /\ recipes[r] # Deleted
    /\ ~SlugTaken(row.slug, r)
    /\ ValidRow(row)
    /\ recipes' = [recipes EXCEPT ![r] = row]
    /\ UNCHANGED vocab

RemoveRecipe(r) ==
    /\ r \in LiveRecipes
    /\ recipes' = [recipes EXCEPT ![r] = Deleted]
    /\ UNCHANGED vocab

NewTerm(k, t, n) ==
    /\ vocab[k][t] = Unborn
    /\ ~NameTaken(k, n, t)
    /\ vocab' = [vocab EXCEPT ![k][t] = n]
    /\ UNCHANGED recipes

Rename(k, t, n) ==
    /\ t \in LiveTerms(k)
    /\ ~NameTaken(k, n, t)
    /\ vocab' = [vocab EXCEPT ![k][t] = n]
    /\ recipes' = [r \in RecipeIds |->
                     IF r \in Carrying(k, vocab[k][t]) THEN [recipes[r] EXCEPT ![k] = n]
                                                       ELSE recipes[r]]

RemoveTerm(k, t) ==
    /\ t \in LiveTerms(k)
    /\ Carrying(k, vocab[k][t]) = {}
    /\ vocab' = [vocab EXCEPT ![k][t] = Deleted]
    /\ UNCHANGED recipes

CookbookInit ==
    /\ recipes = [r \in RecipeIds |-> Unborn]
    /\ vocab = [k \in Kinds |-> [t \in TermIds |-> Unborn]]

CookbookNext ==
    \/ \E r \in RecipeIds : RemoveRecipe(r) \/ \E row \in Recipe : WriteRecipe(r, row)
    \/ \E k \in Kinds, t \in TermIds :
         RemoveTerm(k, t) \/ \E n \in Names(k) : NewTerm(k, t, n) \/ Rename(k, t, n)

CookbookSpec == CookbookInit /\ [][CookbookNext]_<<recipes, vocab>>

\* "A recipe's category must be null or the name of an existing category", and
\* the same of its cuisine (_ensure_valid_category, _ensure_valid_cuisine).
RecipeNamesExist ==
    \A r \in LiveRecipes : \A k \in Kinds : recipes[r][k] \in TermNames(k) \cup {Null}

=============================================================================
