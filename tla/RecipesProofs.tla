--------------------------- MODULE RecipesProofs ---------------------------
(***************************************************************************)
(* However requests interleave, slugs and names stay unique; and unless    *)
(* they take names from under each other, they implement the promised      *)
(* cookbook.                                                               *)
(***************************************************************************)
EXTENDS Recipes, TLAPS

-----------------------------------------------------------------------------
(* The promised cookbook: its recipes stay in step with its vocabularies. *)

\* Every stored name is a real one, and the strings that stand for a missing
\* row are not.
LEMMA NamesAreInputs ==
    ASSUME NEW k \in Kinds, NEW n \in Names(k)
    PROVE  /\ n \in Inputs[k]
           /\ n \in AllInputs
           /\ n \notin {Null, Unborn, Deleted}
  BY NamesAssumption DEF Names, Kinds, AllInputs

\* Replacing the name of one kind in a row gives a row, and leaves the slug
\* and the name of the other kind alone.
LEMMA RowExcept ==
    ASSUME NEW row \in Recipe, NEW k \in Kinds, NEW n \in Inputs[k]
    PROVE  /\ [row EXCEPT ![k] = n] \in Recipe
           /\ [row EXCEPT ![k] = n].slug = row.slug
           /\ [row EXCEPT ![k] = n][k] = n
           /\ \A j \in Kinds \ {k} : [row EXCEPT ![k] = n][j] = row[j]
  <1>1. CASE k = "category"
    BY <1>1 DEF Recipe, Kinds
  <1>2. CASE k = "cuisine"
    BY <1>2 DEF Recipe, Kinds
  <1>3. QED
    BY <1>1, <1>2 DEF Kinds

LEMMA RowIsLive ==
    ASSUME NEW row \in Recipe
    PROVE  row # Unborn /\ row # Deleted /\ row # Null
  BY RowsAssumption

\* The promised tables are well typed.
LEMMA CookbookTables == TablesOK /\ [CookbookNext]_<<recipes, vocab>> => TablesOK'
  <1> SUFFICES ASSUME TablesOK, [CookbookNext]_<<recipes, vocab>>
               PROVE  TablesOK'
    OBVIOUS
  <1> USE DEF TablesOK
  <1>1. ASSUME NEW r \in RecipeIds, RemoveRecipe(r)
        PROVE  TablesOK'
    BY <1>1 DEF RemoveRecipe
  <1>2. ASSUME NEW r \in RecipeIds, NEW row \in Recipe, WriteRecipe(r, row)
        PROVE  TablesOK'
    BY <1>2 DEF WriteRecipe
  <1>3. ASSUME NEW k \in Kinds, NEW t \in TermIds, RemoveTerm(k, t)
        PROVE  TablesOK'
    BY <1>3 DEF RemoveTerm
  <1>4. ASSUME NEW k \in Kinds, NEW t \in TermIds, NEW n \in Names(k), NewTerm(k, t, n)
        PROVE  TablesOK'
    BY <1>4, NamesAreInputs DEF NewTerm
  <1>5. ASSUME NEW k \in Kinds, NEW t \in TermIds, NEW n \in Names(k), Rename(k, t, n)
        PROVE  TablesOK'
    <2>1. vocab' \in [Kinds -> [TermIds -> AllInputs \cup {Unborn, Deleted}]]
      BY <1>5, NamesAreInputs DEF Rename
    <2>2. ASSUME NEW r \in RecipeIds
          PROVE  recipes'[r] \in Recipe \cup {Unborn, Deleted}
      <3>1. CASE r \in Carrying(k, vocab[k][t])
        BY <1>5, <3>1, RowExcept, NamesAreInputs DEF Rename, Carrying, LiveRecipes
      <3>2. CASE r \notin Carrying(k, vocab[k][t])
        BY <1>5, <3>2 DEF Rename
      <3>3. QED
        BY <3>1, <3>2
    <2>3. recipes' \in [RecipeIds -> Recipe \cup {Unborn, Deleted}]
      BY <1>5, <2>2 DEF Rename
    <2>4. QED
      BY <2>1, <2>3
  <1>6. CASE UNCHANGED <<recipes, vocab>>
    BY <1>6
  <1>7. QED
    BY <1>1, <1>2, <1>3, <1>4, <1>5, <1>6 DEF CookbookNext

\* Every step of the promised cookbook, a rename and a deletion included, keeps
\* each recipe's category and cuisine null or the name of a live term.
LEMMA CookbookNames ==
    TablesOK /\ RecipeNamesExist /\ [CookbookNext]_<<recipes, vocab>> => RecipeNamesExist'
  <1> SUFFICES ASSUME TablesOK, RecipeNamesExist, [CookbookNext]_<<recipes, vocab>>,
                      NEW q \in RecipeIds, q \in LiveRecipes', NEW j \in Kinds
               PROVE  recipes'[q][j] \in TermNames(j)' \cup {Null}
    BY DEF RecipeNamesExist, LiveRecipes
  <1> USE DEF TablesOK
  <1>1. ASSUME NEW r \in RecipeIds, RemoveRecipe(r)
        PROVE  recipes'[q][j] \in TermNames(j)' \cup {Null}
    BY <1>1 DEF RemoveRecipe, RecipeNamesExist, LiveRecipes, TermNames, LiveTerms
  <1>2. ASSUME NEW r \in RecipeIds, NEW row \in Recipe, WriteRecipe(r, row)
        PROVE  recipes'[q][j] \in TermNames(j)' \cup {Null}
    <2>1. TermNames(j)' = TermNames(j)
      BY <1>2 DEF WriteRecipe, TermNames, LiveTerms
    <2>2. QED
      BY <1>2, <2>1 DEF WriteRecipe, ValidRow, RecipeNamesExist, LiveRecipes
  <1>3. ASSUME NEW k \in Kinds, NEW t \in TermIds, RemoveTerm(k, t)
        PROVE  recipes'[q][j] \in TermNames(j)' \cup {Null}
    <2>1. q \in LiveRecipes /\ recipes'[q] = recipes[q]
      BY <1>3 DEF RemoveTerm, LiveRecipes
    <2>2. CASE recipes[q][j] = Null
      BY <2>1, <2>2
    <2>3. CASE recipes[q][j] # Null
      <3>1. PICK u \in LiveTerms(j) : vocab[j][u] = recipes[q][j]
        BY <2>1, <2>3 DEF RecipeNamesExist, TermNames
      <3>2. j = k => u # t
        BY <1>3, <2>1, <3>1 DEF RemoveTerm, Carrying
      <3>3. u \in LiveTerms(j)' /\ vocab'[j][u] = vocab[j][u]
        BY <1>3, <3>1, <3>2 DEF RemoveTerm, LiveTerms
      <3>4. QED
        BY <2>1, <3>1, <3>3 DEF TermNames
    <2>4. QED
      BY <2>2, <2>3
  <1>4. ASSUME NEW k \in Kinds, NEW t \in TermIds, NEW n \in Names(k), NewTerm(k, t, n)
        PROVE  recipes'[q][j] \in TermNames(j)' \cup {Null}
    <2>1. q \in LiveRecipes /\ recipes'[q] = recipes[q]
      BY <1>4 DEF NewTerm, LiveRecipes
    <2>2. ASSUME NEW u \in LiveTerms(j)
          PROVE  u \in LiveTerms(j)' /\ vocab'[j][u] = vocab[j][u]
      BY <1>4 DEF NewTerm, LiveTerms
    <2>3. TermNames(j) \subseteq TermNames(j)'
      BY <2>2 DEF TermNames
    <2>4. QED
      BY <2>1, <2>3 DEF RecipeNamesExist
  <1>5. ASSUME NEW k \in Kinds, NEW t \in TermIds, NEW n \in Names(k), Rename(k, t, n)
        PROVE  recipes'[q][j] \in TermNames(j)' \cup {Null}
    <2>1. q \in LiveRecipes
      BY <1>5 DEF Rename, LiveRecipes, Carrying
    <2>2. recipes[q] \in Recipe
      BY <2>1 DEF LiveRecipes
    <2>3. t \in LiveTerms(k)' /\ vocab'[k][t] = n
      BY <1>5, NamesAreInputs DEF Rename, LiveTerms
    <2>4. CASE q \in Carrying(k, vocab[k][t]) /\ j = k
      <3>1. recipes'[q] = [recipes[q] EXCEPT ![k] = n]
        BY <1>5, <2>4 DEF Rename
      <3>2. recipes'[q][j] = n
        BY <2>2, <2>4, <3>1, RowExcept, NamesAreInputs
      <3>3. n \in TermNames(k)'
        BY <2>3 DEF TermNames
      <3>4. QED
        BY <2>4, <3>2, <3>3
    <2>5. CASE ~(q \in Carrying(k, vocab[k][t]) /\ j = k)
      <3>1. recipes'[q][j] = recipes[q][j]
        BY <1>5, <2>2, <2>5, RowExcept, NamesAreInputs DEF Rename
      <3>2. CASE recipes[q][j] = Null
        BY <3>1, <3>2
      <3>3. CASE recipes[q][j] # Null
        <4>1. PICK u \in LiveTerms(j) : vocab[j][u] = recipes[q][j]
          BY <2>1, <3>3 DEF RecipeNamesExist, TermNames
        <4>2. j = k => u # t
          BY <2>1, <2>5, <4>1 DEF Carrying
        <4>3. u \in LiveTerms(j)' /\ vocab'[j][u] = vocab[j][u]
          BY <1>5, <4>1, <4>2 DEF Rename, LiveTerms
        <4>4. QED
          BY <3>1, <4>1, <4>3 DEF TermNames
      <3>4. QED
        BY <3>2, <3>3
    <2>6. QED
      BY <2>4, <2>5
  <1>6. CASE UNCHANGED <<recipes, vocab>>
    BY <1>6 DEF RecipeNamesExist, LiveRecipes, TermNames, LiveTerms
  <1>7. QED
    BY <1>1, <1>2, <1>3, <1>4, <1>5, <1>6 DEF CookbookNext

\* The promise is worth keeping: in it, "a recipe's category must be null or the
\* name of an existing category" always holds, and so for cuisines.
THEOREM CookbookRecipeNamesExist == CookbookSpec => [](TablesOK /\ RecipeNamesExist)
  <1>1. CookbookInit => TablesOK /\ RecipeNamesExist
    BY DEF CookbookInit, TablesOK, RecipeNamesExist, LiveRecipes
  <1>2. TablesOK /\ RecipeNamesExist /\ [CookbookNext]_<<recipes, vocab>>
          => (TablesOK /\ RecipeNamesExist)'
    BY CookbookTables, CookbookNames
  <1>3. QED
    BY <1>1, <1>2, PTL DEF CookbookSpec

-----------------------------------------------------------------------------
(* The handlers. *)

\* Where each request is determines which of its locals are set.
Locals(c) ==
    LET q == req[c] IN
    /\ q.at \in {"create_cuisine", "create_commit", "update_category", "update_cuisine",
                 "update_commit"} => q.pay \in Recipe
    /\ q.at \in {"create_cuisine", "create_commit", "update_category", "update_cuisine",
                 "update_commit", "delete_commit", "refresh_recipe"} => q.rid \in RecipeIds
    /\ q.at \in {"update_category", "update_cuisine", "update_commit"} => q.seen \in Recipe
    /\ q.at \in {"rename", "rename_key", "rename_rows", "cascade", "rename_commit", "count",
                 "drop", "refresh_term"} => q.tid \in TermIds
    /\ q.at \in {"rename", "rename_key", "rename_rows", "cascade", "rename_commit"} =>
         q.new \in Names(q.kind)

\* The rows a rename has updated are locked until it ends, so they are live.
RowsLive(c) == req[c].rows \subseteq LiveRecipes

Typed == TypeOK /\ \A c \in Clients : Locals(c) /\ RowsLive(c)

------------------------------------------------------------------------------
(* The shape of a step *)

\* An answered request leaves every other request as it was.
LEMMA AnswerStep ==
    ASSUME Typed, NEW c \in Clients, NEW status \in Replies, Answer(c, status)
    PROVE  /\ req' \in [Clients -> Request]
           /\ reply' \in Replies
           /\ req'[c] = Idle
           /\ \A d \in Clients \ {c} : req'[d] = req[d]
  <1>1. Idle \in Request
    BY DEF Idle, Request, Points, Kinds
  <1>2. QED
    BY <1>1 DEF Typed, TypeOK, Answer

\* So does one that goes on to its next statement.
LEMMA GotoStep ==
    ASSUME Typed, NEW c \in Clients, NEW q \in Request, Goto(c, q)
    PROVE  /\ req' \in [Clients -> Request]
           /\ reply' \in Replies
           /\ req'[c] = q
           /\ \A d \in Clients \ {c} : req'[d] = req[d]
  BY DEF Typed, TypeOK, Goto, Replies

\* What is left to show of such a step: the tables, the moved request, and that
\* the rows of the other requests are still there.
LEMMA TypedFromParts ==
    ASSUME Typed, NEW c \in Clients,
           req' \in [Clients -> Request], reply' \in Replies,
           \A d \in Clients \ {c} : req'[d] = req[d],
           TablesOK', Locals(c)', RowsLive(c)',
           \A d \in Clients \ {c} : req[d].rows \subseteq LiveRecipes'
    PROVE  Typed'
  <1>1. ASSUME NEW d \in Clients
        PROVE  Locals(d)' /\ RowsLive(d)'
    <2>1. CASE d = c
      BY <2>1
    <2>2. CASE d # c
      BY <2>2 DEF Typed, Locals, RowsLive
    <2>3. QED
      BY <2>1, <2>2
  <1>2. QED
    BY <1>1 DEF Typed, TypeOK

\* A step that leaves the tables alone: only the moved request matters.
LEMMA TypedNoWrite ==
    ASSUME Typed, NEW c \in Clients,
           req' \in [Clients -> Request], reply' \in Replies,
           \A d \in Clients \ {c} : req'[d] = req[d],
           UNCHANGED <<recipes, vocab>>, Locals(c)', RowsLive(c)'
    PROVE  Typed'
  <1>1. TablesOK' /\ LiveRecipes' = LiveRecipes
    BY DEF Typed, TypeOK, TablesOK, LiveRecipes
  <1>2. ASSUME NEW d \in Clients \ {c}
        PROVE  req[d].rows \subseteq LiveRecipes'
    BY <1>1, <1>2 DEF Typed, RowsLive
  <1>3. QED
    BY <1>1, <1>2, TypedFromParts

\* In particular one that only answers.
LEMMA TypedAnswer ==
    ASSUME Typed, NEW c \in Clients, NEW status \in Replies, Answer(c, status),
           UNCHANGED <<recipes, vocab>>
    PROVE  Typed'
  <1>1. /\ req' \in [Clients -> Request]
        /\ reply' \in Replies
        /\ req'[c] = Idle
        /\ \A d \in Clients \ {c} : req'[d] = req[d]
    BY AnswerStep
  <1>2. Locals(c)' /\ RowsLive(c)'
    BY <1>1 DEF Locals, RowsLive, Idle
  <1>3. QED
    BY <1>1, <1>2, TypedNoWrite

\* And one that only goes on to a statement whose locals are set.
LEMMA TypedGoto ==
    ASSUME Typed, NEW c \in Clients, NEW q \in Request, Goto(c, q),
           q.rows \subseteq LiveRecipes, UNCHANGED <<recipes, vocab>>,
           Locals(c)'
    PROVE  Typed'
  <1>1. /\ req' \in [Clients -> Request]
        /\ reply' \in Replies
        /\ req'[c] = q
        /\ \A d \in Clients \ {c} : req'[d] = req[d]
    BY GotoStep
  <1>2. RowsLive(c)'
    BY <1>1 DEF RowsLive, LiveRecipes
  <1>3. QED
    BY <1>1, <1>2, TypedNoWrite

------------------------------------------------------------------------------
(* Type correctness *)

LEMMA RecipeArrivalTyped ==
    ASSUME Typed, NEW c \in Clients, RecipeArrival(c)
    PROVE  Typed'
  <1> USE DEF Replies
  <1>1. ASSUME NEW p \in Recipe, CreateRecipe(c, p)
        PROVE  Typed'
    <2>1. PICK r \in RecipeIds :
            IF NameIsValid("category", p.category)
            THEN Goto(c, [Idle EXCEPT !.at = "create_cuisine", !.pay = p, !.rid = r])
            ELSE Answer(c, "422")
      BY <1>1 DEF CreateRecipe
    <2> DEFINE q == [Idle EXCEPT !.at = "create_cuisine", !.pay = p, !.rid = r]
    <2>2. q \in Request /\ q.rows = {} /\ q.at = "create_cuisine" /\ q.pay = p /\ q.rid = r
      BY DEF Idle, Request, Points, Kinds
    <2>3. CASE Goto(c, q)
      <3>1. Locals(c)'
        BY <2>2, <2>3, GotoStep DEF Locals
      <3>2. QED
        BY <1>1, <2>2, <2>3, <3>1, TypedGoto DEF CreateRecipe
    <2>4. CASE Answer(c, "422")
      BY <1>1, <2>4, TypedAnswer DEF CreateRecipe
    <2>5. QED
      BY <2>1, <2>3, <2>4
  <1>2. ASSUME NEW s \in Slugs, NEW p \in Recipe, UpdateRecipe(c, s, p)
        PROVE  Typed'
    <2>1. CASE Answer(c, "404")
      BY <1>2, <2>1, TypedAnswer DEF UpdateRecipe
    <2>2. ASSUME NEW r \in LiveRecipes,
                 Goto(c, [Idle EXCEPT !.at = "update_category", !.pay = p, !.rid = r,
                                      !.seen = recipes[r]])
          PROVE  Typed'
      <3> DEFINE q == [Idle EXCEPT !.at = "update_category", !.pay = p, !.rid = r,
                                   !.seen = recipes[r]]
      <3>1. r \in RecipeIds /\ recipes[r] \in Recipe
        BY DEF LiveRecipes, Typed, TypeOK, TablesOK
      <3>2. /\ q \in Request /\ q.at = "update_category" /\ q.pay = p /\ q.rid = r
            /\ q.seen = recipes[r] /\ q.rows = {}
        BY <3>1 DEF Idle, Request, Points, Kinds
      <3>3. Locals(c)'
        BY <2>2, <3>1, <3>2, GotoStep DEF Locals
      <3>4. QED
        BY <1>2, <2>2, <3>2, <3>3, TypedGoto DEF UpdateRecipe
    <2>3. QED
      BY <1>2, <2>1, <2>2 DEF UpdateRecipe
  <1>3. ASSUME NEW s \in Slugs, DeleteRecipe(c, s)
        PROVE  Typed'
    <2>1. CASE Answer(c, "404")
      BY <1>3, <2>1, TypedAnswer DEF DeleteRecipe
    <2>2. ASSUME NEW r \in LiveRecipes,
                 Goto(c, [Idle EXCEPT !.at = "delete_commit", !.rid = r])
          PROVE  Typed'
      <3> DEFINE q == [Idle EXCEPT !.at = "delete_commit", !.rid = r]
      <3>1. q \in Request /\ q.at = "delete_commit" /\ q.rid \in RecipeIds /\ q.rows = {}
        BY DEF Idle, Request, Points, Kinds, LiveRecipes
      <3>2. Locals(c)'
        BY <2>2, <3>1, GotoStep DEF Locals
      <3>3. QED
        BY <1>3, <2>2, <3>1, <3>2, TypedGoto DEF DeleteRecipe
    <2>3. QED
      BY <1>3, <2>1, <2>2 DEF DeleteRecipe
  <1>4. QED
    BY <1>1, <1>2, <1>3 DEF RecipeArrival

\* A term and a name of its kind, loaded into a request.
LEMMA TermArrivalTyped ==
    ASSUME Typed, NEW c \in Clients, NEW k \in Kinds, TermArrival(c, k)
    PROVE  Typed'
  <1> USE DEF Replies
  <1>1. ASSUME NEW n \in Inputs[k], CreateTerm(c, k, n)
        PROVE  Typed'
    <2>1. Strip[n] \in Names(k) /\ Strip[n] \in AllInputs
      BY NamesAreInputs DEF Names
    <2>2. CASE Answer(c, "409") /\ UNCHANGED vocab
      BY <1>1, <2>2, TypedAnswer DEF CreateTerm
    <2>3. ASSUME NEW t \in TermIds,
                 vocab' = [vocab EXCEPT ![k][t] = Strip[n]],
                 Goto(c, [Idle EXCEPT !.at = "refresh_term", !.kind = k, !.tid = t])
          PROVE  Typed'
      <3> DEFINE q == [Idle EXCEPT !.at = "refresh_term", !.kind = k, !.tid = t]
      <3>1. q \in Request /\ q.rows = {} /\ q.at = "refresh_term" /\ q.tid = t
        BY DEF Idle, Request, Points, Kinds
      <3>2. Locals(c)' /\ RowsLive(c)'
        BY <2>3, <3>1, GotoStep DEF Locals, RowsLive
      <3>3. TablesOK' /\ LiveRecipes' = LiveRecipes
        BY <1>1, <2>1, <2>3 DEF CreateTerm, Typed, TypeOK, TablesOK, LiveRecipes
      <3>4. ASSUME NEW d \in Clients \ {c}
            PROVE  req[d].rows \subseteq LiveRecipes'
        BY <3>3, <3>4 DEF Typed, RowsLive
      <3>5. QED
        BY <2>3, <3>1, <3>2, <3>3, <3>4, GotoStep, TypedFromParts
    <2>4. QED
      BY <1>1, <2>2, <2>3 DEF CreateTerm
  <1>2. ASSUME NEW t \in TermIds, NEW n \in Inputs[k], UpdateTerm(c, k, t, n)
        PROVE  Typed'
    <2> DEFINE q == [Idle EXCEPT !.at = "rename", !.kind = k, !.tid = t,
                                 !.old = vocab[k][t], !.new = Strip[n]]
    <2>1. Strip[n] \in Names(k) /\ Strip[n] \in AllInputs
      BY NamesAreInputs DEF Names
    <2>2. CASE t \in LiveTerms(k) /\ Goto(c, q)
      <3>1. vocab[k][t] \in AllInputs
        BY <2>2 DEF LiveTerms, Typed, TypeOK, TablesOK
      <3>2. q \in Request /\ q.rows = {} /\ q.at = "rename" /\ q.tid = t /\ q.kind = k /\ q.new = Strip[n]
        BY <2>1, <3>1 DEF Idle, Request, Points, Kinds
      <3>3. Locals(c)'
        BY <2>1, <2>2, <3>2, GotoStep DEF Locals
      <3>4. QED
        BY <1>2, <2>2, <3>2, <3>3, TypedGoto DEF UpdateTerm
    <2>3. CASE Answer(c, "404")
      BY <1>2, <2>3, TypedAnswer DEF UpdateTerm
    <2>4. QED
      BY <1>2, <2>2, <2>3 DEF UpdateTerm
  <1>3. ASSUME NEW t \in TermIds, DeleteTerm(c, k, t)
        PROVE  Typed'
    <2> DEFINE q == [Idle EXCEPT !.at = "count", !.kind = k, !.tid = t, !.old = vocab[k][t]]
    <2>1. CASE t \in LiveTerms(k) /\ Goto(c, q)
      <3>1. vocab[k][t] \in AllInputs
        BY <2>1 DEF LiveTerms, Typed, TypeOK, TablesOK
      <3>2. q \in Request /\ q.rows = {} /\ q.at = "count" /\ q.tid = t
        BY <3>1 DEF Idle, Request, Points, Kinds
      <3>3. Locals(c)'
        BY <2>1, <3>2, GotoStep DEF Locals
      <3>4. QED
        BY <1>3, <2>1, <3>2, <3>3, TypedGoto DEF DeleteTerm
    <2>2. CASE Answer(c, "404")
      BY <1>3, <2>2, TypedAnswer DEF DeleteTerm
    <2>3. QED
      BY <1>3, <2>1, <2>2 DEF DeleteTerm
  <1>4. QED
    BY <1>1, <1>2, <1>3 DEF TermArrival

\* A request that goes on with its locals as they are.
LEMMA MoveOn ==
    ASSUME Typed, NEW c \in Clients, NEW point \in Points
    PROVE  /\ [req[c] EXCEPT !.at = point] \in Request
           /\ [req[c] EXCEPT !.at = point].at = point
           /\ \A f \in {"pay", "rid", "seen", "kind", "tid", "old", "new", "rows",
                     "todo"} :
                [req[c] EXCEPT !.at = point][f] = req[c][f]
  <1>1. req[c] \in Request
    BY DEF Typed, TypeOK
  <1>2. QED
    BY <1>1 DEF Request

\* The statements of a rename before its commit, and the end of a deadlock.
Renames(c) ==
    \/ RenameTerm(c) \/ TakeName(c) \/ FindRecipes(c) \/ \E r \in RecipeIds : UpdateRow(c, r)
    \/ DeadlockAborts(c)

\* The request after one of them that goes on: the lock it took, if it did.
Onward(c, q) ==
    LET p == req[c] IN
    /\ q \in Request /\ q.pay = p.pay /\ q.rid = p.rid /\ q.seen = p.seen
    /\ q.kind = p.kind /\ q.tid = p.tid /\ q.old = p.old /\ q.new = p.new
    /\ \/ /\ p.at = "rename" /\ q.at = "rename_key"
          /\ ~TermLocked(c, p.kind, p.tid) /\ p.tid \in LiveTerms(p.kind)
          /\ q.rows = p.rows /\ q.todo = p.todo
       \/ /\ p.at = "rename_key" /\ q.at = "rename_rows"
          /\ ~NameLocked(c, p.kind, p.new) /\ ~NameTaken(p.kind, p.new, p.tid)
          /\ q.rows = p.rows /\ q.todo = p.todo
       \/ /\ p.at = "rename_rows" /\ q.at = CascadeAt(q.todo)
          /\ q.rows = p.rows /\ q.todo = Carrying(p.kind, p.old)
       \/ /\ p.at = "cascade" /\ q.at = CascadeAt(q.todo)
          /\ \E r \in RecipeIds :
               /\ ~RecipeLocked(c, r)
               /\ q.rows = p.rows \cup ({r} \cap Carrying(p.kind, p.old))
               /\ q.todo = p.todo \ {r}

\* Each of them answers with a 500, or has nothing to rename, or goes on.
LEMMA RenameSteps ==
    ASSUME Typed, NEW c \in Clients, Renames(c)
    PROVE  /\ UNCHANGED <<recipes, vocab>>
           /\ req[c].at \in {"rename", "rename_key", "rename_rows", "cascade", "update_commit"}
           /\ \A d \in Clients \ {c} : req'[d] = req[d]
           /\ req[c].at = "update_commit" => Answer(c, "500")
           /\ \/ Answer(c, "500")
              \/ /\ req[c].at = "rename"
                 /\ Goto(c, [Idle EXCEPT !.at = "refresh_term", !.kind = req[c].kind,
                                         !.tid = req[c].tid])
              \/ Goto(c, req'[c]) /\ Onward(c, req'[c])
  <1>0. req \in [Clients -> Request] /\ req[c] \in Request
    BY DEF Typed, TypeOK
  <1>2. req[c].rows \in SUBSET RecipeIds /\ req[c].todo \in SUBSET RecipeIds
    BY <1>0 DEF Request
  <1>3. ASSUME NEW q, Goto(c, q)
        PROVE  Goto(c, req'[c]) /\ req'[c] = q
    BY <1>0, <1>3 DEF Goto
  <1>5. \A k, n : Carrying(k, n) \in SUBSET RecipeIds
    BY DEF Carrying, LiveRecipes
  <1>6. \A todo : CascadeAt(todo) \in Points
    BY DEF CascadeAt, Points
  <1>7. CASE RenameTerm(c)
    <2> DEFINE q == [req[c] EXCEPT !.at = "rename_key"]
    <2>1. CASE /\ ~TermLocked(c, req[c].kind, req[c].tid) /\ req[c].tid \in LiveTerms(req[c].kind)
               /\ Goto(c, q)
      <3>1. Goto(c, req'[c]) /\ req'[c] = q
        BY <1>3, <2>1
      <3>2. /\ q \in Request /\ q.at = "rename_key" /\ q.rows = req[c].rows /\ q.todo = req[c].todo
            /\ q.pay = req[c].pay /\ q.rid = req[c].rid /\ q.seen = req[c].seen
            /\ q.kind = req[c].kind /\ q.tid = req[c].tid /\ q.old = req[c].old
            /\ q.new = req[c].new
        BY <1>0 DEF Request, Points
      <3> HIDE DEF q
      <3>3. Onward(c, q)
        BY <1>7, <2>1, <3>2 DEF Onward, RenameTerm
      <3>4. QED
        BY <1>0, <1>7, <3>1, <3>3 DEF RenameTerm, Goto
    <2>2. QED
      BY <1>0, <1>7, <2>1 DEF RenameTerm, Answer, Goto
  <1>8. CASE TakeName(c)
    <2> DEFINE q == [req[c] EXCEPT !.at = "rename_rows"]
    <2>1. CASE /\ ~NameLocked(c, req[c].kind, req[c].new)
               /\ ~NameTaken(req[c].kind, req[c].new, req[c].tid) /\ Goto(c, q)
      <3>1. Goto(c, req'[c]) /\ req'[c] = q
        BY <1>3, <2>1
      <3>2. /\ q \in Request /\ q.at = "rename_rows" /\ q.rows = req[c].rows /\ q.todo = req[c].todo
            /\ q.pay = req[c].pay /\ q.rid = req[c].rid /\ q.seen = req[c].seen
            /\ q.kind = req[c].kind /\ q.tid = req[c].tid /\ q.old = req[c].old
            /\ q.new = req[c].new
        BY <1>0 DEF Request, Points
      <3> HIDE DEF q
      <3>3. Onward(c, q)
        BY <1>8, <2>1, <3>2 DEF Onward, TakeName
      <3>4. QED
        BY <1>0, <1>8, <3>1, <3>3 DEF TakeName, Goto
    <2>2. QED
      BY <1>0, <1>8, <2>1 DEF TakeName, Answer
  <1>9. CASE FindRecipes(c)
    <2> DEFINE found == Carrying(req[c].kind, req[c].old)
               q == [req[c] EXCEPT !.at = CascadeAt(found), !.todo = found]
    <2>1. Goto(c, req'[c]) /\ req'[c] = q
      BY <1>3, <1>9 DEF FindRecipes
    <2>6. found \in SUBSET RecipeIds /\ CascadeAt(found) \in Points
      BY <1>5, <1>6
    <2> HIDE DEF q, found
    <2>3. /\ q \in Request /\ q.at = CascadeAt(found) /\ q.rows = req[c].rows /\ q.todo = found
          /\ q.pay = req[c].pay /\ q.rid = req[c].rid /\ q.seen = req[c].seen
          /\ q.kind = req[c].kind /\ q.tid = req[c].tid /\ q.old = req[c].old
          /\ q.new = req[c].new
      BY <1>0, <1>2, <2>6 DEF Request, q
    <2>4. Onward(c, q)
      BY <1>9, <2>3 DEF Onward, FindRecipes, found
    <2>5. QED
      BY <1>0, <1>9, <2>1, <2>4 DEF FindRecipes, Goto
  <1>10. ASSUME NEW r \in RecipeIds, UpdateRow(c, r)
         PROVE  /\ Goto(c, req'[c]) /\ Onward(c, req'[c])
                /\ UNCHANGED <<recipes, vocab>> /\ req[c].at = "cascade"
                /\ \A d \in Clients \ {c} : req'[d] = req[d]
    <2> DEFINE todo == req[c].todo \ {r}
               rows == req[c].rows \cup ({r} \cap Carrying(req[c].kind, req[c].old))
               q == [req[c] EXCEPT !.at = CascadeAt(todo), !.rows = rows, !.todo = todo]
    <2>1. q = [req[c] EXCEPT !.at = CascadeAt(todo), !.todo = todo,
                 !.rows = @ \cup ({r} \cap Carrying(req[c].kind, req[c].old))]
      BY <1>0 DEF Request
    <2>2. Goto(c, req'[c]) /\ req'[c] = q
      BY <1>3, <1>10, <2>1 DEF UpdateRow
    <2>3. rows \in SUBSET RecipeIds /\ todo \in SUBSET RecipeIds /\ CascadeAt(todo) \in Points
      BY <1>2, <1>6
    <2> HIDE DEF q, rows, todo
    <2>4. /\ q \in Request /\ q.at = CascadeAt(todo) /\ q.rows = rows /\ q.todo = todo
          /\ q.pay = req[c].pay /\ q.rid = req[c].rid /\ q.seen = req[c].seen
          /\ q.kind = req[c].kind /\ q.tid = req[c].tid /\ q.old = req[c].old
          /\ q.new = req[c].new
      BY <1>0, <2>3 DEF Request, q
    <2>5. Onward(c, q)
      BY <1>10, <2>4 DEF Onward, UpdateRow, rows, todo
    <2>6. QED
      BY <1>0, <1>10, <2>2, <2>5 DEF UpdateRow, Goto
  <1>11. CASE DeadlockAborts(c)
    BY <1>0, <1>11 DEF DeadlockAborts, Answer
  <1>12. QED
    BY <1>7, <1>8, <1>9, <1>10, <1>11 DEF Renames

LEMMA ChecksTyped ==
    ASSUME Typed, NEW c \in Clients,
           UpdateCheckCategory(c) \/ CheckCuisine(c) \/ CountUses(c)
    PROVE  Typed'
  <1> USE DEF Replies
  <1>1. ASSUME NEW status \in Replies, Answer(c, status), UNCHANGED <<recipes, vocab>>
        PROVE  Typed'
    BY <1>1, TypedAnswer
  <1>2. ASSUME NEW point \in Points, Goto(c, [req[c] EXCEPT !.at = point]),
               UNCHANGED <<recipes, vocab>>,
               \/ req[c].at = "update_category" /\ point = "update_cuisine"
               \/ req[c].at = "create_cuisine" /\ point = "create_commit"
               \/ req[c].at = "update_cuisine" /\ point = "update_commit"
               \/ req[c].at = "count" /\ point = "drop"
        PROVE  Typed'
    <2>1. Locals(c)
      BY DEF Typed
    <2> DEFINE q == [req[c] EXCEPT !.at = point]
    <2>2. /\ q \in Request /\ q.at = point /\ q.pay = req[c].pay /\ q.rid = req[c].rid
          /\ q.seen = req[c].seen /\ q.tid = req[c].tid /\ q.rows \subseteq LiveRecipes
      BY MoveOn DEF Typed, RowsLive
    <2> HIDE DEF q
    <2>3. req'[c] = q
      BY <1>2, <2>2, GotoStep DEF q
    <2>4. Locals(c)'
      BY <1>2, <2>1, <2>2, <2>3 DEF Locals
    <2>5. Goto(c, q)
      BY <1>2 DEF q
    <2>6. QED
      BY <1>2, <2>2, <2>4, <2>5, TypedGoto
  <1>3. CASE UpdateCheckCategory(c)
    BY <1>1, <1>2, <1>3 DEF UpdateCheckCategory, Points
  <1>4. CASE CheckCuisine(c)
    BY <1>1, <1>2, <1>4 DEF CheckCuisine, Points
  <1>5. CASE CountUses(c)
    BY <1>1, <1>2, <1>5 DEF CountUses, Points
  <1>6. QED
    BY <1>3, <1>4, <1>5

\* The request that refreshes the recipe, or the term, it has written.
LEMMA ToRefreshRecipe ==
    ASSUME Typed, NEW c \in Clients, NEW r \in RecipeIds,
           Goto(c, [Idle EXCEPT !.at = "refresh_recipe", !.rid = r])
    PROVE  /\ req' \in [Clients -> Request]
           /\ reply' \in Replies
           /\ \A d \in Clients \ {c} : req'[d] = req[d]
           /\ req'[c].at = "refresh_recipe"
           /\ Locals(c)' /\ RowsLive(c)'
  <1> DEFINE q == [Idle EXCEPT !.at = "refresh_recipe", !.rid = r]
  <1>1. q \in Request /\ q.rows = {} /\ q.at = "refresh_recipe" /\ q.rid = r
    BY DEF Idle, Request, Points, Kinds
  <1>2. QED
    BY <1>1, GotoStep DEF Locals, RowsLive

LEMMA ToRefreshTerm ==
    ASSUME Typed, NEW c \in Clients, NEW k \in Kinds, NEW t \in TermIds,
           Goto(c, [Idle EXCEPT !.at = "refresh_term", !.kind = k, !.tid = t])
    PROVE  /\ req' \in [Clients -> Request]
           /\ reply' \in Replies
           /\ \A d \in Clients \ {c} : req'[d] = req[d]
           /\ req'[c].at = "refresh_term"
           /\ Locals(c)' /\ RowsLive(c)'
  <1> DEFINE q == [Idle EXCEPT !.at = "refresh_term", !.kind = k, !.tid = t]
  <1>1. q \in Request /\ q.rows = {} /\ q.at = "refresh_term" /\ q.tid = t
    BY DEF Idle, Request, Points, Kinds
  <1>2. QED
    BY <1>1, GotoStep DEF Locals, RowsLive

\* Flushing the changed columns of a body turns a row into a row.
LEMMA ChangedColumnsIsRow ==
    ASSUME NEW row \in Recipe, NEW seen \in Recipe, NEW pay \in Recipe
    PROVE  /\ ChangedColumns(row, seen, pay) \in Recipe
           /\ ChangedColumns(row, seen, pay).slug \in {row.slug, pay.slug}
           /\ pay.slug = seen.slug => ChangedColumns(row, seen, pay).slug = row.slug
           /\ \A k \in Kinds : ChangedColumns(row, seen, pay)[k] \in {row[k], pay[k]}
  <1> DEFINE new == ChangedColumns(row, seen, pay)
  <1>1. DOMAIN row = {"slug", "category", "cuisine"}
    BY DEF Recipe
  <1>2. new = [col \in {"slug", "category", "cuisine"} |->
                 IF pay[col] # seen[col] THEN pay[col] ELSE row[col]]
    BY <1>1 DEF ChangedColumns
  <1>3. new = [slug |-> new["slug"], category |-> new["category"], cuisine |-> new["cuisine"]]
    BY <1>2
  <1>4. new["slug"] \in {row.slug, pay.slug} /\ (pay.slug = seen.slug => new["slug"] = row.slug)
    BY <1>2
  <1>5. new["category"] \in {row.category, pay.category}
        /\ new["cuisine"] \in {row.cuisine, pay.cuisine}
    BY <1>2
  <1>6. new \in Recipe
    BY <1>3, <1>4, <1>5 DEF Recipe
  <1>7. QED
    BY <1>4, <1>5, <1>6 DEF Kinds

LEMMA RecipeCommitsTyped ==
    ASSUME Typed, NEW c \in Clients,
           CommitCreate(c) \/ CommitUpdate(c) \/ RefreshRecipe(c) \/ CommitDelete(c)
    PROVE  Typed'
  <1> USE DEF Replies
  <1>1. Locals(c) /\ TablesOK
    BY DEF Typed, TypeOK
  <1>2. ASSUME NEW r \in RecipeIds, NEW row \in Recipe \cup {Unborn, Deleted},
               recipes' = [recipes EXCEPT ![r] = row], UNCHANGED vocab,
               row \in Recipe \/ ~RecipeLocked(c, r),
               \/ Goto(c, [Idle EXCEPT !.at = "refresh_recipe", !.rid = r])
               \/ Answer(c, "ok")
        PROVE  Typed'
    <2>1. TablesOK'
      BY <1>1, <1>2 DEF TablesOK
    <2>2. ASSUME NEW d \in Clients \ {c}
          PROVE  req[d].rows \subseteq LiveRecipes'
      <3>1. req[d].rows \subseteq LiveRecipes
        BY DEF Typed, RowsLive
      <3>2. r \in req[d].rows => row \in Recipe
        BY <1>2 DEF RecipeLocked
      <3>3. QED
        BY <1>1, <1>2, <3>1, <3>2, RowIsLive DEF LiveRecipes, TablesOK
    <2>3. CASE Goto(c, [Idle EXCEPT !.at = "refresh_recipe", !.rid = r])
      BY <2>1, <2>2, <2>3, ToRefreshRecipe, TypedFromParts
    <2>4. CASE Answer(c, "ok")
      <3>1. Locals(c)' /\ RowsLive(c)'
        BY <2>4, AnswerStep DEF Locals, RowsLive, Idle
      <3>2. QED
        BY <2>1, <2>2, <2>4, <3>1, AnswerStep, TypedFromParts
    <2>5. QED
      BY <1>2, <2>3, <2>4
  <1>3. CASE CommitCreate(c)
    <2>1. req[c].rid \in RecipeIds /\ req[c].pay \in Recipe
      BY <1>1, <1>3 DEF CommitCreate, Locals
    <2>2. CASE Answer(c, "409") /\ UNCHANGED recipes
      BY <1>3, <2>2, TypedAnswer DEF CommitCreate
    <2>3. QED
      BY <1>2, <1>3, <2>1, <2>2 DEF CommitCreate
  <1>4. CASE CommitUpdate(c)
    <2>1. req[c].rid \in RecipeIds /\ req[c].pay \in Recipe /\ req[c].seen \in Recipe
      BY <1>1, <1>4 DEF CommitUpdate, Locals
    <2>2. CASE UNCHANGED recipes
                 /\ Goto(c, [Idle EXCEPT !.at = "refresh_recipe", !.rid = req[c].rid])
      <3>1. Locals(c)' /\ RowsLive(c)'
        BY <2>1, <2>2, ToRefreshRecipe
      <3>2. QED
        BY <1>4, <2>1, <2>2, <3>1, ToRefreshRecipe, TypedNoWrite DEF CommitUpdate
    <2>3. ASSUME NEW status \in Replies, Answer(c, status), UNCHANGED recipes
          PROVE  Typed'
      BY <1>4, <2>3, TypedAnswer DEF CommitUpdate
    <2>4. CASE /\ req[c].rid \in LiveRecipes
               /\ recipes' = [recipes EXCEPT ![req[c].rid] =
                                ChangedColumns(@, req[c].seen, req[c].pay)]
               /\ Goto(c, [Idle EXCEPT !.at = "refresh_recipe", !.rid = req[c].rid])
      <3>1. ChangedColumns(recipes[req[c].rid], req[c].seen, req[c].pay) \in Recipe
        BY <1>1, <2>1, <2>4, ChangedColumnsIsRow DEF LiveRecipes, TablesOK
      <3>2. QED
        BY <1>2, <1>4, <2>1, <2>4, <3>1 DEF CommitUpdate
    <2>5. QED
      BY <1>4, <2>2, <2>3, <2>4 DEF CommitUpdate
  <1>5. CASE RefreshRecipe(c)
    BY <1>5, TypedAnswer DEF RefreshRecipe
  <1>6. CASE CommitDelete(c)
    BY <1>1, <1>2, <1>6 DEF CommitDelete, Locals
  <1>7. QED
    BY <1>3, <1>4, <1>5, <1>6

LEMMA TermCommitsTyped ==
    ASSUME Typed, NEW c \in Clients,
           Renames(c) \/ CommitRename(c) \/ RefreshTerm(c) \/ DropTerm(c)
    PROVE  Typed'
  <1> USE DEF Replies
  <1> DEFINE k == req[c].kind
             t == req[c].tid
  <1>1. Locals(c) /\ RowsLive(c) /\ TablesOK /\ k \in Kinds
    BY DEF Typed, TypeOK, Request
  <1>2. CASE Renames(c)
    <2>0. UNCHANGED <<recipes, vocab>> /\ LiveRecipes' = LiveRecipes
      BY <1>2, RenameSteps DEF LiveRecipes
    <2>1. req[c].at # "update_commit" => t \in TermIds /\ req[c].new \in Names(k)
      BY <1>1, <1>2, RenameSteps DEF Locals
    <2>2. CASE /\ req[c].at = "rename"
               /\ Goto(c, [Idle EXCEPT !.at = "refresh_term", !.kind = k, !.tid = t])
      BY <1>1, <2>0, <2>1, <2>2, ToRefreshTerm, TypedNoWrite
    <2>3. CASE Answer(c, "500")
      BY <2>0, <2>3, TypedAnswer
    <2>4. ASSUME NEW q, q = req'[c], Goto(c, q), Onward(c, q)
          PROVE  Typed'
      <3>1. /\ q \in Request /\ q.tid = t /\ q.kind = k /\ q.new = req[c].new
            /\ req[c].at # "update_commit"
            /\ q.at \in {"rename_key", "rename_rows", "cascade", "rename_commit"}
        BY <2>4 DEF Onward, CascadeAt
      <3>2. Carrying(k, req[c].old) \subseteq LiveRecipes
        BY DEF Carrying
      <3>3. q.rows \subseteq LiveRecipes
        BY <1>1, <2>4, <3>2 DEF Onward, RowsLive
      <3>4. Locals(c)'
        BY <2>1, <2>4, <3>1 DEF Locals, Names
      <3>5. QED
        BY <2>0, <2>4, <3>1, <3>3, <3>4, TypedGoto
    <2>5. QED
      BY <1>2, <2>2, <2>3, <2>4, RenameSteps
  <1>3. CASE CommitRename(c)
    <2>1. t \in TermIds /\ req[c].new \in Names(k) /\ req[c].rows \subseteq LiveRecipes
      BY <1>1, <1>3 DEF CommitRename, Locals, RowsLive
    <2>2. req[c].new \in Inputs[k] /\ req[c].new \in AllInputs
      BY <1>1, <2>1, NamesAreInputs
    <2>3. vocab' \in [Kinds -> [TermIds -> AllInputs \cup {Unborn, Deleted}]]
      BY <1>1, <1>3, <2>1, <2>2 DEF CommitRename, TablesOK
    <2>4. ASSUME NEW r \in RecipeIds
          PROVE  /\ recipes'[r] \in Recipe \cup {Unborn, Deleted}
                 /\ r \in LiveRecipes => recipes'[r] \in Recipe
      <3>1. CASE r \in req[c].rows
        <4>1. recipes[r] \in Recipe
          BY <1>1, <2>1, <3>1 DEF LiveRecipes, TablesOK
        <4>2. [recipes[r] EXCEPT ![k] = req[c].new] \in Recipe
          BY <1>1, <2>2, <4>1, RowExcept
        <4>3. QED
          BY <1>3, <3>1, <4>2 DEF CommitRename
      <3>2. CASE r \notin req[c].rows
        BY <1>1, <1>3, <3>2 DEF CommitRename, TablesOK, LiveRecipes
      <3>3. QED
        BY <3>1, <3>2
    <2>5. TablesOK'
      BY <1>3, <2>3, <2>4 DEF CommitRename, TablesOK
    <2>6. LiveRecipes \subseteq LiveRecipes'
      BY <2>4, RowIsLive DEF LiveRecipes
    <2>7. ASSUME NEW d \in Clients \ {c}
          PROVE  req[d].rows \subseteq LiveRecipes'
      BY <2>6 DEF Typed, RowsLive
    <2>8. QED
      BY <1>1, <1>3, <2>1, <2>5, <2>7, ToRefreshTerm, TypedFromParts DEF CommitRename
  <1>4. CASE RefreshTerm(c)
    BY <1>4, TypedAnswer DEF RefreshTerm
  <1>5. CASE DropTerm(c)
    <2>1. t \in TermIds
      BY <1>1, <1>5 DEF DropTerm, Locals
    <2>2. TablesOK' /\ LiveRecipes' = LiveRecipes
      BY <1>1, <1>5, <2>1 DEF DropTerm, TablesOK, LiveRecipes
    <2>3. ASSUME NEW d \in Clients \ {c}
          PROVE  req[d].rows \subseteq LiveRecipes'
      BY <2>2, <2>3 DEF Typed, RowsLive
    <2>4. Answer(c, "ok")
      BY <1>5 DEF DropTerm
    <2>5. Locals(c)' /\ RowsLive(c)'
      BY <2>4, AnswerStep DEF Locals, RowsLive, Idle
    <2>6. QED
      BY <2>2, <2>3, <2>4, <2>5, AnswerStep, TypedFromParts
  <1>6. QED
    BY <1>2, <1>3, <1>4, <1>5

LEMMA TypedStep == Typed /\ [Next]_vars => Typed'
  <1> SUFFICES ASSUME Typed, [Next]_vars PROVE Typed'
    OBVIOUS
  <1>1. ASSUME NEW c \in Clients, Arrival(c)
        PROVE  Typed'
    BY <1>1, RecipeArrivalTyped, TermArrivalTyped
       DEF Arrival, CategoryArrival, CuisineArrival, Kinds
  <1>2. ASSUME NEW c \in Clients, Continue(c)
        PROVE  Typed'
    BY <1>2, ChecksTyped, RecipeCommitsTyped, TermCommitsTyped DEF Continue, Renames
  <1>3. CASE UNCHANGED vars
    BY <1>3 DEF vars, Typed, TypeOK, TablesOK, Locals, RowsLive, LiveRecipes
  <1>4. QED
    BY <1>1, <1>2, <1>3 DEF Next

LEMMA TypedInit == Init => Typed
  <1> SUFFICES ASSUME Init PROVE Typed
    OBVIOUS
  <1>1. Idle \in Request
    BY DEF Idle, Request, Points, Kinds
  <1>2. TypeOK
    BY <1>1 DEF Init, CookbookInit, TypeOK, TablesOK, Replies
  <1>3. QED
    BY <1>2 DEF Init, Typed, Locals, RowsLive, Idle

\* Every variable keeps its type, and a rename in flight keeps its rows, for any
\* number of requests, recipes, terms, slugs and names.
THEOREM RecipesTypeOK == Spec => []TypeOK
  <1>1. Typed => TypeOK
    BY DEF Typed
  <1>2. QED
    BY TypedInit, TypedStep, <1>1, PTL DEF Spec

------------------------------------------------------------------------------
(* Unique slugs *)

\* Writing one row under a slug that no other live recipe has keeps slugs unique.
LEMMA SlugsAfterWrite ==
    ASSUME Typed, UniqueSlugs, NEW r \in RecipeIds, NEW row,
           recipes' = [recipes EXCEPT ![r] = row],
           \/ row \in {Unborn, Deleted}
           \/ ~SlugTaken(row.slug, r)
           \/ r \in LiveRecipes /\ row.slug = recipes[r].slug
    PROVE  UniqueSlugs'
  <1> SUFFICES ASSUME NEW p \in LiveRecipes', NEW q \in LiveRecipes',
                      recipes'[p].slug = recipes'[q].slug, p # q
               PROVE  FALSE
    BY DEF UniqueSlugs
  <1>1. recipes \in [RecipeIds -> Recipe \cup {Unborn, Deleted}]
    BY DEF Typed, TypeOK, TablesOK
  <1>2. \A o \in RecipeIds : recipes'[o] = IF o = r THEN row ELSE recipes[o]
    BY <1>1
  <1>3. p \in RecipeIds /\ q \in RecipeIds
    BY DEF LiveRecipes
  <1>4. CASE p # r /\ q # r
    BY <1>2, <1>3, <1>4 DEF UniqueSlugs, LiveRecipes
  <1>5. CASE p = r
    <2>1. q \in LiveRecipes /\ q # r /\ recipes[q].slug = row.slug
      BY <1>2, <1>3, <1>5 DEF LiveRecipes
    <2>2. QED
      BY <1>2, <1>5, <2>1 DEF SlugTaken, UniqueSlugs, LiveRecipes
  <1>6. CASE q = r
    <2>1. p \in LiveRecipes /\ p # r /\ recipes[p].slug = row.slug
      BY <1>2, <1>3, <1>6 DEF LiveRecipes
    <2>2. QED
      BY <1>2, <1>6, <2>1 DEF SlugTaken, UniqueSlugs, LiveRecipes
  <1>7. QED
    BY <1>4, <1>5, <1>6

\* The cascade of a rename changes neither which recipes there are nor a slug.
LEMMA RenameKeepsSlugs ==
    ASSUME Typed, NEW c \in Clients, CommitRename(c)
    PROVE  /\ LiveRecipes' = LiveRecipes
           /\ \A r \in LiveRecipes : recipes'[r].slug = recipes[r].slug
  <1>1. /\ req[c].rows \subseteq LiveRecipes /\ req[c].new \in Names(req[c].kind)
        /\ req[c].kind \in Kinds
    BY DEF CommitRename, Typed, RowsLive, Locals, TypeOK, Request
  <1>2. req[c].new \in Inputs[req[c].kind]
    BY <1>1, NamesAreInputs
  <1>3. ASSUME NEW r \in RecipeIds
        PROVE  /\ r \in LiveRecipes <=> r \in LiveRecipes'
               /\ r \in LiveRecipes => recipes'[r].slug = recipes[r].slug
    <2>1. CASE r \in req[c].rows
      <3>1. recipes[r] \in Recipe /\ r \in LiveRecipes
        BY <1>1, <2>1 DEF LiveRecipes, Typed, TypeOK, TablesOK
      <3>2. recipes'[r] = [recipes[r] EXCEPT ![req[c].kind] = req[c].new]
        BY <2>1 DEF CommitRename
      <3>3. recipes'[r] \in Recipe /\ recipes'[r].slug = recipes[r].slug
        BY <1>1, <1>2, <3>1, <3>2, RowExcept
      <3>4. QED
        BY <3>1, <3>3, RowIsLive DEF LiveRecipes
    <2>2. CASE r \notin req[c].rows
      BY <2>2 DEF CommitRename, LiveRecipes
    <2>3. QED
      BY <2>1, <2>2
  <1>4. QED
    BY <1>3 DEF LiveRecipes

LEMMA UniqueSlugsStep == Typed /\ UniqueSlugs /\ [Next]_vars => UniqueSlugs'
  <1> SUFFICES ASSUME Typed, UniqueSlugs, [Next]_vars PROVE UniqueSlugs'
    OBVIOUS
  <1>1. CASE UNCHANGED recipes
    BY <1>1 DEF UniqueSlugs, LiveRecipes
  <1>2. ASSUME NEW c \in Clients, CommitCreate(c)
        PROVE  UniqueSlugs'
    <2>1. req[c].rid \in RecipeIds
      BY <1>2 DEF CommitCreate, Typed, Locals
    <2>2. CASE /\ ~SlugTaken(req[c].pay.slug, Null)
               /\ recipes' = [recipes EXCEPT ![req[c].rid] = req[c].pay]
      <3>1. ~SlugTaken(req[c].pay.slug, req[c].rid)
        BY <2>2, RowsAssumption DEF SlugTaken, LiveRecipes
      <3>2. QED
        BY <2>1, <2>2, <3>1, SlugsAfterWrite
    <2>3. QED
      BY <1>1, <1>2, <2>2 DEF CommitCreate
  <1>3. ASSUME NEW c \in Clients, CommitUpdate(c)
        PROVE  UniqueSlugs'
    <2> DEFINE r == req[c].rid
               row == ChangedColumns(recipes[r], req[c].seen, req[c].pay)
    <2>1. r \in RecipeIds /\ req[c].seen \in Recipe /\ req[c].pay \in Recipe
      BY <1>3 DEF CommitUpdate, Typed, Locals
    <2>2. CASE /\ r \in LiveRecipes
               /\ ~(req[c].pay.slug # req[c].seen.slug /\ SlugTaken(req[c].pay.slug, r))
               /\ recipes' = [recipes EXCEPT ![r] =
                                ChangedColumns(@, req[c].seen, req[c].pay)]
      <3>1. recipes[r] \in Recipe
        BY <2>2 DEF LiveRecipes, Typed, TypeOK, TablesOK
      <3>2. /\ row.slug \in {recipes[r].slug, req[c].pay.slug}
            /\ req[c].pay.slug = req[c].seen.slug => row.slug = recipes[r].slug
        BY <2>1, <3>1, ChangedColumnsIsRow
      <3>3. recipes' = [recipes EXCEPT ![r] = row]
        BY <2>2
      <3> HIDE DEF row
      <3>4. ~SlugTaken(row.slug, r) \/ row.slug = recipes[r].slug
        BY <2>2, <3>2
      <3>5. QED
        BY <2>1, <2>2, <3>3, <3>4, SlugsAfterWrite
    <2>3. QED
      BY <1>1, <1>3, <2>2 DEF CommitUpdate
  <1>4. ASSUME NEW c \in Clients, CommitDelete(c)
        PROVE  UniqueSlugs'
    <2>1. req[c].rid \in RecipeIds
      BY <1>4 DEF CommitDelete, Typed, Locals
    <2>2. QED
      BY <1>4, <2>1, SlugsAfterWrite DEF CommitDelete
  <1>5. ASSUME NEW c \in Clients, CommitRename(c)
        PROVE  UniqueSlugs'
    BY <1>5, RenameKeepsSlugs DEF UniqueSlugs
  <1>6. QED
    BY <1>1, <1>2, <1>3, <1>4, <1>5
       DEF Next, Arrival, Continue, RecipeArrival, CategoryArrival, CuisineArrival,
           TermArrival, vars, CreateRecipe, UpdateRecipe, DeleteRecipe, CreateTerm,
           UpdateTerm, DeleteTerm, UpdateCheckCategory, CheckCuisine, RefreshRecipe,
           RenameTerm, TakeName, FindRecipes, UpdateRow, DeadlockAborts, RefreshTerm, CountUses,
           DropTerm

\* However creates and slug changes race, no two recipes get the same slug.
THEOREM RecipesUniqueSlugs == Spec => []UniqueSlugs
  <1>1. Init => UniqueSlugs
    BY DEF Init, CookbookInit, UniqueSlugs, LiveRecipes
  <1>2. QED
    BY <1>1, TypedInit, TypedStep, UniqueSlugsStep, PTL DEF Spec

------------------------------------------------------------------------------
(* Unique names *)

Holding == {"rename_key", "rename_rows", "cascade", "rename_commit"}

\* Only the statements of a rename lock anything.
LEMMA NotRenaming ==
    ASSUME Typed, NEW c \in Clients, Arrival(c) \/ Continue(c), ~Renames(c)
    PROVE  /\ ~HoldsTerm(c)' /\ req'[c].rows \subseteq req[c].rows
           /\ \A d \in Clients \ {c} : req'[d] = req[d]
  <1>1. req \in [Clients -> Request]
    BY DEF Typed, TypeOK
  <1>2. ASSUME NEW status, Answer(c, status)
        PROVE  /\ ~HoldsTerm(c)' /\ req'[c].rows \subseteq req[c].rows
               /\ \A d \in Clients \ {c} : req'[d] = req[d]
    BY <1>1, <1>2 DEF Answer, Idle, HoldsTerm
  <1>3. ASSUME NEW q, q.at \notin Holding, q.rows \subseteq req[c].rows, Goto(c, q)
        PROVE  /\ ~HoldsTerm(c)' /\ req'[c].rows \subseteq req[c].rows
               /\ \A d \in Clients \ {c} : req'[d] = req[d]
    BY <1>1, <1>3 DEF Goto, HoldsTerm, Holding
  <1>4. CASE RecipeArrival(c)
    BY <1>2, <1>3, <1>4 DEF RecipeArrival, CreateRecipe, UpdateRecipe, DeleteRecipe, Idle, Holding
  <1>5. ASSUME NEW k \in Kinds, TermArrival(c, k)
        PROVE  /\ ~HoldsTerm(c)' /\ req'[c].rows \subseteq req[c].rows
               /\ \A d \in Clients \ {c} : req'[d] = req[d]
    BY <1>2, <1>3, <1>5 DEF TermArrival, CreateTerm, UpdateTerm, DeleteTerm, Idle, Holding
  <1>6. CASE UpdateCheckCategory(c) \/ CheckCuisine(c) \/ CountUses(c)
    <2>1. \A point \in Points : /\ [req[c] EXCEPT !.at = point].at = point
                                /\ [req[c] EXCEPT !.at = point].rows = req[c].rows
      BY MoveOn
    <2>2. CASE UpdateCheckCategory(c)
      BY <1>2, <1>3, <2>1, <2>2 DEF UpdateCheckCategory, Points, Holding
    <2>3. CASE CheckCuisine(c)
      <3>1. PICK point \in {"create_commit", "update_commit"} :
               Answer(c, "422") \/ Goto(c, [req[c] EXCEPT !.at = point])
        BY <2>3 DEF CheckCuisine
      <3>2. /\ [req[c] EXCEPT !.at = point].at \notin Holding
            /\ [req[c] EXCEPT !.at = point].rows = req[c].rows
        BY <2>1 DEF Points, Holding
      <3>3. QED
        BY <1>2, <1>3, <3>1, <3>2
    <2>4. CASE CountUses(c)
      BY <1>2, <1>3, <2>1, <2>4 DEF CountUses, Points, Holding
    <2>5. QED
      BY <1>6, <2>2, <2>3, <2>4
  <1>7. CASE CommitCreate(c) \/ CommitUpdate(c) \/ RefreshRecipe(c) \/ CommitDelete(c)
    BY <1>2, <1>3, <1>7 DEF CommitCreate, CommitUpdate, RefreshRecipe, CommitDelete, Idle,
                            Holding
  <1>8. CASE CommitRename(c) \/ RefreshTerm(c) \/ DropTerm(c)
    BY <1>2, <1>3, <1>8 DEF CommitRename, RefreshTerm, DropTerm, Idle, Holding
  <1>9. QED
    BY <1>4, <1>5, <1>6, <1>7, <1>8
       DEF Arrival, Continue, Renames, CategoryArrival, CuisineArrival, Kinds

\* Renames stay disjoint if the request that moves keeps apart from the others,
\* and every name that is held is still free and every term there.
LEMMA DisjointMove ==
    ASSUME RenamesDisjoint, NEW c \in Clients,
           \A d \in Clients \ {c} : req'[d] = req[d],
           \A d \in Clients : \A j, u, m :
              j = req'[d].kind /\ u = req'[d].tid /\ m = req'[d].new =>
                 /\ HoldsTerm(d)' => u \in LiveTerms(j)'
                 /\ HoldsKey(d)' => ~NameTaken(j, m, u)',
           \A d \in Clients \ {c} :
              /\ req'[c].rows \cap req[d].rows = {}
              /\ req'[c].kind = req[d].kind =>
                   /\ HoldsTerm(c)' /\ HoldsTerm(d) => req'[c].tid # req[d].tid
                   /\ HoldsKey(c)' /\ HoldsKey(d) => req'[c].new # req[d].new
    PROVE  RenamesDisjoint'
  <1>1. \A d \in Clients \ {c} : (HoldsTerm(d)' <=> HoldsTerm(d)) /\ (HoldsKey(d)' <=> HoldsKey(d))
    BY DEF HoldsTerm, HoldsKey
  <1>2. ASSUME NEW e \in Clients, NEW d \in Clients \ {e}
        PROVE  /\ req'[e].rows \cap req'[d].rows = {}
               /\ req'[e].kind = req'[d].kind =>
                    /\ HoldsTerm(e)' /\ HoldsTerm(d)' => req'[e].tid # req'[d].tid
                    /\ HoldsKey(e)' /\ HoldsKey(d)' => req'[e].new # req'[d].new
    <2>1. CASE e = c
      BY <1>1, <2>1
    <2>2. CASE d = c
      BY <1>1, <2>2
    <2>3. CASE e # c /\ d # c
      BY <1>1, <2>3 DEF RenamesDisjoint
    <2>4. QED
      BY <2>1, <2>2, <2>3
  <1>3. ASSUME NEW e \in Clients
        PROVE  /\ HoldsTerm(e)' => (req[e].tid \in LiveTerms(req[e].kind))'
               /\ HoldsKey(e)' => ~NameTaken(req[e].kind, req[e].new, req[e].tid)'
    OBVIOUS
  <1>4. QED
    BY <1>2, <1>3 DEF RenamesDisjoint

\* In particular if it holds nothing from now on.
LEMMA OthersUndisturbed ==
    ASSUME RenamesDisjoint, NEW c \in Clients, ~HoldsTerm(c)', req'[c].rows \subseteq req[c].rows,
           \A d \in Clients \ {c} : req'[d] = req[d],
           \A d \in Clients \ {c} : \A j, u, m :
              j = req[d].kind /\ u = req[d].tid /\ m = req[d].new =>
                 /\ HoldsTerm(d) => u \in LiveTerms(j)'
                 /\ HoldsKey(d) => ~NameTaken(j, m, u)'
    PROVE  RenamesDisjoint'
  <1>1. ~HoldsKey(c)'
    BY DEF HoldsTerm, HoldsKey
  <1>2. \A d \in Clients \ {c} : req'[c].rows \cap req[d].rows = {}
    BY DEF RenamesDisjoint
  <1>3. ASSUME NEW d \in Clients, NEW j, NEW u, NEW m,
               j = req'[d].kind, u = req'[d].tid, m = req'[d].new
        PROVE  /\ HoldsTerm(d)' => u \in LiveTerms(j)'
               /\ HoldsKey(d)' => ~NameTaken(j, m, u)'
    BY <1>1, <1>3 DEF HoldsTerm, HoldsKey
  <1>4. QED
    BY <1>1, <1>2, <1>3, DisjointMove

\* A step that leaves the vocabularies alone keeps names unique and the renames
\* in flight disjoint: each of their statements waits for the lock it needs.
LEMMA DisjointNoWrite ==
    ASSUME Typed, UniqueNames, RenamesDisjoint, NEW c \in Clients,
           Arrival(c) \/ Continue(c), UNCHANGED vocab
    PROVE  UniqueNames' /\ RenamesDisjoint'
  <1>1. UniqueNames'
    BY DEF UniqueNames, LiveTerms
  <1>2. \A k : LiveTerms(k)' = LiveTerms(k) /\ \A n, t : NameTaken(k, n, t)' = NameTaken(k, n, t)
    BY DEF LiveTerms, NameTaken
  <1>3. ASSUME NEW d \in Clients \ {c}, NEW j, NEW u, NEW m,
               j = req[d].kind, u = req[d].tid, m = req[d].new
        PROVE  /\ HoldsTerm(d) => u \in LiveTerms(j)'
               /\ HoldsKey(d) => ~NameTaken(j, m, u)'
    BY <1>2, <1>3 DEF RenamesDisjoint
  <1>4. ASSUME ~HoldsTerm(c)', req'[c].rows \subseteq req[c].rows,
               \A d \in Clients \ {c} : req'[d] = req[d]
        PROVE  RenamesDisjoint'
    BY <1>3, <1>4, OthersUndisturbed
  <1>5. CASE ~Renames(c)
    BY <1>1, <1>4, <1>5, NotRenaming
  <1>6. CASE Renames(c)
    <2>0. req \in [Clients -> Request] /\ req[c] \in Request
      BY DEF Typed, TypeOK
    <2>1. \A d \in Clients \ {c} : req'[d] = req[d]
      BY <1>6, RenameSteps
    <2>2. ASSUME NEW q, req'[c] = q, q.at \in {"idle", "refresh_term"}, q.rows = {}
          PROVE  RenamesDisjoint'
      BY <1>4, <2>1, <2>2 DEF HoldsTerm
    <2>3. CASE Answer(c, "500")
      <3>1. req'[c] = Idle /\ Idle.at = "idle" /\ Idle.rows = {}
        BY <2>0, <2>3 DEF Answer, Idle
      <3>2. QED
        BY <1>1, <2>2, <3>1
    <2>4. CASE Goto(c, [Idle EXCEPT !.at = "refresh_term", !.kind = req[c].kind,
                                    !.tid = req[c].tid])
      <3> DEFINE q == [Idle EXCEPT !.at = "refresh_term", !.kind = req[c].kind,
                                   !.tid = req[c].tid]
      <3>1. req'[c] = q /\ q.at = "refresh_term" /\ q.rows = {}
        BY <2>0, <2>4 DEF Goto, Idle
      <3>2. QED
        BY <1>1, <2>2, <3>1
    <2>5. CASE Onward(c, req'[c])
      <3>1. /\ req'[c].kind = req[c].kind /\ req'[c].tid = req[c].tid /\ req'[c].new = req[c].new
            /\ HoldsTerm(c) \/ ~TermLocked(c, req[c].kind, req[c].tid)
            /\ HoldsTerm(c) \/ req[c].tid \in LiveTerms(req[c].kind)
            /\ HoldsKey(c)' => \/ HoldsKey(c)
                              \/ /\ ~NameLocked(c, req[c].kind, req[c].new)
                                 /\ ~NameTaken(req[c].kind, req[c].new, req[c].tid)
        BY <2>5 DEF Onward, HoldsTerm, HoldsKey
      <3>2. ASSUME NEW d \in Clients \ {c}
            PROVE  req'[c].rows \cap req[d].rows = {}
        <4>1. req[c].rows \cap req[d].rows = {}
          BY DEF RenamesDisjoint
        <4>2. \A r \in RecipeIds : ~RecipeLocked(c, r) => r \notin req[d].rows
          BY DEF RecipeLocked
        <4>3. QED
          BY <2>5, <4>1, <4>2 DEF Onward
      <3>3. ASSUME NEW d \in Clients \ {c}, req'[c].kind = req[d].kind, HoldsTerm(d)
            PROVE  req'[c].tid # req[d].tid
        BY <3>1, <3>3 DEF RenamesDisjoint, TermLocked
      <3>4. ASSUME NEW d \in Clients \ {c}, req'[c].kind = req[d].kind, HoldsKey(d),
                   HoldsKey(c)'
            PROVE  req'[c].new # req[d].new
        <4>1. req[d].kind = req[c].kind
          BY <3>1, <3>4
        <4>2. req[d].new \in AllInputs
          <5>1. req[d].new \in Names(req[d].kind) /\ req[d].kind \in Kinds
            BY <3>4 DEF HoldsKey, Typed, TypeOK, Locals, Request
          <5>2. QED
            BY <5>1, NamesAreInputs
        <4>3. CASE HoldsKey(c)
          BY <3>1, <3>4, <4>1, <4>3 DEF RenamesDisjoint
        <4>4. CASE ~NameLocked(c, req[c].kind, req[c].new)
          BY <3>1, <3>4, <4>1, <4>2, <4>4 DEF NameLocked, NamesHeld
        <4>5. QED
          BY <3>1, <3>4, <4>3, <4>4
      <3>5. ASSUME NEW d \in Clients, NEW j, NEW u, NEW m,
                   j = req'[d].kind, u = req'[d].tid, m = req'[d].new
            PROVE  /\ HoldsTerm(d)' => u \in LiveTerms(j)'
                   /\ HoldsKey(d)' => ~NameTaken(j, m, u)'
        <4>1. CASE d = c
          BY <1>2, <3>1, <3>5, <4>1 DEF RenamesDisjoint
        <4>2. CASE d # c
          BY <1>3, <2>1, <3>5, <4>2 DEF HoldsTerm, HoldsKey
        <4>3. QED
          BY <4>1, <4>2
      <3>6. ASSUME NEW d \in Clients \ {c}
            PROVE  /\ req'[c].rows \cap req[d].rows = {}
                   /\ req'[c].kind = req[d].kind =>
                        /\ HoldsTerm(c)' /\ HoldsTerm(d) => req'[c].tid # req[d].tid
                        /\ HoldsKey(c)' /\ HoldsKey(d) => req'[c].new # req[d].new
        BY <3>2, <3>3, <3>4
      <3>7. \A d \in Clients : \A j, u, m :
              j = req'[d].kind /\ u = req'[d].tid /\ m = req'[d].new =>
                 /\ HoldsTerm(d)' => u \in LiveTerms(j)'
                 /\ HoldsKey(d)' => ~NameTaken(j, m, u)'
        BY <3>5
      <3>8. QED
        BY <1>1, <2>1, <3>6, <3>7, DisjointMove
    <2>6. QED
      BY <1>1, <1>6, <2>3, <2>4, <2>5, RenameSteps
  <1>7. QED
    BY <1>5, <1>6

\* A name given to one term of a kind: a fresh one or one that is renamed.
LEMMA NamesAfterWrite ==
    ASSUME Typed, UniqueNames, NEW k \in Kinds, NEW t \in TermIds, NEW n,
           vocab' = [vocab EXCEPT ![k][t] = n], ~NameTaken(k, n, t) \/ n = Deleted
    PROVE  UniqueNames'
  <1>1. \A j \in Kinds, u \in TermIds :
           vocab'[j][u] = IF j = k /\ u = t THEN n ELSE vocab[j][u]
    BY DEF Typed, TypeOK, TablesOK
  <1>2. QED
    BY <1>1 DEF UniqueNames, NameTaken, LiveTerms

LEMMA UniqueNamesStep ==
    Typed /\ UniqueNames /\ RenamesDisjoint /\ [Next]_vars => UniqueNames' /\ RenamesDisjoint'
  <1> SUFFICES ASSUME Typed, UniqueNames, RenamesDisjoint, [Next]_vars
               PROVE  UniqueNames' /\ RenamesDisjoint'
    OBVIOUS
  <1>0. /\ req \in [Clients -> Request]
        /\ vocab \in [Kinds -> [TermIds -> AllInputs \cup {Unborn, Deleted}]]
    BY DEF Typed, TypeOK, TablesOK
  <1>1. ASSUME NEW c \in Clients, NEW k \in Kinds, NEW n \in Inputs[k], CreateTerm(c, k, n)
        PROVE  UniqueNames' /\ RenamesDisjoint'
    <2>1. CASE UNCHANGED vocab
      BY <1>1, <2>1, DisjointNoWrite
         DEF Arrival, CategoryArrival, CuisineArrival, TermArrival, Kinds
    <2>2. CASE /\ ~NameTaken(k, Strip[n], Null)
               /\ \E t \in TermIds : /\ vocab[k][t] = Unborn
                                     /\ vocab' = [vocab EXCEPT ![k][t] = Strip[n]]
      <3>1. PICK t \in TermIds : /\ vocab[k][t] = Unborn
                                 /\ vocab' = [vocab EXCEPT ![k][t] = Strip[n]]
        BY <2>2
      <3>2. ~NameTaken(k, Strip[n], t)
        BY <2>2, RowsAssumption DEF NameTaken, LiveTerms
      <3>3. Strip[n] \in Names(k) /\ Strip[n] \notin {Null, Unborn, Deleted}
        BY NamesAreInputs DEF Names
      <3>4. \A j \in Kinds, u \in TermIds :
               vocab'[j][u] = IF j = k /\ u = t THEN Strip[n] ELSE vocab[j][u]
        BY <1>0, <3>1
      <3>5. Arrival(c) /\ ~Renames(c)
        BY <1>1, RenameSteps
           DEF Arrival, CategoryArrival, CuisineArrival, TermArrival, Kinds, CreateTerm
      <3>6. /\ ~HoldsTerm(c)' /\ req'[c].rows \subseteq req[c].rows
            /\ \A d \in Clients \ {c} : req'[d] = req[d]
        BY <3>5, NotRenaming
      <3>7. ASSUME NEW d \in Clients \ {c}, NEW j, NEW u, NEW m,
                   j = req[d].kind, u = req[d].tid, m = req[d].new
            PROVE  /\ HoldsTerm(d) => u \in LiveTerms(j)'
                   /\ HoldsKey(d) => ~NameTaken(j, m, u)'
        <4>1. HoldsKey(d) /\ req[d].kind = k => req[d].new # Strip[n]
          BY <1>1, <3>3, NamesAreInputs DEF CreateTerm, NameLocked, NamesHeld
        <4>2. req[d].kind \in Kinds
          BY <1>0 DEF Request
        <4>3. /\ HoldsTerm(d) => req[d].tid \in LiveTerms(req[d].kind)
              /\ HoldsKey(d) => ~NameTaken(req[d].kind, req[d].new, req[d].tid)
          BY DEF RenamesDisjoint
        <4>4. QED
          BY <3>1, <3>3, <3>4, <3>7, <4>1, <4>2, <4>3 DEF LiveTerms, NameTaken
      <3>8. RenamesDisjoint'
        BY <3>6, <3>7, OthersUndisturbed
      <3>9. QED
        BY <3>1, <3>2, <3>8, NamesAfterWrite
    <2>3. QED
      BY <1>1, <2>1, <2>2 DEF CreateTerm
  <1>2. ASSUME NEW c \in Clients, CommitRename(c)
        PROVE  UniqueNames' /\ RenamesDisjoint'
    <2> DEFINE k == req[c].kind
               t == req[c].tid
               n == req[c].new
    <2>1. k \in Kinds /\ t \in TermIds /\ n \in Names(k)
      BY <1>0, <1>2 DEF CommitRename, Typed, Locals, Request
    <2>2. /\ req[c].at = "rename_commit"
          /\ vocab' = [vocab EXCEPT ![k][t] = n]
      BY <1>2 DEF CommitRename
    <2>3. /\ t \in LiveTerms(k)
          /\ ~NameTaken(k, n, t)
          /\ \A d \in Clients \ {c} : req[d].kind = k =>
               (HoldsTerm(d) => req[d].tid # t) /\ (HoldsKey(d) => req[d].new # n)
      BY <2>2 DEF RenamesDisjoint, HoldsTerm, HoldsKey
    <2>4. \A j \in Kinds, u \in TermIds :
             vocab'[j][u] = IF j = k /\ u = t THEN n ELSE vocab[j][u]
      BY <1>0, <2>1, <2>2
    <2>5. /\ ~HoldsTerm(c)' /\ req'[c].rows \subseteq req[c].rows
          /\ \A d \in Clients \ {c} : req'[d] = req[d]
      <3>1. ~Renames(c)
        BY <2>2, RenameSteps
      <3>2. QED
        BY <1>2, <3>1, NotRenaming DEF Continue
    <2>6. n \notin {Null, Unborn, Deleted}
      BY <2>1, NamesAreInputs
    <2>7. ASSUME NEW d \in Clients \ {c}, NEW j, NEW u, NEW m,
                 j = req[d].kind, u = req[d].tid, m = req[d].new
          PROVE  /\ HoldsTerm(d) => u \in LiveTerms(j)'
                 /\ HoldsKey(d) => ~NameTaken(j, m, u)'
      <3>1. HoldsKey(d) /\ req[d].kind = k => req[d].new # n
        BY <2>3
      <3>2. req[d].kind \in Kinds
        BY <1>0 DEF Request
      <3>3. /\ HoldsTerm(d) => req[d].tid \in LiveTerms(req[d].kind)
            /\ HoldsKey(d) => ~NameTaken(req[d].kind, req[d].new, req[d].tid)
        BY DEF RenamesDisjoint
      <3>4. QED
        BY <2>3, <2>4, <2>6, <2>7, <3>1, <3>2, <3>3 DEF LiveTerms, NameTaken
    <2>8. RenamesDisjoint'
      BY <2>5, <2>7, OthersUndisturbed
    <2>9. QED
      BY <2>1, <2>2, <2>3, <2>8, NamesAfterWrite
  <1>3. ASSUME NEW c \in Clients, DropTerm(c)
        PROVE  UniqueNames' /\ RenamesDisjoint'
    <2> DEFINE k == req[c].kind
               t == req[c].tid
    <2>1. k \in Kinds /\ t \in TermIds
      BY <1>0, <1>3 DEF DropTerm, Typed, Locals, Request
    <2>2. vocab' = [vocab EXCEPT ![k][t] = Deleted] /\ ~TermLocked(c, k, t)
      BY <1>3 DEF DropTerm
    <2>3. \A j \in Kinds, u \in TermIds :
             vocab'[j][u] = IF j = k /\ u = t THEN Deleted ELSE vocab[j][u]
      BY <1>0, <2>1, <2>2
    <2>4. /\ ~HoldsTerm(c)' /\ req'[c].rows \subseteq req[c].rows
          /\ \A d \in Clients \ {c} : req'[d] = req[d]
      <3>1. ~Renames(c)
        BY <1>3, RenameSteps DEF DropTerm
      <3>2. QED
        BY <1>3, <3>1, NotRenaming DEF Continue
    <2>5. ASSUME NEW d \in Clients \ {c}, NEW j, NEW u, NEW m,
                 j = req[d].kind, u = req[d].tid, m = req[d].new
          PROVE  /\ HoldsTerm(d) => u \in LiveTerms(j)'
                 /\ HoldsKey(d) => ~NameTaken(j, m, u)'
      <3>1. req[d].kind \in Kinds /\ (HoldsTerm(d) => ~(req[d].kind = k /\ req[d].tid = t))
        BY <1>0, <2>2 DEF Request, TermLocked
      <3>2. /\ HoldsTerm(d) => req[d].tid \in LiveTerms(req[d].kind)
            /\ HoldsKey(d) => ~NameTaken(req[d].kind, req[d].new, req[d].tid)
        BY DEF RenamesDisjoint
      <3>3. QED
        BY <2>3, <2>5, <3>1, <3>2 DEF LiveTerms, NameTaken
    <2>6. RenamesDisjoint'
      BY <2>4, <2>5, OthersUndisturbed
    <2>7. QED
      BY <2>1, <2>2, <2>6, NamesAfterWrite
  <1>4. ASSUME NEW c \in Clients, Arrival(c) \/ Continue(c),
               \A k \in Kinds : \A n \in Inputs[k] : ~CreateTerm(c, k, n),
               ~CommitRename(c), ~DropTerm(c)
        PROVE  UniqueNames' /\ RenamesDisjoint'
    <2>1. UNCHANGED vocab
      BY <1>4, RenameSteps DEF Renames, Arrival, Continue, RecipeArrival, CategoryArrival, CuisineArrival,
                  TermArrival, CreateRecipe, UpdateRecipe, DeleteRecipe, UpdateTerm,
                  DeleteTerm, UpdateCheckCategory, CheckCuisine, CommitCreate, CommitUpdate,
                  RefreshRecipe, CommitDelete, RefreshTerm, CountUses, Kinds
    <2>2. QED
      BY <1>4, <2>1, DisjointNoWrite
  <1>5. CASE UNCHANGED vars
    BY <1>5 DEF vars, UniqueNames, RenamesDisjoint, LiveTerms, NameTaken, HoldsTerm, HoldsKey
  <1>6. QED
    BY <1>1, <1>2, <1>3, <1>4, <1>5 DEF Next

\* However creates, renames and deletions race, no two categories and no two
\* cuisines get the same name, and two renames in flight never meet.
THEOREM RecipesUniqueNames == Spec => [](UniqueNames /\ RenamesDisjoint)
  <1>1. Init => UniqueNames /\ RenamesDisjoint
    BY DEF Init, CookbookInit, UniqueNames, RenamesDisjoint, LiveTerms, Idle, HoldsTerm, HoldsKey
  <1>2. QED
    BY <1>1, TypedInit, TypedStep, UniqueNamesStep, PTL DEF Spec

\* Keys stay unique and renames apart, for any number of requests.
THEOREM RecipesUniqueKeys == Spec => []UniqueKeys
  <1>1. UniqueSlugs /\ UniqueNames /\ RenamesDisjoint => UniqueKeys
    BY DEF UniqueKeys
  <1>2. QED
    BY <1>1, RecipesUniqueSlugs, RecipesUniqueNames, PTL

------------------------------------------------------------------------------
(* Requests side by side *)

\* What a request relies on while others run beside it, apart from those that
\* Apart excludes: a name it has checked is still there, and a term it is about
\* to rename or delete still has the name it had and the recipes it had.
Held(q) ==
    /\ q.at \in {"create_cuisine", "create_commit"} => recipes[q.rid] = Unborn
    /\ q.at \in {"create_cuisine", "create_commit", "update_cuisine", "update_commit"} =>
         NameIsValid("category", q.pay.category)
    /\ q.at \in {"create_commit", "update_commit"} => NameIsValid("cuisine", q.pay.cuisine)
    /\ q.at = "delete_commit" => recipes[q.rid] # Unborn
    /\ q.at \in {"rename", "rename_key", "rename_rows", "cascade", "rename_commit", "count",
                 "drop"} =>
         q.tid \in LiveTerms(q.kind) /\ q.old = vocab[q.kind][q.tid]
    /\ q.at \in {"rename", "rename_key", "rename_rows"} => q.rows = {}
    /\ q.at \in {"cascade", "rename_commit"} =>
         /\ q.rows \subseteq Carrying(q.kind, q.old)
         /\ Carrying(q.kind, q.old) \subseteq q.rows \cup q.todo
    /\ q.at = "rename_commit" => q.todo = {}
    /\ q.at = "drop" => Carrying(q.kind, q.old) = {}

\* The key of a recipe that is being created is nobody else's.
Creates(c) == req[c].at \in {"create_cuisine", "create_commit"}
OwnKeys == \A c, d \in Clients : c # d /\ Creates(c) => req[d].rid # req[c].rid

ApartInv ==
    /\ Typed /\ UniqueSlugs /\ UniqueNames /\ RenamesDisjoint /\ RecipeNamesExist
    /\ Apart /\ OwnKeys
    /\ \A c \in Clients : Held(req[c])

\* Where a request takes its key from: a fresh one, the one it had, or a row's.
Keyed(c) ==
    \/ Creates(c)' /\ Fresh(req'[c].rid)
    \/ Creates(c)' /\ Creates(c) /\ req'[c].rid = req[c].rid
    \/ ~Creates(c)' /\ req'[c].rid \in {Null, req[c].rid} \cup LiveRecipes

LEMMA OnlyOneMoves ==
    ASSUME Typed, NEW c \in Clients, Arrival(c) \/ Continue(c)
    PROVE  \A d \in Clients \ {c} : req'[d] = req[d]
  <1>1. CASE Renames(c)
    BY <1>1, RenameSteps
  <1>2. QED
    BY <1>1, NotRenaming

\* Keys stay apart.
LEMMA KeysStep ==
    ASSUME Typed, OwnKeys, \A d \in Clients : Held(req[d]), NEW c \in Clients, Keyed(c),
           \A d \in Clients \ {c} : req'[d] = req[d]
    PROVE  OwnKeys'
  <1>1. \A d \in Clients : Creates(d) =>
           recipes[req[d].rid] = Unborn /\ req[d].rid \in RecipeIds
    BY DEF Creates, Held, Typed, Locals
  <1>2. Null \notin RecipeIds
    BY RowsAssumption
  <1>3. ASSUME NEW d \in Clients, NEW e \in Clients, d # e, Creates(d)'
        PROVE  req'[e].rid # req'[d].rid
    <2>1. CASE d # c /\ e # c
      BY <1>3, <2>1 DEF OwnKeys, Creates
    <2>2. CASE d = c
      BY <1>3, <2>2 DEF OwnKeys, Creates, Keyed, Fresh
    <2>3. CASE e = c
      <3>1. Creates(d) /\ req'[d] = req[d]
        BY <1>3, <2>3 DEF Creates
      <3>2. CASE Creates(c)' /\ Fresh(req'[c].rid)
        BY <2>3, <3>1, <3>2 DEF Fresh
      <3>3. CASE req'[c].rid = req[c].rid
        BY <1>3, <2>3, <3>1, <3>3 DEF OwnKeys
      <3>4. CASE req'[c].rid \in {Null} \cup LiveRecipes
        BY <1>1, <1>2, <2>3, <3>1, <3>4 DEF LiveRecipes
      <3>5. QED
        BY <3>2, <3>3, <3>4 DEF Keyed
    <2>4. QED
      BY <2>1, <2>2, <2>3
  <1>4. QED
    BY <1>3 DEF OwnKeys

\* A request that has answered, or only has its row to refresh, relies on nothing.
LEMMA DoneHeld ==
    ASSUME Typed, NEW c \in Clients,
           \/ \E status : Answer(c, status)
           \/ \E k, t : Goto(c, [Idle EXCEPT !.at = "refresh_term", !.kind = k, !.tid = t])
           \/ Goto(c, [Idle EXCEPT !.at = "refresh_recipe", !.rid = req[c].rid])
    PROVE  Held(req[c])' /\ Keyed(c)
  <1>1. req \in [Clients -> Request]
    BY DEF Typed, TypeOK
  <1>2. ASSUME req'[c].at \in {"idle", "refresh_term", "refresh_recipe"},
               req'[c].rid \in {Null, req[c].rid}
        PROVE  Held(req[c])' /\ Keyed(c)
    BY <1>2 DEF Held, Keyed, Creates
  <1>3. CASE \E status : Answer(c, status)
    <2>1. PICK status : Answer(c, status)
      BY <1>3
    <2>2. req'[c] = Idle
      BY <1>1, <2>1 DEF Answer
    <2>3. Idle.at = "idle" /\ Idle.rid = Null
      BY DEF Idle
    <2>4. QED
      BY <1>2, <2>2, <2>3
  <1>4. ASSUME NEW k, NEW t, Goto(c, [Idle EXCEPT !.at = "refresh_term", !.kind = k, !.tid = t])
        PROVE  Held(req[c])' /\ Keyed(c)
    <2>1. req'[c].at = "refresh_term" /\ req'[c].rid = Null
      BY <1>1, <1>4 DEF Goto, Idle
    <2>2. QED
      BY <1>2, <2>1
  <1>5. CASE Goto(c, [Idle EXCEPT !.at = "refresh_recipe", !.rid = req[c].rid])
    <2>1. req'[c].at = "refresh_recipe" /\ req'[c].rid = req[c].rid
      BY <1>1, <1>5 DEF Goto, Idle
    <2>2. QED
      BY <1>2, <2>1
  <1>6. QED
    BY <1>3, <1>4, <1>5

\* Arrivals that change no table.
LEMMA ArrivalHeld ==
    ASSUME Typed, NEW c \in Clients, UNCHANGED <<recipes, vocab>>,
           RecipeArrival(c) \/ \E k \in Kinds : TermArrival(c, k)
    PROVE  Held(req[c])' /\ Keyed(c)
  <1>0. req \in [Clients -> Request]
    BY DEF Typed, TypeOK
  <1>1. ASSUME NEW status, Answer(c, status)
        PROVE  Held(req[c])' /\ Keyed(c)
    BY <1>1, DoneHeld
  <1>2. ASSUME NEW p \in Recipe, CreateRecipe(c, p)
        PROVE  Held(req[c])' /\ Keyed(c)
    <2>1. ASSUME NEW r \in RecipeIds, Fresh(r), NameIsValid("category", p.category),
                 Goto(c, [Idle EXCEPT !.at = "create_cuisine", !.pay = p, !.rid = r])
          PROVE  Held(req[c])' /\ Keyed(c)
      <3>1. req'[c].at = "create_cuisine" /\ req'[c].pay = p /\ req'[c].rid = r
        BY <1>0, <2>1 DEF Goto, Idle
      <3>2. Keyed(c)
        BY <2>1, <3>1 DEF Keyed, Creates
      <3>3. Held(req[c])'
        BY <2>1, <3>1 DEF Held, Fresh, NameIsValid, TermNames, LiveTerms
      <3>4. QED
        BY <3>2, <3>3
    <2>2. QED
      BY <1>1, <1>2, <2>1 DEF CreateRecipe
  <1>3. ASSUME NEW s \in Slugs, NEW p \in Recipe, UpdateRecipe(c, s, p)
        PROVE  Held(req[c])' /\ Keyed(c)
    <2>1. ASSUME NEW r \in LiveRecipes,
                 Goto(c, [Idle EXCEPT !.at = "update_category", !.pay = p, !.rid = r,
                                      !.seen = recipes[r]])
          PROVE  Held(req[c])' /\ Keyed(c)
      <3>1. req'[c].at = "update_category" /\ req'[c].rid = r
        BY <1>0, <2>1 DEF Goto, Idle
      <3>2. QED
        BY <3>1 DEF Held, Keyed, Creates
    <2>2. QED
      BY <1>1, <1>3, <2>1 DEF UpdateRecipe
  <1>4. ASSUME NEW s \in Slugs, DeleteRecipe(c, s)
        PROVE  Held(req[c])' /\ Keyed(c)
    <2>1. ASSUME NEW r \in LiveRecipes,
                 Goto(c, [Idle EXCEPT !.at = "delete_commit", !.rid = r])
          PROVE  Held(req[c])' /\ Keyed(c)
      <3>1. req'[c].at = "delete_commit" /\ req'[c].rid = r
        BY <1>0, <2>1 DEF Goto, Idle
      <3>2. QED
        BY <3>1 DEF Held, Keyed, Creates, LiveRecipes
    <2>2. QED
      BY <1>1, <1>4, <2>1 DEF DeleteRecipe
  <1>5. ASSUME NEW k \in Kinds, NEW n \in Inputs[k], CreateTerm(c, k, n)
        PROVE  Held(req[c])' /\ Keyed(c)
    BY <1>1, <1>5, DoneHeld DEF CreateTerm
  <1>6. ASSUME NEW k \in Kinds, NEW t \in LiveTerms(k), NEW q,
               q.at \in {"rename", "count"}, q.kind = k, q.tid = t, q.old = vocab[k][t],
               q.rid = Null, q.rows = {}, Goto(c, q)
        PROVE  Held(req[c])' /\ Keyed(c)
    <2>1. req'[c] = q
      BY <1>0, <1>6 DEF Goto
    <2>2. QED
      BY <1>6, <2>1 DEF Held, Keyed, Creates, LiveTerms
  <1>7. ASSUME NEW k \in Kinds, NEW t \in TermIds, NEW n \in Inputs[k], UpdateTerm(c, k, t, n)
        PROVE  Held(req[c])' /\ Keyed(c)
    <2> DEFINE q == [Idle EXCEPT !.at = "rename", !.kind = k, !.tid = t,
                                 !.old = vocab[k][t], !.new = Strip[n]]
    <2>1. /\ q.at = "rename" /\ q.kind = k /\ q.tid = t /\ q.old = vocab[k][t] /\ q.rid = Null
          /\ q.rows = {}
      BY DEF Idle
    <2> HIDE DEF q
    <2>2. Answer(c, "404") \/ (t \in LiveTerms(k) /\ Goto(c, q))
      BY <1>7 DEF UpdateTerm, q
    <2>3. QED
      BY <1>1, <1>6, <2>1, <2>2
  <1>8. ASSUME NEW k \in Kinds, NEW t \in TermIds, DeleteTerm(c, k, t)
        PROVE  Held(req[c])' /\ Keyed(c)
    <2> DEFINE q == [Idle EXCEPT !.at = "count", !.kind = k, !.tid = t, !.old = vocab[k][t]]
    <2>1. /\ q.at = "count" /\ q.kind = k /\ q.tid = t /\ q.old = vocab[k][t] /\ q.rid = Null
          /\ q.rows = {}
      BY DEF Idle
    <2> HIDE DEF q
    <2>2. Answer(c, "404") \/ (t \in LiveTerms(k) /\ Goto(c, q))
      BY <1>8 DEF DeleteTerm, q
    <2>3. QED
      BY <1>1, <1>6, <2>1, <2>2
  <1>9. QED
    BY <1>2, <1>3, <1>4, <1>5, <1>7, <1>8 DEF RecipeArrival, TermArrival

\* A check that passes, and a refresh.
LEMMA CheckHeld ==
    ASSUME Typed, NEW c \in Clients, UNCHANGED <<recipes, vocab>>, Held(req[c]),
           \/ UpdateCheckCategory(c) \/ CheckCuisine(c) \/ CountUses(c)
           \/ RefreshRecipe(c) \/ RefreshTerm(c) \/ Renames(c)
    PROVE  Held(req[c])' /\ Keyed(c)
  <1>0. req \in [Clients -> Request] /\ req[c] \in Request
    BY DEF Typed, TypeOK
  <1>1. ASSUME NEW status, Answer(c, status)
        PROVE  Held(req[c])' /\ Keyed(c)
    BY <1>1, DoneHeld
  <1>2. /\ \A k, n : NameIsValid(k, n)' = NameIsValid(k, n)
        /\ \A k : LiveTerms(k)' = LiveTerms(k)
        /\ \A k, n : Carrying(k, n)' = Carrying(k, n)
    BY DEF NameIsValid, TermNames, LiveTerms, Carrying, LiveRecipes
  <1>3. ASSUME NEW point \in {"update_cuisine", "create_commit", "update_commit", "drop"},
               Goto(c, [req[c] EXCEPT !.at = point])
        PROVE  /\ req'[c].at = point
               /\ req'[c].pay = req[c].pay /\ req'[c].rid = req[c].rid
               /\ req'[c].kind = req[c].kind
               /\ req'[c].tid = req[c].tid /\ req'[c].old = req[c].old
    <2>1. req'[c] = [req[c] EXCEPT !.at = point]
      BY <1>0, <1>3 DEF Goto
    <2>2. QED
      BY <1>0, <2>1 DEF Request
  <1>4. CASE UpdateCheckCategory(c)
    <2>1. CASE /\ req[c].at = "update_category" /\ NameIsValid("category", req[c].pay.category)
               /\ Goto(c, [req[c] EXCEPT !.at = "update_cuisine"])
      BY <1>2, <1>3, <2>1 DEF Held, Keyed, Creates
    <2>2. QED
      BY <1>1, <1>4, <2>1 DEF UpdateCheckCategory
  <1>5. CASE CheckCuisine(c)
    <2>1. CASE /\ req[c].at = "create_cuisine" /\ NameIsValid("cuisine", req[c].pay.cuisine)
               /\ Goto(c, [req[c] EXCEPT !.at = "create_commit"])
      BY <1>2, <1>3, <2>1 DEF Held, Keyed, Creates
    <2>2. CASE /\ req[c].at = "update_cuisine" /\ NameIsValid("cuisine", req[c].pay.cuisine)
               /\ Goto(c, [req[c] EXCEPT !.at = "update_commit"])
      BY <1>2, <1>3, <2>2 DEF Held, Keyed, Creates
    <2>3. QED
      BY <1>1, <1>5, <2>1, <2>2 DEF CheckCuisine
  <1>6. CASE CountUses(c)
    <2>1. CASE /\ req[c].at = "count" /\ Carrying(req[c].kind, req[c].old) = {}
               /\ Goto(c, [req[c] EXCEPT !.at = "drop"])
      BY <1>2, <1>3, <2>1 DEF Held, Keyed, Creates
    <2>2. QED
      BY <1>1, <1>6, <2>1 DEF CountUses
  <1>7. CASE RefreshRecipe(c) \/ RefreshTerm(c)
    BY <1>1, <1>7 DEF RefreshRecipe, RefreshTerm
  <1>8. CASE Renames(c)
    <2>1. ASSUME NEW q, q = req'[c], Onward(c, q)
          PROVE  Held(q)' /\ Keyed(c)
      <3>1. /\ q.at \in {"rename_key", "rename_rows", "cascade", "rename_commit"}
            /\ q.rid = req[c].rid /\ q.kind = req[c].kind /\ q.tid = req[c].tid
            /\ q.old = req[c].old
        BY <2>1 DEF Onward, CascadeAt
      <3>2. /\ q.tid \in LiveTerms(q.kind) /\ q.old = vocab[q.kind][q.tid]
            /\ q.at \in {"rename_key", "rename_rows"} => q.rows = {}
            /\ q.at = "rename_commit" => q.todo = {}
        BY <2>1, <3>1 DEF Onward, CascadeAt, Held
      <3>3. CASE q.at \in {"cascade", "rename_commit"}
        <4>0. SUFFICES /\ q.rows \subseteq Carrying(q.kind, q.old)
                       /\ Carrying(q.kind, q.old) \subseteq q.rows \cup q.todo
          BY <1>2, <2>1, <3>1, <3>2, <3>3 DEF Held, Keyed, Creates
        <4>1. CASE /\ req[c].at = "rename_rows"
                   /\ q.rows = req[c].rows /\ q.todo = Carrying(req[c].kind, req[c].old)
          <5>1. req[c].rows = {}
            BY <4>1 DEF Held
          <5>2. QED
            BY <3>1, <4>1, <5>1
        <4>2. CASE /\ req[c].at = "cascade"
                   /\ \E r \in RecipeIds :
                        /\ q.rows = req[c].rows \cup ({r} \cap Carrying(req[c].kind, req[c].old))
                        /\ q.todo = req[c].todo \ {r}
          <5>1. PICK r \in RecipeIds :
                  /\ q.rows = req[c].rows \cup ({r} \cap Carrying(q.kind, q.old))
                  /\ q.todo = req[c].todo \ {r}
            BY <3>1, <4>2
          <5>2. /\ req[c].rows \subseteq Carrying(q.kind, q.old)
                /\ Carrying(q.kind, q.old) \subseteq req[c].rows \cup req[c].todo
            BY <3>1, <4>2 DEF Held
          <5>3. QED
            BY <5>1, <5>2
        <4>3. q.at # "rename_key" /\ q.at # "rename_rows"
          BY <3>3
        <4>4. QED
          BY <2>1, <4>1, <4>2, <4>3 DEF Onward
      <3>4. CASE q.at \in {"rename_key", "rename_rows"}
        BY <1>2, <2>1, <3>1, <3>2, <3>4 DEF Held, Keyed, Creates
      <3>5. QED
        BY <3>1, <3>3, <3>4
    <2>2. CASE Onward(c, req'[c])
      BY <2>1, <2>2 DEF Held
    <2>3. QED
      BY <1>8, <2>2, RenameSteps, DoneHeld
  <1>9. QED
    BY <1>4, <1>5, <1>6, <1>7, <1>8

\* A commit writes what a step of the promised cookbook writes, because the
\* names the request has checked are still there.
LEMMA RecipeCommitsKept ==
    ASSUME ApartInv, NEW c \in Clients, CommitCreate(c) \/ CommitUpdate(c) \/ CommitDelete(c)
    PROVE  Held(req[c])' /\ Keyed(c) /\ [CookbookNext]_<<recipes, vocab>>
  <1> DEFINE r == req[c].rid
             p == req[c].pay
             s == req[c].seen
  <1>0. recipes \in [RecipeIds -> Recipe \cup {Unborn, Deleted}] /\ Held(req[c])
    BY DEF ApartInv, Typed, TypeOK, TablesOK
  <1>1. Held(req[c])' /\ Keyed(c)
    BY DoneHeld DEF ApartInv, CommitCreate, CommitUpdate, CommitDelete
  <1>2. CASE CommitCreate(c)
    <2>1. r \in RecipeIds /\ p \in Recipe /\ recipes[r] = Unborn
      BY <1>0, <1>2 DEF CommitCreate, ApartInv, Typed, Locals, Held
    <2>2. ValidRow(p)
      BY <1>0, <1>2 DEF CommitCreate, Held, ValidRow, NameIsValid, Kinds
    <2>3. CASE ~SlugTaken(p.slug, Null) /\ recipes' = [recipes EXCEPT ![r] = p]
      <3>1. ~SlugTaken(p.slug, r)
        BY <2>3, RowsAssumption DEF SlugTaken, LiveRecipes
      <3>2. WriteRecipe(r, p)
        BY <1>2, <2>1, <2>2, <2>3, <3>1, RowsAssumption DEF WriteRecipe, CommitCreate
      <3>3. QED
        BY <1>1, <2>1, <3>2 DEF CookbookNext
    <2>4. QED
      BY <1>1, <1>2, <2>3 DEF CommitCreate
  <1>3. CASE CommitUpdate(c)
    <2>1. r \in RecipeIds /\ p \in Recipe /\ s \in Recipe
      BY <1>3 DEF CommitUpdate, ApartInv, Typed, Locals
    <2>2. CASE /\ r \in LiveRecipes
               /\ ~(p.slug # s.slug /\ SlugTaken(p.slug, r))
               /\ recipes' = [recipes EXCEPT ![r] = ChangedColumns(@, s, p)]
      <3> DEFINE row == ChangedColumns(recipes[r], s, p)
      <3>1. recipes[r] \in Recipe
        BY <1>0, <2>2 DEF LiveRecipes
      <3>2. /\ row \in Recipe /\ row.slug \in {recipes[r].slug, p.slug}
            /\ p.slug = s.slug => row.slug = recipes[r].slug
            /\ \A k \in Kinds : row[k] \in {recipes[r][k], p[k]}
        BY <2>1, <3>1, ChangedColumnsIsRow
      <3> HIDE DEF row
      <3>3. ~SlugTaken(recipes[r].slug, r)
        BY <2>2 DEF SlugTaken, ApartInv, UniqueSlugs
      <3>4. ~SlugTaken(row.slug, r)
        BY <2>2, <3>2, <3>3
      <3>5. \A k \in Kinds : recipes[r][k] \in TermNames(k) \cup {Null}
        BY <2>2 DEF ApartInv, RecipeNamesExist
      <3>6. \A k \in Kinds : p[k] \in TermNames(k) \cup {Null}
        BY <1>0, <1>3 DEF CommitUpdate, Held, NameIsValid, Kinds
      <3>7. ValidRow(row)
        BY <3>2, <3>5, <3>6 DEF ValidRow
      <3>8. recipes' = [recipes EXCEPT ![r] = row]
        BY <1>0, <2>1, <2>2 DEF row
      <3>9. WriteRecipe(r, row)
        BY <1>3, <2>2, <3>4, <3>7, <3>8 DEF WriteRecipe, CommitUpdate, LiveRecipes
      <3>10. QED
        BY <1>1, <2>1, <3>2, <3>9 DEF CookbookNext
    <2>3. QED
      BY <1>1, <1>3, <2>2 DEF CommitUpdate
  <1>4. CASE CommitDelete(c)
    <2>1. r \in RecipeIds /\ recipes[r] # Unborn /\ recipes' = [recipes EXCEPT ![r] = Deleted]
          /\ UNCHANGED vocab
      BY <1>0, <1>4 DEF CommitDelete, ApartInv, Typed, Locals, Held
    <2>2. CASE recipes[r] = Deleted
      BY <1>0, <1>1, <2>1, <2>2
    <2>3. CASE recipes[r] # Deleted
      <3>1. RemoveRecipe(r)
        BY <2>1, <2>3 DEF RemoveRecipe, LiveRecipes
      <3>2. QED
        BY <1>1, <2>1, <3>1 DEF CookbookNext
    <2>4. QED
      BY <2>2, <2>3
  <1>5. QED
    BY <1>2, <1>3, <1>4

\* So does the commit of a rename or of a deletion: its term and its recipes are
\* those it found.
LEMMA TermCommitsKept ==
    ASSUME ApartInv, NEW c \in Clients, CommitRename(c) \/ DropTerm(c)
    PROVE  Held(req[c])' /\ Keyed(c) /\ [CookbookNext]_<<recipes, vocab>>
  <1> DEFINE k == req[c].kind
             t == req[c].tid
             n == req[c].new
  <1>0. req \in [Clients -> Request] /\ Held(req[c])
    BY DEF ApartInv, Typed, TypeOK
  <1>1. Held(req[c])' /\ Keyed(c)
    BY DoneHeld DEF ApartInv, CommitRename, DropTerm
  <1>2. k \in Kinds /\ t \in LiveTerms(k) /\ t \in TermIds /\ req[c].old = vocab[k][t]
    BY <1>0 DEF CommitRename, DropTerm, Held, LiveTerms, Request
  <1>3. CASE CommitRename(c)
    <2>1. n \in Names(k)
      BY <1>3 DEF CommitRename, ApartInv, Typed, Locals
    <2>2. ~NameTaken(k, n, t)
      BY <1>3 DEF CommitRename, ApartInv, RenamesDisjoint, HoldsKey
    <2>3. req[c].rows = Carrying(k, vocab[k][t])
      <3>1. /\ req[c].rows \subseteq Carrying(k, req[c].old)
            /\ Carrying(k, req[c].old) \subseteq req[c].rows \cup req[c].todo
            /\ req[c].todo = {}
        BY <1>0, <1>3 DEF CommitRename, Held
      <3>2. QED
        BY <1>2, <3>1
    <2>4. Rename(k, t, n)
      BY <1>2, <1>3, <2>2, <2>3 DEF CommitRename, Rename
    <2>5. QED
      BY <1>1, <1>2, <2>1, <2>4 DEF CookbookNext
  <1>4. CASE DropTerm(c)
    <2>1. Carrying(k, vocab[k][t]) = {}
      BY <1>0, <1>2, <1>4 DEF DropTerm, Held
    <2>2. RemoveTerm(k, t)
      BY <1>2, <1>4, <2>1 DEF DropTerm, RemoveTerm
    <2>3. QED
      BY <1>1, <1>2, <2>2 DEF CookbookNext
  <1>5. QED
    BY <1>3, <1>4

LEMMA CreateTermKept ==
    ASSUME ApartInv, NEW c \in Clients, NEW k \in Kinds, NEW n \in Inputs[k],
           CreateTerm(c, k, n)
    PROVE  Held(req[c])' /\ Keyed(c) /\ [CookbookNext]_<<recipes, vocab>>
  <1>1. Held(req[c])' /\ Keyed(c)
    BY DoneHeld DEF ApartInv, CreateTerm
  <1>2. CASE UNCHANGED vocab
    BY <1>1, <1>2 DEF CreateTerm
  <1>3. ASSUME NEW t \in TermIds, ~NameTaken(k, Strip[n], Null), vocab[k][t] = Unborn,
               vocab' = [vocab EXCEPT ![k][t] = Strip[n]]
        PROVE  [CookbookNext]_<<recipes, vocab>>
    <2>1. ~NameTaken(k, Strip[n], t)
      BY <1>3, RowsAssumption DEF NameTaken, LiveTerms
    <2>2. NewTerm(k, t, Strip[n]) /\ Strip[n] \in Names(k)
      BY <1>3, <2>1 DEF NewTerm, Names, CreateTerm
    <2>3. QED
      BY <2>2 DEF CookbookNext
  <1>4. QED
    BY <1>1, <1>2, <1>3 DEF CreateTerm

------------------------------------------------------------------------------
(* What the others rely on is left alone. *)

\* By a step that writes nothing.
LEMMA HeldNoWrite ==
    ASSUME NEW d \in Clients, req'[d] = req[d], Held(req[d]), UNCHANGED <<recipes, vocab>>
    PROVE  Held(req[d])'
  BY DEF Held, NameIsValid, TermNames, LiveTerms, Carrying, LiveRecipes

\* By a recipe saved, since no name is settled meanwhile.
LEMMA HeldSaved ==
    ASSUME Typed, NEW d \in Clients, req'[d] = req[d], Held(req[d]), ~Settled(d),
           NEW r \in RecipeIds, NEW row \in Recipe, Creates(d) => req[d].rid # r,
           recipes' = [recipes EXCEPT ![r] = row], UNCHANGED vocab
    PROVE  Held(req[d])'
  <1>1. \A q \in RecipeIds \ {r} : recipes'[q] = recipes[q]
    BY DEF Typed, TypeOK, TablesOK
  <1>2. recipes'[r] # Unborn
    BY RowIsLive DEF Typed, TypeOK, TablesOK
  <1>3. /\ \A k, n : NameIsValid(k, n)' = NameIsValid(k, n)
        /\ \A k : LiveTerms(k)' = LiveTerms(k)
    BY DEF NameIsValid, TermNames, LiveTerms
  <1>4. /\ Creates(d) => req[d].rid \in RecipeIds
        /\ req[d].at = "delete_commit" => req[d].rid \in RecipeIds
    BY DEF Typed, Locals, Creates
  <1>5. req[d].at \notin {"cascade", "rename_commit", "drop"}
    BY DEF Settled
  <1>6. QED
    BY <1>1, <1>2, <1>3, <1>4, <1>5 DEF Held, Creates

\* By a recipe deleted: a rename in flight holds the lock on its recipes.
LEMMA HeldDeleted ==
    ASSUME Typed, NEW c \in Clients, NEW d \in Clients \ {c}, req'[d] = req[d], Held(req[d]),
           NEW r \in RecipeIds, recipes[r] # Unborn, ~RecipeLocked(c, r),
           recipes' = [recipes EXCEPT ![r] = Deleted], UNCHANGED vocab
    PROVE  Held(req[d])'
  <1>1. /\ \A q \in RecipeIds \ {r} : recipes'[q] = recipes[q]
        /\ recipes'[r] = Deleted
    BY DEF Typed, TypeOK, TablesOK
  <1>2. /\ \A k, n : NameIsValid(k, n)' = NameIsValid(k, n)
        /\ \A k : LiveTerms(k)' = LiveTerms(k)
    BY DEF NameIsValid, TermNames, LiveTerms
  <1>3. \A k, n : Carrying(k, n)' = Carrying(k, n) \ {r}
    BY <1>1 DEF Carrying, LiveRecipes
  <1>4. r \notin req[d].rows
    BY DEF RecipeLocked
  <1>5. \A q \in RecipeIds : (recipes'[q] = Unborn) <=> (recipes[q] = Unborn)
    BY <1>1, RowsAssumption
  <1>6. /\ Creates(d) => req[d].rid \in RecipeIds
        /\ req[d].at = "delete_commit" => req[d].rid \in RecipeIds
    BY DEF Typed, Locals, Creates
  <1>7. QED
    BY <1>2, <1>3, <1>4, <1>5, <1>6 DEF Held, Creates

\* By a term created: the others keep their names.
LEMMA HeldCreated ==
    ASSUME Typed, NEW d \in Clients, req'[d] = req[d], Held(req[d]),
           NEW k \in Kinds, NEW t \in TermIds, NEW n, vocab[k][t] = Unborn,
           vocab' = [vocab EXCEPT ![k][t] = n], UNCHANGED recipes
    PROVE  Held(req[d])'
  <1>1. \A j \in Kinds : \A u \in LiveTerms(j) : vocab'[j][u] = vocab[j][u]
    BY DEF Typed, TypeOK, TablesOK, LiveTerms
  <1>2. \A j \in Kinds : LiveTerms(j) \subseteq LiveTerms(j)'
    BY <1>1 DEF LiveTerms
  <1>3. \A j \in Kinds : TermNames(j) \subseteq TermNames(j)'
    BY <1>1, <1>2 DEF TermNames
  <1>4. \A j, m : Carrying(j, m)' = Carrying(j, m)
    BY DEF Carrying, LiveRecipes
  <1>5. req[d].kind \in Kinds
    BY DEF Typed, TypeOK, Request
  <1>6. \A j \in Kinds : \A m : NameIsValid(j, m) => NameIsValid(j, m)'
    BY <1>3 DEF NameIsValid
  <1>7. QED
    BY <1>1, <1>2, <1>4, <1>5, <1>6 DEF Held, Kinds

\* By a name changed or deleted: no other request has checked one, and those
\* that change or delete names do so in the other vocabulary.
LEMMA HeldRetired ==
    ASSUME Typed, NEW d \in Clients, req'[d] = req[d], Held(req[d]), ~Checked(d),
           NEW k \in Kinds, Retires(d) => req[d].kind # k,
           \A j \in Kinds \ {k} : vocab'[j] = vocab[j],
           \A r \in RecipeIds :
              \/ recipes'[r] = recipes[r]
              \/ /\ recipes[r] \in Recipe /\ recipes'[r] \in Recipe
                 /\ \A j \in Kinds \ {k} : recipes'[r][j] = recipes[r][j]
    PROVE  Held(req[d])'
  <1>1. \A j \in Kinds \ {k} : LiveTerms(j)' = LiveTerms(j)
    BY DEF LiveTerms
  <1>2. \A r \in RecipeIds : (recipes'[r] = Unborn) <=> (recipes[r] = Unborn)
    BY RowIsLive
  <1>3. LiveRecipes' = LiveRecipes
    BY RowIsLive DEF LiveRecipes
  <1>4. \A j \in Kinds \ {k} : \A m : Carrying(j, m)' = Carrying(j, m)
    BY <1>3 DEF Carrying, LiveRecipes
  <1>5. req[d].kind \in Kinds
    BY DEF Typed, TypeOK, Request
  <1>6. req[d].at = "delete_commit" => req[d].rid \in RecipeIds
    BY DEF Typed, Locals
  <1>7. QED
    BY <1>1, <1>2, <1>4, <1>5, <1>6 DEF Held, Checked, Retires, HoldsTerm

\* Whichever request moves, what every other one relies on stays so.
LEMMA OthersHeld ==
    ASSUME ApartInv, NEW c \in Clients, Arrival(c) \/ Continue(c), NEW d \in Clients \ {c}
    PROVE  Held(req[d])'
  <1>0. /\ Typed /\ Held(req[d]) /\ Held(req[c])
        /\ recipes \in [RecipeIds -> Recipe \cup {Unborn, Deleted}]
        /\ vocab \in [Kinds -> [TermIds -> AllInputs \cup {Unborn, Deleted}]]
    BY DEF ApartInv, Typed, TypeOK, TablesOK
  <1>1. req'[d] = req[d]
    BY <1>0, OnlyOneMoves
  <1>2. /\ Checked(c) => ~Settled(d)
        /\ Settled(c) => ~Checked(d)
        /\ Retires(c) /\ Retires(d) => req[d].kind # req[c].kind
        /\ Creates(d) => req[d].rid # req[c].rid
    BY DEF ApartInv, Apart, OwnKeys
  <1>3. CASE UNCHANGED <<recipes, vocab>>
    BY <1>0, <1>1, <1>3, HeldNoWrite
  <1>4. CASE CommitCreate(c)
    <2>1. req[c].rid \in RecipeIds /\ req[c].pay \in Recipe /\ Checked(c)
      BY <1>0, <1>4 DEF CommitCreate, Typed, Locals, Checked
    <2>2. CASE recipes' = [recipes EXCEPT ![req[c].rid] = req[c].pay]
      BY <1>0, <1>1, <1>2, <1>4, <2>1, <2>2, HeldSaved DEF CommitCreate
    <2>3. QED
      BY <1>3, <1>4, <2>2 DEF CommitCreate
  <1>5. CASE CommitUpdate(c)
    <2> DEFINE r == req[c].rid
               row == ChangedColumns(recipes[r], req[c].seen, req[c].pay)
    <2>1. r \in RecipeIds /\ req[c].pay \in Recipe /\ req[c].seen \in Recipe /\ Checked(c)
      BY <1>0, <1>5 DEF CommitUpdate, Typed, Locals, Checked
    <2>2. CASE r \in LiveRecipes /\ recipes' = [recipes EXCEPT ![r] = row]
      <3>1. recipes[r] \in Recipe
        BY <1>0, <2>2 DEF LiveRecipes
      <3>2. row \in Recipe
        BY <2>1, <3>1, ChangedColumnsIsRow
      <3>3. QED
        BY <1>0, <1>1, <1>2, <1>5, <2>1, <2>2, <3>2, HeldSaved DEF CommitUpdate
    <2>3. QED
      BY <1>3, <1>5, <2>2 DEF CommitUpdate
  <1>6. CASE CommitDelete(c)
    <2>1. req[c].rid \in RecipeIds /\ recipes[req[c].rid] # Unborn
      BY <1>0, <1>6 DEF CommitDelete, Typed, Locals, Held
    <2>2. QED
      BY <1>0, <1>1, <1>6, <2>1, HeldDeleted DEF CommitDelete
  <1>7. ASSUME NEW k \in Kinds, NEW n \in Inputs[k], CreateTerm(c, k, n)
        PROVE  Held(req[d])'
    BY <1>0, <1>1, <1>3, <1>7, HeldCreated DEF CreateTerm
  <1>8. CASE CommitRename(c) \/ DropTerm(c)
    <2> DEFINE k == req[c].kind
               n == req[c].new
    <2>1. k \in Kinds /\ Settled(c) /\ Retires(c)
      BY <1>0, <1>8 DEF CommitRename, DropTerm, Settled, Retires, HoldsTerm, Typed, TypeOK, Request
    <2>2. ~Checked(d) /\ (Retires(d) => req[d].kind # k)
      BY <1>2, <2>1
    <2>3. \A j \in Kinds \ {k} : vocab'[j] = vocab[j]
      BY <1>0, <1>8 DEF CommitRename, DropTerm
    <2>4. ASSUME NEW r \in RecipeIds, recipes'[r] # recipes[r]
          PROVE  /\ recipes[r] \in Recipe /\ recipes'[r] \in Recipe
                 /\ \A j \in Kinds \ {k} : recipes'[r][j] = recipes[r][j]
      <3>1. CommitRename(c) /\ r \in req[c].rows
        BY <1>8, <2>4 DEF CommitRename, DropTerm
      <3>2. recipes[r] \in Recipe /\ n \in Inputs[k]
        BY <1>0, <2>1, <3>1, NamesAreInputs
           DEF CommitRename, Typed, Locals, RowsLive, LiveRecipes
      <3>3. recipes'[r] = [recipes[r] EXCEPT ![k] = n]
        BY <3>1 DEF CommitRename
      <3>4. QED
        BY <2>1, <3>2, <3>3, RowExcept
    <2>5. QED
      BY <1>0, <1>1, <2>1, <2>2, <2>3, <2>4, HeldRetired
  <1>9. CASE Arrival(c)
    BY <1>3, <1>7, <1>9 DEF Arrival, RecipeArrival, CategoryArrival, CuisineArrival, TermArrival,
         CreateRecipe, UpdateRecipe, DeleteRecipe, UpdateTerm, DeleteTerm, Kinds
  <1>10. CASE \/ UpdateCheckCategory(c) \/ CheckCuisine(c) \/ CountUses(c)
              \/ RefreshRecipe(c) \/ RefreshTerm(c) \/ Renames(c)
    BY <1>0, <1>3, <1>10, RenameSteps
       DEF UpdateCheckCategory, CheckCuisine, CountUses, RefreshRecipe, RefreshTerm
  <1>11. QED
    BY <1>4, <1>5, <1>6, <1>8, <1>9, <1>10 DEF Continue, Renames

\* A step of a handler is a step of the promised cookbook or changes no table.
LEMMA PromisedStep ==
    ASSUME ApartInv, NEW c \in Clients, Arrival(c) \/ Continue(c)
    PROVE  Held(req[c])' /\ Keyed(c) /\ [CookbookNext]_<<recipes, vocab>>
  <1>0. Typed /\ Held(req[c])
    BY DEF ApartInv
  <1>1. CASE Arrival(c)
    <2>1. RecipeArrival(c) \/ \E k \in Kinds : TermArrival(c, k)
      BY <1>1 DEF Arrival, CategoryArrival, CuisineArrival, Kinds
    <2>2. CASE UNCHANGED <<recipes, vocab>>
      BY <1>0, <2>1, <2>2, ArrivalHeld
    <2>3. CASE ~UNCHANGED <<recipes, vocab>>
      <3>1. PICK k \in Kinds : \E n \in Inputs[k] : CreateTerm(c, k, n)
        BY <2>1, <2>3 DEF RecipeArrival, TermArrival, CreateRecipe, UpdateRecipe, DeleteRecipe,
                          UpdateTerm, DeleteTerm
      <3>2. QED
        BY <3>1, CreateTermKept
    <2>4. QED
      BY <2>2, <2>3
  <1>2. CASE \/ UpdateCheckCategory(c) \/ CheckCuisine(c) \/ CountUses(c)
             \/ RefreshRecipe(c) \/ RefreshTerm(c) \/ Renames(c)
    <2>1. UNCHANGED <<recipes, vocab>>
      BY <1>0, <1>2, RenameSteps
         DEF UpdateCheckCategory, CheckCuisine, CountUses, RefreshRecipe, RefreshTerm
    <2>2. QED
      BY <1>0, <1>2, <2>1, CheckHeld
  <1>3. CASE CommitCreate(c) \/ CommitUpdate(c) \/ CommitDelete(c)
    BY <1>3, RecipeCommitsKept
  <1>4. CASE CommitRename(c) \/ DropTerm(c)
    BY <1>4, TermCommitsKept
  <1>5. QED
    BY <1>1, <1>2, <1>3, <1>4 DEF Continue, Renames

LEMMA ApartStep ==
    ApartInv /\ [Next /\ Apart']_vars => ApartInv' /\ [CookbookNext]_<<recipes, vocab>>
  <1> SUFFICES ASSUME ApartInv, [Next /\ Apart']_vars
               PROVE  ApartInv' /\ [CookbookNext]_<<recipes, vocab>>
    OBVIOUS
  <1>1. Typed' /\ UniqueSlugs' /\ UniqueNames' /\ RenamesDisjoint'
    BY TypedStep, UniqueSlugsStep, UniqueNamesStep DEF ApartInv
  <1>2. ASSUME [CookbookNext]_<<recipes, vocab>>
        PROVE  RecipeNamesExist'
    BY <1>2, CookbookNames DEF ApartInv, Typed, TypeOK
  <1>3. CASE UNCHANGED vars
    <2>1. \A c \in Clients : Held(req[c])'
      BY <1>3, HeldNoWrite DEF vars, ApartInv
    <2>2. Apart' /\ OwnKeys'
      BY <1>3 DEF vars, ApartInv, Apart, OwnKeys, Settled, Checked, Retires, HoldsTerm,
               Creates
    <2>3. QED
      BY <1>1, <1>2, <1>3, <2>1, <2>2 DEF ApartInv, vars
  <1>4. ASSUME NEW c \in Clients, Arrival(c) \/ Continue(c), Apart'
        PROVE  ApartInv' /\ [CookbookNext]_<<recipes, vocab>>
    <2>1. Held(req[c])' /\ Keyed(c) /\ [CookbookNext]_<<recipes, vocab>>
      BY <1>4, PromisedStep
    <2>2. \A d \in Clients \ {c} : Held(req[d])'
      BY <1>4, OthersHeld
    <2>3. OwnKeys'
      BY <1>4, <2>1, KeysStep, OnlyOneMoves DEF ApartInv
    <2>4. QED
      BY <1>1, <1>2, <1>4, <2>1, <2>2, <2>3 DEF ApartInv
  <1>5. QED
    BY <1>3, <1>4 DEF Next

LEMMA ApartFirst == Init => ApartInv /\ CookbookInit
  <1> SUFFICES ASSUME Init PROVE ApartInv /\ CookbookInit
    OBVIOUS
  <1>1. Typed
    BY TypedInit
  <1>2. /\ UniqueSlugs /\ UniqueNames /\ RenamesDisjoint /\ RecipeNamesExist
        /\ CookbookInit
    BY DEF Init, CookbookInit, UniqueSlugs, UniqueNames, RenamesDisjoint, RecipeNamesExist,
           LiveRecipes, LiveTerms, Idle, HoldsTerm, HoldsKey
  <1>3. Apart /\ OwnKeys /\ \A c \in Clients : Held(req[c])
    BY DEF Init, Idle, Apart, OwnKeys, Held, Settled, Checked, Retires, HoldsTerm,
           Creates
  <1>4. QED
    BY <1>1, <1>2, <1>3 DEF ApartInv

\* Any number of requests, statement by statement, implement the promised
\* cookbook, as long as names are taken away apart from one another and from
\* saves: the checks, the cascade and the commit of each amount to one step.
THEOREM RecipesRefinement == ApartSpec => KeepsThePromise
  BY ApartFirst, ApartStep, PTL DEF ApartSpec, KeepsThePromise, CookbookSpec

\* So every recipe's category and cuisine is null or exists.
THEOREM RecipesNamesExist == ApartSpec => []RecipeNamesExist
  BY RecipesRefinement, CookbookRecipeNamesExist, PTL DEF KeepsThePromise

------------------------------------------------------------------------------
(* Rows that are there, and rows that were *)

\* The points at which a request has a recipe, or a term.
HasRecipe(q) ==
    q.at \in {"update_category", "update_cuisine", "update_commit", "delete_commit",
              "refresh_recipe"}
HasTerm(q) ==
    q.at \in {"rename", "rename_key", "rename_rows", "cascade", "rename_commit", "count",
              "drop", "refresh_term"}

\* The row is there, when nobody else runs; when others do, there was one.
Present(q) ==
    /\ HasRecipe(q) => q.rid \in LiveRecipes
    /\ HasTerm(q) => q.tid \in LiveTerms(q.kind)
Found(q) ==
    /\ HasRecipe(q) => recipes[q.rid] # Unborn
    /\ HasTerm(q) => vocab[q.kind][q.tid] # Unborn

\* A request has a row it has just read or written, or the one it had.
Keeps(c) ==
    /\ HasRecipe(req[c])' =>
         \/ (req[c].rid \in LiveRecipes)'
         \/ HasRecipe(req[c]) /\ req'[c].rid = req[c].rid /\ UNCHANGED recipes
    /\ HasTerm(req[c])' =>
         \/ (req[c].tid \in LiveTerms(req[c].kind))'
         \/ /\ HasTerm(req[c]) /\ UNCHANGED vocab
            /\ req'[c].tid = req[c].tid /\ req'[c].kind = req[c].kind

LEMMA RowsKept ==
    ASSUME Typed, NEW c \in Clients, Arrival(c) \/ Continue(c)
    PROVE  Keeps(c)
  <1>0. /\ req \in [Clients -> Request] /\ req[c] \in Request
        /\ recipes \in [RecipeIds -> Recipe \cup {Unborn, Deleted}]
        /\ vocab \in [Kinds -> [TermIds -> AllInputs \cup {Unborn, Deleted}]]
    BY DEF Typed, TypeOK, TablesOK
  <1>1. ASSUME NEW q, Goto(c, q)
        PROVE  req'[c] = q
    BY <1>0, <1>1 DEF Goto
  <1>2. ASSUME NEW status, Answer(c, status)
        PROVE  Keeps(c)
    BY <1>0, <1>2 DEF Answer, Idle, Keeps, HasRecipe, HasTerm
  <1>3. ASSUME NEW k, NEW t, t \in LiveTerms(k)',
               Goto(c, [Idle EXCEPT !.at = "refresh_term", !.kind = k, !.tid = t])
        PROVE  Keeps(c)
    <2>1. req'[c].at = "refresh_term" /\ req'[c].kind = k /\ req'[c].tid = t
      BY <1>1, <1>3 DEF Idle
    <2>2. QED
      BY <1>3, <2>1 DEF Keeps, HasRecipe, HasTerm, LiveTerms
  <1>4. ASSUME NEW r, r \in LiveRecipes',
               Goto(c, [Idle EXCEPT !.at = "refresh_recipe", !.rid = r])
        PROVE  Keeps(c)
    <2>1. req'[c].at = "refresh_recipe" /\ req'[c].rid = r
      BY <1>1, <1>4 DEF Idle
    <2>2. QED
      BY <1>4, <2>1 DEF Keeps, HasRecipe, HasTerm
  <1>5. ASSUME UNCHANGED <<recipes, vocab>>
        PROVE  LiveRecipes' = LiveRecipes /\ \A k : LiveTerms(k)' = LiveTerms(k)
    BY <1>5 DEF LiveRecipes, LiveTerms
  <1>6. CASE RecipeArrival(c)
    <2>1. ASSUME NEW r \in LiveRecipes, NEW q, q.at \in {"update_category", "delete_commit"},
                 q.rid = r, Goto(c, q), UNCHANGED <<recipes, vocab>>
          PROVE  Keeps(c)
      BY <1>1, <1>5, <2>1 DEF Keeps, HasRecipe, HasTerm
    <2>2. ASSUME NEW q, q.at = "create_cuisine", Goto(c, q)
          PROVE  Keeps(c)
      BY <1>1, <2>2 DEF Keeps, HasRecipe, HasTerm
    <2>3. ASSUME NEW p \in Recipe, CreateRecipe(c, p)
          PROVE  Keeps(c)
      BY <1>2, <2>2, <2>3 DEF CreateRecipe, Idle
    <2>4. ASSUME NEW s \in Slugs, NEW p \in Recipe, UpdateRecipe(c, s, p)
          PROVE  Keeps(c)
      <3>1. CASE Answer(c, "404")
        BY <1>2, <3>1
      <3>2. ASSUME NEW r \in LiveRecipes,
                   Goto(c, [Idle EXCEPT !.at = "update_category", !.pay = p, !.rid = r,
                                        !.seen = recipes[r]])
            PROVE  Keeps(c)
        <4> DEFINE q == [Idle EXCEPT !.at = "update_category", !.pay = p, !.rid = r,
                                     !.seen = recipes[r]]
        <4>1. q.at = "update_category" /\ q.rid = r
          BY DEF Idle
        <4> HIDE DEF q
        <4>2. Goto(c, q) /\ UNCHANGED <<recipes, vocab>>
          BY <2>4, <3>2 DEF q, UpdateRecipe
        <4>3. QED
          BY <2>1, <4>1, <4>2
      <3>3. QED
        BY <2>4, <3>1, <3>2 DEF UpdateRecipe
    <2>5. ASSUME NEW s \in Slugs, DeleteRecipe(c, s)
          PROVE  Keeps(c)
      <3>1. CASE Answer(c, "404")
        BY <1>2, <3>1
      <3>2. ASSUME NEW r \in LiveRecipes,
                   Goto(c, [Idle EXCEPT !.at = "delete_commit", !.rid = r])
            PROVE  Keeps(c)
        <4> DEFINE q == [Idle EXCEPT !.at = "delete_commit", !.rid = r]
        <4>1. q.at = "delete_commit" /\ q.rid = r
          BY DEF Idle
        <4> HIDE DEF q
        <4>2. Goto(c, q) /\ UNCHANGED <<recipes, vocab>>
          BY <2>5, <3>2 DEF q, DeleteRecipe
        <4>3. QED
          BY <2>1, <4>1, <4>2
      <3>3. QED
        BY <2>5, <3>1, <3>2 DEF DeleteRecipe
    <2>6. QED
      BY <1>6, <2>3, <2>4, <2>5 DEF RecipeArrival
  <1>7. ASSUME NEW k \in Kinds, TermArrival(c, k)
        PROVE  Keeps(c)
    <2>1. ASSUME NEW n \in Inputs[k], CreateTerm(c, k, n)
          PROVE  Keeps(c)
      <3>1. Strip[n] \notin {Unborn, Deleted}
        BY NamesAreInputs DEF Names
      <3>2. ASSUME NEW t \in TermIds, vocab' = [vocab EXCEPT ![k][t] = Strip[n]]
            PROVE  t \in LiveTerms(k)'
        BY <1>0, <3>1, <3>2 DEF LiveTerms
      <3>3. QED
        BY <1>2, <1>3, <2>1, <3>2 DEF CreateTerm
    <2>2. ASSUME NEW t \in LiveTerms(k), NEW q, q.at \in {"rename", "count"},
                 q.kind = k, q.tid = t, Goto(c, q), UNCHANGED <<recipes, vocab>>
          PROVE  Keeps(c)
      BY <1>1, <1>5, <2>2 DEF Keeps, HasRecipe, HasTerm, LiveTerms
    <2>3. ASSUME NEW t \in TermIds, NEW n \in Inputs[k], UpdateTerm(c, k, t, n)
          PROVE  Keeps(c)
      <3> DEFINE q == [Idle EXCEPT !.at = "rename", !.kind = k, !.tid = t,
                                   !.old = vocab[k][t], !.new = Strip[n]]
      <3>1. q.at = "rename" /\ q.kind = k /\ q.tid = t
        BY DEF Idle
      <3> HIDE DEF q
      <3>2. /\ UNCHANGED <<recipes, vocab>>
            /\ Answer(c, "404") \/ (t \in LiveTerms(k) /\ Goto(c, q))
        BY <2>3 DEF UpdateTerm, q
      <3>3. QED
        BY <1>2, <2>2, <3>1, <3>2
    <2>4. ASSUME NEW t \in TermIds, DeleteTerm(c, k, t)
          PROVE  Keeps(c)
      <3> DEFINE q == [Idle EXCEPT !.at = "count", !.kind = k, !.tid = t, !.old = vocab[k][t]]
      <3>1. q.at = "count" /\ q.kind = k /\ q.tid = t
        BY DEF Idle
      <3> HIDE DEF q
      <3>2. /\ UNCHANGED <<recipes, vocab>>
            /\ Answer(c, "404") \/ (t \in LiveTerms(k) /\ Goto(c, q))
        BY <2>4 DEF DeleteTerm, q
      <3>3. QED
        BY <1>2, <2>2, <3>1, <3>2
    <2>5. QED
      BY <1>7, <2>1, <2>3, <2>4 DEF TermArrival
  <1>8. ASSUME NEW point \in Points, Goto(c, [req[c] EXCEPT !.at = point]),
               UNCHANGED <<recipes, vocab>>,
               \/ req[c].at = "update_category" /\ point = "update_cuisine"
               \/ point = "create_commit"
               \/ req[c].at = "update_cuisine" /\ point = "update_commit"
               \/ req[c].at = "count" /\ point = "drop"
        PROVE  Keeps(c)
    <2>1. /\ req'[c].at = point /\ req'[c].rid = req[c].rid
          /\ req'[c].kind = req[c].kind /\ req'[c].tid = req[c].tid
      <3>1. req'[c] = [req[c] EXCEPT !.at = point]
        BY <1>1, <1>8
      <3>2. QED
        BY <1>0, <3>1 DEF Request
    <2>2. QED
      BY <1>5, <1>8, <2>1 DEF Keeps, HasRecipe, HasTerm
  <1>9. CASE UpdateCheckCategory(c)
    BY <1>2, <1>8, <1>9 DEF UpdateCheckCategory, Points
  <1>10. CASE CheckCuisine(c)
    BY <1>2, <1>8, <1>10 DEF CheckCuisine, Points
  <1>11. CASE CountUses(c)
    BY <1>2, <1>8, <1>11 DEF CountUses, Points
  <1>12. CASE RefreshRecipe(c) \/ RefreshTerm(c) \/ CommitDelete(c) \/ DropTerm(c)
    BY <1>2, <1>12 DEF RefreshRecipe, RefreshTerm, CommitDelete, DropTerm
  <1>13. CASE CommitCreate(c) \/ CommitUpdate(c)
    <2> DEFINE r == req[c].rid
    <2>1. r \in RecipeIds /\ req[c].pay \in Recipe
      BY <1>13 DEF CommitCreate, CommitUpdate, Typed, Locals
    <2>2. ASSUME NEW row \in Recipe, recipes' = [recipes EXCEPT ![r] = row]
          PROVE  r \in LiveRecipes'
      BY <1>0, <2>1, <2>2, RowIsLive DEF LiveRecipes
    <2>3. CASE CommitCreate(c)
      BY <1>2, <1>4, <2>1, <2>2, <2>3 DEF CommitCreate
    <2>4. CASE CommitUpdate(c)
      <3>1. CASE Goto(c, [Idle EXCEPT !.at = "refresh_recipe", !.rid = r]) /\ UNCHANGED recipes
        <4>1. req'[c].at = "refresh_recipe" /\ req'[c].rid = req[c].rid
          BY <1>1, <3>1 DEF Idle
        <4>2. HasRecipe(req[c])
          BY <2>4 DEF CommitUpdate, HasRecipe
        <4>3. QED
          BY <3>1, <4>1, <4>2 DEF Keeps, HasRecipe, HasTerm
      <3>2. CASE /\ r \in LiveRecipes
                 /\ recipes' = [recipes EXCEPT ![r] =
                                  ChangedColumns(@, req[c].seen, req[c].pay)]
                 /\ Goto(c, [Idle EXCEPT !.at = "refresh_recipe", !.rid = r])
        <4>1. req[c].seen \in Recipe /\ recipes[r] \in Recipe
          BY <1>0, <2>4, <3>2 DEF CommitUpdate, Typed, Locals, LiveRecipes
        <4>2. ChangedColumns(recipes[r], req[c].seen, req[c].pay) \in Recipe
          BY <2>1, <4>1, ChangedColumnsIsRow
        <4>3. QED
          BY <1>0, <1>4, <2>1, <2>2, <3>2, <4>2
      <3>3. QED
        BY <1>2, <2>4, <3>1, <3>2 DEF CommitUpdate
    <2>5. QED
      BY <1>13, <2>3, <2>4
  <1>14. CASE Renames(c)
    <2>1. /\ UNCHANGED <<recipes, vocab>>
          /\ req[c].at # "update_commit" => HasTerm(req[c])
      BY <1>14, RenameSteps DEF HasTerm
    <2>2. CASE Onward(c, req'[c])
      <3>1. /\ req'[c].at \in {"rename_key", "rename_rows", "cascade", "rename_commit"}
            /\ req'[c].kind = req[c].kind /\ req'[c].tid = req[c].tid
            /\ req[c].at # "update_commit"
        BY <2>2 DEF Onward, CascadeAt
      <3>2. QED
        BY <2>1, <3>1 DEF Keeps, HasRecipe, HasTerm
    <2>3. CASE /\ req[c].at = "rename"
               /\ Goto(c, [Idle EXCEPT !.at = "refresh_term", !.kind = req[c].kind,
                                       !.tid = req[c].tid])
      <3>1. /\ req'[c].at = "refresh_term" /\ req'[c].kind = req[c].kind
            /\ req'[c].tid = req[c].tid
        BY <1>1, <2>3 DEF Idle
      <3>2. QED
        BY <2>1, <2>3, <3>1 DEF Keeps, HasRecipe, HasTerm
    <2>4. QED
      BY <1>2, <1>14, <2>2, <2>3, RenameSteps
  <1>15. CASE CommitRename(c)
    <2>1. req[c].new \notin {Unborn, Deleted} /\ req[c].kind \in Kinds /\ req[c].tid \in TermIds
      BY <1>0, <1>15, NamesAreInputs DEF CommitRename, Typed, Locals, Request
    <2>2. ASSUME NEW k, NEW t, k = req[c].kind, t = req[c].tid
          PROVE  t \in LiveTerms(k)'
      BY <1>0, <1>15, <2>1, <2>2 DEF CommitRename, LiveTerms
    <2>3. QED
      BY <1>3, <1>15, <2>2 DEF CommitRename
  <1>16. QED
    BY <1>6, <1>7, <1>9, <1>10, <1>11, <1>12, <1>13, <1>14, <1>15
       DEF Arrival, Continue, Renames, CategoryArrival, CuisineArrival, Kinds

\* Rows that were born stay born: a deletion only marks its row Deleted.
LEMMA BornStayBorn ==
    ASSUME Typed, NEW c \in Clients, Arrival(c) \/ Continue(c)
    PROVE  /\ \A r \in RecipeIds : recipes[r] # Unborn => recipes'[r] # Unborn
           /\ \A k \in Kinds : \A t \in TermIds : vocab[k][t] # Unborn => vocab'[k][t] # Unborn
  <1> DEFINE RowsStay == \A r \in RecipeIds : recipes[r] # Unborn => recipes'[r] # Unborn
             TermsStay == \A k \in Kinds : \A t \in TermIds :
                            vocab[k][t] # Unborn => vocab'[k][t] # Unborn
  <1>0. /\ recipes \in [RecipeIds -> Recipe \cup {Unborn, Deleted}]
        /\ vocab \in [Kinds -> [TermIds -> AllInputs \cup {Unborn, Deleted}]]
        /\ req \in [Clients -> Request]
    BY DEF Typed, TypeOK, TablesOK
  <1>1. ASSUME NEW r, NEW row, row # Unborn, recipes' = [recipes EXCEPT ![r] = row]
        PROVE  RowsStay
    BY <1>0, <1>1
  <1>2. ASSUME NEW k \in Kinds, NEW t, NEW n, n # Unborn, vocab' = [vocab EXCEPT ![k][t] = n]
        PROVE  TermsStay
    BY <1>0, <1>2
  <1>3. CASE UNCHANGED <<recipes, vocab>>
    BY <1>3
  <1>4. CASE CommitCreate(c)
    <2>1. req[c].pay # Unborn
      BY <1>4, RowIsLive DEF CommitCreate, Typed, Locals
    <2>2. QED
      BY <1>1, <1>3, <1>4, <2>1 DEF CommitCreate
  <1>5. CASE CommitUpdate(c)
    <2> DEFINE row == ChangedColumns(recipes[req[c].rid], req[c].seen, req[c].pay)
    <2>1. CASE req[c].rid \in LiveRecipes
      <3>1. /\ req[c].pay \in Recipe /\ req[c].seen \in Recipe
            /\ recipes[req[c].rid] \in Recipe
        BY <1>0, <1>5, <2>1 DEF CommitUpdate, Typed, Locals, LiveRecipes
      <3>2. row # Unborn
        BY <3>1, ChangedColumnsIsRow, RowIsLive
      <3>3. UNCHANGED recipes \/ recipes' = [recipes EXCEPT ![req[c].rid] = row]
        BY <1>5 DEF CommitUpdate
      <3> HIDE DEF row
      <3>4. UNCHANGED vocab
        BY <1>5 DEF CommitUpdate
      <3>5. QED
        BY <1>1, <3>2, <3>3, <3>4
    <2>2. CASE req[c].rid \notin LiveRecipes
      BY <1>3, <1>5, <2>2 DEF CommitUpdate
    <2>3. QED
      BY <2>1, <2>2
  <1>6. CASE CommitDelete(c)
    BY <1>1, <1>6, RowsAssumption DEF CommitDelete
  <1>7. CASE CommitRename(c)
    <2> DEFINE k == req[c].kind
    <2>1. k \in Kinds /\ req[c].new \in Names(k)
      BY <1>0, <1>7 DEF CommitRename, Typed, Locals, Request
    <2>2. TermsStay
      BY <1>2, <1>7, <2>1, NamesAreInputs DEF CommitRename
    <2>3. ASSUME NEW r \in RecipeIds, recipes[r] # Unborn
          PROVE  recipes'[r] # Unborn
      <3>1. CASE r \in req[c].rows
        <4>1. recipes[r] \in Recipe
          BY <1>0, <1>7, <3>1 DEF CommitRename, Typed, RowsLive, LiveRecipes
        <4>2. recipes'[r] = [recipes[r] EXCEPT ![k] = req[c].new]
          BY <1>7, <3>1 DEF CommitRename
        <4>3. recipes'[r] \in Recipe
          BY <2>1, <4>1, <4>2, NamesAreInputs, RowExcept
        <4>4. QED
          BY <4>3, RowIsLive
      <3>2. CASE r \notin req[c].rows
        BY <1>7, <2>3, <3>2 DEF CommitRename
      <3>3. QED
        BY <3>1, <3>2
    <2>4. QED
      BY <2>2, <2>3
  <1>8. CASE DropTerm(c)
    <2>1. req[c].kind \in Kinds
      BY <1>0 DEF Request
    <2>2. QED
      BY <1>2, <1>8, <2>1, RowsAssumption DEF DropTerm
  <1>9. ASSUME NEW k \in Kinds, TermArrival(c, k)
        PROVE  RowsStay /\ TermsStay
    <2>1. ASSUME NEW n \in Inputs[k], CreateTerm(c, k, n)
          PROVE  RowsStay /\ TermsStay
      <3>1. Strip[n] # Unborn
        BY NamesAreInputs DEF Names
      <3>2. UNCHANGED vocab \/ \E t \in TermIds : vocab' = [vocab EXCEPT ![k][t] = Strip[n]]
        BY <2>1 DEF CreateTerm
      <3>3. UNCHANGED recipes
        BY <2>1 DEF CreateTerm
      <3>4. QED
        BY <1>2, <3>1, <3>2, <3>3
    <2>2. QED
      BY <1>3, <1>9, <2>1 DEF TermArrival, UpdateTerm, DeleteTerm
  <1>10. CASE RecipeArrival(c)
    BY <1>3, <1>10 DEF RecipeArrival, CreateRecipe, UpdateRecipe, DeleteRecipe
  <1>11. CASE \/ UpdateCheckCategory(c) \/ CheckCuisine(c) \/ RefreshRecipe(c)
              \/ RefreshTerm(c) \/ CountUses(c)
    BY <1>3, <1>11 DEF UpdateCheckCategory, CheckCuisine, RefreshRecipe, RefreshTerm, CountUses
  <1>12. CASE Renames(c)
    BY <1>3, <1>12, RenameSteps
  <1>13. QED
    BY <1>4, <1>5, <1>6, <1>7, <1>8, <1>9, <1>10, <1>11, <1>12
       DEF Arrival, Continue, Renames, CategoryArrival, CuisineArrival, Kinds

LEMMA FoundFirst == Init => \A c \in Clients : Found(req[c])
  BY DEF Init, Found, HasRecipe, HasTerm, Idle

LEMMA FoundStep ==
    Typed /\ (\A c \in Clients : Found(req[c])) /\ [Next]_vars =>
      (\A c \in Clients : Found(req[c]))'
  <1> SUFFICES ASSUME Typed, \A d \in Clients : Found(req[d]), [Next]_vars, NEW d \in Clients
               PROVE  Found(req[d])'
    OBVIOUS
  <1>1. CASE UNCHANGED vars
    BY <1>1 DEF vars, Found, HasRecipe, HasTerm
  <1>2. ASSUME NEW c \in Clients, Arrival(c) \/ Continue(c)
        PROVE  Found(req[d])'
    <2>1. CASE d = c
      <3>1. Keeps(c)
        BY <1>2, RowsKept
      <3>2. Found(req[c])
        OBVIOUS
      <3>3. QED
        BY <2>1, <3>1, <3>2 DEF Keeps, Found, LiveRecipes, LiveTerms
    <2>2. CASE d # c
      <3>1. req'[d] = req[d]
        BY <1>2, <2>2, OnlyOneMoves
      <3>2. /\ HasRecipe(req[d]) => req[d].rid \in RecipeIds
            /\ HasTerm(req[d]) => req[d].tid \in TermIds
            /\ req[d].kind \in Kinds
        BY DEF HasRecipe, HasTerm, Typed, TypeOK, Locals, Request
      <3>3. /\ \A r \in RecipeIds : recipes[r] # Unborn => recipes'[r] # Unborn
            /\ \A k \in Kinds : \A t \in TermIds :
                 vocab[k][t] # Unborn => vocab'[k][t] # Unborn
        BY <1>2, BornStayBorn
      <3>4. Found(req[d])
        OBVIOUS
      <3>5. QED
        BY <3>1, <3>2, <3>3, <3>4 DEF Found, HasRecipe, HasTerm
    <2>3. QED
      BY <2>1, <2>2
  <1>3. QED
    BY <1>1, <1>2 DEF Next

\* What a request that fails with a 500 ran into.
Excused(c) ==
    \/ req[c].at = "rename_key" /\ NameTaken(req[c].kind, req[c].new, req[c].tid)
    \/ /\ req[c].at \in {"update_commit", "refresh_recipe"}
       /\ recipes[req[c].rid] = Deleted
    \/ /\ req[c].at \in {"rename", "refresh_term"}
       /\ vocab[req[c].kind][req[c].tid] = Deleted
    \/ Contends(c)

\* Who is in a deadlock waits for one that waits itself, so holds something.
LEMMA DeadlocksContend ==
    ASSUME NEW c \in Clients, Deadlocked(c)
    PROVE  Contends(c)
  <1>0. PICK D \in SUBSET Clients : \E next \in [D -> D] :
           c \in D /\ D = {next[d] : d \in D} /\ \A d \in D : WaitsFor(d, next[d])
    BY DEF Deadlocked
  <1>1. PICK next \in [D -> D] :
           c \in D /\ D = {next[d] : d \in D} /\ \A d \in D : WaitsFor(d, next[d])
    BY <1>0
  <1>2. \A d, e : WaitsFor(d, e) => HoldsOn(d) /\ d # e
    BY DEF WaitsFor, HoldsTerm, HoldsOn
  <1>3. PICK e \in D : next[e] = c
    BY <1>1
  <1>4. /\ next[c] \in Clients \ {c} /\ WaitsFor(c, next[c]) /\ HoldsOn(next[c])
        /\ HoldsOn(c)
    BY <1>1, <1>2
  <1>5. e \in Clients \ {c} /\ WaitsFor(e, c)
    BY <1>1, <1>2, <1>3
  <1>6. QED
    BY <1>4, <1>5 DEF Contends

\* A handler fails with a 500 at a rename to a name that is taken, where a row
\* that was there is not, or in a deadlock of renames.
LEMMA OnlyLostRowsStep ==
    ASSUME Typed, \A c \in Clients : Found(req[c]), NEW c \in Clients,
           Arrival(c) \/ Continue(c), reply' = "500"
    PROVE  req[c] # req'[c] /\ Excused(c)
  <1>1. /\ HasRecipe(req[c]) => req[c].rid \in RecipeIds /\ recipes[req[c].rid] # Unborn
        /\ HasTerm(req[c]) =>
             req[c].tid \in TermIds /\ vocab[req[c].kind][req[c].tid] # Unborn
    BY DEF HasRecipe, HasTerm, Found, Typed, Locals
  <1>2. ASSUME Answer(c, "500"), req[c].at # "idle"
        PROVE  req[c] # req'[c]
    BY <1>2 DEF Answer, Idle, Typed, TypeOK
  <1>3. CASE RenameTerm(c)
    <2>1. /\ Answer(c, "500") /\ req[c].at = "rename"
          /\ req[c].tid \notin LiveTerms(req[c].kind)
      BY <1>3 DEF RenameTerm, Answer, Goto
    <2>2. QED
      BY <1>1, <1>2, <2>1 DEF Excused, HasTerm, LiveTerms
  <1>4. CASE TakeName(c)
    <2>1. /\ Answer(c, "500") /\ req[c].at = "rename_key"
          /\ NameTaken(req[c].kind, req[c].new, req[c].tid)
      BY <1>4 DEF TakeName, Answer, Goto
    <2>2. QED
      BY <1>2, <2>1 DEF Excused
  <1>5. CASE DeadlockAborts(c)
    BY <1>2, <1>5, DeadlocksContend DEF DeadlockAborts, Excused
  <1>6. CASE RefreshRecipe(c)
    <2>1. Answer(c, "500") /\ req[c].rid \notin LiveRecipes
      BY <1>6 DEF RefreshRecipe, Answer
    <2>2. QED
      BY <1>1, <1>2, <1>6, <2>1 DEF RefreshRecipe, HasRecipe, LiveRecipes, Excused
  <1>7. CASE RefreshTerm(c)
    <2>1. Answer(c, "500") /\ req[c].tid \notin LiveTerms(req[c].kind)
      BY <1>7 DEF RefreshTerm, Answer
    <2>2. QED
      BY <1>1, <1>2, <1>7, <2>1 DEF RefreshTerm, HasTerm, LiveTerms, Excused
  <1>8. CASE CommitUpdate(c)
    <2>1. Answer(c, "500") /\ req[c].rid \notin LiveRecipes
      BY <1>8 DEF CommitUpdate, Answer, Goto
    <2>2. QED
      BY <1>1, <1>2, <1>8, <2>1 DEF CommitUpdate, HasRecipe, LiveRecipes, Excused
  <1>9. CASE CommitCreate(c) \/ CommitDelete(c) \/ CommitRename(c) \/ DropTerm(c)
    BY <1>9 DEF CommitCreate, CommitDelete, CommitRename, DropTerm, Answer, Goto
  <1>10. CASE \/ UpdateCheckCategory(c) \/ CheckCuisine(c) \/ CountUses(c)
              \/ FindRecipes(c) \/ \E r \in RecipeIds : UpdateRow(c, r)
    BY <1>10 DEF UpdateCheckCategory, CheckCuisine, CountUses, FindRecipes, UpdateRow,
                 Answer, Goto
  <1>11. CASE Arrival(c)
    BY <1>11 DEF Arrival, RecipeArrival, CategoryArrival, CuisineArrival, TermArrival,
                 CreateRecipe, UpdateRecipe, DeleteRecipe, CreateTerm, UpdateTerm, DeleteTerm,
                 Answer, Goto
  <1>12. QED
    BY <1>3, <1>4, <1>5, <1>6, <1>7, <1>8, <1>9, <1>10, <1>11 DEF Continue

\* However many requests run, one fails with a 500 only if it renames to a taken
\* name, finds its row deleted, or contends with others for
\* names, slugs and recipes.
THEOREM RecipesOnlyLostRowsFail == Spec => OnlyLostRowsFail
  <1>1. Typed /\ (\A c \in Clients : Found(req[c])) /\ [Next]_vars =>
          [reply' = "500" =>
             \E c \in Clients :
                /\ req[c] # req'[c]
                /\ \/ req[c].at = "rename_key" /\ NameTaken(req[c].kind, req[c].new, req[c].tid)
                   \/ /\ req[c].at \in {"update_commit", "refresh_recipe"}
                      /\ recipes[req[c].rid] = Deleted
                   \/ /\ req[c].at \in {"rename", "refresh_term"}
                      /\ vocab[req[c].kind][req[c].tid] = Deleted
                   \/ Contends(c)]_vars
    BY OnlyLostRowsStep DEF Next, Excused
  <1>2. QED
    BY <1>1, TypedInit, TypedStep, FoundFirst, FoundStep, PTL DEF Spec, OnlyLostRowsFail

------------------------------------------------------------------------------
(* One request at a time *)

OneAtATime ==
    /\ \A c \in Clients : Present(req[c])
    /\ \A c, d \in Clients : req[c].at # "idle" /\ req[d].at # "idle" => c = d

\* A request that runs alone keeps the row it has, or has just written it.
LEMMA PresentStep ==
    ASSUME Typed, NEW c \in Clients, Arrival(c) \/ Continue(c), Present(req[c])
    PROVE  Present(req[c])'
  <1>1. Keeps(c)
    BY RowsKept
  <1>2. QED
    BY <1>1 DEF Keeps, Present, LiveRecipes, LiveTerms

LEMMA SerialStep == Typed /\ OneAtATime /\ [SerialNext]_vars => OneAtATime'
  <1> SUFFICES ASSUME Typed, OneAtATime, [SerialNext]_vars PROVE OneAtATime'
    OBVIOUS
  <1>1. CASE UNCHANGED vars
    BY <1>1 DEF vars, OneAtATime, Present, HasRecipe, HasTerm, LiveTerms, LiveRecipes
  <1>2. ASSUME NEW c \in Clients, (Alone /\ Arrival(c)) \/ Continue(c)
        PROVE  OneAtATime'
    <2>1. \A d \in Clients \ {c} : req[d].at = "idle" /\ req'[d] = req[d]
      <3>1. CASE Alone
        BY <1>2, <3>1, OnlyOneMoves DEF Alone
      <3>2. CASE Continue(c)
        <4>1. req[c].at # "idle"
          <5>1. CASE CheckCuisine(c)
            BY <5>1 DEF CheckCuisine
          <5>2. CASE Renames(c)
            BY <5>2, RenameSteps
          <5>3. QED
            BY <3>2, <5>1, <5>2
               DEF Continue, Renames, UpdateCheckCategory, CommitCreate, CommitUpdate,
                   RefreshRecipe, CommitDelete, CommitRename, RefreshTerm, CountUses, DropTerm
        <4>2. \A d \in Clients \ {c} : req'[d] = req[d]
          BY <3>2, OnlyOneMoves
        <4>3. QED
          BY <4>1, <4>2 DEF OneAtATime
      <3>3. QED
        BY <1>2, <3>1, <3>2
    <2>2. Present(req[c])'
      BY <1>2, PresentStep DEF OneAtATime
    <2>3. ASSUME NEW d \in Clients \ {c}
          PROVE  Present(req[d])' /\ req'[d].at = "idle"
      BY <2>1 DEF Present, HasRecipe, HasTerm
    <2>4. QED
      BY <2>2, <2>3 DEF OneAtATime
  <1>3. QED
    BY <1>1, <1>2 DEF SerialNext

LEMMA SerialFirst == Init => OneAtATime
  BY DEF Init, OneAtATime, Present, HasRecipe, HasTerm, Idle

\* Requests that run one at a time are apart.
LEMMA SerialIsApart == SerialSpec => ApartSpec
  <1>1. OneAtATime => Apart
    BY DEF OneAtATime, Apart, Settled, Checked, Retires, HoldsTerm
  <1>2. [SerialNext]_vars => [Next]_vars
    BY DEF SerialNext, Next
  <1>3. OneAtATime' /\ [SerialNext]_vars => [Next /\ Apart']_vars
    <2>1. OneAtATime' => Apart'
      BY DEF OneAtATime, Apart, Settled, Checked, Retires, HoldsTerm
    <2>2. QED
      BY <1>2, <2>1
  <1>4. QED
    BY <1>2, <1>3, TypedInit, TypedStep, SerialFirst, SerialStep, PTL DEF SerialSpec, ApartSpec

\* One request at a time, then, the router implements the promised cookbook.
THEOREM RecipesSerialRefinement == SerialSpec => KeepsThePromise
  BY SerialIsApart, RecipesRefinement

\* One request at a time, no handler ever finds its row gone: only a rename to a
\* name that is taken fails with a 500.
LEMMA OnlyConflictingStep ==
    Typed /\ OneAtATime /\ [SerialNext]_vars =>
      (reply' = "500" =>
         \/ reply = "500" /\ UNCHANGED vars
         \/ \E c \in Clients :
               req[c].at = "rename_key" /\ NameTaken(req[c].kind, req[c].new, req[c].tid))
  <1> SUFFICES ASSUME Typed, OneAtATime, NEW c \in Clients,
                      (Alone /\ Arrival(c)) \/ Continue(c), reply' = "500"
               PROVE  req[c].at = "rename_key" /\ NameTaken(req[c].kind, req[c].new, req[c].tid)
    BY DEF SerialNext, vars
  <1>1. Present(req[c])
    BY DEF OneAtATime
  <1>2. CASE RenameTerm(c) \/ TakeName(c)
    BY <1>1, <1>2 DEF RenameTerm, TakeName, Present, HasTerm, Answer, Goto
  <1>3. CASE RefreshRecipe(c) \/ RefreshTerm(c)
    BY <1>1, <1>3 DEF RefreshRecipe, RefreshTerm, Present, HasRecipe, HasTerm, Answer
  <1>4. CASE CommitUpdate(c)
    BY <1>1, <1>4 DEF CommitUpdate, Present, HasRecipe, Answer, Goto
  <1>5. CASE CommitCreate(c) \/ CommitDelete(c) \/ CommitRename(c) \/ DropTerm(c)
    BY <1>5 DEF CommitCreate, CommitDelete, CommitRename, DropTerm, Answer, Goto
  <1>6. CASE \/ UpdateCheckCategory(c) \/ CheckCuisine(c) \/ CountUses(c)
             \/ FindRecipes(c) \/ \E r \in RecipeIds : UpdateRow(c, r)
    BY <1>6 DEF UpdateCheckCategory, CheckCuisine, CountUses, FindRecipes, UpdateRow,
                Answer, Goto
  <1>7. CASE DeadlockAborts(c)               \* takes two
    <2>1. PICK d \in Clients : d # c /\ HoldsOn(d) /\ HoldsOn(c)
      BY <1>7, DeadlocksContend DEF DeadlockAborts, Contends
    <2>2. QED
      BY <2>1 DEF OneAtATime, HoldsTerm, HoldsOn, MovesSlug
  <1>8. CASE Arrival(c)
    BY <1>8 DEF Arrival, RecipeArrival, CategoryArrival, CuisineArrival, TermArrival,
                CreateRecipe, UpdateRecipe, DeleteRecipe, CreateTerm, UpdateTerm, DeleteTerm,
                Answer, Goto
  <1>9. QED
    BY <1>2, <1>3, <1>4, <1>5, <1>6, <1>7, <1>8 DEF Continue

THEOREM RecipesOnlyConflictFails == SerialSpec => OnlyConflictingRenameFails
  <1>1. [SerialNext]_vars => [Next]_vars
    BY DEF SerialNext, Next
  <1>2. Typed /\ OneAtATime /\ [SerialNext]_vars =>
          [reply' = "500" =>
             \E c \in Clients :
                req[c].at = "rename_key" /\ NameTaken(req[c].kind, req[c].new, req[c].tid)]_vars
    BY OnlyConflictingStep
  <1>3. QED
    BY <1>1, <1>2, TypedInit, TypedStep, SerialFirst, SerialStep, PTL
       DEF SerialSpec, OnlyConflictingRenameFails

------------------------------------------------------------------------------
(* Updates against renames *)

LEMMA KeepsRenameStep ==
    ASSUME Typed, [Next]_vars, NEW c \in Clients, NEW k \in Kinds,
           req[c].at = "update_commit", req'[c].at = "refresh_recipe",
           recipes[req[c].rid] \notin {Unborn, Deleted}, req[c].pay[k] = req[c].seen[k]
    PROVE  recipes'[req[c].rid][k] = recipes[req[c].rid][k]
  <1>1. PICK d \in Clients : Arrival(d) \/ Continue(d)
    BY DEF Next, vars
  <1>2. d = c
    <2>1. \A e \in Clients \ {d} : req'[e] = req[e]
      BY <1>1, OnlyOneMoves
    <2>2. req'[c] # req[c]
      OBVIOUS
    <2>3. QED
      BY <2>1, <2>2
  <1>3. CommitUpdate(c)
    <2>1. ~Arrival(c)
      BY DEF Arrival, RecipeArrival, CategoryArrival, CuisineArrival, TermArrival,
             CreateRecipe, UpdateRecipe, DeleteRecipe, CreateTerm, UpdateTerm, DeleteTerm
    <2>2. ~CheckCuisine(c)
      <3>1. ASSUME CheckCuisine(c)
            PROVE  req[c].at = "create_cuisine" \/ req[c].at = "update_cuisine"
        BY <3>1 DEF CheckCuisine
      <3>2. QED
        BY <3>1
    <2>3. ~(\/ UpdateCheckCategory(c) \/ CommitCreate(c) \/ RefreshRecipe(c) \/ CommitDelete(c)
            \/ CommitRename(c) \/ RefreshTerm(c) \/ CountUses(c) \/ DropTerm(c))
      BY DEF UpdateCheckCategory, CommitCreate, RefreshRecipe, CommitDelete,
             CommitRename, RefreshTerm, CountUses, DropTerm
    <2>4. ~Renames(c)
      <3>1. ASSUME Renames(c)
            PROVE  req'[c] = Idle
        BY <3>1, RenameSteps DEF Answer, Typed, TypeOK
      <3>2. QED
        BY <3>1 DEF Idle
    <2>5. QED
      BY <1>1, <1>2, <2>1, <2>2, <2>3, <2>4 DEF Continue, Renames
  <1>4. req[c].rid \in RecipeIds /\ recipes[req[c].rid] \in Recipe
    BY <1>3 DEF CommitUpdate, Typed, TypeOK, TablesOK, Locals
  <1>5. CASE UNCHANGED recipes
    BY <1>5
  <1>6. CASE recipes' = [recipes EXCEPT ![req[c].rid] =
                           ChangedColumns(@, req[c].seen, req[c].pay)]
    <2>1. recipes'[req[c].rid] = ChangedColumns(recipes[req[c].rid], req[c].seen, req[c].pay)
      BY <1>4, <1>6 DEF Typed, TypeOK, TablesOK
    <2>2. k \in DOMAIN recipes[req[c].rid]
      BY <1>4 DEF Recipe, Kinds
    <2>3. QED
      BY <2>1, <2>2 DEF ChangedColumns
  <1>7. QED
    BY <1>3, <1>5, <1>6 DEF CommitUpdate

\* An update never takes back a rename that overtook it, however many run.
THEOREM RecipesUpdateKeepsRename == Spec => UpdateKeepsRename
  <1>1. Typed /\ [Next]_vars =>
          [\A c \in Clients, k \in Kinds :
             (/\ req[c].at = "update_commit" /\ req'[c].at = "refresh_recipe"
              /\ recipes[req[c].rid] \notin {Unborn, Deleted}
              /\ req[c].pay[k] = req[c].seen[k])
             => recipes'[req[c].rid][k] = recipes[req[c].rid][k]]_vars
    BY KeepsRenameStep
  <1>2. QED
    BY <1>1, TypedInit, TypedStep, PTL DEF Spec, UpdateKeepsRename

=============================================================================
