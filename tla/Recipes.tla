------------------------------ MODULE Recipes ------------------------------
(***************************************************************************)
(* The recipes router of the comments API: recipes, and the two            *)
(* moderator-maintained vocabularies (categories and cuisines) whose names *)
(* recipes carry as plain text.                                            *)
(*                                                                         *)
(* Every request runs in a session of its own, at READ COMMITTED.  A       *)
(* request is a chain of awaited statements, and other requests run        *)
(* between any two of them, so one action below is one awaited statement   *)
(* (with the Python between it and the next await).  What a request has    *)
(* flushed and not yet committed is seen by nobody else, and the rows it   *)
(* has written stay locked until it commits.                               *)
(***************************************************************************)
EXTENDS Cookbook

CONSTANT Clients    \* moderators' requests that may be in flight together

VARIABLES
    req,        \* req[client]: where its request is, and the locals it holds
    reply       \* the status the last step answered with, "none" if it did not

vars == <<recipes, vocab, req, reply>>

Points ==
    {"idle", "create_cuisine", "create_commit", "update_category", "update_cuisine",
     "update_commit", "delete_commit", "rename", "rename_key", "rename_rows", "cascade",
     "rename_commit", "count", "drop", "refresh_recipe", "refresh_term"}
Replies == {"none", "ok", "404", "409", "422", "500"}

Request ==
    [at : Points,
     pay : Recipe \cup {Null},              \* the request body
     rid : RecipeIds \cup {Null},           \* the recipe loaded, or inserted
     seen : Recipe \cup {Null},             \* its columns as they were loaded
     kind : Kinds,
     tid : TermIds \cup {Null},             \* the category or cuisine loaded
     old : AllInputs \cup {Null},           \* its name as it was loaded
     new : AllInputs \cup {Null},           \* the name it is to have
     rows : SUBSET RecipeIds,               \* recipes a rename has updated
     todo : SUBSET RecipeIds]               \* those its cascade found, and has yet to reach

Idle ==
    [at |-> "idle", pay |-> Null, rid |-> Null, seen |-> Null, kind |-> "category",
     tid |-> Null, old |-> Null, new |-> Null, rows |-> {}, todo |-> {}]

TypeOK ==
    /\ TablesOK
    /\ req \in [Clients -> Request]
    /\ reply \in Replies

Init ==
    /\ CookbookInit
    /\ req = [c \in Clients |-> Idle]
    /\ reply = "none"

------------------------------------------------------------------------------
(* What a statement checks, and what it has to wait for. *)

\* _ensure_valid_category and _ensure_valid_cuisine: the name, as it arrived,
\* is null or in the table at this moment.
NameIsValid(k, n) == n = Null \/ n \in TermNames(k)

\* A rename holds the lock of its term, and the place of the term's old name in
\* the unique index, from the flush of the new name to its commit; the place of
\* the new name from the moment the index has let it in; and the recipes its
\* cascade has updated.
HoldsTerm(d) == req[d].at \in {"rename_key", "rename_rows", "cascade", "rename_commit"}
HoldsKey(d) == req[d].at \in {"rename_rows", "cascade", "rename_commit"}
NamesHeld(d, k) ==
    {n \in AllInputs :
       /\ req[d].kind = k
       /\ \/ HoldsTerm(d) /\ n = vocab[k][req[d].tid]
          \/ HoldsKey(d) /\ n = req[d].new}

TermLocked(c, k, t) ==
    \E d \in Clients \ {c} : HoldsTerm(d) /\ req[d].kind = k /\ req[d].tid = t
RecipeLocked(c, r) == \E d \in Clients \ {c} : r \in req[d].rows

\* Variant: names compared in Python, which knows nothing of uncommitted renames.
NoWaitForNames(c, k, n) == FALSE

NameLocked(c, k, n) == \E d \in Clients \ {c} : n \in NamesHeld(d, k)

\* An update that gives its recipe another slug holds the recipe, and the place of
\* the old slug, until it is let in at the place of the new one.  Its flush is one
\* step with its commit here, so this says only that it may be waiting there.
MovesSlug(c) ==
    /\ req[c].at = "update_commit" /\ req[c].pay.slug # req[c].seen.slug
    /\ req[c].rid \in LiveRecipes /\ ~RecipeLocked(c, req[c].rid)

RecipesHeld(c) == req[c].rows \cup {r \in {req[c].rid} : MovesSlug(c)}

\* Nobody else holds locks while it waits.  A rename waits for the place of its new
\* name, and for a recipe of its cascade; an update for the place of its new slug,
\* if a recipe that has it is being written.
WaitsFor(c, d) ==
    /\ c # d
    /\ \/ req[c].at = "rename_key" /\ req[c].new \in NamesHeld(d, req[c].kind)
       \/ req[c].at = "cascade" /\ req[c].todo \cap RecipesHeld(d) # {}
       \/ /\ MovesSlug(c)
          /\ \E r \in RecipesHeld(d) \ {req[c].rid} : recipes[r].slug = req[c].pay.slug

\* A request is in a deadlock if it is one of some that can be permuted so that
\* each waits for the next: then every one of them is on a circle.
Deadlocked(c) ==
    \E D \in SUBSET Clients : \E next \in [D -> D] :
       /\ c \in D
       /\ D = {next[d] : d \in D}
       /\ \A d \in D : WaitsFor(d, next[d])

Answer(c, status) ==
    /\ req' = [req EXCEPT ![c] = Idle]
    /\ reply' = status

Goto(c, locals) ==
    /\ req' = [req EXCEPT ![c] = locals]
    /\ reply' = "none"

------------------------------------------------------------------------------
(* POST /recipes, PUT /recipes/{slug}, DELETE /recipes/{slug} *)

\* A fresh primary key.  RecipeIds bounds the recipes ever created.
Fresh(r) == recipes[r] = Unborn /\ \A d \in Clients : req[d].rid # r

\* Arrival of a create, and its first statement: the category check.
CreateRecipe(c, p) ==
    /\ req[c].at = "idle"
    /\ \E r \in RecipeIds :
         /\ Fresh(r)
         /\ IF NameIsValid("category", p.category)
            THEN Goto(c, [Idle EXCEPT !.at = "create_cuisine", !.pay = p, !.rid = r])
            ELSE Answer(c, "422")
    /\ UNCHANGED <<recipes, vocab>>

\* Arrival of an update: the row is read by its slug.
UpdateRecipe(c, s, p) ==
    /\ req[c].at = "idle"
    /\ \/ /\ ~SlugTaken(s, Null)
          /\ Answer(c, "404")
       \/ \E r \in LiveRecipes :
            /\ recipes[r].slug = s
            /\ Goto(c, [Idle EXCEPT !.at = "update_category", !.pay = p, !.rid = r,
                                    !.seen = recipes[r]])
    /\ UNCHANGED <<recipes, vocab>>

UpdateCheckCategory(c) ==
    /\ req[c].at = "update_category"
    /\ IF NameIsValid("category", req[c].pay.category)
       THEN Goto(c, [req[c] EXCEPT !.at = "update_cuisine"])
       ELSE Answer(c, "422")
    /\ UNCHANGED <<recipes, vocab>>

\* The last check before the commit, of a create and of an update.
CheckCuisine(c) ==
    /\ \E next \in {<<"create_cuisine", "create_commit">>, <<"update_cuisine", "update_commit">>} :
         /\ req[c].at = next[1]
         /\ IF NameIsValid("cuisine", req[c].pay.cuisine)
            THEN Goto(c, [req[c] EXCEPT !.at = next[2]])
            ELSE Answer(c, "422")
    /\ UNCHANGED <<recipes, vocab>>

CommitCreate(c) ==
    /\ req[c].at = "create_commit"
    /\ IF SlugTaken(req[c].pay.slug, Null)
       THEN Answer(c, "409") /\ UNCHANGED recipes
       ELSE /\ recipes' = [recipes EXCEPT ![req[c].rid] = req[c].pay]
            /\ Goto(c, [Idle EXCEPT !.at = "refresh_recipe", !.rid = req[c].rid])
    /\ UNCHANGED vocab

\* Variant: the UPDATE writes every field of the body.
WholeBody(row, seen, pay) == pay

\* The UPDATE a commit flushes names only the columns that differ from the row
\* as it was loaded; the others keep whatever they hold by now.
ChangedColumns(row, seen, pay) ==
    [col \in DOMAIN row |-> IF pay[col] # seen[col] THEN pay[col] ELSE row[col]]

CommitUpdate(c) ==
    LET r == req[c].rid  p == req[c].pay  s == req[c].seen IN
    /\ req[c].at = "update_commit"
    /\ \/ /\ p = s                           \* nothing to flush
          /\ Goto(c, [Idle EXCEPT !.at = "refresh_recipe", !.rid = r])
          /\ UNCHANGED recipes
       \/ /\ p # s
          /\ r \notin LiveRecipes            \* StaleDataError, not caught
          /\ Answer(c, "500")
          /\ UNCHANGED recipes
       \/ /\ p # s
          /\ r \in LiveRecipes
          /\ ~RecipeLocked(c, r)
          /\ IF p.slug # s.slug /\ SlugTaken(p.slug, r)
             THEN Answer(c, "409") /\ UNCHANGED recipes
             ELSE /\ recipes' = [recipes EXCEPT ![r] = ChangedColumns(@, s, p)]
                  /\ Goto(c, [Idle EXCEPT !.at = "refresh_recipe", !.rid = r])
    /\ UNCHANGED vocab

\* session.refresh after the commit: the row may be gone again.
RefreshRecipe(c) ==
    /\ req[c].at = "refresh_recipe"
    /\ Answer(c, IF req[c].rid \in LiveRecipes THEN "ok" ELSE "500")
    /\ UNCHANGED <<recipes, vocab>>

DeleteRecipe(c, s) ==
    /\ req[c].at = "idle"
    /\ \/ /\ ~SlugTaken(s, Null)
          /\ Answer(c, "404")
       \/ \E r \in LiveRecipes :
            /\ recipes[r].slug = s
            /\ Goto(c, [Idle EXCEPT !.at = "delete_commit", !.rid = r])
    /\ UNCHANGED <<recipes, vocab>>

\* Deleting a row another request has deleted meanwhile is only a warning.
CommitDelete(c) ==
    /\ req[c].at = "delete_commit"
    /\ ~RecipeLocked(c, req[c].rid)
    /\ recipes' = [recipes EXCEPT ![req[c].rid] = Deleted]
    /\ Answer(c, "ok")
    /\ UNCHANGED vocab

------------------------------------------------------------------------------
(* POST, PUT and DELETE under /admin/categories and /admin/cuisines *)

CreateTerm(c, k, n) ==
    /\ req[c].at = "idle"
    /\ ~NameLocked(c, k, Strip[n])
    /\ IF NameTaken(k, Strip[n], Null)
       THEN Answer(c, "409") /\ UNCHANGED vocab
       ELSE \E t \in TermIds :
              /\ vocab[k][t] = Unborn
              /\ vocab' = [vocab EXCEPT ![k][t] = Strip[n]]
              /\ Goto(c, [Idle EXCEPT !.at = "refresh_term", !.kind = k, !.tid = t])
    /\ UNCHANGED recipes

\* Arrival of a rename: session.get loads the term, and its name as it is now.
UpdateTerm(c, k, t, n) ==
    /\ req[c].at = "idle"
    /\ IF t \in LiveTerms(k)
       THEN Goto(c, [Idle EXCEPT !.at = "rename", !.kind = k, !.tid = t,
                                 !.old = vocab[k][t], !.new = Strip[n]])
       ELSE Answer(c, "404")
    /\ UNCHANGED <<recipes, vocab>>

\* session.execute of the cascade flushes the term's new name first.  That UPDATE
\* takes the term's row; a row that is gone is a StaleDataError.
RenameTerm(c) ==
    LET k == req[c].kind  t == req[c].tid IN
    /\ req[c].at = "rename"
    /\ \/ /\ req[c].new = req[c].old          \* nothing to cascade
          /\ Goto(c, [Idle EXCEPT !.at = "refresh_term", !.kind = k, !.tid = t])
       \/ /\ req[c].new # req[c].old
          /\ ~TermLocked(c, k, t)
          /\ IF t \in LiveTerms(k) THEN Goto(c, [req[c] EXCEPT !.at = "rename_key"])
                                    ELSE Answer(c, "500")
    /\ UNCHANGED <<recipes, vocab>>

\* It then enters the name in the unique index.  A name that is taken fails here,
\* before the try block that would answer 409.
TakeName(c) ==
    LET k == req[c].kind IN
    /\ req[c].at = "rename_key"
    /\ ~NameLocked(c, k, req[c].new)
    /\ IF NameTaken(k, req[c].new, req[c].tid)
       THEN Answer(c, "500")
       ELSE Goto(c, [req[c] EXCEPT !.at = "rename_rows"])
    /\ UNCHANGED <<recipes, vocab>>

\* Where a cascade with these recipes to go is.
CascadeAt(todo) == IF todo = {} THEN "rename_commit" ELSE "cascade"

\* The cascading UPDATE itself.  Its snapshot is of the recipes that carry the
\* old name as it starts.
FindRecipes(c) ==
    LET found == Carrying(req[c].kind, req[c].old) IN
    /\ req[c].at = "rename_rows"
    /\ Goto(c, [req[c] EXCEPT !.at = CascadeAt(found), !.todo = found])
    /\ UNCHANGED <<recipes, vocab>>

\* It updates them one by one, in no particular order, and waits for each; one
\* that does not carry the name any more is left alone.
UpdateRow(c, r) ==
    LET todo == req[c].todo \ {r} IN
    /\ req[c].at = "cascade"
    /\ r \in req[c].todo
    /\ ~RecipeLocked(c, r)
    /\ Goto(c, [req[c] EXCEPT !.at = CascadeAt(todo), !.todo = todo,
                              !.rows = @ \cup ({r} \cap Carrying(req[c].kind, req[c].old))])
    /\ UNCHANGED <<recipes, vocab>>

\* PostgreSQL ends a transaction that is on a circle of waits.  The error is none
\* the handler catches, and the session is rolled back.
DeadlockAborts(c) ==
    /\ req[c].at \in {"rename_key", "cascade", "update_commit"}
    /\ Deadlocked(c)
    /\ Answer(c, "500")
    /\ UNCHANGED <<recipes, vocab>>

\* Variant: the cascade writes the term's key where its name belongs.
CommitRenameToKey(c) ==
    LET k == req[c].kind  t == req[c].tid IN
    /\ req[c].at = "rename_commit"
    /\ vocab' = [vocab EXCEPT ![k][t] = req[c].new]
    /\ recipes' = [r \in RecipeIds |->
                     IF r \in req[c].rows THEN [recipes[r] EXCEPT ![k] = t] ELSE recipes[r]]
    /\ Answer(c, "ok")

CommitRename(c) ==
    LET k == req[c].kind  t == req[c].tid IN
    /\ req[c].at = "rename_commit"
    /\ vocab' = [vocab EXCEPT ![k][t] = req[c].new]
    /\ recipes' = [r \in RecipeIds |->
                     IF r \in req[c].rows THEN [recipes[r] EXCEPT ![k] = req[c].new]
                                          ELSE recipes[r]]
    /\ Goto(c, [Idle EXCEPT !.at = "refresh_term", !.kind = k, !.tid = t])

RefreshTerm(c) ==
    /\ req[c].at = "refresh_term"
    /\ Answer(c, IF req[c].tid \in LiveTerms(req[c].kind) THEN "ok" ELSE "500")
    /\ UNCHANGED <<recipes, vocab>>

DeleteTerm(c, k, t) ==
    /\ req[c].at = "idle"
    /\ IF t \in LiveTerms(k)
       THEN Goto(c, [Idle EXCEPT !.at = "count", !.kind = k, !.tid = t, !.old = vocab[k][t]])
       ELSE Answer(c, "404")
    /\ UNCHANGED <<recipes, vocab>>

\* Variant: the delete is not refused while recipes carry the name.
CountNothing(c) ==
    /\ req[c].at = "count"
    /\ Goto(c, [req[c] EXCEPT !.at = "drop"])
    /\ UNCHANGED <<recipes, vocab>>

\* Variant: the term is refreshed before its recipes are counted.
CountRefreshed(c) ==
    LET k == req[c].kind  t == req[c].tid IN
    /\ req[c].at = "count"
    /\ IF t \notin LiveTerms(k) THEN Answer(c, "500")
       ELSE IF Carrying(k, vocab[k][t]) # {} THEN Answer(c, "409")
       ELSE Goto(c, [req[c] EXCEPT !.at = "drop"])
    /\ UNCHANGED <<recipes, vocab>>

\* How many recipes carry the name the term had when it was loaded.
CountUses(c) ==
    /\ req[c].at = "count"
    /\ IF Carrying(req[c].kind, req[c].old) # {}
       THEN Answer(c, "409")
       ELSE Goto(c, [req[c] EXCEPT !.at = "drop"])
    /\ UNCHANGED <<recipes, vocab>>

DropTerm(c) ==
    /\ req[c].at = "drop"
    /\ ~TermLocked(c, req[c].kind, req[c].tid)
    /\ vocab' = [vocab EXCEPT ![req[c].kind][req[c].tid] = Deleted]
    /\ Answer(c, "ok")
    /\ UNCHANGED recipes

------------------------------------------------------------------------------

RecipeArrival(c) ==
    \/ \E p \in Recipe : CreateRecipe(c, p)
    \/ \E s \in Slugs, p \in Recipe : UpdateRecipe(c, s, p)
    \/ \E s \in Slugs : DeleteRecipe(c, s)

TermArrival(c, k) ==
    \/ \E n \in Inputs[k] : CreateTerm(c, k, n)
    \/ \E t \in TermIds, n \in Inputs[k] : UpdateTerm(c, k, t, n)
    \/ \E t \in TermIds : DeleteTerm(c, k, t)

CategoryArrival(c) == TermArrival(c, "category")
CuisineArrival(c) == TermArrival(c, "cuisine")

Arrival(c) == RecipeArrival(c) \/ CategoryArrival(c) \/ CuisineArrival(c)

\* The next statement of a request in flight.
Continue(c) ==
    \/ UpdateCheckCategory(c) \/ CheckCuisine(c)
    \/ CommitCreate(c) \/ CommitUpdate(c) \/ RefreshRecipe(c) \/ CommitDelete(c)
    \/ RenameTerm(c) \/ TakeName(c) \/ FindRecipes(c) \/ \E r \in RecipeIds : UpdateRow(c, r)
    \/ DeadlockAborts(c) \/ CommitRename(c) \/ RefreshTerm(c)
    \/ CountUses(c) \/ DropTerm(c)

Next == \E c \in Clients : Arrival(c) \/ Continue(c)

Spec == Init /\ [][Next]_vars

\* One request at a time: what a single moderator at a keyboard does.
Alone == \A c \in Clients : req[c].at = "idle"
SerialNext == \E c \in Clients : (Alone /\ Arrival(c)) \/ Continue(c)
SerialSpec == Init /\ [][SerialNext]_vars

\* A request that has checked a name and may yet leave it in a recipe.
Checked(c) ==
    req[c].at \in {"create_cuisine", "create_commit", "update_cuisine", "update_commit"}

\* A request that may take a name away, from the load of its term on; and one
\* that has settled which recipes carry that name, or that none does.
Retires(c) == req[c].at = "rename" \/ HoldsTerm(c) \/ req[c].at \in {"count", "drop"}
Settled(c) == req[c].at \in {"cascade", "rename_commit", "drop"}

\* Requests side by side but for two things, which nothing in the code excludes:
\* a name is settled while another request has checked one, and two requests take
\* names away from one vocabulary.
Apart ==
    \A c, d \in Clients : c # d =>
        /\ ~(Settled(c) /\ Checked(d))
        /\ Retires(c) /\ Retires(d) => req[c].kind # req[d].kind
ApartSpec == Init /\ [][Next /\ Apart']_vars

------------------------------------------------------------------------------
(* Properties *)

\* No two live recipes share a slug, and no two live terms of a kind a name.
UniqueSlugs == \A r, q \in LiveRecipes : recipes[r].slug = recipes[q].slug => r = q
UniqueNames ==
    \A k \in Kinds : \A t, u \in LiveTerms(k) : vocab[k][t] = vocab[k][u] => t = u

\* Two renames in flight never have the same term, the same new name or a
\* recipe in common, and the name each one is about to commit is still free.
RenamesDisjoint ==
    \A c \in Clients :
       /\ HoldsTerm(c) => req[c].tid \in LiveTerms(req[c].kind)
       /\ HoldsKey(c) => ~NameTaken(req[c].kind, req[c].new, req[c].tid)
       /\ \A d \in Clients \ {c} :
            /\ req[c].rows \cap req[d].rows = {}
            /\ req[c].kind = req[d].kind =>
                 /\ HoldsTerm(c) /\ HoldsTerm(d) => req[c].tid # req[d].tid
                 /\ HoldsKey(c) /\ HoldsKey(d) => req[c].new # req[d].new

\* Keys stay unique and renames apart, whatever creates, slug changes and
\* renames race (the unique constraints behind every 409 of the router).
UniqueKeys == UniqueSlugs /\ UniqueNames /\ RenamesDisjoint

\* An update whose body repeats the name the recipe had when it was loaded
\* never takes back a rename that committed while the update was in flight,
\* although update_recipe assigns every field of the body.
UpdateKeepsRename ==
    [][\A c \in Clients, k \in Kinds :
         (/\ req[c].at = "update_commit" /\ req'[c].at = "refresh_recipe"
          /\ recipes[req[c].rid] \notin {Unborn, Deleted}
          /\ req[c].pay[k] = req[c].seen[k])
         => recipes'[req[c].rid][k] = recipes[req[c].rid][k]]_vars

\* A rename to a name that is taken answers 409, as the handler's except clause says.
RenameConflictIs409 ==
    [][\A c \in Clients :
         (/\ req[c].at = "rename_key" /\ req'[c].at = "idle"
          /\ NameTaken(req[c].kind, req[c].new, req[c].tid))
         => reply' = "409"]_vars

\* A request in contention: a rename, or an update of a slug, that waits for another
\* such request while one waits for it.
HoldsOn(c) == HoldsTerm(c) \/ MovesSlug(c)
Contends(c) ==
    /\ HoldsOn(c)
    /\ \E d, e \in Clients \ {c} : WaitsFor(c, d) /\ WaitsFor(e, c) /\ HoldsOn(d)

\* However requests interleave, one fails with a 500 only if it renames to a name
\* that is taken, if the row it has loaded or written was deleted under it, or if
\* it is in contention, where PostgreSQL breaks a deadlock.  In particular creates,
\* deletions and edits that leave the slug alone are never caught in one.
OnlyLostRowsFail ==
    [][reply' = "500" =>
         \E c \in Clients :
            /\ req[c] # req'[c]
            /\ \/ req[c].at = "rename_key" /\ NameTaken(req[c].kind, req[c].new, req[c].tid)
               \/ /\ req[c].at \in {"update_commit", "refresh_recipe"}
                  /\ recipes[req[c].rid] = Deleted
               \/ /\ req[c].at \in {"rename", "refresh_term"}
                  /\ vocab[req[c].kind][req[c].tid] = Deleted
               \/ Contends(c)]_vars

\* One request at a time, no row is deleted under another: the only request that
\* fails with a 500 is a rename to a name that is taken.
OnlyConflictingRenameFails ==
    [][reply' = "500" =>
         \E c \in Clients :
            req[c].at = "rename_key" /\ NameTaken(req[c].kind, req[c].new, req[c].tid)]_vars

\* While requests are apart, one at a time for instance, the chain of statements
\* each handler runs is as good as one indivisible step of the promised cookbook.
KeepsThePromise == CookbookSpec

=============================================================================
