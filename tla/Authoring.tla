------------------------------ MODULE Authoring ------------------------------
(***************************************************************************)
(* The scripts that write to the content API from an author's desk, while  *)
(* moderators edit the same rows in the admin pages.                       *)
(*                                                                         *)
(* load_recipes.py posts the recipes of a file, and puts those that exist; *)
(* backfill_servings.py lists the recipes and puts back the ones whose     *)
(* summary says how many they serve; load_class_tools.py reads a class and *)
(* puts it back with a new list of tools.  A put carries the whole row.    *)
(*                                                                         *)
(* A script's call is in flight from its request to its answer, and its    *)
(* handler runs it statement by statement.  Of a moderator's request there *)
(* is the commit: what it looked up may be out of date by then.            *)
(***************************************************************************)
EXTENDS Servings

CONSTANTS
    RecipeIds, TermIds, Slugs,
    Categories,     \* of categories, stripped
    Counts,         \* servings a moderator may set
    Texts,          \* summaries a moderator may write
    Files,          \* the files load_recipes.py is run on: sets of payloads,
                    \* what a record leaves out at its default
    Bodies, Tools,  \* of the class: its other fields, and its list of tools
    Yields, Times,  \* bound: what imported pages say of yield and of times
    Sources,        \* bound: the names and addresses of those pages
    Edits,          \* bound on the moderators' requests
    Null, Unborn, Deleted

Row == [slug : Slugs, category : Categories \cup {Null}, summary : Texts, servings : Counts]

\* Null and the two ways of having no row are neither rows nor names.  What a
\* summary says is a count the schema allows (1..1000), if it says one.
ASSUME AuthoringAssumption ==
    /\ Files \subseteq SUBSET Row
    /\ {Null, Unborn, Deleted} \cap (Row \cup Categories) = {}
    /\ Unborn # Deleted
    /\ 1 \in Counts /\ Counts \subseteq Nat
    /\ \A s \in Texts : SummaryCount(s) \in Counts \cup {0}
    /\ Edits \in Nat

\* The times of a page are words like "total", "30" and "min": none of those
\* the expressions look for.
ASSUME TimesAssumption ==
    /\ Yields \subseteq Seq(Words) /\ Times \subseteq Seq(Words)
    /\ Sources \subseteq Seq(Words)
    /\ \A t \in Times : ~InText(Wanted, t)

VARIABLES
    rows,       \* rows[id]: a row of the recipes, Unborn or Deleted
    terms,      \* terms[id]: a category's name, Unborn or Deleted
    class,      \* a class, or Deleted
    script,     \* the script that is running, with its locals
    call,       \* the script's call in flight, with its handler's locals
    written,    \* history: recipes the moderators have written since it began
    touched,    \* history: slugs of such recipes, until the script next writes
                \* or reads the recipe of that slug
    edits       \* counts the moderators' requests, up to Edits

vars == <<rows, terms, class, script, call, written, touched, edits>>
tables == <<rows, terms, class>>

Class == [body : Bodies, tools : Tools]
NoScript == [at |-> "none"]
NoCall == [by |-> "nobody", at |-> "none"]

Script ==
    [at : {"load"},
     file : Files, todo : SUBSET Row,   \* records still to post
     put : SUBSET Row,                  \* the one whose post was a conflict
     failed : BOOLEAN]
    \cup
    [at : {"backfill"},
     todo : SUBSET Row,                 \* of the list read, the rows to put back
     failed : BOOLEAN]
    \cup [at : {"tools"}, read : Class, new : Tools]

Call ==
    [by : {"load"}, at : {"post", "insert"}, row : Row]
    \cup [by : {"load", "backfill"}, at : {"read"}, row : Row]
    \cup [by : {"load", "backfill"}, at : {"check", "update"}, row : Row,
          id : RecipeIds, seen : Row]   \* the recipe, as the handler read it
    \cup [by : {"tools"}, at : {"class_read"}, new : Class]
    \cup [by : {"tools"}, at : {"class_update"}, new : Class, seen : Class]

TypeOK ==
    /\ rows \in [RecipeIds -> Row \cup {Unborn, Deleted}]
    /\ terms \in [TermIds -> Categories \cup {Unborn, Deleted}]
    /\ class \in Class \cup {Deleted}
    /\ script \in Script \cup {NoScript}
    /\ call \in Call \cup {NoCall}
    /\ written \subseteq RecipeIds /\ touched \subseteq Slugs
    /\ edits \in 0..Edits

Init ==
    /\ rows = [r \in RecipeIds |-> Unborn]
    /\ terms = [t \in TermIds |-> Unborn]
    /\ class \in Class
    /\ script = NoScript /\ call = NoCall
    /\ written = {} /\ touched = {}
    /\ edits = 0

-----------------------------------------------------------------------------
(* The tables. *)

Live == {r \in RecipeIds : rows[r] \notin {Unborn, Deleted}}
Stored == {rows[r] : r \in Live}
BySlug(s) == {r \in Live : rows[r].slug = s}
TermNames == {terms[t] : t \in TermIds} \ {Unborn, Deleted}

\* _ensure_valid_category
Valid(row) == row.category \in TermNames \cup {Null}

\* Variant: the UPDATE writes every field of the body.
WholeBody(now, seen, new) == new

\* The UPDATE a commit flushes names only the columns that differ from the row
\* as it was loaded; the others keep whatever they hold by now.
ChangedColumns(now, seen, new) ==
    [col \in DOMAIN now |-> IF new[col] = seen[col] THEN now[col] ELSE new[col]]

-----------------------------------------------------------------------------
(* Moderators in the admin pages: any commit of a request of theirs. *)

SlugsOf(some) == {row.slug : row \in some \ {Unborn, Deleted}}

Edit ==
    LET changed == {r \in RecipeIds : rows'[r] # rows[r]} IN
    /\ edits < Edits /\ edits' = edits + 1
    /\ written' = written \cup changed
    /\ touched' = touched \cup SlugsOf({rows[r] : r \in changed})
                          \cup SlugsOf({rows'[r] : r \in changed})
    /\ UNCHANGED <<script, call>>

\* create_recipe, update_recipe and delete_recipe: a row whose slug nobody has,
\* and whose category was there when it was looked up.
EditRecipe ==
    /\ \E r \in RecipeIds :
        \/ \E row \in Row :
            /\ rows[r] # Deleted /\ BySlug(row.slug) \subseteq {r}
            /\ rows' = [rows EXCEPT ![r] = row]
        \/ r \in Live /\ rows' = [rows EXCEPT ![r] = Deleted]
    /\ Edit /\ UNCHANGED <<terms, class>>

\* create_category, update_category with its cascade, and delete_category of
\* one that no recipe carried when its recipes were counted.
EditTerm ==
    /\ \E t \in TermIds :
        \/ \E n \in Categories \ TermNames :
            /\ terms[t] # Deleted
            /\ terms' = [terms EXCEPT ![t] = n]
            /\ rows' = [r \in RecipeIds |->
                    IF r \in Live /\ rows[r].category = terms[t]
                    THEN [rows[r] EXCEPT !.category = n] ELSE rows[r]]
        \/ /\ terms[t] \in Categories
           /\ terms' = [terms EXCEPT ![t] = Deleted]
           /\ UNCHANGED rows
    /\ Edit /\ UNCHANGED class

\* update_class and delete_class.
EditClass ==
    /\ class # Deleted
    /\ class' \in Class \cup {Deleted}
    /\ UNCHANGED <<rows, terms>> /\ Edit

-----------------------------------------------------------------------------
(* The scripts, one at a time.  sys.exit and Ctrl-C end one anywhere, and the
   call it has in flight is run all the same. *)

\* Assumed: the next script is started when that call is done with.
Run(s) ==
    /\ script = NoScript /\ call = NoCall
    /\ script' = s /\ written' = {} /\ touched' = {}
    /\ UNCHANGED <<tables, call, edits>>

End ==
    /\ script # NoScript
    /\ script' = NoScript
    /\ UNCHANGED <<tables, call, written, touched, edits>>

Request(c) ==
    /\ call = NoCall /\ call' = c
    /\ UNCHANGED <<tables, written, touched, edits>>

\* load_data: a file in which a slug comes twice is refused.
LoadData(file) == \A p, q \in file : p.slug = q.slug => p = q

BeginLoad(file) ==
    /\ LoadData(file)
    /\ Run([at |-> "load", file |-> file, todo |-> file, put |-> {}, failed |-> FALSE])

\* load_to_api: POST, and on 409 a PUT of the same record.
LoadPost(rec) ==
    /\ script.at = "load" /\ script.put = {} /\ rec \in script.todo
    /\ script' = [script EXCEPT !.todo = @ \ {rec}]
    /\ Request([by |-> "load", at |-> "post", row |-> rec])

LoadPut(rec) ==
    /\ script.at = "load" /\ rec \in script.put
    /\ script' = [script EXCEPT !.put = {}]
    /\ Request([by |-> "load", at |-> "read", row |-> rec])

\* Variant: every recipe whose summary says more than 1.
ToSetAll(list) == {row \in list : SummaryCount(row.summary) > 1}

\* Of the list, the recipes still at 1 whose summary says more.
ToSet(list) == {row \in list : row.servings = 1 /\ SummaryCount(row.summary) > 1}

BeginBackfill == Run([at |-> "backfill", todo |-> ToSet(Stored), failed |-> FALSE])

\* Variant: WRITE_FIELDS without the category.
PayloadBare(row) ==
    [row EXCEPT !.servings = SummaryCount(row.summary), !.category = Null]

\* The row as it was listed, with the count recovered from its summary.
Payload(row) == [row EXCEPT !.servings = SummaryCount(row.summary)]

BackfillPut(row) ==
    /\ script.at = "backfill" /\ row \in script.todo
    /\ script' = [script EXCEPT !.todo = @ \ {row}]
    /\ Request([by |-> "backfill", at |-> "read", row |-> Payload(row)])

\* find_class: there must be one.
BeginTools(tools) ==
    /\ class # Deleted
    /\ Run([at |-> "tools", read |-> class, new |-> tools])

ToolsPut ==
    /\ script.at = "tools" /\ UNCHANGED script
    /\ Request([by |-> "tools", at |-> "class_read",
                new |-> [script.read EXCEPT !.tools = script.new]])

-----------------------------------------------------------------------------
(* The API's side of the call. *)

\* The answer, a success or not.  load_class_tools.py ends with it.
Answer(ok) ==
    /\ call' = NoCall
    /\ script' = IF script.at \in {"load", "backfill"}
                 THEN [script EXCEPT !.failed = @ \/ ~ok] ELSE NoScript

\* Variant: a recipe that exists is taken to be loaded.
TakenForLoaded == Answer(TRUE)

\* A post answered 409: load_recipes.py puts the record next.
Conflict ==
    /\ call' = NoCall
    /\ script' = IF script.at = "load" THEN [script EXCEPT !.put = {call.row}] ELSE script

\* Of create_recipe and update_recipe, the lookup of the category; 422.
Check(at, next) ==
    /\ call.at = at
    /\ \/ Valid(call.row) /\ call' = [call EXCEPT !.at = next] /\ UNCHANGED script
       \/ ~Valid(call.row) /\ Answer(FALSE)
    /\ UNCHANGED <<tables, written, touched, edits>>

PostCheck == Check("post", "insert")
PutCheck == Check("check", "update")

\* create_recipe's commit: 409, or a row, and then 201, or 500 if the refresh
\* fails.
Insert ==
    /\ call.at = "insert"
    /\ \/ /\ BySlug(call.row.slug) # {}
          /\ Conflict /\ UNCHANGED <<rows, touched>>
       \/ /\ BySlug(call.row.slug) = {}
          /\ \E r \in RecipeIds : rows[r] = Unborn /\ rows' = [rows EXCEPT ![r] = call.row]
          /\ touched' = touched \ {call.row.slug}
          /\ \E ok \in BOOLEAN : Answer(ok)
    /\ UNCHANGED <<terms, class, written, edits>>

\* update_recipe: the scripts put a record under the slug it has; 404.
PutRead ==
    /\ call.at = "read"
    /\ \/ BySlug(call.row.slug) = {} /\ Answer(FALSE) /\ UNCHANGED touched
       \/ /\ \E r \in BySlug(call.row.slug) :
                call' = [by |-> call.by, at |-> "check", row |-> call.row,
                         id |-> r, seen |-> rows[r]]
          /\ touched' = touched \ {call.row.slug} /\ UNCHANGED script
    /\ UNCHANGED <<tables, written, edits>>

\* Its commit: 200 or 500; 500 too if the row is gone.
Update ==
    /\ call.at = "update"
    /\ \/ call.id \notin Live /\ Answer(FALSE) /\ UNCHANGED rows
       \/ /\ call.id \in Live
          /\ rows' = [rows EXCEPT ![call.id] = ChangedColumns(@, call.seen, call.row)]
          /\ \E ok \in BOOLEAN : Answer(ok)
    /\ UNCHANGED <<terms, class, written, touched, edits>>

\* update_class, by id: 404, and then its commit.
ClassRead ==
    /\ call.at = "class_read"
    /\ \/ class = Deleted /\ Answer(FALSE)
       \/ /\ class # Deleted /\ UNCHANGED script
          /\ call' = [by |-> "tools", at |-> "class_update", new |-> call.new, seen |-> class]
    /\ UNCHANGED <<tables, written, touched, edits>>

ClassUpdate ==
    /\ call.at = "class_update"
    /\ class' = IF class = Deleted THEN Deleted
                ELSE ChangedColumns(class, call.seen, call.new)
    /\ \E ok \in BOOLEAN : Answer(ok)
    /\ UNCHANGED <<rows, terms, written, touched, edits>>

\* A call that comes to nothing: 401 once the token is out of date, 500, 503.
Fail ==
    /\ call # NoCall /\ Answer(FALSE)
    /\ UNCHANGED <<tables, written, touched, edits>>

Handler ==
    PostCheck \/ Insert \/ PutRead \/ PutCheck \/ Update \/ ClassRead \/ ClassUpdate \/ Fail

Next ==
    \/ EditRecipe \/ EditTerm \/ EditClass
    \/ \E file \in Files : BeginLoad(file) \/ \E rec \in file : LoadPost(rec) \/ LoadPut(rec)
    \/ BeginBackfill \/ \E row \in Row : BackfillPut(row)
    \/ \E tools \in Tools : BeginTools(tools)
    \/ ToolsPut
    \/ Handler
    \/ End

Spec == Init /\ [][Next]_vars

-----------------------------------------------------------------------------
(* Properties. *)

\* A backfill changes nothing but servings in a recipe nobody has written since
\* it read the list, and a load of tools nothing but tools in a class whose
\* other fields are as it read them ("the PUT is a no-op on everything else",
\* backfill_servings.py:33; "a load never clobbers the title, body, or publish
\* state", load_class_tools.py:44-45).
ScriptsKeepTheRest ==
    [][ edits' = edits =>
        /\ call.by = "backfill" => \A r \in Live \ written :
                [rows[r] EXCEPT !.servings = 1] = [rows'[r] EXCEPT !.servings = 1]
        /\ call.by = "tools" /\ class # Deleted /\ class.body = call.new.body =>
                class'.body = class.body ]_vars

\* A count above 1 is only lost to a backfill if that recipe was written after
\* the list was read ("a recipe already set to >1 is left alone",
\* backfill_servings.py:14).
CountsStand ==
    [][ edits' = edits /\ call.by = "backfill" =>
        \A r \in Live \ written : rows[r].servings > 1 => rows'[r] = rows[r] ]_vars

\* A script that reports no failure has done what it was run for: a record of
\* the file is in the table as it stands, and a second backfill would find
\* nothing to set, wherever no moderator has written a recipe of that slug since
\* the script last did.
RunsConverge ==
    call = NoCall =>
        /\ script.at = "load" /\ script.todo = {} /\ script.put = {} /\ ~script.failed =>
            \A rec \in script.file : rec \in Stored \/ rec.slug \in touched
        /\ script.at = "backfill" /\ script.todo = {} /\ ~script.failed =>
            \A row \in ToSet(Stored) : row.slug \in touched

\* The next two are about texts alone; they are looked at where nothing has
\* been written yet.  They are of sources whose name and address hold none of
\* the words looked for.
Untouched == Stored = {} /\ script = NoScript /\ edits = 0
PlainSources == {source \in Sources : ~InText(Wanted, source)}

\* A yield that names one count is never given two: by whichever road it came
\* into the table, once backfilled the recipe serves the same, or one road has
\* found no count and left it to the review list.
ImportsAgree ==
    Untouched => \A y \in Yields, t \in Times, source \in PlainSources :
        OneCount(y) => \/ ByApi(y, t, source) = ByScript(y, t, source)
                       \/ 1 \in {ByApi(y, t, source), ByScript(y, t, source)}

\* The minutes in a summary, and the numbers in the address of its source, are
\* never taken for a count: the fault the comment at backfill_servings.py:39-42
\* tells of.
TimesAreNotCounts ==
    Untouched => \A y \in Yields, t \in Times, source \in PlainSources :
        /\ ByApi(y, t, source) = ByApi(y, <<>>, <<>>)
        /\ ByScript(y, t, source) = ByScript(y, <<>>, <<>>)
=============================================================================
