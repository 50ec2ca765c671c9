--------------------------- MODULE AuthoringProofs ---------------------------
(***************************************************************************)
(* The loading scripts against the moderators, for any tables, files and   *)
(* vocabularies: what a script, and the handler of its call, may take for  *)
(* granted of the rows they have read, and what a run that reports no      *)
(* failure has done.                                                       *)
(***************************************************************************)
EXTENDS Authoring, ServingsProofs

\* No two recipes have one slug.
UniqueSlugs ==
    \A p, q \in Live : rows[p].slug = rows[q].slug => p = q

\* A call is the running script's own, and its handler's copy of the row is
\* good, or the moderators have been at it.
CallHolds ==
    call # NoCall =>
        /\ script # NoScript => call.by = script.at
        /\ script.at = "load" => call.row \in script.file /\ script.put = {}
        /\ call.at \in {"check", "update"} =>
            /\ call.seen.slug = call.row.slug
            /\ call.row.slug \notin touched \/ call.id \notin written
                 => rows[call.id] = call.seen
            /\ call.id \in Live /\ rows[call.id].slug # call.row.slug
                 => rows[call.id].slug \in touched
        /\ call.by = "backfill" =>
            /\ call.row.servings > 1
            /\ \A r \in Live \ written : rows[r].slug = call.row.slug =>
                 rows[r].servings = 1 /\ [call.row EXCEPT !.servings = 1] = rows[r]

\* A load has posted what it no longer has to: every record of the file is in
\* the table, or still to post or put, or in the call, or touched.
LoadHolds ==
    script.at = "load" =>
        /\ LoadData(script.file)
        /\ script.todo \subseteq script.file /\ script.put \subseteq script.file
        /\ \A p, q \in script.put : p = q
        /\ ~script.failed => \A rec \in script.file :
            \/ rec \in Stored \cup script.todo \cup script.put
            \/ rec.slug \in touched
            \/ call # NoCall /\ rec = call.row

\* A backfill holds rows as they were listed, each with a count to set; whoever
\* has the slug of one has that row, unless he has been written since.
ListHolds ==
    script.at = "backfill" =>
        /\ \A p, q \in script.todo : p.slug = q.slug => p = q
        /\ \A row \in script.todo :
            /\ row.servings = 1 /\ SummaryCount(row.summary) > 1
            /\ call # NoCall => row.slug # call.row.slug
        /\ \A row \in script.todo, r \in Live \ written :
               rows[r].slug = row.slug => rows[r] = row
        /\ ~script.failed => \A row \in ToSet(Stored) :
            \/ row.slug \in touched \cup {p.slug : p \in script.todo}
            \/ call # NoCall /\ row.slug = call.row.slug

AuthoringInv == TypeOK /\ UniqueSlugs /\ CallHolds /\ LoadHolds /\ ListHolds

-----------------------------------------------------------------------------
(* Rows, scripts and calls. *)

\* A row is none of the two ways of having no row.
LEMMA RowIsRow ==
    ASSUME NEW row \in Row
    PROVE  /\ row \notin {Unborn, Deleted}
           /\ row.slug \in Slugs /\ row.category \in Categories \cup {Null}
           /\ row.summary \in Texts /\ row.servings \in Counts /\ row.servings \in Nat
  BY AuthoringAssumption DEF Row

\* Live are the recipes that have one.
LEMMA LiveRows ==
    ASSUME TypeOK
    PROVE  /\ Live = {r \in RecipeIds : rows[r] \in Row}
           /\ Stored \subseteq Row
           /\ \A s : BySlug(s) \subseteq Live
  BY RowIsRow DEF TypeOK, Live, Stored, BySlug

\* Each script has its locals.
LEMMA ScriptShape ==
    ASSUME TypeOK
    PROVE  /\ script.at = "load" =>
                  script \in [at : {"load"}, file : Files, todo : SUBSET Row,
                             put : SUBSET Row, failed : BOOLEAN]
           /\ script.at = "backfill" =>
                  script \in [at : {"backfill"}, todo : SUBSET Row, failed : BOOLEAN]
           /\ script.at = "tools" =>
                  script \in [at : {"tools"}, read : Class, new : Tools]
           /\ script = NoScript => script.at = "none"
           /\ script # NoScript => script.at \in {"load", "backfill", "tools"}
  BY DEF TypeOK, Script, NoScript

\* Each handler has its locals.
LEMMA CallShape ==
    ASSUME TypeOK
    PROVE  /\ call.at \in {"post", "insert"} =>
                  call \in [by : {"load"}, at : {"post", "insert"}, row : Row]
           /\ call.at = "read" =>
                  call \in [by : {"load", "backfill"}, at : {"read"}, row : Row]
           /\ call.at \in {"check", "update"} =>
                  call \in [by : {"load", "backfill"}, at : {"check", "update"}, row : Row,
                            id : RecipeIds, seen : Row]
           /\ call.at = "class_read" =>
                  call \in [by : {"tools"}, at : {"class_read"}, new : Class]
           /\ call.at = "class_update" =>
                  call \in [by : {"tools"}, at : {"class_update"}, new : Class, seen : Class]
           /\ call = NoCall => call.at = "none" /\ call.by = "nobody"
           /\ call # NoCall => call.at \in {"post", "insert", "read", "check", "update",
                                            "class_read", "class_update"}
           /\ call # NoCall /\ call.by \in {"load", "backfill"} => call.row \in Row
  BY DEF TypeOK, Call, NoCall

\* The row an UPDATE leaves: if nobody has written the row meanwhile, the body;
\* the slug is the one it has by now.
LEMMA ChangedRow ==
    ASSUME NEW now \in Row, NEW seen \in Row, NEW new \in Row, seen.slug = new.slug
    PROVE  /\ ChangedColumns(now, seen, new) \in Row
           /\ ChangedColumns(now, seen, new).slug = now.slug
           /\ now = seen => ChangedColumns(now, seen, new) = new
  <1> DEFINE set == ChangedColumns(now, seen, new)
             cols == {"slug", "category", "summary", "servings"}
  <1>1. DOMAIN now = cols  BY DEF Row
  <1>2. set = [col \in cols |-> IF new[col] = seen[col] THEN now[col] ELSE new[col]]
    BY <1>1 DEF ChangedColumns
  <1>3. set = [slug |-> set["slug"], category |-> set["category"],
               summary |-> set["summary"], servings |-> set["servings"]]
    BY <1>2
  <1>4. /\ set["slug"] = now.slug
        /\ set["category"] \in {now.category, new.category}
        /\ set["summary"] \in {now.summary, new.summary}
        /\ set["servings"] \in {now.servings, new.servings}
    BY <1>2
  <1>5. set \in Row  BY <1>3, <1>4 DEF Row
  <1>6. ASSUME now = seen PROVE set = new
    <2>1. /\ set["slug"] = new.slug /\ set["category"] = new.category
          /\ set["summary"] = new.summary /\ set["servings"] = new.servings
      BY <1>2, <1>6
    <2>2. new = [slug |-> new.slug, category |-> new.category,
                 summary |-> new.summary, servings |-> new.servings]
      BY DEF Row
    <2>. QED  BY <1>3, <2>1, <2>2
  <1>. QED  BY <1>4, <1>5, <1>6

\* The same of a class.
LEMMA ChangedClass ==
    ASSUME NEW now \in Class, NEW seen \in Class, NEW new \in Class
    PROVE  /\ ChangedColumns(now, seen, new) \in Class
           /\ now.body = new.body => ChangedColumns(now, seen, new).body = now.body
  <1> DEFINE set == ChangedColumns(now, seen, new)
  <1>1. set = [col \in {"body", "tools"} |->
                  IF new[col] = seen[col] THEN now[col] ELSE new[col]]
    BY DEF ChangedColumns, Class
  <1>2. set = [body |-> set["body"], tools |-> set["tools"]]  BY <1>1
  <1>3. /\ set["body"] \in {now.body, new.body} /\ set["tools"] \in {now.tools, new.tools}
        /\ now.body = new.body => set["body"] = now.body
    BY <1>1
  <1>. QED  BY <1>2, <1>3 DEF Class

\* The row a backfill puts: the row as it was listed, but for the count.
LEMMA PayloadRow ==
    ASSUME NEW row \in Row, row.servings = 1, SummaryCount(row.summary) > 1
    PROVE  /\ Payload(row) \in Row
           /\ Payload(row).slug = row.slug /\ Payload(row).servings > 1
           /\ [Payload(row) EXCEPT !.servings = 1] = row
  <1>1. SummaryCount(row.summary) \in Counts
    BY RowIsRow, AuthoringAssumption
  <1>. QED  BY <1>1 DEF Payload, Row

-----------------------------------------------------------------------------
(* The moderators. *)

\* What a moderator changes is noted: the recipe, and its slug before and after.
LEMMA EditNotes ==
    ASSUME TypeOK, Edit
    PROVE  /\ script' = script /\ call' = call
           /\ written \subseteq written' /\ touched \subseteq touched'
           /\ \A r \in RecipeIds : rows'[r] # rows[r] =>
                /\ r \in written'
                /\ r \in Live => rows[r].slug \in touched'
                /\ r \in Live' => rows'[r].slug \in touched'
  <1>1. \A some : \A row \in some \ {Unborn, Deleted} : row.slug \in SlugsOf(some)
    BY DEF SlugsOf
  <1>2. \A r \in RecipeIds : rows'[r] # rows[r] =>
          /\ rows[r] \in {rows[q] : q \in {p \in RecipeIds : rows'[p] # rows[p]}}
          /\ rows'[r] \in {rows'[q] : q \in {p \in RecipeIds : rows'[p] # rows[p]}}
    OBVIOUS
  <1>. QED  BY <1>1, <1>2 DEF Edit, Live

\* The tables are well typed.
Tables ==
    /\ rows \in [RecipeIds -> Row \cup {Unborn, Deleted}]
    /\ terms \in [TermIds -> Categories \cup {Unborn, Deleted}]
    /\ class \in Class \cup {Deleted}

\* Whatever a moderator does to the tables is noted, so that nothing is claimed
\* of it.
LEMMA EditKeeps ==
    ASSUME AuthoringInv, Edit, Tables', UniqueSlugs'
    PROVE  AuthoringInv'
  <1>. USE DEF AuthoringInv
  <1>1. /\ script' = script /\ call' = call
        /\ written \subseteq written' /\ touched \subseteq touched'
        /\ \A r \in RecipeIds : rows'[r] # rows[r] =>
                /\ r \in written'
                /\ r \in Live => rows[r].slug \in touched'
                /\ r \in Live' => rows'[r].slug \in touched'
    BY EditNotes
  <1>2. TypeOK'
    <2>1. /\ edits' = edits + 1 /\ edits < Edits /\ written' \subseteq RecipeIds
      BY DEF Edit, TypeOK
    <2>2. /\ \A r \in RecipeIds : rows[r] \in Row \cup {Unborn, Deleted}
          /\ \A r \in RecipeIds : rows'[r] \in Row \cup {Unborn, Deleted}
      BY DEF TypeOK, Tables
    <2>3. \A some : some \subseteq Row \cup {Unborn, Deleted} => SlugsOf(some) \subseteq Slugs
      BY RowIsRow DEF SlugsOf
    <2>4. touched' \subseteq Slugs
      <3>1. /\ {rows[r] : r \in {p \in RecipeIds : rows'[p] # rows[p]}}
                   \subseteq Row \cup {Unborn, Deleted}
            /\ {rows'[r] : r \in {p \in RecipeIds : rows'[p] # rows[p]}}
                   \subseteq Row \cup {Unborn, Deleted}
        BY <2>2
      <3>2. touched \subseteq Slugs  BY DEF TypeOK
      <3>. QED  BY <2>3, <3>1, <3>2 DEF Edit
    <2>. QED  BY <1>1, <2>1, <2>4, AuthoringAssumption DEF TypeOK, Tables
  <1>3. Live' \ written' \subseteq Live \ written
        /\ \A r \in Live' \ written' : rows'[r] = rows[r]
    BY <1>1 DEF Live
  <1>4. \A row \in Stored' : row \in Stored \/ row.slug \in touched'
    BY <1>1 DEF Stored, Live
  <1>5. \A row \in Stored : row \in Stored' \/ row.slug \in touched'
    BY <1>1 DEF Stored, Live
  <1>6. CallHolds'
    <2>. SUFFICES ASSUME call # NoCall PROVE CallHolds'
      BY <1>1 DEF CallHolds
    <2>1. ASSUME call.at \in {"check", "update"}
          PROVE  /\ call.seen.slug = call.row.slug
                 /\ call.row.slug \notin touched' \/ call.id \notin written'
                      => rows'[call.id] = call.seen
                 /\ call.id \in Live' /\ rows'[call.id].slug # call.row.slug
                      => rows'[call.id].slug \in touched'
      <3>1. call.id \in RecipeIds /\ call.seen \in Row  BY <2>1, CallShape
      <3>2. call.seen.slug = call.row.slug  BY <2>1 DEF CallHolds
      <3>3. rows[call.id] = call.seen => call.id \in Live
        BY <3>1, RowIsRow DEF Live
      <3>4. ASSUME call.row.slug \notin touched' \/ call.id \notin written'
            PROVE  rows'[call.id] = call.seen
        <4>1. rows[call.id] = call.seen  BY <1>1, <2>1, <3>4 DEF CallHolds
        <4>. QED  BY <1>1, <3>1, <3>2, <3>3, <3>4, <4>1
      <3>5. ASSUME call.id \in Live', rows'[call.id].slug # call.row.slug
            PROVE  rows'[call.id].slug \in touched'
        <4>1. CASE rows'[call.id] = rows[call.id]
          <5>1. call.id \in Live  BY <3>5, <4>1 DEF Live
          <5>. QED  BY <1>1, <2>1, <3>5, <4>1, <5>1 DEF CallHolds
        <4>2. CASE rows'[call.id] # rows[call.id]  BY <1>1, <3>1, <3>5, <4>2
        <4>. QED  BY <4>1, <4>2
      <3>. QED  BY <3>2, <3>4, <3>5
    <2>2. ASSUME call.by = "backfill"
          PROVE  /\ call.row.servings > 1
                 /\ \A r \in Live' \ written' : rows'[r].slug = call.row.slug =>
                      rows'[r].servings = 1 /\ [call.row EXCEPT !.servings = 1] = rows'[r]
      BY <1>3, <2>2 DEF CallHolds
    <2>. QED  BY <1>1, <2>1, <2>2 DEF CallHolds
  <1>7. LoadHolds'
    BY <1>1, <1>5 DEF LoadHolds
  <1>8. ListHolds'
    <2>1. \A row \in ToSet(Stored)' : row \in ToSet(Stored) \/ row.slug \in touched'
      BY <1>4 DEF ToSet
    <2>. QED  BY <1>1, <1>3, <2>1 DEF ListHolds
  <1>. QED  BY <1>2, <1>6, <1>7, <1>8

\* A row written where nobody else has its slug keeps the table one of rows with
\* slugs of their own.
LEMMA WriteKeeps ==
    ASSUME TypeOK, UniqueSlugs, NEW row \in Row, NEW r \in RecipeIds,
           BySlug(row.slug) \subseteq {r}, rows' = [rows EXCEPT ![r] = row]
    PROVE  /\ rows' \in [RecipeIds -> Row \cup {Unborn, Deleted}]
           /\ Live' = Live \cup {r} /\ rows'[r] = row
           /\ \A q \in RecipeIds \ {r} : rows'[q] = rows[q]
           /\ UniqueSlugs'
  <1>1. /\ rows' \in [RecipeIds -> Row \cup {Unborn, Deleted}]
        /\ rows'[r] = row /\ r \in RecipeIds
        /\ \A q \in RecipeIds \ {r} : rows'[q] = rows[q]
    BY DEF TypeOK
  <1>2. Live' = Live \cup {r}
    BY <1>1, RowIsRow DEF Live
  <1>3. \A q \in Live \ {r} : rows[q].slug # row.slug
    BY DEF BySlug
  <1>4. UniqueSlugs'
    <2>. SUFFICES ASSUME NEW p \in Live', NEW q \in Live', rows'[p].slug = rows'[q].slug
                  PROVE  p = q
      BY DEF UniqueSlugs
    <2>1. CASE p # r /\ q # r
      BY <1>1, <1>2, <2>1 DEF UniqueSlugs, Live
    <2>2. CASE p = r \/ q = r
      BY <1>1, <1>2, <1>3, <2>2 DEF Live
    <2>. QED  BY <2>1, <2>2
  <1>. QED  BY <1>1, <1>2, <1>4

\* A recipe is created, updated or deleted.
LEMMA EditRecipeKeeps == AuthoringInv /\ EditRecipe => AuthoringInv'
  <1>. SUFFICES ASSUME AuthoringInv, EditRecipe PROVE AuthoringInv'  OBVIOUS
  <1>1. Edit /\ UNCHANGED <<terms, class>>  BY DEF EditRecipe
  <1>2. ASSUME NEW r \in RecipeIds, NEW row \in Row, BySlug(row.slug) \subseteq {r},
               rows' = [rows EXCEPT ![r] = row]
        PROVE  AuthoringInv'
    <2>1. Tables' /\ UniqueSlugs'
      BY <1>1, <1>2, WriteKeeps DEF AuthoringInv, TypeOK, Tables
    <2>. QED  BY <1>1, <2>1, EditKeeps
  <1>3. ASSUME NEW r \in Live, rows' = [rows EXCEPT ![r] = Deleted] PROVE AuthoringInv'
    <2>1. Tables'  BY <1>1, <1>3 DEF AuthoringInv, TypeOK, Tables
    <2>2. Live' \subseteq Live /\ \A q \in Live' : rows'[q] = rows[q]
      BY <1>3 DEF AuthoringInv, TypeOK, Live
    <2>3. UniqueSlugs'  BY <2>2 DEF AuthoringInv, UniqueSlugs
    <2>. QED  BY <1>1, <2>1, <2>3, EditKeeps
  <1>. QED  BY <1>2, <1>3 DEF EditRecipe

\* A category is created, renamed with the recipes that carry it, or deleted.
LEMMA EditTermKeeps == AuthoringInv /\ EditTerm => AuthoringInv'
  <1>. SUFFICES ASSUME AuthoringInv, EditTerm PROVE AuthoringInv'  OBVIOUS
  <1>1. Edit /\ UNCHANGED class  BY DEF EditTerm
  <1>2. ASSUME NEW t \in TermIds, NEW n \in Categories,
               terms' = [terms EXCEPT ![t] = n],
               rows' = [r \in RecipeIds |->
                    IF r \in Live /\ rows[r].category = terms[t]
                    THEN [rows[r] EXCEPT !.category = n] ELSE rows[r]]
        PROVE  AuthoringInv'
    <2>1. ASSUME NEW r \in RecipeIds
          PROVE  /\ rows'[r] \in Row \cup {Unborn, Deleted}
                 /\ r \in Live' <=> r \in Live
                 /\ r \in Live => rows'[r].slug = rows[r].slug
      <3>1. CASE r \in Live
        <4>1. rows[r] \in Row  BY <3>1, LiveRows DEF AuthoringInv
        <4>2. rows'[r] \in Row /\ rows'[r].slug = rows[r].slug
          BY <1>2, <4>1 DEF Row
        <4>. QED  BY <3>1, <4>2, RowIsRow DEF Live
      <3>2. CASE r \notin Live
        BY <1>2, <3>2 DEF AuthoringInv, TypeOK, Live
      <3>. QED  BY <3>1, <3>2
    <2>2. rows' = [r \in RecipeIds |-> rows'[r]]  BY <1>2
    <2>3. rows' \in [RecipeIds -> Row \cup {Unborn, Deleted}]  BY <2>1, <2>2
    <2>4. Tables'  BY <1>1, <1>2, <2>3 DEF AuthoringInv, TypeOK, Tables
    <2>5. Live' = Live  BY <2>1 DEF Live
    <2>6. UniqueSlugs'
      BY <2>1, <2>5 DEF AuthoringInv, UniqueSlugs, Live
    <2>. QED  BY <1>1, <2>4, <2>6, EditKeeps
  <1>3. ASSUME NEW t \in TermIds, terms' = [terms EXCEPT ![t] = Deleted], rows' = rows
        PROVE  AuthoringInv'
    <2>1. Tables' /\ UniqueSlugs'
      BY <1>1, <1>3 DEF AuthoringInv, TypeOK, Tables, UniqueSlugs, Live
    <2>. QED  BY <1>1, <2>1, EditKeeps
  <1>. QED  BY <1>2, <1>3 DEF EditTerm

\* The class is edited or deleted.
LEMMA EditClassKeeps == AuthoringInv /\ EditClass => AuthoringInv'
  <1>. SUFFICES ASSUME AuthoringInv, EditClass PROVE AuthoringInv'  OBVIOUS
  <1>1. Edit /\ rows' = rows /\ terms' = terms /\ class' \in Class \cup {Deleted}
    BY DEF EditClass
  <1>2. Tables' /\ UniqueSlugs'
    BY <1>1 DEF AuthoringInv, TypeOK, Tables, UniqueSlugs, Live
  <1>. QED  BY <1>1, <1>2, EditKeeps

-----------------------------------------------------------------------------
(* The scripts. *)

\* A script that begins has no call in flight, and nothing is noted yet.
LEMMA RunKeeps ==
    ASSUME AuthoringInv, NEW s \in Script, Run(s), LoadHolds', ListHolds'
    PROVE  AuthoringInv'
  <1>1. /\ script' = s /\ call = NoCall /\ call' = NoCall
        /\ written' = {} /\ touched' = {} /\ UNCHANGED <<rows, terms, class, edits>>
    BY DEF Run, tables
  <1>2. TypeOK'  BY <1>1 DEF AuthoringInv, TypeOK
  <1>3. UniqueSlugs'  BY <1>1 DEF AuthoringInv, UniqueSlugs, Live
  <1>4. CallHolds'  BY <1>1 DEF CallHolds
  <1>. QED  BY <1>2, <1>3, <1>4 DEF AuthoringInv

\* A load begins with its file, all of it to post.
LEMMA BeginLoadKeeps ==
    ASSUME AuthoringInv, NEW file \in Files, BeginLoad(file)
    PROVE  AuthoringInv'
  <1>. DEFINE s == [at |-> "load", file |-> file, todo |-> file, put |-> {}, failed |-> FALSE]
  <1>1. LoadData(file) /\ Run(s)  BY DEF BeginLoad
  <1>2. s \in Script  BY AuthoringAssumption DEF Script
  <1>3. script' = s  BY <1>1 DEF Run
  <1>4. LoadHolds' /\ ListHolds'
    BY <1>1, <1>3 DEF LoadHolds, ListHolds, LoadData
  <1>. HIDE DEF s
  <1>. QED  BY <1>1, <1>2, <1>4, RunKeeps

\* A backfill begins with the rows as they are.
LEMMA BeginBackfillKeeps == AuthoringInv /\ BeginBackfill => AuthoringInv'
  <1>. SUFFICES ASSUME AuthoringInv, BeginBackfill PROVE AuthoringInv'  OBVIOUS
  <1>. DEFINE s == [at |-> "backfill", todo |-> ToSet(Stored), failed |-> FALSE]
  <1>1. Run(s)  BY DEF BeginBackfill
  <1>2. /\ script' = s /\ call' = NoCall /\ written' = {} /\ rows' = rows
    BY <1>1 DEF Run, tables
  <1>3. ToSet(Stored) \subseteq Row  BY LiveRows DEF ToSet, AuthoringInv
  <1>4. s \in Script  BY <1>3 DEF Script
  <1>5. Live' = Live /\ Stored' = Stored /\ ToSet(Stored)' = ToSet(Stored)
    BY <1>2 DEF Live, Stored, ToSet
  <1>6. \A row \in Stored, r \in Live : rows[r].slug = row.slug => rows[r] = row
    BY DEF AuthoringInv, UniqueSlugs, Stored
  <1>7. \A p, q \in Stored : p.slug = q.slug => p = q
    BY <1>6 DEF Stored
  <1>8. \A row \in ToSet(Stored) :
            row \in Stored /\ row.servings = 1 /\ SummaryCount(row.summary) > 1
    BY DEF ToSet
  <1>9. LoadHolds'  BY <1>2 DEF LoadHolds
  <1>10. ListHolds'
    BY <1>2, <1>5, <1>6, <1>7, <1>8 DEF ListHolds
  <1>. HIDE DEF s
  <1>. QED  BY <1>1, <1>4, <1>9, <1>10, RunKeeps

\* A load of tools begins with the class as it is.
LEMMA BeginToolsKeeps ==
    ASSUME AuthoringInv, NEW new \in Tools, BeginTools(new)
    PROVE  AuthoringInv'
  <1>. DEFINE s == [at |-> "tools", read |-> class, new |-> new]
  <1>1. Run(s) /\ class # Deleted  BY DEF BeginTools
  <1>2. script' = s  BY <1>1 DEF Run
  <1>3. s \in Script  BY <1>1 DEF Script, AuthoringInv, TypeOK
  <1>4. LoadHolds' /\ ListHolds'  BY <1>2 DEF LoadHolds, ListHolds
  <1>. HIDE DEF s
  <1>. QED  BY <1>1, <1>3, <1>4, RunKeeps

\* With no script running nothing is claimed of one; what is claimed of its call
\* is as it was.
LEMMA EndKeeps == AuthoringInv /\ End => AuthoringInv'
  <1>. SUFFICES ASSUME AuthoringInv, End PROVE AuthoringInv'  OBVIOUS
  <1>1. /\ script' = NoScript
        /\ UNCHANGED <<rows, terms, class, call, written, touched, edits>>
    BY DEF End, tables
  <1>2. script'.at = "none"  BY <1>1 DEF NoScript
  <1>3. TypeOK' /\ UniqueSlugs'
    BY <1>1 DEF AuthoringInv, TypeOK, UniqueSlugs, Live
  <1>4. Live' = Live  BY <1>1 DEF Live
  <1>5. CallHolds'
    BY <1>1, <1>2, <1>4 DEF AuthoringInv, CallHolds
  <1>6. LoadHolds' /\ ListHolds'
    BY <1>2 DEF LoadHolds, ListHolds
  <1>. QED  BY <1>3, <1>5, <1>6 DEF AuthoringInv

\* A call that is sent leaves the tables and the notes alone.
LEMMA RequestAlone ==
    ASSUME AuthoringInv, NEW c \in Call, Request(c), script' \in Script
    PROVE  /\ TypeOK' /\ UniqueSlugs' /\ call = NoCall /\ call' = c
           /\ rows' = rows /\ Live' = Live /\ Stored' = Stored
           /\ ToSet(Stored)' = ToSet(Stored)
           /\ written' = written /\ touched' = touched
  <1>1. /\ call = NoCall /\ call' = c
        /\ UNCHANGED <<rows, terms, class, written, touched, edits>>
    BY DEF Request, tables
  <1>2. Live' = Live  BY <1>1 DEF Live
  <1>3. Stored' = Stored /\ ToSet(Stored)' = ToSet(Stored)
    BY <1>1, <1>2 DEF Stored, ToSet
  <1>4. TypeOK'  BY <1>1 DEF AuthoringInv, TypeOK
  <1>5. UniqueSlugs'  BY <1>1, <1>2 DEF AuthoringInv, UniqueSlugs
  <1>. QED  BY <1>1, <1>2, <1>3, <1>4, <1>5

\* The record that is posted is in the call.
LEMMA LoadPostKeeps ==
    ASSUME AuthoringInv, NEW rec, LoadPost(rec)
    PROVE  AuthoringInv'
  <1>. DEFINE c == [by |-> "load", at |-> "post", row |-> rec]
  <1>1. /\ script.at = "load" /\ script.put = {} /\ rec \in script.todo
        /\ script' = [script EXCEPT !.todo = @ \ {rec}] /\ Request(c)
    BY DEF LoadPost
  <1>2. script \in [at : {"load"}, file : Files, todo : SUBSET Row,
                    put : SUBSET Row, failed : BOOLEAN]
    BY <1>1, ScriptShape DEF AuthoringInv
  <1>3. rec \in Row /\ rec \in script.file
    BY <1>1, <1>2 DEF AuthoringInv, LoadHolds
  <1>4. /\ script'.at = "load" /\ script'.file = script.file
        /\ script'.todo = script.todo \ {rec} /\ script'.put = {}
        /\ script'.failed = script.failed /\ script' \in Script
    BY <1>1, <1>2 DEF Script
  <1>5. /\ c \in Call /\ c.by = "load" /\ c.at = "post" /\ c.row = rec
    BY <1>3 DEF Call
  <1>. HIDE DEF c
  <1>6. /\ TypeOK' /\ UniqueSlugs' /\ call = NoCall /\ call' = c
        /\ Stored' = Stored /\ touched' = touched
    BY <1>1, <1>4, <1>5, RequestAlone
  <1>7. CallHolds'  BY <1>3, <1>4, <1>5, <1>6 DEF CallHolds
  <1>8. call' # NoCall  BY <1>5, <1>6 DEF NoCall
  <1>9. LoadHolds'
    BY <1>1, <1>4, <1>5, <1>6, <1>8 DEF AuthoringInv, LoadHolds
  <1>10. ListHolds'  BY <1>4 DEF ListHolds
  <1>. QED  BY <1>6, <1>7, <1>9, <1>10 DEF AuthoringInv

\* So is the record that is put.
LEMMA LoadPutKeeps ==
    ASSUME AuthoringInv, NEW rec, LoadPut(rec)
    PROVE  AuthoringInv'
  <1>. DEFINE c == [by |-> "load", at |-> "read", row |-> rec]
  <1>1. /\ script.at = "load" /\ rec \in script.put
        /\ script' = [script EXCEPT !.put = {}] /\ Request(c)
    BY DEF LoadPut
  <1>2. script \in [at : {"load"}, file : Files, todo : SUBSET Row,
                    put : SUBSET Row, failed : BOOLEAN]
    BY <1>1, ScriptShape DEF AuthoringInv
  <1>3. rec \in Row /\ rec \in script.file
    BY <1>1, <1>2 DEF AuthoringInv, LoadHolds
  <1>4. /\ script'.at = "load" /\ script'.file = script.file
        /\ script'.todo = script.todo /\ script'.put = {}
        /\ script'.failed = script.failed /\ script' \in Script
    BY <1>1, <1>2 DEF Script
  <1>5. /\ c \in Call /\ c.by = "load" /\ c.at = "read" /\ c.row = rec
    BY <1>3 DEF Call
  <1>. HIDE DEF c
  <1>6. /\ TypeOK' /\ UniqueSlugs' /\ call = NoCall /\ call' = c
        /\ Stored' = Stored /\ touched' = touched
    BY <1>1, <1>4, <1>5, RequestAlone
  <1>7. CallHolds'  BY <1>3, <1>4, <1>5, <1>6 DEF CallHolds
  <1>8. call' # NoCall  BY <1>5, <1>6 DEF NoCall
  <1>9. LoadHolds'
    <2>1. ASSUME NEW p \in script.file, ~script.failed
          PROVE  \/ p \in Stored \cup script.todo \/ p.slug \in touched \/ p = rec
      BY <1>1, <1>2, <1>6, <2>1 DEF AuthoringInv, LoadHolds, LoadPut
    <2>2. LoadData(script.file) /\ script.todo \subseteq script.file
      BY <1>1 DEF AuthoringInv, LoadHolds
    <2>. QED  BY <1>4, <1>5, <1>6, <1>8, <2>1, <2>2 DEF LoadHolds
  <1>10. ListHolds'  BY <1>4 DEF ListHolds
  <1>. QED  BY <1>6, <1>7, <1>9, <1>10 DEF AuthoringInv

\* The row that is put back has its count in the call.
LEMMA BackfillPutKeeps ==
    ASSUME AuthoringInv, NEW row, BackfillPut(row)
    PROVE  AuthoringInv'
  <1>. DEFINE c == [by |-> "backfill", at |-> "read", row |-> Payload(row)]
  <1>1. /\ script.at = "backfill" /\ row \in script.todo
        /\ script' = [script EXCEPT !.todo = @ \ {row}] /\ Request(c)
    BY DEF BackfillPut
  <1>2. script \in [at : {"backfill"}, todo : SUBSET Row, failed : BOOLEAN]
    BY <1>1, ScriptShape DEF AuthoringInv
  <1>3. row \in Row /\ row.servings = 1 /\ SummaryCount(row.summary) > 1
    BY <1>1, <1>2 DEF AuthoringInv, ListHolds
  <1>4. /\ Payload(row) \in Row /\ Payload(row).slug = row.slug
        /\ Payload(row).servings > 1 /\ [Payload(row) EXCEPT !.servings = 1] = row
    BY <1>3, PayloadRow
  <1>5. /\ script'.at = "backfill" /\ script'.todo = script.todo \ {row}
        /\ script'.failed = script.failed /\ script' \in Script
    BY <1>1, <1>2 DEF Script
  <1>6. /\ c \in Call /\ c.by = "backfill" /\ c.at = "read" /\ c.row = Payload(row)
    BY <1>4 DEF Call
  <1>. HIDE DEF c
  <1>7. /\ TypeOK' /\ UniqueSlugs' /\ call = NoCall /\ call' = c
        /\ rows' = rows /\ Live' = Live /\ ToSet(Stored)' = ToSet(Stored)
        /\ written' = written /\ touched' = touched
    BY <1>1, <1>5, <1>6, RequestAlone
  <1>8. \A r \in Live \ written : rows[r].slug = row.slug => rows[r] = row
    BY <1>1 DEF AuthoringInv, ListHolds
  <1>9. CallHolds'
    BY <1>3, <1>4, <1>5, <1>6, <1>7, <1>8 DEF CallHolds
  <1>10. call' # NoCall  BY <1>6, <1>7 DEF NoCall
  <1>11. ListHolds'
    <2>1. \A p \in script.todo : p.slug = row.slug => p = row
      BY <1>1 DEF AuthoringInv, ListHolds
    <2>2. /\ \A p, q \in script'.todo : p.slug = q.slug => p = q
          /\ \A p \in script'.todo :
              /\ p.servings = 1 /\ SummaryCount(p.summary) > 1
              /\ p.slug # call'.row.slug
          /\ \A p \in script'.todo, r \in Live' \ written' :
              rows'[r].slug = p.slug => rows'[r] = p
      BY <1>1, <1>4, <1>5, <1>6, <1>7, <2>1 DEF AuthoringInv, ListHolds
    <2>3. ASSUME ~script'.failed, NEW p \in ToSet(Stored)'
          PROVE  \/ p.slug \in touched' \cup {q.slug : q \in script'.todo}
                 \/ p.slug = call'.row.slug
      <3>1. p.slug \in touched \cup {q.slug : q \in script.todo}
        BY <1>1, <1>5, <1>7, <2>3 DEF AuthoringInv, ListHolds
      <3>. QED  BY <1>4, <1>5, <1>6, <1>7, <3>1
    <2>. QED  BY <1>10, <2>2, <2>3 DEF ListHolds
  <1>12. LoadHolds'  BY <1>5 DEF LoadHolds
  <1>. QED  BY <1>7, <1>9, <1>11, <1>12 DEF AuthoringInv

\* The class that is put back is the one that was read, with the new tools.
LEMMA ToolsPutKeeps == AuthoringInv /\ ToolsPut => AuthoringInv'
  <1>. SUFFICES ASSUME AuthoringInv, ToolsPut PROVE AuthoringInv'  OBVIOUS
  <1>. DEFINE c == [by |-> "tools", at |-> "class_read",
                    new |-> [script.read EXCEPT !.tools = script.new]]
  <1>1. script.at = "tools" /\ script' = script /\ Request(c)  BY DEF ToolsPut
  <1>2. script \in [at : {"tools"}, read : Class, new : Tools]
    BY <1>1, ScriptShape DEF AuthoringInv
  <1>3. [script.read EXCEPT !.tools = script.new] \in Class  BY <1>2 DEF Class
  <1>4. c \in Call /\ c.by = "tools" /\ c.at = "class_read"  BY <1>3 DEF Call
  <1>5. script' \in Script  BY <1>1, <1>2 DEF Script
  <1>. HIDE DEF c
  <1>6. TypeOK' /\ UniqueSlugs' /\ call' = c  BY <1>1, <1>4, <1>5, RequestAlone
  <1>7. CallHolds'  BY <1>1, <1>4, <1>6 DEF CallHolds
  <1>8. LoadHolds' /\ ListHolds'  BY <1>1 DEF LoadHolds, ListHolds
  <1>. QED  BY <1>6, <1>7, <1>8 DEF AuthoringInv

-----------------------------------------------------------------------------
(* The handler. *)

\* What an answer does to the script's locals.
LEMMA AnswerScript ==
    ASSUME TypeOK, NEW ok \in BOOLEAN, Answer(ok)
    PROVE  /\ call' = NoCall /\ script' \in Script \cup {NoScript}
           /\ script.at = "load" =>
                /\ script'.at = "load" /\ script'.file = script.file
                /\ script'.todo = script.todo /\ script'.put = script.put
                /\ script'.failed = (script.failed \/ ~ok)
           /\ script.at = "backfill" =>
                /\ script'.at = "backfill" /\ script'.todo = script.todo
                /\ script'.failed = (script.failed \/ ~ok)
           /\ script.at \notin {"load", "backfill"} => script' = NoScript
  <1>1. CASE script.at = "load"
    <2>1. script \in [at : {"load"}, file : Files, todo : SUBSET Row,
                      put : SUBSET Row, failed : BOOLEAN]
      BY <1>1, ScriptShape
    <2>. DEFINE failed == script.failed \/ ~ok
    <2>2. failed \in BOOLEAN  BY <2>1
    <2>3. script' = [script EXCEPT !.failed = failed] /\ call' = NoCall
      BY <1>1 DEF Answer
    <2>. HIDE DEF failed
    <2>4. /\ script'.at = "load" /\ script'.file = script.file
          /\ script'.todo = script.todo /\ script'.put = script.put
          /\ script'.failed = failed /\ script' \in Script
      BY <2>1, <2>2, <2>3 DEF Script
    <2>. QED  BY <1>1, <2>3, <2>4 DEF failed
  <1>2. CASE script.at = "backfill"
    <2>1. script \in [at : {"backfill"}, todo : SUBSET Row, failed : BOOLEAN]
      BY <1>2, ScriptShape
    <2>. DEFINE failed == script.failed \/ ~ok
    <2>2. failed \in BOOLEAN  BY <2>1
    <2>3. script' = [script EXCEPT !.failed = failed] /\ call' = NoCall
      BY <1>2 DEF Answer
    <2>. HIDE DEF failed
    <2>4. /\ script'.at = "backfill" /\ script'.todo = script.todo
          /\ script'.failed = failed /\ script' \in Script
      BY <2>1, <2>2, <2>3 DEF Script
    <2>. QED  BY <1>2, <2>3, <2>4 DEF failed
  <1>3. CASE script.at \notin {"load", "backfill"}
    BY <1>3 DEF Answer
  <1>. QED  BY <1>1, <1>2, <1>3

\* A call that is answered leaves the invariant as it was, if what it has done
\* to the rows is what the script takes it for.
LEMMA AnswerKeeps ==
    ASSUME AuthoringInv, NEW ok \in BOOLEAN, Answer(ok), Tables', UniqueSlugs',
           touched' \subseteq Slugs, UNCHANGED <<written, edits>>,
           script.at = "load" /\ ok => \A rec \in script.file :
               \/ rec \in Stored \/ rec.slug \in touched
               \/ call # NoCall /\ rec = call.row
               => rec \in Stored' \/ rec.slug \in touched',
           script.at = "backfill" => \A row \in script.todo, r \in Live' \ written :
               rows'[r].slug = row.slug => rows'[r] = row,
           script.at = "backfill" /\ ok /\ ~script.failed => \A row \in ToSet(Stored)' :
               row.slug \in touched' \cup {p.slug : p \in script.todo}
    PROVE  AuthoringInv'
  <1>. USE DEF AuthoringInv
  <1>1. TypeOK'  BY AnswerScript DEF TypeOK, Tables
  <1>2. CallHolds'  BY AnswerScript DEF CallHolds
  <1>3. LoadHolds'
    <2>1. CASE script.at = "load"
      <3>1. /\ script'.at = "load" /\ script'.file = script.file
            /\ script'.todo = script.todo /\ script'.put = script.put
            /\ script'.failed = (script.failed \/ ~ok)
        BY <2>1, AnswerScript
      <3>2. ASSUME ~script'.failed, NEW rec \in script.file
            PROVE  \/ rec \in Stored' \cup script.todo \cup script.put
                   \/ rec.slug \in touched'
        <4>1. \/ rec \in Stored \cup script.todo \cup script.put
              \/ rec.slug \in touched
              \/ call # NoCall /\ rec = call.row
          BY <2>1, <3>1, <3>2 DEF LoadHolds
        <4>. QED  BY <2>1, <3>1, <3>2, <4>1
      <3>. QED  BY <2>1, <3>1, <3>2 DEF LoadHolds
    <2>2. CASE script.at # "load"
      <3>1. script'.at # "load"  BY <2>2, AnswerScript DEF NoScript
      <3>. QED  BY <3>1 DEF LoadHolds
    <2>. QED  BY <2>1, <2>2
  <1>4. ListHolds'
    <2>1. CASE script.at = "backfill"
      <3>1. /\ script'.at = "backfill" /\ script'.todo = script.todo
            /\ script'.failed = (script.failed \/ ~ok) /\ call' = NoCall
        BY <2>1, AnswerScript
      <3>. QED  BY <2>1, <3>1 DEF ListHolds
    <2>2. CASE script.at # "backfill"
      <3>1. script'.at # "backfill"  BY <2>2, AnswerScript DEF NoScript
      <3>. QED  BY <3>1 DEF ListHolds
    <2>. QED  BY <2>1, <2>2
  <1>. QED  BY <1>1, <1>2, <1>3, <1>4

\* A call that comes to nothing changes nothing, and the script knows.
LEMMA RefusalKeeps ==
    ASSUME AuthoringInv, Answer(FALSE), UNCHANGED <<tables, written, touched, edits>>
    PROVE  AuthoringInv'
  <1>. USE DEF AuthoringInv
  <1>1. UNCHANGED <<rows, terms, class, written, touched, edits>>  BY DEF tables
  <1>2. Live' = Live  BY <1>1 DEF Live
  <1>3. Tables' /\ UniqueSlugs' /\ touched' \subseteq Slugs
    BY <1>1, <1>2 DEF TypeOK, Tables, UniqueSlugs
  <1>4. script.at = "backfill" => \A row \in script.todo, r \in Live' \ written :
            rows'[r].slug = row.slug => rows'[r] = row
    BY <1>1, <1>2 DEF ListHolds
  <1>. QED  BY <1>1, <1>3, <1>4, AnswerKeeps

\* So for the call of a script that holds no rows.
LEMMA ToolsAnswerKeeps ==
    ASSUME AuthoringInv, NEW ok \in BOOLEAN, Answer(ok), call # NoCall, call.by = "tools",
           class' \in Class \cup {Deleted},
           UNCHANGED <<rows, terms, written, touched, edits>>
    PROVE  AuthoringInv'
  <1>. USE DEF AuthoringInv
  <1>1. Live' = Live  BY DEF Live
  <1>2. Tables' /\ UniqueSlugs' /\ touched' \subseteq Slugs
    BY <1>1 DEF TypeOK, Tables, UniqueSlugs
  <1>3. script.at \notin {"load", "backfill"}  BY ScriptShape DEF CallHolds
  <1>. QED  BY <1>2, <1>3, AnswerKeeps

\* The lookup of the category changes nothing.
LEMMA CheckKeeps ==
    ASSUME AuthoringInv, NEW at, NEW next, Check(at, next),
           <<at, next>> \in {<<"post", "insert">>, <<"check", "update">>}
    PROVE  AuthoringInv'
  <1>. USE DEF AuthoringInv
  <1>1. CASE Answer(FALSE)  BY <1>1, RefusalKeeps DEF Check
  <1>2. CASE call' = [call EXCEPT !.at = next] /\ UNCHANGED script
    <2>1. /\ call.at = at /\ script' = script
          /\ UNCHANGED <<rows, terms, class, written, touched, edits>>
      BY <1>2 DEF Check, tables
    <2>2. /\ call' \in Call /\ call'.at = next
          /\ call'.by = call.by /\ call'.row = call.row
          /\ call.at = "check" => call'.id = call.id /\ call'.seen = call.seen
      <3>1. CASE call.at = "post" /\ next = "insert"
        <4>1. call \in [by : {"load"}, at : {"post", "insert"}, row : Row]
          BY <3>1, CallShape
        <4>. QED  BY <1>2, <3>1, <4>1 DEF Call
      <3>2. CASE call.at = "check" /\ next = "update"
        <4>1. call \in [by : {"load", "backfill"}, at : {"check", "update"}, row : Row,
                        id : RecipeIds, seen : Row]
          BY <3>2, CallShape
        <4>. QED  BY <1>2, <3>2, <4>1 DEF Call
      <3>. QED  BY <2>1, <3>1, <3>2
    <2>3. call # NoCall /\ call' # NoCall  BY <2>1, <2>2 DEF NoCall
    <2>4. Live' = Live  BY <2>1 DEF Live
    <2>5. Stored' = Stored /\ ToSet(Stored)' = ToSet(Stored)
      BY <2>1, <2>4 DEF Stored, ToSet
    <2>6. TypeOK' /\ UniqueSlugs'  BY <2>1, <2>2, <2>4 DEF TypeOK, UniqueSlugs
    <2>7. CallHolds'  BY <2>1, <2>2, <2>3, <2>4 DEF CallHolds
    <2>8. LoadHolds'  BY <2>1, <2>2, <2>3, <2>5 DEF LoadHolds
    <2>9. ListHolds'  BY <2>1, <2>2, <2>3, <2>4, <2>5 DEF ListHolds
    <2>. QED  BY <2>6, <2>7, <2>8, <2>9
  <1>. QED  BY <1>1, <1>2 DEF Check

\* A post that is a conflict is put next; one that goes through is in the table,
\* whatever was written of its slug before.
LEMMA InsertKeeps == AuthoringInv /\ Insert => AuthoringInv'
  <1>. SUFFICES ASSUME AuthoringInv, Insert PROVE AuthoringInv'  OBVIOUS
  <1>. USE DEF AuthoringInv
  <1>1. /\ call.at = "insert" /\ call.by = "load" /\ call.row \in Row /\ call # NoCall
        /\ UNCHANGED <<terms, class, written, edits>>
    BY CallShape DEF Insert, NoCall
  <1>2. script = NoScript \/ script.at = "load"  BY <1>1 DEF CallHolds
  <1>3. CASE Conflict /\ UNCHANGED <<rows, touched>>
    <2>1. Live' = Live  BY <1>3 DEF Live
    <2>2. Stored' = Stored  BY <1>3, <2>1 DEF Stored
    <2>3. UniqueSlugs'  BY <1>3, <2>1 DEF UniqueSlugs
    <2>4. call' = NoCall  BY <1>3 DEF Conflict
    <2>5. CASE script.at = "load"
      <3>1. script \in [at : {"load"}, file : Files, todo : SUBSET Row,
                        put : SUBSET Row, failed : BOOLEAN]
        BY <2>5, ScriptShape
      <3>2. script' = [script EXCEPT !.put = {call.row}]  BY <1>3, <2>5 DEF Conflict
      <3>3. /\ script'.at = "load" /\ script'.file = script.file
            /\ script'.todo = script.todo /\ script'.put = {call.row}
            /\ script'.failed = script.failed /\ script' \in Script
        BY <1>1, <3>1, <3>2 DEF Script
      <3>4. TypeOK'  BY <1>1, <1>3, <2>4, <3>3 DEF TypeOK
      <3>5. call.row \in script.file /\ script.put = {}  BY <1>1, <2>5 DEF CallHolds
      <3>6. LoadHolds'
        BY <1>3, <2>2, <2>5, <3>3, <3>5 DEF LoadHolds
      <3>7. CallHolds' /\ ListHolds'  BY <2>4, <3>3 DEF CallHolds, ListHolds
      <3>. QED  BY <2>3, <3>4, <3>6, <3>7
    <2>6. CASE script = NoScript
      <3>1. script' = NoScript  BY <1>3, <2>6 DEF Conflict, NoScript
      <3>2. TypeOK'  BY <1>1, <1>3, <2>4, <3>1 DEF TypeOK
      <3>3. CallHolds' /\ LoadHolds' /\ ListHolds'
        BY <2>4, <3>1 DEF CallHolds, LoadHolds, ListHolds, NoScript
      <3>. QED  BY <2>3, <3>2, <3>3
    <2>. QED  BY <1>2, <2>5, <2>6
  <1>4. ASSUME NEW r \in RecipeIds, BySlug(call.row.slug) = {}, rows[r] = Unborn,
               rows' = [rows EXCEPT ![r] = call.row],
               touched' = touched \ {call.row.slug},
               NEW ok \in BOOLEAN, Answer(ok)
        PROVE  AuthoringInv'
    <2>1. /\ rows' \in [RecipeIds -> Row \cup {Unborn, Deleted}]
          /\ Live' = Live \cup {r} /\ rows'[r] = call.row
          /\ \A q \in RecipeIds \ {r} : rows'[q] = rows[q]
          /\ UniqueSlugs'
      BY <1>1, <1>4, WriteKeeps
    <2>2. Tables' /\ touched' \subseteq Slugs
      BY <1>1, <1>4, <2>1 DEF TypeOK, Tables
    <2>3. r \notin Live  BY <1>4 DEF Live
    <2>4. Stored \subseteq Stored' /\ call.row \in Stored'
      BY <2>1, <2>3 DEF Stored, Live
    <2>5. script.at = "load" => \A rec \in script.file :
              rec.slug = call.row.slug => rec = call.row
      BY <1>1 DEF CallHolds, LoadHolds, LoadData
    <2>6. script.at # "backfill"  BY <1>2 DEF NoScript
    <2>. QED  BY <1>1, <1>4, <2>1, <2>2, <2>4, <2>5, <2>6, AnswerKeeps
  <1>5. \/ Conflict /\ UNCHANGED <<rows, touched>>
        \/ /\ BySlug(call.row.slug) = {}
           /\ \E r \in RecipeIds : rows[r] = Unborn /\ rows' = [rows EXCEPT ![r] = call.row]
           /\ touched' = touched \ {call.row.slug}
           /\ \E ok \in BOOLEAN : Answer(ok)
    BY DEF Insert
  <1>. QED  BY <1>3, <1>4, <1>5

\* A put reads the row of its slug; what was written of it before is in it.
LEMMA PutReadKeeps == AuthoringInv /\ PutRead => AuthoringInv'
  <1>. SUFFICES ASSUME AuthoringInv, PutRead PROVE AuthoringInv'  OBVIOUS
  <1>. USE DEF AuthoringInv
  <1>1. CASE Answer(FALSE) /\ UNCHANGED touched
    BY <1>1, RefusalKeeps DEF PutRead
  <1>2. ASSUME NEW r \in BySlug(call.row.slug),
               call' = [by |-> call.by, at |-> "check", row |-> call.row,
                        id |-> r, seen |-> rows[r]],
               touched' = touched \ {call.row.slug}, script' = script
        PROVE  AuthoringInv'
    <2>1. /\ call.at = "read" /\ call # NoCall
          /\ call \in [by : {"load", "backfill"}, at : {"read"}, row : Row]
          /\ UNCHANGED <<rows, terms, class, written, edits>>
      BY CallShape DEF PutRead, NoCall, tables
    <2>2. r \in RecipeIds /\ rows[r] \in Row /\ rows[r].slug = call.row.slug
      BY LiveRows DEF BySlug
    <2>3. /\ call' \in Call /\ call' # NoCall
          /\ call'.by = call.by /\ call'.at = "check" /\ call'.row = call.row
          /\ call'.id = r /\ call'.seen = rows[r]
      BY <1>2, <2>1, <2>2 DEF Call, NoCall
    <2>4. Live' = Live  BY <2>1 DEF Live
    <2>5. Stored' = Stored /\ ToSet(Stored)' = ToSet(Stored)
      BY <2>1, <2>4 DEF Stored, ToSet
    <2>6. TypeOK' /\ UniqueSlugs'
      BY <1>2, <2>1, <2>3, <2>4 DEF TypeOK, UniqueSlugs
    <2>7. CallHolds'
      BY <1>2, <2>1, <2>2, <2>3, <2>4 DEF CallHolds
    <2>8. LoadHolds'
      <3>1. script.at = "load" => \A rec \in script.file :
                rec.slug = call.row.slug => rec = call.row
        BY <2>1 DEF CallHolds, LoadHolds, LoadData
      <3>. QED  BY <1>2, <2>1, <2>3, <2>5, <3>1 DEF LoadHolds
    <2>9. ListHolds'
      BY <1>2, <2>1, <2>3, <2>4, <2>5 DEF ListHolds
    <2>. QED  BY <2>6, <2>7, <2>8, <2>9
  <1>. QED  BY <1>1, <1>2 DEF PutRead

\* A put that goes through leaves its body, unless the row was written while it
\* was looked at; rows of other slugs are as they were.
LEMMA UpdateKeeps == AuthoringInv /\ Update => AuthoringInv'
  <1>. SUFFICES ASSUME AuthoringInv, Update PROVE AuthoringInv'  OBVIOUS
  <1>. USE DEF AuthoringInv
  <1>1. CASE Answer(FALSE) /\ UNCHANGED rows
    BY <1>1, RefusalKeeps DEF Update, tables
  <1>2. ASSUME call.id \in Live,
               rows' = [rows EXCEPT ![call.id] = ChangedColumns(@, call.seen, call.row)],
               NEW ok \in BOOLEAN, Answer(ok)
        PROVE  AuthoringInv'
    <2>. DEFINE id == call.id
                new == ChangedColumns(rows[id], call.seen, call.row)
    <2>1. /\ call.at = "update" /\ call # NoCall
          /\ call \in [by : {"load", "backfill"}, at : {"check", "update"}, row : Row,
                       id : RecipeIds, seen : Row]
          /\ UNCHANGED <<terms, class, written, touched, edits>>
      BY CallShape DEF Update, NoCall
    <2>2. /\ call.seen.slug = call.row.slug
          /\ call.row.slug \notin touched \/ id \notin written => rows[id] = call.seen
          /\ rows[id].slug # call.row.slug => rows[id].slug \in touched
      BY <1>2, <2>1 DEF CallHolds
    <2>3. rows[id] \in Row /\ id \in RecipeIds  BY <1>2, LiveRows
    <2>4. /\ new \in Row /\ new.slug = rows[id].slug
          /\ rows[id] = call.seen => new = call.row
      BY <2>1, <2>2, <2>3, ChangedRow
    <2>5. rows' = [rows EXCEPT ![id] = new]  BY <1>2
    <2>6. BySlug(new.slug) \subseteq {id}
      BY <1>2, <2>4 DEF BySlug, UniqueSlugs
    <2>. HIDE DEF new
    <2>7. /\ rows' \in [RecipeIds -> Row \cup {Unborn, Deleted}]
          /\ Live' = Live \cup {id} /\ rows'[id] = new
          /\ \A q \in RecipeIds \ {id} : rows'[q] = rows[q]
          /\ UniqueSlugs'
      BY <2>3, <2>4, <2>5, <2>6, WriteKeeps
    <2>8. Live' = Live  BY <1>2, <2>7
    <2>9. Tables' /\ touched' \subseteq Slugs  BY <2>1, <2>7 DEF TypeOK, Tables
    <2>10. call.row.slug \in touched \/ call.row \in Stored'
      <3>. SUFFICES ASSUME call.row.slug \notin touched PROVE call.row \in Stored'
        OBVIOUS
      <3>1. rows'[id] = call.row  BY <2>2, <2>4, <2>7
      <3>. QED  BY <1>2, <2>8, <3>1 DEF Stored
    <2>11. ASSUME script.at = "load", NEW rec \in script.file,
                  rec \in Stored \/ rec.slug \in touched \/ rec = call.row
           PROVE  rec \in Stored' \/ rec.slug \in touched
      <3>1. rec.slug = call.row.slug => rec = call.row
        BY <2>1, <2>11 DEF CallHolds, LoadHolds, LoadData
      <3>2. ASSUME NEW q \in Live, rec = rows[q]
            PROVE  rec \in Stored' \/ rec.slug \in touched
        <4>1. CASE q = id  BY <2>2, <2>10, <3>1, <3>2, <4>1
        <4>2. CASE q # id
          <5>1. rows'[q] = rec  BY <2>7, <3>2, <4>2 DEF Live
          <5>. QED  BY <2>8, <3>2, <5>1 DEF Stored
        <4>. QED  BY <4>1, <4>2
      <3>. QED  BY <2>10, <2>11, <3>2 DEF Stored
    <2>12. ASSUME script.at = "backfill", NEW row \in script.todo,
                  NEW r \in Live' \ written, rows'[r].slug = row.slug
           PROVE  rows'[r] = row
      <3>1. row.slug # call.row.slug /\ call.row.slug \in Slugs
        BY <2>1, <2>12, RowIsRow DEF ListHolds
      <3>2. CASE r = id  BY <2>2, <2>4, <2>7, <2>12, <3>1, <3>2
      <3>3. CASE r # id
        BY <2>7, <2>8, <2>12, <3>3 DEF ListHolds, Live
      <3>. QED  BY <3>2, <3>3
    <2>13. ASSUME script.at = "backfill", ~script.failed, NEW row \in ToSet(Stored)'
           PROVE  row.slug \in touched \cup {p.slug : p \in script.todo}
      <3>1. row \in Stored' /\ row.servings = 1 /\ SummaryCount(row.summary) > 1
        BY <2>13 DEF ToSet
      <3>2. PICK q \in Live : row = rows'[q]  BY <2>8, <3>1 DEF Stored
      <3>3. CASE q = id
        <4>1. CASE call.row.slug \in touched
          <5>1. row.slug = rows[id].slug  BY <2>4, <2>7, <3>2, <3>3
          <5>. QED  BY <2>2, <4>1, <5>1
        <4>2. CASE call.row.slug \notin touched
          <5>1. row = call.row  BY <2>2, <2>4, <2>7, <3>2, <3>3, <4>2
          <5>2. call.by = "backfill"  BY <2>1, <2>13 DEF CallHolds, NoScript
          <5>3. call.row.servings > 1  BY <2>1, <5>2 DEF CallHolds
          <5>. QED  BY <3>1, <5>1, <5>3
        <4>. QED  BY <4>1, <4>2
      <3>4. CASE q # id
        <4>1. row = rows[q]  BY <2>7, <3>2, <3>4 DEF Live
        <4>2. row \in ToSet(Stored)  BY <3>1, <3>2, <4>1 DEF ToSet, Stored
        <4>3. row.slug \in touched \cup {p.slug : p \in script.todo}
                 \/ row.slug = call.row.slug
          BY <2>13, <4>2 DEF ListHolds
        <4>4. row.slug = call.row.slug => call.row.slug \in touched
          <5>. SUFFICES ASSUME row.slug = call.row.slug, call.row.slug \notin touched
                        PROVE  FALSE
            OBVIOUS
          <5>1. rows[id].slug = rows[q].slug  BY <2>2, <4>1
          <5>. QED  BY <1>2, <3>2, <3>4, <5>1 DEF UniqueSlugs
        <4>. QED  BY <4>3, <4>4
      <3>. QED  BY <3>3, <3>4
    <2>14. script.at = "load" /\ ok => \A rec \in script.file :
               \/ rec \in Stored \/ rec.slug \in touched
               \/ call # NoCall /\ rec = call.row
               => rec \in Stored' \/ rec.slug \in touched'
      BY <2>1, <2>11
    <2>15. script.at = "backfill" => \A row \in script.todo, r \in Live' \ written :
               rows'[r].slug = row.slug => rows'[r] = row
      BY <2>12
    <2>16. script.at = "backfill" /\ ok /\ ~script.failed => \A row \in ToSet(Stored)' :
               row.slug \in touched' \cup {p.slug : p \in script.todo}
      BY <2>1, <2>13
    <2>. QED  BY <1>2, <2>1, <2>7, <2>9, <2>14, <2>15, <2>16, AnswerKeeps
  <1>. QED  BY <1>1, <1>2 DEF Update

\* The class is read, and written back.
LEMMA ClassCallKeeps == AuthoringInv /\ (ClassRead \/ ClassUpdate) => AuthoringInv'
  <1>. SUFFICES ASSUME AuthoringInv, ClassRead \/ ClassUpdate PROVE AuthoringInv'  OBVIOUS
  <1>. USE DEF AuthoringInv
  <1>1. CASE ClassRead
    <2>1. CASE Answer(FALSE)  BY <1>1, <2>1, RefusalKeeps DEF ClassRead
    <2>2. CASE /\ class # Deleted /\ UNCHANGED script
               /\ call' = [by |-> "tools", at |-> "class_update", new |-> call.new,
                           seen |-> class]
      <3>1. /\ call.at = "class_read" /\ call # NoCall
            /\ call \in [by : {"tools"}, at : {"class_read"}, new : Class]
            /\ UNCHANGED <<rows, terms, class, written, touched, edits>>
        BY <1>1, CallShape DEF ClassRead, NoCall, tables
      <3>2. class \in Class  BY <2>2 DEF TypeOK
      <3>3. call' \in Call /\ call'.by = "tools" /\ call'.at = "class_update"
        BY <2>2, <3>1, <3>2 DEF Call
      <3>4. script = NoScript \/ script.at = "tools"  BY <3>1 DEF CallHolds
      <3>5. script.at \notin {"load", "backfill"}  BY <3>4 DEF NoScript
      <3>6. TypeOK' /\ UniqueSlugs'
        BY <2>2, <3>1, <3>3 DEF TypeOK, UniqueSlugs, Live
      <3>7. CallHolds' /\ LoadHolds' /\ ListHolds'
        BY <2>2, <3>3, <3>4, <3>5 DEF CallHolds, LoadHolds, ListHolds
      <3>. QED  BY <3>6, <3>7
    <2>. QED  BY <1>1, <2>1, <2>2 DEF ClassRead
  <1>2. CASE ClassUpdate
    <2>1. /\ call.at = "class_update" /\ call # NoCall
          /\ call \in [by : {"tools"}, at : {"class_update"}, new : Class, seen : Class]
          /\ UNCHANGED <<rows, terms, written, touched, edits>>
      BY <1>2, CallShape DEF ClassUpdate, NoCall
    <2>2. class' \in Class \cup {Deleted}
      BY <1>2, <2>1, ChangedClass DEF ClassUpdate, TypeOK
    <2>. QED  BY <1>2, <2>1, <2>2, ToolsAnswerKeeps DEF ClassUpdate
  <1>. QED  BY <1>1, <1>2

-----------------------------------------------------------------------------
(* The invariant. *)

\* At first the table is empty and no script runs.
LEMMA InitInv == Init => AuthoringInv
  <1>. SUFFICES ASSUME Init PROVE AuthoringInv  OBVIOUS
  <1>1. TypeOK  BY AuthoringAssumption DEF Init, TypeOK
  <1>2. UniqueSlugs  BY DEF Init, UniqueSlugs, Live
  <1>3. CallHolds /\ LoadHolds /\ ListHolds
    BY DEF Init, CallHolds, LoadHolds, ListHolds, NoScript
  <1>. QED  BY <1>1, <1>2, <1>3 DEF AuthoringInv

\* The invariant is inductive.
LEMMA NextKeeps == AuthoringInv /\ [Next]_vars => AuthoringInv'
  <1>. SUFFICES ASSUME AuthoringInv, [Next]_vars PROVE AuthoringInv'  OBVIOUS
  <1>1. CASE UNCHANGED vars
    <2>1. UNCHANGED <<rows, terms, class, script, call, written, touched, edits>>
      BY <1>1 DEF vars
    <2>2. Live' = Live  BY <2>1 DEF Live
    <2>3. Stored' = Stored /\ ToSet(Stored)' = ToSet(Stored)
      BY <2>1, <2>2 DEF Stored, ToSet
    <2>4. TypeOK' /\ UniqueSlugs' /\ CallHolds'
      BY <2>1, <2>2 DEF AuthoringInv, TypeOK, UniqueSlugs, CallHolds
    <2>5. LoadHolds' /\ ListHolds'
      BY <2>1, <2>2, <2>3 DEF AuthoringInv, LoadHolds, ListHolds
    <2>. QED  BY <2>4, <2>5 DEF AuthoringInv
  <1>2. CASE Handler
    <2>1. CASE PostCheck \/ PutCheck
      BY <2>1, CheckKeeps DEF PostCheck, PutCheck
    <2>2. CASE Fail  BY <2>2, RefusalKeeps DEF Fail
    <2>. QED
      BY <1>2, <2>1, <2>2, InsertKeeps, PutReadKeeps, UpdateKeeps, ClassCallKeeps
      DEF Handler
  <1>3. CASE Next
    BY <1>2, <1>3, EditRecipeKeeps, EditTermKeeps, EditClassKeeps, BeginLoadKeeps,
       LoadPostKeeps, LoadPutKeeps, BeginBackfillKeeps, BackfillPutKeeps,
       BeginToolsKeeps, ToolsPutKeeps, EndKeeps
    DEF Next
  <1>. QED  BY <1>1, <1>3

\* So it always holds.
LEMMA AuthoringAlways == Spec => []AuthoringInv
  <1>. QED  BY InitInv, NextKeeps, PTL DEF Spec

-----------------------------------------------------------------------------
(* What follows of the scripts. *)

\* The tables, the script and its call are well typed.
THEOREM AuthoringTypes == Spec => []TypeOK
  <1>1. AuthoringInv => TypeOK  BY DEF AuthoringInv
  <1>. QED  BY <1>1, AuthoringAlways, PTL

\* A script that reports no failure has done what it was run for: a record of
\* the file is in the table, and nothing is left for a second backfill, wherever
\* no moderator has been at the recipe of that slug since the script was.
THEOREM AuthoringConverges == Spec => []RunsConverge
  <1>1. AuthoringInv => RunsConverge
    <2>. SUFFICES ASSUME AuthoringInv, call = NoCall
                  PROVE  /\ script.at = "load" /\ script.todo = {} /\ script.put = {}
                                /\ ~script.failed =>
                              \A rec \in script.file : rec \in Stored \/ rec.slug \in touched
                         /\ script.at = "backfill" /\ script.todo = {} /\ ~script.failed =>
                              \A row \in ToSet(Stored) : row.slug \in touched
      BY DEF RunsConverge
    <2>. QED  BY DEF AuthoringInv, LoadHolds, ListHolds
  <1>. QED  BY <1>1, AuthoringAlways, PTL

\* Of any yield that names one count, the importer of the API and the backfill
\* make the same count, or one of them makes none.
THEOREM AuthoringImportsAgree == Spec => []ImportsAgree
  <1>1. ImportsAgree
    <2>. SUFFICES ASSUME NEW y \in Yields, NEW t \in Times, NEW s \in PlainSources, OneCount(y)
                  PROVE  \/ ByApi(y, t, s) = ByScript(y, t, s)
                         \/ 1 \in {ByApi(y, t, s), ByScript(y, t, s)}
      BY DEF ImportsAgree
    <2>1. /\ y \in Text /\ t \in Text /\ ~InText(Wanted, t)
          /\ s \in Text /\ ~InText(Wanted, s)
      BY TimesAssumption DEF Text, PlainSources
    <2>2. PICK n \in Nat : ByApi(y, t, s) \in {1, n} /\ ByScript(y, t, s) \in {1, n}
      BY <2>1, RoadsAgree
    <2>. QED  BY <2>2
  <1>. QED  BY <1>1, PTL

\* Neither the times nor the source in a summary say how many it serves.
THEOREM AuthoringTimesAreNotCounts == Spec => []TimesAreNotCounts
  <1>1. TimesAreNotCounts
    <2>. SUFFICES ASSUME NEW y \in Yields, NEW t \in Times, NEW s \in PlainSources
                  PROVE  /\ ByApi(y, t, s) = ByApi(y, <<>>, <<>>)
                         /\ ByScript(y, t, s) = ByScript(y, <<>>, <<>>)
      BY DEF TimesAreNotCounts
    <2>1. /\ y \in Text /\ t \in Text /\ ~InText(Wanted, t)
          /\ s \in Text /\ ~InText(Wanted, s)
      BY TimesAssumption DEF Text, PlainSources
    <2>. QED  BY <2>1, TimesAreLost
  <1>. QED  BY <1>1, PTL

\* A step that is no moderator's touches the rows only as the insert or the
\* update of the call, and the class only as its update.
LEMMA CallsWrite ==
    ASSUME AuthoringInv, [Next]_vars, edits' = edits
    PROVE  /\ Insert \/ Update \/ rows' = rows
           /\ ClassUpdate \/ class' = class
  <1>1. ~EditRecipe /\ ~EditTerm /\ ~EditClass
    BY DEF EditRecipe, EditTerm, EditClass, Edit, AuthoringInv, TypeOK
  <1>2. CASE UNCHANGED vars  BY <1>2 DEF vars
  <1>3. CASE Handler
    BY <1>3
    DEF Handler, PostCheck, PutCheck, Check, Insert, PutRead, Update, ClassRead, ClassUpdate,
        Fail, tables
  <1>4. CASE End \/ BeginBackfill \/ ToolsPut
              \/ (\E file \in Files : BeginLoad(file))
              \/ (\E new \in Tools : BeginTools(new))
              \/ (\E rec : LoadPost(rec) \/ LoadPut(rec) \/ BackfillPut(rec))
    BY <1>4
    DEF End, BeginBackfill, ToolsPut, BeginLoad, BeginTools, LoadPost, LoadPut, BackfillPut,
        Run, Request, tables
  <1>. QED  BY <1>1, <1>2, <1>3, <1>4 DEF Next

\* What a backfill does to a recipe nobody has written since it began: it sets
\* the count of one that was still at 1, and nothing else.
LEMMA BackfillTouches ==
    ASSUME AuthoringInv, [Next]_vars, edits' = edits, call.by = "backfill"
    PROVE  \A r \in Live \ written :
             /\ [rows[r] EXCEPT !.servings = 1] = [rows'[r] EXCEPT !.servings = 1]
             /\ rows[r].servings > 1 => rows'[r] = rows[r]
  <1>. USE DEF AuthoringInv
  <1>1. CASE rows' = rows  BY <1>1
  <1>2. CASE Update /\ rows' # rows
    <2>1. /\ call.at = "update" /\ call # NoCall
          /\ call \in [by : {"load", "backfill"}, at : {"check", "update"}, row : Row,
                       id : RecipeIds, seen : Row]
          /\ call.id \in Live
          /\ rows' = [rows EXCEPT ![call.id] = ChangedColumns(@, call.seen, call.row)]
      BY <1>2, CallShape DEF Update, NoCall
    <2>. SUFFICES ASSUME NEW r \in Live \ written
                  PROVE  /\ [rows[r] EXCEPT !.servings = 1] = [rows'[r] EXCEPT !.servings = 1]
                         /\ rows[r].servings > 1 => rows'[r] = rows[r]
      OBVIOUS
    <2>2. CASE r # call.id
      <3>1. rows'[r] = rows[r]  BY <2>1, <2>2 DEF TypeOK, Live
      <3>. QED  BY <3>1
    <2>3. CASE r = call.id
      <3>1. rows[r] = call.seen /\ call.seen.slug = call.row.slug
        BY <2>1, <2>3 DEF CallHolds
      <3>2. rows[r].servings = 1 /\ [call.row EXCEPT !.servings = 1] = rows[r]
        BY <2>1, <3>1 DEF CallHolds
      <3>3. rows[r] \in Row /\ call.row \in Row  BY <2>1, LiveRows
      <3>4. rows'[r] = call.row
        BY <2>1, <2>3, <3>1, <3>3, ChangedRow DEF TypeOK
      <3>5. [rows[r] EXCEPT !.servings = 1] = rows[r]  BY <3>2, <3>3 DEF Row
      <3>. QED  BY <3>2, <3>4, <3>5
    <2>. QED  BY <2>2, <2>3
  <1>3. CASE Insert  BY <1>3, CallShape DEF Insert
  <1>. QED  BY <1>1, <1>2, <1>3, CallsWrite

\* A load of tools changes nothing but the tools, in a class whose other fields
\* are as it read them.
LEMMA ToolsTouch ==
    ASSUME AuthoringInv, [Next]_vars, edits' = edits,
           call.by = "tools", class # Deleted, class.body = call.new.body
    PROVE  class'.body = class.body
  <1>1. CASE ClassUpdate
    <2>1. call \in [by : {"tools"}, at : {"class_update"}, new : Class, seen : Class]
      BY <1>1, CallShape DEF ClassUpdate, AuthoringInv
    <2>2. class \in Class  BY DEF AuthoringInv, TypeOK
    <2>. QED  BY <1>1, <2>1, <2>2, ChangedClass DEF ClassUpdate
  <1>2. CASE class' = class  BY <1>2
  <1>. QED  BY <1>1, <1>2, CallsWrite

\* In what nobody has written since they read it, the backfill changes nothing
\* but the servings, and a load of tools nothing but the tools.
THEOREM AuthoringKeepsTheRest == Spec => ScriptsKeepTheRest
  <1>1. AuthoringInv /\ [Next]_vars =>
           (edits' = edits =>
             /\ call.by = "backfill" => \A r \in Live \ written :
                  [rows[r] EXCEPT !.servings = 1] = [rows'[r] EXCEPT !.servings = 1]
             /\ call.by = "tools" /\ class # Deleted /\ class.body = call.new.body =>
                  class'.body = class.body)
    BY BackfillTouches, ToolsTouch
  <1>. QED  BY <1>1, AuthoringAlways, PTL DEF Spec, ScriptsKeepTheRest

\* A count somebody has set above 1 is left alone by every backfill that has
\* listed it so.
THEOREM AuthoringCountsStand == Spec => CountsStand
  <1>1. AuthoringInv /\ [Next]_vars =>
           (edits' = edits /\ call.by = "backfill" =>
              \A r \in Live \ written : rows[r].servings > 1 => rows'[r] = rows[r])
    BY BackfillTouches
  <1>. QED  BY <1>1, AuthoringAlways, PTL DEF Spec, CountsStand

=============================================================================
