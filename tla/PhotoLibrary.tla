----------------------------- MODULE PhotoLibrary -----------------------------
(***************************************************************************)
(* The family photo library: the bucket, the script that fills it, and the *)
(* list endpoint that hands members signed URLs.                           *)
(*                                                                         *)
(* populate_library.py renders the chosen photos into a directory, writes  *)
(* the manifest there, then has `aws s3 sync --delete` make the bucket the *)
(* same as the directory.  The sync moves several objects at once and in   *)
(* no order one may rely on, and may be cut short.  The list endpoint      *)
(* signs a URL for what the manifest names, without looking at the bucket. *)
(***************************************************************************)
EXTENDS Tokens

CONSTANTS
    Photos,
    Family,     \* FAMILY_GROUP
    UrlTtl      \* URL_TTL, in ticks

ASSUME PhotoAssumption == Family \in Groups /\ UrlTtl \in Nat \ {0}

VARIABLES
    bucket,     \* the images in the bucket
    manifest,   \* manifest.json in the bucket: the photos it lists; none if absent
    kept,       \* the images in the directory given as --staging
    job,        \* the run of populate_library.py
    last,       \* history: the directory the bucket was last made the same as, "own"
                \* or "kept", or "torn" from the start of a sync to its end
    page        \* page[u]: the gallery open in u's browser: a set of one or none

photoVars == <<bucket, manifest, kept, job, last, page>>
libraryVars == <<members, since, asked, store, awaited, out, late,
                 bucket, manifest, kept, job, last, page>>

Images == Photos \X {"full", "thumb"}
ImagesOf(photos) == photos \X {"full", "thumb"}
Manifest == [photos : SUBSET Photos]

NoJob == [at |-> "none"]
Job ==
    [at : {"stage"},
     own : BOOLEAN,             \* a temporary directory, not --staging
     files : SUBSET Images,     \* what the directory holds
     todo : SUBSET Photos,      \* of the photos queried, those not dealt with
     listed : SUBSET Photos]    \* those in the manifest so far
    \cup
    [at : {"sync"}, own : BOOLEAN,
     put : SUBSET Images, del : SUBSET Images,  \* transfers still to make
     new : SUBSET Manifest]                     \* manifest still to send

Page == [photos : SUBSET Photos, age : 0..UrlTtl]

LibraryTypeOK ==
    /\ TokensTypeOK
    /\ bucket \subseteq Images /\ kept \subseteq Images
    /\ manifest \in SUBSET Manifest
    /\ job \in Job \cup {NoJob}
    /\ last \in {"own", "kept", "torn"}
    /\ page \in [Users -> SUBSET Page]

LibraryInit ==
    /\ TokensInit
    /\ bucket = {} /\ manifest = {} /\ kept = {}
    /\ job = NoJob
    /\ last = "own"
    /\ page = [u \in Users |-> {}]

-----------------------------------------------------------------------------
(* populate_library.py.  Its steps leave the tokens and the pages alone. *)

\* main, as far as the catalog query: --albums and --limit choose the photos,
\* the directory is a new one or the one named by --staging.
Begin(photos, own) ==
    /\ job = NoJob
    /\ job' = [at |-> "stage", own |-> own, files |-> IF own THEN {} ELSE kept,
               todo |-> photos, listed |-> {}]
    /\ UNCHANGED <<bucket, manifest, kept, last>>

\* Variant: a photo that is listed before its source is found.
SkipListed(p) ==
    /\ job.at = "stage" /\ p \in job.todo
    /\ job' = [job EXCEPT !.todo = @ \ {p}, !.listed = @ \cup {p}]
    /\ UNCHANGED <<bucket, manifest, kept, last>>

\* best_source finds nothing on this Mac, or --require-original turns it down.
Skip(p) ==
    /\ job.at = "stage" /\ p \in job.todo
    /\ job' = [job EXCEPT !.todo = @ \ {p}]
    /\ UNCHANGED <<bucket, manifest, kept, last>>

\* The loop of main renders into its directory.
Write(images) == kept' = IF job.own THEN kept ELSE kept \cup images

\* sips renders the full image and the thumbnail, and the photo is listed.
Render(p) ==
    /\ job.at = "stage" /\ p \in job.todo
    /\ job' = [job EXCEPT !.todo = @ \ {p}, !.listed = @ \cup {p},
                          !.files = @ \cup ImagesOf({p})]
    /\ Write(ImagesOf({p}))
    /\ UNCHANGED <<bucket, manifest, last>>

\* sips fails at the thumbnail: the script ends, the full image stays.
FailRender(p) ==
    /\ job.at = "stage" /\ p \in job.todo
    /\ job' = NoJob
    /\ Write({<<p, "full">>})
    /\ UNCHANGED <<bucket, manifest, last>>

\* Variant: a sync without --delete.
TransfersKeep ==
    [at |-> "sync", own |-> job.own, put |-> job.files, del |-> {},
     new |-> {[photos |-> job.listed]}]

\* What `aws s3 sync --delete` finds to do: what the directory holds, and what
\* the bucket holds that the directory does not.
Transfers ==
    [at |-> "sync", own |-> job.own, put |-> job.files, del |-> bucket \ job.files,
     new |-> {[photos |-> job.listed]}]

Upload ==
    /\ job.at = "stage" /\ job.todo = {}
    /\ job' = Transfers
    /\ last' = "torn"
    /\ UNCHANGED <<bucket, manifest, kept>>

Put(i) ==
    /\ job.at = "sync" /\ i \in job.put
    /\ bucket' = bucket \cup {i}
    /\ job' = [job EXCEPT !.put = @ \ {i}]
    /\ UNCHANGED <<manifest, kept, last>>

Delete(i) ==
    /\ job.at = "sync" /\ i \in job.del
    /\ bucket' = bucket \ {i}
    /\ job' = [job EXCEPT !.del = @ \ {i}]
    /\ UNCHANGED <<manifest, kept, last>>

PutManifest ==
    /\ job.at = "sync" /\ job.new # {}
    /\ manifest' = job.new
    /\ job' = [job EXCEPT !.new = {}]
    /\ UNCHANGED <<bucket, kept, last>>

Complete ==
    /\ job.at = "sync" /\ job.put = {} /\ job.del = {} /\ job.new = {}
    /\ job' = NoJob
    /\ last' = IF job.own THEN "own" ELSE "kept"
    /\ UNCHANGED <<bucket, manifest, kept>>

\* --dry-run, sips or the sync fails, the credentials expire, or Ctrl-C.
Stop ==
    /\ job # NoJob
    /\ job' = NoJob
    /\ UNCHANGED <<bucket, manifest, kept, last>>

Populate ==
    /\ \/ \E photos \in SUBSET Photos, own \in BOOLEAN : Begin(photos, own)
       \/ \E p \in Photos : Skip(p) \/ Render(p) \/ FailRender(p)
       \/ Upload
       \/ \E i \in Images : Put(i) \/ Delete(i)
       \/ PutManifest \/ Complete \/ Stop
    /\ UNCHANGED page /\ UNCHANGED tokenVars

-----------------------------------------------------------------------------
(* The list endpoint and the gallery. *)

\* _load_manifest: no manifest is an empty library.
Listed == UNION {m.photos : m \in manifest}

\* load of family.js: the handler signs URLs for a member and answers 403 to
\* anyone else; the gateway's authorizer has refused an expired token.
Open(u) ==
    /\ page' = [page EXCEPT ![u] =
            IF HasRole(u, Family) THEN {[photos |-> Listed, age |-> 0]} ELSE {}]
    /\ UNCHANGED <<bucket, manifest, kept, job, last>> /\ UNCHANGED tokenVars

\* The photos u can look at: a URL not yet expired, an image that is there.
Shown(u) ==
    {p \in Photos : \E g \in page[u] :
        p \in g.photos /\ g.age < UrlTtl /\ ImagesOf({p}) \cap bucket # {}}

LibraryPass ==
    /\ Tick
    /\ page' = [u \in Users |-> {[g EXCEPT !.age = Older(@, UrlTtl)] : g \in page[u]}]
    /\ UNCHANGED <<bucket, manifest, kept, job, last>>

LibraryNext ==
    \/ (Browse \/ Administer) /\ UNCHANGED photoVars
    \/ Populate
    \/ \E u \in Users : Open(u)
    \/ LibraryPass

LibrarySpec == LibraryInit /\ [][LibraryNext]_libraryVars

-----------------------------------------------------------------------------
(* Properties. *)

\* Nobody looks at a photo longer than a token's life and a URL's after leaving
\* the family group: the token, the page and the URLs are each taken on trust.
ViewsRunOut ==
    \A u \in Users : Shown(u) # {} => since[Family][u] < Life + UrlTtl

\* The manifest names only images that are in the bucket, unless a sync is
\* under way or was cut short (populate_library.py:309).
ListedPhotosExist ==
    last # "torn" => ImagesOf(Listed) \subseteq bucket

\* A photo taken off the list leaves the bucket, unless a directory kept from
\* an earlier run still holds it: the script never clears --staging.
UnlistedPhotosGone ==
    last # "torn" =>
        bucket \subseteq ImagesOf(Listed) \cup (IF last = "own" THEN {} ELSE kept)
=============================================================================
