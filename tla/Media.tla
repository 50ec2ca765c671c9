--------------------------------- MODULE Media ---------------------------------
(***************************************************************************)
(* Lesson videos, from the upload in the editor to the files the player    *)
(* is given.                                                               *)
(*                                                                         *)
(* The API signs a URL for a key named after the recipe's slug; the        *)
(* browser puts the source there; S3 tells the Lambda, at least once and   *)
(* in no order; the Lambda submits a MediaConvert job, and is run again    *)
(* when it fails; a job reads the source when it starts and writes its     *)
(* outputs one by one under the key without its extension.  Jobs run side  *)
(* by side.                                                                *)
(***************************************************************************)
EXTENDS Integers, Sequences

CONSTANTS
    Slugs,
    Stem,           \* Stem[s]: _slugify, at most 60 characters of slug s
    Exts,           \* VIDEO_TYPES
    Tabs,           \* editors open
    Jobs,           \* bound on the jobs under way at once
    Uploads,        \* bound on the uploads
    Retries,        \* times the Lambda service runs a failed event again
    Copies          \* bound on the events S3 delivers twice

Stems == {Stem[s] : s \in Slugs}
Keys == [stem : Stems, ext : Exts]
Parts == {"hls", "poster"}

ASSUME MediaAssumption ==
    Uploads \in Nat /\ Retries \in Nat /\ Copies \in Nat /\ Slugs = DOMAIN Stem

VARIABLES
    tab,        \* tab[w]: the URL a tab was given and has not used
    puts,       \* history: the keys put, in order; an upload is its place here
    ingest,     \* ingest[k]: the upload that is at key k, 0 if none
    events,     \* ObjectCreated events not yet dealt with
    copies,     \* events S3 has repeated, up to Copies
    job,        \* job[j]: a MediaConvert job, or NoJob
    output,     \* output[b][p]: the upload that part p under base b is of, or 0
    lost,       \* history: uploads given up, by the Lambda or by MediaConvert
    hurried     \* history: bases whose last upload came while an older source was
                \* being read, or one of another type was on its way

vars == <<tab, puts, ingest, events, copies, job, output, lost, hurried>>

NoTab == [at |-> "idle"]
NoJob == [at |-> "none"]
Event == [upload : 1..Uploads, key : Keys, tries : 0..Retries, made : BOOLEAN]
Job ==
    [at : {"submitted"}, key : Keys]
    \cup [at : {"running"}, key : Keys, source : 1..Uploads, todo : SUBSET Parts]

TypeOK ==
    /\ tab \in [Tabs -> [at : {"signed"}, key : Keys] \cup {NoTab}]
    /\ puts \in Seq(Keys) /\ Len(puts) <= Uploads
    /\ ingest \in [Keys -> 0..Uploads]
    /\ events \subseteq Event
    /\ copies \in 0..Copies
    /\ job \in [Jobs -> Job \cup {NoJob}]
    /\ output \in [Stems -> [Parts -> 0..Uploads]]
    /\ lost \subseteq 1..Uploads
    /\ hurried \subseteq Stems

Init ==
    /\ tab = [w \in Tabs |-> NoTab]
    /\ puts = <<>>
    /\ ingest = [k \in Keys |-> 0]
    /\ events = {} /\ copies = 0
    /\ job = [j \in Jobs |-> NoJob]
    /\ output = [b \in Stems |-> [p \in Parts |-> 0]]
    /\ lost = {} /\ hurried = {}

\* What the pipeline still has to do for a base.
Pending(b) ==
    \/ \E e \in events : e.key.stem = b
    \/ \E j \in Jobs : job[j] # NoJob /\ job[j].key.stem = b

-----------------------------------------------------------------------------
(* The editor and the API. *)

\* build_key for a video: named after the slug, so that it can be put again.
BuildKey(slug, ext) == [stem |-> Stem[slug], ext |-> ext]

\* presign_put, for the slug in the form, saved or not: a tab has its URL.
Presign(w, slug, ext) ==
    /\ tab[w] = NoTab
    /\ tab' = [tab EXCEPT ![w] = [at |-> "signed", key |-> BuildKey(slug, ext)]]
    /\ UNCHANGED <<puts, ingest, events, copies, job, output, lost, hurried>>

\* What an upload of k cannot catch up with: a source of its base that is being
\* read, and one of another type that is yet to be.
Overlaps(k) ==
    \/ \E e \in events : e.key.stem = k.stem /\ e.key # k
    \/ \E j \in Jobs :
          /\ job[j] # NoJob /\ job[j].key.stem = k.stem
          /\ job[j].at = "running" \/ job[j].key # k

\* The browser's PUT, while the URL is good.
PutObject(w) ==
    LET k == tab[w].key
        u == Len(puts) + 1
    IN
    /\ tab[w].at = "signed" /\ u <= Uploads
    /\ tab' = [tab EXCEPT ![w] = NoTab]
    /\ puts' = Append(puts, k)
    /\ ingest' = [ingest EXCEPT ![k] = u]
    /\ events' = events \cup {[upload |-> u, key |-> k, tries |-> 0, made |-> FALSE]}
    /\ hurried' = IF Overlaps(k) THEN hurried \cup {k.stem} ELSE hurried \ {k.stem}
    /\ UNCHANGED <<copies, job, output, lost>>

\* The URL runs out, or the PUT fails.
Abandon(w) ==
    /\ tab[w] # NoTab
    /\ tab' = [tab EXCEPT ![w] = NoTab]
    /\ UNCHANGED <<puts, ingest, events, copies, job, output, lost, hurried>>

Editor == \E w \in Tabs :
    \/ \E s \in Slugs, x \in Exts : Presign(w, s, x)
    \/ PutObject(w) \/ Abandon(w)

-----------------------------------------------------------------------------
(* The Lambda. *)

\* Variant: a lesson that has outputs is not submitted again.
SubmitOnce(k) ==
    IF output[k.stem]["hls"] # 0 THEN UNCHANGED job
    ELSE \E j \in Jobs :
        /\ job[j] = NoJob
        /\ job' = [job EXCEPT ![j] = [at |-> "submitted", key |-> k]]

\* create_job
Submit(k) == \E j \in Jobs :
    /\ job[j] = NoJob
    /\ job' = [job EXCEPT ![j] = [at |-> "submitted", key |-> k]]

\* handler goes through; S3 may yet deliver the event again.
Handle(e) ==
    /\ Submit(e.key)
    /\ \/ events' = events \ {e} /\ UNCHANGED copies
       \/ /\ copies < Copies /\ copies' = copies + 1
          /\ events' = (events \ {e}) \cup {[e EXCEPT !.made = TRUE]}
    /\ UNCHANGED <<tab, puts, ingest, output, lost, hurried>>

\* Variant: a failed event is not tried again.
HandleFailsOnce(e) ==
    /\ Submit(e.key) \/ UNCHANGED job
    /\ events' = events \ {e}
    /\ UNCHANGED <<tab, puts, ingest, copies, output, lost, hurried>>

\* handler raises or times out, its job submitted or not; it is run again for
\* the same event until the service gives up.
HandleFails(e) ==
    /\ \/ Submit(e.key) /\ events' = (events \ {e}) \cup
             (IF e.tries < Retries THEN {[e EXCEPT !.tries = @ + 1, !.made = TRUE]} ELSE {})
          /\ UNCHANGED lost
       \/ UNCHANGED job /\ events' = (events \ {e}) \cup
             (IF e.tries < Retries THEN {[e EXCEPT !.tries = @ + 1]} ELSE {})
          /\ lost' = IF e.tries = Retries /\ ~e.made THEN lost \cup {e.upload} ELSE lost
    /\ UNCHANGED <<tab, puts, ingest, copies, output, hurried>>

Lambda == \E e \in events : Handle(e) \/ HandleFails(e)

-----------------------------------------------------------------------------
(* MediaConvert. *)

\* The job reads what is at its key now.
Start(j) ==
    /\ job[j].at = "submitted"
    /\ job' = [job EXCEPT ![j] =
            [at |-> "running", key |-> @.key, source |-> ingest[@.key], todo |-> Parts]]
    /\ UNCHANGED <<tab, puts, ingest, events, copies, output, lost, hurried>>

\* It writes an output group, HLS or Thumbnail, under the base of its key.
Write(j, p) ==
    LET q == job[j] IN
    /\ q.at = "running" /\ p \in q.todo
    /\ output' = [output EXCEPT ![q.key.stem][p] = q.source]
    /\ job' = [job EXCEPT ![j] =
            IF q.todo = {p} THEN NoJob ELSE [q EXCEPT !.todo = q.todo \ {p}]]
    /\ UNCHANGED <<tab, puts, ingest, events, copies, lost, hurried>>

\* The job fails, before it has written anything or after.
JobFails(j) ==
    /\ job[j].at = "running"
    /\ lost' = lost \cup {job[j].source}
    /\ job' = [job EXCEPT ![j] = NoJob]
    /\ UNCHANGED <<tab, puts, ingest, events, copies, output, hurried>>

MediaConvert == \E j \in Jobs : Start(j) \/ (\E p \in Parts : Write(j, p)) \/ JobFails(j)

Next == Editor \/ Lambda \/ MediaConvert

\* S3 and Lambda deliver, and MediaConvert goes on with what it has; nobody
\* has to upload.
Spec == Init /\ [][Next]_vars /\ WF_vars(Lambda) /\ WF_vars(MediaConvert)

-----------------------------------------------------------------------------
(* Properties. *)

\* The last upload of a base, 0 if none.
Latest(b) ==
    LET U == {u \in DOMAIN puts : puts[u].stem = b} IN
    IF U = {} THEN 0 ELSE CHOOSE u \in U : \A v \in U : v <= u

\* "Re-uploading a lesson replaces it in place" (media_uploads.py:52), whatever
\* its type, however often its event came and whichever was first, the new source
\* or the job of an event before it: when the pipeline is done every part of the
\* lesson is of the last upload, unless that came while an older source was being
\* read or one of another type was on its way, or a job of it failed.
ReplacedInPlace ==
    \A b \in Stems :
        Pending(b) \/ b \in hurried \/ Latest(b) \in lost
            \/ \A p \in Parts : output[b][p] = Latest(b)

\* Every upload S3 tells of comes out of the pipeline, each part at some time
\* after the first job for it was submitted, unless it is given up or a later
\* one for its lesson is made.
EveryUploadComesOut ==
    \A u \in 1..Uploads, p \in Parts :
        (\E e \in events : e.upload = u /\ ~e.made) ~>
            \/ u \in lost
            \/ /\ u \in DOMAIN puts
               /\ Latest(puts[u].stem) > u \/ output[puts[u].stem][p] = u
=============================================================================
