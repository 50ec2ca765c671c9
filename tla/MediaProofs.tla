------------------------------ MODULE MediaProofs ------------------------------
(***************************************************************************)
(* Lesson videos, for any number of lessons, editors, jobs, uploads,       *)
(* retries and repeated events: a lesson ends up with the outputs of its   *)
(* last upload, unless that overlapped one it could not catch up with.     *)
(***************************************************************************)
EXTENDS Media, TLAPS

\* The uploads of a base.
UploadsOf(b) == {u \in DOMAIN puts : puts[u].stem = b}

\* Latest is what its name says.
LatestIs ==
    \A b \in Stems :
        IF UploadsOf(b) = {} THEN Latest(b) = 0
        ELSE Latest(b) \in UploadsOf(b) /\ \A v \in UploadsOf(b) : v <= Latest(b)

\* At a key is the last upload that was put there.
IngestIs ==
    \A k \in Keys : \A u \in DOMAIN puts :
        puts[u] = k =>
            /\ ingest[k] \in DOMAIN puts /\ puts[ingest[k]] = k
            /\ u <= ingest[k]

\* Events, jobs and outputs come from uploads.
EventsTell ==
    \A e \in events : e.upload \in DOMAIN puts /\ puts[e.upload] = e.key
JobsTell ==
    \A j \in Jobs : job[j] # NoJob =>
        /\ \E u \in DOMAIN puts : puts[u] = job[j].key
        /\ job[j].at = "running" =>
               job[j].source \in DOMAIN puts /\ puts[job[j].source] = job[j].key
OutputsTell ==
    \A b \in Stems, p \in Parts : output[b][p] # 0 => output[b][p] \in UploadsOf(b)

\* If the last upload of a base did not overlap one it cannot catch up with, then
\* all that is still to be done there is of its key, and what is read is its source.
OnlyTheLast ==
    \A b \in Stems \ hurried :
        /\ \A e \in events : e.key.stem = b => e.key = puts[Latest(b)]
        /\ \A j \in Jobs : job[j] # NoJob /\ job[j].key.stem = b =>
               /\ job[j].key = puts[Latest(b)]
               /\ job[j].at = "running" => job[j].source = Latest(b)

\* A job of base b that will yet write part p.
WillWrite(j, b, p) ==
    /\ job[j] # NoJob /\ job[j].key.stem = b
    /\ job[j].at = "running" => p \in job[j].todo

\* For every part of such a base its last upload is out, or a job will write
\* it, or an event no job was submitted for is still to be dealt with, or the
\* upload was given up.
Owed ==
    \A b \in Stems \ hurried : UploadsOf(b) # {} /\ Latest(b) \notin lost =>
        \A p \in Parts :
            \/ output[b][p] = Latest(b)
            \/ \E j \in Jobs : WillWrite(j, b, p)
            \/ \E e \in events : e.upload = Latest(b) /\ ~e.made

MediaInv ==
    /\ TypeOK /\ LatestIs /\ IngestIs /\ EventsTell /\ JobsTell /\ OutputsTell
    /\ OnlyTheLast /\ Owed

-----------------------------------------------------------------------------

\* A tab, a job and an event have their fields.
LEMMA TabShape ==
    ASSUME TypeOK, NEW w \in Tabs
    PROVE  tab[w].at = "signed" => tab[w].key \in Keys
  BY DEF TypeOK, NoTab

LEMMA JobShape ==
    ASSUME TypeOK, NEW j \in Jobs
    PROVE  /\ job[j] = NoJob \/ job[j] \in Job
           /\ job[j] # NoJob => job[j].key \in Keys /\ job[j].key.stem \in Stems
           /\ job[j].at = "submitted" =>
                  job[j] # NoJob /\ job[j] \in [at : {"submitted"}, key : Keys]
           /\ job[j].at = "running" =>
                  /\ job[j] # NoJob
                  /\ job[j] \in [at : {"running"}, key : Keys, source : 1..Uploads,
                                 todo : SUBSET Parts]
           /\ NoJob.at = "none" /\ NoJob \notin Job
  <1>1. NoJob.at = "none" /\ NoJob \notin Job  BY DEF Job, NoJob
  <1>2. job[j] = NoJob \/ job[j] \in Job  BY DEF TypeOK
  <1>3. ASSUME job[j] \in Job
        PROVE  \/ /\ job[j] \in [at : {"submitted"}, key : Keys]
                  /\ job[j].at = "submitted" /\ job[j].key \in Keys
               \/ /\ job[j] \in [at : {"running"}, key : Keys, source : 1..Uploads,
                                  todo : SUBSET Parts]
                  /\ job[j].at = "running" /\ job[j].key \in Keys
    BY <1>3 DEF Job
  <1>4. \A k \in Keys : k.stem \in Stems  BY DEF Keys
  <1>. QED  BY <1>1, <1>2, <1>3, <1>4

LEMMA EventShape ==
    ASSUME TypeOK, NEW e \in events
    PROVE  /\ e \in Event /\ e.key \in Keys /\ e.key.stem \in Stems
           /\ e.upload \in 1..Uploads /\ e.tries \in 0..Retries /\ e.made \in BOOLEAN
  BY DEF TypeOK, Event, Keys

\* An upload's place is a natural number.
LEMMA PutsDomain ==
    ASSUME TypeOK
    PROVE  /\ DOMAIN puts = 1..Len(puts) /\ Len(puts) \in Nat
           /\ \A u \in DOMAIN puts : u \in Nat \ {0} /\ puts[u] \in Keys
                                     /\ puts[u].stem \in Stems
  <1>1. puts \in Seq(Keys)  BY DEF TypeOK
  <1>2. DOMAIN puts = 1..Len(puts) /\ Len(puts) \in Nat  BY <1>1
  <1>3. \A u \in DOMAIN puts : puts[u] \in Keys  BY <1>1
  <1>4. \A k \in Keys : k.stem \in Stems  BY DEF Keys
  <1>. QED  BY <1>2, <1>3, <1>4

\* The last of a set of uploads is known by being one and none coming later.
LEMMA LatestKnown ==
    ASSUME TypeOK, NEW b \in Stems, NEW u \in UploadsOf(b),
           \A v \in UploadsOf(b) : v <= u
    PROVE  Latest(b) = u
  <1>. DEFINE U == {v \in DOMAIN puts : puts[v].stem = b}
              m == CHOOSE v \in U : \A x \in U : x <= v
  <1>1. U = UploadsOf(b)  BY DEF UploadsOf
  <1>2. Latest(b) = IF U = {} THEN 0 ELSE m  BY DEF Latest
  <1>3. \E v \in U : \A x \in U : x <= v  BY <1>1
  <1>4. m \in U /\ \A x \in U : x <= m  BY <1>3
  <1>5. m \in Int /\ u \in Int  BY <1>1, <1>4, PutsDomain DEF UploadsOf
  <1>6. m <= u /\ u <= m  BY <1>1, <1>4
  <1>. QED  BY <1>1, <1>2, <1>5, <1>6

\* As long as nothing is put, the last uploads stay what they are.
LEMMA PutsStay ==
    ASSUME UNCHANGED puts
    PROVE  \A b : UploadsOf(b)' = UploadsOf(b) /\ Latest(b)' = Latest(b)
  BY DEF UploadsOf, Latest

\* At first nothing was put.
LEMMA InitInv == Init => MediaInv
  <1>. SUFFICES ASSUME Init PROVE MediaInv  OBVIOUS
  <1>1. TypeOK
    <2>1. puts \in Seq(Keys) /\ Len(puts) = 0  BY DEF Init
    <2>2. Init => output \in [Stems -> [Parts -> 0..Uploads]]
      BY MediaAssumption DEF Init
    <2>. QED  BY <2>1, <2>2, MediaAssumption DEF Init, TypeOK
  <1>2. DOMAIN puts = {}  BY DEF Init
  <1>3. \A b : UploadsOf(b) = {}  BY <1>2 DEF UploadsOf
  <1>4. \A b : Latest(b) = 0  BY <1>2 DEF Latest
  <1>5. LatestIs /\ IngestIs  BY <1>2, <1>3, <1>4 DEF LatestIs, IngestIs
  <1>6. EventsTell /\ JobsTell /\ OutputsTell
    BY DEF Init, EventsTell, JobsTell, OutputsTell
  <1>7. OnlyTheLast /\ Owed  BY <1>3 DEF Init, OnlyTheLast, Owed
  <1>. QED  BY <1>1, <1>5, <1>6, <1>7 DEF MediaInv
-----------------------------------------------------------------------------
(* The editor. *)

\* What the pipeline owes does not depend on the tabs.
LEMMA TabsAlone ==
    ASSUME MediaInv, UNCHANGED <<puts, ingest, events, job, output, lost, hurried>>,
           TypeOK'
    PROVE  MediaInv'
  <1>1. \A b : UploadsOf(b)' = UploadsOf(b) /\ Latest(b)' = Latest(b)  BY PutsStay
  <1>2. \A j, b, p : WillWrite(j, b, p)' = WillWrite(j, b, p)  BY DEF WillWrite
  <1>3. LatestIs' /\ IngestIs'  BY <1>1 DEF MediaInv, LatestIs, IngestIs
  <1>4. EventsTell' /\ JobsTell' /\ OutputsTell'
    BY <1>1 DEF MediaInv, EventsTell, JobsTell, OutputsTell
  <1>5. OnlyTheLast'  BY <1>1 DEF MediaInv, OnlyTheLast
  <1>6. Owed'  BY <1>1, <1>2 DEF MediaInv, Owed
  <1>. QED  BY <1>3, <1>4, <1>5, <1>6 DEF MediaInv

\* Tabs that put nothing: one is given a URL, or does not use it.
LEMMA PresignKeeps ==
    ASSUME MediaInv, NEW w \in Tabs, NEW s \in Slugs, NEW x \in Exts, Presign(w, s, x)
    PROVE  MediaInv'
  <1>1. UNCHANGED <<puts, ingest, events, copies, job, output, lost, hurried>>
    BY DEF Presign
  <1>2. BuildKey(s, x) \in Keys  BY DEF BuildKey, Keys, Stems
  <1>3. TypeOK'  BY <1>1, <1>2 DEF Presign, MediaInv, TypeOK
  <1>. QED  BY <1>1, <1>3, TabsAlone

LEMMA AbandonKeeps ==
    ASSUME MediaInv, NEW w \in Tabs, Abandon(w)
    PROVE  MediaInv'
  <1>1. UNCHANGED <<puts, ingest, events, copies, job, output, lost, hurried>>
    BY DEF Abandon
  <1>2. TypeOK'  BY <1>1 DEF Abandon, MediaInv, TypeOK
  <1>. QED  BY <1>1, <1>2, TabsAlone

\* What a PUT of the source at key k, as upload u, does to the uploads.
LEMMA PutEffect ==
    ASSUME MediaInv, NEW w \in Tabs, PutObject(w), NEW k, k = tab[w].key,
           NEW u, u = Len(puts) + 1
    PROVE  /\ k \in Keys /\ k.stem \in Stems /\ u \in 1..Uploads
           /\ puts' \in Seq(Keys) /\ Len(puts') = u
           /\ DOMAIN puts' = DOMAIN puts \cup {u} /\ puts'[u] = k
           /\ \A v \in DOMAIN puts : v # u /\ v <= u /\ puts'[v] = puts[v]
           /\ UploadsOf(k.stem)' = UploadsOf(k.stem) \cup {u}
           /\ Latest(k.stem)' = u
           /\ \A b \in Stems \ {k.stem} :
                  UploadsOf(b)' = UploadsOf(b) /\ Latest(b)' = Latest(b)
  <1>. USE DEF MediaInv
  <1>1. k \in Keys /\ k.stem \in Stems
    BY TabShape DEF PutObject, Keys
  <1>2. puts \in Seq(Keys) /\ Len(puts) \in Nat /\ DOMAIN puts = 1..Len(puts)
    BY DEF TypeOK
  <1>3. puts' = Append(puts, k) /\ u <= Uploads  BY DEF PutObject
  <1>4. /\ puts' \in Seq(Keys) /\ Len(puts') = u
        /\ DOMAIN puts' = DOMAIN puts \cup {u} /\ puts'[u] = k
        /\ \A v \in DOMAIN puts : v # u /\ v <= u /\ puts'[v] = puts[v]
    BY <1>1, <1>2, <1>3
  <1>5. u \in 1..Uploads  BY <1>2, <1>3, MediaAssumption
  <1>6. UploadsOf(k.stem)' = UploadsOf(k.stem) \cup {u}
    BY <1>4 DEF UploadsOf
  <1>7. Latest(k.stem)' = u
    <2>. DEFINE U == {v \in DOMAIN puts' : puts'[v].stem = k.stem}
                m == CHOOSE v \in U : \A y \in U : y <= v
    <2>1. u \in U /\ \A v \in U : v <= u  BY <1>2, <1>4
    <2>2. Latest(k.stem)' = m  BY <2>1 DEF Latest
    <2>3. m \in U /\ \A v \in U : v <= m  BY <2>1
    <2>4. m \in Int /\ u \in Int  BY <1>2, <1>4, <2>3
    <2>. QED  BY <2>1, <2>2, <2>3, <2>4
  <1>8. ASSUME NEW b \in Stems, b # k.stem
        PROVE  UploadsOf(b)' = UploadsOf(b) /\ Latest(b)' = Latest(b)
    <2>1. {v \in DOMAIN puts' : puts'[v].stem = b} = {v \in DOMAIN puts : puts[v].stem = b}
      BY <1>4, <1>8
    <2>2. UploadsOf(b)' = UploadsOf(b)  BY <2>1 DEF UploadsOf
    <2>. DEFINE U == {v \in DOMAIN puts' : puts'[v].stem = b}
                m == CHOOSE v \in U : \A y \in U : y <= v
    <2>3. Latest(b)' = IF U = {} THEN 0 ELSE m  BY DEF Latest
    <2>4. U = UploadsOf(b)  BY <2>1 DEF UploadsOf
    <2>5. CASE U = {}  BY <2>2, <2>3, <2>4, <2>5 DEF LatestIs
    <2>6. CASE U # {}
      <3>1. Latest(b) \in U /\ \A v \in U : v <= Latest(b)
        BY <2>4, <2>6 DEF LatestIs
      <3>2. m \in U /\ \A v \in U : v <= m  BY <3>1
      <3>3. m \in Int /\ Latest(b) \in Int  BY <1>2, <2>4, <3>1, <3>2 DEF UploadsOf
      <3>4. m <= Latest(b) /\ Latest(b) <= m  BY <3>1, <3>2
      <3>. QED  BY <2>2, <2>3, <2>6, <3>3, <3>4
    <2>. QED  BY <2>5, <2>6
  <1>9. \A b \in Stems \ {k.stem} :
            UploadsOf(b)' = UploadsOf(b) /\ Latest(b)' = Latest(b)
    BY <1>8
  <1>. QED  BY <1>1, <1>4, <1>5, <1>6, <1>7, <1>9

\* A PUT makes its upload the last one of its base.  If it overlaps one it cannot
\* catch up with, the base is hurried; if not, all that is pending there is of its
\* key and will read its source.
LEMMA PutKeeps ==
    ASSUME MediaInv, NEW w \in Tabs, PutObject(w)
    PROVE  MediaInv'
  <1>. USE DEF MediaInv
  <1>. PICK k : k = tab[w].key  OBVIOUS
  <1>. PICK u : u = Len(puts) + 1  OBVIOUS
  <1>1. /\ k \in Keys /\ k.stem \in Stems /\ u \in 1..Uploads
        /\ puts' \in Seq(Keys) /\ Len(puts') = u
        /\ DOMAIN puts' = DOMAIN puts \cup {u} /\ puts'[u] = k
        /\ \A v \in DOMAIN puts : v # u /\ v <= u /\ puts'[v] = puts[v]
        /\ UploadsOf(k.stem)' = UploadsOf(k.stem) \cup {u}
        /\ Latest(k.stem)' = u
        /\ \A b \in Stems \ {k.stem} :
               UploadsOf(b)' = UploadsOf(b) /\ Latest(b)' = Latest(b)
    BY PutEffect
  <1>. DEFINE new == [upload |-> u, key |-> k, tries |-> 0, made |-> FALSE]
  <1>2. /\ tab[w].at = "signed" /\ tab' = [tab EXCEPT ![w] = NoTab]
        /\ ingest' = [ingest EXCEPT ![k] = u]
        /\ events' = events \cup {new}
        /\ hurried' = IF Overlaps(k) THEN hurried \cup {k.stem}
                                         ELSE hurried \ {k.stem}
        /\ UNCHANGED <<copies, job, output, lost>>
    BY DEF PutObject
  <1>3. new \in Event  BY <1>1, MediaAssumption DEF Event
  <1>4. TypeOK'
    <2>1. tab' \in [Tabs -> [at : {"signed"}, key : Keys] \cup {NoTab}]
      BY <1>2 DEF TypeOK
    <2>2. ingest' \in [Keys -> 0..Uploads]  BY <1>1, <1>2 DEF TypeOK
    <2>3. hurried' \subseteq Stems  BY <1>1, <1>2 DEF TypeOK
    <2>4. Len(puts') <= Uploads  BY <1>1, MediaAssumption
    <2>. QED  BY <1>1, <1>2, <1>3, <2>1, <2>2, <2>3, <2>4 DEF TypeOK
  <1>5. LatestIs'
    <2>. SUFFICES ASSUME NEW b \in Stems
                  PROVE  IF UploadsOf(b)' = {} THEN Latest(b)' = 0
                         ELSE /\ Latest(b)' \in UploadsOf(b)'
                              /\ \A v \in UploadsOf(b)' : v <= Latest(b)'
      BY DEF LatestIs
    <2>1. CASE b = k.stem
      <3>1. UploadsOf(b)' = UploadsOf(b) \cup {u} /\ Latest(b)' = u  BY <1>1, <2>1
      <3>2. \A v \in UploadsOf(b) : v <= u  BY <1>1 DEF UploadsOf
      <3>. QED  BY <1>1, <3>1, <3>2
    <2>2. CASE b # k.stem  BY <1>1, <2>2 DEF LatestIs
    <2>. QED  BY <2>1, <2>2
  <1>6. IngestIs'
    <2>. SUFFICES ASSUME NEW l \in Keys, NEW v \in DOMAIN puts', puts'[v] = l
                  PROVE  /\ ingest'[l] \in DOMAIN puts' /\ puts'[ingest'[l]] = l
                         /\ v <= ingest'[l]
      BY DEF IngestIs
    <2>1. CASE l = k
      <3>1. ingest'[l] = u  BY <1>1, <1>2, <2>1 DEF TypeOK
      <3>. QED  BY <1>1, <2>1, <3>1
    <2>2. CASE l # k
      <3>1. ingest'[l] = ingest[l]  BY <1>2, <2>2 DEF TypeOK
      <3>2. v \in DOMAIN puts /\ puts[v] = l  BY <1>1, <2>2
      <3>3. ingest[l] \in DOMAIN puts /\ puts[ingest[l]] = l /\ v <= ingest[l]
        BY <3>2 DEF IngestIs
      <3>. QED  BY <1>1, <3>1, <3>3
    <2>. QED  BY <2>1, <2>2
  <1>7. EventsTell'  BY <1>1, <1>2 DEF EventsTell
  <1>8. JobsTell'  BY <1>1, <1>2 DEF JobsTell
  <1>9. \A b \in Stems : UploadsOf(b) \subseteq UploadsOf(b)'  BY <1>1
  <1>10. OutputsTell'  BY <1>2, <1>9 DEF OutputsTell
  <1>11. ASSUME NEW b \in Stems \ hurried', b = k.stem
         PROVE  /\ \A e \in events : e.key.stem = b => e.key = k
                /\ \A j \in Jobs : job[j] # NoJob /\ job[j].key.stem = b =>
                       job[j].key = k /\ job[j].at # "running"
    BY <1>1, <1>2, <1>11 DEF Overlaps
  <1>12. ASSUME NEW b \in Stems \ hurried', b # k.stem
         PROVE  b \in Stems \ hurried
    BY <1>2, <1>12
  <1>13. OnlyTheLast'
    <2>. SUFFICES ASSUME NEW b \in Stems \ hurried'
                  PROVE  /\ \A e \in events' : e.key.stem = b => e.key = puts'[Latest(b)']
                         /\ \A j \in Jobs : job[j] # NoJob /\ job[j].key.stem = b =>
                                /\ job[j].key = puts'[Latest(b)']
                                /\ job[j].at = "running" => job[j].source = Latest(b)'
      BY <1>2 DEF OnlyTheLast
    <2>1. CASE b = k.stem  BY <1>1, <1>2, <1>11, <2>1
    <2>2. CASE b # k.stem
      <3>1. b \in Stems \ hurried /\ Latest(b)' = Latest(b)  BY <1>1, <1>12, <2>2
      <3>2. ASSUME NEW v \in DOMAIN puts, puts[v].stem = b
            PROVE  puts'[Latest(b)] = puts[Latest(b)]
        <4>1. v \in UploadsOf(b)  BY <3>2 DEF UploadsOf
        <4>2. Latest(b) \in DOMAIN puts  BY <4>1 DEF LatestIs, UploadsOf
        <4>. QED  BY <1>1, <4>2
      <3>3. \A e \in events' : e.key.stem = b => e \in events  BY <1>2, <2>2
      <3>4. ASSUME NEW e \in events', e.key.stem = b
            PROVE  e.key = puts'[Latest(b)']
        <4>1. e \in events /\ e.upload \in DOMAIN puts /\ puts[e.upload].stem = b
          BY <3>3, <3>4 DEF EventsTell
        <4>2. e.key = puts[Latest(b)]  BY <3>1, <3>4, <4>1 DEF OnlyTheLast
        <4>. QED  BY <3>1, <3>2, <4>1, <4>2
      <3>5. ASSUME NEW j \in Jobs, job[j] # NoJob, job[j].key.stem = b
            PROVE  /\ job[j].key = puts'[Latest(b)']
                   /\ job[j].at = "running" => job[j].source = Latest(b)'
        <4>1. PICK v \in DOMAIN puts : puts[v] = job[j].key  BY <3>5 DEF JobsTell
        <4>2. /\ job[j].key = puts[Latest(b)]
              /\ job[j].at = "running" => job[j].source = Latest(b)
          BY <3>1, <3>5 DEF OnlyTheLast
        <4>. QED  BY <3>1, <3>2, <3>5, <4>1, <4>2
      <3>. QED  BY <3>4, <3>5
    <2>. QED  BY <2>1, <2>2
  <1>14. Owed'
    <2>. SUFFICES ASSUME NEW b \in Stems \ hurried', UploadsOf(b)' # {},
                         Latest(b)' \notin lost, NEW p \in Parts
                  PROVE  \/ output[b][p] = Latest(b)'
                         \/ \E j \in Jobs : WillWrite(j, b, p)'
                         \/ \E e \in events' : e.upload = Latest(b)' /\ ~e.made
      BY <1>2 DEF Owed
    <2>1. CASE b = k.stem
      <3>1. new \in events' /\ new.upload = Latest(b)' /\ ~new.made  BY <1>1, <1>2, <2>1
      <3>. QED  BY <3>1
    <2>2. CASE b # k.stem
      <3>1. b \in Stems \ hurried /\ Latest(b)' = Latest(b) /\ UploadsOf(b)' = UploadsOf(b)
        BY <1>1, <1>12, <2>2
      <3>2. \A j \in Jobs : WillWrite(j, b, p)' = WillWrite(j, b, p)
        BY <1>2 DEF WillWrite
      <3>3. events \subseteq events'  BY <1>2
      <3>. QED  BY <3>1, <3>2, <3>3 DEF Owed
    <2>. QED  BY <2>1, <2>2
  <1>. QED
    BY <1>4, <1>5, <1>6, <1>7, <1>8, <1>10, <1>13, <1>14

-----------------------------------------------------------------------------
(* The Lambda and MediaConvert. *)

\* What does not depend on the events and the jobs stays as it is.
LEMMA PipelineFrame ==
    ASSUME MediaInv, UNCHANGED <<tab, puts, ingest, hurried>>
    PROVE  /\ \A b : UploadsOf(b)' = UploadsOf(b) /\ Latest(b)' = Latest(b)
           /\ LatestIs' /\ IngestIs'
  <1>1. \A b : UploadsOf(b)' = UploadsOf(b) /\ Latest(b)' = Latest(b)  BY PutsStay
  <1>. QED  BY <1>1 DEF MediaInv, LatestIs, IngestIs

\* A job is submitted in a slot that was free.
LEMMA SubmitEffect ==
    ASSUME MediaInv, NEW k \in Keys, Submit(k)
    PROVE  \E j \in Jobs :
               /\ job[j] = NoJob /\ job'[j] = [at |-> "submitted", key |-> k]
               /\ \A i \in Jobs \ {j} : job'[i] = job[i]
               /\ job' \in [Jobs -> Job \cup {NoJob}]
  <1>1. PICK j \in Jobs :
            /\ job[j] = NoJob
            /\ job' = [job EXCEPT ![j] = [at |-> "submitted", key |-> k]]
    BY DEF Submit
  <1>2. [at |-> "submitted", key |-> k] \in Job  BY DEF Job
  <1>. QED  BY <1>1, <1>2 DEF MediaInv, TypeOK

\* An event is dealt with, f in its stead if it is to be tried again or comes
\* again: the upload it tells of is not forgotten.
LEMMA LambdaKeeps ==
    ASSUME MediaInv, NEW e \in events, NEW f \in Event,
           f.upload = e.upload, f.key = e.key,
           events \ {e} \subseteq events', events' \subseteq (events \ {e}) \cup {f},
           lost \subseteq lost', lost' \subseteq 1..Uploads, copies' \in 0..Copies,
           UNCHANGED <<tab, puts, ingest, output, hurried>>,
           \/ Submit(e.key)
           \/ /\ UNCHANGED job
              /\ \/ e.made
                 \/ f \in events' /\ f.made = e.made
                 \/ e.upload \in lost'
    PROVE  MediaInv'
  <1>. USE DEF MediaInv
  <1>1. /\ \A b : UploadsOf(b)' = UploadsOf(b) /\ Latest(b)' = Latest(b)
        /\ LatestIs' /\ IngestIs'
    BY PipelineFrame
  <1>2. e.key \in Keys /\ e.key.stem \in Stems  BY EventShape
  <1>3. /\ job' \in [Jobs -> Job \cup {NoJob}]
        /\ \A i \in Jobs : \/ job'[i] = job[i]
                           \/ job[i] = NoJob /\ job'[i] = [at |-> "submitted", key |-> e.key]
    BY <1>2, SubmitEffect DEF TypeOK
  <1>4. TypeOK'  BY <1>3 DEF TypeOK
  <1>5. EventsTell'  BY DEF EventsTell
  <1>6. JobsTell'
    <2>1. e.upload \in DOMAIN puts /\ puts[e.upload] = e.key  BY DEF EventsTell
    <2>. QED  BY <1>3, <2>1 DEF JobsTell
  <1>7. OutputsTell'  BY <1>1 DEF OutputsTell
  <1>8. OnlyTheLast'
    <2>. SUFFICES ASSUME NEW b \in Stems \ hurried
                  PROVE  /\ \A x \in events' : x.key.stem = b => x.key = puts[Latest(b)]
                         /\ \A j \in Jobs : job'[j] # NoJob /\ job'[j].key.stem = b =>
                                /\ job'[j].key = puts[Latest(b)]
                                /\ job'[j].at = "running" => job'[j].source = Latest(b)
      BY <1>1 DEF OnlyTheLast
    <2>1. \A x \in events' : x.key.stem = b => x.key = puts[Latest(b)]
      BY DEF OnlyTheLast
    <2>2. ASSUME NEW j \in Jobs, job'[j] # NoJob, job'[j].key.stem = b
          PROVE  /\ job'[j].key = puts[Latest(b)]
                 /\ job'[j].at = "running" => job'[j].source = Latest(b)
      <3>1. CASE job'[j] = job[j]  BY <2>2, <3>1 DEF OnlyTheLast
      <3>2. CASE job'[j] = [at |-> "submitted", key |-> e.key]
        <4>1. e.key = puts[Latest(b)]  BY <2>2, <3>2 DEF OnlyTheLast
        <4>. QED  BY <3>2, <4>1
      <3>. QED  BY <1>3, <3>1, <3>2
    <2>. QED  BY <2>1, <2>2
  <1>9. Owed'
    <2>. SUFFICES ASSUME NEW b \in Stems \ hurried, UploadsOf(b) # {},
                         Latest(b) \notin lost', NEW p \in Parts
                  PROVE  \/ output[b][p] = Latest(b)
                         \/ \E j \in Jobs : WillWrite(j, b, p)'
                         \/ \E x \in events' : x.upload = Latest(b) /\ ~x.made
      BY <1>1 DEF Owed
    <2>1. \A j \in Jobs : WillWrite(j, b, p) => WillWrite(j, b, p)'
      BY <1>3 DEF WillWrite
    <2>2. CASE \E j \in Jobs : WillWrite(j, b, p)  BY <2>1, <2>2
    <2>3. CASE \E x \in events : x.upload = Latest(b) /\ ~x.made
      <3>1. PICK x \in events : x.upload = Latest(b) /\ ~x.made  BY <2>3
      <3>2. CASE x # e  BY <3>1, <3>2
      <3>0. x = e => e.key.stem = b
        <4>1. Latest(b) \in UploadsOf(b)  BY DEF LatestIs
        <4>. QED  BY <3>1, <4>1 DEF EventsTell, UploadsOf
      <3>3. CASE x = e /\ Submit(e.key)
        <4>1. PICK j \in Jobs : job'[j] = [at |-> "submitted", key |-> e.key]
          BY <1>2, <3>3, SubmitEffect
        <4>2. WillWrite(j, b, p)'  BY <3>0, <3>3, <4>1 DEF WillWrite, NoJob
        <4>. QED  BY <4>2
      <3>4. CASE x = e /\ f \in events' /\ f.made = e.made  BY <3>1, <3>4
      <3>5. CASE x = e /\ e.upload \in lost'
        BY <3>1, <3>5
      <3>. QED  BY <3>1, <3>2, <3>3, <3>4, <3>5
    <2>. QED  BY <2>2, <2>3 DEF Owed
  <1>. QED  BY <1>1, <1>4, <1>5, <1>6, <1>7, <1>8, <1>9

\* Both ends of a run of the Lambda keep the invariant.
LEMMA HandleKeeps ==
    ASSUME MediaInv, NEW e \in events, Handle(e) \/ HandleFails(e)
    PROVE  MediaInv'
  <1>. USE DEF MediaInv
  <1>1. /\ e \in Event /\ e.key \in Keys /\ e.upload \in 1..Uploads
        /\ e.tries \in 0..Retries /\ e.made \in BOOLEAN
    BY EventShape
  <1>. DEFINE made == [e EXCEPT !.made = TRUE]
              again == [e EXCEPT !.tries = @ + 1]
              remade == [e EXCEPT !.tries = @ + 1, !.made = TRUE]
  <1>2. made \in Event /\ made.upload = e.upload /\ made.key = e.key
    BY <1>1 DEF Event
  <1>3. ASSUME e.tries < Retries
        PROVE  /\ again \in Event /\ again.upload = e.upload /\ again.key = e.key
               /\ again.made = e.made
               /\ remade \in Event /\ remade.upload = e.upload /\ remade.key = e.key
    <2>1. e.tries + 1 \in 0..Retries  BY <1>1, <1>3, MediaAssumption
    <2>2. again \in Event /\ again.upload = e.upload /\ again.key = e.key
          /\ again.made = e.made
      BY <1>1, <2>1 DEF Event
    <2>3. remade \in Event /\ remade.upload = e.upload /\ remade.key = e.key
      BY <1>1, <2>1 DEF Event
    <2>. QED  BY <2>2, <2>3
  <1>4. CASE Handle(e)
    <2>1. Submit(e.key) /\ UNCHANGED <<tab, puts, ingest, output, lost, hurried>>
      BY <1>4 DEF Handle
    <2>2. CASE events' = events \ {e} /\ UNCHANGED copies
      BY <1>1, <2>1, <2>2, LambdaKeeps DEF TypeOK
    <2>3. CASE /\ copies < Copies /\ copies' = copies + 1
               /\ events' = (events \ {e}) \cup {made}
      <3>1. copies' \in 0..Copies  BY <2>3, MediaAssumption DEF TypeOK
      <3>. HIDE DEF made
      <3>. QED  BY <1>2, <2>1, <2>3, <3>1, LambdaKeeps DEF TypeOK
    <2>. QED  BY <1>4, <2>2, <2>3 DEF Handle
  <1>5. CASE HandleFails(e)
    <2>1. UNCHANGED <<tab, puts, ingest, copies, output, hurried>>
      BY <1>5 DEF HandleFails
    <2>2. CASE /\ Submit(e.key) /\ UNCHANGED lost
               /\ events' = (events \ {e}) \cup (IF e.tries < Retries THEN {remade} ELSE {})
      <3>1. CASE e.tries < Retries
        <4>. HIDE DEF remade
        <4>. QED  BY <1>3, <2>1, <2>2, <3>1, LambdaKeeps DEF TypeOK
      <3>2. CASE ~(e.tries < Retries)
        BY <1>1, <2>1, <2>2, <3>2, LambdaKeeps DEF TypeOK
      <3>. QED  BY <3>1, <3>2
    <2>3. CASE /\ UNCHANGED job
               /\ events' = (events \ {e}) \cup (IF e.tries < Retries THEN {again} ELSE {})
               /\ lost' = IF e.tries = Retries /\ ~e.made THEN lost \cup {e.upload} ELSE lost
      <3>0. lost \subseteq lost' /\ lost' \subseteq 1..Uploads
        BY <1>1, <2>3 DEF TypeOK
      <3>1. CASE e.tries < Retries
        <4>. HIDE DEF again
        <4>. QED  BY <1>3, <2>1, <2>3, <3>0, <3>1, LambdaKeeps DEF TypeOK
      <3>2. CASE ~(e.tries < Retries)
        <4>1. e.tries = Retries  BY <1>1, <3>2, MediaAssumption
        <4>2. e.made \/ e.upload \in lost'  BY <2>3, <4>1
        <4>. QED  BY <1>1, <2>1, <2>3, <3>0, <3>2, <4>2, LambdaKeeps DEF TypeOK
      <3>. QED  BY <3>1, <3>2
    <2>. QED  BY <1>5, <2>2, <2>3 DEF HandleFails
  <1>. QED  BY <1>4, <1>5

\* MediaConvert changes one job, j: what it goes on with is of the same key and
\* leaves out no part that is not written.
LEMMA JobKeeps ==
    ASSUME MediaInv, NEW j \in Jobs, job[j] # NoJob, NEW new \in Job \cup {NoJob},
           job' = [job EXCEPT ![j] = new],
           new # NoJob => /\ new.key = job[j].key
                          /\ new.at = "running" =>
                                 /\ new.source \in DOMAIN puts
                                 /\ puts[new.source] = new.key
                                 /\ new.key.stem \notin hurried =>
                                        new.source = Latest(new.key.stem),
           TypeOK', OutputsTell', lost \subseteq lost',
           UNCHANGED <<tab, puts, ingest, events, copies, hurried>>,
           \A b \in Stems \ hurried, p \in Parts :
               /\ output[b][p] = Latest(b) => output'[b][p] = Latest(b)
               /\ WillWrite(j, b, p) =>
                      \/ output'[b][p] = Latest(b)
                      \/ new # NoJob /\ (new.at = "running" => p \in new.todo)
                      \/ Latest(b) \in lost'
    PROVE  MediaInv'
  <1>. USE DEF MediaInv
  <1>1. /\ \A b : UploadsOf(b)' = UploadsOf(b) /\ Latest(b)' = Latest(b)
        /\ LatestIs' /\ IngestIs'
    BY PipelineFrame
  <1>2. job'[j] = new /\ \A i \in Jobs \ {j} : job'[i] = job[i]  BY DEF TypeOK
  <1>3. EventsTell'  BY DEF EventsTell
  <1>4. JobsTell'
    <2>. SUFFICES ASSUME NEW i \in Jobs, job'[i] # NoJob
                  PROVE  /\ \E u \in DOMAIN puts : puts[u] = job'[i].key
                         /\ job'[i].at = "running" =>
                                /\ job'[i].source \in DOMAIN puts
                                /\ puts[job'[i].source] = job'[i].key
      BY DEF JobsTell
    <2>1. CASE i = j
      <3>1. \E u \in DOMAIN puts : puts[u] = job[j].key  BY DEF JobsTell
      <3>. QED  BY <1>2, <2>1, <3>1
    <2>2. CASE i # j  BY <1>2, <2>2 DEF JobsTell
    <2>. QED  BY <2>1, <2>2
  <1>5. OnlyTheLast'
    <2>. SUFFICES ASSUME NEW b \in Stems \ hurried
                  PROVE  /\ \A e \in events : e.key.stem = b => e.key = puts[Latest(b)]
                         /\ \A i \in Jobs : job'[i] # NoJob /\ job'[i].key.stem = b =>
                                /\ job'[i].key = puts[Latest(b)]
                                /\ job'[i].at = "running" => job'[i].source = Latest(b)
      BY <1>1 DEF OnlyTheLast
    <2>1. \A e \in events : e.key.stem = b => e.key = puts[Latest(b)]
      BY DEF OnlyTheLast
    <2>2. ASSUME NEW i \in Jobs, job'[i] # NoJob, job'[i].key.stem = b
          PROVE  /\ job'[i].key = puts[Latest(b)]
                 /\ job'[i].at = "running" => job'[i].source = Latest(b)
      <3>1. CASE i = j
        <4>1. job[j].key = puts[Latest(b)]  BY <1>2, <2>2, <3>1 DEF OnlyTheLast
        <4>. QED  BY <1>2, <2>2, <3>1, <4>1
      <3>2. CASE i # j  BY <1>2, <2>2, <3>2 DEF OnlyTheLast
      <3>. QED  BY <3>1, <3>2
    <2>. QED  BY <2>1, <2>2
  <1>6. Owed'
    <2>. SUFFICES ASSUME NEW b \in Stems \ hurried, UploadsOf(b) # {},
                         Latest(b) \notin lost', NEW p \in Parts
                  PROVE  \/ output'[b][p] = Latest(b)
                         \/ \E i \in Jobs : WillWrite(i, b, p)'
                         \/ \E e \in events : e.upload = Latest(b) /\ ~e.made
      BY <1>1 DEF Owed
    <2>1. CASE \E i \in Jobs : WillWrite(i, b, p)
      <3>1. PICK i \in Jobs : WillWrite(i, b, p)  BY <2>1
      <3>2. CASE i = j
        <4>1. \/ output'[b][p] = Latest(b)
              \/ new # NoJob /\ (new.at = "running" => p \in new.todo)
          BY <3>1, <3>2
        <4>2. job[j].key.stem = b  BY <3>1, <3>2 DEF WillWrite
        <4>3. new # NoJob /\ (new.at = "running" => p \in new.todo)
                => WillWrite(j, b, p)'
          BY <1>2, <4>2 DEF WillWrite
        <4>. QED  BY <4>1, <4>3
      <3>3. CASE i # j
        <4>1. WillWrite(i, b, p)'  BY <1>2, <3>1, <3>3 DEF WillWrite
        <4>. QED  BY <4>1
      <3>. QED  BY <3>2, <3>3
    <2>. QED  BY <2>1 DEF Owed
  <1>. QED  BY <1>1, <1>3, <1>4, <1>5, <1>6

\* A job that starts reads an upload of its key, the last one there; in a base
\* that is not hurried it is the last of the base too.
LEMMA StartKeeps ==
    ASSUME MediaInv, NEW j \in Jobs, Start(j)
    PROVE  MediaInv'
  <1>. USE DEF MediaInv
  <1>. DEFINE k == job[j].key
              new == [at |-> "running", key |-> k, source |-> ingest[k], todo |-> Parts]
  <1>1. job[j].at = "submitted" /\ job[j] # NoJob /\ k \in Keys /\ k.stem \in Stems
    BY JobShape DEF Start
  <1>2. /\ job' = [job EXCEPT ![j] = new]
        /\ UNCHANGED <<tab, puts, ingest, events, copies, output, lost, hurried>>
    BY DEF Start
  <1>3. PICK u \in DOMAIN puts : puts[u] = k  BY <1>1 DEF JobsTell
  <1>4. ingest[k] \in DOMAIN puts /\ puts[ingest[k]] = k /\ u <= ingest[k]
    BY <1>1, <1>3 DEF IngestIs
  <1>5. ingest[k] \in 1..Uploads
    <2>1. DOMAIN puts = 1..Len(puts) /\ Len(puts) \in Nat /\ Len(puts) <= Uploads
      BY PutsDomain DEF TypeOK
    <2>. QED  BY <1>4, <2>1, MediaAssumption
  <1>6. new \in Job  BY <1>1, <1>5 DEF Job
  <1>7. TypeOK'  BY <1>2, <1>6 DEF TypeOK
  <1>8. OutputsTell'  BY <1>2, PutsStay DEF OutputsTell
  <1>9. ASSUME k.stem \notin hurried PROVE ingest[k] = Latest(k.stem)
    <2>1. ingest[k] \in UploadsOf(k.stem)  BY <1>4 DEF UploadsOf
    <2>2. Latest(k.stem) \in UploadsOf(k.stem) /\ ingest[k] <= Latest(k.stem)
      BY <1>1, <2>1 DEF LatestIs
    <2>3. k = puts[Latest(k.stem)]  BY <1>1, <1>9 DEF OnlyTheLast
    <2>4. Latest(k.stem) <= ingest[k]
      BY <1>1, <2>2, <2>3 DEF IngestIs, UploadsOf
    <2>5. Latest(k.stem) \in Int /\ ingest[k] \in Int
      BY <2>1, <2>2, PutsDomain DEF UploadsOf
    <2>. QED  BY <2>2, <2>4, <2>5
  <1>10. /\ new.key = k /\ new.at = "running" /\ new.source = ingest[k]
         /\ new.todo = Parts
    OBVIOUS
  <1>. HIDE DEF new
  <1>11. /\ new # NoJob => /\ new.key = job[j].key
                           /\ new.at = "running" =>
                                 /\ new.source \in DOMAIN puts
                                 /\ puts[new.source] = new.key
                                 /\ new.key.stem \notin hurried =>
                                        new.source = Latest(new.key.stem)
    BY <1>4, <1>9, <1>10
  <1>12. \A b \in Stems \ hurried, p \in Parts :
               /\ output[b][p] = Latest(b) => output'[b][p] = Latest(b)
               /\ WillWrite(j, b, p) =>
                      \/ output'[b][p] = Latest(b)
                      \/ new # NoJob /\ (new.at = "running" => p \in new.todo)
                      \/ Latest(b) \in lost'
    BY <1>2, <1>6, <1>10, JobShape
  <1>. QED
    BY <1>1, <1>2, <1>6, <1>7, <1>8, <1>11, <1>12, JobKeeps

\* A running job writes a part of its source, and ends with the last one.
LEMMA WriteKeeps ==
    ASSUME MediaInv, NEW j \in Jobs, NEW p \in Parts, Write(j, p)
    PROVE  MediaInv'
  <1>. USE DEF MediaInv
  <1>. DEFINE k == job[j].key
              new == IF job[j].todo = {p} THEN NoJob
                     ELSE [job[j] EXCEPT !.todo = @ \ {p}]
  <1>1. /\ job[j].at = "running" /\ job[j] # NoJob /\ k \in Keys /\ k.stem \in Stems
        /\ p \in job[j].todo
        /\ job[j] \in [at : {"running"}, key : Keys, source : 1..Uploads,
                       todo : SUBSET Parts]
    BY JobShape DEF Write
  <1>2. /\ job' = [job EXCEPT ![j] = new]
        /\ output' = [output EXCEPT ![k.stem][p] = job[j].source]
        /\ UNCHANGED <<tab, puts, ingest, events, copies, lost, hurried>>
    BY DEF Write
  <1>3. /\ new \in Job \cup {NoJob}
        /\ job[j].todo # {p} =>
               /\ new # NoJob /\ new.at = "running" /\ new.key = k
               /\ new.source = job[j].source /\ new.todo = job[j].todo \ {p}
        /\ job[j].todo = {p} => new = NoJob
    <2>1. CASE job[j].todo = {p}  BY <2>1
    <2>2. CASE job[j].todo # {p}
      <3>1. new = [job[j] EXCEPT !.todo = @ \ {p}]  BY <2>2
      <3>2. /\ new \in [at : {"running"}, key : Keys, source : 1..Uploads,
                        todo : SUBSET Parts]
            /\ new.at = "running" /\ new.key = k /\ new.source = job[j].source
            /\ new.todo = job[j].todo \ {p}
        BY <1>1, <3>1
      <3>3. new # NoJob  BY <3>2, JobShape
      <3>. QED  BY <2>2, <3>2, <3>3 DEF Job
    <2>. QED  BY <2>1, <2>2
  <1>. HIDE DEF new
  <1>4. job[j].source \in DOMAIN puts /\ puts[job[j].source] = k
    BY <1>1 DEF JobsTell
  <1>5. \A b \in Stems, q \in Parts :
            output'[b][q] = IF b = k.stem /\ q = p THEN job[j].source ELSE output[b][q]
    BY <1>1, <1>2 DEF TypeOK
  <1>6. TypeOK'
    <2>1. output' \in [Stems -> [Parts -> 0..Uploads]]
      <3>1. job[j].source \in 0..Uploads  BY <1>1, MediaAssumption
      <3>. QED  BY <1>1, <1>2, <3>1 DEF TypeOK
    <2>2. job' \in [Jobs -> Job \cup {NoJob}]  BY <1>2, <1>3 DEF TypeOK
    <2>. QED  BY <1>2, <2>1, <2>2 DEF TypeOK
  <1>7. OutputsTell'
    <2>1. job[j].source \in UploadsOf(k.stem)  BY <1>4 DEF UploadsOf
    <2>2. \A b : UploadsOf(b)' = UploadsOf(b)  BY <1>2, PutsStay
    <2>. QED  BY <1>5, <2>1, <2>2 DEF OutputsTell
  <1>8. ASSUME NEW b \in Stems \ hurried, b = k.stem PROVE job[j].source = Latest(b)
    BY <1>1, <1>8 DEF OnlyTheLast
  <1>9. \A b \in Stems \ hurried, q \in Parts :
               /\ output[b][q] = Latest(b) => output'[b][q] = Latest(b)
               /\ WillWrite(j, b, q) =>
                      \/ output'[b][q] = Latest(b)
                      \/ new # NoJob /\ (new.at = "running" => q \in new.todo)
                      \/ Latest(b) \in lost'
    <2>. SUFFICES ASSUME NEW b \in Stems \ hurried, NEW q \in Parts
                  PROVE  /\ output[b][q] = Latest(b) => output'[b][q] = Latest(b)
                         /\ WillWrite(j, b, q) =>
                                \/ output'[b][q] = Latest(b)
                                \/ new # NoJob /\ (new.at = "running" => q \in new.todo)
      OBVIOUS
    <2>1. output[b][q] = Latest(b) => output'[b][q] = Latest(b)  BY <1>5, <1>8
    <2>2. ASSUME WillWrite(j, b, q)
          PROVE  \/ output'[b][q] = Latest(b)
                 \/ new # NoJob /\ (new.at = "running" => q \in new.todo)
      <3>1. b = k.stem /\ q \in job[j].todo  BY <1>1, <2>2 DEF WillWrite
      <3>2. CASE q = p  BY <1>5, <1>8, <3>1, <3>2
      <3>3. CASE q # p  BY <1>3, <3>1, <3>3
      <3>. QED  BY <3>2, <3>3
    <2>. QED  BY <2>1, <2>2
  <1>10. new # NoJob => /\ new.key = k
                        /\ new.at = "running" =>
                              /\ new.source \in DOMAIN puts
                              /\ puts[new.source] = new.key
                              /\ new.key.stem \notin hurried =>
                                     new.source = Latest(new.key.stem)
    BY <1>1, <1>3, <1>4, <1>8
  <1>11. lost \subseteq lost'  BY <1>2
  <1>. QED
    BY <1>1, <1>2, <1>3, <1>6, <1>7, <1>9, <1>10, <1>11, JobKeeps

\* A job that fails gives up its source.
LEMMA JobFailsKeeps ==
    ASSUME MediaInv, NEW j \in Jobs, JobFails(j)
    PROVE  MediaInv'
  <1>. USE DEF MediaInv
  <1>1. /\ job[j].at = "running" /\ job[j] # NoJob /\ job[j].key.stem \in Stems
        /\ job[j].source \in 1..Uploads
    BY JobShape DEF JobFails
  <1>2. /\ job' = [job EXCEPT ![j] = NoJob] /\ lost' = lost \cup {job[j].source}
        /\ UNCHANGED <<tab, puts, ingest, events, copies, output, hurried>>
    BY DEF JobFails
  <1>3. TypeOK'  BY <1>1, <1>2 DEF TypeOK
  <1>4. OutputsTell'  BY <1>2, PutsStay DEF OutputsTell
  <1>5. ASSUME NEW b \in Stems \ hurried, job[j].key.stem = b
        PROVE  Latest(b) \in lost'
    BY <1>1, <1>2, <1>5 DEF OnlyTheLast
  <1>6. \A b \in Stems \ hurried, p \in Parts :
            WillWrite(j, b, p) => Latest(b) \in lost'
    BY <1>5 DEF WillWrite
  <1>. QED  BY <1>1, <1>2, <1>3, <1>4, <1>6, JobKeeps

\* The invariant is inductive.
LEMMA NextKeeps == MediaInv /\ [Next]_vars => MediaInv'
  <1>. SUFFICES ASSUME MediaInv, [Next]_vars PROVE MediaInv'  OBVIOUS
  <1>1. CASE UNCHANGED vars
    <2>1. UNCHANGED <<puts, ingest, events, job, output, lost, hurried>>
      BY <1>1 DEF vars
    <2>2. TypeOK'  BY <1>1 DEF vars, MediaInv, TypeOK
    <2>. QED  BY <2>1, <2>2, TabsAlone
  <1>2. CASE Editor
    BY <1>2, PresignKeeps, PutKeeps, AbandonKeeps DEF Editor
  <1>3. CASE Lambda
    BY <1>3, HandleKeeps DEF Lambda
  <1>4. CASE MediaConvert
    BY <1>4, StartKeeps, WriteKeeps, JobFailsKeeps DEF MediaConvert
  <1>. QED  BY <1>1, <1>2, <1>3, <1>4 DEF Next

\* So it always holds.
LEMMA MediaAlways == Spec => []MediaInv
  <1>. QED  BY InitInv, NextKeeps, PTL DEF Spec

-----------------------------------------------------------------------------

\* Tabs, uploads, events, jobs and outputs are well typed.
THEOREM MediaTypes == Spec => []TypeOK
  <1>1. MediaInv => TypeOK  BY DEF MediaInv
  <1>. QED  BY <1>1, MediaAlways, PTL

\* "Re-uploading a lesson replaces it in place": once the pipeline is done, each
\* part is of the last upload, through any number of retries, repeated and late
\* events and jobs side by side, unless that upload came while an older source was
\* being read or one of another type was on its way, or was given up.
THEOREM MediaReplacedInPlace == Spec => []ReplacedInPlace
  <1>1. MediaInv => ReplacedInPlace
    <2>. SUFFICES ASSUME MediaInv, NEW b \in Stems, ~Pending(b), b \notin hurried,
                         Latest(b) \notin lost, NEW p \in Parts
                  PROVE  output[b][p] = Latest(b)
      BY DEF ReplacedInPlace
    <2>1. CASE UploadsOf(b) = {}
      BY <2>1 DEF MediaInv, LatestIs, OutputsTell
    <2>2. CASE UploadsOf(b) # {}
      <3>1. \A j \in Jobs : ~WillWrite(j, b, p)  BY DEF Pending, WillWrite
      <3>2. Latest(b) \in UploadsOf(b)  BY <2>2 DEF MediaInv, LatestIs
      <3>3. \A e \in events : e.upload # Latest(b)
        BY <3>2 DEF Pending, MediaInv, EventsTell, UploadsOf
      <3>. QED  BY <2>2, <3>1, <3>3 DEF MediaInv, Owed
    <2>. QED  BY <2>1, <2>2
  <1>. QED  BY <1>1, MediaAlways, PTL
=============================================================================
