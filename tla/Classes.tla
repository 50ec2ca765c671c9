------------------------------ MODULE Classes ------------------------------
(***************************************************************************)
(* The classes router of the comments API: workshops, their scheduled      *)
(* sessions, the public signups for a session and the requests for a date. *)
(*                                                                         *)
(* One action is one awaited statement of a handler, as in module Recipes; *)
(* here every statement that writes is flushed by the commit itself, and a *)
(* request waits for another within that step only.  A request also dies   *)
(* with the task that runs it, and what it has not committed dies with it. *)
(***************************************************************************)
EXTENDS Integers, FiniteSets

CONSTANTS
    Clients,    \* requests that may be in flight together
    ClassIds, SessionIds, SignupIds, RequestIds,    \* primary keys
    Slugs,
    Capacities, \* the limits a moderator sets, Null (no limit) aside
    MaxParty,   \* the largest party_size a signup may have
    Null, Unborn, Deleted

ASSUME SizesAssumption ==
    /\ IsFiniteSet(Clients) /\ IsFiniteSet(SignupIds)
    /\ Capacities \subseteq Nat
    /\ MaxParty \in Nat \ {0}
    /\ Null \notin Nat

Class == [slug : Slugs, published : BOOLEAN]
\* What a moderator's PUT of a session carries; class_id is not in it.
Schedule == [capacity : Capacities \cup {Null}, status : {"scheduled", "cancelled"}]
Session == [class : ClassIds, plan : Schedule]
Signup == [session : SessionIds, party : 1..MaxParty, status : {"registered", "waitlisted"}]

ASSUME KeysAssumption ==
    /\ Unborn # Deleted
    /\ {Unborn, Deleted} \cap (Class \cup Session \cup Signup \cup ClassIds \cup {Null}) = {}
    /\ Null \notin ClassIds \cup SessionIds \cup SignupIds \cup Class \cup Schedule

VARIABLES
    classes, sessions, signups, requests,   \* committed rows, by primary key
    req, reply,     \* where each request is with its locals; the last answer
    widest          \* history: the largest limit each session ever had

tables == <<classes, sessions, signups, requests>>
vars == <<classes, sessions, signups, requests, req, reply, widest>>

Rows(keys, table) == {i \in keys : table[i] \notin {Unborn, Deleted}}
LiveClasses == Rows(ClassIds, classes)
LiveSessions == Rows(SessionIds, sessions)
LiveSignups == Rows(SignupIds, signups)

SlugTaken(s, k) == \E j \in LiveClasses \ {k} : classes[j].slug = s

Points ==
    {"idle", "signup_session", "signup_count", "signup_commit", "signup_mail",
     "request_commit", "request_mail", "class_commit", "class_delete", "class_refresh",
     "session_insert", "session_commit", "session_delete", "session_refresh"}

Locals ==
    [at : Points,
     cid : ClassIds \cup {Null},                \* the class loaded, or named in the path
     sid : SessionIds \cup {Null},              \* the session loaded, or named in the path
     uid : SignupIds \cup {Null},               \* the signup inserted
     party : 0..MaxParty,
     limit : Capacities \cup {Null},            \* the session's capacity as loaded
     status : {"registered", "waitlisted"},     \* what the signup is to be
     pay : Class \cup Schedule \cup {Null},     \* the body of a moderator's request
     seen : Class \cup Schedule \cup {Null}]    \* the same columns as they were loaded

Idle ==
    [at |-> "idle", cid |-> Null, sid |-> Null, uid |-> Null, party |-> 0, limit |-> Null,
     status |-> "registered", pay |-> Null, seen |-> Null]

TypeOK ==
    /\ classes \in [ClassIds -> Class \cup {Unborn, Deleted}]
    /\ sessions \in [SessionIds -> Session \cup {Unborn, Deleted}]
    /\ signups \in [SignupIds -> Signup \cup {Unborn, Deleted}]
    /\ requests \in [RequestIds -> ClassIds \cup {Null, Unborn}]
    /\ req \in [Clients -> Locals]
    /\ reply \in {"none", "ok", "404", "409", "500"}
    /\ widest \in [SessionIds -> Nat \cup {Null}]

Init ==
    /\ classes = [k \in ClassIds |-> Unborn]
    /\ sessions = [s \in SessionIds |-> Unborn]
    /\ signups = [u \in SignupIds |-> Unborn]
    /\ requests = [q \in RequestIds |-> Unborn]
    /\ req = [c \in Clients |-> Idle]
    /\ reply = "none"
    /\ widest = [s \in SessionIds |-> 0]

Answer(c, code) ==
    /\ req' = [req EXCEPT ![c] = Idle]
    /\ reply' = code

Goto(c, locals) ==
    /\ req' = [req EXCEPT ![c] = locals]
    /\ reply' = "none"

\* A limit a session gets; Null is no limit at all, and stays the widest.
Widen(s, limit) ==
    widest' = [widest EXCEPT ![s] =
                 IF limit = Null \/ @ = Null THEN Null ELSE IF limit > @ THEN limit ELSE @]

\* Variant: the UPDATE writes every field of the body.
WholeBody(row, seen, pay) == pay

\* The columns a PUT changes: those that differ from the row as it was loaded.
ChangedColumns(row, seen, pay) ==
    [col \in DOMAIN row |-> IF pay[col] # seen[col] THEN pay[col] ELSE row[col]]

------------------------------------------------------------------------------
(* POST /classes/{slug}/sessions/{session_id}/signup *)

\* The seats of a session that are taken: one for each member of each party
\* registered for it (the sum of party_size over the registered signups).
Seats(s) ==
    {seat \in SignupIds \X (1..MaxParty) :
       /\ seat[1] \in LiveSignups
       /\ signups[seat[1]].session = s
       /\ signups[seat[1]].status = "registered"
       /\ seat[2] <= signups[seat[1]].party}

\* A visitor can only name a session whose id has been given out.
SignupReadClass(c, slug, s, n) ==
    /\ req[c].at = "idle"
    /\ sessions[s] # Unborn
    /\ \/ /\ \A k \in LiveClasses : classes[k].slug = slug => ~classes[k].published
          /\ Answer(c, "404")
       \/ \E k \in LiveClasses :
            /\ classes[k].slug = slug /\ classes[k].published
            /\ Goto(c, [Idle EXCEPT !.at = "signup_session", !.cid = k, !.sid = s, !.party = n])
    /\ UNCHANGED <<tables, widest>>

\* The honeypot was filled in: success is pretended and nothing is done.
SignupByBot(c) ==
    /\ req[c].at = "idle"
    /\ Answer(c, "ok")
    /\ UNCHANGED <<tables, widest>>

\* Variant: a session of another class passes.
ReadSessionOfAnyClass(c) ==
    LET s == req[c].sid IN
    /\ req[c].at = "signup_session"
    /\ IF s \in LiveSessions /\ sessions[s].plan.status = "scheduled"
       THEN Goto(c, [req[c] EXCEPT !.at = "signup_commit"])
       ELSE Answer(c, "404")
    /\ UNCHANGED <<tables, widest>>

\* The session must be there, of this class and scheduled; one without a
\* capacity is not counted.
SignupReadSession(c) ==
    LET s == req[c].sid IN
    /\ req[c].at = "signup_session"
    /\ IF s \in LiveSessions /\ sessions[s].class = req[c].cid
                             /\ sessions[s].plan.status = "scheduled"
       THEN LET limit == sessions[s].plan.capacity IN
            Goto(c, [req[c] EXCEPT !.at = IF limit = Null THEN "signup_commit" ELSE "signup_count",
                                   !.limit = limit])
       ELSE Answer(c, "404")
    /\ UNCHANGED <<tables, widest>>

\* Variant: the newcomers are not added to the seats taken.
CountWithoutParty(c) ==
    LET taken == Cardinality(Seats(req[c].sid)) IN
    /\ req[c].at = "signup_count"
    /\ Goto(c, [req[c] EXCEPT !.at = "signup_commit", !.limit = Null,
                              !.status = IF taken >= req[c].limit
                                         THEN "waitlisted" ELSE "registered"])
    /\ UNCHANGED <<tables, widest>>

SignupCount(c) ==
    LET taken == Cardinality(Seats(req[c].sid)) IN
    /\ req[c].at = "signup_count"
    /\ Goto(c, [req[c] EXCEPT !.at = "signup_commit", !.limit = Null,
                              !.status = IF taken + req[c].party > req[c].limit
                                         THEN "waitlisted" ELSE "registered"])
    /\ UNCHANGED <<tables, widest>>

\* The foreign key holds at the commit: a session that is gone fails it, and
\* the handler does not catch that.
SignupCommit(c) ==
    LET s == req[c].sid IN
    /\ req[c].at = "signup_commit"
    /\ IF s \notin LiveSessions
       THEN Answer(c, "500") /\ UNCHANGED signups
       ELSE \E u \in SignupIds :
              /\ signups[u] = Unborn
              /\ signups' = [signups EXCEPT ![u] = [session |-> s, party |-> req[c].party,
                                                    status |-> req[c].status]]
              /\ Goto(c, [Idle EXCEPT !.at = "signup_mail", !.uid = u])
    /\ UNCHANGED <<classes, sessions, requests, widest>>

\* The publish to SNS, in a thread.  When it raises nothing catches it: the
\* answer is a 500 although the row is committed.
SignupMail(c) ==
    /\ req[c].at = "signup_mail"
    /\ \E code \in {"ok", "500"} : Answer(c, code)
    /\ UNCHANGED <<tables, widest>>

------------------------------------------------------------------------------
(* POST /classes/{slug}/request *)

\* The slug may name a class, published or not, or none.
RequestReadClass(c, slug) ==
    /\ req[c].at = "idle"
    /\ \E k \in LiveClasses \cup {Null} :
         /\ IF k = Null THEN ~SlugTaken(slug, Null) ELSE classes[k].slug = slug
         /\ Goto(c, [Idle EXCEPT !.at = "request_commit", !.cid = k])
    /\ UNCHANGED <<tables, widest>>

RequestCommit(c) ==
    /\ req[c].at = "request_commit"
    /\ IF req[c].cid \notin LiveClasses \cup {Null}
       THEN Answer(c, "500") /\ UNCHANGED requests
       ELSE \E q \in RequestIds :
              /\ requests[q] = Unborn
              /\ requests' = [requests EXCEPT ![q] = req[c].cid]
              /\ Goto(c, [Idle EXCEPT !.at = "request_mail"])
    /\ UNCHANGED <<classes, sessions, signups, widest>>

RequestMail(c) ==
    /\ req[c].at = "request_mail"
    /\ \E code \in {"ok", "500"} : Answer(c, code)
    /\ UNCHANGED <<tables, widest>>

------------------------------------------------------------------------------
(* Class management *)

\* Variant: a slug that is taken is left to the database and not caught.
CreateClassUncaught(c, p) ==
    /\ req[c].at = "idle"
    /\ IF SlugTaken(p.slug, Null)
       THEN Answer(c, "500") /\ UNCHANGED classes
       ELSE \E k \in ClassIds :
              /\ classes[k] = Unborn
              /\ classes' = [classes EXCEPT ![k] = p]
              /\ Goto(c, [Idle EXCEPT !.at = "class_refresh", !.cid = k])
    /\ UNCHANGED <<sessions, signups, requests, widest>>

CreateClass(c, p) ==
    /\ req[c].at = "idle"
    /\ IF SlugTaken(p.slug, Null)
       THEN Answer(c, "409") /\ UNCHANGED classes
       ELSE \E k \in ClassIds :
              /\ classes[k] = Unborn
              /\ classes' = [classes EXCEPT ![k] = p]
              /\ Goto(c, [Idle EXCEPT !.at = "class_refresh", !.cid = k])
    /\ UNCHANGED <<sessions, signups, requests, widest>>

\* A handler that starts by loading the class: 404, or on with it.
LoadClass(c, k, locals) ==
    /\ req[c].at = "idle"
    /\ IF k \in LiveClasses THEN Goto(c, locals) ELSE Answer(c, "404")
    /\ UNCHANGED <<tables, widest>>

UpdateClass(c, k, p) ==
    LoadClass(c, k, [Idle EXCEPT !.at = "class_commit", !.cid = k, !.pay = p, !.seen = classes[k]])
DeleteClass(c, k) == LoadClass(c, k, [Idle EXCEPT !.at = "class_delete", !.cid = k])
CreateSession(c, k, p) ==
    LoadClass(c, k, [Idle EXCEPT !.at = "session_insert", !.cid = k, !.pay = p])

ClassCommit(c) ==
    LET k == req[c].cid  p == req[c].pay  s == req[c].seen IN
    /\ req[c].at = "class_commit"
    /\ \/ /\ p = s
          /\ Goto(c, [Idle EXCEPT !.at = "class_refresh", !.cid = k])
          /\ UNCHANGED classes
       \/ /\ p # s /\ k \notin LiveClasses
          /\ Answer(c, "500")
          /\ UNCHANGED classes
       \/ /\ p # s /\ k \in LiveClasses
          /\ IF p.slug # s.slug /\ SlugTaken(p.slug, k)
             THEN Answer(c, "409") /\ UNCHANGED classes
             ELSE /\ classes' = [classes EXCEPT ![k] = ChangedColumns(@, s, p)]
                  /\ Goto(c, [Idle EXCEPT !.at = "class_refresh", !.cid = k])
    /\ UNCHANGED <<sessions, signups, requests, widest>>

\* An update that gives its class another slug holds the class, and the place of
\* the old slug in the unique index, until it is let in at the place of the new
\* one: that of another class, perhaps, which is being moved itself.
MovesSlug(c) ==
    /\ req[c].at = "class_commit" /\ req[c].pay.slug # req[c].seen.slug
    /\ req[c].cid \in LiveClasses

WaitsFor(c, d) ==
    /\ MovesSlug(c) /\ MovesSlug(d)
    /\ req[c].cid # req[d].cid /\ req[c].pay.slug = classes[req[d].cid].slug

\* A request is in a deadlock if it is one of some that can be permuted so that
\* each waits for the next.
Deadlocked(c) ==
    \E D \in SUBSET Clients : \E next \in [D -> D] :
       /\ c \in D
       /\ D = {next[d] : d \in D}
       /\ \A d \in D : WaitsFor(d, next[d])

\* PostgreSQL ends a transaction that is on a circle of waits, with an error that
\* is no IntegrityError.
DeadlockAborts(c) ==
    /\ req[c].at = "class_commit"
    /\ Deadlocked(c)
    /\ Answer(c, "500")
    /\ UNCHANGED <<tables, widest>>

\* Variant: a class deleted takes its sessions along, and nothing else.
ClassDeleteShallow(c) ==
    LET k == req[c].cid IN
    /\ req[c].at = "class_delete"
    /\ classes' = [classes EXCEPT ![k] = Deleted]
    /\ sessions' = [s \in SessionIds |-> IF s \in LiveSessions /\ sessions[s].class = k
                                         THEN Deleted ELSE sessions[s]]
    /\ Answer(c, "ok")
    /\ UNCHANGED <<signups, requests, widest>>

\* Variant: the requests about a class are deleted with it.
ClassDeleteRequests(c) ==
    /\ req[c].at = "class_delete"
    /\ classes' = [classes EXCEPT ![req[c].cid] = Deleted]
    /\ requests' = [q \in RequestIds |-> IF requests[q] = req[c].cid THEN Deleted ELSE requests[q]]
    /\ Answer(c, "ok")
    /\ UNCHANGED <<sessions, signups, widest>>

\* ON DELETE CASCADE from classes to sessions to signups, SET NULL for requests.
ClassDelete(c) ==
    LET k == req[c].cid
        gone == {s \in LiveSessions : sessions[s].class = k}
    IN
    /\ req[c].at = "class_delete"
    /\ classes' = [classes EXCEPT ![k] = Deleted]
    /\ sessions' = [s \in SessionIds |-> IF s \in gone THEN Deleted ELSE sessions[s]]
    /\ signups' = [u \in SignupIds |-> IF u \in LiveSignups /\ signups[u].session \in gone
                                       THEN Deleted ELSE signups[u]]
    /\ requests' = [q \in RequestIds |-> IF requests[q] = k THEN Null ELSE requests[q]]
    /\ Answer(c, "ok")
    /\ UNCHANGED widest

\* session.refresh after a commit: the row may be gone again.
ClassRefresh(c) ==
    /\ req[c].at = "class_refresh"
    /\ Answer(c, IF req[c].cid \in LiveClasses THEN "ok" ELSE "500")
    /\ UNCHANGED <<tables, widest>>

------------------------------------------------------------------------------
(* Session management *)

\* A class deleted since it was loaded fails the foreign key, uncaught.
SessionInsert(c) ==
    LET k == req[c].cid  p == req[c].pay IN
    /\ req[c].at = "session_insert"
    /\ IF k \notin LiveClasses
       THEN Answer(c, "500") /\ UNCHANGED <<sessions, widest>>
       ELSE \E s \in SessionIds :
              /\ sessions[s] = Unborn
              /\ sessions' = [sessions EXCEPT ![s] = [class |-> k, plan |-> p]]
              /\ Widen(s, p.capacity)
              /\ Goto(c, [Idle EXCEPT !.at = "session_refresh", !.sid = s])
    /\ UNCHANGED <<classes, signups, requests>>

LoadSession(c, s, locals) ==
    /\ req[c].at = "idle"
    /\ IF s \in LiveSessions THEN Goto(c, locals) ELSE Answer(c, "404")
    /\ UNCHANGED <<tables, widest>>

UpdateSession(c, s, p) ==
    LoadSession(c, s, [Idle EXCEPT !.at = "session_commit", !.sid = s, !.pay = p,
                                   !.seen = sessions[s].plan])
DeleteSession(c, s) == LoadSession(c, s, [Idle EXCEPT !.at = "session_delete", !.sid = s])

SessionCommit(c) ==
    LET s == req[c].sid  p == req[c].pay  seen == req[c].seen
        plan == ChangedColumns(sessions[s].plan, seen, p)
    IN
    /\ req[c].at = "session_commit"
    /\ \/ /\ p # seen /\ s \notin LiveSessions
          /\ Answer(c, "500")
          /\ UNCHANGED <<sessions, widest>>
       \/ /\ p = seen
          /\ Goto(c, [Idle EXCEPT !.at = "session_refresh", !.sid = s])
          /\ UNCHANGED <<sessions, widest>>
       \/ /\ p # seen /\ s \in LiveSessions
          /\ sessions' = [sessions EXCEPT ![s].plan = plan]
          /\ Widen(s, plan.capacity)
          /\ Goto(c, [Idle EXCEPT !.at = "session_refresh", !.sid = s])
    /\ UNCHANGED <<classes, signups, requests>>

SessionDelete(c) ==
    LET s == req[c].sid IN
    /\ req[c].at = "session_delete"
    /\ sessions' = [sessions EXCEPT ![s] = Deleted]
    /\ signups' = [u \in SignupIds |-> IF u \in LiveSignups /\ signups[u].session = s
                                       THEN Deleted ELSE signups[u]]
    /\ Answer(c, "ok")
    /\ UNCHANGED <<classes, requests, widest>>

SessionRefresh(c) ==
    /\ req[c].at = "session_refresh"
    /\ Answer(c, IF req[c].sid \in LiveSessions THEN "ok" ELSE "500")
    /\ UNCHANGED <<tables, widest>>

------------------------------------------------------------------------------

\* The task stops (a deployment, a crash) under a request.
TaskStops(c) ==
    /\ req[c].at # "idle"
    /\ Goto(c, Idle)
    /\ UNCHANGED <<tables, widest>>

VisitorArrival(c) ==
    \/ \E slug \in Slugs, s \in SessionIds, n \in 1..MaxParty : SignupReadClass(c, slug, s, n)
    \/ SignupByBot(c)
    \/ \E slug \in Slugs : RequestReadClass(c, slug)

ModeratorArrival(c) ==
    \/ \E p \in Class : CreateClass(c, p) \/ \E k \in ClassIds : UpdateClass(c, k, p)
    \/ \E p \in Schedule : \/ \E k \in ClassIds : CreateSession(c, k, p)
                           \/ \E s \in SessionIds : UpdateSession(c, s, p)
    \/ \E k \in ClassIds : DeleteClass(c, k)
    \/ \E s \in SessionIds : DeleteSession(c, s)

Continue(c) ==
    \/ SignupReadSession(c) \/ SignupCount(c) \/ SignupCommit(c) \/ SignupMail(c)
    \/ RequestCommit(c) \/ RequestMail(c)
    \/ ClassCommit(c) \/ DeadlockAborts(c) \/ ClassDelete(c) \/ ClassRefresh(c)
    \/ SessionInsert(c) \/ SessionCommit(c) \/ SessionDelete(c) \/ SessionRefresh(c)
    \/ TaskStops(c)

Next == \E c \in Clients : VisitorArrival(c) \/ ModeratorArrival(c) \/ Continue(c)

Spec == Init /\ [][Next]_vars

------------------------------------------------------------------------------
(* Properties *)

\* Every session is of a class that exists, every signup for a session that
\* exists, every request about no class or one that exists, whatever deletions
\* race the inserts (the three foreign keys and their ON DELETE clauses).
NoOrphans ==
    /\ \A s \in LiveSessions : sessions[s].class \in LiveClasses
    /\ \A u \in LiveSignups : signups[u].session \in LiveSessions
    /\ \A q \in RequestIds : requests[q] \in LiveClasses \cup {Null, Unborn}

\* Seats that signups in flight will take when they commit.
Promised(s) ==
    {seat \in Clients \X (1..MaxParty) :
       /\ req[seat[1]].at = "signup_commit" /\ req[seat[1]].sid = s
       /\ req[seat[1]].status = "registered"
       /\ seat[2] <= req[seat[1]].party}

\* Overbooking is bounded: a session is never sold beyond the largest limit it
\* ever had by more than one largest party for each other signup that counted
\* before an earlier one committed; with a single request at a time, not at all.
OverbookingBounded ==
    \A s \in LiveSessions : widest[s] # Null =>
        Cardinality(Seats(s)) + Cardinality(Promised(s))
            <= widest[s] + (Cardinality(Clients) - 1) * MaxParty

\* A signup lands on the roster of the class whose page it was made on.
RosterMatchesPage ==
    [][\A c \in Clients, u \in SignupIds :
         (req[c].at = "signup_commit" /\ req'[c].at = "signup_mail" /\ req'[c].uid = u)
         => sessions[signups'[u].session].class = req[c].cid]_vars

\* A session edit that leaves the status alone never takes back a cancellation
\* that was committed while the edit was in flight.
CancellationSticks ==
    [][\A c \in Clients, s \in LiveSessions :
         (/\ req[c].at = "session_commit" /\ req[c].sid = s /\ req[c].pay.status = req[c].seen.status
          /\ req'[c].at = "session_refresh")
         => sessions'[s].plan.status = sessions[s].plan.status]_vars

\* A request is answered with a 500 only when the row that very request had found
\* is deleted under it, before the statement that needs it, its publish to SNS
\* fails, or it moves a class to the slug of another that is being moved while
\* somebody waits for its own.
ErrorsNeedARace ==
    [][reply' = "500" =>
         \E c \in Clients :
            /\ req[c] # req'[c]
            /\ \/ req[c].at \in {"signup_mail", "request_mail"}
               \/ /\ req[c].at \in {"request_commit", "class_commit", "class_refresh",
                                    "session_insert"}
                  /\ classes[req[c].cid] = Deleted
               \/ /\ req[c].at \in {"signup_commit", "session_commit", "session_refresh"}
                  /\ sessions[req[c].sid] = Deleted
               \/ \E d, e \in Clients : WaitsFor(c, d) /\ WaitsFor(e, c)]_vars

=============================================================================
