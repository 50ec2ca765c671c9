--------------------------- MODULE ClassesProofs ---------------------------
(***************************************************************************)
(* For any number of classes, sessions, signups and requests in flight:    *)
(* the foreign keys hold, a signup is for the class it was made on, an     *)
(* uncaught error needs a deletion or a failure of SNS, and overbooking is *)
(* bounded by the parties that were in flight together.                    *)
(***************************************************************************)
EXTENDS Classes, FiniteSetTheorems, TLAPS

Codes == {"none", "ok", "404", "409", "500"}

\* What a request in flight has loaded was there, even if it is gone by now,
\* and the limit it counts against is one the session has had.
Sane(q) ==
    /\ q.at \in {"signup_session", "signup_count", "signup_commit", "session_commit",
                 "session_delete", "session_refresh"} =>
         q.sid \in SessionIds /\ sessions[q.sid] # Unborn
    /\ q.at \in {"signup_session", "signup_count", "signup_commit"} => q.party \in 1..MaxParty
    /\ q.at \in {"signup_count", "signup_commit"} =>
         sessions[q.sid] = Deleted \/ sessions[q.sid].class = q.cid
    /\ q.at = "signup_count" =>
         q.limit \in Capacities /\ (widest[q.sid] # Null => q.limit <= widest[q.sid])
    /\ q.at \in {"class_commit", "class_delete", "class_refresh", "session_insert"} =>
         q.cid \in ClassIds /\ classes[q.cid] # Unborn
    /\ q.at = "request_commit" => q.cid = Null \/ classes[q.cid] # Unborn
    /\ q.at = "class_commit" => q.pay \in Class /\ q.seen \in Class
    /\ q.at = "session_insert" => q.pay \in Schedule
    /\ q.at = "session_commit" => q.pay \in Schedule /\ q.seen \in Schedule

\* The history variable knows every limit a live session has.
WidestKnown ==
    \A s \in LiveSessions : widest[s] # Null =>
        sessions[s].plan.capacity # Null /\ sessions[s].plan.capacity <= widest[s]

Inv == TypeOK /\ NoOrphans /\ WidestKnown /\ \A c \in Clients : Sane(req[c])

\* Rows are never unborn again, a session never changes its class, and the
\* widest limit never shrinks.
Advance ==
    /\ \A k \in ClassIds : classes[k] # Unborn => classes'[k] # Unborn
    /\ \A s \in SessionIds : sessions[s] # Unborn =>
         /\ sessions'[s] # Unborn
         /\ sessions'[s] = Deleted \/ (sessions[s] # Deleted /\ sessions'[s].class = sessions[s].class)
    /\ \A s \in SessionIds :
         widest'[s] # Null => widest[s] # Null /\ widest[s] <= widest'[s]

\* A limit is a number, and Null is not.
LEMMA Limits == Capacities \subseteq Nat /\ Null \notin Nat /\ MaxParty \in Nat /\ MaxParty > 0
  BY SizesAssumption

\* What the other requests know stays true as the tables advance.
LEMMA StillSane ==
    ASSUME TypeOK, Advance, NEW q \in Locals, Sane(q),
           widest' \in [SessionIds -> Nat \cup {Null}]
    PROVE  Sane(q)'
  <1>1. q.cid # Null => q.cid \in ClassIds
    BY DEF Locals
  <1>2. ASSUME q.sid \in SessionIds, q.limit \in Capacities,
               widest[q.sid] # Null => q.limit <= widest[q.sid], widest'[q.sid] # Null
        PROVE  q.limit <= widest'[q.sid]
    <2>1. /\ widest[q.sid] \in Nat /\ widest'[q.sid] \in Nat /\ q.limit \in Nat
          /\ widest[q.sid] <= widest'[q.sid] /\ q.limit <= widest[q.sid]
      BY <1>2, Limits DEF Advance, TypeOK
    <2>2. QED
      BY <2>1
  <1>3. (q.at \in {"signup_count", "signup_commit"} =>
           sessions[q.sid] = Deleted \/ sessions[q.sid].class = q.cid)'
    BY DEF Sane, Advance
  <1>4. QED
    BY <1>1, <1>2, <1>3 DEF Sane, Advance

\* The parts of a step that are left to show: the rows it writes, and what the
\* request that moved knows.
LEMMA FromParts ==
    ASSUME Inv, NEW c \in Clients, NEW q \in Locals,
           req' = [req EXCEPT ![c] = q], reply' \in Codes,
           classes' \in [ClassIds -> Class \cup {Unborn, Deleted}],
           sessions' \in [SessionIds -> Session \cup {Unborn, Deleted}],
           signups' \in [SignupIds -> Signup \cup {Unborn, Deleted}],
           requests' \in [RequestIds -> ClassIds \cup {Null, Unborn}],
           widest' \in [SessionIds -> Nat \cup {Null}],
           Advance, Sane(req[c])', WidestKnown', NoOrphans'
    PROVE  Inv'
  <1>1. req' \in [Clients -> Locals] /\ \A d \in Clients \ {c} : req'[d] = req[d]
    BY DEF Inv, TypeOK
  <1>2. ASSUME NEW d \in Clients \ {c}
        PROVE  Sane(req[d])'
    <2>1. req[d] \in Locals /\ Sane(req[d])
      BY DEF Inv, TypeOK
    <2>2. ASSUME NEW p, p = req[d]
          PROVE  Sane(p)'
      BY <2>1, <2>2, StillSane DEF Inv
    <2>3. QED
      BY <1>1, <2>2 DEF Sane
  <1>3. TypeOK'
    BY <1>1 DEF TypeOK, Codes
  <1>4. QED
    BY <1>2, <1>3 DEF Inv

LEMMA IdleIsSane == Idle \in Locals /\ Sane(Idle) /\ Idle.at = "idle"
  BY SizesAssumption DEF Idle, Locals, Points, Sane

\* A step that only reads, or forgets.
LEMMA ReadStep ==
    ASSUME Inv, NEW c \in Clients, NEW q \in Locals, Sane(q),
           req' = [req EXCEPT ![c] = q], reply' \in Codes, UNCHANGED <<tables, widest>>
    PROVE  Inv'
  <1>1. Advance
    <2>1. \A s \in SessionIds : widest[s] # Null => widest[s] <= widest[s]
      BY DEF Inv, TypeOK
    <2>2. QED
      BY <2>1, KeysAssumption DEF Advance, tables
  <1>2. req'[c] = q
    BY DEF Inv, TypeOK
  <1>3. Sane(req[c])'
    BY <1>2 DEF Sane, tables
  <1>4. WidestKnown' /\ NoOrphans'
    BY DEF Inv, WidestKnown, NoOrphans, tables, LiveSessions, LiveClasses, LiveSignups, Rows
  <1>5. QED
    BY <1>1, <1>3, <1>4, FromParts DEF Inv, TypeOK, tables

LEMMA AnswerOnly ==
    ASSUME Inv, NEW c \in Clients, NEW code \in Codes, Answer(c, code), UNCHANGED <<tables, widest>>
    PROVE  Inv'
  BY IdleIsSane, ReadStep DEF Answer

LEMMA GotoOnly ==
    ASSUME Inv, NEW c \in Clients, NEW q \in Locals, Sane(q), Goto(c, q),
           UNCHANGED <<tables, widest>>
    PROVE  Inv'
  BY ReadStep DEF Goto, Codes

------------------------------------------------------------------------------
(* Statements that read *)

LEMMA VisitorReads ==
    ASSUME Inv, NEW c \in Clients, VisitorArrival(c)
    PROVE  Inv'
  <1>1. ASSUME NEW slug \in Slugs, NEW s \in SessionIds, NEW n \in 1..MaxParty,
               SignupReadClass(c, slug, s, n)
        PROVE  Inv'
    <2>1. ASSUME NEW k \in LiveClasses,
                 Goto(c, [Idle EXCEPT !.at = "signup_session", !.cid = k, !.sid = s, !.party = n])
          PROVE  Inv'
      <3> DEFINE q == [Idle EXCEPT !.at = "signup_session", !.cid = k, !.sid = s, !.party = n]
      <3>1. q \in Locals
        <4>1. n \in 0..MaxParty /\ k \in ClassIds
          BY Limits DEF LiveClasses, Rows
        <4>2. QED
          BY <4>1, IdleIsSane DEF Locals, Points
      <3>2. sessions[s] # Unborn
        BY <1>1 DEF SignupReadClass
      <3>3. q.at = "signup_session" /\ q.sid = s /\ q.party = n
        BY DEF Idle
      <3>4. Sane(q)
        <4> HIDE DEF q
        <4>1. QED
          BY <3>2, <3>3 DEF Sane
      <3>5. QED
        BY <1>1, <2>1, <3>1, <3>4, GotoOnly DEF SignupReadClass
    <2>2. QED
      BY <1>1, <2>1, AnswerOnly DEF SignupReadClass, Codes
  <1>2. CASE SignupByBot(c)
    BY <1>2, AnswerOnly DEF SignupByBot, Codes
  <1>3. ASSUME NEW slug \in Slugs, RequestReadClass(c, slug)
        PROVE  Inv'
    <2>1. PICK k \in LiveClasses \cup {Null} :
             Goto(c, [Idle EXCEPT !.at = "request_commit", !.cid = k])
      BY <1>3 DEF RequestReadClass
    <2> DEFINE q == [Idle EXCEPT !.at = "request_commit", !.cid = k]
    <2>2. q \in Locals
      BY IdleIsSane DEF Locals, Points, LiveClasses, Rows
    <2>3. Sane(q)
      BY DEF Sane, Idle, LiveClasses, Rows
    <2>4. QED
      BY <1>3, <2>1, <2>2, <2>3, GotoOnly DEF RequestReadClass
  <1>4. QED
    BY <1>1, <1>2, <1>3 DEF VisitorArrival

LEMMA ModeratorReads ==
    ASSUME Inv, NEW c \in Clients,
           \/ \E p \in Class, k \in ClassIds : UpdateClass(c, k, p)
           \/ \E p \in Schedule, k \in ClassIds : CreateSession(c, k, p)
           \/ \E p \in Schedule, s \in SessionIds : UpdateSession(c, s, p)
           \/ \E k \in ClassIds : DeleteClass(c, k)
           \/ \E s \in SessionIds : DeleteSession(c, s)
    PROVE  Inv'
  <1>1. ASSUME NEW k \in ClassIds, NEW q \in Locals, k \in LiveClasses => Sane(q),
               LoadClass(c, k, q)
        PROVE  Inv'
    BY <1>1, AnswerOnly, GotoOnly DEF LoadClass, Codes
  <1>2. ASSUME NEW s \in SessionIds, NEW q \in Locals, s \in LiveSessions => Sane(q),
               LoadSession(c, s, q)
        PROVE  Inv'
    BY <1>2, AnswerOnly, GotoOnly DEF LoadSession, Codes
  <1>3. ASSUME NEW p \in Class, NEW k \in ClassIds, UpdateClass(c, k, p)
        PROVE  Inv'
    <2> DEFINE q == [Idle EXCEPT !.at = "class_commit", !.cid = k, !.pay = p, !.seen = classes[k]]
    <2>1. CASE k \in LiveClasses
      <3>1. classes[k] \in Class /\ classes[k] # Unborn
        BY <2>1 DEF LiveClasses, Rows, Inv, TypeOK
      <3>2. q \in Locals
        BY <3>1, IdleIsSane DEF Locals, Points
      <3>3. Sane(q)
        BY <3>1 DEF Sane, Idle
      <3>4. QED
        BY <1>1, <1>3, <3>2, <3>3 DEF UpdateClass
    <2>2. CASE k \notin LiveClasses
      BY <1>3, <2>2, AnswerOnly DEF UpdateClass, LoadClass, Codes
    <2>3. QED
      BY <2>1, <2>2
  <1>4. ASSUME NEW p \in Schedule, NEW k \in ClassIds, CreateSession(c, k, p)
        PROVE  Inv'
    <2> DEFINE q == [Idle EXCEPT !.at = "session_insert", !.cid = k, !.pay = p]
    <2>1. q \in Locals
      BY IdleIsSane DEF Locals, Points
    <2>2. k \in LiveClasses => Sane(q)
      BY DEF Sane, Idle, LiveClasses, Rows
    <2>3. QED
      BY <1>1, <1>4, <2>1, <2>2 DEF CreateSession
  <1>5. ASSUME NEW p \in Schedule, NEW s \in SessionIds, UpdateSession(c, s, p)
        PROVE  Inv'
    <2> DEFINE q == [Idle EXCEPT !.at = "session_commit", !.sid = s, !.pay = p,
                                 !.seen = sessions[s].plan]
    <2>1. CASE s \in LiveSessions
      <3>1. sessions[s].plan \in Schedule /\ sessions[s] # Unborn
        BY <2>1 DEF LiveSessions, Rows, Inv, TypeOK, Session
      <3>2. q \in Locals
        BY <3>1, IdleIsSane DEF Locals, Points
      <3>3. Sane(q)
        BY <3>1 DEF Sane, Idle
      <3>4. QED
        BY <1>2, <1>5, <3>2, <3>3 DEF UpdateSession
    <2>2. CASE s \notin LiveSessions
      BY <1>5, <2>2, AnswerOnly DEF UpdateSession, LoadSession, Codes
    <2>3. QED
      BY <2>1, <2>2
  <1>6. ASSUME NEW k \in ClassIds, DeleteClass(c, k)
        PROVE  Inv'
    <2> DEFINE q == [Idle EXCEPT !.at = "class_delete", !.cid = k]
    <2>1. q \in Locals
      BY IdleIsSane DEF Locals, Points
    <2>2. k \in LiveClasses => Sane(q)
      BY DEF Sane, Idle, LiveClasses, Rows
    <2>3. QED
      BY <1>1, <1>6, <2>1, <2>2 DEF DeleteClass
  <1>7. ASSUME NEW s \in SessionIds, DeleteSession(c, s)
        PROVE  Inv'
    <2> DEFINE q == [Idle EXCEPT !.at = "session_delete", !.sid = s]
    <2>1. q \in Locals
      BY IdleIsSane DEF Locals, Points
    <2>2. s \in LiveSessions => Sane(q)
      BY DEF Sane, Idle, LiveSessions, Rows
    <2>3. QED
      BY <1>2, <1>7, <2>1, <2>2 DEF DeleteSession
  <1>8. QED
    BY <1>3, <1>4, <1>5, <1>6, <1>7

LEMMA SignupReads ==
    ASSUME Inv, NEW c \in Clients, SignupReadSession(c) \/ SignupCount(c)
    PROVE  Inv'
  <1>0. req[c] \in Locals /\ Sane(req[c])
    BY DEF Inv, TypeOK
  <1>1. CASE SignupReadSession(c)
    <2> DEFINE s == req[c].sid
               limit == sessions[s].plan.capacity
               q == [req[c] EXCEPT !.at = IF limit = Null THEN "signup_commit" ELSE "signup_count",
                                   !.limit = limit]
    <2>1. CASE s \in LiveSessions /\ sessions[s].class = req[c].cid /\ Goto(c, q)
      <3>1. s \in SessionIds /\ sessions[s] # Unborn /\ limit \in Capacities \cup {Null}
        BY <2>1 DEF LiveSessions, Rows, Inv, TypeOK, Session, Schedule
      <3>2. q \in Locals
        BY <1>0, <3>1 DEF Locals, Points
      <3>3. /\ q.at = IF limit = Null THEN "signup_commit" ELSE "signup_count"
            /\ q.limit = limit /\ q.sid = s /\ q.cid = req[c].cid /\ q.party = req[c].party
        BY <1>0 DEF Locals
      <3>4. req[c].party \in 1..MaxParty
        BY <1>0, <1>1 DEF Sane, SignupReadSession
      <3>5. limit # Null /\ widest[s] # Null => limit <= widest[s]
        BY <2>1 DEF Inv, WidestKnown
      <3>6. Sane(q)
        <4> HIDE DEF q, limit, s
        <4>1. QED
          BY <2>1, <3>1, <3>3, <3>4, <3>5 DEF Sane
      <3>7. QED
        BY <1>1, <2>1, <3>2, <3>6, GotoOnly DEF SignupReadSession
    <2>2. CASE Answer(c, "404")
      BY <1>1, <2>2, AnswerOnly DEF SignupReadSession, Codes
    <2>3. QED
      BY <1>1, <2>1, <2>2 DEF SignupReadSession
  <1>2. CASE SignupCount(c)
    <2>1. PICK status \in {"registered", "waitlisted"} :
             Goto(c, [req[c] EXCEPT !.at = "signup_commit", !.limit = Null, !.status = status])
      BY <1>2 DEF SignupCount
    <2> DEFINE q == [req[c] EXCEPT !.at = "signup_commit", !.limit = Null, !.status = status]
    <2>2. q \in Locals
      BY <1>0 DEF Locals, Points
    <2>3. /\ q.at = "signup_commit" /\ q.sid = req[c].sid /\ q.cid = req[c].cid
          /\ q.party = req[c].party
      BY <1>0 DEF Locals
    <2>4. Sane(q)
      <3> HIDE DEF q
      <3>1. QED
        BY <1>0, <1>2, <2>3 DEF Sane, SignupCount
    <2>5. QED
      BY <1>2, <2>1, <2>2, <2>4, GotoOnly DEF SignupCount
  <1>3. QED
    BY <1>1, <1>2

LEMMA Answers ==
    ASSUME Inv, NEW c \in Clients,
           \/ SignupMail(c) \/ RequestMail(c) \/ ClassRefresh(c) \/ SessionRefresh(c)
           \/ DeadlockAborts(c) \/ TaskStops(c)
    PROVE  Inv'
  <1>1. CASE \/ SignupMail(c) \/ RequestMail(c) \/ ClassRefresh(c) \/ SessionRefresh(c)
             \/ DeadlockAborts(c)
    BY <1>1, AnswerOnly DEF SignupMail, RequestMail, ClassRefresh, SessionRefresh, DeadlockAborts,
                            Codes
  <1>2. CASE TaskStops(c)
    BY <1>2, IdleIsSane, GotoOnly DEF TaskStops
  <1>3. QED
    BY <1>1, <1>2

------------------------------------------------------------------------------
(* Statements that write *)

\* Nothing is shorter than before.
LEMMA Same ==
    ASSUME Inv
    PROVE  /\ \A s \in SessionIds : widest[s] # Null => widest[s] <= widest[s]
           /\ \A s \in LiveSessions : s \in SessionIds /\ sessions[s] \in Session
           /\ \A k \in LiveClasses : k \in ClassIds /\ classes[k] \in Class
           /\ \A u \in LiveSignups : u \in SignupIds /\ signups[u] \in Signup
  BY DEF Inv, TypeOK, LiveSessions, LiveClasses, LiveSignups, Rows

LEMMA RowsAreLive ==
    /\ \A p \in Class : p \notin {Unborn, Deleted}
    /\ \A p \in Session : p \notin {Unborn, Deleted}
    /\ \A p \in Signup : p \notin {Unborn, Deleted}
  BY KeysAssumption

\* Going on to answer with the row that was just written.
LEMMA RefreshIsSane ==
    /\ \A u \in SignupIds : [Idle EXCEPT !.at = "signup_mail", !.uid = u] \in Locals
    /\ [Idle EXCEPT !.at = "request_mail"] \in Locals
    /\ \A k \in ClassIds : [Idle EXCEPT !.at = "class_refresh", !.cid = k] \in Locals
    /\ \A s \in SessionIds : [Idle EXCEPT !.at = "session_refresh", !.sid = s] \in Locals
  BY IdleIsSane DEF Locals, Points

LEMMA SignupWrites ==
    ASSUME Inv, NEW c \in Clients, SignupCommit(c)
    PROVE  Inv'
  <1>0. req \in [Clients -> Locals] /\ req[c] \in Locals /\ Sane(req[c])
    BY DEF Inv, TypeOK
  <1>1. CASE Answer(c, "500") /\ UNCHANGED signups
    BY <1>1, AnswerOnly DEF SignupCommit, Codes, tables
  <1>2. CASE /\ req[c].sid \in LiveSessions
             /\ \E u \in SignupIds :
                  /\ signups[u] = Unborn
                  /\ signups' = [signups EXCEPT ![u] = [session |-> req[c].sid, party |-> req[c].party,
                                                        status |-> req[c].status]]
                  /\ Goto(c, [Idle EXCEPT !.at = "signup_mail", !.uid = u])
    <2>1. PICK u \in SignupIds :
             /\ signups' = [signups EXCEPT ![u] = [session |-> req[c].sid, party |-> req[c].party,
                                                   status |-> req[c].status]]
             /\ Goto(c, [Idle EXCEPT !.at = "signup_mail", !.uid = u])
      BY <1>2
    <2> DEFINE row == [session |-> req[c].sid, party |-> req[c].party, status |-> req[c].status]
    <2>2. row \in Signup
      BY <1>0, SignupCommit(c) DEF SignupCommit, Sane, Signup, Locals
    <2>3. signups' \in [SignupIds -> Signup \cup {Unborn, Deleted}]
      BY <2>1, <2>2 DEF Inv, TypeOK
    <2>4. UNCHANGED <<classes, sessions, requests, widest>>
      BY DEF SignupCommit
    <2>5. req'[c].at = "signup_mail"
      BY <1>0, <2>1 DEF Goto, Idle
    <2>6. \A v \in LiveSignups' : v = u \/ (v \in LiveSignups /\ signups'[v] = signups[v])
      BY <2>1 DEF LiveSignups, Rows, Inv, TypeOK
    <2>7. signups'[u].session = req[c].sid
      BY <2>1 DEF Inv, TypeOK
    <2>8. NoOrphans'
      <3>1. \A v \in LiveSignups' : signups'[v].session \in LiveSessions
        BY <1>2, <2>6, <2>7 DEF Inv, NoOrphans
      <3>2. QED
        BY <2>4, <3>1 DEF Inv, NoOrphans, LiveSessions, LiveClasses, Rows
    <2>9. WidestKnown'
      BY <2>4 DEF Inv, WidestKnown, LiveSessions, Rows
    <2>10. Advance /\ Sane(req[c])'
      BY <2>4, <2>5, Same, KeysAssumption DEF Advance, Sane
    <2>11. QED
      BY <2>1, <2>3, <2>4, <2>8, <2>9, <2>10, RefreshIsSane, FromParts DEF Goto, Codes, Inv, TypeOK
  <1>3. QED
    BY <1>1, <1>2 DEF SignupCommit

LEMMA RequestWrites ==
    ASSUME Inv, NEW c \in Clients, RequestCommit(c)
    PROVE  Inv'
  <1>0. req \in [Clients -> Locals]
    BY DEF Inv, TypeOK
  <1>1. CASE Answer(c, "500") /\ UNCHANGED requests
    BY <1>1, AnswerOnly DEF RequestCommit, Codes, tables
  <1>2. CASE /\ req[c].cid \in LiveClasses \cup {Null}
             /\ \E q \in RequestIds :
                  /\ requests' = [requests EXCEPT ![q] = req[c].cid]
                  /\ Goto(c, [Idle EXCEPT !.at = "request_mail"])
    <2>1. PICK q \in RequestIds : /\ requests' = [requests EXCEPT ![q] = req[c].cid]
                                  /\ Goto(c, [Idle EXCEPT !.at = "request_mail"])
      BY <1>2
    <2>2. UNCHANGED <<classes, sessions, signups, widest>>
      BY DEF RequestCommit
    <2>3. requests' \in [RequestIds -> ClassIds \cup {Null, Unborn}]
      BY <1>2, <2>1 DEF Inv, TypeOK, LiveClasses, Rows
    <2>4. req'[c].at = "request_mail"
      BY <1>0, <2>1 DEF Goto, Idle
    <2>5. NoOrphans'
      BY <1>2, <2>1, <2>2 DEF Inv, TypeOK, NoOrphans, LiveSessions, LiveClasses, LiveSignups, Rows
    <2>6. WidestKnown'
      BY <2>2 DEF Inv, WidestKnown, LiveSessions, Rows
    <2>7. Advance /\ Sane(req[c])'
      BY <2>2, <2>4, Same, KeysAssumption DEF Advance, Sane
    <2>8. QED
      BY <2>1, <2>2, <2>3, <2>5, <2>6, <2>7, RefreshIsSane, FromParts DEF Goto, Codes, Inv, TypeOK
  <1>3. QED
    BY <1>1, <1>2 DEF RequestCommit

\* A class written, new or as an update.
LEMMA ClassWritten ==
    ASSUME Inv, NEW c \in Clients, NEW k \in ClassIds, NEW p \in Class, classes[k] # Deleted,
           classes' = [classes EXCEPT ![k] = p],
           Goto(c, [Idle EXCEPT !.at = "class_refresh", !.cid = k]),
           UNCHANGED <<sessions, signups, requests, widest>>
    PROVE  Inv'
  <1>0. req \in [Clients -> Locals]
    BY DEF Inv, TypeOK
  <1>1. classes' \in [ClassIds -> Class \cup {Unborn, Deleted}]
    BY DEF Inv, TypeOK
  <1>2. classes'[k] = p /\ p \notin {Unborn, Deleted} /\ \A j \in ClassIds \ {k} : classes'[j] = classes[j]
    BY RowsAreLive DEF Inv, TypeOK
  <1>3. LiveClasses \subseteq LiveClasses'
    BY <1>2 DEF LiveClasses, Rows
  <1>4. req'[c].at = "class_refresh" /\ req'[c].cid = k
    BY <1>0 DEF Goto, Idle
  <1>5. NoOrphans'
    BY <1>3 DEF Inv, NoOrphans, LiveSessions, LiveSignups, Rows
  <1>6. WidestKnown'
    BY DEF Inv, WidestKnown, LiveSessions, Rows
  <1>7. Advance
    BY <1>2, Same, KeysAssumption DEF Advance
  <1>8. Sane(req[c])'
    BY <1>2, <1>4 DEF Sane
  <1>9. QED
    BY <1>1, <1>5, <1>6, <1>7, <1>8, RefreshIsSane, FromParts DEF Goto, Codes, Inv, TypeOK

LEMMA ClassWrites ==
    ASSUME Inv, NEW c \in Clients, ClassCommit(c) \/ \E p \in Class : CreateClass(c, p)
    PROVE  Inv'
  <1>0. req[c] \in Locals /\ Sane(req[c])
    BY DEF Inv, TypeOK
  <1>1. ASSUME NEW p \in Class, CreateClass(c, p)
        PROVE  Inv'
    <2>1. CASE Answer(c, "409") /\ UNCHANGED classes
      BY <1>1, <2>1, AnswerOnly DEF CreateClass, Codes, tables
    <2>2. CASE \E k \in ClassIds :
                 /\ classes[k] = Unborn
                 /\ classes' = [classes EXCEPT ![k] = p]
                 /\ Goto(c, [Idle EXCEPT !.at = "class_refresh", !.cid = k])
      BY <1>1, <2>2, ClassWritten, KeysAssumption DEF CreateClass
    <2>3. QED
      BY <1>1, <2>1, <2>2 DEF CreateClass
  <1>2. CASE ClassCommit(c)
    <2> DEFINE k == req[c].cid
               p == req[c].pay
               s == req[c].seen
    <2>1. k \in ClassIds /\ p \in Class /\ s \in Class /\ classes[k] # Unborn
      BY <1>0, <1>2 DEF ClassCommit, Sane
    <2>2. CASE UNCHANGED classes /\ \E code \in Codes : Answer(c, code)
      BY <1>2, <2>2, AnswerOnly DEF ClassCommit, tables
    <2>3. CASE UNCHANGED classes /\ Goto(c, [Idle EXCEPT !.at = "class_refresh", !.cid = k])
      <3> DEFINE q == [Idle EXCEPT !.at = "class_refresh", !.cid = k]
      <3>1. q \in Locals
        BY <2>1, RefreshIsSane
      <3>2. Sane(q)
        BY <2>1 DEF Sane, Idle
      <3>3. QED
        BY <1>2, <2>3, <3>1, <3>2, GotoOnly DEF ClassCommit, tables
    <2>4. CASE /\ k \in LiveClasses
               /\ classes' = [classes EXCEPT ![k] = ChangedColumns(@, s, p)]
               /\ Goto(c, [Idle EXCEPT !.at = "class_refresh", !.cid = k])
      <3>1. classes[k] \in Class /\ classes[k] # Deleted
        BY <2>4, Same DEF LiveClasses, Rows
      <3>2. ChangedColumns(classes[k], s, p) \in Class
        BY <2>1, <3>1 DEF ChangedColumns, Class
      <3>3. classes' = [classes EXCEPT ![k] = ChangedColumns(classes[k], s, p)]
        BY <2>1, <2>4 DEF Inv, TypeOK
      <3>4. UNCHANGED <<sessions, signups, requests, widest>>
        BY <1>2 DEF ClassCommit
      <3>5. QED
        BY <2>1, <2>4, <3>1, <3>2, <3>3, <3>4, ClassWritten
    <2>5. QED
      BY <1>2, <2>2, <2>3, <2>4 DEF ClassCommit, Codes
  <1>3. QED
    BY <1>1, <1>2
\* What a deletion keeps of a table: a row stays as it is or is deleted.
LEMMA ClassDeletes ==
    ASSUME Inv, NEW c \in Clients, ClassDelete(c)
    PROVE  Inv'
  <1> DEFINE k == req[c].cid
             gone == {s \in LiveSessions : sessions[s].class = k}
  <1>0. req \in [Clients -> Locals] /\ req[c] \in Locals /\ k \in ClassIds /\ classes[k] # Unborn
    BY DEF Inv, TypeOK, ClassDelete, Sane
  <1>1. /\ classes' \in [ClassIds -> Class \cup {Unborn, Deleted}]
        /\ classes'[k] = Deleted /\ \A j \in ClassIds \ {k} : classes'[j] = classes[j]
    BY <1>0 DEF ClassDelete, Inv, TypeOK
  <1>2. \A s \in SessionIds : sessions'[s] = IF s \in gone THEN Deleted ELSE sessions[s]
    BY DEF ClassDelete
  <1>3. /\ sessions' \in [SessionIds -> Session \cup {Unborn, Deleted}]
        /\ LiveSessions' = LiveSessions \ gone
        /\ \A s \in LiveSessions' : sessions'[s] = sessions[s]
    <2>1. sessions' \in [SessionIds -> Session \cup {Unborn, Deleted}]
      BY DEF ClassDelete, Inv, TypeOK
    <2>2. QED
      BY <1>2, <2>1 DEF LiveSessions, Rows
  <1>4. /\ signups' \in [SignupIds -> Signup \cup {Unborn, Deleted}]
        /\ \A u \in LiveSignups' : /\ u \in LiveSignups /\ signups'[u] = signups[u]
                                   /\ signups[u].session \notin gone
    <2>1. signups' \in [SignupIds -> Signup \cup {Unborn, Deleted}]
      BY DEF ClassDelete, Inv, TypeOK
    <2>2. \A u \in SignupIds : signups'[u] = IF u \in LiveSignups /\ signups[u].session \in gone
                                             THEN Deleted ELSE signups[u]
      BY DEF ClassDelete
    <2>3. QED
      BY <2>1, <2>2 DEF LiveSignups, Rows
  <1>5. /\ requests' \in [RequestIds -> ClassIds \cup {Null, Unborn}]
        /\ \A q \in RequestIds : requests'[q] = IF requests[q] = k THEN Null ELSE requests[q]
    BY DEF ClassDelete, Inv, TypeOK
  <1>6. LiveClasses' = LiveClasses \ {k}
    BY <1>0, <1>1 DEF LiveClasses, Rows
  <1>7. NoOrphans'
    <2>1. \A s \in LiveSessions' : sessions'[s].class \in LiveClasses'
      BY <1>3, <1>6 DEF Inv, NoOrphans
    <2>2. \A u \in LiveSignups' : signups'[u].session \in LiveSessions'
      BY <1>3, <1>4 DEF Inv, NoOrphans
    <2>3. \A q \in RequestIds : requests'[q] \in LiveClasses' \cup {Null, Unborn}
      BY <1>5, <1>6 DEF Inv, NoOrphans
    <2>4. QED
      BY <2>1, <2>2, <2>3 DEF NoOrphans
  <1>8. UNCHANGED widest /\ Answer(c, "ok")
    BY DEF ClassDelete
  <1>9. WidestKnown'
    BY <1>3, <1>8 DEF Inv, WidestKnown
  <1>10. Advance
    BY <1>1, <1>2, <1>8, Same, KeysAssumption DEF Advance
  <1>11. Sane(req[c])'
    BY <1>0, <1>8, IdleIsSane DEF Answer, Sane
  <1>12. QED
    BY <1>1, <1>3, <1>4, <1>5, <1>7, <1>8, <1>9, <1>10, <1>11, IdleIsSane, FromParts
       DEF Answer, Codes, Inv, TypeOK

LEMMA SessionDeletes ==
    ASSUME Inv, NEW c \in Clients, SessionDelete(c)
    PROVE  Inv'
  <1> DEFINE s == req[c].sid
  <1>0. req \in [Clients -> Locals] /\ s \in SessionIds /\ sessions[s] # Unborn
    BY DEF Inv, TypeOK, SessionDelete, Sane
  <1>1. /\ sessions' \in [SessionIds -> Session \cup {Unborn, Deleted}]
        /\ sessions'[s] = Deleted /\ \A t \in SessionIds \ {s} : sessions'[t] = sessions[t]
    BY <1>0 DEF SessionDelete, Inv, TypeOK
  <1>2. LiveSessions' = LiveSessions \ {s}
    BY <1>0, <1>1 DEF LiveSessions, Rows
  <1>3. /\ signups' \in [SignupIds -> Signup \cup {Unborn, Deleted}]
        /\ \A u \in LiveSignups' : /\ u \in LiveSignups /\ signups'[u] = signups[u]
                                   /\ signups[u].session # s
    <2>1. signups' \in [SignupIds -> Signup \cup {Unborn, Deleted}]
      BY DEF SessionDelete, Inv, TypeOK
    <2>2. \A u \in SignupIds : signups'[u] = IF u \in LiveSignups /\ signups[u].session = s
                                             THEN Deleted ELSE signups[u]
      BY DEF SessionDelete
    <2>3. QED
      BY <2>1, <2>2 DEF LiveSignups, Rows
  <1>4. UNCHANGED <<classes, requests, widest>> /\ Answer(c, "ok")
    BY DEF SessionDelete
  <1>5. NoOrphans'
    <2>1. LiveClasses' = LiveClasses /\ \A t \in LiveSessions' : sessions'[t] = sessions[t]
      BY <1>1, <1>2, <1>4 DEF LiveClasses, LiveSessions, Rows
    <2>2. QED
      BY <1>2, <1>3, <1>4, <2>1 DEF Inv, NoOrphans
  <1>6. WidestKnown'
    BY <1>1, <1>2, <1>4 DEF Inv, WidestKnown, LiveSessions, Rows
  <1>7. Advance
    BY <1>1, <1>4, Same, KeysAssumption DEF Advance
  <1>8. Sane(req[c])'
    BY <1>0, <1>4, IdleIsSane DEF Answer, Sane
  <1>9. QED
    BY <1>1, <1>3, <1>4, <1>5, <1>6, <1>7, <1>8, IdleIsSane, FromParts
       DEF Answer, Codes, Inv, TypeOK

\* A limit a session gets is at most the widest limit it ever had.
LEMMA WidenKnows ==
    ASSUME Inv, NEW s \in SessionIds, NEW limit \in Capacities \cup {Null}, Widen(s, limit)
    PROVE  /\ widest' \in [SessionIds -> Nat \cup {Null}]
           /\ \A t \in SessionIds \ {s} : widest'[t] = widest[t]
           /\ widest'[s] # Null =>
                limit # Null /\ limit <= widest'[s] /\ widest[s] # Null /\ widest[s] <= widest'[s]
           /\ \A t \in SessionIds : widest'[t] # Null => widest[t] # Null /\ widest[t] <= widest'[t]
  <1>1. widest \in [SessionIds -> Nat \cup {Null}] /\ limit \in Nat \cup {Null}
    BY Limits DEF Inv, TypeOK
  <1> DEFINE new == IF limit = Null \/ widest[s] = Null THEN Null
                    ELSE IF limit > widest[s] THEN limit ELSE widest[s]
  <1>2. widest' = [widest EXCEPT ![s] = new]
    BY <1>1 DEF Widen
  <1>3. new \in Nat \cup {Null}
    BY <1>1
  <1>4. new # Null => limit # Null /\ limit <= new /\ widest[s] # Null /\ widest[s] <= new
    BY <1>1, Limits
  <1>5. widest'[s] = new
    BY <1>1, <1>2
  <1>6. \A t \in SessionIds \ {s} : widest'[t] = widest[t]
    BY <1>1, <1>2
  <1>7. widest' \in [SessionIds -> Nat \cup {Null}]
    BY <1>1, <1>2, <1>3
  <1> HIDE DEF new
  <1>8. \A t \in SessionIds : widest'[t] # Null => widest[t] # Null /\ widest[t] <= widest'[t]
    BY <1>4, <1>5, <1>6, Same
  <1>9. QED
    BY <1>4, <1>5, <1>6, <1>7, <1>8
\* A session written, new or as an update.
LEMMA SessionWritten ==
    ASSUME Inv, NEW c \in Clients, NEW s \in SessionIds, NEW row \in Session,
           row.class \in LiveClasses,
           sessions[s] # Deleted, sessions[s] # Unborn => row.class = sessions[s].class,
           sessions' = [sessions EXCEPT ![s] = row], Widen(s, row.plan.capacity),
           Goto(c, [Idle EXCEPT !.at = "session_refresh", !.sid = s]),
           UNCHANGED <<classes, signups, requests>>
    PROVE  Inv'
  <1>0. req \in [Clients -> Locals] /\ row.plan.capacity \in Capacities \cup {Null}
    BY DEF Inv, TypeOK, Session, Schedule
  <1>1. /\ sessions' \in [SessionIds -> Session \cup {Unborn, Deleted}]
        /\ sessions'[s] = row /\ row \notin {Unborn, Deleted}
        /\ \A t \in SessionIds \ {s} : sessions'[t] = sessions[t]
    BY RowsAreLive DEF Inv, TypeOK
  <1>2. LiveSessions' = LiveSessions \cup {s}
    BY <1>1 DEF LiveSessions, Rows
  <1>3. LiveClasses' = LiveClasses /\ LiveSignups' = LiveSignups
    BY DEF LiveClasses, LiveSignups, Rows
  <1>4. NoOrphans'
    BY <1>1, <1>2, <1>3 DEF Inv, NoOrphans
  <1>5. WidestKnown'
    <2>1. ASSUME NEW t \in LiveSessions', widest'[t] # Null
          PROVE  sessions'[t].plan.capacity # Null /\ sessions'[t].plan.capacity <= widest'[t]
      <3>1. CASE t = s
        BY <1>0, <1>1, <2>1, <3>1, WidenKnows
      <3>2. CASE t # s
        <4>1. t \in LiveSessions /\ t \in SessionIds \ {s} /\ sessions'[t] = sessions[t]
          BY <1>1, <1>2, <3>2, Same
        <4>2. widest'[t] = widest[t]
          BY <1>0, <4>1, WidenKnows
        <4>3. QED
          BY <2>1, <4>1, <4>2 DEF Inv, WidestKnown
      <3>3. QED
        BY <3>1, <3>2
    <2>2. QED
      BY <2>1 DEF WidestKnown
  <1>6. Advance
    <2>1. \A t \in SessionIds : widest'[t] # Null => widest[t] # Null /\ widest[t] <= widest'[t]
      BY <1>0, WidenKnows
    <2>2. QED
      BY <1>1, <2>1, KeysAssumption DEF Advance
  <1>7. Sane(req[c])'
    <2>1. req'[c].at = "session_refresh" /\ req'[c].sid = s
      BY <1>0 DEF Goto, Idle
    <2>2. QED
      BY <1>1, <2>1 DEF Sane
  <1>8. widest' \in [SessionIds -> Nat \cup {Null}]
    BY <1>0, WidenKnows
  <1>9. QED
    BY <1>1, <1>4, <1>5, <1>6, <1>7, <1>8, RefreshIsSane, FromParts DEF Goto, Codes, Inv, TypeOK

LEMMA SessionWrites ==
    ASSUME Inv, NEW c \in Clients, SessionInsert(c) \/ SessionCommit(c)
    PROVE  Inv'
  <1>0. req[c] \in Locals /\ Sane(req[c]) /\ sessions \in [SessionIds -> Session \cup {Unborn, Deleted}]
    BY DEF Inv, TypeOK
  <1>1. CASE SessionInsert(c)
    <2> DEFINE k == req[c].cid
               p == req[c].pay
    <2>1. p \in Schedule
      BY <1>0, <1>1 DEF SessionInsert, Sane
    <2>2. CASE Answer(c, "500") /\ UNCHANGED <<sessions, widest>>
      BY <1>1, <2>2, AnswerOnly DEF SessionInsert, Codes, tables
    <2>3. CASE /\ k \in LiveClasses
               /\ \E s \in SessionIds :
                    /\ sessions[s] = Unborn
                    /\ sessions' = [sessions EXCEPT ![s] = [class |-> k, plan |-> p]]
                    /\ Widen(s, p.capacity)
                    /\ Goto(c, [Idle EXCEPT !.at = "session_refresh", !.sid = s])
      <3> DEFINE row == [class |-> k, plan |-> p]
      <3>1. row \in Session /\ row.class = k /\ row.plan = p
        BY <2>1, <2>3 DEF Session, LiveClasses, Rows
      <3>2. PICK s \in SessionIds :
              /\ sessions[s] = Unborn
              /\ sessions' = [sessions EXCEPT ![s] = row]
              /\ Widen(s, p.capacity)
              /\ Goto(c, [Idle EXCEPT !.at = "session_refresh", !.sid = s])
        BY <2>3
      <3>3. UNCHANGED <<classes, signups, requests>>
        BY <1>1 DEF SessionInsert
      <3> HIDE DEF row
      <3>4. QED
        BY <2>3, <3>1, <3>2, <3>3, SessionWritten, KeysAssumption
    <2>4. QED
      BY <1>1, <2>2, <2>3 DEF SessionInsert
  <1>2. CASE SessionCommit(c)
    <2> DEFINE s == req[c].sid
               p == req[c].pay
               seen == req[c].seen
               plan == ChangedColumns(sessions[s].plan, seen, p)
    <2>1. s \in SessionIds /\ p \in Schedule /\ seen \in Schedule /\ sessions[s] # Unborn
      BY <1>0, <1>2 DEF SessionCommit, Sane
    <2>2. CASE Answer(c, "500") /\ UNCHANGED <<sessions, widest>>
      BY <1>2, <2>2, AnswerOnly DEF SessionCommit, Codes, tables
    <2>3. CASE /\ UNCHANGED <<sessions, widest>>
               /\ Goto(c, [Idle EXCEPT !.at = "session_refresh", !.sid = s])
      <3> DEFINE q == [Idle EXCEPT !.at = "session_refresh", !.sid = s]
      <3>1. q \in Locals
        BY <2>1, RefreshIsSane
      <3>2. Sane(q)
        BY <2>1 DEF Sane, Idle
      <3>3. QED
        BY <1>2, <2>3, <3>1, <3>2, GotoOnly DEF SessionCommit, tables
    <2>4. CASE /\ s \in LiveSessions
               /\ sessions' = [sessions EXCEPT ![s].plan = plan]
               /\ Widen(s, plan.capacity)
               /\ Goto(c, [Idle EXCEPT !.at = "session_refresh", !.sid = s])
      <3>1. sessions[s] \in Session /\ sessions[s] # Deleted
        BY <2>4, Same DEF LiveSessions, Rows
      <3>2. plan \in Schedule
        BY <2>1, <3>1 DEF ChangedColumns, Session, Schedule
      <3> DEFINE row == [sessions[s] EXCEPT !.plan = plan]
      <3>3. row \in Session /\ row.class = sessions[s].class /\ row.plan = plan
        BY <3>1, <3>2 DEF Session
      <3>4. sessions' = [sessions EXCEPT ![s] = row]
        BY <1>0, <2>1, <2>4
      <3>5. UNCHANGED <<classes, signups, requests>> /\ row.class \in LiveClasses
        BY <1>2, <2>4, <3>3 DEF SessionCommit, Inv, NoOrphans
      <3> HIDE DEF row, plan
      <3>6. QED
        BY <2>1, <2>4, <3>1, <3>3, <3>4, <3>5, SessionWritten
    <2>5. QED
      BY <1>2, <2>2, <2>3, <2>4 DEF SessionCommit, Codes
  <1>3. QED
    BY <1>1, <1>2

------------------------------------------------------------------------------
(* The invariant, and what follows from it *)

LEMMA InvInit == Init => Inv
  <1> SUFFICES ASSUME Init PROVE Inv
    OBVIOUS
  <1>1. LiveClasses = {} /\ LiveSessions = {} /\ LiveSignups = {}
    BY DEF Init, LiveClasses, LiveSessions, LiveSignups, Rows
  <1>2. TypeOK
    BY IdleIsSane DEF Init, TypeOK
  <1>3. NoOrphans /\ WidestKnown
    BY <1>1 DEF Init, NoOrphans, WidestKnown
  <1>4. QED
    BY <1>2, <1>3, IdleIsSane DEF Init, Inv

LEMMA InvStep == Inv /\ [Next]_vars => Inv'
  <1> SUFFICES ASSUME Inv, [Next]_vars PROVE Inv'
    OBVIOUS
  <1>1. CASE UNCHANGED vars
    BY <1>1 DEF vars, Inv, TypeOK, NoOrphans, WidestKnown, Sane, LiveClasses, LiveSessions,
                LiveSignups, Rows
  <1>2. ASSUME NEW c \in Clients, VisitorArrival(c) \/ ModeratorArrival(c) \/ Continue(c)
        PROVE  Inv'
    <2>1. CASE VisitorArrival(c)
      BY <2>1, VisitorReads
    <2>2. CASE ModeratorArrival(c)
      BY <2>2, ModeratorReads, ClassWrites DEF ModeratorArrival
    <2>3. CASE Continue(c)
      BY <2>3, SignupReads, SignupWrites, RequestWrites, ClassWrites, ClassDeletes,
         SessionWrites, SessionDeletes, Answers DEF Continue
    <2>4. QED
      BY <1>2, <2>1, <2>2, <2>3
  <1>3. QED
    BY <1>1, <1>2 DEF Next

LEMMA ClassesInv == Spec => []Inv
  BY InvInit, InvStep, PTL DEF Spec

\* Every row and every request in flight is of its type.
THEOREM ClassesTypeOK == Spec => []TypeOK
  <1>1. Inv => TypeOK
    BY DEF Inv
  <1>2. QED
    BY <1>1, ClassesInv, PTL

\* No deletion leaves a session, a signup or a request that points at a row
\* that is gone, whatever it races.
THEOREM ClassesNoOrphans == Spec => []NoOrphans
  <1>1. Inv => NoOrphans
    BY DEF Inv
  <1>2. QED
    BY <1>1, ClassesInv, PTL
\* A step moves one request.
LEMMA OthersStay ==
    ASSUME Inv, NEW d \in Clients, VisitorArrival(d) \/ ModeratorArrival(d) \/ Continue(d),
           NEW c \in Clients, c # d
    PROVE  req'[c] = req[c]
  <1>1. ASSUME \E code : Answer(d, code) PROVE req'[c] = req[c]
    BY <1>1 DEF Answer, Inv, TypeOK
  <1>2. ASSUME \E q : Goto(d, q) PROVE req'[c] = req[c]
    BY <1>2 DEF Goto, Inv, TypeOK
  <1>3. CASE VisitorArrival(d)
    BY <1>1, <1>2, <1>3 DEF VisitorArrival, SignupReadClass, SignupByBot, RequestReadClass
  <1>4. CASE ModeratorArrival(d)
    BY <1>1, <1>2, <1>4 DEF ModeratorArrival, CreateClass, UpdateClass, DeleteClass, CreateSession,
                            UpdateSession, DeleteSession, LoadClass, LoadSession
  <1>5. CASE Continue(d)
    <2>1. CASE \/ SignupReadSession(d) \/ SignupCount(d) \/ SignupCommit(d) \/ SignupMail(d)
               \/ RequestCommit(d) \/ RequestMail(d) \/ TaskStops(d)
      BY <1>1, <1>2, <2>1 DEF SignupReadSession, SignupCount, SignupCommit, SignupMail,
                              RequestCommit, RequestMail, TaskStops
    <2>2. CASE ClassCommit(d) \/ DeadlockAborts(d) \/ ClassDelete(d) \/ ClassRefresh(d)
      BY <1>1, <1>2, <2>2 DEF ClassCommit, DeadlockAborts, ClassDelete, ClassRefresh
    <2>3. CASE SessionInsert(d) \/ SessionCommit(d) \/ SessionDelete(d) \/ SessionRefresh(d)
      BY <1>1, <1>2, <2>3 DEF SessionInsert, SessionCommit, SessionDelete, SessionRefresh
    <2>4. QED
      BY <1>5, <2>1, <2>2, <2>3 DEF Continue
  <1>6. QED
    BY <1>3, <1>4, <1>5

\* A request that waits to commit either does so or dies with its task.
LEMMA Committing ==
    ASSUME Inv, NEW d \in Clients, VisitorArrival(d) \/ ModeratorArrival(d) \/ Continue(d),
           NEW c \in Clients, req'[c].at # req[c].at, req'[c].at # "idle",
           req[c].at \in {"signup_commit", "session_commit"}
    PROVE  /\ req[c].at = "signup_commit" => SignupCommit(c)
           /\ req[c].at = "session_commit" => SessionCommit(c)
  <1>1. c = d
    BY OthersStay
  <1>2. ~VisitorArrival(c) /\ ~ModeratorArrival(c)
    BY DEF VisitorArrival, SignupReadClass, SignupByBot, RequestReadClass, ModeratorArrival,
           CreateClass, UpdateClass, DeleteClass, CreateSession, UpdateSession, DeleteSession,
           LoadClass, LoadSession
  <1>3. ~TaskStops(c)
    <2>1. SUFFICES ASSUME Goto(c, Idle) PROVE FALSE
      BY DEF TaskStops
    <2>2. QED
      BY <2>1, IdleIsSane DEF Goto, Inv, TypeOK
  <1>4. QED
    BY <1>1, <1>2, <1>3
       DEF Continue, SignupReadSession, SignupCount, SignupMail, RequestCommit, RequestMail,
           ClassCommit, DeadlockAborts, ClassDelete, ClassRefresh, SessionInsert, SessionDelete,
           SessionRefresh, SignupCommit, SessionCommit

\* A signup lands on the roster of the class whose page it was made on.
THEOREM ClassesRosterMatchesPage == Spec => RosterMatchesPage
  <1> DEFINE Right(c, u) ==
        (req[c].at = "signup_commit" /\ req'[c].at = "signup_mail" /\ req'[c].uid = u)
        => sessions[signups'[u].session].class = req[c].cid
  <1>1. Inv /\ [Next]_vars => [\A c \in Clients, u \in SignupIds : Right(c, u)]_vars
    <2> SUFFICES ASSUME Inv, Next, NEW c \in Clients, NEW u \in SignupIds,
                        req[c].at = "signup_commit", req'[c].at = "signup_mail", req'[c].uid = u
                 PROVE  sessions[signups'[u].session].class = req[c].cid
      OBVIOUS
    <2>1. SignupCommit(c)
      BY Committing DEF Next
    <2>2. PICK v \in SignupIds :
            /\ req[c].sid \in LiveSessions
            /\ signups' = [signups EXCEPT ![v] = [session |-> req[c].sid, party |-> req[c].party,
                                                  status |-> req[c].status]]
            /\ Goto(c, [Idle EXCEPT !.at = "signup_mail", !.uid = v])
      <3>1. ~Answer(c, "500")
        BY IdleIsSane DEF Answer, Inv, TypeOK
      <3>2. QED
        BY <2>1, <3>1 DEF SignupCommit
    <2>3. v = u
      <3>1. req'[c] = [Idle EXCEPT !.at = "signup_mail", !.uid = v]
        BY <2>2 DEF Goto, Inv, TypeOK
      <3>2. QED
        BY <3>1 DEF Idle
    <2>4. signups'[u].session = req[c].sid
      BY <2>2, <2>3 DEF Inv, TypeOK
    <2>5. sessions[req[c].sid] # Deleted /\ Sane(req[c])
      BY <2>2 DEF LiveSessions, Rows, Inv
    <2>6. QED
      BY <2>4, <2>5 DEF Sane
  <1>2. QED
    BY <1>1, ClassesInv, PTL DEF Spec, RosterMatchesPage

\* A stale form that leaves the status alone does not take back a cancellation
\* committed while it was in flight.
THEOREM ClassesCancellationSticks == Spec => CancellationSticks
  <1> DEFINE Stays(c, s) ==
        (/\ req[c].at = "session_commit" /\ req[c].sid = s /\ req[c].pay.status = req[c].seen.status
         /\ req'[c].at = "session_refresh")
        => sessions'[s].plan.status = sessions[s].plan.status
  <1>1. Inv /\ [Next]_vars => [\A c \in Clients, s \in LiveSessions : Stays(c, s)]_vars
    <2> SUFFICES ASSUME Inv, Next, NEW c \in Clients, NEW s \in LiveSessions,
                        req[c].at = "session_commit", req[c].sid = s,
                        req[c].pay.status = req[c].seen.status, req'[c].at = "session_refresh"
                 PROVE  sessions'[s].plan.status = sessions[s].plan.status
      OBVIOUS
    <2>1. SessionCommit(c)
      BY Committing DEF Next
    <2>2. sessions[s] \in Session /\ s \in SessionIds
      BY Same
    <2> DEFINE plan == ChangedColumns(sessions[s].plan, req[c].seen, req[c].pay)
    <2>3. plan.status = sessions[s].plan.status
      BY <2>2 DEF ChangedColumns, Session, Schedule
    <2>4. UNCHANGED sessions \/ sessions' = [sessions EXCEPT ![s].plan = plan]
      BY <2>1 DEF SessionCommit
    <2> HIDE DEF plan
    <2>5. ASSUME sessions' = [sessions EXCEPT ![s].plan = plan]
          PROVE  sessions'[s].plan = plan
      BY <2>2, <2>5 DEF Session, Inv, TypeOK
    <2>6. QED
      BY <2>3, <2>4, <2>5
  <1>2. QED
    BY <1>1, ClassesInv, PTL DEF Spec, CancellationSticks

\* A request is answered with a 500 only when the row that very request had found
\* is deleted under it, its publish to SNS fails, or it is one of several that
\* move classes to each other's slugs.
THEOREM ClassesErrorsNeedARace == Spec => ErrorsNeedARace
  <1> DEFINE Excuse(c) ==
        /\ req[c] # req'[c]
        /\ \/ req[c].at \in {"signup_mail", "request_mail"}
           \/ /\ req[c].at \in {"request_commit", "class_commit", "class_refresh",
                                "session_insert"}
              /\ classes[req[c].cid] = Deleted
           \/ /\ req[c].at \in {"signup_commit", "session_commit", "session_refresh"}
              /\ sessions[req[c].sid] = Deleted
           \/ \E d, e \in Clients : WaitsFor(c, d) /\ WaitsFor(e, c)
  <1>1. Inv /\ [Next]_vars =>
          [reply' = "500" => \E c \in Clients : Excuse(c)]_vars
    <2> SUFFICES ASSUME Inv, reply' = "500", NEW c \in Clients,
                        VisitorArrival(c) \/ ModeratorArrival(c) \/ Continue(c)
                 PROVE  Excuse(c)
      BY DEF Next
    <2>0. Sane(req[c])
      BY DEF Inv
    <2>1. (\A q : ~Goto(c, q)) /\ (\A code : Answer(c, code) => code = "500")
      BY DEF Goto, Answer
    <2>2. ~VisitorArrival(c)
      BY <2>1 DEF VisitorArrival, SignupReadClass, SignupByBot, RequestReadClass
    <2>3. ~ModeratorArrival(c)
      BY <2>1 DEF ModeratorArrival, CreateClass, UpdateClass, DeleteClass, CreateSession,
                  UpdateSession, DeleteSession, LoadClass, LoadSession
    <2>4. ~(SignupReadSession(c) \/ SignupCount(c) \/ TaskStops(c) \/ ClassDelete(c) \/ SessionDelete(c))
      BY <2>1 DEF SignupReadSession, SignupCount, TaskStops, ClassDelete, SessionDelete
    <2>5. CASE SignupMail(c) \/ RequestMail(c)
      <3>1. Answer(c, "500") /\ req[c].at \in {"signup_mail", "request_mail"}
        BY <2>1, <2>5 DEF SignupMail, RequestMail
      <3>2. QED
        BY <3>1, IdleIsSane DEF Answer, Inv, TypeOK
    <2>6. CASE SignupCommit(c) \/ SessionCommit(c) \/ SessionRefresh(c)
      <3>1. /\ Answer(c, "500") /\ req[c].sid \notin LiveSessions
            /\ req[c].at \in {"signup_commit", "session_commit", "session_refresh"}
        BY <2>1, <2>6 DEF SignupCommit, SessionCommit, SessionRefresh
      <3>2. req[c].sid \in SessionIds /\ sessions[req[c].sid] # Unborn
        BY <2>0, <3>1 DEF Sane
      <3>3. req[c] # req'[c]
        BY <3>1, IdleIsSane DEF Answer, Inv, TypeOK
      <3>4. QED
        BY <3>1, <3>2, <3>3, KeysAssumption DEF LiveSessions, Rows
    <2>7. CASE RequestCommit(c) \/ ClassCommit(c) \/ ClassRefresh(c) \/ SessionInsert(c)
      <3>1. /\ Answer(c, "500") /\ req[c].cid \notin LiveClasses
            /\ req[c].at \in {"request_commit", "class_commit", "class_refresh",
                              "session_insert"}
            /\ RequestCommit(c) => req[c].cid # Null
        BY <2>1, <2>7 DEF RequestCommit, ClassCommit, ClassRefresh, SessionInsert
      <3>2. req[c].cid \in ClassIds /\ classes[req[c].cid] # Unborn
        BY <2>0, <2>7, <3>1 DEF RequestCommit, ClassCommit, ClassRefresh, SessionInsert, Sane,
                                Inv, TypeOK, Locals
      <3>3. req[c] # req'[c]
        BY <3>1, IdleIsSane DEF Answer, Inv, TypeOK
      <3>4. QED
        BY <3>1, <3>2, <3>3, KeysAssumption DEF LiveClasses, Rows
    <2>8. CASE DeadlockAborts(c)
      <3>1. PICK D \in SUBSET Clients : \E next \in [D -> D] :
              c \in D /\ D = {next[d] : d \in D} /\ \A d \in D : WaitsFor(d, next[d])
        BY <2>8 DEF DeadlockAborts, Deadlocked
      <3>2. PICK next \in [D -> D] :
              c \in D /\ D = {next[d] : d \in D} /\ \A d \in D : WaitsFor(d, next[d])
        BY <3>1
      <3>3. PICK e \in D : next[e] = c
        BY <3>2
      <3>4. WaitsFor(c, next[c]) /\ WaitsFor(e, c) /\ next[c] \in Clients
        BY <3>2, <3>3
      <3>5. req[c] # req'[c]
        BY <2>8, IdleIsSane DEF DeadlockAborts, Answer, Inv, TypeOK
      <3>6. QED
        BY <3>4, <3>5
    <2>9. QED
      BY <2>2, <2>3, <2>4, <2>5, <2>6, <2>7, <2>8 DEF Continue
  <1>2. QED
    BY <1>1, ClassesInv, PTL DEF Spec, ErrorsNeedARace

------------------------------------------------------------------------------
(* Overbooking.  Seats and promised seats are counted as sets of pairs. *)

Slack == (Cardinality(Clients) - 1) * MaxParty

Bounded(s) ==
    widest[s] # Null => Cardinality(Seats(s)) + Cardinality(Promised(s)) <= widest[s] + Slack

\* One pair for each member of a party.
LEMMA PartySize ==
    ASSUME NEW x, NEW n \in 1..MaxParty
    PROVE  IsFiniteSet({x} \X (1..n)) /\ Cardinality({x} \X (1..n)) = n
  <1>1. n \in Nat /\ n >= 1
    BY Limits
  <1>2. IsFiniteSet(1..n) /\ Cardinality(1..n) = n
    BY <1>1, FS_Interval
  <1>3. IsFiniteSet({x}) /\ Cardinality({x}) = 1
    BY FS_Singleton
  <1>4. QED
    BY <1>1, <1>2, <1>3, FS_Product

\* What is counted is finite, and the parties of all the requests but one fit
\* the slack.
LEMMA Finite ==
    /\ IsFiniteSet(SignupIds \X (1..MaxParty))
    /\ IsFiniteSet(Clients \X (1..MaxParty))
    /\ \A c \in Clients : /\ IsFiniteSet((Clients \ {c}) \X (1..MaxParty))
                          /\ Cardinality((Clients \ {c}) \X (1..MaxParty)) = Slack
                          /\ Slack \in Nat
  <1>1. IsFiniteSet(1..MaxParty) /\ Cardinality(1..MaxParty) = MaxParty
    BY Limits, FS_Interval
  <1>2. IsFiniteSet(SignupIds \X (1..MaxParty)) /\ IsFiniteSet(Clients \X (1..MaxParty))
    BY <1>1, SizesAssumption, FS_Product
  <1>3. ASSUME NEW c \in Clients
        PROVE  /\ IsFiniteSet((Clients \ {c}) \X (1..MaxParty))
               /\ Cardinality((Clients \ {c}) \X (1..MaxParty)) = Slack
               /\ Slack \in Nat
    <2>1. IsFiniteSet(Clients \ {c}) /\ Cardinality(Clients \ {c}) = Cardinality(Clients) - 1
      BY SizesAssumption, FS_RemoveElement
    <2>2. /\ IsFiniteSet((Clients \ {c}) \X (1..MaxParty))
          /\ Cardinality((Clients \ {c}) \X (1..MaxParty)) = Slack
      BY <1>1, <2>1, FS_Product DEF Slack
    <2>3. QED
      BY <2>2, FS_CardinalityType
  <1>4. QED
    BY <1>2, <1>3

LEMMA Counted ==
    /\ \A S \in SUBSET (SignupIds \X (1..MaxParty)) : IsFiniteSet(S) /\ Cardinality(S) \in Nat
    /\ \A S \in SUBSET (Clients \X (1..MaxParty)) : IsFiniteSet(S) /\ Cardinality(S) \in Nat
  BY Finite, FS_Subset, FS_CardinalityType

LEMMA SeatsAndPromised ==
    \A s : /\ Seats(s) \in SUBSET (SignupIds \X (1..MaxParty))
           /\ Promised(s) \in SUBSET (Clients \X (1..MaxParty))
           /\ Seats(s)' \in SUBSET (SignupIds \X (1..MaxParty))
           /\ Promised(s)' \in SUBSET (Clients \X (1..MaxParty))
  BY DEF Seats, Promised

\* A session that sells and promises nothing more keeps its bound.
LEMMA StaysBounded ==
    ASSUME Inv, NEW s \in SessionIds, Bounded(s), widest' \in [SessionIds -> Nat \cup {Null}],
           widest'[s] # Null => widest[s] # Null /\ widest[s] <= widest'[s],
           Seats(s)' \subseteq Seats(s), Promised(s)' \subseteq Promised(s),
           NEW c \in Clients
    PROVE  Bounded(s)'
  <1>1. /\ Cardinality(Seats(s)) \in Nat /\ Cardinality(Promised(s)) \in Nat
        /\ IsFiniteSet(Seats(s)) /\ IsFiniteSet(Promised(s))
        /\ Cardinality(Seats(s)') \in Nat /\ Cardinality(Promised(s)') \in Nat
    BY SeatsAndPromised, Counted
  <1>2. Cardinality(Seats(s)') <= Cardinality(Seats(s))
    BY <1>1, FS_Subset
  <1>3. Cardinality(Promised(s)') <= Cardinality(Promised(s))
    BY <1>1, FS_Subset
  <1>4. Slack \in Nat
    BY Finite
  <1>5. widest'[s] # Null => widest[s] \in Nat /\ widest'[s] \in Nat
    BY DEF Inv, TypeOK
  <1>6. QED
    BY <1>1, <1>2, <1>3, <1>4, <1>5 DEF Bounded

\* A request that is not about to commit a signup promises nothing.
LEMMA NoPromise ==
    ASSUME Inv, NEW c \in Clients, NEW q, req' = [req EXCEPT ![c] = q],
           NEW s, q.at # "signup_commit" \/ q.sid # s \/ q.status # "registered"
    PROVE  Promised(s)' \subseteq Promised(s) \ ({c} \X (1..MaxParty))
  <1>1. req'[c] = q /\ \A d \in Clients \ {c} : req'[d] = req[d]
    BY DEF Inv, TypeOK
  <1>2. QED
    BY <1>1 DEF Promised

LEMMA AnswerPromisesNothing ==
    ASSUME Inv, NEW c \in Clients, \E code : Answer(c, code), NEW s
    PROVE  Promised(s)' \subseteq Promised(s)
  BY NoPromise, IdleIsSane DEF Answer

LEMMA GotoPromisesNothing ==
    ASSUME Inv, NEW c \in Clients, NEW q, Goto(c, q), q.at # "signup_commit", NEW s
    PROVE  Promised(s)' \subseteq Promised(s)
  BY NoPromise DEF Goto

\* The statements that touch neither sessions nor signups, and promise nothing.
LEMMA OutsideStep ==
    ASSUME Inv, NEW c \in Clients,
           \/ VisitorArrival(c) \/ ModeratorArrival(c)
           \/ SignupMail(c) \/ RequestCommit(c) \/ RequestMail(c) \/ ClassCommit(c)
           \/ ClassRefresh(c) \/ SessionRefresh(c) \/ DeadlockAborts(c) \/ TaskStops(c)
    PROVE  UNCHANGED <<sessions, signups, widest>> /\ \A s : Promised(s)' \subseteq Promised(s)
  <1>1. /\ \A code : Answer(c, code) => \A s : Promised(s)' \subseteq Promised(s)
        /\ \A q : Goto(c, q) /\ q.at # "signup_commit" => \A s : Promised(s)' \subseteq Promised(s)
    BY AnswerPromisesNothing, GotoPromisesNothing
  <1>2. CASE VisitorArrival(c)
    BY <1>1, <1>2 DEF VisitorArrival, SignupReadClass, SignupByBot, RequestReadClass, Idle, tables
  <1>3. CASE ModeratorArrival(c)
    <2>1. ASSUME NEW k \in ClassIds, NEW q, q.at # "signup_commit", LoadClass(c, k, q)
          PROVE  UNCHANGED <<sessions, signups, widest>> /\ \A s : Promised(s)' \subseteq Promised(s)
      BY <1>1, <2>1 DEF LoadClass, tables
    <2>2. ASSUME NEW t \in SessionIds, NEW q, q.at # "signup_commit", LoadSession(c, t, q)
          PROVE  UNCHANGED <<sessions, signups, widest>> /\ \A s : Promised(s)' \subseteq Promised(s)
      BY <1>1, <2>2 DEF LoadSession, tables
    <2>3. ASSUME NEW p \in Class, CreateClass(c, p)
          PROVE  UNCHANGED <<sessions, signups, widest>> /\ \A s : Promised(s)' \subseteq Promised(s)
      BY <1>1, <2>3 DEF CreateClass, Idle
    <2>4. /\ \A k \in ClassIds, p \in Class :
               [Idle EXCEPT !.at = "class_commit", !.cid = k, !.pay = p, !.seen = classes[k]].at
                 # "signup_commit"
          /\ \A k \in ClassIds : [Idle EXCEPT !.at = "class_delete", !.cid = k].at # "signup_commit"
          /\ \A k \in ClassIds, p \in Schedule :
               [Idle EXCEPT !.at = "session_insert", !.cid = k, !.pay = p].at # "signup_commit"
          /\ \A s \in SessionIds, p \in Schedule :
               [Idle EXCEPT !.at = "session_commit", !.sid = s, !.pay = p,
                            !.seen = sessions[s].plan].at # "signup_commit"
          /\ \A s \in SessionIds : [Idle EXCEPT !.at = "session_delete", !.sid = s].at # "signup_commit"
      BY DEF Idle
    <2>5. QED
      BY <1>3, <2>1, <2>2, <2>3, <2>4 DEF ModeratorArrival, UpdateClass, DeleteClass, CreateSession,
                                          UpdateSession, DeleteSession
  <1>4. CASE \/ SignupMail(c) \/ RequestMail(c) \/ ClassRefresh(c) \/ SessionRefresh(c)
             \/ DeadlockAborts(c) \/ TaskStops(c)
    BY <1>1, <1>4, IdleIsSane DEF SignupMail, RequestMail, ClassRefresh, SessionRefresh,
                                  DeadlockAborts, TaskStops, tables
  <1>5. CASE RequestCommit(c)
    BY <1>1, <1>5 DEF RequestCommit, Idle
  <1>6. CASE ClassCommit(c)
    BY <1>1, <1>6 DEF ClassCommit, Idle
  <1>7. QED
    BY <1>2, <1>3, <1>4, <1>5, <1>6

\* Deletions only give seats back.
LEMMA DeletesBounded ==
    ASSUME Inv, OverbookingBounded, NEW c \in Clients, ClassDelete(c) \/ SessionDelete(c)
    PROVE  OverbookingBounded'
  <1>1. UNCHANGED widest /\ Answer(c, "ok")
    BY DEF ClassDelete, SessionDelete
  <1>2. /\ LiveSessions' \subseteq LiveSessions
        /\ \A u \in LiveSignups' : u \in LiveSignups /\ signups'[u] = signups[u]
    <2>1. CASE ClassDelete(c)
      <3>1. /\ \A s \in SessionIds : sessions'[s] \in {Deleted, sessions[s]}
            /\ \A u \in SignupIds : signups'[u] \in {Deleted, signups[u]}
        BY <2>1 DEF ClassDelete
      <3>2. QED
        BY <3>1 DEF LiveSessions, LiveSignups, Rows
    <2>2. CASE SessionDelete(c)
      <3>1. /\ \A s \in SessionIds : sessions'[s] \in {Deleted, sessions[s]}
            /\ \A u \in SignupIds : signups'[u] \in {Deleted, signups[u]}
        BY <2>2 DEF SessionDelete, Inv, TypeOK
      <3>2. QED
        BY <3>1 DEF LiveSessions, LiveSignups, Rows
    <2>3. QED
      BY <2>1, <2>2
  <1>3. ASSUME NEW s \in LiveSessions'
        PROVE  Bounded(s)'
    <2>1. s \in LiveSessions /\ s \in SessionIds /\ Bounded(s)
      BY <1>2, Same DEF OverbookingBounded, Bounded, Slack
    <2>2. Seats(s)' \subseteq Seats(s)
      BY <1>2 DEF Seats
    <2>3. Promised(s)' \subseteq Promised(s)
      BY <1>1, AnswerPromisesNothing
    <2>4. QED
      BY <1>1, <2>1, <2>2, <2>3, Same, StaysBounded DEF Inv, TypeOK
  <1>4. QED
    BY <1>3 DEF OverbookingBounded, Bounded, Slack

\* A new session has sold nothing, and an edited one not more than before.
LEMMA SchedulesBounded ==
    ASSUME Inv, OverbookingBounded, NEW c \in Clients, SessionInsert(c) \/ SessionCommit(c)
    PROVE  OverbookingBounded'
  <1>0. Inv'
    BY SessionWrites
  <1>1. /\ UNCHANGED signups /\ \A s : Seats(s)' = Seats(s)
        /\ \A s : Promised(s)' \subseteq Promised(s)
    <2>1. UNCHANGED signups
      BY DEF SessionInsert, SessionCommit
    <2>2. \A s \in SessionIds :
            [Idle EXCEPT !.at = "session_refresh", !.sid = s].at # "signup_commit"
      BY DEF Idle
    <2>3. (\E code : Answer(c, code))
          \/ \E s : Goto(c, [Idle EXCEPT !.at = "session_refresh", !.sid = s])
      BY DEF SessionInsert, SessionCommit
    <2>4. \A s : [Idle EXCEPT !.at = "session_refresh", !.sid = s].at # "signup_commit"
      BY DEF Idle
    <2>5. QED
      BY <2>1, <2>3, <2>4, AnswerPromisesNothing, GotoPromisesNothing
         DEF Seats, LiveSignups, Rows
  <1>2. \A s \in SessionIds : widest'[s] # Null => widest[s] # Null /\ widest[s] <= widest'[s]
    <2>1. CASE UNCHANGED widest
      BY <2>1, Same
    <2>2. ASSUME NEW s \in SessionIds, NEW limit \in Capacities \cup {Null}, Widen(s, limit)
          PROVE  \A t \in SessionIds : widest'[t] # Null => widest[t] # Null /\ widest[t] <= widest'[t]
      BY <2>2, WidenKnows
    <2>3. Sane(req[c])
      BY DEF Inv
    <2>4. CASE SessionInsert(c)
      <3>1. req[c].pay.capacity \in Capacities \cup {Null}
        BY <2>3, <2>4 DEF SessionInsert, Sane, Schedule
      <3>2. QED
        BY <2>1, <2>2, <2>4, <3>1 DEF SessionInsert
    <2>5. CASE SessionCommit(c)
      <3> DEFINE plan == ChangedColumns(sessions[req[c].sid].plan, req[c].seen, req[c].pay)
      <3>1. req[c].sid \in LiveSessions => plan.capacity \in Capacities \cup {Null}
        BY <2>3, <2>5, Same DEF SessionCommit, Sane, ChangedColumns, Session, Schedule
      <3>2. UNCHANGED widest \/ (req[c].sid \in LiveSessions /\ Widen(req[c].sid, plan.capacity))
        BY <2>5 DEF SessionCommit
      <3> HIDE DEF plan
      <3>3. QED
        BY <2>1, <2>2, <3>1, <3>2, Same
    <2>6. QED
      BY <2>4, <2>5
  <1>3. ASSUME NEW s \in LiveSessions'
        PROVE  Bounded(s)'
    <2>0. s \in SessionIds
      BY DEF LiveSessions, Rows
    <2>1. CASE s \in LiveSessions
      <3>1. Bounded(s)
        BY <2>1 DEF OverbookingBounded, Bounded, Slack
      <3>2. QED
        BY <1>0, <1>1, <1>2, <2>0, <3>1, StaysBounded DEF Inv, TypeOK
    <2>2. CASE s \notin LiveSessions
      <3>1. sessions[s] = Unborn
        <4>1. sessions'[s] # Deleted /\ \A t \in SessionIds : sessions[t] = Deleted => sessions'[t] = Deleted
          BY KeysAssumption DEF LiveSessions, Rows, SessionInsert, SessionCommit, Inv, TypeOK
        <4>2. QED
          BY <2>0, <2>2, <4>1 DEF LiveSessions, Rows
      <3>2. Seats(s) = {} /\ Promised(s) = {}
        <4>1. Seats(s) = {}
          BY <2>2 DEF Seats, Inv, NoOrphans
        <4>2. \A d \in Clients : req[d].at = "signup_commit" => req[d].sid # s
          BY <3>1 DEF Inv, Sane
        <4>3. QED
          BY <4>1, <4>2 DEF Promised
      <3>3. Seats(s)' = {} /\ Promised(s)' = {}
        BY <1>1, <3>2
      <3>4. Slack \in Nat /\ widest'[s] \in Nat \cup {Null}
        BY <1>0, <2>0, Finite DEF Inv, TypeOK
      <3>5. Cardinality(Seats(s)') = 0 /\ Cardinality(Promised(s)') = 0
        BY <3>3, FS_EmptySet
      <3>6. QED
        BY <3>4, <3>5 DEF Bounded
    <2>3. QED
      BY <2>1, <2>2
  <1>4. QED
    BY <1>3 DEF OverbookingBounded, Bounded, Slack

\* A session without a capacity is not counted, and was unlimited once.
LEMMA ReadBounded ==
    ASSUME Inv, OverbookingBounded, NEW c \in Clients, SignupReadSession(c)
    PROVE  OverbookingBounded'
  <1>0. req[c] \in Locals
    BY DEF Inv, TypeOK
  <1>1. UNCHANGED <<classes, sessions, signups, requests, widest>>
    BY DEF SignupReadSession, tables
  <1>2. ASSUME NEW s \in LiveSessions
        PROVE  Promised(s)' \subseteq Promised(s) \/ widest[s] = Null
    <2> DEFINE t == req[c].sid
               limit == sessions[t].plan.capacity
               q == [req[c] EXCEPT !.at = IF limit = Null THEN "signup_commit" ELSE "signup_count",
                                   !.limit = limit]
    <2>1. CASE Answer(c, "404")
      BY <2>1, AnswerPromisesNothing
    <2>2. CASE t \in LiveSessions /\ Goto(c, q)
      <3>1. q.sid = t /\ (q.at = "signup_commit" => limit = Null)
        BY <1>0 DEF Locals
      <3>2. limit = Null => widest[t] = Null
        BY <2>2 DEF Inv, WidestKnown
      <3> HIDE DEF q, limit, t
      <3>3. QED
        BY <2>2, <3>1, <3>2, NoPromise DEF Goto
    <2>3. QED
      BY <2>1, <2>2 DEF SignupReadSession
  <1>3. ASSUME NEW s \in LiveSessions'
        PROVE  Bounded(s)'
    <2>1. s \in LiveSessions /\ s \in SessionIds
      BY <1>1 DEF LiveSessions, Rows
    <2>2. Bounded(s) /\ Seats(s)' = Seats(s)
      BY <1>1, <2>1 DEF OverbookingBounded, Bounded, Slack, Seats, LiveSignups, Rows
    <2>3. CASE widest[s] = Null
      BY <1>1, <2>3 DEF Bounded
    <2>4. CASE Promised(s)' \subseteq Promised(s)
      BY <1>1, <2>1, <2>2, <2>4, Same, StaysBounded DEF Inv, TypeOK
    <2>5. QED
      BY <1>2, <2>1, <2>3, <2>4
  <1>4. QED
    BY <1>3 DEF OverbookingBounded, Bounded, Slack

\* A signup that is registered fits the limit with what it counted; what was
\* not counted is at most a party for each other request.
LEMMA CountBounded ==
    ASSUME Inv, OverbookingBounded, NEW c \in Clients, SignupCount(c)
    PROVE  OverbookingBounded'
  <1>a. PICK t : t = req[c].sid
    OBVIOUS
  <1>b. PICK n : n = req[c].party
    OBVIOUS
  <1> DEFINE taken == Cardinality(Seats(t))
             status == IF taken + n > req[c].limit THEN "waitlisted" ELSE "registered"
             q == [req[c] EXCEPT !.at = "signup_commit", !.limit = Null, !.status = status]
  <1>0. req[c] \in Locals /\ Sane(req[c]) /\ req[c].at = "signup_count"
    BY DEF Inv, TypeOK, SignupCount
  <1>1. UNCHANGED <<classes, sessions, signups, requests, widest>> /\ Goto(c, q)
    BY <1>a, <1>b DEF SignupCount, tables
  <1>2. q.sid = t /\ q.status = status /\ q.party = n
    BY <1>0, <1>a, <1>b DEF Locals
  <1>3. \A s : Seats(s)' = Seats(s)
    BY <1>1 DEF Seats, LiveSignups, Rows
  <1>4. ASSUME NEW s \in LiveSessions, s # t \/ status = "waitlisted"
        PROVE  Bounded(s)'
    <2>1. Promised(s)' \subseteq Promised(s)
      <3> HIDE DEF q, status
      <3>1. q.sid # s \/ q.status # "registered"
        BY <1>2, <1>4
      <3>2. QED
        BY <1>1, <3>1, NoPromise DEF Goto
    <2>2. Bounded(s) /\ s \in SessionIds
      BY Same DEF OverbookingBounded, Bounded, Slack
    <2>3. QED
      BY <1>1, <1>3, <2>1, <2>2, Same, StaysBounded DEF Inv, TypeOK
  <1>5. ASSUME t \in LiveSessions, status = "registered", widest[t] # Null
        PROVE  Bounded(t)'
    <2>1. /\ n \in 1..MaxParty /\ n \in Nat /\ req[c].limit \in Nat /\ widest[t] \in Nat
          /\ req[c].limit <= widest[t] /\ t \in SessionIds
      <3>1. n \in 1..MaxParty /\ t \in SessionIds /\ req[c].limit \in Capacities
        BY <1>0, <1>a, <1>b DEF Sane
      <3>2. widest[t] \in Nat /\ req[c].limit <= widest[t]
        BY <1>0, <1>5, <1>a, <3>1 DEF Sane, Inv, TypeOK
      <3>3. n \in Nat
        BY <3>1, Limits
      <3>4. req[c].limit \in Nat
        BY <3>1, Limits
      <3>5. QED
        BY <3>1, <3>2, <3>3, <3>4
    <2>2. taken + n <= req[c].limit
      <3>1. taken \in Nat
        BY SeatsAndPromised, Counted
      <3> HIDE DEF taken
      <3>2. QED
        BY <1>5, <2>1, <3>1
    <2> DEFINE others == (Clients \ {c}) \X (1..MaxParty)
               mine == {c} \X (1..n)
    <2>3. Promised(t)' \subseteq others \cup mine
      <3>1. req'[c] = q
        BY <1>1 DEF Goto, Inv, TypeOK
      <3>2. req'[c].party = n
        BY <1>2, <3>1
      <3> HIDE DEF q
      <3>3. QED
        BY <3>2, <2>1 DEF Promised
    <2>4. IsFiniteSet(others) /\ Cardinality(others) = Slack /\ Slack \in Nat
      BY Finite
    <2>5. IsFiniteSet(mine) /\ Cardinality(mine) = n
      BY <2>1, PartySize
    <2>6. IsFiniteSet(others \cup mine) /\ Cardinality(others \cup mine) <= Slack + n
      <3>1. others \cap mine = {}
        OBVIOUS
      <3>2. Cardinality(others \cap mine) = 0
        BY <3>1, FS_EmptySet
      <3> HIDE DEF others, mine
      <3>3. /\ IsFiniteSet(others \cup mine)
            /\ Cardinality(others \cup mine)
                 = Cardinality(others) + Cardinality(mine) - Cardinality(others \cap mine)
        BY <2>4, <2>5, FS_Union
      <3>4. QED
        BY <2>1, <2>4, <2>5, <3>2, <3>3
    <2>7. Cardinality(Promised(t)') <= Slack + n
      <3>1. Cardinality(Promised(t)') <= Cardinality(others \cup mine)
        BY <2>3, <2>6, FS_Subset
      <3>2. Cardinality(Promised(t)') \in Nat /\ Cardinality(others \cup mine) \in Nat
        BY <2>6, SeatsAndPromised, Counted, FS_CardinalityType
      <3> HIDE DEF others, mine
      <3>3. QED
        BY <2>1, <2>4, <2>6, <3>1, <3>2
    <2>8. Cardinality(Seats(t)') = taken /\ taken \in Nat /\ Cardinality(Promised(t)') \in Nat
      BY <1>3, SeatsAndPromised, Counted
    <2>9. widest'[t] = widest[t]
      BY <1>1
    <2> HIDE DEF taken
    <2>10. QED
      BY <2>1, <2>2, <2>4, <2>7, <2>8, <2>9 DEF Bounded
  <1>6. ASSUME NEW s \in LiveSessions'
        PROVE  Bounded(s)'
    <2>1. s \in LiveSessions
      BY <1>1 DEF LiveSessions, Rows
    <2>2. CASE widest[s] = Null
      BY <1>1, <2>2 DEF Bounded
    <2>3. CASE widest[s] # Null /\ s = t /\ status = "registered"
      BY <1>5, <2>1, <2>3
    <2>4. CASE s # t \/ status = "waitlisted"
      BY <1>4, <2>1, <2>4
    <2>5. QED
      BY <2>2, <2>3, <2>4
  <1>7. QED
    BY <1>6 DEF OverbookingBounded, Bounded, Slack

\* A commit turns the seats it promised into seats taken.
LEMMA CommitBounded ==
    ASSUME Inv, OverbookingBounded, NEW c \in Clients, SignupCommit(c)
    PROVE  OverbookingBounded'
  <1>a. PICK t : t = req[c].sid
    OBVIOUS
  <1>b. PICK n : n = req[c].party
    OBVIOUS
  <1> DEFINE row == [session |-> t, party |-> n, status |-> req[c].status]
  <1>0. /\ req \in [Clients -> Locals] /\ Sane(req[c]) /\ req[c].at = "signup_commit"
        /\ n \in 1..MaxParty /\ n \in Nat
    <2>1. req \in [Clients -> Locals] /\ Sane(req[c]) /\ req[c].at = "signup_commit"
      BY DEF Inv, TypeOK, SignupCommit
    <2>2. n \in 1..MaxParty
      BY <1>b, <2>1 DEF Sane
    <2>3. QED
      BY <2>1, <2>2, Limits
  <1>1. UNCHANGED <<classes, sessions, requests, widest>>
    BY DEF SignupCommit
  <1>2. ASSUME NEW s \in LiveSessions, Seats(s)' \subseteq Seats(s), Promised(s)' \subseteq Promised(s)
        PROVE  Bounded(s)'
    <2>1. Bounded(s) /\ s \in SessionIds
      BY Same DEF OverbookingBounded, Bounded, Slack
    <2>2. QED
      BY <1>1, <1>2, <2>1, Same, StaysBounded DEF Inv, TypeOK
  <1>3. CASE Answer(c, "500") /\ UNCHANGED signups
    <2>1. \A s : Seats(s)' = Seats(s) /\ Promised(s)' \subseteq Promised(s)
      BY <1>3, AnswerPromisesNothing DEF Seats, LiveSignups, Rows
    <2>2. LiveSessions' = LiveSessions
      BY <1>1 DEF LiveSessions, Rows
    <2>3. QED
      BY <1>2, <2>1, <2>2 DEF OverbookingBounded, Bounded, Slack
  <1>4. ASSUME NEW u \in SignupIds, signups[u] = Unborn, signups' = [signups EXCEPT ![u] = row],
               Goto(c, [Idle EXCEPT !.at = "signup_mail", !.uid = u])
        PROVE  OverbookingBounded'
    <2> DEFINE q == [Idle EXCEPT !.at = "signup_mail", !.uid = u]
               sold == {u} \X (1..n)
               kept == {c} \X (1..n)
    <2>1. q.at # "signup_commit"
      BY DEF Idle
    <2>2. \A s : Promised(s)' \subseteq Promised(s) \ ({c} \X (1..MaxParty))
      <3> HIDE DEF q
      <3>1. req' = [req EXCEPT ![c] = q]
        BY <1>4 DEF Goto, q
      <3>2. QED
        BY <2>1, <3>1, NoPromise
    <2>3. /\ signups'[u] = row /\ \A v \in SignupIds \ {u} : signups'[v] = signups[v]
          /\ u \notin LiveSignups
          /\ LiveSignups' \subseteq LiveSignups \cup {u}
      BY <1>4 DEF Inv, TypeOK, LiveSignups, Rows
    <2>4. row.session = t /\ row.party = n /\ row.status = req[c].status
      OBVIOUS
    <2> HIDE DEF row, q
    <2>5. ASSUME NEW s, s # t \/ req[c].status # "registered"
          PROVE  Seats(s)' \subseteq Seats(s)
      BY <2>3, <2>4, <2>5 DEF Seats
    <2>6. ASSUME t \in LiveSessions, req[c].status = "registered"
          PROVE  Bounded(t)'
      <3>1. Seats(t)' \subseteq Seats(t) \cup sold
        BY <1>0, <2>3, <2>4 DEF Seats
      <3>2. kept \subseteq Promised(t) /\ Promised(t)' \subseteq Promised(t) \ kept
        <4>1. 1..n \subseteq 1..MaxParty
          BY <1>0, Limits
        <4>2. kept \subseteq Promised(t)
          BY <1>0, <1>a, <1>b, <2>6, <4>1 DEF Promised
        <4>3. kept \subseteq {c} \X (1..MaxParty)
          BY <4>1
        <4> HIDE DEF kept
        <4>4. QED
          BY <2>2, <4>2, <4>3
      <3>3. IsFiniteSet(sold) /\ Cardinality(sold) = n /\ IsFiniteSet(kept) /\ Cardinality(kept) = n
        BY <1>0, PartySize
      <3>4. /\ IsFiniteSet(Seats(t)) /\ IsFiniteSet(Promised(t))
            /\ Cardinality(Seats(t)) \in Nat /\ Cardinality(Promised(t)) \in Nat
            /\ Cardinality(Seats(t)') \in Nat /\ Cardinality(Promised(t)') \in Nat
        BY SeatsAndPromised, Counted
      <3> HIDE DEF sold, kept
      <3>5. Cardinality(Seats(t)') <= Cardinality(Seats(t)) + n
        <4>1. /\ IsFiniteSet(Seats(t) \cup sold)
              /\ Cardinality(Seats(t) \cup sold)
                   = Cardinality(Seats(t)) + n - Cardinality(Seats(t) \cap sold)
          BY <3>3, <3>4, FS_Union
        <4>2. Cardinality(Seats(t)') <= Cardinality(Seats(t) \cup sold)
          BY <3>1, <4>1, FS_Subset
        <4>3. Cardinality(Seats(t) \cap sold) \in Nat
          <5>1. IsFiniteSet(Seats(t) \cap sold)
            BY <3>4, FS_Subset
          <5>2. QED
            BY <5>1, FS_CardinalityType
        <4>4. QED
          BY <1>0, <3>4, <4>1, <4>2, <4>3
      <3>6. Cardinality(Promised(t)') <= Cardinality(Promised(t)) - n
        <4>1. /\ IsFiniteSet(Promised(t) \ kept)
              /\ Cardinality(Promised(t) \ kept)
                   = Cardinality(Promised(t)) - Cardinality(Promised(t) \cap kept)
          BY <3>4, FS_Difference
        <4>2. Promised(t) \cap kept = kept
          BY <3>2
        <4>3. Cardinality(Promised(t)') <= Cardinality(Promised(t) \ kept)
          BY <3>2, <4>1, FS_Subset
        <4>4. QED
          BY <1>0, <3>3, <3>4, <4>1, <4>2, <4>3
      <3>7. Bounded(t) /\ (widest[t] # Null => widest[t] \in Nat) /\ widest'[t] = widest[t]
        BY <1>1, <2>6, Same DEF OverbookingBounded, Bounded, Slack, Inv, TypeOK
      <3>8. Slack \in Nat
        BY Finite
      <3>9. QED
        BY <1>0, <3>4, <3>5, <3>6, <3>7, <3>8 DEF Bounded
    <2>7. ASSUME NEW s \in LiveSessions' PROVE Bounded(s)'
      <3>1. s \in LiveSessions
        BY <1>1 DEF LiveSessions, Rows
      <3>2. CASE s = t /\ req[c].status = "registered"
        BY <2>6, <3>1, <3>2
      <3>3. CASE s # t \/ req[c].status # "registered"
        BY <1>2, <2>2, <2>5, <3>1, <3>3
      <3>4. QED
        BY <3>2, <3>3
    <2>8. QED
      BY <2>7 DEF OverbookingBounded, Bounded, Slack
  <1>5. QED
    BY <1>3, <1>4, <1>a, <1>b DEF SignupCommit

\* A session is never sold beyond the largest limit it ever had by more than
\* the parties of the other signups that were in flight with one.
THEOREM ClassesOverbookingBounded == Spec => []OverbookingBounded
  <1>1. Init => OverbookingBounded
    BY DEF Init, OverbookingBounded, LiveSessions, Rows
  <1>2. Inv /\ OverbookingBounded /\ [Next]_vars => OverbookingBounded'
    <2> SUFFICES ASSUME Inv, OverbookingBounded, [Next]_vars
                 PROVE  OverbookingBounded'
      OBVIOUS
    <2>1. CASE UNCHANGED vars
      BY <2>1 DEF vars, OverbookingBounded, Seats, Promised, LiveSessions, LiveSignups, Rows
    <2>2. ASSUME NEW c \in Clients, VisitorArrival(c) \/ ModeratorArrival(c) \/ Continue(c)
          PROVE  OverbookingBounded'
      <3>1. ASSUME UNCHANGED <<sessions, signups, widest>>, \A s : Promised(s)' \subseteq Promised(s)
            PROVE  OverbookingBounded'
        <4>1. LiveSessions' = LiveSessions /\ \A s : Seats(s)' = Seats(s)
          BY <3>1 DEF LiveSessions, Seats, LiveSignups, Rows
        <4>2. ASSUME NEW s \in LiveSessions PROVE Bounded(s)'
          <5>1. Bounded(s) /\ s \in SessionIds
            BY Same DEF OverbookingBounded, Bounded, Slack
          <5>2. QED
            BY <3>1, <4>1, <5>1, Same, StaysBounded DEF Inv, TypeOK
        <4>3. QED
          BY <4>1, <4>2 DEF OverbookingBounded, Bounded, Slack
      <3>2. CASE \/ SignupReadSession(c) \/ SignupCount(c) \/ SignupCommit(c)
        BY <3>2, ReadBounded, CountBounded, CommitBounded
      <3>3. CASE ClassDelete(c) \/ SessionDelete(c)
        BY <3>3, DeletesBounded
      <3>4. CASE SessionInsert(c) \/ SessionCommit(c)
        BY <3>4, SchedulesBounded
      <3>5. QED
        BY <2>2, <3>1, <3>2, <3>3, <3>4, OutsideStep DEF Continue
    <2>3. QED
      BY <2>1, <2>2 DEF Next
  <1>3. QED
    BY <1>1, <1>2, ClassesInv, PTL DEF Spec

=============================================================================
