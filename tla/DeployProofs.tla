----------------------------- MODULE DeployProofs -----------------------------
(***************************************************************************)
(* Proofs about Deploy, for any number of operators, releases, migrations  *)
(* and upgrades in flight.                                                 *)
(***************************************************************************)
EXTENDS Deploy, TLAPS

\* The database has every migration of v, but for those of blind images.
Covered(v) ==
    \A m \in Migrations : m \in Files[v] => m \in schema \/ \E b \in blind : m \in Files[b]

Sane(o) ==
    /\ op[o].at # "idle" => op[o].sha \in Versions
    /\ op[o].at = "confirm" /\ ~op[o].migrate /\ op[o].running # Null => Covered(op[o].sha)
    /\ op[o].at = "confirm" /\ op[o].migrate => op[o].running # Null
    /\ op[o].at \in {"pin", "apply"} /\ op[o].running # Null => Covered(op[o].sha)
    /\ op[o].at = "apply" => tfvars[o] = op[o].sha
    /\ op[o].at \in {"wait", "ready"} => service = op[o].sha \/ op[o].overtaken
    /\ op[o].at \in {"confirm", "upgrading"} /\ op[o].diffed /\ op[o].migrate
       => op[o].running \in Versions /\ ~ Files[op[o].sha] \subseteq Files[op[o].running]
    /\ op[o].at = "upgrading" => op[o].migrate

\* An upgrade somebody waits for is the one of the deployment that waits.
Awaited ==
    \A u \in upgrades : u.by # Null => op[u.by].at = "upgrading" /\ op[u.by].sha = u.sha

CoveredImages ==
    /\ service # Null => Covered(service)
    /\ \A v \in tasks : Covered(v)

Inv == TypeOK /\ CoveredImages /\ Awaited /\ \A o \in Operators : Sane(o)

USE DeployAssumption

\* Initially nobody deploys and the schema is that of the running image.
LEMMA Initially == Init => Inv
<1> SUFFICES ASSUME Init PROVE Inv
  OBVIOUS
<1>1. TypeOK
  BY DEF Init, TypeOK, Idle, Script, Outcomes
<1>2. CoveredImages
  BY DEF Init, CoveredImages, Covered
<1>3. Awaited
  BY DEF Init, Awaited
<1>4. \A o \in Operators : Sane(o)
  BY DEF Init, Sane, Idle
<1> QED
  BY <1>1, <1>2, <1>3, <1>4 DEF Inv

\* What is covered stays so while the schema and the blind images only grow.
LEMMA Grows ==
    ASSUME schema \subseteq schema', blind \subseteq blind'
    PROVE  \A v \in Versions : Covered(v) => Covered(v)'
BY DEF Covered

\* A step of one deployment that gives its record q, and leaves the others'
\* records, the service and the upgrades awaited by others alone.
LEMMA OneMoves ==
    ASSUME Inv, NEW o \in Operators, NEW q \in Script,
           op' = [op EXCEPT ![o] = q],
           \A p \in Operators : p # o => tfvars'[p] = tfvars[p],
           service' = service, schema \subseteq schema', blind \subseteq blind'
    PROVE  /\ op' \in [Operators -> Script]
           /\ op'[o] = q
           /\ \A p \in Operators : p # o => op'[p] = op[p] /\ Sane(p)'
<1>1. op' \in [Operators -> Script] /\ op'[o] = q
  BY DEF Inv, TypeOK
<1>2. \A v \in Versions : Covered(v) => Covered(v)'
  BY Grows
<1> SUFFICES ASSUME NEW p \in Operators, p # o PROVE op'[p] = op[p] /\ Sane(p)'
  BY <1>1
<1>3. op'[p] = op[p] /\ Sane(p) /\ tfvars'[p] = tfvars[p]
  BY DEF Inv, TypeOK
<1>4. op[p].at # "idle" => op[p].sha \in Versions
  BY <1>3 DEF Sane
<1> QED
  BY <1>2, <1>3, <1>4 DEF Sane

\* What ECS and the schema's growth leave of the images that are covered.
LEMMA ImagesStay ==
    ASSUME Inv, schema \subseteq schema', blind \subseteq blind', service' = service,
           tasks' \subseteq tasks \cup (IF service = Null THEN {} ELSE {service})
    PROVE  CoveredImages'
<1>1. \A v \in Versions : Covered(v) => Covered(v)'
  BY Grows
<1>2. PICK s : s = service
  OBVIOUS
<1>3. s # Null => s \in Versions /\ Covered(s)
  BY <1>2 DEF Inv, TypeOK, CoveredImages
<1>4. \A v \in tasks : v \in Versions /\ Covered(v)
  BY DEF Inv, TypeOK, CoveredImages
<1>5. s # Null => Covered(s)'
  BY <1>1, <1>3
<1>6. \A v \in tasks' : Covered(v)'
  BY <1>1, <1>2, <1>3, <1>4
<1>7. service' = s
  BY <1>2
<1> QED
  BY <1>5, <1>6, <1>7 DEF CoveredImages, Covered

------------------------------------------------------------------------------
(* One lemma for each step that is not a step of ECS *)

\* A deployment that is not waiting for a migration moves on, and no upgrade is
\* added: nobody else notices.
LEMMA MovesOn ==
    ASSUME Inv, NEW o \in Operators, NEW q \in Script,
           op[o].at # "upgrading",
           op' = [op EXCEPT ![o] = q],
           tfvars' \in [Operators -> Versions],
           \A p \in Operators : p # o => tfvars'[p] = tfvars[p],
           outcome' \in [what : Outcomes, sha : Versions \cup {Null}],
           UNCHANGED <<schema, service, tasks, upgrades, blind>>,
           Sane(o)'
    PROVE  Inv'
<1>1. /\ op' \in [Operators -> Script] /\ op'[o] = q
      /\ \A p \in Operators : p # o => op'[p] = op[p] /\ Sane(p)'
  BY OneMoves
<1>2. TypeOK'
  BY <1>1 DEF Inv, TypeOK
<1>3. CoveredImages'
  BY ImagesStay
<1>4. Awaited'
  BY <1>1 DEF Inv, Awaited, TypeOK
<1> QED
  BY <1>1, <1>2, <1>3, <1>4 DEF Inv

\* The script reads the running image and decides.
LEMMA StartKeeps ==
    ASSUME Inv, NEW o \in Operators, NEW sha \in Versions, NEW known \in BOOLEAN,
           NEW diffed \in BOOLEAN, Start(o, sha, known, diffed)
    PROVE  Inv'
<1>1. PICK r : r = IF known THEN service ELSE Null
  OBVIOUS
<1>2. StartFrom(o, sha, r, diffed)
  BY <1>1 DEF Start
<1>3. r \in Versions \cup {Null} /\ (r # Null => Covered(r))
  BY <1>1 DEF Inv, TypeOK, CoveredImages, Covered
<1>4. op[o].at = "idle" /\ op \in [Operators -> Script] /\ tfvars \in [Operators -> Versions]
  BY <1>2 DEF StartFrom, Inv, TypeOK
<1>5. CASE r = sha
  <2>1. /\ op' = op /\ outcome' = [what |-> "nothing", sha |-> sha]
        /\ tfvars' = [tfvars EXCEPT ![o] = sha]
        /\ UNCHANGED <<schema, service, tasks, upgrades, blind>>
    BY <1>2, <1>5 DEF StartFrom
  <2>2. op' = [op EXCEPT ![o] = op[o]] /\ op[o] \in Script
    BY <1>4, <2>1
  <2>3. Sane(o)'
    BY <1>4, <2>1 DEF Sane
  <2>4. outcome' \in [what : Outcomes, sha : Versions \cup {Null}]
    BY <2>1 DEF Outcomes
  <2>5. tfvars' \in [Operators -> Versions] /\ \A p \in Operators : p # o => tfvars'[p] = tfvars[p]
    BY <1>4, <2>1
  <2> QED
    BY <1>4, <2>1, <2>2, <2>3, <2>4, <2>5, MovesOn
<1>6. CASE r # sha
  <2> DEFINE q == [at |-> "confirm", sha |-> sha, running |-> r,
                   diffed |-> diffed /\ r # Null,
                   migrate |-> NeedsMigration(r, sha, diffed),
                   overtaken |-> FALSE]
  <2>1. /\ op' = [op EXCEPT ![o] = q] /\ outcome' = Silent /\ tfvars' = tfvars
        /\ UNCHANGED <<schema, service, tasks, upgrades, blind>>
    BY <1>2, <1>6 DEF StartFrom, Goto
  <2>2. q.migrate \in BOOLEAN /\ q.diffed \in BOOLEAN
    BY DEF NeedsMigration
  <2>3. q \in Script
    BY <1>3, <2>2 DEF Script
  <2>4. op'[o] = q
    BY <1>4, <2>1
  <2>5. /\ q.at = "confirm" /\ q.sha = sha /\ q.running = r
        /\ q.diffed => diffed /\ r # Null
        /\ q.migrate => NeedsMigration(r, sha, diffed)
        /\ NeedsMigration(r, sha, diffed) => q.migrate
    OBVIOUS
  <2> HIDE DEF q
  <2>6. \A v \in Versions : Covered(v) => Covered(v)'
    BY <2>1, Grows
  <2>7. ~ q.migrate /\ r # Null => Covered(sha)
    <3> SUFFICES ASSUME ~ q.migrate, r # Null PROVE Covered(sha)
      OBVIOUS
    <3>1. Files[sha] \subseteq Files[r]
      BY <2>5 DEF NeedsMigration
    <3> QED
      BY <1>3, <3>1 DEF Covered
  <2>8. q.diffed /\ q.migrate => r \in Versions /\ ~ Files[sha] \subseteq Files[r]
    BY <1>3, <2>5 DEF NeedsMigration
  <2>9. q.migrate => r # Null
    BY <2>5 DEF NeedsMigration
  <2>10. Sane(o)'
    BY <2>4, <2>5, <2>6, <2>7, <2>8, <2>9 DEF Sane
  <2>11. outcome' \in [what : Outcomes, sha : Versions \cup {Null}]
    BY <2>1 DEF Outcomes, Silent
  <2> QED
    BY <1>4, <2>1, <2>3, <2>10, <2>11, MovesOn
<1> QED
  BY <1>5, <1>6

\* The deployment goes on without a migration, pins its image, fails or waits.
LEMMA SkipUpgradeKeeps ==
    ASSUME Inv, NEW o \in Operators, SkipUpgrade(o)
    PROVE  Inv'
<1> DEFINE q == [op[o] EXCEPT !.at = "pin", !.diffed = FALSE]
<1>1. /\ op[o].at = "confirm" /\ ~op[o].migrate /\ op[o] \in Script /\ Sane(o)
      /\ op \in [Operators -> Script] /\ tfvars \in [Operators -> Versions]
      /\ op' = [op EXCEPT ![o] = q] /\ outcome' = Silent
      /\ UNCHANGED <<schema, service, tasks, upgrades, tfvars, blind>>
  BY DEF SkipUpgrade, Goto, Inv, TypeOK
<1>2. /\ q \in Script /\ q.at = "pin" /\ q.sha = op[o].sha /\ q.running = op[o].running
      /\ q.migrate = op[o].migrate
  BY <1>1 DEF Script
<1>3. op'[o] = q
  BY <1>1
<1> HIDE DEF q
<1>4. op[o].sha \in Versions /\ (q.running # Null => Covered(op[o].sha))
  BY <1>1, <1>2 DEF Sane
<1>5. PICK v : v = op[o].sha
  OBVIOUS
<1>6. q.running # Null => Covered(v)'
  BY <1>1, <1>4, <1>5, Grows
<1>7. Sane(o)'
  BY <1>1, <1>2, <1>3, <1>4, <1>5, <1>6 DEF Sane, Covered
<1>8. outcome' \in [what : Outcomes, sha : Versions \cup {Null}]
  BY <1>1 DEF Outcomes, Silent
<1> QED
  BY <1>1, <1>2, <1>7, <1>8, MovesOn

LEMMA PinTfvarsKeeps ==
    ASSUME Inv, NEW o \in Operators, PinTfvars(o)
    PROVE  Inv'
<1> DEFINE q == [op[o] EXCEPT !.at = "apply"]
<1>1. /\ op[o].at = "pin" /\ op[o] \in Script /\ Sane(o)
      /\ op \in [Operators -> Script] /\ tfvars \in [Operators -> Versions]
      /\ op' = [op EXCEPT ![o] = q] /\ outcome' = Silent
      /\ tfvars' = [tfvars EXCEPT ![o] = op[o].sha]
      /\ UNCHANGED <<schema, service, tasks, upgrades, blind>>
  BY DEF PinTfvars, Pin, Goto, Inv, TypeOK
<1>2. /\ q \in Script /\ q.at = "apply" /\ q.sha = op[o].sha /\ q.running = op[o].running
  BY <1>1 DEF Script
<1>3. op'[o] = q
  BY <1>1
<1> HIDE DEF q
<1>4. op[o].sha \in Versions /\ (q.running # Null => Covered(op[o].sha))
  BY <1>1, <1>2 DEF Sane
<1>5. PICK v : v = op[o].sha
  OBVIOUS
<1>6. q.running # Null => Covered(v)'
  BY <1>1, <1>4, <1>5, Grows
<1>7. /\ tfvars' \in [Operators -> Versions] /\ tfvars'[o] = v
      /\ \A p \in Operators : p # o => tfvars'[p] = tfvars[p]
  BY <1>1, <1>4, <1>5
<1>8. Sane(o)'
  BY <1>1, <1>2, <1>3, <1>4, <1>5, <1>6, <1>7 DEF Sane, Covered
<1>9. outcome' \in [what : Outcomes, sha : Versions \cup {Null}]
  BY <1>1 DEF Outcomes, Silent
<1> QED
  BY <1>1, <1>2, <1>7, <1>8, <1>9, MovesOn

LEMMA WaitStableKeeps ==
    ASSUME Inv, NEW o \in Operators, WaitStable(o)
    PROVE  Inv'
<1> DEFINE q == [op[o] EXCEPT !.at = "ready"]
<1>1. /\ op[o].at = "wait" /\ op[o] \in Script /\ Sane(o)
      /\ op \in [Operators -> Script] /\ tfvars \in [Operators -> Versions]
      /\ op' = [op EXCEPT ![o] = q] /\ outcome' = Silent
      /\ UNCHANGED <<schema, service, tasks, upgrades, tfvars, blind>>
  BY DEF WaitStable, Goto, Inv, TypeOK
<1>2. /\ q \in Script /\ q.at = "ready" /\ q.sha = op[o].sha /\ q.overtaken = op[o].overtaken
  BY <1>1 DEF Script
<1>3. op'[o] = q
  BY <1>1
<1> HIDE DEF q
<1>4. Sane(o)'
  BY <1>1, <1>2, <1>3 DEF Sane
<1>5. outcome' \in [what : Outcomes, sha : Versions \cup {Null}]
  BY <1>1 DEF Outcomes, Silent
<1> QED
  BY <1>1, <1>2, <1>4, <1>5, MovesOn

LEMMA EndsKeep ==
    ASSUME Inv, NEW o \in Operators, ApplyFails(o) \/ Report(o)
    PROVE  Inv'
<1>1. Idle \in Script /\ Idle.at = "idle"
  BY DEF Idle, Script
<1>2. /\ op[o].at # "upgrading" /\ op[o].at # "idle" /\ op[o] \in Script /\ Sane(o)
      /\ op \in [Operators -> Script] /\ tfvars \in [Operators -> Versions]
      /\ op' = [op EXCEPT ![o] = Idle]
      /\ outcome' = Silent \/ outcome' = [what |-> "deployed", sha |-> op[o].sha]
      /\ UNCHANGED <<schema, service, tasks, upgrades, tfvars, blind>>
  BY DEF ApplyFails, Report, Fail, Goto, Inv, TypeOK
<1>3. op'[o] = Idle
  BY <1>2
<1>4. Sane(o)'
  BY <1>1, <1>3 DEF Sane
<1>5. outcome' \in [what : Outcomes, sha : Versions \cup {Null}]
  BY <1>2 DEF Outcomes, Silent, Sane
<1> QED
  BY <1>1, <1>2, <1>4, <1>5, MovesOn

\* The image of the deployment that applies becomes the service's.
LEMMA ApplyKeeps ==
    ASSUME Inv, NEW o \in Operators, Apply(o)
    PROVE  Inv'
<1> DEFINE q == [op[o] EXCEPT !.at = "wait", !.running = Null]
<1>1. PICK v : v = op[o].sha
  OBVIOUS
<1>2. /\ op[o].at = "apply" /\ op[o] \in Script /\ Sane(o)
      /\ op \in [Operators -> Script] /\ tfvars \in [Operators -> Versions]
      /\ op[o].running \in Versions \cup {Null}
  BY DEF Apply, Inv, TypeOK, Script
<1>3. v \in Versions /\ tfvars[o] = v /\ (op[o].running # Null => Covered(v))
  BY <1>1, <1>2 DEF Sane
<1>4. /\ service' = v /\ outcome' = Silent
      /\ blind' = IF op[o].running = Null THEN blind \cup {v} ELSE blind
      /\ op' = [p \in Operators |->
                  IF p = o THEN q
                  ELSE IF op[p].at \in {"wait", "ready"} THEN [op[p] EXCEPT !.overtaken = TRUE]
                  ELSE op[p]]
      /\ UNCHANGED <<schema, tasks, upgrades, tfvars>>
  BY <1>1, <1>3 DEF Apply
<1>5. q \in Script /\ q.at = "wait" /\ q.sha = v
  BY <1>1, <1>2 DEF Script
<1> HIDE DEF q
<1>6. \A w \in Versions : Covered(w) => Covered(w)'
  BY <1>4, Grows
<1>7. Covered(v)'
  <2>1. CASE op[o].running = Null
    BY <1>4, <2>1 DEF Covered
  <2>2. CASE op[o].running # Null
    BY <1>3, <1>6, <2>2
  <2> QED
    BY <2>1, <2>2
<1>8. CoveredImages'
  <2>1. \A w \in tasks : w \in Versions /\ Covered(w)
    BY DEF Inv, TypeOK, CoveredImages
  <2>2. \A w \in tasks' : Covered(w)'
    BY <1>4, <1>6, <2>1
  <2> QED
    BY <1>4, <1>7, <2>2 DEF CoveredImages, Covered
<1>9. \A p \in Operators : op'[p] \in Script /\ Sane(p)'
  <2> SUFFICES ASSUME NEW p \in Operators PROVE op'[p] \in Script /\ Sane(p)'
    OBVIOUS
  <2>1. op[p] \in Script /\ Sane(p)
    BY <1>2 DEF Inv
  <2>2. CASE p = o
    <3>1. op'[p] = q
      BY <1>4, <2>2
    <3> QED
      BY <1>3, <1>4, <1>5, <3>1 DEF Sane
  <2>3. CASE p # o /\ op[p].at \in {"wait", "ready"}
    <3> DEFINE r == [op[p] EXCEPT !.overtaken = TRUE]
    <3>1. op'[p] = r
      BY <1>4, <2>3
    <3>2. r \in Script /\ r.at = op[p].at /\ r.sha = op[p].sha /\ r.overtaken
      BY <2>1 DEF Script
    <3> HIDE DEF r
    <3> QED
      BY <2>1, <2>3, <3>1, <3>2 DEF Sane
  <2>4. CASE p # o /\ op[p].at \notin {"wait", "ready"}
    <3>1. op'[p] = op[p]
      BY <1>4, <2>4
    <3>2. PICK w : w = op[p].sha
      OBVIOUS
    <3>3. w \in Versions => (Covered(w) => Covered(w)')
      BY <1>6
    <3> QED
      BY <1>4, <2>1, <2>4, <3>1, <3>2, <3>3 DEF Sane, Covered
  <2> QED
    BY <2>2, <2>3, <2>4
<1>10. op' \in [Operators -> Script]
  BY <1>2, <1>4, <1>5 DEF Script
<1>11. TypeOK'
  <2>1. outcome' \in [what : Outcomes, sha : Versions \cup {Null}]
    BY <1>4 DEF Outcomes, Silent
  <2>2. blind' \subseteq Versions /\ service' \in Versions
    BY <1>3, <1>4 DEF Inv, TypeOK
  <2> QED
    BY <1>4, <1>10, <2>1, <2>2 DEF Inv, TypeOK
<1>12. Awaited'
  <2> SUFFICES ASSUME NEW u \in upgrades, u.by # Null
               PROVE  op'[u.by].at = "upgrading" /\ op'[u.by].sha = u.sha
    BY <1>4 DEF Awaited
  <2>1. u.by \in Operators /\ op[u.by].at = "upgrading" /\ op[u.by].sha = u.sha
    BY DEF Inv, TypeOK, Awaited
  <2>2. op'[u.by] = op[u.by]
    BY <1>2, <1>4, <2>1
  <2> QED
    BY <2>1, <2>2
<1> QED
  BY <1>8, <1>9, <1>11, <1>12 DEF Inv

\* A deployment starts its migration and waits for it.
LEMMA StartUpgradeKeeps ==
    ASSUME Inv, NEW o \in Operators, StartUpgrade(o)
    PROVE  Inv'
<1> DEFINE q == [op[o] EXCEPT !.at = "upgrading"]
<1>1. /\ op[o].at = "confirm" /\ op[o].migrate /\ op[o] \in Script /\ Sane(o)
      /\ op \in [Operators -> Script]
      /\ upgrades' = upgrades \cup {[by |-> o, sha |-> op[o].sha]}
      /\ op' = [op EXCEPT ![o] = q] /\ outcome' = Silent
      /\ UNCHANGED <<schema, service, tasks, tfvars, blind>>
  BY DEF StartUpgrade, Goto, Inv, TypeOK
<1>2. /\ q \in Script /\ q.at = "upgrading" /\ q.sha = op[o].sha /\ q.migrate
      /\ q.running = op[o].running /\ q.diffed = op[o].diffed
  BY <1>1 DEF Script
<1>3. op[o].sha \in Versions
  BY <1>1 DEF Sane
<1> HIDE DEF q
<1>4. /\ op' \in [Operators -> Script] /\ op'[o] = q
      /\ \A p \in Operators : p # o => op'[p] = op[p] /\ Sane(p)'
  BY <1>1, <1>2, OneMoves
<1>5. Sane(o)'
  BY <1>1, <1>2, <1>3, <1>4 DEF Sane
<1>6. CoveredImages'
  BY <1>1, ImagesStay
<1>7. TypeOK'
  <2>1. outcome' \in [what : Outcomes, sha : Versions \cup {Null}]
    BY <1>1 DEF Outcomes, Silent
  <2>2. upgrades' \subseteq [by : Operators \cup {Null}, sha : Versions]
    BY <1>1, <1>3 DEF Inv, TypeOK
  <2> QED
    BY <1>1, <1>4, <2>1, <2>2 DEF Inv, TypeOK
<1>8. Awaited'
  <2> SUFFICES ASSUME NEW u \in upgrades', u.by # Null
               PROVE  op'[u.by].at = "upgrading" /\ op'[u.by].sha = u.sha
    BY DEF Awaited
  <2>1. CASE u \in upgrades
    <3>1. u.by \in Operators /\ op[u.by].at = "upgrading" /\ op[u.by].sha = u.sha
      BY <2>1 DEF Inv, TypeOK, Awaited
    <3>2. op'[u.by] = op[u.by]
      BY <1>1, <1>4, <3>1
    <3> QED
      BY <3>1, <3>2
  <2>2. CASE u = [by |-> o, sha |-> op[o].sha]
    BY <1>2, <1>4, <2>2
  <2> QED
    BY <1>1, <2>1, <2>2
<1> QED
  BY <1>4, <1>5, <1>6, <1>7, <1>8 DEF Inv

\* A deployment stops, and its migration runs on unawaited.
LEMMA StopKeeps ==
    ASSUME Inv, NEW o \in Operators, Stop(o)
    PROVE  Inv'
<1>1. Idle \in Script /\ Idle.at = "idle"
  BY DEF Idle, Script
<1>2. /\ op' = [op EXCEPT ![o] = Idle] /\ outcome' = Silent
      /\ upgrades' = {[u EXCEPT !.by = IF u.by = o THEN Null ELSE u.by] : u \in upgrades}
      /\ UNCHANGED <<schema, service, tasks, tfvars, blind>>
  BY DEF Stop, Fail, Goto
<1>3. /\ op' \in [Operators -> Script] /\ op'[o] = Idle
      /\ \A p \in Operators : p # o => op'[p] = op[p] /\ Sane(p)'
  BY <1>1, <1>2, OneMoves
<1>4. Sane(o)'
  BY <1>1, <1>3 DEF Sane
<1>5. CoveredImages'
  BY <1>2, ImagesStay
<1>6. \A w \in upgrades' :
         /\ w \in [by : Operators \cup {Null}, sha : Versions] /\ w.by # o
         /\ w.by # Null => w \in upgrades
  <2> SUFFICES ASSUME NEW u \in upgrades,
                      NEW w, w = [u EXCEPT !.by = IF u.by = o THEN Null ELSE u.by]
               PROVE  /\ w \in [by : Operators \cup {Null}, sha : Versions] /\ w.by # o
                      /\ w.by # Null => w \in upgrades
    BY <1>2
  <2>1. u \in [by : Operators \cup {Null}, sha : Versions]
    BY DEF Inv, TypeOK
  <2>2. CASE u.by = o
    BY <2>1, <2>2
  <2>3. CASE u.by # o
    <3>1. w = u
      BY <2>1, <2>3
    <3> QED
      BY <2>1, <2>3, <3>1
  <2> QED
    BY <2>2, <2>3
<1>7. TypeOK'
  <2>1. outcome' \in [what : Outcomes, sha : Versions \cup {Null}]
    BY <1>2 DEF Outcomes, Silent
  <2>2. upgrades' \subseteq [by : Operators \cup {Null}, sha : Versions]
    BY <1>6
  <2> QED
    BY <1>2, <1>3, <2>1, <2>2 DEF Inv, TypeOK
<1>8. Awaited'
  <2> SUFFICES ASSUME NEW w \in upgrades', w.by # Null
               PROVE  op'[w.by].at = "upgrading" /\ op'[w.by].sha = w.sha
    BY DEF Awaited
  <2>1. w.by \in Operators /\ w.by # o /\ op[w.by].at = "upgrading" /\ op[w.by].sha = w.sha
    BY <1>6 DEF Inv, Awaited
  <2> QED
    BY <1>3, <2>1
<1> QED
  BY <1>3, <1>4, <1>5, <1>7, <1>8 DEF Inv

\* A migration started by hand is awaited by no deployment.
LEMMA MigrateByHandKeeps ==
    ASSUME Inv, NEW sha \in Versions, MigrateByHand(sha)
    PROVE  Inv'
<1>1. /\ upgrades' = upgrades \cup {[by |-> Null, sha |-> sha]} /\ outcome' = Silent
      /\ UNCHANGED <<schema, service, tasks, tfvars, op, blind>>
  BY DEF MigrateByHand
<1>2. TypeOK'
  BY <1>1 DEF Inv, TypeOK, Outcomes, Silent
<1>3. CoveredImages'
  BY <1>1, ImagesStay
<1>4. Awaited'
  BY <1>1 DEF Inv, Awaited
<1>5. \A o \in Operators : Sane(o)'
  BY <1>1 DEF Inv, Sane, Covered
<1> QED
  BY <1>2, <1>3, <1>4, <1>5 DEF Inv

\* Of two upgrades that are awaited by one deployment, there is one.
LEMMA OneAwaited ==
    ASSUME Inv, NEW u \in upgrades, NEW w \in upgrades, u.by # Null, w.by = u.by
    PROVE  w = u
<1>1. u \in [by : Operators \cup {Null}, sha : Versions]
  BY DEF Inv, TypeOK
<1>2. w \in [by : Operators \cup {Null}, sha : Versions]
  BY DEF Inv, TypeOK
<1>3. w.sha = u.sha
  BY DEF Inv, Awaited
<1> QED
  BY <1>1, <1>2, <1>3

\* A migration that succeeds lets the deployment that waits for it pin.
LEMMA UpgradeSucceedsKeeps ==
    ASSUME Inv, NEW u \in upgrades, UpgradeSucceeds(u)
    PROVE  Inv'
<1>1. /\ schema \subseteq schema' /\ schema' = Files[u.sha] /\ upgrades' = upgrades \ {u}
      /\ UNCHANGED <<service, tasks, tfvars, blind>>
  BY DEF UpgradeSucceeds
<1>2. u.by \in Operators \cup {Null} /\ u.sha \in Versions
  BY DEF Inv, TypeOK
<1>3. CoveredImages'
  BY <1>1, ImagesStay
<1>4. upgrades' \subseteq [by : Operators \cup {Null}, sha : Versions] /\ schema' \subseteq Migrations
  BY <1>1, <1>2 DEF Inv, TypeOK
<1>5. Silent \in [what : Outcomes, sha : Versions \cup {Null}]
  BY DEF Outcomes, Silent
<1>6. CASE u.by = Null
  <2>1. op' = op /\ outcome' = Silent
    BY <1>6 DEF UpgradeSucceeds
  <2>2. TypeOK'
    BY <1>1, <1>4, <1>5, <2>1 DEF Inv, TypeOK
  <2>3. Awaited'
    BY <1>1, <2>1 DEF Inv, Awaited
  <2>4. \A p \in Operators : Sane(p)'
    <3> SUFFICES ASSUME NEW p \in Operators PROVE Sane(p)'
      OBVIOUS
    <3>1. PICK v : v = op[p].sha
      OBVIOUS
    <3>2. v \in Versions => (Covered(v) => Covered(v)')
      BY <1>1, Grows
    <3>3. Sane(p)
      BY DEF Inv
    <3> QED
      BY <1>1, <2>1, <3>1, <3>2, <3>3 DEF Sane, Covered
  <2> QED
    BY <1>3, <2>2, <2>3, <2>4 DEF Inv
<1>7. CASE u.by # Null
  <2>1. PICK o \in Operators : o = u.by
    BY <1>2, <1>7
  <2> DEFINE q == [op[o] EXCEPT !.at = "pin", !.diffed = FALSE, !.migrate = FALSE]
  <2>2. /\ op[o] \in Script /\ op[o].sha = u.sha
        /\ op' = [op EXCEPT ![o] = q] /\ outcome' = Silent
    BY <1>7, <2>1 DEF UpgradeSucceeds, Goto, Inv, TypeOK, Awaited
  <2>3. q \in Script /\ q.at = "pin" /\ q.sha = u.sha
    BY <2>2 DEF Script
  <2> HIDE DEF q
  <2>4. /\ op' \in [Operators -> Script] /\ op'[o] = q
        /\ \A p \in Operators : p # o => op'[p] = op[p] /\ Sane(p)'
    BY <1>1, <2>2, <2>3, OneMoves
  <2>5. Covered(u.sha)'
    BY <1>1 DEF Covered
  <2>6. Sane(o)'
    BY <1>2, <2>3, <2>4, <2>5 DEF Sane, Covered
  <2>7. TypeOK'
    BY <1>1, <1>4, <1>5, <2>2, <2>4 DEF Inv, TypeOK
  <2>8. Awaited'
    <3> SUFFICES ASSUME NEW w \in upgrades', w.by # Null
                 PROVE  op'[w.by].at = "upgrading" /\ op'[w.by].sha = w.sha
      BY DEF Awaited
    <3>1. w \in upgrades /\ w # u
      BY <1>1
    <3>2. w.by # o
      BY <1>7, <2>1, <3>1, OneAwaited
    <3>3. w.by \in Operators /\ op[w.by].at = "upgrading" /\ op[w.by].sha = w.sha
      BY <3>1 DEF Inv, TypeOK, Awaited
    <3> QED
      BY <2>4, <3>2, <3>3
  <2> QED
    BY <1>3, <2>4, <2>6, <2>7, <2>8 DEF Inv
<1> QED
  BY <1>6, <1>7

\* A migration that fails stops the deployment that waits for it.
LEMMA UpgradeFailsKeeps ==
    ASSUME Inv, NEW u \in upgrades, UpgradeFails(u)
    PROVE  Inv'
<1>1. /\ upgrades' = upgrades \ {u}
      /\ op' = [o \in Operators |-> IF o = u.by THEN Idle ELSE op[o]]
      /\ outcome' = Silent \/ outcome' = [what |-> "unauthenticated", sha |-> u.sha]
      /\ UNCHANGED <<schema, service, tasks, tfvars, blind>>
  BY DEF UpgradeFails
<1>2. u.by \in Operators \cup {Null} /\ u.sha \in Versions
  BY DEF Inv, TypeOK
<1>3. CoveredImages'
  BY <1>1, ImagesStay
<1>4. Idle \in Script /\ Idle.at = "idle"
  BY DEF Idle, Script
<1>5. TypeOK'
  BY <1>1, <1>2, <1>4 DEF Inv, TypeOK, Outcomes, Silent
<1>6. \A p \in Operators : Sane(p)'
  <2> SUFFICES ASSUME NEW p \in Operators PROVE Sane(p)'
    OBVIOUS
  <2>1. CASE p = u.by
    <3>1. op'[p] = Idle
      BY <1>1, <2>1
    <3> QED
      BY <1>4, <3>1 DEF Sane
  <2>2. CASE p # u.by
    <3>1. op'[p] = op[p]
      BY <1>1, <2>2
    <3> QED
      BY <1>1, <3>1 DEF Inv, Sane, Covered
  <2> QED
    BY <2>1, <2>2
<1>7. Awaited'
  <2> SUFFICES ASSUME NEW w \in upgrades', w.by # Null
               PROVE  op'[w.by].at = "upgrading" /\ op'[w.by].sha = w.sha
    BY DEF Awaited
  <2>1. w \in upgrades /\ w # u
    BY <1>1
  <2>2. w.by \in Operators /\ op[w.by].at = "upgrading" /\ op[w.by].sha = w.sha
    BY <2>1 DEF Inv, TypeOK, Awaited
  <2>3. w.by # u.by
    BY <2>1, OneAwaited
  <2> QED
    BY <1>1, <2>2, <2>3
<1> QED
  BY <1>3, <1>5, <1>6, <1>7 DEF Inv

\* ECS runs no image but the service's and those it already ran.
LEMMA EcsKeeps ==
    ASSUME Inv, TaskStarts \/ TasksDrain \/ \E v \in Versions : TaskDies(v)
    PROVE  Inv'
<1>1. /\ tasks' \subseteq tasks \cup (IF service = Null THEN {} ELSE {service})
      /\ outcome' = Silent
      /\ UNCHANGED <<schema, service, upgrades, tfvars, op, blind>>
  <2>1. CASE TaskStarts
    BY <2>1 DEF TaskStarts, Ecs
  <2>2. CASE TasksDrain
    BY <2>2 DEF TasksDrain, Ecs, Inv, TypeOK
  <2>3. CASE \E v \in Versions : TaskDies(v)
    BY <2>3 DEF TaskDies, Ecs
  <2> QED
    BY <2>1, <2>2, <2>3
<1>2. CoveredImages'
  BY <1>1, ImagesStay
<1>3. TypeOK'
  <2>1. tasks' \subseteq Versions
    BY <1>1 DEF Inv, TypeOK
  <2>2. outcome' \in [what : Outcomes, sha : Versions \cup {Null}]
    BY <1>1 DEF Outcomes, Silent
  <2> QED
    BY <1>1, <2>1, <2>2 DEF Inv, TypeOK
<1>4. Awaited'
  BY <1>1 DEF Inv, Awaited
<1>5. \A p \in Operators : Sane(p)'
  BY <1>1 DEF Inv, Sane, Covered
<1> QED
  BY <1>2, <1>3, <1>4, <1>5 DEF Inv

------------------------------------------------------------------------------
(* The theorems *)

\* The invariant is inductive.
LEMMA Preserved == Inv /\ [Next]_vars => Inv'
<1> SUFFICES ASSUME Inv, [Next]_vars PROVE Inv'
  OBVIOUS
<1>1. CASE UNCHANGED vars
  BY <1>1 DEF vars, Inv, TypeOK, CoveredImages, Covered, Awaited, Sane
<1>2. ASSUME NEW o \in Operators, Deploying(o) PROVE Inv'
  <2>1. CASE \E sha \in Versions, known, diffed \in BOOLEAN : Start(o, sha, known, diffed)
    BY <2>1, StartKeeps
  <2>2. CASE StartUpgrade(o)
    BY <2>2, StartUpgradeKeeps
  <2>3. CASE SkipUpgrade(o)
    BY <2>3, SkipUpgradeKeeps
  <2>4. CASE PinTfvars(o)
    BY <2>4, PinTfvarsKeeps
  <2>5. CASE Apply(o)
    BY <2>5, ApplyKeeps
  <2>6. CASE ApplyFails(o) \/ Report(o)
    BY <2>6, EndsKeep
  <2>7. CASE WaitStable(o)
    BY <2>7, WaitStableKeeps
  <2>8. CASE Stop(o)
    BY <2>8, StopKeeps
  <2> QED
    BY <1>2, <2>1, <2>2, <2>3, <2>4, <2>5, <2>6, <2>7, <2>8 DEF Deploying
<1>3. CASE \E sha \in Versions : MigrateByHand(sha)
  BY <1>3, MigrateByHandKeeps
<1>4. CASE \E u \in upgrades : UpgradeSucceeds(u) \/ UpgradeFails(u)
  BY <1>4, UpgradeSucceedsKeeps, UpgradeFailsKeeps
<1>5. CASE TaskStarts \/ TasksDrain \/ \E v \in Versions : TaskDies(v)
  BY <1>5, EcsKeeps
<1> QED
  BY <1>1, <1>2, <1>3, <1>4, <1>5 DEF Next

LEMMA Invariance == Spec => []Inv
BY Initially, Preserved, PTL DEF Spec

\* The service, its tasks and the scripts in progress stay of their types.
THEOREM DeployTypeOK == Spec => []TypeOK
<1>1. Inv => TypeOK
  BY DEF Inv
<1> QED
  BY <1>1, Invariance, PTL

\* Whoever deploys, rolls back, stops halfway or migrates by hand, no task runs
\* code whose migrations are missing, but for those of images applied blind.
THEOREM DeploySchemaBeforeCode == Spec => []SchemaBeforeCode
<1>1. Inv => SchemaBeforeCode
  BY DEF Inv, CoveredImages, Covered, SchemaBeforeCode
<1> QED
  BY <1>1, Invariance, PTL

\* A deployment that could compare never starts an older image's migrations.
THEOREM DeployOnlyForward == Spec => []OnlyForward
<1>1. Inv => OnlyForward
  <2> SUFFICES ASSUME Inv, NEW u \in upgrades, u.by # Null, op[u.by].diffed,
                      schema \subseteq Files[op[u.by].running]
               PROVE  schema \subseteq Files[u.sha]
    BY DEF OnlyForward
  <2>1. u.by \in Operators /\ u.sha \in Versions
    BY DEF Inv, TypeOK
  <2>2. op[u.by].at = "upgrading" /\ op[u.by].sha = u.sha
    BY DEF Inv, Awaited
  <2>3. op[u.by].running \in Versions /\ ~ Files[u.sha] \subseteq Files[op[u.by].running]
    BY <2>1, <2>2 DEF Inv, Sane
  <2>4. Files[op[u.by].running] \subseteq Files[u.sha]
    BY <2>1, <2>3
  <2> QED
    BY <2>4
<1> QED
  BY <1>1, Invariance, PTL

\* A deployment that is about to report has its image on the service, unless it
\* was applied over.
THEOREM DeployDeployedIsConfigured == Spec => []DeployedIsConfigured
<1>1. Inv => DeployedIsConfigured
  BY DEF Inv, Sane, DeployedIsConfigured
<1> QED
  BY <1>1, Invariance, PTL

\* "Nothing to deploy" is only said of the image the service is set to.
THEOREM DeployNothingIsApplied == Spec => NothingIsApplied
<1>1. ASSUME [Next]_vars PROVE [outcome'.what = "nothing" => service = outcome'.sha]_vars
  <2> SUFFICES ASSUME Next, outcome'.what = "nothing" PROVE service = outcome'.sha
    BY <1>1
  <2>1. outcome' # Silent /\ outcome'.what # "deployed" /\ outcome'.what # "unauthenticated"
    BY DEF Silent
  <2>2. ASSUME NEW o \in Operators, Deploying(o)
        PROVE  \E sha \in Versions, known, diffed \in BOOLEAN : Start(o, sha, known, diffed)
    <3>1. ~ (StartUpgrade(o) \/ SkipUpgrade(o) \/ PinTfvars(o) \/ WaitStable(o))
      BY <2>1 DEF StartUpgrade, SkipUpgrade, PinTfvars, Pin, WaitStable, Goto
    <3>2. ~ (Apply(o) \/ ApplyFails(o) \/ Stop(o))
      BY <2>1 DEF Apply, ApplyFails, Stop, Fail, Goto
    <3>3. ~ Report(o)
      BY <2>1 DEF Report
    <3> QED
      BY <2>2, <3>1, <3>2, <3>3 DEF Deploying
  <2>3. ~ \E sha \in Versions : MigrateByHand(sha)
    BY <2>1 DEF MigrateByHand
  <2>4. ~ \E u \in upgrades : UpgradeSucceeds(u) \/ UpgradeFails(u)
    <3> SUFFICES ASSUME NEW u \in upgrades PROVE ~ (UpgradeSucceeds(u) \/ UpgradeFails(u))
      OBVIOUS
    <3>1. UpgradeSucceeds(u) => outcome' = Silent
      BY Zenon DEF UpgradeSucceeds, Goto
    <3>2. UpgradeFails(u) => outcome' = Silent \/ outcome' = [what |-> "unauthenticated", sha |-> u.sha]
      BY Zenon DEF UpgradeFails
    <3> QED
      BY <2>1, <3>1, <3>2
  <2>5. ~ (TaskStarts \/ TasksDrain \/ \E v \in Versions : TaskDies(v))
    BY <2>1 DEF TaskStarts, TasksDrain, TaskDies, Ecs
  <2>6. PICK o \in Operators, sha \in Versions, known \in BOOLEAN, diffed \in BOOLEAN :
          Start(o, sha, known, diffed)
    BY <2>2, <2>3, <2>4, <2>5 DEF Next
  <2>7. PICK r : r = IF known THEN service ELSE Null
    OBVIOUS
  <2>8. StartFrom(o, sha, r, diffed)
    BY <2>6, <2>7 DEF Start
  <2>9. r = sha /\ outcome'.sha = sha
    BY <2>1, <2>8 DEF StartFrom, Goto
  <2> QED
    BY <2>7, <2>9
<1> QED
  BY <1>1, PTL DEF Spec, NothingIsApplied

=============================================================================
