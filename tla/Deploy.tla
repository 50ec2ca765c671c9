-------------------------------- MODULE Deploy --------------------------------
(***************************************************************************)
(* Deploying an API image: scripts/deploy-api.sh and scripts/db-migrate.sh *)
(* against the database's schema and an ECS service that rolls its tasks   *)
(* on its own time.                                                        *)
(*                                                                         *)
(* Several operators may run the scripts together, any of them may stop    *)
(* halfway, and a migration task outlives the script that waits for it.    *)
(***************************************************************************)
EXTENDS Integers

CONSTANTS
    Operators,
    Versions,       \* commits of main that container-build made an image of
    Migrations,
    Files,          \* Files[v]: the migrations under versions/ at commit v
    SecretArnSet,   \* the migration task's settings name a db_secret_arn
    Null

\* main only ever adds migrations, so of two commits one has all of the other's.
ASSUME DeployAssumption ==
    /\ Files \in [Versions -> SUBSET Migrations]
    /\ \A v, w \in Versions : Files[v] \subseteq Files[w] \/ Files[w] \subseteq Files[v]
    /\ SecretArnSet \in BOOLEAN
    /\ Null \notin Versions /\ Null \notin Operators

VARIABLES
    schema,     \* the migrations the database has
    service,    \* the image of the service's task definition; Null before the service exists
    tasks,      \* the images its tasks really run
    upgrades,   \* migration tasks ECS is running, with who waits for each
    tfvars,     \* tfvars[o]: container_image in the operator's own tfvars
    op,         \* op[o]: where the operator's deploy-api.sh is, with its locals
    outcome,    \* what the last script to end reported, "none" for a mere failure
    blind       \* history: images applied with no running image to compare with

vars == <<schema, service, tasks, upgrades, tfvars, op, outcome, blind>>

Script ==
    [at : {"idle", "confirm", "upgrading", "pin", "apply", "wait", "ready"},
     sha : Versions \cup {Null},
     running : Versions \cup {Null},    \* Null: ECS could not say
     diffed : BOOLEAN,                  \* git knew the running commit
     migrate : BOOLEAN,
     overtaken : BOOLEAN]               \* history: another image was applied since

\* Locals no later step reads are dropped, to keep the states few.
Idle == [at |-> "idle", sha |-> Null, running |-> Null, diffed |-> FALSE, migrate |-> FALSE,
         overtaken |-> FALSE]

Outcomes == {"none", "nothing", "deployed", "unauthenticated"}

TypeOK ==
    /\ schema \subseteq Migrations
    /\ service \in Versions \cup {Null}
    /\ tasks \subseteq Versions
    /\ upgrades \subseteq [by : Operators \cup {Null}, sha : Versions]
    /\ tfvars \in [Operators -> Versions]
    /\ op \in [Operators -> Script]
    /\ outcome \in [what : Outcomes, sha : Versions \cup {Null}]
    /\ blind \subseteq Versions

\* Before the first deployment, or in the steady state of some version.
Init ==
    /\ \/ service = Null /\ schema = {} /\ tasks = {}
       \/ service \in Versions /\ schema = Files[service] /\ tasks = {service}
    /\ upgrades = {}
    /\ tfvars \in [Operators -> Versions]
    /\ op = [o \in Operators |-> Idle]
    /\ outcome = [what |-> "none", sha |-> Null]
    /\ blind = {}

------------------------------------------------------------------------------
(* deploy-api.sh *)

Silent == [what |-> "none", sha |-> Null]

Goto(o, script) == op' = [op EXCEPT ![o] = script] /\ outcome' = Silent

Fail(o) == Goto(o, Idle)

\* Variant: any change to the migrations runs them, removals too.
AnyDifference(running, sha, diffed) ==
    running # Null /\ (diffed => Files[sha] # Files[running])

\* Migrations run when some were added since the running image, or when git
\* cannot tell; with no running image they are left to the operator.
NeedsMigration(running, sha, diffed) ==
    running # Null /\ (diffed => ~ Files[sha] \subseteq Files[running])

\* The script reads the running image and decides, up to the prompt.
StartFrom(o, sha, running, diffed) ==
    /\ op[o].at = "idle"
    /\ IF running = sha
       THEN /\ tfvars' = [tfvars EXCEPT ![o] = sha]
            /\ op' = op /\ outcome' = [what |-> "nothing", sha |-> sha]
       ELSE /\ Goto(o, [at |-> "confirm", sha |-> sha, running |-> running,
                        diffed |-> diffed /\ running # Null,
                        migrate |-> NeedsMigration(running, sha, diffed),
                        overtaken |-> FALSE])
            /\ UNCHANGED tfvars
    /\ UNCHANGED <<schema, service, tasks, upgrades, blind>>

\* Variant: tfvars is taken for the running image.
StartFromTfvars(o, sha, known, diffed) ==
    StartFrom(o, sha, IF known THEN tfvars[o] ELSE Null, diffed)

\* "known" is FALSE when ECS cannot be queried: no credentials, an API error.
Start(o, sha, known, diffed) ==
    StartFrom(o, sha, IF known THEN service ELSE Null, diffed)

\* The operator says y, and db-migrate.sh runs a task of the new image, on the
\* network of the service.
StartUpgrade(o) ==
    /\ op[o].at = "confirm" /\ op[o].migrate
    /\ service # Null
    /\ upgrades' = upgrades \cup {[by |-> o, sha |-> op[o].sha]}
    /\ Goto(o, [op[o] EXCEPT !.at = "upgrading"])
    /\ UNCHANGED <<schema, service, tasks, tfvars, blind>>

SkipUpgrade(o) ==
    /\ op[o].at = "confirm" /\ ~op[o].migrate
    /\ Goto(o, [op[o] EXCEPT !.at = "pin", !.diffed = FALSE])
    /\ UNCHANGED <<schema, service, tasks, upgrades, tfvars, blind>>

Pin(o, image) ==
    /\ op[o].at = "pin"
    /\ tfvars' = [tfvars EXCEPT ![o] = image]
    /\ Goto(o, [op[o] EXCEPT !.at = "apply"])
    /\ UNCHANGED <<schema, service, tasks, upgrades, blind>>

\* Variant: the image that was running is pinned.
PinRunning(o) == Pin(o, op[o].running)

PinTfvars(o) == Pin(o, op[o].sha)

\* terraform apply holds the state's lock from its plan to its end.
Apply(o) ==
    /\ op[o].at = "apply"
    /\ service' = tfvars[o]
    /\ blind' = IF op[o].running = Null THEN blind \cup {op[o].sha} ELSE blind
    /\ op' = [p \in Operators |->
                IF p = o THEN [op[o] EXCEPT !.at = "wait", !.running = Null]
                ELSE IF op[p].at \in {"wait", "ready"} THEN [op[p] EXCEPT !.overtaken = TRUE]
                ELSE op[p]]
    /\ outcome' = Silent
    /\ UNCHANGED <<schema, tasks, upgrades, tfvars>>

\* Variant: the script goes on after a failed apply.
ApplyFailsUnseen(o) ==
    /\ op[o].at = "apply"
    /\ Goto(o, [op[o] EXCEPT !.at = "wait", !.running = Null])
    /\ UNCHANGED <<schema, service, tasks, upgrades, tfvars, blind>>

\* The lock is taken, the provider fails, or the operator does not say yes.
ApplyFails(o) ==
    /\ op[o].at = "apply"
    /\ Fail(o)
    /\ UNCHANGED <<schema, service, tasks, upgrades, tfvars, blind>>

\* aws ecs wait services-stable.
WaitStable(o) ==
    /\ op[o].at = "wait" /\ tasks = {service}
    /\ Goto(o, [op[o] EXCEPT !.at = "ready"])
    /\ UNCHANGED <<schema, service, tasks, upgrades, tfvars, blind>>

\* readyz answers 200.
Report(o) ==
    /\ op[o].at = "ready" /\ tasks # {}
    /\ op' = [op EXCEPT ![o] = Idle]
    /\ outcome' = [what |-> "deployed", sha |-> op[o].sha]
    /\ UNCHANGED <<schema, service, tasks, upgrades, tfvars, blind>>

\* Ctrl-C, a prompt answered no, a waiter that gives up, no 200 from readyz, or
\* no service for db-migrate.sh to borrow.  A migration task runs on.
Stop(o) ==
    /\ op[o].at # "idle"
    /\ Fail(o)
    /\ upgrades' = {[u EXCEPT !.by = IF u.by = o THEN Null ELSE u.by] : u \in upgrades}
    /\ UNCHANGED <<schema, service, tasks, tfvars, blind>>

------------------------------------------------------------------------------
(* db-migrate.sh *)

\* By hand, with the image of a commit or with the service's own; bound: one
\* such task, or one a deployment left behind, runs at a time.
MigrateByHand(sha) ==
    /\ service # Null
    /\ \A u \in upgrades : u.by # Null
    /\ upgrades' = upgrades \cup {[by |-> Null, sha |-> sha]}
    /\ outcome' = Silent
    /\ UNCHANGED <<schema, service, tasks, tfvars, op, blind>>

\* With a db_secret_arn, the URL alembic takes from the settings has no user and
\* no password in it: those are given to the API's own engine only.
Authenticates == ~SecretArnSet

UpgradeSucceeds(u) ==
    /\ Authenticates /\ schema \subseteq Files[u.sha]
    /\ schema' = Files[u.sha]
    /\ upgrades' = upgrades \ {u}
    /\ IF u.by = Null
       THEN op' = op /\ outcome' = Silent
       ELSE Goto(u.by, [op[u.by] EXCEPT !.at = "pin", !.diffed = FALSE, !.migrate = FALSE])
    /\ UNCHANGED <<service, tasks, tfvars, blind>>

\* Variant: the deployment goes on after a failed migration.
UpgradeFailsUnseen(u) ==
    /\ upgrades' = upgrades \ {u}
    /\ IF u.by = Null
       THEN op' = op /\ outcome' = Silent
       ELSE Goto(u.by, [op[u.by] EXCEPT !.at = "pin", !.diffed = FALSE, !.migrate = FALSE])
    /\ UNCHANGED <<schema, service, tasks, tfvars, blind>>

\* A database ahead of the image, no credentials, or any other error: alembic's
\* one transaction is rolled back, and the deployment stops.
UpgradeFails(u) ==
    /\ upgrades' = upgrades \ {u}
    /\ op' = [o \in Operators |-> IF o = u.by THEN Idle ELSE op[o]]
    /\ outcome' = IF Authenticates THEN Silent ELSE [what |-> "unauthenticated", sha |-> u.sha]
    /\ UNCHANGED <<schema, service, tasks, tfvars, blind>>

------------------------------------------------------------------------------
(* ECS *)

Ecs ==
    /\ outcome' = Silent
    /\ UNCHANGED <<schema, service, upgrades, tfvars, op, blind>>

\* A task of the service's image starts and answers healthz.
TaskStarts ==
    /\ service # Null /\ service \notin tasks
    /\ tasks' = tasks \cup {service}
    /\ Ecs

\* The old tasks are drained once the new one is healthy.
TasksDrain ==
    /\ service \in tasks /\ tasks # {service}
    /\ tasks' = {service}
    /\ Ecs

TaskDies(v) ==
    /\ v \in tasks
    /\ tasks' = tasks \ {v}
    /\ Ecs

------------------------------------------------------------------------------

Deploying(o) ==
    \/ \E sha \in Versions, known, diffed \in BOOLEAN : Start(o, sha, known, diffed)
    \/ StartUpgrade(o) \/ SkipUpgrade(o) \/ PinTfvars(o)
    \/ Apply(o) \/ ApplyFails(o) \/ WaitStable(o) \/ Report(o) \/ Stop(o)

Next ==
    \/ \E o \in Operators : Deploying(o)
    \/ \E sha \in Versions : MigrateByHand(sha)
    \/ \E u \in upgrades : UpgradeSucceeds(u) \/ UpgradeFails(u)
    \/ TaskStarts \/ TasksDrain
    \/ \E v \in Versions : TaskDies(v)

Spec == Init /\ [][Next]_vars

------------------------------------------------------------------------------
(* Properties *)

\* Code never runs before its migrations, whoever deploys, rolls back, stops or
\* migrates by hand meanwhile: the only ones that can be missing are those of an
\* image applied with nothing to compare it with (deploy-api.sh, "schema changes").
SchemaBeforeCode ==
    \A v \in tasks, m \in Migrations :
        m \in Files[v] => m \in schema \/ \E b \in blind : m \in Files[b]

\* A rollback never runs the older image's migrations: a deployment that could
\* compare only starts an upgrade the database is behind, unless the database was
\* already ahead of what it compared with.
OnlyForward ==
    \A u \in upgrades :
        u.by # Null /\ op[u.by].diffed /\ schema \subseteq Files[op[u.by].running]
        => schema \subseteq Files[u.sha]

\* A deployment that gets as far as its readiness check has its image on the
\* service, unless another was applied over it.
DeployedIsConfigured ==
    \A o \in Operators : op[o].at = "ready" => service = op[o].sha \/ op[o].overtaken

\* "Nothing to deploy" is only said of the image the service is set to, not of
\* what an earlier run left in tfvars.
NothingIsApplied == [][outcome'.what = "nothing" => service = outcome'.sha]_vars

\* migrations/env.py: "with db_secret_arn set it assembles the Postgres URL from
\* Secrets Manager", so a migration has credentials.
MigrationsAuthenticate == outcome.what # "unauthenticated"

=============================================================================
