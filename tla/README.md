# Cohns-net: models, checks and proofs

TLA+ models of the parts of this repository whose correctness depends on the
order in which things happen: the API for recipes, classes and comments over
PostgreSQL, the database credentials that rotate under it, the scripts that
deploy it, the tokens that say who may do what, the media pipeline, the family
photo library, and the scripts that write recipes and classes from an author's
desk. Each component has a module, a configuration that model-checks a small
instance of it with TLC, and theorems proved with TLAPS for every instance.

## The system

| Component | State it keeps | Operations | Who it meets |
| --- | --- | --- | --- |
| Recipes API (`routers/recipes.py`, `models.py`) | recipes, categories, cuisines; a recipe carries its category and cuisine by *name* | create, update, delete a recipe; create, rename, delete a category or cuisine; URL import, presigned uploads, public reads | moderators, each with one request at a time; the rows other requests have committed |
| Classes API (`routers/classes.py`) | classes, their sessions, signups, requests | signup and request (visitors); create, update, delete of classes and sessions (moderators) | SNS for the mail; rows deleted under a request |
| Database connections (`db.py`, `config.py`) | cached user and password, an asyncio lock | connect, read the secret, retry once | the weekly rotation by Secrets Manager |
| API deployment (`deploy-api.sh`, `db-migrate.sh`, `migrations/env.py`) | database schema, the service's task definition, the running tasks, each operator's tfvars | deploy a commit, roll back, migrate by hand | other operators, ECS, terraform, alembic |
| Comments and moderation (`comments.py`, `moderation.py`) | comments, each pending, approved or rejected | submit, list, decide | moderators deciding together, whose tokens may be stale |
| Identity and groups (`auth.py`, `admin_users.py`, `aws_admin.py`) | Cognito groups; the groups written into each token | verify a token, grant, revoke | tokens that outlive a revocation |
| Browser session (`site/js/auth.js`) | tokens in local storage, code exchanges and refreshes in flight | sign in, sign out, refresh | other tabs of the browser |
| Media pipeline (`media_uploads.py`, `admin-recipes.js`, `media-pipeline/lambda`) | sources, events, transcoding jobs, outputs | presign, put; handle an event; transcode | at-least-once events, retries, jobs side by side |
| Photo library (`populate_library.py`, `photo-library/lambda`, `family.js`) | bucket, manifest, staging directory, open pages | render, sync with deletion; list with signed URLs | a sync cut short; members who leave |
| Authoring scripts (`load_recipes.py`, `backfill_servings.py`, `load_class_tools.py`) | what they read, to write back | post, put; list and put back; read and put back | moderators' commits, between their calls and within them |
| Recipe import and servings (`recipe_import.py`, `import_recipe.py`, `backfill_servings.py`) | none | read a count from a yield or from a summary | each other: the second reads what the first wrote |
| Site deployment (`site-deploy.yml`, `scripts/static-recipes`) | objects in S3, caches | version, sync, publish, invalidate | another run of the workflow |
| Site pages, rate limiter, infrastructure, reporting | none that is shared | rendering, reads | - |

What is hard in it:

- **Interleaving.** FastAPI runs many requests at once, each a chain of SQL
  statements in a READ COMMITTED transaction. A check in one statement and the
  write it justifies in a later one can have another request's commit between
  them (`recipes.py:141`, `classes.py:130`).
- **Locks.** An uncommitted UPDATE holds its rows, and its places in a unique
  index; another request waits there and then sees the committed values. Renames
  that hold some and wait for others can wait in a circle.
- **Failure after the commit.** A publish to SNS fails, or the task stops, when
  the row is already stored.
- **Credentials that change** in two places, one after the other, while
  connections read, cache and retry.
- **Deployments** that stop halfway, meet one another, and act on what ECS was
  told rather than on what it runs.
- **Statements about the past.** A token, a signed URL and an open page each say
  what was so when they were made, and are believed until they expire.
- **Delivery.** S3 repeats and reorders events, the Lambda is run again after it
  fails, and MediaConvert reads a source when it comes to it.
- **Read, then write it all back.** The scripts PUT whole rows they read before.

The components' correctness, in short: recipes carry names that exist, slugs and
names stay unique, a rename is not taken back by an edit; signups, sessions and
requests stay attached to what exists, a session is not oversold without bound,
a cancellation sticks; a rotation never wedges a task; new code never runs
before its migrations; a decision about a comment is whole and made by a
moderator, who stops being one soon after he is revoked; signing out is final
but for one race; a lesson's video is of one upload, the last; the photos listed
are the photos there; a script writes what it was run for and nothing else.

`PROJECT.json` lists every component, and under `hazards` each place where one
of these things can go wrong, with the properties that would show it.

## Modules

| Module | What it is |
| --- | --- |
| `Cookbook` | What the recipes API promises: each request is one step on two tables, and recipes carry names that exist. |
| `Recipes` | The handlers of `recipes.py`, statement by statement. Extends `Cookbook` with the requests in flight. |
| `RecipesProofs` | Their theorems, the refinement among them. |
| `MCRecipes` | Names and symmetry for TLC. |
| `Classes`, `ClassesProofs`, `MCClasses` | The handlers of `classes.py`, the theorems, symmetry. |
| `DbCredentials`, `DbCredentialsProofs`, `MCDbCredentials` | `_connect` and `_get_credentials` under a rotation. |
| `Deploy`, `DeployProofs`, `MCDeploy` | Operators with `deploy-api.sh` and `db-migrate.sh`, alembic, and ECS. |
| `Tokens` | The groups of the user pool, the tokens that carry them, the browsers that keep them, and time. |
| `Moderation`, `MCModeration` | Comments and decisions about them; composed with `Tokens`, whose roles it asks for. |
| `PhotoLibrary`, `MCPhotoLibrary` | The script that fills the bucket, the bucket, and the list endpoint; composed with `Tokens`. |
| `TokensProofs` | What tokens tell, proved once, and the theorems of the two modules that rely on it. |
| `Media`, `MediaProofs`, `MCMedia` | A lesson's video from the editor through S3, the Lambda and MediaConvert to the player. |
| `Servings`, `ServingsProofs` | How two parsers read a number of servings from the same prose: pure operators, and lemmas about them. |
| `Authoring`, `AuthoringProofs`, `MCAuthoring` | The scripts, and the API's handlers of their calls, against the moderators; uses `Servings`. |

A definition preceded by a comment that begins "Variant" is no part of a
specification: it is the definition after it with a plausible mistake, and
`PROJECT.json` names the property it breaks.

### Recipes and Classes

The state is the committed tables plus `req[c]`, the request of each client:
the statement it has reached (`at`) and the locals the handler holds there, such
as the row as it was loaded (`seen`) and the body (`pay`). One action is what a
handler does from one `await` on the database to the next, and a handler is a
chain of actions:

- `update_recipe` is `UpdateRecipe` (read by slug), `UpdateCheckCategory`,
  `CheckCuisine`, `CommitUpdate`, `RefreshRecipe`;
- `update_category` is `UpdateTerm`; then the cascading UPDATE, which first
  autoflushes the new name, outside the `try`: `RenameTerm` takes the category's
  row and `TakeName` the name's place in the unique index, `FindRecipes` is the
  cascade's snapshot and `UpdateRow` one of its recipes, in any order;
  `CommitRename`, `RefreshTerm`. A cuisine takes the same steps;
- `delete_category` is `DeleteTerm`, `CountUses`, `DropTerm`;
- `signup` is `SignupReadClass`, `SignupReadSession`, `SignupCount`,
  `SignupCommit`, `SignupMail`, or `SignupByBot`;
- `request_class`, and the moderators' handlers of classes and sessions, follow
  in the same way. In `Classes`, `TaskStops` ends a request anywhere.

Choices that come from the libraries the code runs on: SQLAlchemy writes only
the columns that differ from the row as loaded (`ChangedColumns`), reports an
UPDATE of a row that is gone as an error (500) and a DELETE of one as a warning,
and `session.refresh` of a row that is gone fails (500). PostgreSQL makes a
statement that meets an uncommitted UPDATE of its row, or an uncommitted key of
its unique index, wait: the guards `TermLocked`, `RecipeLocked`, `NameLocked`.
Requests that wait for each other in a circle (`WaitsFor`, `Deadlocked`) wait
until PostgreSQL ends one of them, whose handler answers 500 (`DeadlockAborts`).
A flush and the commit that follows it with no `await` on anything else between
are one step. Of these only an UPDATE that changes a slug holds something, its
row and the old slug, while it waits for something, the new slug: `MovesSlug`
says when it may be doing so, and may then be part of a circle, in `Recipes` and
in `Classes`.

`Spec` lets any requests interleave. `ApartSpec` lets all of them but two pairs,
which the code does not exclude and which do break the promise: a rename that
has run its cascade, or a deletion that has counted no uses, beside a create or
an update that has checked its category (`Settled`, `Checked`); and two renames
or deletions in one vocabulary, from the load of their terms on (`Retires`).
`SerialSpec` is one request at a time, which is one way of keeping apart.

`Recipe` keeps the slug and the two names of a recipe; titles, ingredients and
the rest are copied and never compared. `Strip` is what `str.strip()` does to a
name. A class keeps its slug and whether it is published; a session its class,
capacity and status. Bodies are any value of the schema's types.

### DbCredentials

A password is the number of the rotation that made it. `RotateCluster` and
`RotateSecret` are the two steps of a rotation. A call of `_connect` goes from
`Connect` to the lock (`GetCredentials`), through `FetchSecret` (the read in a
thread) and `StoreCredentials` (back on the event loop) when it must read, and to
`Authenticate`, round the loop once more if refused. `GiveUp` is any exception or
a cancellation, at any point; `TaskRestarts` a new process.

### Deploy

`op[o]` is an operator's `deploy-api.sh`: `Start` resolves the commit, reads the
running image and decides; `StartUpgrade` or `SkipUpgrade`; `PinTfvars`; `Apply`
or `ApplyFails`; `WaitStable`; `Report`; `Stop` is everything that ends the
script on the way (a prompt, Ctrl-C, a waiter that gives up, no 200), and also
what follows an apply that fails after it has changed the service. A migration
task is in `upgrades` with whoever waits for it, and runs on when nobody does.
`Files[v]` is the set of migrations of a commit; `alembic upgrade head` succeeds
only on a database that is not ahead of it, and then leaves exactly those. ECS
starts a task of the service's image, drains the others once there is one, and
may lose any task; the load balancer looks at `/healthz`, so nothing stops code
whose columns are missing. `blind` records images applied when ECS could not say
what was running: the script then runs no migration and says so.

### Tokens

`members` is the pool's groups, `store[u]` the token in a browser's local
storage (the browser is its user's), `awaited[u]` the answers of
`/oauth2/token` its tabs wait for. `StartSignIn`, `FinishSignIn`, `FailSignIn`
are `handleRedirect` around the code exchange, `SignOut` `signOut`, and
`StartRefresh`, `FinishRefresh`, `FailRefresh` `getIdToken` and `refresh`
around their `await`: the answer is stored, or the tokens dropped, without
another look. `Accepted` is the gate of `current_user`, `InGroup` that of
`require_moderator` and of the photo list. `grant_group` and `revoke_group` are
two steps: `Ask` passes the gate and calls Cognito, and the call, one of
`asked`, takes effect later (`Apply`), perhaps more than once because boto3
repeats what it has no answer to, or never (`Refuse`). Time is a count of ticks: an ID token lives
`Life` (one hour in Cognito's configuration). `since[g][u]`, a history, says how
long ago `u` was last a member of `g`; the code has no such thing, and the
properties are about it. A tick is an hour or so and a call of Cognito has a
timeout, so none is under way while a tick passes.

### Moderation

`create_comment` is `Post`, in one transaction. `moderate` is `Load` (the gate
and `session.get`), `Commit` and `Answer` (`session.refresh`). As in the recipes
API, a commit writes only the columns whose value is not the one read
(`Updated`), so two decisions that overlap can leave the status of one and the
name of the other. `crossed` is a history: whether another decision about the
comment was committed since the row was read. No tick falls within a request,
which takes milliseconds where a tick is an hour.

### PhotoLibrary

`job` is the run of `populate_library.py`: it takes up its photos one by one
(`Skip`, `Render`, `FailRender`), then has `aws s3 sync --delete` transfer what
differs (`Upload`, then `Put`, `Delete` and `PutManifest` in any order, since
the CLI moves objects side by side, then `Complete`); `Stop` is any end before
that. `own` tells a temporary directory from one given as `--staging`, which
keeps its files (`kept`) for the next run. `Open` is the list endpoint with the
page it fills, and `Shown` what the page's URLs still give.

### Media

An upload is its place in `puts`. `Presign`, `PutObject` and `Abandon` are a tab
of the recipe editor and `presign_put`; the key is a function of the recipe's
slug cut to sixty characters (`Stem`). `PutObject` also makes S3's
event. `Handle` and `HandleFails` are the Lambda's handler for an event, which
S3 may deliver again (`copies`) and the service run again (`tries`), its job
submitted or not. `Start` reads what is at the key at that time, `Write` an
output group, and a job may fail (`JobFails`) before it has written anything or
after. Histories: `lost` (given up by the Lambda or by MediaConvert), `hurried`
(bases whose last upload came while an older source was being read, or one of
another type was on its way: `Overlaps`), and `made` on an event (a job was
submitted for it before).

### Authoring and Servings

The scripts are `BeginLoad`, `LoadPost`, `LoadPut`; `BeginBackfill`,
`BackfillPut`; `BeginTools`, `ToolsPut`; and `End` anywhere. A call of theirs is
`call` from its request to its answer, and the handler that serves it takes the
steps it takes in `Recipes` and `Classes`: `PostCheck`, `Insert`; `PutRead`,
`PutCheck`, `Update`; `ClassRead`, `ClassUpdate`. An answer is 201 or 200, a 409,
which `load_recipes.py` follows with a PUT (`Conflict`), or anything else: 404
and 422 where the handlers give them, and `Fail`, at any point, for a 401, 500 or
503. After any of these `load_recipes.py` goes on to the next record, as it
counts failures. A write that succeeds may be answered 500 too, when the refresh
behind it fails.

The moderators may commit anything between any two of these steps, `Edits` times
in all: a row with any fields under a slug nobody else has, a deletion, a term
with its cascade. Of their requests only the commit is a step, and what they
looked up before may be out of date by then, so a commit may leave a recipe with
a category that is gone, as `recipes_race` shows it can. `written` is a history:
the recipes moderators have written since the script began. `touched` is another:
the slugs of those recipes, each taken off again when the script next inserts or
reads the recipe of that slug. A script that ends leaves its call in flight, and
the handler goes on with it. Scripts are run by one author, one after the other:
`Run` waits for the call before it.

`Servings` has a text as a sequence of words and each regular expression of the
two parsers as the places it can match. Its reference, `OneCount`, says of which
yields the number is beyond doubt. `Summary` ends with the name and address of
the source, which the backfill searches along with the rest: a source called
"Serves 6" would be read as a count. `ImportsAgree` and `TimesAreNotCounts` are
about sources with none of the words looked for (`PlainSources`), whatever
numbers they hold. A decimal is two numbers to the code ("2.5 servings" reads 2
in one parser and 5 in the other) and is outside the model, whose words are
whole numbers or none; nor does it cut a summary at the schema's length.

## Runs

| Run | Shows | Instance |
| --- | --- | --- |
| `recipes_concurrent` | Whatever two requests do between each other's statements, slugs and names stay unique, renames in flight are disjoint, and an edit never takes back a rename; a 500 takes a rename to a taken name, a row deleted under the request, or renames and slug changes that wait for each other. | 2 clients, 2 recipes, 2 slugs, one vocabulary of 2 names |
| `recipes_apart` | Two requests side by side, every handler still implements one step of `Cookbook`, and recipes carry names that exist, unless one takes a name from under the other. | 2 clients, 2 recipes, 1 slug, 2 terms, both vocabularies, a name with spaces around it |
| `recipes_race` | *Violated*: with two requests, a recipe can be left with a category that is gone. | 1 recipe, 2 terms |
| `recipes_conflict` | *Violated*: a rename to a taken name answers 500, where the handler's `except` says 409. | 1 recipe, 2 terms |
| `classes` | Rosters stay attached to what exists; a signup lands on the roster of the page it was made on; a cancellation sticks; overbooking is at most one largest party per other request in flight; a 500 needs a row that very request had found and another deleted, its own mail refused, or slugs that are being swapped. | 2 clients, 2 classes, 1 session of 1 seat, 2 signups of 1 or 2, 1 request |
| `credentials` | The cache never goes back, a second refusal has a rotation behind it, every call ends, and after the last rotation nobody is refused. | 3 connections, 2 rotations |
| `deploy` | No task runs code whose migrations were skipped, save for blind images; rollbacks run no migration; a report is about the image on the service; "nothing to deploy" is not said of a stale tfvars. | 2 operators, 3 releases, 2 migrations |
| `deploy_credentials` | *Violated*: with the password in Secrets Manager, a migration connects with none. | 1 operator |
| `moderation` | A role outlives its membership by less than a token; a sign-out is undone only by a refresh or a code exchange under way; whoever becomes a member does so by the call of a recent moderator; a comment appears at the approval of one; a decision nobody crossed is whole, and answered as made. | 2 users, 1 group, 1 comment, 2 decisions at once, 1 call of Cognito, 1 answer awaited by each browser |
| `photos` | A view outlives the membership by less than a token and a URL; after a completed sync the listed photos are there, and the others gone unless a kept directory has them. | 1 user, 2 groups, 1 photo |
| `media` | Uploads that do not overlap replace one another whole; every upload comes out, is given up or is superseded. | 2 slugs of one stem, 2 types, 2 uploads, 2 jobs, 1 retry, 1 repeated event |
| `authoring` | The scripts keep what they were not run for, and counts above one; a run that reports no failure has nothing left to do, but for slugs a moderator has touched since; the two parsers never read two counts from a yield that names one, nor take minutes for servings. | 2 recipes, 1 category of 2 names, 2 files, 3 moderators' commits; 8 words, yields of up to 4, 3 sources |

The violated runs are real disagreements between the code and what its comments
say; `PROJECT.json` quotes both sides under `findings`.

**Bounds.** A race needs two requests, so two clients show each of them; the
third connection in `credentials` is one that waits for the lock while another
holds it and a third is elsewhere. `RecipeIds`, `TermIds`, `SignupIds` and the
like bound the rows ever created, since a primary key is not used twice; two of
each are needed for a conflict. `recipes_apart` has one slug, as
`recipes_concurrent` looks at slugs. With one vocabulary `recipes_concurrent` has
the deadlocks of two renames that swap names and of two updates that swap slugs;
that of a category's cascade
and a cuisine's over the same two recipes, needs two vocabularies and two recipes
at once, and is left to the theorem. `Rotations` bounds the rotations: the second one
can fall between the re-read the first one caused and its attempt. In `deploy`,
three releases are the fewest where the database can be ahead of the running
image and behind the newest one. In `classes`, the constraint `Bounded` of
`MCClasses` leaves out states with rows of all three visitors at once (two
signups and a request): the two signups meet over seats, the request meets
either over deletions, and neither reads the other. `MigrateByHand` allows one unawaited migration
at a time, and the constraint `Bounded` of `MCDeploy` does not follow behaviours
past a second blind image or a third migration in flight. The theorems have none
of the bounds but `MigrateByHand`'s guard, and those of the other guards
(`Rotations`, `Tabs`, `Calls`, `Uploads`, `Retries`, `Copies`, `Edits`), which
there are any numbers.

`Life` is one tick and `UrlTtl` two, as a token lives one hour and a signed URL
two; `Horizon`, where `since` stops counting, is at least what the properties
compare it with. One comment is enough for decisions to meet on, two users for
one to revoke the other; one call of Cognito under way is enough for it to take
effect after its sender has been revoked, because it may be repeated. One photo tells the listed from the unlisted, the
photos being independent of one another in every step but the manifest's, and
the theorems have any number; two photos are already more than twenty million
states. One tab at a time uploads in `media`: two uploads from one tab overlap
in the pipeline just as those of two would, since a tab is free again as soon as
its PUT is answered. Three commits in `authoring` are a delete, a create under the
same slug, and a rename of the category, between two steps of one call or of
several.

**Fairness.** The specifications of recipes, classes, deployment, moderation,
photos and authoring are safety only: nothing in the code promises that a lock wait or a rollout ends, and no
property says so. `FairSpec` of `DbCredentials` assumes that Secrets Manager
finishes a rotation it has begun; that a read of the secret and an attempt to
connect end (boto3 and asyncpg have timeouts); and that a call that waits for
the lock gets it if the lock is free again and again, because `asyncio.Lock`
serves its waiters in order. Nothing is assumed of new calls, cancellations,
rotations beginning or restarts. `Spec` of `Media` assumes that S3 and the
Lambda service go on with the events they hold, which they do until one is dealt
with or given up, and that MediaConvert goes on with the jobs it has: weak
fairness of each as a whole, so nothing says which event or job comes first.
Nobody has to upload. `CHECK_DEADLOCK` is left on throughout.

## Proofs

| Theorem | Says |
| --- | --- |
| `CookbookRecipeNamesExist` | The abstract cookbook keeps recipes on names that exist. |
| `RecipesTypeOK`, `RecipesUniqueSlugs`, `RecipesUniqueNames`, `RecipesUniqueKeys`, `RecipesUpdateKeepsRename` | The safety properties of `recipes_concurrent`. |
| `RecipesRefinement`, `RecipesNamesExist` | Requests that are apart, however many and in whatever interleaving of statements, implement `Cookbook`, and inherit its invariant. |
| `RecipesOnlyLostRowsFail` | Any requests: a 500 takes a rename to a taken name, a row deleted under the request, or a rename or a change of slug that waits for another such request while one waits for it. |
| `RecipesSerialRefinement`, `RecipesOnlyConflictFails` | Requests one at a time implement `Cookbook` too, and only a rename to a taken name fails. |
| `ClassesTypeOK`, `ClassesNoOrphans`, `ClassesRosterMatchesPage`, `ClassesCancellationSticks`, `ClassesErrorsNeedARace`, `ClassesOverbookingBounded` | All the properties of `classes`. |
| `CredentialsTypeOK`, `CredentialsNewestWins`, `CredentialsRefusalNeedsRotation` | The safety properties of `credentials`. |
| `DeployTypeOK`, `DeploySchemaBeforeCode`, `DeployOnlyForward`, `DeployDeployedIsConfigured`, `DeployNothingIsApplied` | All the properties of `deploy`. |
| `ModerationRolesRunOut`, `ModerationSignOutHolds`, `ModerationGrants`, `ModerationPublishes`, `ModerationWhole`, `ModerationAnswers` (and `ModerationTypes`) | All the properties of `moderation`. |
| `PhotoViewsRunOut`, `PhotoListedExist`, `PhotoUnlistedGone` (and `PhotoTypes`) | All the properties of `photos`. |
| `MediaReplacedInPlace` (and `MediaTypes`) | The safety property of `media`. |
| `AuthoringConverges`, `AuthoringKeepsTheRest`, `AuthoringCountsStand`, `AuthoringImportsAgree`, `AuthoringTimesAreNotCounts` (and `AuthoringTypes`) | All the properties of `authoring`: of any files, rows and edits, and of any yields, times and sources. |

The assumptions are those named in the modules (`ASSUME`), and say only that the
markers for "no row" are no rows, that stripping stays within its kind, that
capacities are natural numbers, and that of two commits of main one has all the
migrations of the other; that lives and bounds are natural numbers, and the
horizon is no nearer than a token's life; that the groups asked for are groups;
that the words the parsers look for, and those `build_summary` frames a summary
with, are no numbers; that what a summary says, if it says a count, is one the
schema allows; and that the times in a summary hold none of the words looked
for, since `_iso_duration_to_human` writes them as numbers, "hr" and "min"
behind "Prep", "Cook" and "Total".

How they go:

- **Recipes.** Uniqueness is not inductive: a rename checks that its name is free
  when it flushes and commits later. `RenamesDisjoint` closes the gap: the name
  of each rename in flight is free and no other rename's. Refinement adds what a
  request holds on to while others run (`Held`): a name it has checked is still
  there, a term it is about to rename or delete still has its name and its
  recipes, a recipe it is creating has no row. `PromisedStep` shows that the
  request that moves then takes a step of `Cookbook`, or changes no table;
  `OthersHeld`, one lemma for each kind of write, that the others keep what they
  hold: through `Apart` where nothing else protects it, through the row locks
  against deletions, and because creating a term only adds a name. An update
  commits a mix of its body and of the row as it is by then, and the mix is
  valid because the row is: the refinement needs the invariant it brings.
  `OneAtATime` implies `Apart`. A 500 is traced to a row that is `Deleted` and not
  one that never was: `Found` says that each request's row has been there, and
  `BornStayBorn` that no step takes that back. One that PostgreSQL ends in a
  circle waits for another of the circle and is waited for by a third (or the
  same), and all of them are renames or changes of a slug, since nobody else
  holds a lock while it waits.
- **Classes.** `Inv` is the types, `NoOrphans`, `WidestKnown` (the history
  variable is at least every limit there is now) and `Sane`, which says what a
  request at each point may rely on. Overbooking counts seats as pairs of a
  signup and a member of its party: seats sold plus seats promised to signups
  that have counted stay within the widest limit plus one largest party for each
  other such signup. A request that counts adds its own promise at most where
  the seats sold leave room for it.
- **Credentials.** The lock is held exactly by the call that reads; the cache is
  no newer than the secret, the secret no newer than the cluster; and what a call
  has read is no older than the cache, because nobody else can write it meanwhile.
- **Deploy.** `Covered(v)`: the database has the migrations of `v`, but for those
  of blind images. It holds of the service's image and of every task's, and of
  the image a script has decided to apply from the moment it may skip migrating
  or its migration has succeeded. The schema only grows, so what was decided
  about an image that was running then is still true when it is applied.

- **Tokens.** `TokensTell` is the whole argument: a token that has not expired
  names a group its holder left no longer ago than the token is old. A tick ages
  both by one; a token is issued with the groups of the moment, at age zero; a
  grant sets the clock back, a revocation starts it. `OutUnlessLate` adds the
  answers a signed-out tab still waits for, of refreshes and code exchanges, to
  `SignOutHolds`, which alone is not inductive; `AskedByModerators` does for a
  call under way what a grant says once it is made. Each is
  shown once, for the steps of `Tokens`, and used in both modules above it.
- **Moderation.** `DecidedByModerators` carries the role that was checked along
  with the request, which the clock cannot pass; `ReadIsRow` says that a row
  nobody crossed is still the one read, so that the columns a commit leaves out
  already have its values.
- **PhotoLibrary.** `StageHolds` relates the directory to the photos listed so
  far. `SyncHolds` says that the bucket with the transfers still to make is the
  directory, whatever their order: an image to delete is none of the directory's
  and so none that is or will be listed.
- **Media.** `OnlyTheLast`: if the last upload of a base overlapped none it could
  be overtaken by (`hurried`), all that is still to be done there is of its key,
  and whatever a job reads is that upload. `Owed`: each part of it is out, or will be written by a
  job, or an event remains for which no job was made, or it was given up.
  Repeating an event, running the Lambda again and running jobs side by side
  each keep both.
- **Servings.** A word of a summary is one of its facts', of its times', or of
  the frame, and only the facts hold words that are looked for. So where a
  pattern captures in a summary is where it captures in the facts alone
  (`SummaryCountOfFacts`), and the leftmost place, the least of a set of
  naturals, is the same one; a plain source adds none, though its numbers may
  stand anywhere behind the frame. With one number in a yield, or one range, there is
  one place for either parser to capture (`RoadsAgree`).
- **Authoring.** None of the properties is inductive. `CallHolds` says what a
  handler's copy of a row is worth: it is the row as it stands, unless a
  moderator has written it since it was read, and then the slug is `touched`.
  `LoadHolds` says that a record of the file is in the table, or still to post or
  put, or in the call, or touched; `ListHolds` that the rows a backfill holds are
  still those in the table, but for what a moderator has written. An UPDATE that
  names only the columns that differ (`ChangedColumns`) leaves the body's row
  where the copy is good, and the other columns alone where it is not.

Only model-checked: `EveryCallReturns`, `NeverWedged` and `EveryUploadComesOut`,
which are liveness under fairness and out of TLAPS's reach. No module has a
RECURSIVE operator: the parsers' patterns are sets of places in a text, so
nothing about them needs induction over data.

## What the code does that one might not expect

Three runs are violations, quoted in `PROJECT.json`. These came up while the
models were written; no run is about them, or the property of a run makes room
for them by name:

- Two signups that count seats together both register; "a full session
  waitlists" (`classes.py:128-130`) holds of one request at a time only
  (`OverbookingBounded`).
- `deploy-api.sh:87-93` compares with the image the service is set to, so it can
  say "nothing to deploy" while tasks still run another (`NothingIsApplied` is
  about the service).
- A sign-out in one tab is undone by a refresh or a code exchange under way in
  another (`SignOutHolds`), and a refresh that fails signs out a browser in which another
  tab has just stored a good token.
- The last moderator can revoke himself; only the console makes another. A
  revoked one can grant himself the group again for as long as his token is good
  (`GrantsByModerators` asks no more of a grant than such a token).
- Two renames that swap names, or that cascade over the same recipes, and two
  updates that swap slugs, can wait for each other; PostgreSQL ends one with an
  error no handler catches, a 500 (`OnlyLostRowsFail`, `ErrorsNeedARace`).
- Two recipes whose slugs agree in their first sixty characters share a video.
- A lesson put again, in another file type, while its job runs can keep parts of
  both sources for good (`hurried` in `ReplacedInPlace`).
- `load_recipes.py` resets, on a recipe that exists, the fields its file leaves
  out; `backfill_servings.py` writes back rows as they were listed
  (`written` in `ScriptsKeepTheRest`).
- The video key of a recipe is a text field saved as typed
  (`admin-recipes.js:211`, `schemas.py:107`): nothing ties it to an upload, and
  no property is stated of it.
- Of a yield such as "About 4 servings" the API's importer makes no count, and of
  one that opens with another number, such as "9-inch pie", it makes that one.

## Not modelled

- Public reads, rosters and lists: they change nothing. An access request sends
  a mail and changes nothing here either.
- **Site deployment.** Its hazard is two runs of the workflow at once, with pages
  of one and assets of the other in the caches of CloudFront and of browsers.
  The steps are shell in a workflow over services whose behaviour would be most
  of the model; nothing in the repository's code orders them.
- The fetching of a page to import, `robots.txt` and the reading of JSON-LD: pure
  functions of the network's answers. Image uploads: one PUT under a random key.
- `db-migrate.sh --stamp` and `--dry-run`, and the scripts' `--dry-run`.
- A script's call that the load balancer gives up on (a 504) while its handler
  still runs: in `Authoring` a script sends its next call when the one before it
  is done with.
- Outputs of a lesson in the caches of CloudFront and of browsers, which may
  hold the one before for a while after it was replaced.
- A promise that a mail is sent: the model has a publish that fails and a task
  that stops before it, and the code promises nothing.
- Duplicated signups by a visitor who was told of a failure: the code has no
  notion of a visitor, so nothing says that two rows are one party.
- `deploy` checks the order of migrations for a database whose URL has its
  credentials. In the environments terraform sets up today they are in Secrets
  Manager, where `deploy_credentials` shows that no migration gets that far.
- The state and verifier of a sign-in's redirect: one browser, one navigation. The rate limiter: slowapi's counter in the memory of one task.
- Infrastructure, pages and reporting.
