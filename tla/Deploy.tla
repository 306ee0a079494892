--------------------------------- MODULE Deploy ---------------------------------
(* Putting a version into service (deploy/portainer-stack.yml): the one-shot     *)
(* gallery-migrate container (scripts/migrate.ts, scripts/seed-admin.ts), which  *)
(* the app waits for, and Watchtower, which waits for nothing; and the backfill  *)
(* of thumbhashes an operator runs beside it (scripts/backfill-thumbhash.ts),    *)
(* with the edits that rewrite originals meanwhile.                              *)
(*                                                                               *)
(* A migration's transaction is one step.  A run may fail, or its container may  *)
(* be killed, between any two steps; a failed step of the bucket or of the seed  *)
(* is only logged.                                                               *)
EXTENDS Integers, Sequences, FiniteSets

CONSTANTS
    Migrations,     \* the files in migrations/, sorted by name
    RoleMigration,  \* 018: roles, and the first admin becomes the owner
    FirstVersion,   \* a version is the number of files it ships
    Up, EmailOf,    \* runs of `compose up`, and their ADMIN_EMAIL
    Legacy,         \* an admin from before the roles
    Original,       \* photos without a thumbhash
    Retouch,        \* edits of photos, by POST .../edit or scripts/replace-photo.ts
    RetouchOf       \* the photo an edit is of

ASSUME DeployAssumption ==
    /\ Len(Migrations) \in Nat
    /\ FirstVersion \in 1..Len(Migrations) /\ RoleMigration \in 1..FirstVersion
    /\ RetouchOf \in [Retouch -> Original]

VARIABLES
    latest,     \* the image behind :latest
    applied,    \* the rows of _migrations
    effect,     \* how often the body of each migration took effect
    up,
    admins,     \* admin_users, oldest first
    bucket,
    app,        \* the version that serves, and who started it
    rewritten,  \* how often each original was rewritten
    thumbhash,  \* the rewrite a thumbhash was computed from, or NULL
    unready,    \* rows with status 'processing'
    retouch,    \* edits, each with its job
    backfill

photoVars == <<rewritten, thumbhash, unready, retouch, backfill>>
deployVars == <<latest, applied, effect, up, admins, bucket, app, photoVars>>

ShippedVersion == FirstVersion..Len(Migrations)
Files(v) == 1..v
NULL == -1

DeployTypeOK ==
    /\ latest \in ShippedVersion
    /\ applied \subseteq Files(Len(Migrations))
    /\ effect \in [Files(Len(Migrations)) -> 0..2]
    /\ \A u \in Up : up[u].pc \in {"idle", "started", "applying", "bucket", "seed", "done", "up", "failed"}
    /\ \A n \in DOMAIN admins : admins[n].role \in {"none", "owner", "admin"}
    /\ bucket \in BOOLEAN
    /\ app.by \in {"nobody", "compose", "watchtower"}
    /\ rewritten \in [Original -> Nat]
    /\ thumbhash \in [Original -> {NULL} \cup Nat]
    /\ unready \subseteq Original
    /\ \A e \in Retouch : retouch[e].pc \in {"idle", "put", "job", "read", "done"}
    /\ backfill.pc \in {"idle", "running", "read"}

\* A database as an earlier deployment left it: with its admin, or empty.
DeployInit ==
    /\ latest = FirstVersion
    /\ \E n \in 0..FirstVersion :
         /\ applied = 1..n
         /\ admins \in {<<>>} \cup IF n = 0 THEN {} ELSE {<<[email |-> Legacy, role |-> IF n < RoleMigration THEN "none" ELSE "owner"]>>}
    /\ effect = [m \in Files(Len(Migrations)) |-> IF m \in applied THEN 1 ELSE 0]
    /\ up = [u \in Up |-> [pc |-> "idle", version |-> 0, todo |-> {}]]
    /\ bucket \in BOOLEAN
    /\ app = [by |-> "nobody", version |-> 0]
    /\ rewritten = [p \in Original |-> 0]
    /\ thumbhash = [p \in Original |-> NULL]
    /\ unready = {}
    /\ retouch = [e \in Retouch |-> [pc |-> "idle", read |-> 0]]
    /\ backfill = [pc |-> "idle", todo |-> {}, photo |-> {}, read |-> 0, crossed |-> {}]

PhotosSame == UNCHANGED photoVars

-----------------------------------------------------------------------------
(* runMigrations.                                                           *)

\* The image is pulled.
ComposeUp(u) ==
    /\ up[u].pc = "idle"
    /\ up' = [up EXCEPT ![u].pc = "started", ![u].version = latest]
    /\ UNCHANGED <<latest, applied, effect, admins, bucket, app>> /\ PhotosSame

\* The _migrations table is there or created; its rows are read once.
ReadApplied(u) ==
    /\ up[u].pc = "started"
    /\ up' = [up EXCEPT ![u].pc = "applying", ![u].todo = Files(up[u].version) \ applied]
    /\ UNCHANGED <<latest, applied, effect, admins, bucket, app>> /\ PhotosSame

\* Roles: everybody is an admin, and the oldest the owner.
WithRoles(m) ==
    IF m # RoleMigration THEN admins
    ELSE [n \in DOMAIN admins |-> [admins[n] EXCEPT !.role = IF n = 1 THEN "owner" ELSE "admin"]]

\* Mutant: the row is inserted after the body's transaction, or never.
CommitMigrationApart(m) ==
    /\ effect' = [effect EXCEPT ![m] = @ + 1]
    /\ applied' \in {applied, applied \cup {m}}
    /\ admins' = WithRoles(m)

\* sql.begin: the body and its row, together.
CommitMigration(m) ==
    /\ effect' = [effect EXCEPT ![m] = @ + 1]
    /\ applied' = applied \cup {m}
    /\ admins' = WithRoles(m)

\* The next file, in order; one that another run applied meanwhile is refused
\* by the primary key and ends this run.
ApplyNext(u) ==
    /\ up[u].pc = "applying" /\ up[u].todo # {}
    /\ LET m == CHOOSE k \in up[u].todo : \A other \in up[u].todo : k <= other IN
       IF m \in applied
       THEN up' = [up EXCEPT ![u].pc = "failed"] /\ UNCHANGED <<applied, effect, admins>>
       ELSE CommitMigration(m) /\ up' = [up EXCEPT ![u].todo = @ \ {m}]
    /\ UNCHANGED <<latest, bucket, app>> /\ PhotosSame

AllApplied(u) ==
    /\ up[u].pc = "applying" /\ up[u].todo = {}
    /\ up' = [up EXCEPT ![u].pc = "bucket"]
    /\ UNCHANGED <<latest, applied, effect, admins, bucket, app>> /\ PhotosSame

\* Postgres is away, or the container is killed: exit code 1.
RunFails(u) ==
    /\ up[u].pc \in {"started", "applying", "bucket", "seed"}
    /\ up' = [up EXCEPT ![u].pc = "failed"]
    /\ UNCHANGED <<latest, applied, effect, admins, bucket, app>> /\ PhotosSame

EnsureBucket(u) ==
    /\ up[u].pc = "bucket"
    /\ bucket' \in {bucket, TRUE}
    /\ up' = [up EXCEPT ![u].pc = "seed"]
    /\ UNCHANGED <<latest, applied, effect, admins, app>> /\ PhotosSame

\* seedAdmin: the first row is the owner's; an e-mail that is there keeps its
\* role.  A failure is logged, an owner who came meanwhile among them.
SeedAdmin(u) ==
    /\ up[u].pc = "seed"
    /\ \/ UNCHANGED admins
       \/ /\ \A n \in DOMAIN admins : admins[n].email # EmailOf[u]
          /\ admins' = Append(admins,
               [email |-> EmailOf[u],
                role |-> IF \E n \in DOMAIN admins : admins[n].role = "owner" THEN "admin" ELSE "owner"])
    /\ up' = [up EXCEPT ![u].pc = "done"]
    /\ UNCHANGED <<latest, applied, effect, bucket, app>> /\ PhotosSame

-----------------------------------------------------------------------------
(* The app.                                                                 *)

\* service_completed_successfully.
StartApp(u) ==
    /\ up[u].pc = "done"
    /\ up' = [up EXCEPT ![u].pc = "up"]
    /\ app' = [by |-> "compose", version |-> up[u].version]
    /\ UNCHANGED <<latest, applied, effect, admins, bucket>> /\ PhotosSame

Ship ==
    /\ latest < Len(Migrations) /\ latest' = latest + 1
    /\ UNCHANGED <<applied, effect, up, admins, bucket, app>> /\ PhotosSame

\* Only the app and the worker carry its label, not gallery-migrate.
Watchtower ==
    /\ app.by # "nobody" /\ app.version # latest
    /\ app' = [by |-> "watchtower", version |-> latest]
    /\ UNCHANGED <<latest, applied, effect, up, admins, bucket>> /\ PhotosSame

-----------------------------------------------------------------------------
(* The backfill: every candidate's original is read, then its row written;  *)
(* a photo that fails is logged and stays one.                              *)

DeploySame == UNCHANGED <<latest, applied, effect, up, admins, bucket, app>>

StartBackfill ==
    /\ backfill.pc = "idle"
    /\ backfill' = [backfill EXCEPT !.pc = "running",
                                    !.todo = {p \in Original : thumbhash[p] = NULL /\ p \notin unready}]
    /\ UNCHANGED <<rewritten, thumbhash, unready, retouch>> /\ DeploySame

BackfillRead ==
    /\ backfill.pc = "running"
    /\ \E p \in backfill.todo :
         backfill' = [backfill EXCEPT !.pc = "read", !.photo = {p}, !.read = rewritten[p],
                                      !.todo = @ \ {p}]
    /\ UNCHANGED <<rewritten, thumbhash, unready, retouch>> /\ DeploySame

BackfillWrite ==
    /\ backfill.pc = "read"
    /\ thumbhash' = [p \in Original |-> IF p \in backfill.photo THEN backfill.read ELSE thumbhash[p]]
    /\ backfill' = [backfill EXCEPT !.pc = "running", !.photo = {}, !.read = 0]
    /\ UNCHANGED <<rewritten, unready, retouch>> /\ DeploySame

BackfillSkips ==
    /\ backfill.pc = "read"
    /\ backfill' = [backfill EXCEPT !.pc = "running", !.photo = {}, !.read = 0]
    /\ UNCHANGED <<rewritten, thumbhash, unready, retouch>> /\ DeploySame

\* It is done, or stopped.
BackfillEnds ==
    /\ backfill.pc # "idle"
    /\ backfill' = [backfill EXCEPT !.pc = "idle", !.photo = {}, !.read = 0, !.todo = {}]
    /\ UNCHANGED <<rewritten, thumbhash, unready, retouch>> /\ DeploySame

-----------------------------------------------------------------------------
(* An edit: the original is put, the row flagged and the job sent; the job  *)
(* reads the original and saves its thumbhash.                              *)

AtWork(p) == {e \in Retouch : RetouchOf[e] = p /\ retouch[e].pc \in {"put", "job", "read"}}

\* Somebody else holds the photo (ghost): a backfill may have read the original
\* before, another edit's job too.
RetouchPut(e) ==
    LET p == RetouchOf[e] IN
    /\ retouch[e].pc = "idle"
    /\ retouch' = [retouch EXCEPT ![e].pc = "put"]
    /\ rewritten' = [rewritten EXCEPT ![p] = @ + 1]
    /\ backfill' = [backfill EXCEPT !.crossed =
                      IF backfill.photo = {p} \/ AtWork(p) # {} THEN @ \cup {p} ELSE @ \ {p}]
    /\ UNCHANGED <<thumbhash, unready>> /\ DeploySame

\* The edit route flags the row: a job that is not sent, the periodic sweep sends.
RetouchFlags(e) ==
    /\ retouch[e].pc = "put"
    /\ retouch' = [retouch EXCEPT ![e].pc = "job"]
    /\ unready' = unready \cup {RetouchOf[e]}
    /\ UNCHANGED <<rewritten, thumbhash, backfill>> /\ DeploySame

\* The script flags nothing and sends the job itself.
RetouchSends(e) ==
    /\ retouch[e].pc = "put"
    /\ retouch' = [retouch EXCEPT ![e].pc = "job"]
    /\ UNCHANGED <<rewritten, thumbhash, unready, backfill>> /\ DeploySame

\* The process dies after its put, or the job has failed for good: nobody
\* computes anything again.
RetouchDies(e) ==
    /\ retouch[e].pc \in {"put", "read"}
    /\ retouch' = [retouch EXCEPT ![e].pc = "done"]
    /\ backfill' = [backfill EXCEPT !.crossed = @ \cup {RetouchOf[e]}]
    /\ UNCHANGED <<rewritten, thumbhash, unready>> /\ DeploySame

JobReadsOriginal(e) ==
    /\ retouch[e].pc = "job"
    /\ retouch' = [retouch EXCEPT ![e].pc = "read", ![e].read = rewritten[RetouchOf[e]]]
    /\ UNCHANGED <<rewritten, thumbhash, unready, backfill>> /\ DeploySame

\* finalizePhotoMetadata.  The job is retried if it is not completed then; one
\* that had expired has been retried before, and may save again.
JobSavesThumbhash(e) ==
    /\ retouch[e].pc = "read"
    /\ thumbhash' = [thumbhash EXCEPT ![RetouchOf[e]] = retouch[e].read]
    /\ unready' = unready \ {RetouchOf[e]}
    /\ \E pc \in {"done", "job", "read"} : retouch' = [retouch EXCEPT ![e].pc = pc]
    /\ UNCHANGED <<rewritten, backfill>> /\ DeploySame

\* A read or a save that failed.
JobIsRetried(e) ==
    /\ retouch[e].pc = "read"
    /\ retouch' = [retouch EXCEPT ![e].pc = "job"]
    /\ UNCHANGED <<rewritten, thumbhash, unready, backfill>> /\ DeploySame

DeployNext ==
    \/ \E u \in Up :
         \/ ComposeUp(u) \/ ReadApplied(u) \/ ApplyNext(u) \/ AllApplied(u)
         \/ RunFails(u) \/ EnsureBucket(u) \/ SeedAdmin(u) \/ StartApp(u)
    \/ Ship \/ Watchtower
    \/ StartBackfill \/ BackfillRead \/ BackfillWrite \/ BackfillSkips \/ BackfillEnds
    \/ \E e \in Retouch :
         \/ RetouchPut(e) \/ RetouchFlags(e) \/ RetouchSends(e) \/ RetouchDies(e)
         \/ JobReadsOriginal(e) \/ JobSavesThumbhash(e) \/ JobIsRetried(e)

DeploySpec == DeployInit /\ [][DeployNext]_deployVars

-----------------------------------------------------------------------------
(* Property.                                                                *)

\* Whoever runs the migrations, together, again or after a crash, every one
\* takes effect once and in the order of the files, an app that compose started
\* has all of its own, and as soon as there are roles and an admin there is one
\* owner (migrations/018).  A thumbhash, of a job or a backfill, describes the
\* original as it is or is to be computed again, unless the photo was edited
\* while a backfill or another edit was at it, or the edit or its job gave up.
MigratedOnce ==
    /\ \A m \in DOMAIN effect : effect[m] = IF m \in applied THEN 1 ELSE 0
    /\ \A m \in applied : Files(m) \subseteq applied
    /\ app.by = "compose" => Files(app.version) \subseteq applied
    /\ (RoleMigration \in applied /\ admins # <<>>) =>
         Cardinality({n \in DOMAIN admins : admins[n].role = "owner"}) = 1
    /\ \A p \in Original :
         thumbhash[p] \in {NULL, rewritten[p]} \/ AtWork(p) # {} \/ p \in backfill.crossed
=============================================================================
