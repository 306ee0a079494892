-------------------------------- MODULE Backup -------------------------------
(* The backup containers: pg-backup.sh dumps the database into three tiers  *)
(* and prunes them, minio-mirror.sh copies the bucket to cold storage, and  *)
(* entrypoint.sh runs a script once at boot and then hands it to cron.      *)
(* Both leave a manifest that storage-monitor.ts reads for /chikaq.         *)
EXTENDS Integers, FiniteSets

CONSTANTS
    Negative,               \* photos
    KeyAlbum,               \* the albums a photo may be in; its object key names one
    Inbox,                  \* the one photos are uploaded to (bound)
    LastDate,               \* bound on the days and the moves together
    Sunday, FirstOfMonth,   \* the days of a promotion
    KeepDaily, KeepWeekly, KeepMonthly,
    AllowDelete             \* MIRROR_ALLOW_DELETE

ASSUME BackupAssumption ==
    /\ LastDate \in Nat /\ {Sunday, FirstOfMonth} \subseteq SUBSET (0..LastDate)
    /\ {KeepDaily, KeepWeekly, KeepMonthly} \subseteq Nat \ {0}
    /\ AllowDelete \in BOOLEAN
    /\ Inbox \in KeyAlbum

Date == 0..LastDate
NoDate == -1
ObjectKey == KeyAlbum \X Negative     \* keys.ts: albums/<album>/<photo>
Dump == [day : Date, rows : SUBSET ObjectKey]
Debt == [keys : SUBSET ObjectKey, photos : SUBSET Negative]
NoDebt == [keys |-> {}, photos |-> {}]
Role == {"pg", "mirror"}
Tier == {"daily", "weekly", "monthly"}
Keep == [daily |-> KeepDaily, weekly |-> KeepWeekly, monthly |-> KeepMonthly]

VARIABLES
    date,
    gallery,    \* the rows of the database, each with the key it names
    hot,        \* the objects in MinIO
    shelf,      \* the dumps of each tier
    script,     \* pg-backup.sh
    manifest,   \* last-backup.json
    container,  \* "boot" until the first run succeeds, then "cron"
    ran,        \* the date of the last cron run of each role
    mirror,     \* minio-mirror.sh
    cold,       \* objects in cold storage
    mirrored,   \* what the last completed pass owed the dumps it followed (ghost)
    purged,     \* photos whose row was deleted
    moves       \* how many there were

backupVars == <<date, gallery, hot, shelf, script, manifest, container, ran, mirror, cold, mirrored, purged, moves>>

BackupTypeOK ==
    /\ date \in Date /\ gallery \subseteq ObjectKey /\ hot \subseteq ObjectKey
    /\ shelf \in [Tier -> SUBSET Dump]
    /\ script \in [pc : {"idle", "piping", "moved", "daily", "weekly", "monthly", "manifest", "exited"},
                   day : Date, rows : SUBSET ObjectKey]
    /\ manifest \in Date \cup {NoDate}
    /\ container \in [Role -> {"boot", "cron"}]
    /\ ran \in [Role -> Date \cup {NoDate}]
    /\ mirror \in [pc : {"idle", "copying", "exited"}, todo : SUBSET ObjectKey, after : Debt]
    /\ cold \subseteq ObjectKey /\ mirrored \in Debt /\ purged \subseteq Negative
    /\ moves \in Nat /\ date + moves <= LastDate

BackupInit ==
    /\ date = 0 /\ gallery = {} /\ hot = {} /\ cold = {} /\ mirrored = NoDebt /\ purged = {} /\ moves = 0
    /\ shelf = [t \in Tier |-> {}]
    /\ script = [pc |-> "idle", day |-> 0, rows |-> {}]
    /\ manifest = NoDate
    /\ container = [r \in Role |-> "boot"] /\ ran = [r \in Role |-> NoDate]
    /\ mirror = [pc |-> "idle", todo |-> {}, after |-> NoDebt]

-----------------------------------------------------------------------------
(* The rest of the system: an upload puts the object before the row, a      *)
(* purge takes both; a move to another album copies the object to a new     *)
(* key, points the row at it and deletes the old one.                       *)

ElsewhereSame == UNCHANGED <<date, shelf, script, manifest, container, ran, mirror, cold, mirrored>>

\* The keys among S under which p is.
KeysOf(p, S) == {k \in S : k[2] = p}

PhotoArrives(k) ==
    /\ k[1] = Inbox /\ k[2] \notin purged /\ KeysOf(k[2], gallery) = {}
    /\ gallery' = gallery \cup {k} /\ hot' = hot \cup {k}
    /\ ElsewhereSame /\ UNCHANGED <<purged, moves>>

PhotoPurged(k) ==
    /\ k \in gallery
    /\ gallery' = gallery \ {k} /\ hot' = hot \ {k}
    /\ purged' = purged \cup {k[2]}
    /\ ElsewhereSame /\ UNCHANGED moves

PhotoCopied(k, a) ==
    /\ k \in gallery /\ a # k[1]
    /\ date + moves < LastDate /\ moves' = moves + 1
    /\ hot' = hot \cup {<<a, k[2]>>}
    /\ ElsewhereSame /\ UNCHANGED <<gallery, purged>>

PhotoRepointed(k, a) ==
    /\ k \in gallery /\ a # k[1] /\ <<a, k[2]>> \in hot
    /\ gallery' = (gallery \ {k}) \cup {<<a, k[2]>>}
    /\ ElsewhereSame /\ UNCHANGED <<hot, purged, moves>>

\* The old key of a move, or the new one of a move that is undone.
PhotoSwept(k) ==
    /\ k \in hot \ gallery
    /\ hot' = hot \ {k}
    /\ ElsewhereSame /\ UNCHANGED <<gallery, purged, moves>>

DayPasses ==
    /\ date + moves < LastDate /\ date' = date + 1
    /\ UNCHANGED <<gallery, hot, shelf, script, manifest, container, ran, mirror, cold, mirrored, purged, moves>>

\* entrypoint.sh runs the script at boot; after that cron does, once a day.
Due(r) == container[r] = "boot" \/ ran[r] < date

-----------------------------------------------------------------------------
(* pg-backup.sh, under set -euo pipefail.                                   *)

ScriptSame == UNCHANGED <<date, gallery, hot, mirror, cold, mirrored, purged, moves>>

\* The names and the weekday are taken first; pg_dump reads one snapshot.
StartDump ==
    /\ script.pc \in {"idle", "exited"} /\ Due("pg")
    /\ script' = [pc |-> "piping", day |-> date, rows |-> gallery]
    /\ ran' = [ran EXCEPT !["pg"] = date]
    /\ ScriptSame /\ UNCHANGED <<shelf, manifest, container>>

\* mv -f of the whole file: a run on the same day replaces its dump.
MoveDump ==
    /\ script.pc = "piping"
    /\ shelf' = [shelf EXCEPT !["daily"] = {d \in @ : d.day # script.day}
                                  \cup {[day |-> script.day, rows |-> script.rows]}]
    /\ script' = [script EXCEPT !.pc = "moved"]
    /\ ScriptSame /\ UNCHANGED <<manifest, container, ran>>

Promoted(t, days) ==
    IF script.day \in days
    THEN {d \in shelf[t] : d.day # script.day} \cup {[day |-> script.day, rows |-> script.rows]}
    ELSE shelf[t]

Promote ==
    /\ script.pc = "moved"
    /\ shelf' = [shelf EXCEPT !["weekly"] = Promoted("weekly", Sunday),
                              !["monthly"] = Promoted("monthly", FirstOfMonth)]
    /\ script' = [script EXCEPT !.pc = "daily"]
    /\ ScriptSame /\ UNCHANGED <<manifest, container, ran>>

\* ls -1t | tail -n +(keep + 1): what is not among the newest n is removed.
Newest(s, n) == {d \in s : Cardinality({e \in s : e.day > d.day}) < n}

After == [daily |-> "weekly", weekly |-> "monthly", monthly |-> "manifest"]

\* grep finds no file in an empty tier and exits 1, and with pipefail and
\* set -e the script ends there.
Prune ==
    /\ script.pc \in Tier
    /\ IF shelf[script.pc] = {}
       THEN /\ script' = [script EXCEPT !.pc = "exited"]
            /\ UNCHANGED shelf
       ELSE /\ shelf' = [shelf EXCEPT ![script.pc] = Newest(@, Keep[script.pc])]
            /\ script' = [script EXCEPT !.pc = After[@]]
    /\ ScriptSame /\ UNCHANGED <<manifest, container, ran>>

WriteManifest ==
    /\ script.pc = "manifest"
    /\ manifest' = date
    /\ script' = [script EXCEPT !.pc = "idle"]
    /\ container' = [container EXCEPT !["pg"] = "cron"]
    /\ ScriptSame /\ UNCHANGED <<shelf, ran>>

\* The database, the disk or the container goes; a restart boots again.
DumpDies ==
    /\ script.pc \notin {"idle", "exited"} \/ container["pg"] = "cron"
    /\ script' = [script EXCEPT !.pc = "idle"]
    /\ container' = [container EXCEPT !["pg"] = "boot"]
    /\ ScriptSame /\ UNCHANGED <<shelf, manifest, ran>>

-----------------------------------------------------------------------------
(* minio-mirror.sh.                                                         *)

MirrorSame == UNCHANGED <<date, gallery, hot, shelf, script, manifest, purged, moves>>

\* The keys the dumps on the shelves name.
Dumped == UNION {d.rows : d \in UNION {shelf[t] : t \in Tier}}

\* What a pass owes the dumps on the shelves: every key they name that is
\* still there or was copied before, and the bytes, under whatever key, of
\* every photo they have a row for that was not purged uncopied.
Owed == [keys |-> Dumped \cap (hot \cup cold),
         photos |-> {p \in Negative : /\ KeysOf(p, Dumped) # {}
                                      /\ p \notin purged \/ KeysOf(p, cold) # {}}]

StartMirror ==
    /\ mirror.pc \in {"idle", "exited"} /\ Due("mirror")
    /\ mirror' = [pc |-> "copying", todo |-> hot \ cold, after |-> Owed]
    /\ ran' = [ran EXCEPT !["mirror"] = date]
    /\ MirrorSame /\ UNCHANGED <<container, cold, mirrored>>

CopyObject(k) ==
    /\ mirror.pc = "copying" /\ k \in mirror.todo \cap hot
    /\ cold' = cold \cup {k}
    /\ mirror' = [mirror EXCEPT !.todo = @ \ {k}]
    /\ MirrorSame /\ UNCHANGED <<container, ran, mirrored>>

\* --remove only when it is asked for.
Swept(s) == IF AllowDelete THEN s \cap hot ELSE s

\* Mutant: a failed transfer does not fail the pass.
PassDoneAnyway == mirror.pc = "copying"

PassDone == mirror.pc = "copying" /\ mirror.todo = {}

FinishMirror ==
    /\ PassDone
    /\ cold' = Swept(cold)
    /\ mirrored' = mirror.after
    /\ mirror' = [mirror EXCEPT !.pc = "idle"]
    /\ container' = [container EXCEPT !["mirror"] = "cron"]
    /\ MirrorSame /\ UNCHANGED ran

\* A transfer fails (an object gone since it was listed cannot be read), or
\* the container dies: mc exits non-zero and no manifest is written.
MirrorDies ==
    /\ mirror.pc = "copying"
    /\ mirror' = [mirror EXCEPT !.pc = "exited"]
    /\ MirrorSame /\ UNCHANGED <<container, ran, cold, mirrored>>

BackupNext ==
    \/ \E k \in ObjectKey : PhotoArrives(k) \/ PhotoPurged(k) \/ PhotoSwept(k) \/ CopyObject(k)
    \/ \E k \in ObjectKey, a \in KeyAlbum : PhotoCopied(k, a) \/ PhotoRepointed(k, a)
    \/ DayPasses \/ StartDump \/ MoveDump \/ Promote \/ Prune \/ WriteManifest \/ DumpDies
    \/ StartMirror \/ FinishMirror \/ MirrorDies

BackupSpec == BackupInit /\ [][BackupNext]_backupVars

-----------------------------------------------------------------------------
(* Properties.                                                              *)

\* What the dumps had a row for when the last pass began that was completed,
\* is in cold storage: under the key the row names, unless a purge or a move
\* had taken that key away uncopied by then; and, wherever moves took the
\* photo between the dump and the pass or during it, under some key, unless
\* it had been purged uncopied.  And no crash or prune loses a recent dump:
\* one of the last KeepDaily days is in the daily tier once it was put there.
BackupsCanRestore ==
    /\ mirrored.keys \subseteq cold
    /\ \A p \in mirrored.photos : KeysOf(p, cold) # {}
    /\ \A d \in shelf["weekly"] \cup shelf["monthly"] : 
         d.day + KeepDaily > date => d.day \in {e.day : e \in shelf["daily"]}

\* The script writes the manifest after every run that got its dump in place
\* (a crash apart).  False: a tier that is still empty ends every run.
ManifestFollowsDump == script.pc = "exited" => manifest >= script.day
=============================================================================
