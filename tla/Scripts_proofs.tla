---------------------------- MODULE Scripts_proofs ----------------------------
(***************************************************************************)
(* Theorems about the scripts beside the app: Deploy, for any number of     *)
(* migrations, runs of compose and photos; ImportAlbum, for any folder,     *)
(* number of forms and of tries; Backup, for any photos, days and numbers   *)
(* of dumps kept.                                                           *)
(***************************************************************************)
EXTENDS Deploy, ImportAlbum, Backup, FiniteSetTheorems, SequenceTheorems, TLAPS

-----------------------------------------------------------------------------
(* The parts of the invariant.                                              *)

VersionCount == Len(Migrations)
AdminRow == [email : {Legacy} \cup {EmailOf[u] : u \in Up}, role : {"none", "owner", "admin"}]
Run == [pc : {"idle", "started", "applying", "bucket", "seed", "done", "up", "failed"},
        version : {0} \cup ShippedVersion, todo : SUBSET Files(VersionCount)]

RunsTyped ==
    /\ latest \in ShippedVersion
    /\ up \in [Up -> Run]
    /\ effect \in [Files(VersionCount) -> Int]
    /\ app \in [by : {"nobody", "compose", "watchtower"}, version : {0} \cup ShippedVersion]

\* The migrations that took effect are the first ones, each once.
AppliedOK ==
    /\ \E j \in 0..VersionCount : applied = 1..j
    /\ \A m \in Files(VersionCount) : effect[m] = IF m \in applied THEN 1 ELSE 0

\* What is left to a run is the rest of its files; the others are applied.
Applying(u) ==
    /\ up[u].version \in ShippedVersion
    /\ \E k \in 0..up[u].version : up[u].todo = (k + 1)..up[u].version /\ Files(k) \subseteq applied

ContainersOK ==
    /\ \A u \in Up : up[u].pc # "idle" => up[u].version \in ShippedVersion
    /\ \A u \in Up : up[u].pc = "applying" => Applying(u)
    /\ \A u \in Up : up[u].pc \in {"bucket", "seed", "done"} => Files(up[u].version) \subseteq applied
    /\ app.by = "compose" => Files(app.version) \subseteq applied

\* Once there are roles, there is one owner among the admins.
OneOwner(s) ==
    \E n \in DOMAIN s : s[n].role = "owner" /\ \A i \in DOMAIN s : i # n => s[i].role # "owner"

AdminsOK ==
    /\ admins \in Seq(AdminRow)
    /\ (RoleMigration \in applied /\ admins # <<>>) => OneOwner(admins)

RunInv == RunsTyped /\ AppliedOK /\ ContainersOK /\ AdminsOK

\* What a backfill or a job has read is the original as it is, unless it was
\* overtaken; a thumbhash too, or a job is to come.
ThumbInv ==
    /\ rewritten \in [Original -> Nat]
    /\ thumbhash \in [Original -> {NULL} \cup Nat]
    /\ unready \subseteq Original
    /\ retouch \in [Retouch -> [pc : {"idle", "put", "job", "read", "done"}, read : Nat]]
    /\ backfill \in [pc : {"idle", "running", "read"}, todo : SUBSET Original,
                     photo : SUBSET Original, read : Nat, crossed : SUBSET Original]
    /\ backfill.photo = {} \/ \E p \in Original : backfill.photo = {p}
    /\ \A p \in backfill.photo : backfill.read = rewritten[p] \/ p \in backfill.crossed
    /\ \A e \in Retouch : retouch[e].pc = "read" =>
         (retouch[e].read = rewritten[RetouchOf[e]] \/ RetouchOf[e] \in backfill.crossed)
    /\ \A p \in Original :
         thumbhash[p] \in {NULL, rewritten[p]} \/ AtWork(p) # {} \/ p \in backfill.crossed

-----------------------------------------------------------------------------
(* The numbers of the migrations.                                           *)
LEMMA DeployConstants ==
    /\ VersionCount \in Nat /\ FirstVersion \in 1..VersionCount /\ RoleMigration \in 1..FirstVersion
    /\ ShippedVersion = FirstVersion..VersionCount
    /\ RetouchOf \in [Retouch -> Original]
BY DeployAssumption DEF VersionCount, ShippedVersion

(* Among admins with one owner the owner's row is the only one.             *)
LEMMA CountOwner ==
    ASSUME NEW s, OneOwner(s)
    PROVE  Cardinality({n \in DOMAIN s : s[n].role = "owner"}) = 1
<1>1. PICK n \in DOMAIN s : s[n].role = "owner" /\ \A i \in DOMAIN s : i # n => s[i].role # "owner"
  BY DEF OneOwner
<1>2. {i \in DOMAIN s : s[i].role = "owner"} = {n}
  BY <1>1
<1>3. QED
  BY <1>2, FS_Singleton

(* Roles make the oldest admin the owner, and only him.                     *)
LEMMA RolesMakeOwner ==
    ASSUME NEW m, admins \in Seq(AdminRow)
    PROVE  /\ WithRoles(m) \in Seq(AdminRow)
           /\ m # RoleMigration => WithRoles(m) = admins
           /\ (m = RoleMigration /\ WithRoles(m) # <<>>) => OneOwner(WithRoles(m))
<1>1. CASE m # RoleMigration
  BY <1>1 DEF WithRoles
<1>2. CASE m = RoleMigration
  <2>1. /\ Len(admins) \in Nat /\ DOMAIN admins = 1..Len(admins)
        /\ \A n \in 1..Len(admins) : admins[n] \in AdminRow
    BY LenProperties, ElementOfSeq
  <2> DEFINE row(n) == [admins[n] EXCEPT !.role = IF n = 1 THEN "owner" ELSE "admin"]
  <2>2. WithRoles(m) = [n \in 1..Len(admins) |-> row(n)]
    BY <1>2, <2>1 DEF WithRoles
  <2>3. \A n \in 1..Len(admins) : row(n) \in AdminRow /\ (row(n).role = "owner" <=> n = 1)
    BY <2>1 DEF AdminRow
  <2> HIDE DEF row
  <2>4. WithRoles(m) \in Seq(AdminRow)
    BY <2>1, <2>2, <2>3
  <2>5. ASSUME WithRoles(m) # <<>> PROVE OneOwner(WithRoles(m))
    <3>1. 1 \in 1..Len(admins)
      <4>1. CASE Len(admins) = 0
        BY <2>1, <2>2, <2>4, <2>5, <4>1
      <4>2. QED
        BY <2>1, <4>1
    <3>2. DOMAIN WithRoles(m) = 1..Len(admins)
      BY <2>2
    <3>3. \A n \in 1..Len(admins) : WithRoles(m)[n].role = "owner" <=> n = 1
      BY <2>2, <2>3
    <3>4. QED
      BY <3>1, <3>2, <3>3 DEF OneOwner
  <2>6. QED
    BY <1>2, <2>4, <2>5
<1>3. QED
  BY <1>1, <1>2

(* The next file is the first that is left.                                 *)
LEMMA NextMigration ==
    ASSUME NEW v \in Nat, NEW k \in 0..v, (k + 1)..v # {}
    PROVE  (CHOOSE m \in (k + 1)..v : \A other \in (k + 1)..v : m <= other) = k + 1
<1>1. k + 1 \in (k + 1)..v /\ \A other \in (k + 1)..v : k + 1 <= other
  OBVIOUS
<1>2. \A m \in (k + 1)..v : (\A other \in (k + 1)..v : m <= other) => m = k + 1
  BY <1>1
<1>3. QED
  BY <1>1, <1>2

-----------------------------------------------------------------------------
(* The first state: an empty database, or an earlier deployment's.          *)
LEMMA RunInit == DeployInit => RunInv
<1> SUFFICES ASSUME DeployInit PROVE RunInv
  OBVIOUS
<1>1. RunsTyped
  <2>1. \A u \in Up : up[u] \in Run
    BY DEF DeployInit, Run
  <2>2. QED
    BY <2>1, DeployConstants DEF DeployInit, RunsTyped, VersionCount
<1>2. PICK n \in 0..FirstVersion :
        /\ applied = 1..n
        /\ admins \in {<<>>} \cup IF n = 0 THEN {} ELSE {<<[email |-> Legacy, role |-> IF n < RoleMigration THEN "none" ELSE "owner"]>>}
  BY DEF DeployInit
<1>3. AppliedOK
  BY <1>2, DeployConstants DEF DeployInit, AppliedOK, VersionCount
<1>4. ContainersOK
  BY DEF DeployInit, ContainersOK
<1>5. AdminsOK
  <2> DEFINE row == [email |-> Legacy, role |-> IF n < RoleMigration THEN "none" ELSE "owner"]
  <2>1. CASE admins = <<>>
    BY <2>1 DEF AdminsOK
  <2>2. CASE admins = <<row>>
    <3>1. row \in AdminRow /\ (RoleMigration \in applied => row.role = "owner")
      BY <1>2, DeployConstants DEF AdminRow
    <3>2. admins \in Seq(AdminRow) /\ DOMAIN admins = {1} /\ admins[1] = row
      BY <2>2, <3>1
    <3>3. QED
      BY <3>1, <3>2 DEF AdminsOK, OneOwner
  <2>3. QED
    BY <1>2, <2>1, <2>2
<1>6. QED
  BY <1>1, <1>3, <1>4, <1>5 DEF RunInv

(* A run moves on, and the database stays as it is.                         *)
LEMMA RunMoves ==
    ASSUME RunInv, NEW u \in Up, NEW r \in Run, up' = [up EXCEPT ![u] = r],
           UNCHANGED <<latest, applied, effect, admins, app>>,
           r.pc # "idle" => r.version \in ShippedVersion,
           r.pc = "applying" =>
             \E k \in 0..r.version : r.todo = (k + 1)..r.version /\ Files(k) \subseteq applied,
           r.pc \in {"bucket", "seed", "done"} => Files(r.version) \subseteq applied
    PROVE  RunInv'
<1>1. /\ up'[u] = r
      /\ \A v \in Up : v # u => up'[v] = up[v]
  BY DEF RunInv, RunsTyped
<1>2. RunsTyped'
  BY <1>1 DEF RunInv, RunsTyped
<1>3. AppliedOK' /\ AdminsOK'
  BY DEF RunInv, AppliedOK, AdminsOK, OneOwner
<1>4. ContainersOK'
  BY <1>1 DEF RunInv, ContainersOK, Applying
<1>5. QED
  BY <1>2, <1>3, <1>4 DEF RunInv

(* The steps of a run that change nothing else, or the bucket.              *)
LEMMA RunStep ==
    ASSUME RunInv, NEW u \in Up,
           ComposeUp(u) \/ ReadApplied(u) \/ AllApplied(u) \/ RunFails(u) \/ EnsureBucket(u)
    PROVE  RunInv'
<1>1. up[u] \in Run /\ latest \in ShippedVersion
  BY DEF RunInv, RunsTyped
<1>2. UNCHANGED <<latest, applied, effect, admins, app>>
  BY DEF ComposeUp, ReadApplied, AllApplied, RunFails, EnsureBucket
<1>3. \A v \in ShippedVersion : v \in Nat /\ v \in 0..VersionCount
  BY DeployConstants
<1>4. CASE ComposeUp(u)
  <2>1. up' = [up EXCEPT ![u] = [up[u] EXCEPT !.pc = "started", !.version = latest]]
    BY <1>4 DEF ComposeUp
  <2>2. [up[u] EXCEPT !.pc = "started", !.version = latest] \in Run
    BY <1>1 DEF Run
  <2>3. QED
    BY <1>1, <1>2, <2>1, <2>2, RunMoves DEF Run
<1>5. CASE ReadApplied(u)
  <2> DEFINE r == [up[u] EXCEPT !.pc = "applying", !.todo = Files(up[u].version) \ applied]
  <2>1. up' = [up EXCEPT ![u] = r]
    BY <1>5 DEF ReadApplied
  <2>2. up[u].version \in ShippedVersion
    BY <1>5 DEF ReadApplied, RunInv, ContainersOK
  <2>3. Files(up[u].version) \ applied \subseteq Files(VersionCount)
    BY <1>3, <2>2, DeployConstants DEF Files
  <2>4. r \in Run /\ r.pc = "applying" /\ r.version = up[u].version
        /\ r.todo = Files(up[u].version) \ applied
    BY <1>1, <2>3 DEF Run
  <2>5. PICK j \in 0..VersionCount : applied = 1..j
    BY DEF RunInv, AppliedOK
  <2>6. \E k \in 0..up[u].version : Files(up[u].version) \ applied = (k + 1)..up[u].version
                                   /\ Files(k) \subseteq applied
    <3>1. CASE j <= up[u].version
      BY <1>3, <2>2, <2>5, <3>1, DeployConstants DEF Files
    <3>2. CASE ~(j <= up[u].version)
      <4>1. Files(up[u].version) \ applied = (up[u].version + 1)..up[u].version
        BY <1>3, <2>2, <2>5, <3>2, DeployConstants DEF Files
      <4>2. Files(up[u].version) \subseteq applied /\ up[u].version \in 0..up[u].version
        BY <1>3, <2>2, <2>5, <3>2, DeployConstants DEF Files
      <4>3. QED
        BY <4>1, <4>2
    <3>3. QED
      BY <3>1, <3>2
  <2> HIDE DEF r
  <2>7. QED
    BY <1>2, <2>1, <2>2, <2>4, <2>6, RunMoves
<1>6. CASE AllApplied(u)
  <2>1. up' = [up EXCEPT ![u] = [up[u] EXCEPT !.pc = "bucket"]]
    BY <1>6 DEF AllApplied
  <2>2. up[u].version \in ShippedVersion /\ Files(up[u].version) \subseteq applied
    <3>1. PICK k \in 0..up[u].version : /\ up[u].todo = (k + 1)..up[u].version
                                        /\ Files(k) \subseteq applied
      BY <1>6 DEF AllApplied, RunInv, ContainersOK, Applying
    <3>2. up[u].version \in ShippedVersion /\ up[u].todo = {}
      BY <1>6 DEF AllApplied, RunInv, ContainersOK
    <3>3. k = up[u].version
      <4>1. up[u].version \in Nat /\ k \in Nat /\ k <= up[u].version
        BY <1>3, <3>1, <3>2
      <4>2. k + 1 \notin (k + 1)..up[u].version
        BY <3>1, <3>2
      <4>3. QED
        BY <4>1, <4>2
    <3>4. QED
      BY <3>1, <3>2, <3>3
  <2>3. [up[u] EXCEPT !.pc = "bucket"] \in Run
    BY <1>1 DEF Run
  <2>4. QED
    BY <1>1, <1>2, <2>1, <2>2, <2>3, RunMoves DEF Run
<1>7. CASE RunFails(u)
  <2>1. up' = [up EXCEPT ![u] = [up[u] EXCEPT !.pc = "failed"]]
    BY <1>7 DEF RunFails
  <2>2. [up[u] EXCEPT !.pc = "failed"] \in Run /\ up[u].version \in ShippedVersion
    BY <1>1, <1>7 DEF Run, RunFails, RunInv, ContainersOK
  <2>3. QED
    BY <1>1, <1>2, <2>1, <2>2, RunMoves DEF Run
<1>8. CASE EnsureBucket(u)
  <2>1. up' = [up EXCEPT ![u] = [up[u] EXCEPT !.pc = "seed"]]
    BY <1>8 DEF EnsureBucket
  <2>2. /\ [up[u] EXCEPT !.pc = "seed"] \in Run /\ up[u].version \in ShippedVersion
        /\ Files(up[u].version) \subseteq applied
    BY <1>1, <1>8 DEF Run, EnsureBucket, RunInv, ContainersOK
  <2>3. QED
    BY <1>1, <1>2, <2>1, <2>2, RunMoves DEF Run
<1>9. QED
  BY <1>4, <1>5, <1>6, <1>7, <1>8

(* A file is applied with its row: the next after the applied ones, or one  *)
(* another run has applied, which ends this run.                            *)
LEMMA ApplyStep == ASSUME RunInv, NEW u \in Up, ApplyNext(u) PROVE RunInv'
<1>1. /\ up[u] \in Run /\ up[u].version \in ShippedVersion /\ up[u].version \in Nat
      /\ up[u].version <= VersionCount
  BY DeployConstants DEF ApplyNext, RunInv, RunsTyped, ContainersOK
<1>2. PICK k \in 0..up[u].version : /\ up[u].todo = (k + 1)..up[u].version
                                    /\ Files(k) \subseteq applied
  BY DEF ApplyNext, RunInv, ContainersOK, Applying
<1>3. PICK j \in 0..VersionCount : applied = 1..j
  BY DEF RunInv, AppliedOK
<1> DEFINE m == CHOOSE i \in up[u].todo : \A other \in up[u].todo : i <= other
<1>4. m = k + 1 /\ k + 1 \in up[u].todo
  BY <1>1, <1>2, NextMigration DEF ApplyNext
<1>5. /\ m \in Files(VersionCount) /\ m \in Nat /\ k <= j
  <2>1. k \in Nat /\ j \in Nat /\ VersionCount \in Nat /\ k + 1 <= up[u].version
    BY <1>1, <1>2, <1>3, <1>4, DeployConstants
  <2>2. m \in Files(VersionCount) /\ m \in Nat
    <3>1. k + 1 \in Files(VersionCount) /\ k + 1 \in Nat
      BY <1>1, <2>1 DEF Files
    <3>2. QED
      BY <1>4, <3>1, Zenon
  <2>3. k <= j
    <3>1. CASE k = 0
      BY <2>1, <3>1
    <3>2. CASE k # 0
      <4>1. k \in 1..k
        BY <2>1, <3>2
      <4>2. QED
        BY <1>2, <1>3, <2>1, <4>1 DEF Files
    <3>3. QED
      BY <3>1, <3>2
  <2>4. QED
    BY <2>2, <2>3
<1>6. /\ UNCHANGED <<latest, app>>
      /\ IF m \in applied
         THEN up' = [up EXCEPT ![u].pc = "failed"] /\ UNCHANGED <<applied, effect, admins>>
         ELSE CommitMigration(m) /\ up' = [up EXCEPT ![u].todo = @ \ {m}]
  BY DEF ApplyNext
<1> HIDE DEF m
<1>7. CASE m \in applied
  <2>1. up' = [up EXCEPT ![u] = [up[u] EXCEPT !.pc = "failed"]]
    BY <1>6, <1>7
  <2>2. [up[u] EXCEPT !.pc = "failed"] \in Run
    BY <1>1 DEF Run
  <2>3. QED
    BY <1>1, <1>6, <1>7, <2>1, <2>2, RunMoves DEF Run
<1>8. CASE m \notin applied
  <2>1. k = j /\ m = j + 1
    BY <1>3, <1>4, <1>5, <1>8, DeployConstants
  <2>2. applied' = applied \cup {m} /\ applied' = 1..(j + 1) /\ j + 1 \in 0..VersionCount
    <3>1. applied' = applied \cup {m}
      BY <1>6, <1>8 DEF CommitMigration
    <3>2. j + 1 \in 0..VersionCount /\ j \in Nat
      BY <1>3, <1>5, <2>1, DeployConstants DEF Files
    <3>3. (1..j) \cup {j + 1} = 1..(j + 1)
      BY <3>2
    <3>4. QED
      BY <1>3, <2>1, <3>1, <3>2, <3>3
  <2>3. effect' = [effect EXCEPT ![m] = @ + 1] /\ admins' = WithRoles(m)
    BY <1>6, <1>8 DEF CommitMigration
  <2>4. AppliedOK'
    <3>1. ASSUME NEW i \in Files(VersionCount) PROVE effect'[i] = IF i \in applied' THEN 1 ELSE 0
      <4>1. effect[i] = IF i \in applied THEN 1 ELSE 0
        BY DEF RunInv, AppliedOK
      <4>2. CASE i = m
        BY <1>5, <1>8, <2>2, <2>3, <4>1, <4>2 DEF RunInv, RunsTyped
      <4>3. CASE i # m
        BY <2>2, <2>3, <4>1, <4>3 DEF RunInv, RunsTyped
      <4>4. QED
        BY <4>2, <4>3
    <3>2. QED
      BY <2>2, <3>1 DEF AppliedOK, VersionCount, Files
  <2>5. AdminsOK'
    <3>1. CASE m = RoleMigration
      BY <2>3, <3>1, RolesMakeOwner DEF RunInv, AdminsOK
    <3>2. CASE m # RoleMigration
      <4>1. admins' = admins
        BY <2>3, <3>2, RolesMakeOwner DEF RunInv, AdminsOK
      <4>2. RoleMigration \in applied' => RoleMigration \in applied
        BY <2>2, <3>2
      <4>3. QED
        BY <4>1, <4>2 DEF RunInv, AdminsOK, OneOwner
    <3>3. QED
      BY <3>1, <3>2
  <2> DEFINE r == [up[u] EXCEPT !.todo = @ \ {m}]
  <2>6. up' = [up EXCEPT ![u] = r]
    BY <1>6, <1>8
  <2>7. /\ r \in Run /\ r.pc = up[u].pc /\ r.version = up[u].version
        /\ r.todo = up[u].todo \ {m}
    BY <1>1 DEF Run
  <2> HIDE DEF r
  <2>8. /\ up'[u] = r /\ \A v \in Up : v # u => up'[v] = up[v]
    BY <2>6 DEF RunInv, RunsTyped
  <2>9. RunsTyped'
    <3>1. effect' \in [Files(VersionCount) -> Int]
      BY <1>5, <2>3 DEF RunInv, RunsTyped
    <3>2. up' \in [Up -> Run]
      BY <2>6, <2>7 DEF RunInv, RunsTyped
    <3>3. QED
      BY <1>6, <3>1, <3>2 DEF RunInv, RunsTyped
  <2>10. Applying(u)'
    <3>1. r.todo = (k + 2)..r.version /\ k + 1 \in 0..r.version
      BY <1>1, <1>2, <1>4, <2>7
    <3>2. Files(k + 1) \subseteq applied'
      BY <2>1, <2>2 DEF Files
    <3>3. k + 2 = (k + 1) + 1
      BY <1>2
    <3>4. QED
      BY <1>1, <2>7, <2>8, <3>1, <3>2, <3>3 DEF Applying
  <2>11. ContainersOK'
    <3>1. applied \subseteq applied'
      BY <2>2
    <3>2. up[u].pc = "applying"
      BY DEF ApplyNext
    <3>3. ASSUME NEW v \in Up, up'[v].pc = "applying" PROVE Applying(v)'
      <4>1. CASE v = u
        BY <2>10, <4>1
      <4>2. CASE v # u
        BY <2>8, <3>1, <3>3, <4>2 DEF RunInv, ContainersOK, Applying
      <4>3. QED
        BY <4>1, <4>2
    <3>4. QED
      BY <1>1, <1>6, <2>7, <2>8, <3>1, <3>2, <3>3 DEF RunInv, ContainersOK
  <2>12. QED
    BY <2>4, <2>5, <2>9, <2>11 DEF RunInv
<1>9. QED
  BY <1>7, <1>8

(* The seed appends an owner where there is none, and the app starts behind *)
(* a finished run.                                                          *)
LEMMA SeedStep == ASSUME RunInv, NEW u \in Up, SeedAdmin(u) \/ StartApp(u) PROVE RunInv'
<1>1. up[u] \in Run /\ up[u].version \in ShippedVersion /\ Files(up[u].version) \subseteq applied
  BY DEF SeedAdmin, StartApp, RunInv, RunsTyped, ContainersOK
<1>2. UNCHANGED <<latest, applied, effect>> /\ AppliedOK'
  BY DEF SeedAdmin, StartApp, RunInv, AppliedOK
<1>3. PICK pc \in {"done", "up"} : up' = [up EXCEPT ![u] = [up[u] EXCEPT !.pc = pc]]
  BY DEF SeedAdmin, StartApp
<1> DEFINE r == [up[u] EXCEPT !.pc = pc]
<1>4. r \in Run /\ r.pc = pc /\ r.version = up[u].version
  BY <1>1 DEF Run
<1> HIDE DEF r
<1>5. up'[u] = r /\ \A v \in Up : v # u => up'[v] = up[v]
  BY <1>3 DEF RunInv, RunsTyped, r
<1>6. up' \in [Up -> Run]
  BY <1>3, <1>4 DEF RunInv, RunsTyped, r
<1>7. /\ app' \in [by : {"nobody", "compose", "watchtower"}, version : {0} \cup ShippedVersion]
      /\ app' = app \/ app'.version = up[u].version
  BY <1>1 DEF SeedAdmin, StartApp, RunInv, RunsTyped
<1>8. RunsTyped' /\ ContainersOK'
  BY <1>1, <1>2, <1>4, <1>5, <1>6, <1>7 DEF RunInv, RunsTyped, ContainersOK, Applying
<1>9. AdminsOK'
  <2>1. CASE UNCHANGED admins
    BY <1>2, <2>1 DEF RunInv, AdminsOK, OneOwner
  <2>2. CASE ~UNCHANGED admins
    <3>1. SeedAdmin(u)
      BY <2>2 DEF StartApp
    <3> DEFINE e == [email |-> EmailOf[u],
                     role |-> IF \E n \in DOMAIN admins : admins[n].role = "owner"
                              THEN "admin" ELSE "owner"]
    <3>2. admins' = Append(admins, e) /\ e \in AdminRow
      BY <2>2, <3>1 DEF SeedAdmin, AdminRow
    <3>3. e.role = IF \E n \in DOMAIN admins : admins[n].role = "owner" THEN "admin" ELSE "owner"
      OBVIOUS
    <3> HIDE DEF e
    <3>4. /\ admins \in Seq(AdminRow) /\ Len(admins) \in Nat
          /\ DOMAIN admins = 1..Len(admins)
      BY LenProperties DEF RunInv, AdminsOK
    <3>5. /\ admins' \in Seq(AdminRow) /\ DOMAIN admins' = 1..(Len(admins) + 1)
          /\ \A i \in 1..Len(admins) : admins'[i] = admins[i]
          /\ admins'[Len(admins) + 1] = e
      BY <3>2, <3>4, AppendProperties, LenProperties
    <3>6. RoleMigration \in applied
      BY <1>1, DeployConstants DEF Files
    <3>7. OneOwner(admins')
      <4>1. CASE admins = <<>>
        BY <3>3, <3>4, <3>5, <4>1 DEF OneOwner
      <4>2. CASE admins # <<>>
        BY <3>3, <3>4, <3>5, <3>6, <4>2 DEF OneOwner, RunInv, AdminsOK
      <4>3. QED
        BY <4>1, <4>2
    <3>8. QED
      BY <3>5, <3>7 DEF AdminsOK, OneOwner
  <2>3. QED
    BY <2>1, <2>2
<1>10. QED
  BY <1>2, <1>8, <1>9 DEF RunInv

(* A new version, and an app that takes it without its migrations.          *)
LEMMA ShipStep == ASSUME RunInv, Ship \/ Watchtower PROVE RunInv'
<1>1. UNCHANGED <<applied, effect, up, admins>>
  BY DEF Ship, Watchtower
<1>2. latest' \in ShippedVersion
  BY DeployConstants DEF Ship, Watchtower, RunInv, RunsTyped, VersionCount
<1>3. /\ app' \in [by : {"nobody", "compose", "watchtower"}, version : {0} \cup ShippedVersion]
      /\ app'.by = "compose" => app' = app
  BY DEF Ship, Watchtower, RunInv, RunsTyped
<1>4. RunsTyped'
  BY <1>1, <1>2, <1>3 DEF RunInv, RunsTyped
<1>5. AppliedOK'
  BY <1>1 DEF RunInv, AppliedOK, VersionCount, Files
<1>6. AdminsOK'
  BY <1>1 DEF RunInv, AdminsOK, OneOwner
<1>7. \A u \in Up : Applying(u) => Applying(u)'
  BY <1>1 DEF Applying, Files
<1>8. ContainersOK'
  BY <1>1, <1>3, <1>7 DEF RunInv, ContainersOK, Files
<1> QED BY <1>4, <1>5, <1>6, <1>8 DEF RunInv

(* The thumbhashes.                                                         *)

(* A backfill writes what it has read, or what an edit overtook.            *)
LEMMA BackfillStep ==
    ASSUME ThumbInv,
           \/ StartBackfill \/ BackfillRead \/ BackfillWrite \/ BackfillSkips \/ BackfillEnds
    PROVE  ThumbInv'
<1>0. UNCHANGED <<rewritten, unready, retouch>> /\ \A p \in Original : AtWork(p)' = AtWork(p)
  BY DEF StartBackfill, BackfillRead, BackfillWrite, BackfillSkips, BackfillEnds, AtWork
<1>1. CASE StartBackfill
  BY <1>0, <1>1 DEF StartBackfill, ThumbInv
<1>2. CASE BackfillRead
  <2>1. PICK p \in Original :
          backfill' = [backfill EXCEPT !.pc = "read", !.photo = {p}, !.read = rewritten[p],
                                       !.todo = backfill.todo \ {p}]
    BY <1>2 DEF BackfillRead, ThumbInv
  <2>2. UNCHANGED thumbhash /\ rewritten[p] \in Nat
    BY <1>2 DEF BackfillRead, ThumbInv
  <2>3. QED
    BY <1>0, <2>1, <2>2 DEF ThumbInv
<1>3. CASE BackfillWrite
  BY <1>0, <1>3 DEF BackfillWrite, ThumbInv
<1>4. CASE BackfillSkips
  BY <1>0, <1>4 DEF BackfillSkips, ThumbInv
<1>5. CASE BackfillEnds
  BY <1>0, <1>5 DEF BackfillEnds, ThumbInv
<1>6. QED
  BY <1>1, <1>2, <1>3, <1>4, <1>5

(* An edit is at work from its put on; whoever has read the original before *)
(* is overtaken.                                                            *)
LEMMA PutStep == ASSUME ThumbInv, NEW e \in Retouch, RetouchPut(e) PROVE ThumbInv'
<1> DEFINE p == RetouchOf[e]
<1>1. /\ p \in Original /\ retouch[e].pc = "idle"
      /\ retouch' = [retouch EXCEPT ![e].pc = "put"]
      /\ rewritten' = [rewritten EXCEPT ![p] = rewritten[p] + 1]
      /\ UNCHANGED <<thumbhash, unready>>
  BY DeployConstants DEF RetouchPut
<1>2. rewritten' \in [Original -> Nat] /\ \A q \in Original : q # p => rewritten'[q] = rewritten[q]
  BY <1>1 DEF ThumbInv
<1>3. e \in AtWork(p)'
  BY <1>1 DEF AtWork, ThumbInv
<1>4. \A q \in Original : q # p => AtWork(q)' = AtWork(q)
  BY <1>1 DEF AtWork, ThumbInv
<1>5. retouch' \in [Retouch -> [pc : {"idle", "put", "job", "read", "done"}, read : Nat]]
  BY <1>1 DEF ThumbInv
<1>6. \A d \in Retouch : retouch'[d].pc = "read" =>
        d # e /\ retouch[d].pc = "read" /\ retouch'[d].read = retouch[d].read /\ d \in AtWork(RetouchOf[d])
  BY <1>1 DEF AtWork, ThumbInv
<1>7. /\ backfill' = [backfill EXCEPT !.crossed = backfill'.crossed]
      /\ backfill'.crossed \subseteq Original
      /\ \A q \in Original : q # p => (q \in backfill'.crossed <=> q \in backfill.crossed)
      /\ (backfill.photo = {p} \/ AtWork(p) # {}) => p \in backfill'.crossed
  <2>1. CASE backfill.photo = {p} \/ AtWork(p) # {}
    <3>1. backfill' = [backfill EXCEPT !.crossed = backfill.crossed \cup {p}]
      BY <2>1 DEF RetouchPut
    <3>2. QED
      BY <1>1, <2>1, <3>1 DEF ThumbInv
  <2>2. CASE ~(backfill.photo = {p} \/ AtWork(p) # {})
    <3>1. backfill' = [backfill EXCEPT !.crossed = backfill.crossed \ {p}]
      BY <2>2 DEF RetouchPut
    <3>2. QED
      BY <1>1, <2>2, <3>1 DEF ThumbInv
  <2>3. QED
    BY <2>1, <2>2
<1> HIDE DEF p
<1>8. /\ backfill' \in [pc : {"idle", "running", "read"}, todo : SUBSET Original,
                        photo : SUBSET Original, read : Nat, crossed : SUBSET Original]
      /\ backfill'.photo = backfill.photo /\ backfill'.read = backfill.read
  BY <1>7 DEF ThumbInv
<1>9. \A q \in backfill'.photo : backfill'.read = rewritten'[q] \/ q \in backfill'.crossed
  <2>1. SUFFICES ASSUME NEW q \in backfill.photo
                 PROVE  backfill.read = rewritten'[q] \/ q \in backfill'.crossed
    BY <1>8
  <2>2. q \in Original /\ backfill.photo = {q}
    BY DEF ThumbInv
  <2>3. QED
    BY <1>2, <1>7, <2>2 DEF ThumbInv
<1>10. \A d \in Retouch : retouch'[d].pc = "read" =>
         (retouch'[d].read = rewritten'[RetouchOf[d]] \/ RetouchOf[d] \in backfill'.crossed)
  <2>1. SUFFICES ASSUME NEW d \in Retouch, retouch'[d].pc = "read"
                 PROVE  retouch[d].read = rewritten'[RetouchOf[d]] \/ RetouchOf[d] \in backfill'.crossed
    BY <1>6
  <2>2. RetouchOf[d] \in Original
    BY DeployConstants
  <2>3. CASE RetouchOf[d] = p
    BY <1>6, <1>7, <2>1, <2>3
  <2>4. CASE RetouchOf[d] # p
    BY <1>2, <1>6, <1>7, <2>1, <2>2, <2>4 DEF ThumbInv
  <2>5. QED
    BY <2>3, <2>4
<1>11. \A q \in Original :
         thumbhash'[q] \in {NULL, rewritten'[q]} \/ AtWork(q)' # {} \/ q \in backfill'.crossed
  BY <1>1, <1>2, <1>3, <1>4, <1>7 DEF ThumbInv
<1>12. QED
  BY <1>1, <1>2, <1>5, <1>8, <1>9, <1>10, <1>11 DEF ThumbInv

(* An edit that gives up leaves the thumbhash of what was before.           *)
LEMMA DiesStep == ASSUME ThumbInv, NEW e \in Retouch, RetouchDies(e) PROVE ThumbInv'
<1>1. /\ RetouchOf[e] \in Original
      /\ retouch' = [retouch EXCEPT ![e].pc = "done"]
      /\ backfill' = [backfill EXCEPT !.crossed = backfill.crossed \cup {RetouchOf[e]}]
      /\ UNCHANGED <<rewritten, thumbhash, unready>>
  BY DeployConstants DEF RetouchDies
<1>2. \A q \in Original : q # RetouchOf[e] => AtWork(q)' = AtWork(q)
  BY <1>1 DEF AtWork, ThumbInv
<1>3. RetouchOf[e] \in backfill'.crossed /\ backfill.crossed \subseteq backfill'.crossed
  BY <1>1 DEF ThumbInv
<1>4. QED
  BY <1>1, <1>2, <1>3 DEF ThumbInv

(* The job is sent, reads, and is retried.                                  *)
LEMMA JobStep ==
    ASSUME ThumbInv, NEW e \in Retouch,
           RetouchFlags(e) \/ RetouchSends(e) \/ JobReadsOriginal(e) \/ JobIsRetried(e)
    PROVE  ThumbInv'
<1>1. /\ RetouchOf[e] \in Original /\ rewritten[RetouchOf[e]] \in Nat
      /\ UNCHANGED <<rewritten, thumbhash, backfill>> /\ unready' \subseteq Original
  BY DeployConstants DEF RetouchFlags, RetouchSends, JobReadsOriginal, JobIsRetried, ThumbInv
<1>2. \/ retouch' = [retouch EXCEPT ![e].pc = "job"]
      \/ retouch' = [retouch EXCEPT ![e].pc = "read", ![e].read = rewritten[RetouchOf[e]]]
  BY DEF RetouchFlags, RetouchSends, JobReadsOriginal, JobIsRetried
<1>3. \A q \in Original : AtWork(q)' = AtWork(q)
  <2>1. retouch[e].pc \in {"put", "job", "read"} /\ retouch'[e].pc \in {"put", "job", "read"}
    BY <1>2 DEF RetouchFlags, RetouchSends, JobReadsOriginal, JobIsRetried, ThumbInv
  <2>2. \A d \in Retouch : d # e => retouch'[d] = retouch[d]
    BY <1>2 DEF ThumbInv
  <2>3. QED
    BY <2>1, <2>2 DEF AtWork
<1>4. QED
  BY <1>1, <1>2, <1>3 DEF ThumbInv

(* A job saves what it has read, or what another edit overtook.             *)
LEMMA SaveStep == ASSUME ThumbInv, NEW e \in Retouch, JobSavesThumbhash(e) PROVE ThumbInv'
<1>1. PICK pc \in {"done", "job", "read"} : retouch' = [retouch EXCEPT ![e].pc = pc]
  BY DEF JobSavesThumbhash
<1>2. /\ RetouchOf[e] \in Original /\ retouch[e].pc = "read" /\ retouch[e].read \in Nat
      /\ thumbhash' = [thumbhash EXCEPT ![RetouchOf[e]] = retouch[e].read]
      /\ UNCHANGED <<rewritten, backfill>> /\ unready' \subseteq Original
  BY DeployConstants DEF JobSavesThumbhash, ThumbInv
<1>3. \A q \in Original : q # RetouchOf[e] => AtWork(q)' = AtWork(q) /\ thumbhash'[q] = thumbhash[q]
  BY <1>1, <1>2 DEF AtWork, ThumbInv
<1>4. thumbhash'[RetouchOf[e]] = rewritten[RetouchOf[e]] \/ RetouchOf[e] \in backfill.crossed
  BY <1>2 DEF ThumbInv
<1>5. QED
  BY <1>1, <1>2, <1>3, <1>4 DEF ThumbInv

-----------------------------------------------------------------------------
(* However many runs of compose migrate at once, fail or are repeated, and  *)
(* whatever ships meanwhile: every migration takes effect once and in       *)
(* order, an app that compose started has its own, there is one owner, and  *)
(* a thumbhash is stale only while an edit's job is to come, or where an    *)
(* edit overtook a backfill or another edit, or gave up.                    *)
THEOREM AlwaysMigratedOnce == DeploySpec => [](DeployTypeOK /\ MigratedOnce)
<1>1. DeployInit => RunInv /\ ThumbInv
  <2>1. DeployInit => ThumbInv
    BY DeployConstants DEF DeployInit, ThumbInv, NULL
  <2>2. QED
    BY <2>1, RunInit
<1>2. RunInv /\ ThumbInv /\ [DeployNext]_deployVars => (RunInv /\ ThumbInv)'
  <2> SUFFICES ASSUME RunInv, ThumbInv, [DeployNext]_deployVars PROVE RunInv' /\ ThumbInv'
    OBVIOUS
  <2>1. CASE \/ \E u \in Up : \/ ComposeUp(u) \/ ReadApplied(u) \/ ApplyNext(u) \/ AllApplied(u)
                             \/ RunFails(u) \/ EnsureBucket(u) \/ SeedAdmin(u) \/ StartApp(u)
             \/ Ship \/ Watchtower
    <3>1. UNCHANGED photoVars
      BY <2>1 DEF ComposeUp, ReadApplied, ApplyNext, AllApplied, RunFails, EnsureBucket, SeedAdmin,
                  StartApp, Ship, Watchtower, PhotosSame
    <3>2. QED
      BY <2>1, <3>1, RunStep, ApplyStep, SeedStep, ShipStep DEF ThumbInv, AtWork, photoVars
  <2>2. CASE \/ StartBackfill \/ BackfillRead \/ BackfillWrite \/ BackfillSkips \/ BackfillEnds
             \/ \E e \in Retouch :
                  \/ RetouchPut(e) \/ RetouchFlags(e) \/ RetouchSends(e) \/ RetouchDies(e)
                  \/ JobReadsOriginal(e) \/ JobSavesThumbhash(e) \/ JobIsRetried(e)
    <3>1. UNCHANGED <<latest, applied, effect, up, admins, app>>
      BY <2>2 DEF StartBackfill, BackfillRead, BackfillWrite, BackfillSkips, BackfillEnds,
                  RetouchPut, RetouchFlags, RetouchSends, RetouchDies, JobReadsOriginal, JobSavesThumbhash,
                  JobIsRetried, DeploySame
    <3>2. RunInv'
      BY <3>1 DEF RunInv, RunsTyped, AppliedOK, ContainersOK, Applying, AdminsOK, OneOwner
    <3>3. QED
      BY <2>2, <3>2, BackfillStep, PutStep, DiesStep, JobStep, SaveStep
  <2>3. CASE UNCHANGED deployVars
    <3>1. RunInv'
      BY <2>3 DEF deployVars, RunInv, RunsTyped, AppliedOK, ContainersOK, Applying, AdminsOK, OneOwner
    <3>2. ThumbInv'
      BY <2>3 DEF deployVars, photoVars, ThumbInv, AtWork
    <3>3. QED
      BY <3>1, <3>2
  <2>4. QED
    BY <2>1, <2>2, <2>3 DEF DeployNext
<1>3. RunInv /\ ThumbInv => MigratedOnce
  <2> SUFFICES ASSUME RunInv, ThumbInv PROVE MigratedOnce
    OBVIOUS
  <2>1. /\ \A m \in DOMAIN effect : effect[m] = IF m \in applied THEN 1 ELSE 0
        /\ \A m \in applied : Files(m) \subseteq applied
    <3>1. PICK j \in 0..VersionCount : applied = 1..j
      BY DEF RunInv, AppliedOK
    <3>2. \A m \in applied : Files(m) \subseteq applied
      BY <3>1, DeployConstants DEF Files
    <3>3. QED
      BY <3>2 DEF RunInv, RunsTyped, AppliedOK
  <2>2. app.by = "compose" => Files(app.version) \subseteq applied
    BY DEF RunInv, ContainersOK
  <2>3. (RoleMigration \in applied /\ admins # <<>>) =>
          Cardinality({n \in DOMAIN admins : admins[n].role = "owner"}) = 1
    BY CountOwner DEF RunInv, AdminsOK
  <2>4. QED
    BY <2>1, <2>2, <2>3 DEF ThumbInv, MigratedOnce
<1>4. DeployInit => bucket \in BOOLEAN
  BY DEF DeployInit
<1>5. bucket \in BOOLEAN /\ [DeployNext]_deployVars => (bucket \in BOOLEAN)'
  BY DEF DeployNext, ComposeUp, ReadApplied, ApplyNext, AllApplied, RunFails, EnsureBucket, SeedAdmin,
         StartApp, Ship, Watchtower, StartBackfill, BackfillRead, BackfillWrite, BackfillSkips,
         BackfillEnds, RetouchPut, RetouchFlags, RetouchSends, RetouchDies, JobReadsOriginal, JobSavesThumbhash,
         JobIsRetried, DeploySame, deployVars
<1>6. RunInv /\ ThumbInv /\ bucket \in BOOLEAN => DeployTypeOK
  <2> SUFFICES ASSUME RunInv, ThumbInv, bucket \in BOOLEAN PROVE DeployTypeOK
    OBVIOUS
  <2>1. /\ latest \in ShippedVersion /\ applied \subseteq Files(Len(Migrations))
        /\ \A u \in Up : up[u].pc \in {"idle", "started", "applying", "bucket", "seed", "done", "up", "failed"}
        /\ app.by \in {"nobody", "compose", "watchtower"}
    BY DEF RunInv, RunsTyped, Run, AppliedOK, Files, VersionCount
  <2>2. effect \in [Files(Len(Migrations)) -> 0..2]
    BY DEF RunInv, RunsTyped, AppliedOK, VersionCount
  <2>3. \A n \in DOMAIN admins : admins[n].role \in {"none", "owner", "admin"}
    <3>1. DOMAIN admins = 1..Len(admins) /\ \A n \in 1..Len(admins) : admins[n] \in AdminRow
      BY LenProperties, ElementOfSeq DEF RunInv, AdminsOK
    <3>2. QED
      BY <3>1 DEF AdminRow
  <2>4. QED
    BY <2>1, <2>2, <2>3 DEF ThumbInv, DeployTypeOK
<1>7. QED
  BY <1>1, <1>2, <1>3, <1>4, <1>5, <1>6, PTL DEF DeploySpec

-----------------------------------------------------------------------------
(* The import.                                                              *)

MakerPc == {"new", "check", "insert", "made", "put", "row", "job", "cover", "mark", "done", "failed", "refused"}
Makers == [pc : MakerPc, try : 1..(SlugTries + 1), n : 1..(Len(Folder) + 1)]

LEMMA ImportConstants ==
    /\ SlugTries \in Nat /\ SlugTries > 0 /\ Import \subseteq Maker /\ Form \subseteq Maker
    /\ Folder \in Seq(Exported) /\ Len(Folder) \in Nat /\ DOMAIN Folder = 1..Len(Folder)
    /\ \A n \in 1..Len(Folder) : Folder[n] \in Exported
    /\ \A m \in Maker : m \notin 1..SlugTries
    /\ \A f \in Exported : \E n \in 1..Len(Folder) : Folder[n] = f
BY ImportAssumption DEF Maker, Exported

ImportTyped ==
    /\ maker \in [Maker -> Makers]
    /\ DOMAIN slugOf \subseteq Maker /\ slugOf = [m \in DOMAIN slugOf |-> slugOf[m]]
    /\ crossed \in [Maker -> SUBSET Maker]
    /\ object \subseteq Import \X Exported /\ queued \subseteq Import \X Exported
    /\ roster \in [Import -> Seq(Exported)]
    /\ cover \in [Import -> SUBSET Exported]
    /\ folderMark \in Import \cup {NoRun}

\* A maker has no album before it inserts it.
NotYet(m) == maker[m].pc \in {"new", "check", "insert"} => m \notin DOMAIN slugOf

\* Whoever took the slug a maker is about to insert came after it looked.
LookedFirst(m) ==
    maker[m].pc = "insert" =>
      \A o \in DOMAIN slugOf : slugOf[o] = Chosen(m) => o \in crossed[m]

SlugInv ==
    /\ ImportTyped
    /\ \A m \in Maker : NotYet(m) /\ LookedFirst(m)
    /\ \A o \in DOMAIN slugOf : slugOf[o] \in (1..SlugTries) \cup {o}
    /\ SlugsTellApart

-----------------------------------------------------------------------------
\* The decodable places of the folder, before n.
Places(n) == {k \in DOMAIN Folder : k < n /\ Folder[k] \notin Undecodable}

RunOK(r) ==
    /\ maker[r].pc \in {"new", "check", "insert"} => maker[r].n = 1 /\ roster[r] = <<>>
    /\ maker[r].pc = "put" => ListsFiles(roster[r], Places(maker[r].n))
    /\ maker[r].pc = "row" => ListsFiles(roster[r], Places(maker[r].n))
    /\ maker[r].pc = "job" => ListsFiles(roster[r], Places(maker[r].n + 1))
    /\ maker[r].pc \in {"row", "job"} => /\ maker[r].n <= Len(Folder)
                                         /\ Current(r) \notin Undecodable /\ <<r, Current(r)>> \in object
    /\ maker[r].pc \in {"put", "row", "job", "mark", "done"} =>
         \A k \in Places(maker[r].n) : <<r, Folder[k]>> \in object \cap queued
    /\ maker[r].pc \in {"mark", "done"} =>
         /\ maker[r].n = Len(Folder) + 1
         /\ ListsFiles(roster[r], Places(maker[r].n))
         /\ cover[r] = Candidate \ Undecodable
    /\ maker[r].pc # "made"

RunsOK == ImportTyped /\ (\A r \in Import : RunOK(r)) /\ (folderMark # NoRun => maker[folderMark].pc = "done")

LEMMA ImportBegins == ImportInit => SlugInv /\ RunsOK
<1> SUFFICES ASSUME ImportInit PROVE SlugInv /\ RunsOK
  OBVIOUS
<1>1. maker \in [Maker -> Makers]
  <2>1. [pc |-> "new", try |-> 1, n |-> 1] \in Makers
    BY ImportConstants DEF Makers, MakerPc
  <2> QED BY <2>1 DEF ImportInit
<1>2. ImportTyped
  BY <1>1 DEF ImportTyped, ImportInit
<1>3. \A m \in Maker : maker[m].pc = "new" /\ maker[m].n = 1
  BY DEF ImportInit
<1>4. DOMAIN slugOf = {} /\ folderMark = NoRun /\ \A r \in Import : roster[r] = <<>>
  BY DEF ImportInit
<1>5. SlugInv
  BY <1>2, <1>3, <1>4 DEF SlugInv, NotYet, LookedFirst, SlugsTellApart
<1>6. \A r \in Import : RunOK(r)
  BY <1>3, <1>4, ImportConstants DEF RunOK
<1> QED BY <1>2, <1>4, <1>5, <1>6 DEF RunsOK

\* A step of a maker, and what it leaves alone.
LEMMA GoTyped ==
    ASSUME maker \in [Maker -> Makers], NEW m \in Maker, NEW pc \in MakerPc, Go(m, pc)
    PROVE  /\ maker' \in [Maker -> Makers]
           /\ maker'[m].pc = pc /\ maker'[m].try = maker[m].try /\ maker'[m].n = maker[m].n
           /\ \A o \in Maker \ {m} : maker'[o] = maker[o]
BY DEF Go, Makers

LEMMA NextFileTyped ==
    ASSUME maker \in [Maker -> Makers], NEW m \in Maker, maker[m].n <= Len(Folder), NextFile(m)
    PROVE  /\ maker' \in [Maker -> Makers]
           /\ maker'[m].pc = "put" /\ maker'[m].try = maker[m].try /\ maker'[m].n = maker[m].n + 1
           /\ \A o \in Maker \ {m} : maker'[o] = maker[o]
<1>1. maker[m].n \in 1..(Len(Folder) + 1) /\ maker[m].n + 1 \in 1..(Len(Folder) + 1)
  BY ImportConstants DEF Makers
<1>2. maker' = [maker EXCEPT ![m].n = maker[m].n + 1, ![m].pc = "put"]
  BY DEF NextFile
<1>3. maker'[m] \in Makers /\ maker'[m].pc = "put" /\ maker'[m].try = maker[m].try /\ maker'[m].n = maker[m].n + 1
  BY <1>1, <1>2 DEF Makers, MakerPc
<1>4. \A o \in Maker \ {m} : maker'[o] = maker[o]
  BY <1>2
<1> QED BY <1>2, <1>3, <1>4

-----------------------------------------------------------------------------
(* Slugs.                                                                   *)

\* A step of the loop is none of the slugs' business.
LEMMA SlugsRest ==
    ASSUME SlugInv, ImportTyped', NEW r \in Maker, UNCHANGED <<slugOf, crossed>>,
           maker'[r].pc = maker[r].pc \/ maker'[r].pc \notin {"new", "insert"},
           maker'[r].pc \in {"new", "check", "insert"} => maker[r].pc \in {"new", "check", "insert"},
           maker'[r].try = maker[r].try,
           \A o \in Maker \ {r} : maker'[o] = maker[o]
    PROVE  SlugInv'
<1>1. ASSUME NEW m \in Maker PROVE NotYet(m)' /\ LookedFirst(m)'
  <2>1. NotYet(m) /\ LookedFirst(m) /\ maker'[m].try = maker[m].try
    BY DEF SlugInv
  <2> QED BY <2>1 DEF NotYet, LookedFirst, Chosen
<1> QED BY <1>1 DEF SlugInv, SlugsTellApart

LEMMA SlugChecked == ASSUME SlugInv, ImportTyped', NEW m \in Maker, CheckSlug(m) PROVE SlugInv'
<1> USE ImportConstants DEF SlugInv, ImportTyped
<1>1. CASE maker[m].try <= SlugTries /\ SlugTaken(m, maker[m].try)
  <2>1. /\ maker' = [maker EXCEPT ![m].try = maker[m].try + 1] /\ maker[m].pc = "check"
        /\ UNCHANGED <<slugOf, crossed>>
    BY <1>1 DEF CheckSlug
  <2>2. /\ \A o \in Maker \ {m} : maker'[o] = maker[o]
        /\ maker'[m].pc = "check"
    BY <2>1 DEF Makers
  <2>3. ASSUME NEW o \in Maker PROVE NotYet(o)' /\ LookedFirst(o)'
    BY <2>1, <2>2 DEF NotYet, LookedFirst, Chosen
  <2> QED BY <2>1, <2>3 DEF SlugsTellApart
<1>2. CASE ~(maker[m].try <= SlugTries /\ SlugTaken(m, maker[m].try))
  <2>1. /\ Go(m, "insert") /\ maker[m].pc = "check" /\ crossed' = [crossed EXCEPT ![m] = {}]
        /\ UNCHANGED slugOf
    BY <1>2 DEF CheckSlug
  <2>2. /\ maker'[m].pc = "insert" /\ maker'[m].try = maker[m].try
        /\ \A o \in Maker \ {m} : maker'[o] = maker[o]
    BY <2>1, GoTyped DEF MakerPc
  <2>3. m \notin DOMAIN slugOf
    BY <2>1 DEF NotYet
  <2>4. \A o \in DOMAIN slugOf : slugOf[o] # Chosen(m)
    <3> SUFFICES ASSUME NEW o \in DOMAIN slugOf, slugOf[o] = Chosen(m) PROVE FALSE
      OBVIOUS
    <3>1. slugOf[o] \in (1..SlugTries) \cup {o} /\ o \in Maker /\ maker[m].try \in 1..(SlugTries + 1)
      BY DEF Makers
    <3>2. CASE maker[m].try <= SlugTries
      BY <1>2, <3>2 DEF Chosen, SlugTaken
    <3>3. CASE ~(maker[m].try <= SlugTries)
      BY <2>3, <3>1, <3>3 DEF Chosen
    <3> QED BY <3>2, <3>3
  <2>5. ASSUME NEW o \in Maker PROVE NotYet(o)' /\ LookedFirst(o)'
    <3>1. CASE o = m
      BY <2>1, <2>2, <2>3, <2>4, <3>1 DEF NotYet, LookedFirst, Chosen
    <3>2. CASE o # m
      BY <2>1, <2>2, <3>2 DEF NotYet, LookedFirst, Chosen
    <3> QED BY <3>1, <3>2
  <2>6. SlugsTellApart'
    <3> SUFFICES ASSUME NEW o \in DOMAIN slugOf, NEW p \in DOMAIN slugOf, o # p, slugOf[o] = slugOf[p]
                 PROVE  (o \in crossed'[p] \/ p \in crossed'[o]) /\ WorkspaceOf[o] # WorkspaceOf[p]
      BY <2>1 DEF SlugsTellApart
    <3>1. crossed'[o] = crossed[o] /\ crossed'[p] = crossed[p]
      BY <2>1, <2>3
    <3> QED BY <3>1 DEF SlugsTellApart
  <2> QED BY <2>1, <2>5, <2>6
<1> QED BY <1>1, <1>2

LEMMA SlugInserted == ASSUME SlugInv, ImportTyped', NEW m \in Maker, InsertAlbum(m) PROVE SlugInv'
<1> USE ImportConstants DEF SlugInv, ImportTyped
<1>0. maker[m].pc = "insert" /\ m \notin DOMAIN slugOf
  BY DEF InsertAlbum, NotYet
<1>1. CASE \E o \in DOMAIN slugOf : slugOf[o] = Chosen(m) /\ WorkspaceOf[o] = WorkspaceOf[m]
  <2>1. Go(m, "failed") /\ UNCHANGED <<slugOf, crossed>>
    BY <1>1 DEF InsertAlbum, AlbumSame
  <2>2. maker'[m].pc = "failed" /\ maker'[m].try = maker[m].try /\ \A o \in Maker \ {m} : maker'[o] = maker[o]
    BY <2>1, GoTyped DEF MakerPc
  <2> QED BY <2>1, <2>2, SlugsRest
<1>2. CASE ~\E o \in DOMAIN slugOf : slugOf[o] = Chosen(m) /\ WorkspaceOf[o] = WorkspaceOf[m]
  <2>1. /\ slugOf' = [o \in DOMAIN slugOf \cup {m} |-> IF o = m THEN Chosen(m) ELSE slugOf[o]]
        /\ crossed' = [o \in Maker |-> IF o # m /\ maker[o].pc = "insert" THEN crossed[o] \cup {m} ELSE crossed[o]]
        /\ Go(m, IF m \in Import THEN "put" ELSE "made")
    BY <1>2 DEF InsertAlbum
  <2>2. /\ maker'[m].pc \in {"put", "made"} /\ maker'[m].try = maker[m].try
        /\ \A o \in Maker \ {m} : maker'[o] = maker[o]
    <3>1. (IF m \in Import THEN "put" ELSE "made") \in {"put", "made"}
      OBVIOUS
    <3> QED BY <2>1, <3>1, GoTyped DEF MakerPc
  <2>3. DOMAIN slugOf' = DOMAIN slugOf \cup {m} /\ slugOf'[m] = Chosen(m)
        /\ \A o \in DOMAIN slugOf : slugOf'[o] = slugOf[o] /\ o # m
    BY <1>0, <2>1
  <2>4. ASSUME NEW o \in Maker PROVE NotYet(o)' /\ LookedFirst(o)'
    <3>1. CASE o = m
      BY <2>2, <3>1 DEF NotYet, LookedFirst
    <3>2. CASE o # m
      <4>1. NotYet(o) /\ LookedFirst(o) /\ maker'[o] = maker[o]
        BY <2>2, <3>2
      <4>2. maker[o].pc = "insert" => crossed'[o] = crossed[o] \cup {m}
        BY <2>1, <3>2
      <4> QED BY <2>3, <3>2, <4>1, <4>2 DEF NotYet, LookedFirst, Chosen
    <3> QED BY <3>1, <3>2
  <2>5. \A o \in DOMAIN slugOf' : slugOf'[o] \in (1..SlugTries) \cup {o}
    BY <2>3 DEF Chosen, Makers
  <2>6. \A o \in Maker : crossed[o] \subseteq crossed'[o]
    BY <2>1
  <2>7. \A o \in DOMAIN slugOf : slugOf[o] = Chosen(m) => o \in crossed'[m] /\ WorkspaceOf[o] # WorkspaceOf[m]
    BY <1>0, <1>2, <2>6 DEF LookedFirst
  <2>8. SlugsTellApart'
    <3> SUFFICES ASSUME NEW o \in DOMAIN slugOf', NEW p \in DOMAIN slugOf', o # p, slugOf'[o] = slugOf'[p]
                 PROVE  (o \in crossed'[p] \/ p \in crossed'[o]) /\ WorkspaceOf[o] # WorkspaceOf[p]
      BY DEF SlugsTellApart
    <3>1. CASE o = m
      BY <2>3, <2>7, <3>1
    <3>2. CASE p = m
      BY <2>3, <2>7, <3>2
    <3>3. CASE o # m /\ p # m
      BY <2>3, <2>6, <3>3 DEF SlugsTellApart
    <3> QED BY <3>1, <3>2, <3>3
  <2> QED BY <2>4, <2>5, <2>8
<1> QED BY <1>1, <1>2

LEMMA SlugRemoved == ASSUME SlugInv, ImportTyped', NEW m \in Maker, RemoveAlbum(m) PROVE SlugInv'
<1>1. /\ slugOf' = [o \in DOMAIN slugOf \ {m} |-> slugOf[o]] /\ UNCHANGED <<maker, crossed>>
  BY DEF RemoveAlbum
<1>2. ASSUME NEW o \in Maker PROVE NotYet(o)' /\ LookedFirst(o)'
  <2>1. NotYet(o) /\ LookedFirst(o)
    BY DEF SlugInv
  <2> QED BY <1>1, <2>1 DEF NotYet, LookedFirst, Chosen
<1> QED BY <1>1, <1>2 DEF SlugInv, SlugsTellApart

-----------------------------------------------------------------------------
(* The loop.                                                                *)

\* A list of the places before n becomes one of those up to n.
LEMMA ListGrows ==
    ASSUME NEW list \in Seq(Exported), NEW n \in DOMAIN Folder, Folder[n] \notin Undecodable,
           ListsFiles(list, Places(n))
    PROVE  ListsFiles(Append(list, Folder[n]), Places(n + 1))
<1>1. PICK at \in [DOMAIN list -> Places(n)] :
         /\ \A k \in DOMAIN list : list[k] = Folder[at[k]]
         /\ \A k, l \in DOMAIN list : k < l => at[k] < at[l]
         /\ \A p \in Places(n) : \E k \in DOMAIN list : at[k] = p
  BY DEF ListsFiles
<1>2. Places(n + 1) = Places(n) \cup {n} /\ n \in Nat /\ \A p \in Places(n) : p \in Nat /\ p < n
  <2>1. DOMAIN Folder \subseteq Nat /\ n \in Nat
    BY ImportConstants
  <2>2. \A k \in DOMAIN Folder : k < n + 1 <=> k < n \/ k = n
    BY <2>1
  <2> QED BY <2>1, <2>2 DEF Places
<1> DEFINE longer == Append(list, Folder[n])
           to == [k \in DOMAIN longer |-> IF k \in DOMAIN list THEN at[k] ELSE n]
<1>3. /\ DOMAIN list = 1..Len(list) /\ Len(list) \in Nat /\ DOMAIN longer = 1..(Len(list) + 1)
      /\ longer[Len(list) + 1] = Folder[n] /\ \A k \in DOMAIN list : longer[k] = list[k]
  BY ImportConstants
<1> HIDE DEF longer
<1>4. to \in [DOMAIN longer -> Places(n + 1)]
  BY <1>1, <1>2, <1>3
<1>5. \A k \in DOMAIN longer : longer[k] = Folder[to[k]]
  BY <1>1, <1>3
<1>6. \A k, l \in DOMAIN longer : k < l => to[k] < to[l]
  BY <1>1, <1>2, <1>3
<1>7. \A p \in Places(n + 1) : \E k \in DOMAIN longer : to[k] = p
  BY <1>1, <1>2, <1>3
<1> HIDE DEF to
<1> QED BY <1>4, <1>5, <1>6, <1>7 DEF ListsFiles, longer

\* What a list of those places holds.
LEMMA ListHolds ==
    ASSUME NEW list \in Seq(Exported), NEW places \in SUBSET DOMAIN Folder, ListsFiles(list, places)
    PROVE  {list[n] : n \in DOMAIN list} = {Folder[p] : p \in places}
BY DEF ListsFiles

LEMMA SkippedPlace ==
    ASSUME NEW n \in 1..Len(Folder)
    PROVE  /\ Folder[n] \in Undecodable => Places(n + 1) = Places(n)
           /\ Folder[n] \notin Undecodable => Places(n + 1) = Places(n) \cup {n}
BY ImportConstants DEF Places

LEMMA FirstPlace == Places(1) = {} /\ ListsFiles(<<>>, Places(1))
<1>1. Places(1) = {}
  <2>1. \A k \in DOMAIN Folder : ~(k < 1)
    BY ImportConstants
  <2> QED BY <2>1 DEF Places
<1> DEFINE none == [k \in {} |-> 1]
<1>2. DOMAIN <<>> = {} /\ none \in [{} -> {}]
  OBVIOUS
<1> HIDE DEF none
<1> QED BY <1>1, <1>2 DEF ListsFiles

LEMMA AllPlaces ==
    /\ Places(Len(Folder) + 1) = {n \in DOMAIN Folder : Folder[n] \notin Undecodable}
    /\ Candidate \cap {Folder[p] : p \in Places(Len(Folder) + 1)} = Candidate \ Undecodable
BY ImportConstants DEF Places, Candidate

\* The runs that do not step keep what they have.
LEMMA RunRests ==
    ASSUME RunsOK, NEW r \in Import, maker'[r] = maker[r], roster'[r] = roster[r], cover'[r] = cover[r],
           object \subseteq object', queued \subseteq queued'
    PROVE  RunOK(r)'
<1>1. RunOK(r)
  BY DEF RunsOK
<1> QED BY <1>1 DEF RunOK, Current

\* From the form to the first file.
LEMMA RunCreates ==
    ASSUME RunsOK, NEW m \in Maker, Begin(m) \/ CheckSlug(m) \/ InsertAlbum(m) \/ RemoveAlbum(m)
    PROVE  RunsOK'
<1> USE DEF RunsOK, FolderSame
<1>0. ImportTyped /\ maker \in [Maker -> Makers] /\ DOMAIN slugOf \subseteq Maker /\ Import \subseteq Maker
  BY ImportConstants DEF ImportTyped
<1>1. UNCHANGED <<object, roster, queued, cover, folderMark>>
  BY DEF Begin, CheckSlug, InsertAlbum, RemoveAlbum
<1>2. /\ maker' \in [Maker -> Makers] /\ \A o \in Maker \ {m} : maker'[o] = maker[o]
      /\ maker'[m].n = maker[m].n
      /\ \/ maker' = maker
         \/ /\ maker[m].pc \in {"new", "check", "insert"}
            /\ \/ maker'[m].pc \in {"check", "insert", "refused", "failed"}
               \/ maker[m].pc = "insert" /\ maker'[m].pc = IF m \in Import THEN "put" ELSE "made"
  <2>1. CASE Begin(m)
    <3>1. PICK pc \in {"check", "refused"} : Go(m, pc)
      BY <2>1 DEF Begin
    <3> QED BY <1>0, <2>1, <3>1, GoTyped DEF Begin, MakerPc
  <2>2. CASE CheckSlug(m)
    <3>1. CASE Go(m, "insert")
      BY <1>0, <2>2, <3>1, GoTyped DEF CheckSlug, MakerPc
    <3>2. CASE maker' = [maker EXCEPT ![m].try = maker[m].try + 1] /\ maker[m].try <= SlugTries
      <4>1. maker[m].try + 1 \in 1..(SlugTries + 1)
        BY <1>0, <3>2, ImportConstants DEF Makers
      <4> QED BY <1>0, <2>2, <3>2, <4>1 DEF CheckSlug, Makers
    <3> QED BY <2>2, <3>1, <3>2 DEF CheckSlug
  <2>3. CASE InsertAlbum(m)
    <3>1. CASE Go(m, "failed")
      BY <1>0, <2>3, <3>1, GoTyped DEF InsertAlbum, MakerPc
    <3>2. CASE Go(m, IF m \in Import THEN "put" ELSE "made")
      <4>1. (IF m \in Import THEN "put" ELSE "made") \in MakerPc
        BY DEF MakerPc
      <4> QED BY <1>0, <2>3, <3>2, <4>1, GoTyped DEF InsertAlbum
    <3> QED BY <2>3, <3>1, <3>2 DEF InsertAlbum
  <2>4. CASE RemoveAlbum(m)
    BY <1>0, <2>4 DEF RemoveAlbum
  <2> QED BY <2>1, <2>2, <2>3, <2>4
<1>3. crossed' \in [Maker -> SUBSET Maker] /\ DOMAIN slugOf' \subseteq Maker
      /\ slugOf' = [o \in DOMAIN slugOf' |-> slugOf'[o]]
  BY <1>0 DEF Begin, CheckSlug, InsertAlbum, RemoveAlbum, AlbumSame, ImportTyped
<1>4. ImportTyped'
  BY <1>0, <1>1, <1>2, <1>3 DEF ImportTyped
<1>5. ASSUME NEW r \in Import PROVE RunOK(r)'
  <2>1. CASE maker'[r] = maker[r]
    BY <1>1, <2>1, RunRests
  <2>2. CASE r = m /\ maker' # maker
    <3>1. RunOK(r) /\ maker[r].n = 1 /\ roster[r] = <<>>
      BY <1>2, <2>2 DEF RunOK
    <3>2. maker'[r].pc \in {"check", "insert", "refused", "failed", "put"} /\ maker'[r].n = 1
      BY <1>2, <2>2, <3>1
    <3> QED BY <1>1, <3>1, <3>2, FirstPlace DEF RunOK
  <2> QED BY <1>0, <1>2, <2>1, <2>2
<1>6. ASSUME folderMark' # NoRun PROVE maker'[folderMark'].pc = "done"
  BY <1>0, <1>1, <1>2, <1>6 DEF ImportTyped
<1> QED BY <1>4, <1>5, <1>6

\* A step of the loop of run r, given what it does to r.
LEMMA RunLoops ==
    ASSUME RunsOK, NEW r \in Import, ImportTyped', RunOK(r)',
           \A o \in Maker \ {r} : maker'[o] = maker[o],
           \A o \in Import \ {r} : roster'[o] = roster[o] /\ cover'[o] = cover[o],
           object \subseteq object', queued \subseteq queued',
           maker[r].pc # "done",
           folderMark' = folderMark \/ (folderMark' = r /\ maker'[r].pc = "done")
    PROVE  RunsOK'
<1>1. ASSUME NEW o \in Import PROVE RunOK(o)'
  BY ImportConstants, RunRests
<1>2. ASSUME folderMark' # NoRun PROVE maker'[folderMark'].pc = "done"
  BY <1>2, ImportConstants DEF RunsOK, ImportTyped
<1> QED BY <1>1, <1>2 DEF RunsOK

LEMMA LoopStep ==
    ASSUME RunsOK, NEW r \in Import,
           PutFile(r) \/ InsertRow(r) \/ SendJob(r) \/ SetCover(r) \/ WriteMarker(r) \/ ScriptDies(r)
    PROVE  RunsOK'
<1>0. /\ ImportTyped /\ maker \in [Maker -> Makers] /\ r \in Maker /\ RunOK(r)
      /\ roster \in [Import -> Seq(Exported)] /\ maker[r].n \in 1..(Len(Folder) + 1)
      /\ maker[r].n \in Nat
  <2>1. ImportTyped /\ RunOK(r) /\ r \in Maker
    BY ImportConstants DEF RunsOK
  <2>2. maker \in [Maker -> Makers] /\ roster \in [Import -> Seq(Exported)]
    BY <2>1 DEF ImportTyped
  <2>3. maker[r].n \in 1..(Len(Folder) + 1)
    BY <2>1, <2>2 DEF Makers
  <2> QED BY <2>1, <2>2, <2>3, ImportConstants
<1>1. CASE PutFile(r)
  <2>1. maker[r].pc = "put" /\ maker[r].n \in 1..Len(Folder) /\ Current(r) = Folder[maker[r].n]
        /\ UNCHANGED <<slugOf, crossed, roster, queued, cover, folderMark>>
    BY <1>0, <1>1, ImportConstants DEF PutFile, AlbumSame, Current
  <2>2. CASE Current(r) \in Undecodable
    <3>1. NextFile(r) /\ UNCHANGED object
      BY <1>1, <2>2 DEF PutFile
    <3>2. /\ maker' \in [Maker -> Makers] /\ maker'[r].pc = "put" /\ maker'[r].n = maker[r].n + 1
          /\ \A o \in Maker \ {r} : maker'[o] = maker[o]
      BY <1>0, <2>1, <3>1, NextFileTyped
    <3>3. Places(maker[r].n + 1) = Places(maker[r].n)
      BY <2>1, <2>2, SkippedPlace
    <3>4. RunOK(r)'
      BY <1>0, <2>1, <3>1, <3>2, <3>3 DEF RunOK
    <3>5. ImportTyped'
      BY <1>0, <2>1, <3>1, <3>2 DEF ImportTyped
    <3> QED BY <2>1, <3>1, <3>2, <3>4, <3>5, RunLoops
  <2>3. CASE Current(r) \notin Undecodable
    <3>1. object' = object \cup {<<r, Current(r)>>} /\ Go(r, "row")
      BY <1>1, <2>3 DEF PutFile
    <3>2. /\ maker' \in [Maker -> Makers] /\ maker'[r].pc = "row" /\ maker'[r].n = maker[r].n
          /\ \A o \in Maker \ {r} : maker'[o] = maker[o]
      BY <1>0, <3>1, GoTyped DEF MakerPc
    <3>3. RunOK(r)'
      BY <1>0, <2>1, <2>3, <3>1, <3>2 DEF RunOK, Current
    <3>4. ImportTyped'
      BY <1>0, <2>1, <3>1, <3>2, ImportConstants DEF ImportTyped
    <3> QED BY <2>1, <3>1, <3>2, <3>3, <3>4, RunLoops
  <2> QED BY <2>2, <2>3
<1>2. CASE InsertRow(r)
  <2>1. /\ maker[r].pc = "row" /\ maker[r].n \in 1..Len(Folder) /\ Current(r) = Folder[maker[r].n]
        /\ Current(r) \notin Undecodable
        /\ roster' = [roster EXCEPT ![r] = Append(roster[r], Current(r))] /\ Go(r, "job")
        /\ UNCHANGED <<slugOf, crossed, object, queued, cover, folderMark>>
    BY <1>0, <1>2, ImportConstants DEF InsertRow, AlbumSame, Current, RunOK
  <2>2. /\ maker' \in [Maker -> Makers] /\ maker'[r].pc = "job" /\ maker'[r].n = maker[r].n
        /\ \A o \in Maker \ {r} : maker'[o] = maker[o]
    BY <1>0, <2>1, GoTyped DEF MakerPc
  <2>3. ListsFiles(Append(roster[r], Current(r)), Places(maker[r].n + 1))
    BY <1>0, <2>1, ListGrows, ImportConstants DEF RunOK
  <2>4. RunOK(r)'
    BY <1>0, <2>1, <2>2, <2>3 DEF RunOK, Current
  <2>5. Append(roster[r], Current(r)) \in Seq(Exported)
    BY <1>0, <2>1, ImportConstants
  <2>6. ImportTyped'
    BY <1>0, <2>1, <2>2, <2>5 DEF ImportTyped
  <2> QED BY <2>1, <2>2, <2>4, <2>6, RunLoops
<1>3. CASE SendJob(r)
  <2>1. /\ maker[r].pc = "job" /\ maker[r].n \in 1..Len(Folder) /\ Current(r) = Folder[maker[r].n]
        /\ queued' = queued \cup {<<r, Current(r)>>} /\ NextFile(r) /\ Current(r) \notin Undecodable
        /\ UNCHANGED <<slugOf, crossed, object, roster, cover, folderMark>>
    BY <1>0, <1>3, ImportConstants DEF SendJob, AlbumSame, Current, RunOK
  <2>2. /\ maker' \in [Maker -> Makers] /\ maker'[r].pc = "put" /\ maker'[r].n = maker[r].n + 1
        /\ \A o \in Maker \ {r} : maker'[o] = maker[o]
    BY <1>0, <2>1, NextFileTyped
  <2>3. Places(maker[r].n + 1) = Places(maker[r].n) \cup {maker[r].n}
    BY <2>1, SkippedPlace
  <2>4. RunOK(r)'
    BY <1>0, <2>1, <2>2, <2>3 DEF RunOK
  <2>5. ImportTyped'
    BY <1>0, <2>1, <2>2, ImportConstants DEF ImportTyped
  <2> QED BY <2>1, <2>2, <2>4, <2>5, RunLoops
<1>4. CASE SetCover(r)
  <2>1. /\ maker[r].pc = "put" /\ maker[r].n = Len(Folder) + 1 /\ Go(r, "mark")
        /\ cover' = [cover EXCEPT ![r] = Candidate \cap {roster[r][n] : n \in DOMAIN roster[r]}]
        /\ UNCHANGED <<slugOf, crossed, object, roster, queued, folderMark>>
    BY <1>0, <1>4, ImportConstants DEF SetCover, AlbumSame
  <2>2. /\ maker' \in [Maker -> Makers] /\ maker'[r].pc = "mark" /\ maker'[r].n = maker[r].n
        /\ \A o \in Maker \ {r} : maker'[o] = maker[o]
    BY <1>0, <2>1, GoTyped DEF MakerPc
  <2>3. ListsFiles(roster[r], Places(Len(Folder) + 1))
    BY <1>0, <2>1 DEF RunOK
  <2>4. Places(Len(Folder) + 1) \subseteq DOMAIN Folder
    BY DEF Places
  <2>5. {roster[r][n] : n \in DOMAIN roster[r]} = {Folder[p] : p \in Places(Len(Folder) + 1)}
    BY <1>0, <2>3, <2>4, ListHolds
  <2>6. cover'[r] = Candidate \ Undecodable
    BY <1>0, <2>1, <2>5, AllPlaces DEF ImportTyped
  <2>7. RunOK(r)'
    BY <1>0, <2>1, <2>2, <2>6 DEF RunOK
  <2>8. cover' \in [Import -> SUBSET Exported]
    BY <1>0, <2>1 DEF ImportTyped, Candidate, Exported
  <2>9. ImportTyped'
    BY <1>0, <2>1, <2>2, <2>8 DEF ImportTyped
  <2>10. \A o \in Import \ {r} : cover'[o] = cover[o]
    BY <1>0, <2>1 DEF ImportTyped
  <2> QED BY <2>1, <2>2, <2>7, <2>9, <2>10, RunLoops
<1>5. CASE WriteMarker(r)
  <2>1. /\ maker[r].pc = "mark" /\ Go(r, "done") /\ folderMark' = r
        /\ UNCHANGED <<slugOf, crossed, object, roster, queued, cover>>
    BY <1>5 DEF WriteMarker, Markable, AlbumSame
  <2>2. /\ maker' \in [Maker -> Makers] /\ maker'[r].pc = "done" /\ maker'[r].n = maker[r].n
        /\ \A o \in Maker \ {r} : maker'[o] = maker[o]
    BY <1>0, <2>1, GoTyped DEF MakerPc
  <2>3. RunOK(r)'
    BY <1>0, <2>1, <2>2 DEF RunOK
  <2>4. ImportTyped'
    BY <1>0, <2>1, <2>2 DEF ImportTyped
  <2> QED BY <2>1, <2>2, <2>3, <2>4, RunLoops
<1>6. CASE ScriptDies(r)
  <2>1. /\ maker[r].pc # "done" /\ Go(r, "failed")
        /\ UNCHANGED <<slugOf, crossed, object, roster, queued, cover, folderMark>>
    BY <1>6 DEF ScriptDies, FolderSame, AlbumSame
  <2>2. /\ maker' \in [Maker -> Makers] /\ maker'[r].pc = "failed"
        /\ \A o \in Maker \ {r} : maker'[o] = maker[o]
    BY <1>0, <2>1, GoTyped DEF MakerPc
  <2>3. RunOK(r)'
    BY <2>2 DEF RunOK
  <2>4. ImportTyped'
    BY <1>0, <2>1, <2>2 DEF ImportTyped
  <2> QED BY <2>1, <2>2, <2>3, <2>4, RunLoops
<1> QED BY <1>1, <1>2, <1>3, <1>4, <1>5, <1>6

\* No step of the loop makes a slug, or looks for one.
LEMMA LoopSlugs ==
    ASSUME SlugInv, RunsOK, ImportTyped', NEW r \in Import,
           PutFile(r) \/ InsertRow(r) \/ SendJob(r) \/ SetCover(r) \/ WriteMarker(r) \/ ScriptDies(r)
    PROVE  SlugInv'
<1>1. maker \in [Maker -> Makers] /\ r \in Maker
  BY ImportConstants DEF SlugInv, ImportTyped
<1>2. UNCHANGED <<slugOf, crossed>>
  BY DEF PutFile, InsertRow, SendJob, SetCover, WriteMarker, ScriptDies, AlbumSame
<1>3. \/ \E pc \in {"row", "job", "mark", "done", "failed"} : Go(r, pc)
      \/ maker[r].n <= Len(Folder) /\ NextFile(r)
      \/ UNCHANGED maker
  <2>1. SendJob(r) => maker[r].pc = "job" /\ NextFile(r)
    BY DEF SendJob
  <2>2. CASE SendJob(r)
    BY <2>1, <2>2 DEF RunsOK, RunOK
  <2> QED BY <2>2 DEF PutFile, InsertRow, SetCover, WriteMarker, ScriptDies
<1>4. CASE \E pc \in {"row", "job", "mark", "done", "failed"} : Go(r, pc)
  <2>1. PICK pc \in {"row", "job", "mark", "done", "failed"} : Go(r, pc)
    BY <1>4
  <2>2. pc \in MakerPc
    BY DEF MakerPc
  <2> QED BY <1>1, <1>2, <2>1, <2>2, GoTyped, SlugsRest
<1>5. CASE maker[r].n <= Len(Folder) /\ NextFile(r)
  BY <1>1, <1>2, <1>5, NextFileTyped, SlugsRest
<1>6. CASE UNCHANGED maker
  BY <1>1, <1>2, <1>6, SlugsRest
<1> QED BY <1>3, <1>4, <1>5, <1>6

LEMMA ImportProperties == SlugInv /\ RunsOK => ImportTypeOK /\ SlugsTellApart /\ MarkerMeansImported
<1> SUFFICES ASSUME SlugInv, RunsOK PROVE ImportTypeOK /\ SlugsTellApart /\ MarkerMeansImported
  OBVIOUS
<1>1. ImportTypeOK
  <2>1. \E S \in SUBSET Maker : slugOf \in [S -> Slug]
    <3>1. DOMAIN slugOf \in SUBSET Maker /\ slugOf \in [DOMAIN slugOf -> Slug]
      BY DEF SlugInv, ImportTyped, Slug
    <3> QED BY <3>1
  <2>2. \A r \in Import : \A n \in DOMAIN roster[r] : roster[r][n] \in Exported
    BY DEF SlugInv, ImportTyped
  <2> QED BY <2>1, <2>2 DEF SlugInv, ImportTyped, ImportTypeOK, Makers, MakerPc
<1>2. MarkerMeansImported
  <2> SUFFICES ASSUME folderMark # NoRun
               PROVE  /\ ListsFiles(roster[folderMark], {n \in DOMAIN Folder : Folder[n] \notin Undecodable})
                      /\ \A f \in Exported \ Undecodable : <<folderMark, f>> \in object \cap queued
                      /\ cover[folderMark] = Candidate \ Undecodable
    BY DEF MarkerMeansImported
  <2>1. folderMark \in Import /\ RunOK(folderMark) /\ maker[folderMark].pc = "done"
    BY DEF RunsOK, ImportTyped
  <2>2. /\ ListsFiles(roster[folderMark], Places(Len(Folder) + 1))
        /\ \A k \in Places(Len(Folder) + 1) : <<folderMark, Folder[k]>> \in object \cap queued
        /\ cover[folderMark] = Candidate \ Undecodable
    BY <2>1 DEF RunOK
  <2>3. ASSUME NEW f \in Exported \ Undecodable PROVE \E k \in Places(Len(Folder) + 1) : Folder[k] = f
    BY AllPlaces, ImportConstants
  <2> QED BY <2>2, <2>3, AllPlaces
<1> QED BY <1>1, <1>2 DEF SlugInv

LEMMA ImportMoves == SlugInv /\ RunsOK /\ [ImportNext]_importVars => SlugInv' /\ RunsOK'
<1> SUFFICES ASSUME SlugInv, RunsOK, [ImportNext]_importVars PROVE SlugInv' /\ RunsOK'
  OBVIOUS
<1>1. CASE UNCHANGED importVars
  BY <1>1 DEF importVars, SlugInv, RunsOK, ImportTyped, NotYet, LookedFirst, Chosen, SlugsTellApart, RunOK, Current
<1>2. ASSUME NEW m \in Maker, Begin(m) \/ CheckSlug(m) \/ InsertAlbum(m) \/ RemoveAlbum(m)
      PROVE  SlugInv' /\ RunsOK'
  <2>1. RunsOK' /\ ImportTyped'
    BY <1>2, RunCreates DEF RunsOK
  <2>2. ASSUME Begin(m) PROVE SlugInv'
    <3>1. UNCHANGED <<slugOf, crossed>> /\ maker[m].pc = "new"
      BY <2>2 DEF Begin, AlbumSame
    <3>2. PICK pc \in {"check", "refused"} : Go(m, pc)
      BY <2>2 DEF Begin
    <3>3. pc \in MakerPc /\ maker \in [Maker -> Makers]
      BY DEF MakerPc, SlugInv, ImportTyped
    <3> QED BY <2>1, <3>1, <3>2, <3>3, GoTyped, SlugsRest
  <2> QED BY <1>2, <2>1, <2>2, SlugChecked, SlugInserted, SlugRemoved
<1>3. ASSUME NEW r \in Import,
             PutFile(r) \/ InsertRow(r) \/ SendJob(r) \/ SetCover(r) \/ WriteMarker(r) \/ ScriptDies(r)
      PROVE  SlugInv' /\ RunsOK'
  <2>1. RunsOK' /\ ImportTyped'
    BY <1>3, LoopStep DEF RunsOK
  <2> QED BY <1>3, <2>1, LoopSlugs
<1> QED BY <1>1, <1>2, <1>3 DEF ImportNext

(* However many forms and imports race for a slug, two albums have one only  *)
(* where two admins' checks and inserts crossed (lib/albums.ts).             *)
THEOREM SlugsAlwaysTellApart == ImportSpec => []SlugsTellApart
<1> QED BY ImportBegins, ImportMoves, ImportProperties, PTL DEF ImportSpec

(* A folder with a marker is imported: its album has every decodable file    *)
(* with its object and its job, and a cover, whatever runs died before       *)
(* (import-album.ts).                                                        *)
THEOREM MarkerAlwaysMeansImported == ImportSpec => [](ImportTypeOK /\ MarkerMeansImported)
<1> QED BY ImportBegins, ImportMoves, ImportProperties, PTL DEF ImportSpec

-----------------------------------------------------------------------------
(* The backups.                                                             *)

ScriptPc == {"idle", "piping", "moved", "daily", "weekly", "monthly", "manifest", "exited"}
Scripts == [pc : ScriptPc, day : Date, rows : SUBSET ObjectKey]
Mirrors == [pc : {"idle", "copying", "exited"}, todo : SUBSET ObjectKey, after : Debt]

BackupTyped ==
    /\ date \in Date /\ gallery \subseteq ObjectKey /\ hot \subseteq ObjectKey
    /\ shelf \in [Tier -> SUBSET Dump]
    /\ script \in Scripts
    /\ manifest \in Date \cup {NoDate}
    /\ container \in [Role -> {"boot", "cron"}]
    /\ ran \in [Role -> Date \cup {NoDate}]
    /\ mirror \in Mirrors
    /\ cold \subseteq ObjectKey /\ mirrored \in Debt /\ purged \subseteq Negative
    /\ moves \in Nat /\ date + moves <= LastDate

Under(p, S) == KeysOf(p, S) # {}

\* A row has its object, whichever key a move gives it; and a photo that a dump
\* has a row for is in the gallery still, or was purged.
Alive(k) == k[2] \in purged \/ Under(k[2], gallery)
RowsExist ==
    /\ gallery \subseteq hot
    /\ \A t \in Tier : \A d \in shelf[t] : \A k \in d.rows : Alive(k)
    /\ script.pc \in {"piping", "moved"} => \A k \in script.rows : Alive(k)

\* A pass that has nothing left to copy has copied what it owes.
Covers(debt, S) == debt.keys \subseteq S /\ \A p \in debt.photos : Under(p, S)
PassCovers ==
    /\ mirror.pc = "copying" => Covers(mirror.after, mirror.todo \cup cold)
    /\ Covers(mirrored, cold)

\* The days that have a daily dump.
DailyDays == {e.day : e \in shelf["daily"]}

DailyOK ==
    /\ \A d, e \in shelf["daily"] : d.day = e.day => d = e
    /\ \A d \in shelf["daily"] : d.day <= date
    /\ script.day <= date
    /\ script.pc = "moved" => script.day \in DailyDays
    /\ \A d \in shelf["weekly"] \cup shelf["monthly"] : d.day + KeepDaily > date => d.day \in DailyDays

RestoreInv == BackupTyped /\ RowsExist /\ PassCovers
ShelfInv == BackupTyped /\ DailyOK

LEMMA BackupConstants ==
    /\ LastDate \in Nat /\ KeepDaily \in Nat /\ KeepDaily > 0
    /\ Date \subseteq Nat /\ 0 \in Date /\ "daily" \in Tier /\ "weekly" \in Tier /\ "monthly" \in Tier
    /\ "pg" \in Role /\ "mirror" \in Role /\ Keep["daily"] = KeepDaily /\ Tier = {"daily", "weekly", "monthly"}
BY BackupAssumption DEF Date, Tier, Role, Keep

LEMMA DebtType ==
    ASSUME hot \subseteq ObjectKey, cold \subseteq ObjectKey
    PROVE  NoDebt \in Debt /\ Owed \in Debt
BY DEF NoDebt, Owed, Debt

LEMMA BackupBegins == BackupInit => BackupTyped /\ RowsExist /\ PassCovers /\ DailyOK
<1> SUFFICES ASSUME BackupInit PROVE BackupTyped /\ RowsExist /\ PassCovers /\ DailyOK
  OBVIOUS
<1>1. script \in Scripts /\ mirror \in Mirrors
  BY BackupConstants DEF BackupInit, Scripts, Mirrors, ScriptPc, NoDebt, Debt
<1>2. BackupTyped
  BY <1>1, BackupConstants DEF BackupInit, BackupTyped, NoDebt, Debt
<1>3. \A t \in Tier : shelf[t] = {}
  BY DEF BackupInit
<1> QED BY <1>2, <1>3, BackupConstants DEF BackupInit, RowsExist, PassCovers, Covers, NoDebt, DailyOK, DailyDays

LEMMA PromotedDumps ==
    ASSUME BackupTyped, NEW t \in Tier, NEW days
    PROVE  /\ Promoted(t, days) \subseteq shelf[t] \cup {[day |-> script.day, rows |-> script.rows]}
           /\ Promoted(t, days) \subseteq Dump
BY DEF Promoted, BackupTyped, Scripts, Dump

LEMMA PruneMoves ==
    ASSUME BackupTyped, Prune
    PROVE  /\ script' \in Scripts /\ script'.pc \notin {"piping", "moved"} /\ script'.day = script.day
           /\ shelf' \in [Tier -> SUBSET Dump]
           /\ \A t \in Tier : shelf'[t] \subseteq shelf[t]
           /\ shelf'["daily"] = shelf["daily"] \/ shelf'["daily"] = Newest(shelf["daily"], KeepDaily)
<1>1. script.pc \in Tier /\ script \in Scripts /\ shelf \in [Tier -> SUBSET Dump]
  BY DEF Prune, BackupTyped
<1>2. CASE shelf[script.pc] = {}
  <2>1. shelf' = shelf /\ script' = [script EXCEPT !.pc = "exited"]
    BY <1>2 DEF Prune
  <2> QED BY <1>1, <2>1 DEF Scripts, ScriptPc
<1>3. CASE shelf[script.pc] # {}
  <2>1. /\ shelf' = [shelf EXCEPT ![script.pc] = Newest(shelf[script.pc], Keep[script.pc])]
        /\ script' = [script EXCEPT !.pc = After[script.pc]]
    BY <1>1, <1>3 DEF Prune
  <2>2. After[script.pc] \in {"weekly", "monthly", "manifest"}
    BY <1>1 DEF After, Tier
  <2>3. script' \in Scripts /\ script'.pc = After[script.pc] /\ script'.day = script.day
    BY <1>1, <2>1, <2>2 DEF Scripts, ScriptPc
  <2>4. \A t \in Tier : shelf'[t] = IF t = script.pc THEN Newest(shelf[t], Keep[t]) ELSE shelf[t]
    BY <1>1, <2>1
  <2>5. \A t \in Tier : Newest(shelf[t], Keep[t]) \subseteq shelf[t]
    BY DEF Newest
  <2>6. \A t \in Tier : shelf'[t] \subseteq shelf[t]
    BY <2>4, <2>5
  <2>7. shelf' \in [Tier -> SUBSET Dump]
    BY <1>1, <2>1, <2>6
  <2> QED BY <2>2, <2>3, <2>4, <2>6, <2>7, BackupConstants
<1> QED BY <1>2, <1>3

LEMMA DumpTyped ==
    ASSUME BackupTyped, StartDump \/ MoveDump \/ Promote \/ Prune \/ WriteManifest \/ DumpDies
    PROVE  BackupTyped'
<1> USE BackupConstants DEF BackupTyped, ScriptSame
<1>1. CASE StartDump
  BY <1>1 DEF StartDump, Scripts, ScriptPc
<1>2. CASE MoveDump
  BY <1>2 DEF MoveDump, Scripts, ScriptPc, Dump
<1>3. CASE Promote
  <2>1. script' \in Scripts
    BY <1>3 DEF Promote, Scripts, ScriptPc
  <2>2. shelf' \in [Tier -> SUBSET Dump]
    BY <1>3, PromotedDumps DEF Promote
  <2> QED BY <1>3, <2>1, <2>2 DEF Promote
<1>4. CASE Prune
  <2>1. script' \in Scripts /\ shelf' \in [Tier -> SUBSET Dump]
    BY <1>4, PruneMoves
  <2> QED BY <1>4, <2>1 DEF Prune
<1>5. CASE WriteManifest
  BY <1>5 DEF WriteManifest, Scripts, ScriptPc
<1>6. CASE DumpDies
  BY <1>6 DEF DumpDies, Scripts, ScriptPc
<1> QED BY <1>1, <1>2, <1>3, <1>4, <1>5, <1>6

OutsideStep ==
    \/ \E k \in ObjectKey : PhotoArrives(k) \/ PhotoPurged(k) \/ PhotoSwept(k)
    \/ \E k \in ObjectKey, a \in KeyAlbum : PhotoCopied(k, a) \/ PhotoRepointed(k, a)

LEMMA OthersTyped ==
    ASSUME BackupTyped,
           \/ OutsideStep \/ DayPasses \/ \E k \in ObjectKey : CopyObject(k)
           \/ StartMirror \/ FinishMirror \/ MirrorDies
    PROVE  BackupTyped'
<1> USE BackupConstants DEF BackupTyped, MirrorSame
<1>0. date \in Nat /\ moves \in Nat
  OBVIOUS
<1>1. ASSUME NEW k \in ObjectKey, PhotoArrives(k) \/ PhotoPurged(k) \/ PhotoSwept(k) PROVE BackupTyped'
  BY <1>1 DEF PhotoArrives, PhotoPurged, PhotoSwept, ElsewhereSame, ObjectKey
<1>2. ASSUME NEW k \in ObjectKey, NEW a \in KeyAlbum, PhotoCopied(k, a) \/ PhotoRepointed(k, a) PROVE BackupTyped'
  <2>1. <<a, k[2]>> \in ObjectKey
    BY DEF ObjectKey
  <2>2. CASE PhotoCopied(k, a)
    BY <1>0, <2>1, <2>2 DEF PhotoCopied, ElsewhereSame
  <2>3. CASE PhotoRepointed(k, a)
    BY <2>1, <2>3 DEF PhotoRepointed, ElsewhereSame
  <2> QED BY <1>2, <2>2, <2>3
<1>3. ASSUME NEW k \in ObjectKey, CopyObject(k) PROVE BackupTyped'
  BY <1>3 DEF CopyObject, Mirrors
<1>4. CASE DayPasses
  BY <1>0, <1>4 DEF DayPasses, Date
<1>5. CASE StartMirror
  BY <1>5, DebtType DEF StartMirror, Mirrors
<1>6. CASE FinishMirror
  BY <1>6 DEF FinishMirror, Mirrors, Swept
<1>7. CASE MirrorDies
  BY <1>7 DEF MirrorDies, Mirrors
<1> QED BY <1>1, <1>2, <1>3, <1>4, <1>5, <1>6, <1>7 DEF OutsideStep

LEMMA BackupTypes == BackupTyped /\ [BackupNext]_backupVars => BackupTyped'
<1>1. ASSUME BackupTyped, UNCHANGED backupVars PROVE BackupTyped'
  BY <1>1 DEF backupVars, BackupTyped
<1> QED BY <1>1, DumpTyped, OthersTyped DEF BackupNext, OutsideStep

-----------------------------------------------------------------------------
(* What can be restored.                                                    *)

\* Whatever happens in the gallery, a photo leaves it only by a purge.
LEMMA GalleryKeeps ==
    ASSUME BackupTyped, RowsExist, OutsideStep
    PROVE  /\ gallery' \subseteq hot' /\ \A k \in ObjectKey : Alive(k) => Alive(k)'
           /\ UNCHANGED <<date, shelf, script, mirror, cold, mirrored>>
<1>1. gallery \subseteq hot /\ gallery \subseteq ObjectKey
  BY DEF RowsExist, BackupTyped
<1>2. ASSUME NEW k \in ObjectKey, PhotoArrives(k) \/ PhotoSwept(k)
      PROVE  gallery \subseteq gallery' /\ gallery' \subseteq hot' /\ purged' = purged
  BY <1>1, <1>2 DEF PhotoArrives, PhotoSwept
<1>3. ASSUME NEW k \in ObjectKey, PhotoPurged(k)
      PROVE  gallery' = gallery \ {k} /\ gallery' \subseteq hot' /\ purged' = purged \cup {k[2]}
  BY <1>1, <1>3 DEF PhotoPurged
<1>4. ASSUME NEW k \in ObjectKey, NEW a \in KeyAlbum, PhotoCopied(k, a) \/ PhotoRepointed(k, a)
      PROVE  /\ gallery' \in {gallery, (gallery \ {k}) \cup {<<a, k[2]>>}}
             /\ gallery' \subseteq hot' /\ purged' = purged
  BY <1>1, <1>4 DEF PhotoCopied, PhotoRepointed
<1>5. ASSUME NEW j \in ObjectKey, Alive(j) PROVE Alive(j)'
  <2>1. ASSUME NEW k \in ObjectKey, PhotoArrives(k) \/ PhotoSwept(k) PROVE Alive(j)'
    BY <1>2, <1>5, <2>1 DEF Alive, Under, KeysOf
  <2>2. ASSUME NEW k \in ObjectKey, PhotoPurged(k) PROVE Alive(j)'
    BY <1>3, <1>5, <2>2 DEF Alive, Under, KeysOf
  <2>3. ASSUME NEW k \in ObjectKey, NEW a \in KeyAlbum, PhotoCopied(k, a) \/ PhotoRepointed(k, a) PROVE Alive(j)'
    <3>2. purged' = purged /\ gallery' \in {gallery, (gallery \ {k}) \cup {<<a, k[2]>>}}
      BY <1>4, <2>3
    <3>3. ASSUME NEW i \in gallery, i[2] = j[2] PROVE \E h \in gallery' : h[2] = j[2]
      <4>1. <<a, k[2]>>[2] = k[2]
        OBVIOUS
      <4> QED BY <3>2, <3>3, <4>1
    <3> QED BY <1>5, <3>2, <3>3 DEF Alive, Under, KeysOf
  <2> QED BY <2>1, <2>2, <2>3 DEF OutsideStep
<1>6. UNCHANGED <<date, shelf, script, mirror, cold, mirrored>>
  BY DEF OutsideStep, PhotoArrives, PhotoPurged, PhotoSwept, PhotoCopied, PhotoRepointed, ElsewhereSame
<1> QED BY <1>2, <1>3, <1>4, <1>5, <1>6 DEF OutsideStep

\* A dump of the shelves or in the making stands, if it comes from there.
LEMMA DumpsStand ==
    ASSUME BackupTyped, BackupTyped', RowsExist, UNCHANGED <<gallery, hot, purged>>,
           \A t \in Tier : \A d \in shelf'[t] :
             d \in shelf[t] \/ (script.pc \in {"piping", "moved"} /\ d.rows = script.rows),
           \/ script'.pc \notin {"piping", "moved"}
           \/ (script.pc \in {"piping", "moved"} /\ script'.rows = script.rows)
           \/ script'.rows = gallery
    PROVE  RowsExist'
<1>1. \A k \in ObjectKey : Alive(k)' <=> Alive(k)
  BY DEF Alive, Under, KeysOf
<1>2. /\ \A t \in Tier : \A d \in shelf[t] : d.rows \subseteq ObjectKey
      /\ \A t \in Tier : \A d \in shelf'[t] : d.rows \subseteq ObjectKey
      /\ script.rows \subseteq ObjectKey /\ script'.rows \subseteq ObjectKey
  BY DEF BackupTyped, Scripts, Dump
<1>3. \A k \in gallery : Alive(k)
  BY DEF Alive, Under, KeysOf
<1>4. \A t \in Tier : \A d \in shelf'[t] : \A k \in d.rows : Alive(k)'
  BY <1>1, <1>2 DEF RowsExist
<1>5. script'.pc \in {"piping", "moved"} => \A k \in script'.rows : Alive(k)'
  BY <1>1, <1>2, <1>3 DEF RowsExist
<1> QED BY <1>4, <1>5 DEF RowsExist

LEMMA RestoreStep ==
    ASSUME ~AllowDelete, RestoreInv, [BackupNext]_backupVars PROVE RestoreInv'
<1>0. BackupTyped /\ BackupTyped' /\ RowsExist /\ PassCovers
  BY BackupTypes DEF RestoreInv
<1> SUFFICES RowsExist' /\ PassCovers'
  BY <1>0 DEF RestoreInv
<1>1. CASE OutsideStep
  <2>1. /\ gallery' \subseteq hot' /\ \A k \in ObjectKey : Alive(k) => Alive(k)'
        /\ UNCHANGED <<shelf, script, mirror, cold, mirrored>>
    BY <1>0, <1>1, GalleryKeeps
  <2>2. /\ \A t \in Tier : \A d \in shelf[t] : d.rows \subseteq ObjectKey
        /\ script.rows \subseteq ObjectKey
    BY <1>0 DEF BackupTyped, Scripts, Dump
  <2>3. RowsExist'
    BY <1>0, <2>1, <2>2 DEF RowsExist
  <2> QED BY <1>0, <2>1, <2>3 DEF PassCovers
<1>2. ASSUME NEW k \in ObjectKey, CopyObject(k) PROVE RowsExist' /\ PassCovers'
  <2>1. /\ UNCHANGED <<shelf, script, gallery, hot, purged, mirrored>> /\ cold' = cold \cup {k}
        /\ mirror' = [mirror EXCEPT !.todo = mirror.todo \ {k}]
    BY <1>2 DEF CopyObject, MirrorSame
  <2>2. /\ mirror'.pc = mirror.pc /\ mirror'.after = mirror.after
        /\ mirror.todo \cup cold \subseteq mirror'.todo \cup cold'
    BY <1>0, <2>1 DEF BackupTyped, Mirrors
  <2>3. RowsExist'
    BY <1>0, <2>1 DEF RowsExist, Alive
  <2>4. \A p, S, T : S \subseteq T /\ Under(p, S) => Under(p, T)
    BY DEF Under, KeysOf
  <2>5. PassCovers'
    BY <1>0, <2>1, <2>2, <2>4 DEF PassCovers, Covers
  <2> QED BY <2>3, <2>5
<1>3. CASE DayPasses \/ UNCHANGED backupVars
  BY <1>0, <1>3 DEF DayPasses, backupVars, RowsExist, Alive, PassCovers
<1>4. CASE StartDump \/ MoveDump \/ Promote \/ Prune \/ WriteManifest \/ DumpDies
  <2>1. UNCHANGED <<gallery, hot, purged, cold, mirror, mirrored>>
    BY <1>4 DEF StartDump, MoveDump, Promote, Prune, WriteManifest, DumpDies, ScriptSame
  <2>7. PassCovers'
    BY <1>0, <2>1 DEF PassCovers
  <2> SUFFICES RowsExist'
    BY <2>7
  <2>2. CASE StartDump
    <3>1. UNCHANGED shelf /\ script'.rows = gallery
      BY <1>0, <2>2 DEF StartDump
    <3>2. \A t \in Tier : \A d \in shelf'[t] : d \in shelf[t]
      BY <3>1
    <3> QED BY <1>0, <2>1, <3>1, <3>2, DumpsStand
  <2>3. CASE MoveDump
    <3>1. /\ script.pc = "piping" /\ script'.rows = script.rows
          /\ shelf' = [shelf EXCEPT !["daily"] = {d \in shelf["daily"] : d.day # script.day}
                                    \cup {[day |-> script.day, rows |-> script.rows]}]
      BY <1>0, <2>3 DEF MoveDump, BackupTyped, Scripts
    <3>2. ASSUME NEW t \in Tier, NEW d \in shelf'[t] PROVE d \in shelf[t] \/ d.rows = script.rows
      <4>1. d \in shelf[t] \/ d = [day |-> script.day, rows |-> script.rows]
        BY <1>0, <3>1, <3>2 DEF BackupTyped
      <4> QED BY <4>1
    <3> QED BY <1>0, <2>1, <3>1, <3>2, DumpsStand
  <2>4. CASE Promote
    <3>1. /\ script.pc = "moved" /\ script'.pc = "daily"
          /\ shelf' = [shelf EXCEPT !["weekly"] = Promoted("weekly", Sunday),
                                    !["monthly"] = Promoted("monthly", FirstOfMonth)]
      BY <1>0, <2>4 DEF Promote, BackupTyped, Scripts
    <3>2. ASSUME NEW t \in Tier, NEW d \in shelf'[t] PROVE d \in shelf[t] \/ d.rows = script.rows
      <4>1. shelf'[t] = shelf[t] \/ \E days : shelf'[t] = Promoted(t, days)
        BY <1>0, <3>1, <3>2, BackupConstants DEF BackupTyped
      <4>2. d \in shelf[t] \/ d = [day |-> script.day, rows |-> script.rows]
        BY <1>0, <3>2, <4>1, PromotedDumps
      <4> QED BY <4>2
    <3> QED BY <1>0, <2>1, <3>1, <3>2, DumpsStand
  <2>5. CASE Prune
    BY <1>0, <2>1, <2>5, PruneMoves, DumpsStand
  <2>6. CASE WriteManifest \/ DumpDies
    <3>1. UNCHANGED shelf /\ script'.pc = "idle"
      BY <1>0, <2>6 DEF WriteManifest, DumpDies, BackupTyped, Scripts
    <3> QED BY <1>0, <2>1, <3>1, DumpsStand
  <2> QED BY <1>4, <2>2, <2>3, <2>4, <2>5, <2>6
<1>5. CASE StartMirror
  <2>1. /\ UNCHANGED <<gallery, hot, purged, cold, mirrored, shelf, script>>
        /\ mirror' = [pc |-> "copying", todo |-> hot \ cold, after |-> Owed]
    BY <1>5 DEF StartMirror, MirrorSame
  <2>2. (hot \ cold) \cup cold = hot \cup cold /\ gallery \subseteq hot
    BY <1>0 DEF RowsExist
  <2>3. ASSUME NEW p \in Owed.photos PROVE Under(p, hot \cup cold)
    <3>1. KeysOf(p, Dumped) # {} /\ (p \notin purged \/ KeysOf(p, cold) # {})
      BY DEF Owed
    <3>2. PICK k \in Dumped : k[2] = p
      BY <3>1 DEF KeysOf
    <3>4. PICK t \in Tier : \E d \in shelf[t] : k \in d.rows
      BY DEF Dumped
    <3>3. Alive(k)
      BY <1>0, <3>4 DEF RowsExist
    <3> QED BY <2>2, <3>1, <3>2, <3>3 DEF Alive, Under, KeysOf
  <2>4. Covers(Owed, hot \cup cold)
    BY <2>3 DEF Covers, Owed
  <2>5. mirror'.todo \cup cold' = hot \cup cold /\ mirror'.after = Owed
    BY <2>1, <2>2
  <2>6. PassCovers'
    BY <1>0, <2>1, <2>4, <2>5 DEF PassCovers
  <2> QED BY <1>0, <2>1, <2>6 DEF RowsExist, Alive
<1>6. CASE FinishMirror
  <2>1. /\ UNCHANGED <<gallery, hot, purged, shelf, script>> /\ cold' = cold /\ mirrored' = mirror.after
        /\ mirror'.pc = "idle" /\ mirror.pc = "copying" /\ mirror.todo \cup cold = cold
    BY <1>0, <1>6 DEF FinishMirror, PassDone, Swept, MirrorSame, BackupTyped, Mirrors
  <2>2. RowsExist'
    BY <1>0, <2>1 DEF RowsExist, Alive
  <2>3. Covers(mirror.after, cold)
    BY <1>0, <2>1 DEF PassCovers
  <2> QED BY <2>1, <2>2, <2>3 DEF PassCovers
<1>7. CASE MirrorDies
  <2>1. UNCHANGED <<gallery, hot, purged, cold, mirrored, shelf, script>> /\ mirror'.pc = "exited"
    BY <1>0, <1>7 DEF MirrorDies, MirrorSame, BackupTyped, Mirrors
  <2> QED BY <1>0, <2>1 DEF RowsExist, Alive, PassCovers
<1> QED BY <1>1, <1>2, <1>3, <1>4, <1>5, <1>6, <1>7 DEF BackupNext, OutsideStep

-----------------------------------------------------------------------------
(* The daily tier.                                                          *)

\* A recent day is among the newest KeepDaily.
LEMMA RecentIsKept ==
    ASSUME ShelfInv, NEW d \in shelf["daily"], d.day + KeepDaily > date
    PROVE  d \in Newest(shelf["daily"], KeepDaily)
<1> DEFINE S == {e \in shelf["daily"] : e.day > d.day}
           f == [e \in S |-> e.day]
<1>1. /\ shelf["daily"] \subseteq Dump /\ date \in Nat /\ d.day \in Nat /\ KeepDaily \in Nat /\ KeepDaily > 0
      /\ \A e \in shelf["daily"] : e.day \in Nat /\ e.day <= date
  BY BackupConstants DEF ShelfInv, DailyOK, BackupTyped, Dump
<1>2. f \in Injection(S, (d.day + 1)..date)
  <2>1. \A e \in S : f[e] = e.day /\ e.day \in (d.day + 1)..date
    BY <1>1
  <2>2. f \in [S -> (d.day + 1)..date]
    BY <2>1
  <2>3. \A a, b \in S : a.day = b.day => a = b
    BY DEF ShelfInv, DailyOK
  <2>4. \A a, b \in S : f[a] = f[b] => a = b
    BY <2>1, <2>3
  <2> HIDE DEF f, S
  <2> QED BY <2>2, <2>4 DEF Injection, IsInjective
<1>3. IsFiniteSet((d.day + 1)..date) /\ Cardinality((d.day + 1)..date) < KeepDaily
  <2>1. d.day + 1 \in Int /\ date \in Int
    BY <1>1
  <2>2. /\ IsFiniteSet((d.day + 1)..date)
        /\ Cardinality((d.day + 1)..date) = IF d.day + 1 > date THEN 0 ELSE date - (d.day + 1) + 1
    BY <2>1, FS_Interval
  <2> QED BY <1>1, <2>2
<1> HIDE DEF f
<1>4. IsFiniteSet(S) /\ Cardinality(S) <= Cardinality((d.day + 1)..date)
  BY <1>2, <1>3, FS_Injection
<1>5. Cardinality(S) < KeepDaily
  BY <1>1, <1>3, <1>4, FS_CardinalityType
<1> QED BY <1>5 DEF Newest

LEMMA ShelfStep == ShelfInv /\ [BackupNext]_backupVars => ShelfInv'
<1> SUFFICES ASSUME ShelfInv, [BackupNext]_backupVars PROVE ShelfInv'
  OBVIOUS
<1>0. BackupTyped /\ BackupTyped'
  BY BackupTypes DEF ShelfInv
<1>00. /\ date \in Nat /\ KeepDaily \in Nat /\ script.day \in Nat
       /\ \A d \in Dump : d.day \in Nat
       /\ DailyOK /\ shelf \in [Tier -> SUBSET Dump] /\ date' \in Nat
       /\ \A t \in Tier : shelf[t] \subseteq Dump
  BY <1>0, BackupConstants DEF ShelfInv, BackupTyped, Dump, Scripts
<1>1. ASSUME UNCHANGED <<date, shelf>>, script'.day = script.day \/ script'.day = date,
             script'.pc # "moved" \/ script' = script
      PROVE  DailyOK'
  BY <1>00, <1>1 DEF DailyOK, DailyDays
<1>2. CASE DayPasses
  <2>1. date' = date + 1 /\ UNCHANGED <<shelf, script>>
    BY <1>2 DEF DayPasses
  <2>2. \A d \in Dump : d.day + KeepDaily > date' => d.day + KeepDaily > date
    BY <1>00, <2>1
  <2>3. \A d \in Dump : d.day <= date => d.day <= date'
    BY <1>00, <2>1
  <2>4. script.day <= date'
    <3>1. script.day <= date
      BY <1>00 DEF DailyOK
    <3> QED BY <1>00, <2>1, <3>1
  <2>5. shelf["daily"] \subseteq Dump /\ shelf["weekly"] \subseteq Dump /\ shelf["monthly"] \subseteq Dump
    BY <1>00, BackupConstants
  <2>6. DailyDays' = DailyDays
    BY <2>1 DEF DailyDays
  <2>7. DailyOK'
    BY <1>00, <2>1, <2>2, <2>3, <2>4, <2>5, <2>6 DEF DailyOK
  <2> QED BY <1>0, <2>7 DEF ShelfInv
<1>3. CASE MoveDump
  <2> DEFINE new == [day |-> script.day, rows |-> script.rows]
  <2>1. /\ UNCHANGED date /\ script'.day = script.day
        /\ shelf'["daily"] = {d \in shelf["daily"] : d.day # script.day} \cup {new}
        /\ shelf'["weekly"] = shelf["weekly"] /\ shelf'["monthly"] = shelf["monthly"]
    BY <1>0, <1>00, <1>3, BackupConstants DEF MoveDump, ScriptSame, BackupTyped, Scripts
  <2>2. DailyDays' = DailyDays \cup {script.day}
    <3>1. new.day = script.day
      OBVIOUS
    <3>2. ASSUME NEW n \in DailyDays' PROVE n \in DailyDays \cup {script.day}
      BY <2>1, <3>1, <3>2 DEF DailyDays
    <3>3. ASSUME NEW n \in DailyDays \cup {script.day} PROVE n \in DailyDays'
      <4>1. CASE n = script.day
        BY <2>1, <3>1, <4>1 DEF DailyDays
      <4>2. CASE n # script.day
        <5>1. PICK e \in shelf["daily"] : e.day = n
          BY <3>3, <4>2 DEF DailyDays
        <5> QED BY <2>1, <4>2, <5>1 DEF DailyDays
      <4> QED BY <4>1, <4>2
    <3> QED BY <3>2, <3>3
  <2>3. /\ \A d, e \in shelf'["daily"] : d.day = e.day => d = e
        /\ \A d \in shelf'["daily"] : d.day <= date
    BY <1>00, <2>1 DEF DailyOK
  <2> QED BY <1>0, <1>00, <2>1, <2>2, <2>3 DEF DailyOK, ShelfInv
<1>4. CASE Promote
  <2>1. /\ UNCHANGED date /\ script.pc = "moved" /\ script'.pc = "daily" /\ script'.day = script.day
        /\ shelf'["daily"] = shelf["daily"]
        /\ shelf'["weekly"] = Promoted("weekly", Sunday) /\ shelf'["monthly"] = Promoted("monthly", FirstOfMonth)
    BY <1>0, <1>00, <1>4, BackupConstants DEF Promote, ScriptSame, BackupTyped, Scripts
  <2>2. DailyDays' = DailyDays
    BY <2>1 DEF DailyDays
  <2>3. ASSUME NEW d \in shelf'["weekly"] \cup shelf'["monthly"]
        PROVE  d \in shelf["weekly"] \cup shelf["monthly"] \/ d.day = script.day
    BY <1>0, <2>1, PromotedDumps, BackupConstants
  <2> QED BY <1>0, <1>00, <2>1, <2>2, <2>3 DEF DailyOK, ShelfInv
<1>5. CASE Prune
  <2>1. /\ UNCHANGED date /\ script'.pc # "moved" /\ script'.day = script.day
        /\ \A t \in Tier : shelf'[t] \subseteq shelf[t]
        /\ shelf'["daily"] = shelf["daily"] \/ shelf'["daily"] = Newest(shelf["daily"], KeepDaily)
    BY <1>0, <1>5, PruneMoves DEF Prune, ScriptSame
  <2>2. ASSUME NEW d \in Dump, d.day + KeepDaily > date, d.day \in DailyDays PROVE d.day \in DailyDays'
    <3>1. PICK e \in shelf["daily"] : e.day = d.day
      BY <2>2 DEF DailyDays
    <3>2. e \in shelf'["daily"]
      BY <2>1, <2>2, <3>1, RecentIsKept
    <3> QED BY <3>1, <3>2 DEF DailyDays
  <2>3. shelf'["daily"] \subseteq shelf["daily"] /\ shelf'["weekly"] \subseteq shelf["weekly"]
        /\ shelf'["monthly"] \subseteq shelf["monthly"] /\ shelf["weekly"] \subseteq Dump /\ shelf["monthly"] \subseteq Dump
    BY <1>00, <2>1, BackupConstants
  <2> QED BY <1>0, <1>00, <2>1, <2>2, <2>3 DEF DailyOK, ShelfInv
<1>6. CASE StartDump
  BY <1>0, <1>1, <1>6 DEF StartDump, ScriptSame, ShelfInv
<1>7. CASE WriteManifest \/ DumpDies
  <2>1. UNCHANGED <<date, shelf>> /\ script'.day = script.day /\ script'.pc = "idle"
    BY <1>0, <1>7 DEF WriteManifest, DumpDies, ScriptSame, BackupTyped, Scripts
  <2> QED BY <1>0, <1>1, <2>1 DEF ShelfInv
<1>8. CASE UNCHANGED <<date, shelf, script>>
  BY <1>0, <1>1, <1>8 DEF ShelfInv
<1>9. ASSUME OutsideStep \/ (\E k \in ObjectKey : CopyObject(k))
             \/ StartMirror \/ FinishMirror \/ MirrorDies \/ UNCHANGED backupVars
      PROVE UNCHANGED <<date, shelf, script>>
  BY <1>9 DEF OutsideStep, PhotoArrives, PhotoPurged, PhotoSwept, PhotoCopied, PhotoRepointed, ElsewhereSame, CopyObject, StartMirror, FinishMirror, MirrorDies, MirrorSame, backupVars
<1> QED BY <1>2, <1>3, <1>4, <1>5, <1>6, <1>7, <1>8, <1>9 DEF BackupNext, OutsideStep

(* The backups are typed, whatever the mirror may delete.                    *)
LEMMA BackupsAreTyped == BackupSpec => []BackupTypeOK
<1>1. BackupTyped => BackupTypeOK
  BY DEF BackupTyped, BackupTypeOK, Scripts, ScriptPc, Mirrors
<1> QED BY BackupBegins, BackupTypes, <1>1, PTL DEF BackupSpec

(* While the mirror deletes nothing, a dump it has followed can be restored   *)
(* with its photos, and pruning loses no recent day (pg-backup.sh,           *)
(* minio-mirror.sh).                                                         *)
THEOREM BackupsCanAlwaysRestore ==
    ASSUME ~AllowDelete PROVE BackupSpec => [](BackupTypeOK /\ BackupsCanRestore)
<1>1. RestoreInv /\ ShelfInv => BackupTypeOK /\ BackupsCanRestore
  <2>1. BackupTyped => BackupTypeOK
    BY DEF BackupTyped, BackupTypeOK, Scripts, ScriptPc, Mirrors
  <2>2. RestoreInv /\ ShelfInv => BackupsCanRestore
    BY DEF RestoreInv, ShelfInv, PassCovers, Covers, Under, DailyOK, DailyDays, BackupsCanRestore
  <2> QED BY <2>1, <2>2 DEF RestoreInv
<1>2. RestoreInv /\ [BackupNext]_backupVars => RestoreInv'
  BY RestoreStep
<1>3. BackupInit => RestoreInv /\ ShelfInv
  BY BackupBegins DEF RestoreInv, ShelfInv
<1> QED BY <1>1, <1>2, <1>3, ShelfStep, PTL DEF BackupSpec
=============================================================================
