------------------------------- MODULE MCOffice -------------------------------
(* Instances, for TLC, of the modules about what admins and visitors do     *)
(* around the pipeline.  They share no state, so a behaviour is of the      *)
(* scene it starts in, and the other modules rest.                          *)
EXTENDS ShareLink, Export, AdminAccess, SettingsCache, UploadBatch, AlbumOrder,
        ImageServing, Backup, ImportAlbum, Insights, Lightbox, ExportDialog,
        PhotoEditor, Deploy, GridHands, TLC

CONSTANTS
    a1, a2, b1, b2, t1, t2, v1, v2, ph, k1, k2, f1, f2, f3, f4, w1, w2, w3, g1, g2, d1, d2, l1, l2,
    i1, n1, n2, form1, ws1, ws2, jpg, png, txt, up1, orig1

MCViewerOf == [t \in Tab |-> IF t = t1 THEN v1 ELSE v2]
MCEditOf == [e \in Edit |-> ph]
MCFileOf == [b \in Batch |-> IF b = k1 THEN {f1, f2} ELSE {f3, f4}]
MCByDate == <<w2, w1, w3>>
MCGridOf == [x \in Reorder \cup Reload |-> IF x \in {d1, l1} THEN g1 ELSE g2]
MCImageOf == [e \in Rewrite |-> i1]
MCWorkspaceOf == [m \in Maker |-> IF m = form1 THEN ws1 ELSE ws2]
MCFolder == <<jpg, txt, png>>
MCShots == <<"s1", "s2">>
MCMigrations == <<"001", "018", "019">>
MCEmailOf == [u \in Up |-> IF u = up1 THEN Legacy ELSE "new"]
MCRetouchOf == [e \in Retouch |-> orig1]
MCStroke == {<<0, 0>>, <<60, 5>>, <<-60, 5>>, <<5, 90>>, <<5, 40>>}

VARIABLE scene

Scene == {"share", "export", "access", "settings", "upload", "order", "images",
          "backup", "import", "insights", "lightbox", "dialog", "editor", "deploy", "hands"}

Init ==
    /\ scene \in Scene
    /\ ShareInit /\ ExportInit /\ AccessInit /\ SettingsInit /\ UploadInit
    /\ OrderInit /\ ImageInit /\ BackupInit /\ ImportInit /\ InsightInit
    /\ LightboxInit /\ DialogInit /\ EditorInit /\ DeployInit /\ HandInit
    \* The modules with a choice at their start: the owner is logged in, and
    \* somebody or nobody else; the visitor likes all photos or none, or some;
    \* the size of the photo; what an earlier deployment left.
    /\ cookie[b1] = Owner /\ (scene # "access" => cookie[b2] = Nobody)
    /\ hearts = {} \/ (scene = "lightbox" /\ hearts = Shot)
    /\ scene # "dialog" => liked = {}
    /\ scene # "editor" => \A a \in Axis : size[a] = 1
    /\ scene # "deploy" => applied = {} /\ ~bucket

\* The variables of the scenes other than s are left alone.
Rests(s, vars) == IF scene = s THEN TRUE ELSE UNCHANGED vars

Next ==
    /\ UNCHANGED scene
    /\ Rests("share", shareVars) /\ Rests("export", exportVars)
    /\ Rests("access", accessVars) /\ Rests("settings", settingsVars)
    /\ Rests("upload", uploadVars) /\ Rests("order", orderVars)
    /\ Rests("images", imageVars) /\ Rests("backup", backupVars)
    /\ Rests("import", importVars) /\ Rests("insights", insightVars)
    /\ Rests("lightbox", lightboxVars)
    /\ Rests("dialog", dialogVars) /\ Rests("editor", editorVars)
    /\ Rests("deploy", deployVars) /\ Rests("hands", handVars)
    /\ \/ scene = "share" /\ ShareNext
       \/ scene = "export" /\ ExportNext
       \/ scene = "access" /\ AccessNext
       \/ scene = "settings" /\ SettingsNext
       \/ scene = "upload" /\ UploadNext
       \/ scene = "order" /\ OrderNext
       \/ scene = "images" /\ ImageNext
       \/ scene = "backup" /\ BackupNext
       \/ scene = "import" /\ ImportNext
       \/ scene = "insights" /\ InsightNext
       \/ scene = "lightbox" /\ LightboxNext
       \/ scene = "dialog" /\ DialogNext
       \/ scene = "editor" /\ EditorNext
       \/ scene = "deploy" /\ DeployNext
       \/ scene = "hands" /\ HandNext

officeVars == <<scene, shareVars, exportVars, accessVars, settingsVars, uploadVars,
                orderVars, imageVars, backupVars, importVars, insightVars, lightboxVars,
                dialogVars, editorVars, deployVars, handVars>>
Spec == Init /\ [][Next]_officeVars

\* Of the scene's module: the others keep the state their own scene starts in.
TypeOK ==
    CASE scene = "share" -> ShareTypeOK
      [] scene = "export" -> ExportTypeOK
      [] scene = "access" -> AccessTypeOK
      [] scene = "settings" -> SettingsTypeOK
      [] scene = "upload" -> UploadTypeOK
      [] scene = "order" -> OrderTypeOK
      [] scene = "images" -> ImageTypeOK
      [] scene = "backup" -> BackupTypeOK
      [] scene = "import" -> ImportTypeOK
      [] scene = "insights" -> InsightTypeOK
      [] scene = "lightbox" -> LightboxTypeOK
      [] scene = "dialog" -> DialogTypeOK
      [] scene = "editor" -> EditorTypeOK
      [] scene = "deploy" -> DeployTypeOK
      [] scene = "hands" -> HandTypeOK

-----------------------------------------------------------------------------
(* Independent halves of a scene are explored one beside the other resting. *)

\* The page and its cache; the password gate and the recorded views.
Gate == {"verify", "context", "insert", "count"}
Refilling == {f \in Refill : req[f].pc # "idle"}
ShareApart ==
    /\ admin[a2] = "idle" \/ admin[a1] # "idle"
    /\ Cardinality({t \in Tab : req[t].pc = "served"}) <= 1
    /\ now = MaxTime => \E t \in Tab : req[t].pc = "idle"
    /\ link = NoLinkYet => now = 0 /\ \A t \in Tab : req[t].pc = "idle"
    /\ \/ /\ views = {} /\ unlocked = {} /\ told = 0 /\ link.password = Open
          /\ \A t \in Tab : req[t].pc \notin Gate
       \/ /\ entry = NoEntry /\ content = 0 /\ now <= 1
          /\ \A t \in Loader : req[t].pc \in Gate \cup {"idle"}
    \* Refills, behind an open link and one admin; two of them, behind one that
    \* is there for ever.
    /\ Refilling # {} => /\ link.password = Open /\ unlocked = {} /\ admin[a2] = "idle"
                        /\ \A t \in Tab : req[t].pc \in {"idle", "lookup", "served"}
    /\ Cardinality(Refilling) > 1 => /\ link.expires = Never
                                    /\ \A t \in Tab : req[t].pc \in {"idle", "served"}

\* The tiles; the presigned downloads.
ImagesApart ==
    \/ \A d \in Download : signed = <<>> /\ download[d].pc = "none"
    \/ /\ variant = {} /\ touches = 0
       /\ \A p \in Page : tile[p].pc = "blank"
       /\ \A e \in Rewrite : rewrite[e].pc = "idle"

\* A summary of all events; a cached one; the charts.
InsightsApart ==
    \/ trend.pc = "idle" /\ (cached.at = -1 \/ Len(events) < MaxEvents)
    \/ summary.pc = "idle" /\ cached.at = -1 /\ Len(events) < MaxEvents

\* A fault in the export; the next day and the reaper.
ExportApart ==
    \/ today = 0 /\ (faults = 0 \/ \A p \in Photo : photo[p].row)
    \/ faults = 0 /\ \A p \in Photo : photo[p].row

\* Only one of the two pages reloads.
OrderApart == \E r \in Reload : reload[r].pc = "idle"

\* Sessions at work, one request at a time in the last moment; logins.
AccessApart ==
    \/ /\ \A u \in User : hits[u] = {}
       /\ tick = LastTick => \E b \in Browser : visit[b].pc = "idle"
    \/ \A u \in User : state[u] = NoState /\ Enabled(u)

\* One page and a trouble; two pages, from the first photo on, and one tap at
\* a time.
LightboxApart ==
    /\ Cardinality(Shot \ ready) + slips + (IF linkOk THEN 0 ELSE 1) <= 1
    /\ (slips = 0 /\ ready = Shot /\ linkOk) \/ (Top <= 1 /\ coming = NoPage)
    /\ \A n \in DOMAIN pages : pages[n].tapped => Top = 1 /\ \A m \in DOMAIN pages : pages[m].pc = "idle"
    /\ Top = 0 \/ pages[1].page.photo = Shots[1]

\* One drag of the first box; a save of what the editor shows.
EditorApart ==
    /\ editor.pending \/ save.pc = "none" \/ ~editor.open
    /\ (save.pc # "none" /\ editor.open) =>
         /\ editor.crop = save.crop /\ editor.rotate = save.rotate
         /\ editor.brightness = save.brightness
    /\ editor.crop # {} => ~editor.brightness /\ editor.rotate \in {0, 1}
    /\ \A b \in editor.crop : \E a \in Axis : b[a] = [at |-> FirstAt, len |-> FirstLen]

\* The containers; the backfill.
DeployApart ==
    \/ backfill.pc = "idle" /\ \A p \in Original : thumbhash[p] = NULL /\ rewritten[p] = 0
    \/ /\ \A u \in Up : up[u].pc = "idle"
       /\ applied = {} /\ admins = <<>> /\ latest = FirstVersion

\* The tiles; the viewer and the picker.
HandsApart ==
    \/ picker = ClosedPicker /\ openPhoto = NoStill
    \/ timers = {} /\ press = NoPress /\ tapOrigin = {} /\ tapMoved = {} /\ ~selection.mode /\ bulk = {}

Apart == ShareApart /\ AccessApart /\ ExportApart /\ OrderApart /\ ImagesApart /\ InsightsApart
         /\ LightboxApart /\ EditorApart /\ DeployApart /\ HandsApart

-----------------------------------------------------------------------------
(* Properties that make one promise of several modules.                     *)

\* Every limit is kept: no album has more files, no storage more bytes and no
\* admin more than the settings allow, but by what was in the air together;
\* a login is tried no more often than the limiter lets; and no crop reaches
\* beyond the image.
LimitsHold == CapsHold /\ LoginsAreLimited /\ ExtractStaysInside

\* A reorder is stored whole, and the grid that settled shows the album's order.
OrderHolds == ReorderIsWhole /\ GridShowsAlbum

\* What a cache answers is not older than its lifetime, or its module says when.
CachesAreRecent == PageIsRecent /\ []SettingsAreRecent

\* The scripts may be run again after a crash, or beside each other: an import
\* is marked done when it is, and a migration takes effect once.
ScriptsCanRerun == MarkerMeansImported /\ MigratedOnce

\* What the hands on the grid did, and no more, selects and picks.
HandsAreObeyed == PressMeansHold /\ CoverIsPicked
=============================================================================
