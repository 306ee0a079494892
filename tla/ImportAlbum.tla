----------------------------- MODULE ImportAlbum -----------------------------
(* Albums come to be: createAlbum (lib/albums.ts), which looks for a free   *)
(* slug and then inserts, from the admin form and from                      *)
(* scripts/import-album.ts, which fills the album from an export folder and *)
(* leaves a marker in the folder last.  Every title here has the same root. *)
EXTENDS Integers, Sequences, FiniteSets

CONSTANTS
    Form,               \* submissions of the new-album form
    Import,             \* runs of the script, all on one folder
    Workspace, WorkspaceOf,     \* the admin who owns what a maker creates
    Folder,             \* the files in manifest order
    Undecodable,        \* those sharp cannot read
    SlugTries           \* candidates before the random one (20)

Maker == Form \cup Import
Exported == {Folder[n] : n \in DOMAIN Folder}

\* A maker stands for its random suffix: none of the candidates in turn.
ASSUME ImportAssumption ==
    /\ Form \cap Import = {} /\ Maker \cap (1..SlugTries) = {} /\ Folder \in Seq(Exported)
    /\ WorkspaceOf \in [Form \cup Import -> Workspace]
    /\ \A r, s \in Import : WorkspaceOf[r] = WorkspaceOf[s]
    /\ SlugTries \in Nat \ {0}

Slug == (1..SlugTries) \cup Maker
NoRun == "no run"

VARIABLES
    maker,      \* the code running: its step, candidate and photo
    slugOf,     \* the slug of each album that exists (an album is its maker)
    crossed,    \* the makers that inserted since the last check (ghost)
    object,     \* originals: <<run, file>>
    roster,     \* the rows of each imported album, by sort_order
    queued,     \* derivative jobs sent
    cover,      \* the cover of each imported album
    folderMark  \* .gallery-imported.json

importVars == <<maker, slugOf, crossed, object, roster, queued, cover, folderMark>>

ImportTypeOK ==
    /\ maker \in [Maker -> [pc : {"new", "check", "insert", "made", "put", "row", "job", "cover",
                                  "mark", "done", "failed", "refused"},
                            try : 1..(SlugTries + 1), n : 1..(Len(Folder) + 1)]]
    /\ \E S \in SUBSET Maker : slugOf \in [S -> Slug]
    /\ crossed \in [Maker -> SUBSET Maker]
    /\ object \subseteq Import \X Exported /\ queued \subseteq Import \X Exported
    /\ \A r \in Import : \A n \in DOMAIN roster[r] : roster[r][n] \in Exported
    /\ cover \in [Import -> SUBSET Exported]
    /\ folderMark \in Import \cup {NoRun}

ImportInit ==
    /\ maker = [m \in Maker |-> [pc |-> "new", try |-> 1, n |-> 1]]
    /\ slugOf = [m \in {} |-> 1]
    /\ crossed = [m \in Maker |-> {}]
    /\ object = {} /\ queued = {} /\ roster = [r \in Import |-> <<>>]
    /\ cover = [r \in Import |-> {}]
    /\ folderMark = NoRun

Go(m, pc) == maker' = [maker EXCEPT ![m].pc = pc]
FolderSame == UNCHANGED <<object, roster, queued, cover, folderMark>>
AlbumSame == UNCHANGED <<slugOf, crossed>>

-----------------------------------------------------------------------------
(* createAlbum.                                                             *)

\* The script reads the marker before anything else, and needs an owner.
Begin(m) ==
    /\ maker[m].pc = "new"
    /\ Go(m, IF m \in Import /\ folderMark # NoRun THEN "refused" ELSE "check")
    /\ AlbumSame /\ FolderSame

\* Mutant: unique in the workspace only, as the index of migration 021 is.
TakenInWorkspace(m, s) == \E o \in DOMAIN slugOf : slugOf[o] = s /\ WorkspaceOf[o] = WorkspaceOf[m]

\* uniqueGlobalSlug asks across all workspaces.
SlugTaken(m, s) == \E o \in DOMAIN slugOf : slugOf[o] = s

CheckSlug(m) ==
    /\ maker[m].pc = "check"
    /\ IF maker[m].try <= SlugTries /\ SlugTaken(m, maker[m].try)
       THEN /\ maker' = [maker EXCEPT ![m].try = @ + 1]
            /\ UNCHANGED crossed
       ELSE /\ Go(m, "insert")
            /\ crossed' = [crossed EXCEPT ![m] = {}]
    /\ UNCHANGED slugOf /\ FolderSame

\* Mutant: no random suffix after the last candidate.
ChosenInTurn(m) == maker[m].try

Chosen(m) == IF maker[m].try <= SlugTries THEN maker[m].try ELSE m

\* The unique index on (owner_user_id, slug) refuses the second in a workspace.
InsertAlbum(m) ==
    /\ maker[m].pc = "insert"
    /\ IF \E o \in DOMAIN slugOf : slugOf[o] = Chosen(m) /\ WorkspaceOf[o] = WorkspaceOf[m]
       THEN Go(m, "failed") /\ AlbumSame
       ELSE /\ slugOf' = [o \in DOMAIN slugOf \cup {m} |-> IF o = m THEN Chosen(m) ELSE slugOf[o]]
            /\ crossed' = [o \in Maker |-> IF o # m /\ maker[o].pc = "insert"
                                           THEN crossed[o] \cup {m} ELSE crossed[o]]
            /\ Go(m, IF m \in Import THEN "put" ELSE "made")
    /\ FolderSame

\* A form's album is purged and its slug is free again.
RemoveAlbum(m) ==
    /\ maker[m].pc = "made" /\ m \in DOMAIN slugOf
    /\ slugOf' = [o \in DOMAIN slugOf \ {m} |-> slugOf[o]]
    /\ UNCHANGED <<maker, crossed>> /\ FolderSame

-----------------------------------------------------------------------------
(* The loop of main: each file is put, inserted and queued, in the order of *)
(* the manifest; a file that cannot be decoded is skipped.                  *)

Current(r) == Folder[maker[r].n]
NextFile(r) == maker' = [maker EXCEPT ![r].n = @ + 1, ![r].pc = "put"]

PutFile(r) ==
    /\ maker[r].pc = "put" /\ maker[r].n <= Len(Folder)
    /\ IF Current(r) \in Undecodable
       THEN NextFile(r) /\ UNCHANGED object
       ELSE object' = object \cup {<<r, Current(r)>>} /\ Go(r, "row")
    /\ AlbumSame /\ UNCHANGED <<roster, queued, cover, folderMark>>

\* insertPhoto at MAX(sort_order) + 1, then the manifest's EXIF on the row.
InsertRow(r) ==
    /\ maker[r].pc = "row"
    /\ roster' = [roster EXCEPT ![r] = Append(@, Current(r))]
    /\ Go(r, "job")
    /\ AlbumSame /\ UNCHANGED <<object, queued, cover, folderMark>>

SendJob(r) ==
    /\ maker[r].pc = "job"
    /\ queued' = queued \cup {<<r, Current(r)>>}
    /\ NextFile(r)
    /\ AlbumSame /\ UNCHANGED <<object, roster, cover, folderMark>>

\* The manifest's cover, here the first file.
Candidate == {Folder[n] : n \in DOMAIN Folder \cap {1}}

\* It is set by filename, when a row of the album has it.
SetCover(r) ==
    /\ maker[r].pc = "put" /\ maker[r].n > Len(Folder)
    /\ cover' = [cover EXCEPT ![r] = Candidate \cap {roster[r][n] : n \in DOMAIN roster[r]}]
    /\ Go(r, "mark")
    /\ AlbumSame /\ UNCHANGED <<object, roster, queued, folderMark>>

\* Mutant: the marker is written as soon as there is an album.
MarkableEarly(r) == maker[r].pc \in {"put", "mark"}

Markable(r) == maker[r].pc = "mark"

WriteMarker(r) ==
    /\ Markable(r)
    /\ folderMark' = r
    /\ IF maker[r].pc = "mark" THEN Go(r, "done") ELSE UNCHANGED maker
    /\ AlbumSame /\ UNCHANGED <<object, roster, queued, cover>>

\* Any call throws, or the process is killed: what it made so far stays.
ScriptDies(r) ==
    /\ maker[r].pc \in {"check", "insert", "put", "row", "job", "mark"}
    /\ Go(r, "failed")
    /\ AlbumSame /\ FolderSame

ImportNext ==
    \/ \E m \in Maker : Begin(m) \/ CheckSlug(m) \/ InsertAlbum(m) \/ RemoveAlbum(m)
    \/ \E r \in Import : PutFile(r) \/ InsertRow(r) \/ SendJob(r) \/ SetCover(r) \/ WriteMarker(r)
                            \/ ScriptDies(r)

ImportSpec == ImportInit /\ [][ImportNext]_importVars

-----------------------------------------------------------------------------
(* Properties.                                                              *)

\* The files at those places of the folder, in manifest order.
ListsFiles(list, places) ==
    \E at \in [DOMAIN list -> places] :
      /\ \A n \in DOMAIN list : list[n] = Folder[at[n]]
      /\ \A n, k \in DOMAIN list : n < k => at[n] < at[k]
      /\ \A p \in places : \E n \in DOMAIN list : at[n] = p

\* A folder that says it was imported was: the album its marker names has
\* every decodable file, in manifest order, with its object and its job, and
\* a cover of its own, whatever runs died before or run beside it.
MarkerMeansImported ==
    folderMark # NoRun =>
      /\ ListsFiles(roster[folderMark], {n \in DOMAIN Folder : Folder[n] \notin Undecodable})
      /\ \A f \in Exported \ Undecodable : <<folderMark, f>> \in object \cap queued
      /\ cover[folderMark] = Candidate \ Undecodable

\* Slugs name one album across workspaces (the owner resolves them without
\* an owner_user_id), except where one was inserted between the other's
\* check and insert, by another admin.
SlugsTellApart ==
    \A m, o \in DOMAIN slugOf :
      (m # o /\ slugOf[m] = slugOf[o]) =>
        (m \in crossed[o] \/ o \in crossed[m]) /\ WorkspaceOf[m] # WorkspaceOf[o]
=============================================================================
