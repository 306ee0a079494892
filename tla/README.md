# gallery-hub: a verification project

TLA+ models of the photo gallery in `src/` (a Next.js application, a pg-boss worker,
Postgres and MinIO), the TLC runs that check them on small instances, and TLAPS proofs of
the theorems that matter most. Paths below are relative to `src/`; `albums.ts` is
`src/lib/albums.ts`.

## 1. The system

Every interesting operation of the gallery changes two or three stores that share no
transaction: Postgres rows, MinIO objects and pg-boss jobs. A handler is a list of awaits
over those stores; any two handlers interleave at every await, any process may die between
two of them, and most storage errors are caught and turned into something else. In front
of the stores stand caches (page data, settings, user state, presigned URLs, archives, the
CDN), and the pages are optimistic: they show what the user asked for before the server has
it and poll for what it does meanwhile.

| component | state it keeps | operations | correct when | module |
|---|---|---|---|---|
| Upload: presign, browser PUT, `api/upload/finalize`, `Dropzone.tsx` | `photos` rows, originals, the rows of the panel | sign, PUT, HEAD, insert a batch, enqueue | every inserted row has a job on its way to it; caps hold; the panel tells the truth | `PhotoPipeline`, `UploadBatch` |
| Photo edit, `api/photos/[id]/edit`, `PhotoEditModal.tsx` | the original, the row's status, the box of the dialog | GET, transform, PUT to the same key, flag, enqueue | the metadata ends up describing the edited bytes; a crop stays inside | `PhotoPipeline`, `PhotoEditor` |
| Derivatives worker, `workers/index.ts`, `generateDerivatives.ts` | batches of jobs | read, describe, save, re-enqueue with attempt + 1, give up | garbage is never published; a poison image keeps to itself and ends | `PhotoPipeline` |
| Reconcile sweep, `reconcileProcessing.ts` | none | select stuck rows, HEAD, enqueue | a lost job is made good | `PhotoPipeline` |
| Job queue, `jobs.ts` and pg-boss | job rows | send, insert, fetch, complete, expire, redeliver | (external) | `PhotoPipeline`, `Notifications` |
| Album storage, `albums.ts`, `admin/albums/actions.ts` | `albums.cover_photo_id`, `photos.album_id`, object keys that hold the album id | move, delete, set cover | a row's bytes are where the row says | `AlbumStorage` |
| Purge and reaper, `albums.ts`, `workers/reaper.ts` | `albums.deleted_at`, prefixes | list, delete objects, delete rows | an album that is gone left no bytes; the trash is emptied | `AlbumStorage` |
| Album order, `albums.ts`, `PhotoGrid.tsx` | `sort_order`, what each grid shows | drag, sort, insert, delete, reload | reorders do not mix; a settled grid shows the album | `AlbumOrder`, `GridDesk` |
| Album creation, `albums.ts`, `scripts/import-album.ts` | slugs, the marker in a folder | check a slug and insert, import, retry | slugs tell albums apart; a marked folder was imported | `ImportAlbum` |
| Notifications, `notifications.ts`, `workers/notifications.ts` | `notification_log`, rules | gate, throttle, insert, send, deliver, replay | a second message has a reason; none stuck in the log | `Notifications` |
| Share links and viewer access | `share_links`, page cache, unlock cookie, `view_events` | create, update, revoke, unlock, view | a revoked link stops working within its bound; one first viewer | `ShareLink` |
| Favorites | `favorites`, the hearts and badge of a page | toggle | a page at rest shows what the server has | `FavoriteToggle`, `Lightbox` |
| Share page while it loads | images counted, bar, splash | mount, load, timers | the page appears | `PageLoad`, `GalleryPage` |
| Export, export reaper, export dialog | zip cache | look up, build, fan out, upload, reap; probe, download | the cache holds what its signature says; what is downloaded was picked | `Export`, `ExportDialog` |
| Settings cache | one entry per process | load, save, invalidate | staleness is bounded | `SettingsCache` |
| Users, sessions, rate limiter | `admin_users`, cookie, user-state cache, buckets | log in, check, create, reset, disable, delete | a disabled account is out in time; the owner stays | `AdminAccess`, `ExportDialog` |
| Image URLs, `imgproxy.ts`, `presign.ts` | versioned URLs, the presign LRU | render, warm, sign | no page shows bytes older than the last edit | `ImageServing` |
| Admin grid, selection, viewer, cover picker | selection, press, picker | press, select, bulk, pick | only what the hand did is selected and picked | `GridHands` |
| Widget, metrics, charts | a summary cache | load, group, fill days | a dashboard is right about a log that moves | `Insights` |
| Backup containers, `pg-backup.sh`, `minio-mirror.sh` | tiers of dumps, manifests, cold storage | dump, promote, prune, mirror | a dump can be restored with its photos | `Backup` |
| Deployment, `migrate.ts`, `seed-admin.ts`, `backfill-thumbhash.ts` | `_migrations`, containers, thumbhashes | migrate, seed, start, backfill, edit | a migration takes effect once; a thumbhash describes the original or will | `Deploy` |

How they meet: finalize, edit, sweep and regeneration all feed one queue; edit, delete and
the worker write the same row; edit, move, delete, purge and reaper write the same prefix;
finalize, export and viewer requests feed notifications; album actions invalidate the share
cache. The hard behaviours, with their lines, are the `hazards` of `PROJECT.json`, each
with the properties that watch it.

## 2. Modules

`PhotoLifecycle` is the abstract life of a row: inserted as processing, published only if
its bytes decode, withdrawn by an edit, removed. `PhotoPipeline` implements it.
`PhotoPipeline` and `AlbumStorage` compose the handlers that meet in a store and are
checked each alone (`MCPhotoPipeline`, `MCAlbumStorage`). `GalleryPage` composes
`FavoriteToggle` and `PageLoad`: the splash takes the taps of the tiles under it. The other
modules share no state with one another, so one run checks many: in `MCOffice` (15 modules)
and `MCProgress` (`Notifications`, `GalleryPage`, `GridDesk`) a behaviour is of the *scene*
it starts in, the variables of the other scenes are left at rest, and the states of a run are
the sum of those of its scenes. Where two modules touch one thing, the text says which of
them has it in full and what the other takes of it.

A name says where it comes from: actions carry the name of the function or handler, or of
what a user or a container does; variables marked *(ghost)* are history that only
properties read. Constants that begin with `Max` or `Last` are bounds on the instance and
stand in the guards of the actions they bound.

### PhotoPipeline

State: the row (`status`, `age` of `created_at` in the sweep's three classes, `thumb` for
the metadata), the object (`uploaded` as the browser sent it, `stored` as the key holds it
now, `baked` for its content), the queue (`jobs`, and `batch[w]` for what worker `w` has in
hand) and the requests in flight (`fin`, `edit`, `deleting`, `swept`). `lost` is history: the
photos one of whose jobs or enqueues a fault took, or whose job was given up.

Content is the set of edits baked into the image: the upload is `{}`, edit `e` of content `c`
gives `c \cup {e}`. A thumbhash, the dimensions and the EXIF of a job are all "the content
the job read". An upload is an image or garbage; nothing else about bytes matters here.

One action per stretch between awaits:

| code | actions |
|---|---|
| browser PUT | `ClientPut` |
| finalize: count and HEADs / insert / enqueue | `FinalizeResolve`, `FinalizeMisses` (a HEAD failed) / `FinalizeInsert`, `FinalizeRejected` (primary key) / `FinalizeEnqueue`; `FinalizeLost` for a refusal, an exception or the death of the process |
| edit: row, HEAD, GET / PUT / UPDATE / send | `EditFetch` / `EditWrite` / `EditFlag` / `EditEnqueue`; `EditLost` |
| `deletePhotoAction` | `DeleteRow`, `DeleteObjects`, `DeleteObjectsLost` |
| worker batch | `Fetch`, then per job `HandlerGet`, `HandlerSave`, or `HandlerFails`, `HandlerTransient`, `ReenqueueLost`; `BatchComplete` when all have settled; `WorkerCrash` |
| pg-boss maintenance | `Expire` (redeliver while native retries last, else fail) |
| sweep: query / per row HEAD and send | `SweepStart` / `SweepSend`, `SweepSkip`; `SweepLost` |
| regeneration | `Regenerate` |
| time | `GetStuck`, `GetOld` |

`HandlerSave` writes the row WHERE id, whatever happened since the read; `EditFlag` on a
deleted row does nothing; a re-enqueue carries `retryLimit: 0` and attempt + 1, jobs of
finalize and edit carry pg-boss's `retryLimit: 3` (here `RetryLimit`).

Left out: the album (one is enough: keys of different albums do not meet here), byte caps
(they end a request early, as `FinalizeLost` and `EditLost` do), the delay before a retry, a
second PUT inside the 900 seconds a signature lasts, a handler that is still running when
pg-boss expires its job, the `LIMIT 500` of the sweep, a move during an edit.

### AlbumStorage

State: `row[p]` is `photos.album_id`, `life[a]` the album row, `cover[a]`, `objects` the set
of (album, photo) keys that hold an original. `move`, `delete` and `wipe` are requests in
flight; `shown` is which album has ever held which photo; `missed`, `wiped`, `uncleared`,
`reaped` and the two `crossed` are history the properties speak about.
A bulk move and a bulk delete take album and photos from the page and check the album alone
(`actions.ts:208-228`): so the photos are any that a page of any age may list (`Shown`), in the
album still or not. The single delete reads the album off the row (`gatePhoto`).
A purge and the reaper run through the same steps (`WipeList`, `WipeObjects`, `WipeRows`,
`WipeAlbum`) and differ in which albums they take (`Wipes`) and in what a failed
DeleteObjects does (`CarriesOn`). `softDeleteAlbumAction` purges at once, so an album is
"trashed" only if it was deleted before that change: the constant `Trash`.

Deletes: the single delete names the photo alone, the bulk delete the album too and clears
the cover explicitly; both delete objects under the album of the start, for every photo asked
for, those included whose row the DELETE did not match. The DELETE of a row nulls the covers
that point at it (foreign key, ON DELETE SET NULL).

A move's HEADs are one step: a photo whose original goes between its own HEAD and the last
one behaves as one whose original goes before its copy, and that is modelled.

Met on the way: a bulk delete from a page of album A, of a photo that a move is just bringing
back to A, matches no row but deletes the copy, and the row follows; a move asked for again
from a page of before, where the first died before its sweep, copies the leftovers over the
photo's bytes, and undoes them if a copy fails. Both are steps of the model; `crossed` marks
the photos, and `RowHasBytes` excepts them.

Left out: legacy variants (copied and deleted as the originals are), the watermark object,
two purges at a time, titles, slugs and order.

### UploadBatch

`Dropzone.tsx` drives both upload routes. State: `upRow` is what the panel shows per file,
`batch[b]` a call of `onDrop` with its queue and the PUTs under way, `stored` and `album` the
server. `Drop`, `Measure`, `Presign`, `Take` / `PutOk` / `PutFails` (a lane of the concurrency
limit each), then finalize in the order of the route: `FinalizeCount`, `FinalizeHeads`,
`FinalizeQuota`, `FinalizeInsertRows`, and `FinalizeAnswer`, which writes the panel. A file
weighs one unit; a `Liar` understates its sizes to presign and is measured at finalize.
What happens to a row afterwards is `PhotoPipeline`'s. Met on the way: a finalize that
throws leaves rows "uploaded"; one that inserted and failed to enqueue shows an error over
rows that exist; a photo whose HEAD failed is dropped with a 200; a second batch never
restarts the summary timer; finalize does not check the user's quotas again.

### Share pages: ShareLink, FavoriteToggle, PageLoad, GalleryPage, Lightbox

`ShareLink`: `link` is the row, `entry` the `unstable_cache` entry of the token, `req[t]` the
request of a tab. Admin: `CreateShareLink`, `UpdateShareLink`, `RevokeShareLink`,
`ChangeAlbum`, each followed by `Revalidate`; a page: `OpenPage`, `Lookup`, `LoadLink`,
`LoadPhotos`, `Store`; the gate: `TryPassword`, `Verified`, `CookieLapses`; the island:
`OpenContext`, `RecordView`, `InsertView`, `CountViews`; the worker's `WorkerPublishes` changes
the photos and revalidates nothing. Past its window an entry is still the answer of `Lookup`
(`LookupStale`), and Next loads anew behind it: a `Refill` runs the steps of a request, stores
when it is through, and may fail (`RefillFails`), after which the old entry stays. Next, not
`src/`, does this; it is taken from what `unstable_cache` with `revalidate` does. As many refills
as `Refill` has members run at once. The photos of the album are one number that every change
increments. `lastTrue` and `late` are history.

`FavoriteToggle`: one photo's heart on every tile that shows it, the shared set and badge,
the island that hydrates both (`ReadIsland`, `LandIsland`, `IslandFails`) and the server's
DELETE and INSERT as two steps (`DeleteRow`, `InsertHeart`). `Tap`, `Again`, `Finish`,
`RollBack` are the loop of a tile with its guard. `PageLoad`: `Mount` and `Resolve` of the
images that count, the reducer's `counter` and the snapshot the splash was pushed (`seen`),
and one action per timer: `Stall`, `HideBar`, `Push`, `Age`, `Dismiss`, `Remove`.

`Lightbox`: a page is an instance of the component; the loop of one that was left goes on.
`OpenShot` renders, `Mount` shows, `RefreshRead` and `RefreshLands` are the router's refresh
after a server action; `TouchEnd`, `Key` and `Click` move or tap, with the thresholds of the
code over the pairs of `Stroke`; `DeleteHeart`, `AddHeart`, `FlipAnswered`, `FallBack` are the
statements of the loop.

Met on the way: the splash waits for the cover alone (`PageLoadProgress.tsx:215-220`; its
docblock says eight tiles); hydration during a toggle may drop a count of the badge; the
viewer's loop updates neither set nor badge; "Roll back to the last server-confirmed state"
of both loops is the state of the last finished loop, so a failure after an answered flip
rolls back past it; an expired link is answered from the cache until its window ends, and then
once more: the first visitor after a quiet time gets the old answer however old it is, a late
entry of a revoked link included.

### Exports: Export, ExportDialog

`Export`: `photo` has row and bytes (a version), `rq[r]` a request with its two streams,
`cache` the archives by key `<<sig, day>>`. `Select` computes the signature, `CacheLookup` hits
or starts to build, `OpenBody` and `Pack` feed both sides, `Drain` is a consumer that reads,
`Follow` serves the redirect; `BodyFails` and `GoesAway` are the failures of a fetch, a visitor
and an upload; `EndArchive`, `Downloaded`, `Uploaded` end it. Edits and deletes run beside it
(`EditPut`, `EditRow`, `DeleteRow`, `DeleteObject`), the reaper lists and deletes. A stream
holds `HighWater` chunks, a chunk is one photo.

`ExportDialog`: the dialog (`OpenDialog`, `PickOption`, `Submit`, `CloseDialog`), the options a
late context changes (`ReadContext`, `LandContext`, `ContextFails`), the probe (`AnswerProbe`,
`ProbeLands`), the limiter and the navigation (`FollowExport`, `GoBack`). The zip is one step
here. Met on the way: an edit between key and body puts a newer archive under an older key; a
visitor or an upload that goes away while the archive is paused leaves it paused, since its stream
never drains (`zipStream.ts:72-86`), and the other side hangs, though `route.ts:405` calls the
HTTP side independent; the 30-second abort covers bodies that wait in the queue; a probe does not
ask the limiter, so the error page the modal calls impossible (229-233) is reachable as a 429;
closing during a probe still downloads, and closes a dialog opened since.

### Admin grid: AlbumOrder, GridDesk, GridHands, PhotoEditor

`AlbumOrder` has the order in full: `BeginReorder`, `WriteRow`, `Commit` of one transaction each
with row locks and Postgres's `Deadlock`, the optimistic grid (`Drag`, `SortByDate`, `Settled`,
`Fails`), its reloads (`Poll`, `Answer`, `Apply`, `ReloadFails`), inserts and deletes. `GridDesk`
has the answers in full: any number under way and landing in any order (`FetchRead`,
`FetchLands`), polling while something is processing, drags with the local order and its return
when the action fails (`DragFails`), photos deleted at any stage (`PrintLeaves`), and the tracker
card. A photo is a tile if the last answer has it and the local order names it. `GridHands` takes
both as one step and has the hand: `PointerDown`, `PointerMove`, `PointerUp`, `PointerCancel`,
`LongPress` (a timer, also a stale one), `TileClick`, the selection bar, bulk actions, the viewer
and the cover picker. A tile captures no pointer: a touch ends at the tile it began at, a mouse
button may be let go elsewhere, and then the tile hears of nothing. `PhotoEditor` has the box:
`DragBox` is a move, a corner or an edge with the code's clamps, `PostEdit` the checks of
`photo-edit.ts` and the region the route cuts in pixels with its rounding.

Met on the way: opposite reorders can deadlock; a poll in flight when a drag starts snaps the
tile back, and a revert hides photos that arrived meanwhile until a poll or a reload that may not
come, since nothing is left to poll for; a failed reload or a stale answer
may leave new photos unseen; the tracker polls for ever over an emptied album or a photo that
stays processing, and a late answer shows "All ready" for a second batch; ready tiles never
start a long press though `PhotoGrid.tsx:275` advises one; a timer whose tile was rendered
again selects after the finger left, and so does, half a second later, a mouse button that was
pressed on a tile and let go beside it; a mouse drag over a processing tile swallows later
clicks; a pending cover save closes a reopened picker. In the editor the crop is applied
before the rotation the preview shows; a box dragged to the edge may be empty and is refused;
the preview's brightness is 1 + b/100, the server's 1 + 0.6·b/100.

### Access and caches: AdminAccess, SettingsCache, ImageServing

`AdminAccess`: `Attempt` (the limiter, a bucket being the set of its hits), `ReadRow`, `Verify`
log in; `Ask`, `ReadState`, `FillState`, `Serve` are a request behind the live user check;
`ReadCurrent`, `WriteUser`, `Forget` the owner's change and its invalidation, with `CreateUser`,
`ResetPassword`, `Logout`. `SettingsCache`: `Load`, `Query`, `Fill`, `UseAnswer`; `SubmitForm`,
`Upsert`, `Bust`, `SaveFails`. `ImageServing`: a rewrite is `PutOriginal` then `StampRow`, a page
is `Render`, `FetchTile`, `Rendered`; `Warm` is the unversioned warm-up; `PresignGet` and `Sign`
are the LRU with an await in between. Versions are whole seconds, time has ticks.

Met on the way: two rewrites within one second share a URL; images are warmed without the
version their tiles ask for; a failed `getUserById` reads as disabled for a whole window;
sessions survive a password reset; `clearTelegramToken` writes back a cached section.

### Notifications

`log` by unique index, `job` the queue, `call` the dispatches and owner requests, `hand` the
handlers, `accepted` what Telegram took. A dispatch is `Begin`, `CheckMin`, `LoadSettings`,
`ReadRule`, `CheckThrottle`, `InsertLog`, `SendJob`; `TestInsert` and `Replay` join before the
send; the handler is `Fetch`, `ReadRow`, `MarkSkipped` or `Acquire` (the limiter), `Post`,
`MarkSent` or `MarkFailed`, `Bump`, `Complete` or `Throw`. Faults: `PostAnswerLost`,
`MarkThrows`, `Crash`, `Overrun` (a job expires under its handler), `CallFails`.
`notifications.ts:19` promises never a duplicate; `MessagesAccounted` says when there is one.

### Operations: Backup, Deploy, ImportAlbum, Insights

`Backup`: `StartDump`, `MoveDump`, `Promote`, `Prune`, `WriteManifest` are the lines of
`pg-backup.sh`, `DumpDies` its `set -e`; `CopyObject` between `StartMirror` and `FinishMirror`
is the mirror; a container is "boot" until its first success (finding 5). The gallery it backs
up is the rows with the keys they name (`gallery`) and the objects (`hot`): an upload, a purge, and
a move between albums in the three steps that change a key (`PhotoCopied`, `PhotoRepointed`,
`PhotoSwept`), which a dump or a pass may fall between. Uploads and purges are one step each and
lose nothing here; what they and moves may lose among themselves is `AlbumStorage`'s. Met on the
way: a photo moved between a dump and the pass that follows it is in cold storage under its new
key only, and a restore of that dump has to mend the key by hand.
`Deploy`: runs of
`compose up` (`ReadApplied`, `ApplyNext`, `AllApplied`, `EnsureBucket`, `SeedAdmin`, `StartApp`),
`Watchtower`, which updates app and worker without migrating, and the backfill of thumbhashes
(`StartBackfill`, `BackfillRead`, `BackfillWrite`, `BackfillSkips`) beside edits and their jobs
(`RetouchPut`, `RetouchFlags` or `RetouchSends`, `JobReadsOriginal`, `JobSavesThumbhash`).
`ImportAlbum`: `CheckSlug` and `InsertAlbum` of form and script, then `PutFile`, `InsertRow`,
`SendJob`, `SetCover`, `WriteMarker`, with `ScriptDies` anywhere; a re-run after a crash makes
a second album. `Insights`: `CountViewers`, `GroupSelections`, `KeepSummary` are the awaits of
the widget's load, `QueryTrend` and `FillDays` those of a chart. The widget's entry is stamped
when the load ends, is never invalidated and is not one snapshot. One load is under way at a
time here; `widgetQuery.ts:71-72` lets several run, each of which stamps the entry as it ends.

## 3. Runs

| run | instance | shows |
|---|---|---|
| `pipeline_edits` | 1 photo, 1 finalize, 2 edits, 1 worker with batches of 2, 1 fault, 2 attempts, 1 native retry; 2.6 million states | `TypeOK`, `GarbageNeverPublished`, `ProcessingIsInCare`, `ReadyDescribesBytes`, `ImplementsLifecycle` |
| `pipeline_batch` | 2 photos, 2 finalize requests, batches of 2, 1 regeneration, no fault and no sweep; 1.3 million states | `PoisonStaysAlone` |
| `pipeline_liveness` | 1 photo, 1 edit, 1 fault, the sweep, `FairSpec`; 113 thousand states | `Rescued`, `PoisonIsGivenUp` |
| `storage_moves` | 2 photos, 2 albums, 2 moves, a delete, cover changes, pages of any age, 2 faults; 1.3 million states | `TypeOK`, `RowHasBytes`, `CoverInAlbum` |
| `storage_trash` | 3 photos, a live album and a trashed one, a delete, the purge and the reaper, 2 faults, `FairSpec`; 464 thousand states | `ReapedIsClean`, `TrashIsEmptied` |
| `progress` | the scenes of `MCProgress`, `FairSpec`; 710 thousand states | `TypeOK`, `NotificationsHold`, `TrackerSeesTheBatchThrough`, `RestingPageMatchesServer`, `EveryRowSettles`, `PageAppears`, `GridCatchesUp` |
| `office` | the scenes of `MCOffice`; 975 thousand states | `TypeOK` and the nineteen properties below |
| `pipeline_old_edit` | as `pipeline_liveness` | violation, finding 1 |
| `pipeline_two_workers` | 2 workers, 1 edit, no fault | violation, finding 2 |
| `storage_purge` | 1 trashed album, 1 fault | violation, finding 3 |
| `storage_move_vs_purge` | 1 photo, a move and a purge, no fault | violation, finding 4 |
| `backup_first_boot` | the backup scene | violation, finding 5 |

What the properties say:

* `GarbageNeverPublished`: a ready row was uploaded as an image, whatever mix of retries,
  redeliveries, edits and sweeps ran (F39).
* `ProcessingIsInCare`: a processing row has a live job or a request about to send one, unless
  a fault lost it. It is the order "write the row, then enqueue" and "queue the successor,
  then settle".
* `ReadyDescribesBytes`: when no job and no edit of a photo is under way, the metadata of a
  ready row is that of the bytes at its key. It holds with one worker process and fails with
  two (finding 2): one worker holds the jobs of a photo in queue order and finishes a batch
  before the next, and an edit's job can be in one batch with an older job only after the
  edit's bytes are in place.
* `PoisonStaysAlone`: without a fault a photo that decodes is never retried or given up because
  of what shares its request or batch (F6).
* `Rescued`, `PoisonIsGivenUp`: the two sides of the sweep's window (F7).
* `ImplementsLifecycle`: a job, an edit or a sweep never brings a deleted row back and never
  inserts twice.
* `RowHasBytes`: every row nobody wiped has its bytes under the album it names, through every
  overlap and rollback; where a move's HEAD failed to see the original the row may name the
  wrong album, but the bytes are still somewhere unless a delete of the same photo ran too.
  Nothing keeps two requests for one photo apart, and none asks where its row is: where two
  moves have it in hand or it already is where a move goes, the sweep or rollback of one takes
  what the other copied (`albums.ts:434`), and a delete from a page of the destination takes
  what a move brings there. `crossed` names those photos and the property exempts them; the
  proof found that it must. It asks for the bytes of rows, not for rows of bytes: copies a
  delete leaves under a new key are orphans, as `albums.ts:434-436` accepts.
* `CoverInAlbum`: a cover is a photo of its album, except in the window between a move's two
  UPDATEs and after a crash in that window.
* `ReapedIsClean`, `TrashIsEmptied`: F23, and that a skipped album is retried.
* `NotificationsHold`: two rows of an event inside the throttle interval mean that the second
  dispatch looked before the first wrote (`ThrottleSeesEarlierRows`); a message goes out twice
  only after an attempt whose "sent" was not written, or beside a handler that outlived its job
  (which may complete the job another handler has fetched since)
  (`MessagesAccounted`); a queued row has a job, or a request about to send one
  (`QueuedIsInCare`). `EveryRowSettles`: the queue runs dry again and again.
* `TrackerSeesTheBatchThrough`, `GridCatchesUp`: the card says "All ready" only on an answer of
  this batch, when every photo of it was processed or deleted; and every uploaded photo is in the
  end shown ready on the grid, unless a reload was lost, an older answer came last, or a failed
  drag took its tile back with nothing left to poll for.
* `RestingPageMatchesServer`: tiles, set, badge and row agree on a page at rest, unless a
  second tab, a failed request or an overtaken hydration is to blame (F15). `PageAppears`: the
  bar goes and the splash is removed whatever the images do.
* `HeartEndsAsTapped`: the viewer's heart ends as the visitor last asked (F16), with its three
  exceptions stated.
* `FirstViewOnce`, `RevokeTakesEffect`: one first-view message at most (F7); after a revocation
  has revalidated, the cache holds no photos of the link but those of a late load.
* `CachesAreRecent`: what a page or a caller is given was true less than one cache window and
  one load ago (`PageIsRecent`, `SettingsAreRecent`), stale fills over fresh entries included.
  For a page that is so only while visitors keep coming: the first after the window is given the
  old answer, however old, and so is whoever comes within one load after him, or as long as the
  loads fail; nobody else is.
* `CachedZipIsWhole`, `ExportIsCurrent`, `BackpressureWorks`: an archive in the cache is whole;
  a visitor gets no photo older than the last edit finished when he asked (F20); buffers keep
  their bound, and a paused archive has somebody to wake it as long as both consumers are
  there (F4).
* `PickSurvives`: what is downloaded is what was picked at the click, however late the context
  arrives (F46), and an error page after a green probe has its reason.
* `RevocationIsPrompt`, `OwnerStays`: a disabled account is admitted for at most one cache
  window or slow query; the owner is never locked out (F8).
* `RowsTellTheTruth`: a row of the upload panel shows an error only for its own file or batch,
  and one that stays "uploaded" is a photo of the album, with its exceptions stated.
* `LimitsHold`: file and byte caps are never passed unless two finalize requests overlap (F4,
  F9), at most `LoginMax` attempts per window reach the password check, and a crop is cut inside
  the original within a pixel of the box (`CapsHold`, `LoginsAreLimited`, `ExtractStaysInside`).
* `OrderHolds`: reorders do not mix, and a settled grid shows the album (`ReorderIsWhole`,
  `GridShowsAlbum`).
* `ServedImagesHold`: no tile shows bytes older than the last rewrite before its render, and a
  presigned URL is handed out with a fifth of its life left (`TilesShowTheEdit`,
  `UrlsOutliveTheirUse`).
* `HandsAreObeyed`: a long press that is still timed is of a press its tile has not seen end or
  move, and none is timed while photos are being selected, but for timers a render has cut off;
  and "Set as cover" saves a photo clicked in this picker (`PressMeansHold`, `CoverIsPicked`).
* `BackupsCanRestore`: what the dumps on the shelves name when a completed pass of the mirror
  begins is in cold storage: under the key they name, if a purge or a move had not taken that
  key away uncopied, and under some key, if the photo was not purged uncopied; no crash or prune
  loses a recent dump.
* `ScriptsCanRerun`: a folder marked imported was; a migration takes effect once, in order, with
  one owner, and a thumbhash describes the original or is to be computed again, unless an edit
  met the backfill or another edit of the photo, or gave up (`MarkerMeansImported`,
  `MigratedOnce`). `SlugsTellApart`: slugs are global
  except where two admins' checks and inserts crossed.
* `DashboardsAreRight`: a served entry lacks nothing older than its life and one load
  (`OldEventsAreSummed`), selections are the newest of the log that was read
  (`SelectionsAreNewest`), and a bar counts its whole day across midnight (`BarsAreWholeDays`).

Conjunctions such as `LimitsHold` name one promise each of several modules, so that a run asks
it of all its scenes; the parts are defined and commented in the modules.

### Bounds

Pipeline and storage. `Job` bounds the jobs alive at once, and `Reserve` keeps ids free for the
worker's own re-enqueues, so that a full queue delays a producer and never a retry; the
liveness run has four ids for one photo so that no retry waits on the bound even after a crash
revives settled jobs. `MaxFaults` counts every crash and failed call together: one is enough to
lose anything that can be lost once, and two let the reaper fail and then die, or a move fail
after one that died. The moves run has no purge; what a purge and a move do to each other is
`storage_move_vs_purge`, and `RowsKeepTheirBytes` has them all. `MaxAttempts` is
2 instead of 4 and `RetryLimit` 1 instead of 3: first, last and one in between are the cases
the code tells apart. `MaxFiles` is small so that two requests race for the cap. `Aging` names
the photos whose rows may grow old; empty, it keeps the sweep out of the batch run, whose
question is about batches. Requests run once each; ids of jobs are chosen, not enumerated.

`Progress.cfg`. 2 dispatches of one throttled event, a test and a replay with 2 handlers, 2
jobs and 1 retry: every pair that can race does. One tile (the second is the other tab), 2 laps
of the guard, 1 fault. 2 images, one of them the cover. 3 photos, of which some are there when
the page opens and the others come, and 2 fetches on the grid, so that answers can cross a drag
of two tiles and each other, and 1 move: an edit, a delete, a drag or a lost answer.

`Office.cfg`, by scene: *share* 2 tabs, viewers and admin requests, 2 refills, windows of 1 tick,
2 ticks; *export* 2 photos, 2 requests, 1 edit, high water 1, 1 fault, 2 days; *access* 2
browsers, the owner and one more, windows of 2 ticks, a slow query of 1; *settings* 2 sections, 2
callers, 1 save; *upload* 2 batches of 2 files, 3 of which fit, one liar, 2 faults; *order* 3
pictures (one arrives), 2 grids, 2 reorders, 2 reloads, 1 mishap; *images* 2 rewrites of one
image, a second of 2 ticks; *backup* 1 photo, 2 albums, a second day or a move, one dump kept per
tier; *import* 2 runs on one folder of 3 files (one does not decode) beside one form, 2 slug
tries; *insights* 2 visitors, 3 events, 4 ticks; *lightbox* 2 photos, 2 pages, 1 slip, 2 laps, 5
strokes; *dialog* 2 photos with a cap of 1, so that both options exist and one is refused;
*editor* a box on a grid of 4, sides of 1 and 3 pixels, so that rounding meets every edge;
*deploy* 3 migrations around the roles, 2 runs of compose, 1 photo with 2 edits beside the
backfill; *hands* 2 photos, 1 change by others. Each lets two actors meet at every await, and time
pass one window and one step more.

The state constraint `Apart` of the office run keeps *independent halves* of a scene from being
multiplied: one half works while the other rests. It names them: the cached page and the
password gate; tiles and presigned downloads; the summary of the whole log, the cached one and
the charts; a fault in an export and the next day with its reaper; two pages that both reload;
sessions and logins; two pages of the viewer and a trouble; repeated drags of the box;
containers and backfill; tiles and viewer or picker. States beyond it are not explored, so what
needs both halves at once is outside what the office run shows; the theorems of section 5 are
about the specifications without it.

The proofs need none of these bounds to be small.

### Fairness

`FairSpec` of the pipeline: request handlers that were not cut off go on (`WF`), with `SF` on
their sends because only the bound on `Job` ever disables one; the worker goes on
(`restart: unless-stopped`, polling), pg-boss expires dead jobs, the cron starts a sweep
every ten minutes, a row left alone falls behind `STUCK_AFTER`. Nothing obliges a browser to
upload, an admin to act, a fault to happen, or a row to stay in the sweep's window, so
`Rescued` allows the row to grow old; the bound `MaxFaults` is what makes the fault stop.
`FairSpec` of storage: the reaper runs hourly and takes its next step; it may fail
`MaxFaults` times. No fairness on admin actions.

`FairSpec` of progress: the notification worker's steps, a request's send and pg-boss's expiry;
the timers of a page (a browser fires them), while nothing makes an image load, a tap or a
request come; on the grid the interval ticks, the server answers and a reorder action returns.
The office run checks safety only.

## 4. Findings

1. `pipeline_old_edit`: the sweep selects by `created_at` (`reconcileProcessing.ts:42`). An
   edit sends a row of any age back to processing; if its job is lost the row is never
   selected and stays invisible, which `jobs.ts:8-10` says the sweep prevents.
2. `pipeline_two_workers`: `finalizePhotoMetadata` writes unconditionally. With two worker
   processes, which `workers/index.ts:41` invites, the upload's job may save after the edit's.
   The ready row keeps the metadata of bytes that no longer exist, without any fault.
3. `storage_purge`: `deleteObjectsByPrefix` swallows failures, so `purgeAlbumStorage` deletes
   the album row over objects that stayed, against its own comment (`albums.ts:210-212`).
4. `storage_move_vs_purge`: a move skips a copy that answers 404, also for the original, and
   re-points the row at a key nothing was written to (`albums.ts:429-432` says it aborts).
5. `backup_first_boot`: `prune` of `pg-backup.sh` pipes `ls` through `grep` (line 90); a tier
   that is still empty ends the script under `set -euo pipefail` before the manifest is
   written, though `storage-monitor.ts:78-79` expects one after every successful run. A fresh
   volume has no weekly or monthly dump yet.

The lesser disagreements between code and comments met while modelling stand with their
modules in section 2; where one bears on a property, the property states the exception.

## 5. Proofs

All constants are arbitrary: any photos, callers, edits, workers, job ids, windows, bounds.
Each module names its assumptions (`PipelineAssumption`, `StorageAssumption`,
`AccessAssumption`, `ShareAssumption`, ...): the types of the constants and little more. Two
theorems assume more, and say so in their statements: `OneWorker`, the one worker process both
compose files start, without which `pipeline_two_workers` refutes the property, and
`~AllowDelete`, the mirror as shipped.

Every invariant of the passing runs is a theorem; what is left to TLC needs fairness, see the
end of this section.

| module | theorem | shows | what makes the invariant inductive |
|---|---|---|---|
| `PhotoPipeline_proofs` | `TypeCorrect` | `TypeOK` | request stages and attempt numbers |
| | `GarbageStaysHidden` | `GarbageNeverPublished` | bytes come from an upload that was an image |
| | `ProcessingStaysInCare` | `ProcessingIsInCare` | itself |
| | `PipelineRefinesLifecycle` | `ImplementsLifecycle` | as `GarbageStaysHidden` |
| | `ReadyAlwaysDescribesBytes` | `ReadyDescribesBytes`, one worker | `FreshInv` |
| | `PoisonAlwaysStaysAlone` | `PoisonStaysAlone` | `AloneInv` |
| `AlbumStorage_proofs` | `StorageTypeCorrect` | `TypeOK` | requests that started name albums |
| | `ReapedStaysClean` | `ReapedIsClean` | nobody adds bytes to a trashed album |
| | `CoverStaysInAlbum` | `CoverInAlbum` | rows come last |
| | `RowsKeepTheirBytes` | `RowHasBytes` | `BytesInv` |
| `Access_proofs` | `OwnerAlwaysStays` | `OwnerStays` | the writes under way |
| | `RevocationIsAlwaysPrompt` | `RevocationIsPrompt` | how long every answer already read is good |
| | `LoginsAreAlwaysLimited` | `LoginsAreLimited` | a bucket holds every attempt of its window |
| | `RevokeAlwaysTakesEffect` | `RevokeTakesEffect` | who may still hold an answer of the link |
| | `FirstViewAlwaysOnce` | `FirstViewOnce` | which requests may still count the first view |
| | `PageAlwaysRecent` | `PageIsRecent` | when each answer in flight was last true |
| `Export_proofs` | `CacheAlwaysWhole` | `CachedZipIsWhole` | what of an archive is packed, opened, to be fetched |
| | `BackpressureAlwaysWorks` | `BackpressureWorks` | which stream has room |
| | `ExportAlwaysCurrent` | `ExportIsCurrent` | `CurrentInv` |
| | `ExportAlwaysTyped` | `ExportTypeOK` | an edit writes one version and sets one stamp |
| | `PickAlwaysSurvives` | `PickSurvives` | a green probe stays true until a change its record notes |
| `Scripts_proofs` | `AlwaysMigratedOnce` | `MigratedOnce` | the migrations applied are the first ones, each once |
| | `SlugsAlwaysTellApart` | `SlugsTellApart` | whoever took a slug came after the check, and is `crossed` |
| | `MarkerAlwaysMeansImported` | `MarkerMeansImported` | how far a run has come in the folder |
| | `BackupsCanAlwaysRestore` | `BackupsCanRestore`, no deletion | what a pass has left to copy; the days with a daily dump |
| `Progress_proofs` | `TrackerAlwaysSeesTheBatchThrough` | `TrackerSeesTheBatchThrough` | an answer not late has seen every announced photo through, or deleted |
| | `RestingPageAlwaysMatches` | `RestingPageMatchesServer` | `OneStory` |
| | `NotificationsAlwaysHold` | `NotificationsHold` | `NotifyInv` |
| | `ProgressTypeCorrect`, `ScenesAlwaysKeepTheirWord` | the same of `MCProgress`, and its `TypeOK` | each scene by its own theorem |
| `Pages_proofs` | `HandsAlwaysObeyed` | `PressMeansHold`, `CoverIsPicked` | what the picker shows as selected was clicked |
| | `ServedImagesAlwaysHold` | `ServedImagesHold` | a version promises one thing; buckets and lifetimes |
| | `OrderAlwaysHolds` | `ReorderIsWhole`, `GridShowsAlbum` | what a page in step shows while its one call is out |
| | `HeartAlwaysEndsAsTapped` | `HeartEndsAsTapped` | what a page believes of its row at each step of its loop |
| | `DashboardsAreAlwaysRight` | `DashboardsAreRight` | what a load saw of the log, and since when |
| `Office_proofs` | `UploadHolds` | `RowsTellTheTruth`, `CapsHold` | where a row stands at each step of its batch |
| | `CropsStayInside` | `ExtractStaysInside` | the box stays in the unit square; rounding lemmas |
| | `SettingsAlwaysRecent` | `SettingsAreRecent` | when each section of an answer last was in its row |
| | `LimitsAlwaysHold`, `ScriptsCanAlwaysRerun`, `CachesAreAlwaysRecent`, `HandsAreAlwaysObeyed`, `OrdersAlwaysHold`, `OfficeTypeCorrect` | the conjunctions, and `TypeOK`, of `MCOffice`'s `Spec` | one lemma per scene: a behaviour of the office is one of the module |

The arguments, where they are not in the table:

* `TypeCorrect`: `TypeOK` is strengthened by what the request stages imply. The interesting
  part is the attempt number, which stays in `1..MaxAttempts` because a re-enqueue happens
  only below the cap.
* `GarbageStaysHidden`: `GarbageNeverPublished` is not inductive. Bytes can come from an edit
  as well as from the upload, and the worker saves long after it read. The strengthening
  says that bytes at the key that decode, an edit in flight, a job that has read, and a ready
  row all imply an upload that was an image.
* `ProcessingStaysInCare`: for each action, who takes over the care of the row: the request that
  inserted it, its job, the job's successor, the redelivered job.
* `PipelineRefinesLifecycle`: initial states map, and each action is mapped to the abstract one
  (`HandlerSave` to `Publish`, `EditFlag` to `Withdraw`, ...) or a stutter. It rests on the
  same strengthening: `Publish` and `Withdraw` need the photo to be readable.
* `StorageTypeCorrect`: needs that a move or a wipe that has started names an album.
* `ReapedStaysClean`: the reaper lists, deletes, then drops rows in three more steps while
  everyone else runs. The invariant says that nobody can add bytes to a trashed album (no
  outstanding upload, no move into it, and it never becomes live again), so its listing covers
  every byte and an album whose listing was deleted in full stays empty; with a failed delete the
  reaper forgets the listing instead of going on.
* `CoverStaysInAlbum`: needs that a photo has no row before its upload is done, so that no cover
  names it and its insert takes it from no other album; then every step that takes a photo from
  an album clears the cover with it, but for a move between its two UPDATEs.
* `RevokeAlwaysTakesEffect`: a tab that loaded the photos before the revocation is either seen
  by it (and is then `late`) or stores before the revalidation, which empties the entry.
* `RevocationIsAlwaysPrompt`: the invariant dates every answer in flight and in the cache, and
  compares it with when the account was last enabled; the two terms of the bound are a fill
  after the change and an entry that lives on.
* `FirstViewAlwaysOnce`: while nobody was told, at most one request can still find itself first;
  once somebody was, none can.
* `CacheAlwaysWhole`: the photos of a request's signature are those packed, opened and still to
  be fetched, and the side of the cache ends only when nothing is left of the last two.
* `BackpressureAlwaysWorks`: a stream that accepts a write has room for it, and one that signalled
  full has something to drain, or its consumer is gone.
* `AlwaysMigratedOnce`: two runs may hold the same list of files to apply, but each is applied under
  its row of `_migrations`; the same invariant says which rewrite of an original a backfill, a job
  and the row of the photo hold, while nobody has crossed it.

* `ReadyAlwaysDescribesBytes`: the property speaks of quiet photos, and what it says was prepared
  while jobs were at work. `FreshInv`: a job with stale bytes in its hands is followed by an
  edit or a job that reads after it has saved; a ready row that describes other bytes, by an
  edit or a job that is not stale. The one worker enters where a batch is fetched: the batch
  before has settled, so nothing that was read is still in hand.
* `PoisonAlwaysStaysAlone`: until its bytes are PUT a photo is in no row, request, sweep or queue,
  so that they find no job that failed; and without a fault every active job is in the hands of
  a worker, so that none expires.
* `RowsKeepTheirBytes`: for a photo nothing crossed, one move has it at a time, and no delete that
  is at work takes it out of the album that move goes to (`OneHand`); until a move updates the
  rows the photo is not in the destination, and afterwards not in the source (`RowStands`); a
  copy stays, and so does the original until the sweep (`BytesStand`).
* `ExportAlwaysCurrent`: the stamps in a key were current once, and bytes built for a stamp are no
  older than the edit that set it: a request that signs the same stamp gets what it may expect.
* `NotificationsAlwaysHold`: `RowAccounted` counts. What Telegram took, and the handlers that may
  still post, are at most the attempts without a record, the handlers that have just posted,
  the overruns, and one. Only the handler attending a live job is the one; a second one exists
  after an overrun. `Carries` and `LooksBack` are the other two promises.
* `RestingPageAlwaysMatches`: while nothing of the page is disturbed, at most one tile has a request
  under way and the set, the badge and every tile tell one story of the row: that of the last
  answer, with the one optimistic step of that tile.
* `HeartAlwaysEndsAsTapped`: only the first request of a loop starts from the state the loop would
  fall back to, so a page that falls back later is `crossed`; an answer is the state of the row
  as long as nobody else wrote it.
* `OrderAlwaysHolds`: a commit shows all rows of its list at once, so places never mix two lists.
  A page in step has one call out at most (`OneOut`); while that call is a drag, what the page
  shows is the drag's list and what it showed before is still the album's order, to be taken
  back (`DragInStep`); an answer that nothing overtook is the album's order (`AnswerInStep`).
  The lists are the sequences without repetition of a set of photos in order of place, so that
  what has to be shown of them is said by their definition.
* `DashboardsAreAlwaysRight`: an entry's load saw every event older than its beginning; the days of
  a chart that are drawn after midnight began after the window of the query did. The pass of
  `groupFavoriteEvents` over a bucket is a recursive function of the position; that its runs are
  those `SelectionsAreNewest` describes is an induction over that position.
* `ExportAlwaysTyped`: an edit that starts writes one version more than the newest and one that
  finishes sets one stamp more, so both stay below the number of edits that got so far
  (`Counted`); and a request, an archive or a key holds only photos with a version or stamp
  they have or had (`Held`).
* `OfficeTypeCorrect`: `TypeOK` speaks of the scene's module; the others rest in a state they may
  start in, so each module's own theorem, through the lemma of its scene, types them all.
* `ServedImagesAlwaysHold`: a version a page renders is never below one promised before, and what
  the CDN or a fetch stores under a version is at least what that version promised, but where
  two rewrites shared a second (`hasty`).

Assumptions on constants that the proofs made explicit: a photo has one place in the dates
(`IsInjective(ByDate)`), an album lists a photo once (`IsInjective(Shots)`), and edits and the
visitor's items are finite sets.

Induction over data is done where it is needed without a theorem that takes an operator: every
set of naturals that is not empty has a least member (`NatMin` in `Pages_proofs`, from the
well-foundedness of `<` on the naturals), and an induction is that of a least counterexample.

Model-checked only: liveness, and everything else under fairness: `Rescued`, `PoisonIsGivenUp`,
`TrashIsEmptied`, `EveryRowSettles`, `PageAppears`, `GridCatchesUp`. The prover has no ENABLED.

## 6. Not modelled

* Within the models: a second PUT inside the 900 seconds of a signature, a pipeline handler
  that outlives pg-boss's expiry, the sweep's `LIMIT 500`, a move during an edit, legacy
  variants, the widget's `LIMIT 200` before grouping, `getBoss`'s cached rejected promise,
  a queue's delay before a retry.
* Title and description edits, role checks beside the ones modelled, the watermark upload:
  one assignment or one object each.
* The counts of `metrics.ts` and of `/chikaq` other than the charts and selections: plain
  queries with no state between them.
* Layout, forms, toasts, texts of notifications, other channels than Telegram, resize options.
* The benchmarks, the health checks and the one-off repair scripts (`backfill-variant-sizes.ts`,
  `backfill-orientation.ts` but for the row it stamps): run once by hand against a quiet system.
* `backfill-avif-variants.ts`: the loop of the other backfill, over columns that no route reads and
  no edit or job writes again, so that they describe bytes of before once a photo is edited.

What would come next: a move during an edit, where `PhotoPipeline` and `AlbumStorage` would have
to be composed.
