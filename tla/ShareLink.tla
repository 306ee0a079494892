------------------------------- MODULE ShareLink -------------------------------
(* One share link and its public page: creating, changing and revoking it   *)
(* (lib/share-actions.ts), the live status check (lib/share.ts), the cached *)
(* page data (lib/shareLoader.ts, a/[token]/page.tsx), the password gate    *)
(* (a/[token]/_actions.ts) and the views the viewer island records          *)
(* (api/viewer-context).                                                    *)
(*                                                                          *)
(* Every await is a step boundary.  Time is a small counter; the photos of  *)
(* the album are one number, `content`, that every change increments.       *)
EXTENDS Integers, FiniteSets

CONSTANTS
    Tab,            \* browser tabs of visitors
    Refill,         \* loads Next has going in the background
    Viewer, ViewerOf,   \* viewer cookies, and the one each tab sends
    Admin,          \* admin requests
    Password, Open, \* passwords a link may have, and none
    PageWindow,     \* revalidate: 60
    LinkLifetime,   \* lifetimes an admin gives a link
    DedupWindow,    \* 30 minutes
    LoadMax,        \* ticks a page load may take
    MaxTime, MaxChanges, MaxViews

ASSUME ShareAssumption ==
    /\ {PageWindow, DedupWindow, LoadMax, MaxTime, MaxChanges, MaxViews} \subseteq Nat
    /\ PageWindow > 0 /\ LinkLifetime \subseteq Nat
    /\ ViewerOf \in [Tab -> Viewer] /\ Open \notin Password
    /\ Tab \cap Refill = {}

Time == 0..MaxTime
Never == -1
Content == 0..MaxChanges
Kind == {"ok", "not_found", "expired"}
\* Whoever runs the loader: a request, or Next behind an answer.
Loader == Tab \cup Refill
NoEntry == [kind |-> "none", content |-> 0, at |-> 0]

VARIABLES
    now,
    link,       \* the share_links row
    content,    \* what listPhotos would return
    entry,      \* the unstable_cache entry of the token
    req,        \* the request of each tab, and each refill
    unlocked,   \* viewers with a gh_unlocked_<token> cookie in force
    admin,      \* admin requests
    views,      \* page_view rows: [viewer, at, n] with n the id
    told,       \* first-view notifications sent
    lastTrue,   \* when each link status and each content was last true (ghost)
    late,       \* a load that read before an invalidation had not stored (ghost)
    asked       \* when the entry was first served past its window, and refilled
                \* since (ghost)

shareVars == <<now, link, content, entry, req, unlocked, admin, views, told, lastTrue, late, asked>>

\* A token is drawn at random and never comes back.
NoLinkYet == [state |-> "unborn", password |-> Open, expires |-> Never]
Gone == [NoLinkYet EXCEPT !.state = "gone"]
IdleReq == [pc |-> "idle", kind |-> "not_found", content |-> 0, since |-> 0]

\* isExpired and the order of resolveShareLinkStatus.
StatusOf(l, t) ==
    IF l.state # "live" THEN "not_found"
    ELSE IF l.expires # Never /\ l.expires <= t THEN "expired"
    ELSE "ok"

ShareTypeOK ==
    /\ now \in Time
    /\ link \in [state : {"unborn", "live", "gone"}, password : Password \cup {Open}, expires : Int]
    /\ content \in Content
    /\ entry \in [kind : Kind \cup {"none"}, content : Content, at : Time]
    /\ req \in [Loader -> [pc : {"idle", "lookup", "link", "photos", "store", "served",
                                 "verify", "context", "insert", "count"},
                           kind : Kind, content : Content, since : Time]]
    /\ unlocked \subseteq Viewer
    /\ admin \in [Admin -> {"idle", "revalidate", "done"}]
    /\ views \subseteq [viewer : Viewer, at : Time, n : Nat]
    /\ told \in Nat
    /\ lastTrue \in [kind : [Kind -> Time \cup {Never}], content : [Content -> Time \cup {Never}]]
    /\ late \in BOOLEAN
    /\ asked \in Time \cup {Never}

ShareInit ==
    /\ now = 0 /\ content = 0 /\ told = 0 /\ views = {} /\ late = FALSE /\ asked = Never
    /\ link = NoLinkYet
    /\ entry = NoEntry
    /\ req = [t \in Loader |-> IdleReq]
    /\ unlocked = {}
    /\ admin = [a \in Admin |-> "idle"]
    /\ lastTrue = [kind |-> [k \in Kind |-> IF k = "not_found" THEN 0 ELSE Never],
                   content |-> [c \in Content |-> IF c = 0 THEN 0 ELSE Never]]

\* The ghost after a step that leaves link l, content c and time t.
HeldAfter(l, c, t) ==
    lastTrue' = [kind |-> [lastTrue.kind EXCEPT ![StatusOf(l, t)] = t],
                 content |-> [lastTrue.content EXCEPT ![c] = t]]

Loading == {t \in Loader : req[t].pc \in {"photos", "store"}}

-----------------------------------------------------------------------------
(* share-actions.ts.  The change is one statement; revalidatePath follows.  *)

AdminUnchanged == UNCHANGED <<now, req, unlocked, told>>

Expiries == {now + d : d \in LinkLifetime} \cup {Never}

CreateShareLink(a) ==
    /\ admin[a] = "idle" /\ link = NoLinkYet
    /\ \E p \in Password \cup {Open}, x \in Expiries :
         link' = [state |-> "live", password |-> p, expires |-> x]
    /\ admin' = [admin EXCEPT ![a] = "revalidate"]
    /\ HeldAfter(link', content, now)
    /\ AdminUnchanged /\ UNCHANGED <<views, content, entry, late, asked>>

UpdateShareLink(a) ==
    /\ admin[a] = "idle" /\ link.state = "live"
    /\ \E p \in Password \cup {Open}, x \in Expiries :
         link' = [link EXCEPT !.password = p, !.expires = x]
    /\ admin' = [admin EXCEPT ![a] = "revalidate"]
    /\ HeldAfter(link', content, now)
    /\ AdminUnchanged /\ UNCHANGED <<views, content, entry, late, asked>>

\* Mutant: nothing is revalidated (before F5).
RevokeUnannounced(a) ==
    /\ admin[a] = "idle" /\ link.state = "live"
    /\ link' = Gone /\ admin' = [admin EXCEPT ![a] = "done"]
    /\ views' = {}
    /\ HeldAfter(link', content, now)
    /\ AdminUnchanged /\ UNCHANGED <<content, entry, late, asked>>

\* The link's views, favourites and unlock attempts go with it (CASCADE).
RevokeShareLink(a) ==
    /\ admin[a] = "idle" /\ link.state = "live"
    /\ link' = Gone
    /\ admin' = [admin EXCEPT ![a] = "revalidate"]
    /\ views' = {}
    /\ HeldAfter(link', content, now)
    /\ AdminUnchanged /\ UNCHANGED <<content, entry, late, asked>>

\* An album action changes what the page shows.
ChangeAlbum(a) ==
    /\ admin[a] = "idle" /\ content < MaxChanges
    /\ content' = content + 1
    /\ admin' = [admin EXCEPT ![a] = "revalidate"]
    /\ HeldAfter(link, content', now)
    /\ AdminUnchanged /\ UNCHANGED <<views, link, entry, late, asked>>

\* revalidateShareToken, revalidateAlbumShareTokens.
Revalidate(a) ==
    /\ admin[a] = "revalidate"
    /\ admin' = [admin EXCEPT ![a] = "done"]
    /\ entry' = NoEntry /\ asked' = Never
    /\ late' = (Loading # {})
    /\ AdminUnchanged /\ UNCHANGED <<views, link, content, lastTrue>>

\* The worker makes a photo ready: another process, nothing is revalidated.
WorkerPublishes ==
    /\ content < MaxChanges
    /\ content' = content + 1
    /\ HeldAfter(link, content', now)
    /\ AdminUnchanged /\ UNCHANGED <<views, link, entry, admin, late, asked>>

-----------------------------------------------------------------------------
(* The public page.                                                         *)

Locked(t) == /\ StatusOf(link, now) = "ok" /\ link.password # Open
             /\ ViewerOf[t] \notin unlocked

PageUnchanged == UNCHANGED <<now, link, content, unlocked, admin, views, told, lastTrue, late>>

\* The status is resolved live, and only "locked" is acted on.
OpenPage(t) ==
    /\ req[t].pc = "idle" /\ ~Locked(t)
    /\ req' = [req EXCEPT ![t] = [IdleReq EXCEPT !.pc = "lookup", !.since = now]]
    /\ PageUnchanged /\ UNCHANGED <<entry, asked>>

\* Mutant: unstable_cache without revalidate.
FreshForEver == entry.kind # "none"

Fresh == entry.kind # "none" /\ now - entry.at < PageWindow

\* loadShareData: the cached answer, or the loader.
Lookup(t) ==
    /\ req[t].pc = "lookup"
    /\ \/ /\ Fresh
          /\ req' = [req EXCEPT ![t].pc = "served", ![t].kind = entry.kind, ![t].content = entry.content]
       \/ /\ entry.kind = "none"
          /\ req' = [req EXCEPT ![t].pc = "link"]
    /\ PageUnchanged /\ UNCHANGED <<entry, asked>>

\* unstable_cache past revalidate: the old answer at once, and the loader
\* behind it.
LookupStale(t) ==
    /\ req[t].pc = "lookup" /\ entry.kind # "none" /\ ~Fresh
    /\ \E f \in Refill :
         /\ req[f].pc = "idle"
         /\ req' = [req EXCEPT ![t].pc = "served", ![t].kind = entry.kind, ![t].content = entry.content,
                              ![f] = [IdleReq EXCEPT !.pc = "link", !.since = now]]
    /\ asked' = IF asked = Never THEN now ELSE asked
    /\ PageUnchanged /\ UNCHANGED entry

\* loadShareDataUncached: the link, then album, photos and sizes.
LoadLink(t) ==
    /\ req[t].pc = "link"
    /\ req' = [req EXCEPT ![t].kind = StatusOf(link, now),
                 ![t].pc = IF StatusOf(link, now) = "ok" THEN "photos" ELSE "store"]
    /\ PageUnchanged /\ UNCHANGED <<entry, asked>>

LoadPhotos(t) ==
    /\ req[t].pc = "photos"
    /\ req' = [req EXCEPT ![t].content = content, ![t].pc = "store"]
    /\ PageUnchanged /\ UNCHANGED <<entry, asked>>

Store(t) ==
    /\ req[t].pc = "store"
    /\ entry' = [kind |-> req[t].kind, content |-> req[t].content, at |-> now]
    /\ req' = [req EXCEPT ![t].pc = IF t \in Refill THEN "idle" ELSE "served"]
    /\ asked' = Never
    /\ PageUnchanged

\* A query fails: the error is logged, the entry stays.
RefillFails(f) ==
    /\ req[f].pc \in {"link", "photos"}
    /\ req' = [req EXCEPT ![f] = IdleReq]
    /\ asked' = Never
    /\ PageUnchanged /\ UNCHANGED entry

ClosePage(t) ==
    /\ req[t].pc = "served"
    /\ req' = [req EXCEPT ![t] = IdleReq]
    /\ PageUnchanged /\ UNCHANGED <<entry, asked>>

-----------------------------------------------------------------------------
(* unlockShareLink: the row is read, the password verified, the cookie set. *)

UnlockUnchanged == UNCHANGED <<now, link, content, entry, admin, views, told, lastTrue, late, asked>>

TryPassword(t) ==
    /\ req[t].pc = "idle" /\ Locked(t)
    /\ req' = [req EXCEPT ![t] = [IdleReq EXCEPT !.pc = "verify"]]
    /\ UnlockUnchanged /\ UNCHANGED unlocked

Verified(t) ==
    /\ req[t].pc = "verify"
    /\ unlocked' \in {unlocked, unlocked \cup {ViewerOf[t]}}
    /\ req' = [req EXCEPT ![t] = IdleReq]
    /\ UnlockUnchanged

\* UNLOCK_TTL_SECONDS after it was issued, a cookie no longer verifies; a
\* new password does not touch it (verifyUnlockValue).
CookieLapses(v) ==
    /\ v \in unlocked
    /\ unlocked' = unlocked \ {v}
    /\ UnlockUnchanged /\ UNCHANGED req

-----------------------------------------------------------------------------
(* viewer-context: record the view, and tell the owner of the first one.    *)

ViewUnchanged == UNCHANGED <<now, link, content, entry, unlocked, admin, lastTrue, late, asked>>

SeenLately(v) == \E r \in views : r.viewer = v /\ now - r.at < DedupWindow

\* The status check passed.
OpenContext(t) ==
    /\ req[t].pc = "idle" /\ StatusOf(link, now) = "ok" /\ ~Locked(t)
    /\ req' = [req EXCEPT ![t] = [IdleReq EXCEPT !.pc = "context"]]
    /\ ViewUnchanged /\ UNCHANGED <<views, told>>

\* The statement takes its snapshot: a recent view of this viewer, no row.
RecordView(t) ==
    /\ req[t].pc = "context"
    /\ req' = [req EXCEPT ![t].pc = IF SeenLately(ViewerOf[t]) THEN "idle" ELSE "insert"]
    /\ ViewUnchanged /\ UNCHANGED <<views, told>>

\* The row of a link revoked meanwhile is refused, and the error caught.
InsertView(t) ==
    /\ req[t].pc = "insert" /\ Cardinality(views) < MaxViews
    /\ IF link.state = "live"
       THEN /\ views' = views \cup {[viewer |-> ViewerOf[t], at |-> now, n |-> Cardinality(views)]}
            /\ req' = [req EXCEPT ![t].pc = "count"]
       ELSE /\ req' = [req EXCEPT ![t].pc = "idle"]
            /\ UNCHANGED views
    /\ ViewUnchanged /\ UNCHANGED told

\* Mutant (before F7): decided by what was there before the insert.
CountOthers(t) ==
    /\ req[t].pc = "count"
    /\ told' = IF \A r \in views : r.viewer = ViewerOf[t] THEN told + 1 ELSE told
    /\ req' = [req EXCEPT ![t] = IdleReq]
    /\ ViewUnchanged /\ UNCHANGED views

\* "am I the only row?"
CountViews(t) ==
    /\ req[t].pc = "count"
    /\ told' = IF Cardinality(views) = 1 THEN told + 1 ELSE told
    /\ req' = [req EXCEPT ![t] = IdleReq]
    /\ ViewUnchanged /\ UNCHANGED views

-----------------------------------------------------------------------------
Tick ==
    /\ now < MaxTime
    /\ \A t \in Loader : req[t].pc \in {"lookup", "link", "photos", "store"} =>
                           now - req[t].since < LoadMax
    /\ now' = now + 1
    /\ HeldAfter(link, content, now')
    /\ UNCHANGED <<link, content, entry, req, unlocked, admin, views, told, late, asked>>

ShareNext ==
    \/ \E a \in Admin : \/ CreateShareLink(a) \/ UpdateShareLink(a) \/ RevokeShareLink(a)
                        \/ ChangeAlbum(a) \/ Revalidate(a)
    \/ \E t \in Tab : \/ OpenPage(t) \/ Lookup(t) \/ LookupStale(t) \/ ClosePage(t)
                      \/ TryPassword(t) \/ Verified(t)
                      \/ OpenContext(t) \/ RecordView(t) \/ InsertView(t) \/ CountViews(t)
    \/ \E t \in Loader : LoadLink(t) \/ LoadPhotos(t) \/ Store(t)
    \/ \E f \in Refill : RefillFails(f)
    \/ \E v \in Viewer : CookieLapses(v)
    \/ WorkerPublishes
    \/ Tick

ShareSpec == ShareInit /\ [][ShareNext]_shareVars

-----------------------------------------------------------------------------
(* Properties.                                                              *)

\* The owner is told of a first view at most once, however the requests of
\* the first viewers overlap (F7).
FirstViewOnce == told <= 1

\* A page shows a link status and photos that were true less than one cache
\* window, and the time of one load, ago: a slow load, an entry stored over
\* a newer one and an expiry no one announces included.  Whoever comes after
\* the window, however long, gets the old answer, but from one load after he
\* came nobody does, unless that load has failed.
RecentAnswer(d) ==
    /\ lastTrue.kind[d.kind] # Never /\ now - lastTrue.kind[d.kind] < PageWindow + LoadMax
    /\ d.kind = "ok" =>
         /\ lastTrue.content[d.content] # Never
         /\ now - lastTrue.content[d.content] < PageWindow + LoadMax

PageIsRecent ==
    [][\A t \in Tab :
         (req[t].pc # "served" /\ req'[t].pc = "served") =>
            RecentAnswer(req'[t]) \/ (asked' # Never /\ now - asked' <= LoadMax)]_shareVars

\* Once a revocation has revalidated the page, the cache holds no photos of
\* the link, unless a load that read before it stored after it.
RevokeTakesEffect ==
    (link.state # "live" /\ entry.kind = "ok") => (late \/ \E a \in Admin : admin[a] = "revalidate")
=============================================================================
