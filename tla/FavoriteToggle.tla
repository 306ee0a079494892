---------------------------- MODULE FavoriteToggle ----------------------------
(* One photo's heart on the share page: the tiles that show it              *)
(* (gallery/PhotoTile.tsx), the favourites set and the badge they share     *)
(* (FavoritedIds.tsx, FavoritesCount.tsx), the viewer island that hydrates  *)
(* them (_viewer-layer.tsx), and toggleFavorite on the server               *)
(* (a/[token]/_actions.ts, lib/favorites.ts).                               *)
(*                                                                          *)
(* A page renders every photo twice (a phone and a desktop layout), so a    *)
(* photo has several tiles.  An event handler and the effects React flushes *)
(* after it are one step; every await is a step boundary.  The badge counts *)
(* this photo only.                                                         *)
EXTENDS Naturals, FiniteSets

CONSTANTS
    Tile,          \* mounted tiles of the photo
    Null,          \* the favourites set before hydration
    GuardMax,      \* 4: requests of one toggle loop
    MaxFaults,     \* requests that fail or lose their answer
    OtherTab,      \* whether the viewer has a second tab
    MaxCount       \* bound on the badge: a tap that would pass it is not taken

ASSUME ToggleAssumption ==
    /\ GuardMax \in Nat \ {0} /\ MaxFaults \in Nat /\ MaxCount \in Nat
    /\ OtherTab \in BOOLEAN /\ Null \notin BOOLEAN

VARIABLES
    fav,        \* the favorites row of this viewer exists
    tile,       \* per tile: shown state, refs and the loop's request
    ids,        \* the photo's membership in FavoritedIds, or Null
    badge,      \* FavoritesCount
    island,     \* the viewer island: idle, read or landed, and what it read
    faults,
    apart       \* the page may differ from the server for a known cause (ghost)

toggleVars == <<fav, tile, ids, badge, island, faults, apart>>

One(b) == IF b THEN 1 ELSE 0
Busy == {t \in Tile : tile[t].pc # "idle"}

ToggleTypeOK ==
    /\ fav \in BOOLEAN
    /\ tile \in [Tile -> [shown : BOOLEAN, desired : BOOLEAN, confirmed : BOOLEAN,
                          pc : {"idle", "send", "insert", "answer", "fail"},
                          res : BOOLEAN, guard : 0..GuardMax]]
    /\ ids \in BOOLEAN \cup {Null}
    /\ badge \in Nat
    /\ island \in [pc : {"idle", "read", "landed", "failed"}, got : BOOLEAN]
    /\ faults \in 0..MaxFaults
    /\ apart \in BOOLEAN

\* The static shell knows no viewer: empty hearts, badge 0.
ToggleInit ==
    /\ fav \in BOOLEAN
    /\ tile = [t \in Tile |-> [shown |-> FALSE, desired |-> FALSE, confirmed |-> FALSE,
                               pc |-> "idle", res |-> FALSE, guard |-> 0]]
    /\ ids = Null
    /\ badge = 0
    /\ island = [pc |-> "idle", got |-> FALSE]
    /\ faults = 0
    /\ apart = TRUE

-----------------------------------------------------------------------------
(* FavoritesCount and FavoritedIds.                                         *)

\* Mutant: the badge is not clamped.
BumpBadgeUnclamped(n, up, down) == n + up - down

\* Math.max(0, count + delta).
BumpBadge(n, up, down) == IF n + up >= down THEN n + up - down ELSE 0

\* toggle() of the ids context: nothing before hydration.
IdsAfter(intent) == IF ids = Null THEN Null ELSE intent

\* The effect every tile runs when the set changed: the set becomes the
\* confirmed baseline, and what an idle tile shows.
Mirror(tiles, set) ==
    IF set = Null THEN tiles
    ELSE [t \in Tile |->
            IF tiles[t].pc = "idle"
            THEN [tiles[t] EXCEPT !.confirmed = set, !.desired = set, !.shown = set]
            ELSE [tiles[t] EXCEPT !.confirmed = set]]

-----------------------------------------------------------------------------
(* commitToggle.                                                            *)

\* Ends the loop of t, leaving the page at state s: the badge already shows
\* `desired` and is corrected to s.
Ended(t, s) ==
    /\ ids' = IdsAfter(s)
    /\ tile' = Mirror([tile EXCEPT ![t] =
                 [@ EXCEPT !.pc = "idle", !.confirmed = s, !.shown = s,
                           !.res = FALSE, !.guard = 0]], ids')
    /\ badge' = IF s = tile[t].desired THEN badge
                ELSE BumpBadge(badge, One(s), One(tile[t].desired))

\* A tap while a request is in flight: the running loop reads the intent.
\* Loops of two tiles at once (the layout changed meanwhile) undo each other.
TapBusy(t, intent) ==
    /\ tile[t].pc # "idle"
    /\ badge' = BumpBadge(badge, One(intent), One(tile[t].shown))
    /\ badge' <= MaxCount
    /\ ids' = IdsAfter(intent)
    /\ tile' = Mirror([tile EXCEPT ![t].shown = intent, ![t].desired = intent], ids')
    /\ apart' = (apart \/ Busy \ {t} # {})
    /\ UNCHANGED <<fav, island, faults>>

\* A tap on an idle tile: optimistic, then the loop asks the server unless
\* the intent is already the confirmed state.
TapIdle(t, intent) ==
    /\ tile[t].pc = "idle"
    /\ badge' = BumpBadge(badge, One(intent), One(tile[t].shown))
    /\ badge' <= MaxCount
    /\ ids' = IdsAfter(intent)
    /\ tile' = Mirror([tile EXCEPT ![t].shown = intent, ![t].desired = intent,
                         ![t].pc = IF tile[t].confirmed = intent THEN "idle" ELSE "send"], ids')
    /\ apart' = (apart \/ Busy \ {t} # {})
    /\ UNCHANGED <<fav, island, faults>>

\* The heart asks for the opposite of what it shows, a double tap for TRUE.
Tap(t) == \E intent \in {~tile[t].shown, TRUE} : TapBusy(t, intent) \/ TapIdle(t, intent)

-----------------------------------------------------------------------------
(* toggleFavorite on the server: DELETE, and if nothing went, INSERT.       *)

ClientUnchanged == UNCHANGED <<ids, badge, island>>

DeleteRow(t) ==
    /\ tile[t].pc = "send"
    /\ tile' = [tile EXCEPT ![t].pc = IF fav THEN "answer" ELSE "insert", ![t].res = FALSE]
    /\ fav' = FALSE
    /\ ClientUnchanged /\ UNCHANGED <<faults, apart>>

\* The primary key refuses a row that came meanwhile, and the action throws.
InsertHeart(t) ==
    /\ tile[t].pc = "insert"
    /\ tile' = [tile EXCEPT ![t].pc = IF fav THEN "fail" ELSE "answer", ![t].res = ~fav]
    /\ fav' = TRUE
    /\ apart' = (apart \/ fav)
    /\ ClientUnchanged /\ UNCHANGED faults

\* Another tab toggles the same photo.
OtherFlip ==
    /\ OtherTab
    /\ fav' = ~fav
    /\ apart' = TRUE
    /\ ClientUnchanged /\ UNCHANGED <<tile, faults>>

\* The link expired, the network failed or the answer was lost.
Fault(t) ==
    /\ faults < MaxFaults
    /\ tile[t].pc \in {"send", "insert", "answer"}
    /\ faults' = faults + 1
    /\ tile' = [tile EXCEPT ![t].pc = "fail"]
    /\ apart' = (apart \/ tile[t].pc = "answer" \/ tile[t].guard > 0)
    /\ ClientUnchanged /\ UNCHANGED fav

\* while (serverState !== desiredFav.current && guard < 4)
GoesOn(t) == tile[t].res # tile[t].desired /\ tile[t].guard + 1 < GuardMax

Again(t) ==
    /\ tile[t].pc = "answer" /\ GoesOn(t)
    /\ tile' = [tile EXCEPT ![t].pc = "send", ![t].guard = @ + 1]
    /\ ClientUnchanged /\ UNCHANGED <<fav, faults, apart>>

\* Mutant: the loop ends with what the viewer asked for last.
FinishAsDesired(t) ==
    /\ tile[t].pc = "answer" /\ ~GoesOn(t)
    /\ Ended(t, tile[t].desired)
    /\ UNCHANGED <<fav, island, faults, apart>>

Finish(t) ==
    /\ tile[t].pc = "answer" /\ ~GoesOn(t)
    /\ Ended(t, tile[t].res)
    /\ UNCHANGED <<fav, island, faults, apart>>

\* The catch: back to the confirmed state, which becomes the intent too.
RollBack(t) ==
    /\ tile[t].pc = "fail"
    /\ LET target == tile[t].confirmed
           back == [tile[t] EXCEPT !.pc = "idle", !.shown = target, !.desired = target,
                                   !.res = FALSE, !.guard = 0]
       IN /\ ids' = IdsAfter(target)
          /\ tile' = Mirror([tile EXCEPT ![t] = back], ids')
          /\ badge' = BumpBadge(badge, One(target), One(tile[t].desired))
    /\ UNCHANGED <<fav, island, faults, apart>>

-----------------------------------------------------------------------------
(* The viewer island: one fetch of /api/viewer-context, then setIds and     *)
(* setCount.                                                                *)

ReadIsland ==
    /\ island.pc = "idle"
    /\ island' = [pc |-> "read", got |-> fav]
    /\ UNCHANGED <<fav, tile, ids, badge, faults, apart>>

IslandFails ==
    /\ island.pc \in {"idle", "read"}
    /\ faults < MaxFaults /\ faults' = faults + 1
    /\ island' = [island EXCEPT !.pc = "failed"]
    /\ UNCHANGED <<fav, tile, ids, badge, apart>>

\* A toggle that runs, or ran, since the read leaves the page apart from
\* the server: the badge is replaced and the set is the older one.
LandIsland ==
    /\ island.pc = "read"
    /\ island' = [island EXCEPT !.pc = "landed"]
    /\ ids' = island.got
    /\ badge' = One(island.got)
    /\ tile' = Mirror(tile, ids')
    /\ apart' = (Busy # {} \/ island.got # fav)
    /\ UNCHANGED <<fav, faults>>

-----------------------------------------------------------------------------
ToggleNext ==
    \/ \E t \in Tile : \/ Tap(t) \/ DeleteRow(t) \/ InsertHeart(t) \/ Fault(t)
                       \/ Again(t) \/ Finish(t) \/ RollBack(t)
    \/ OtherFlip
    \/ ReadIsland \/ LandIsland \/ IslandFails

ToggleSpec == ToggleInit /\ [][ToggleNext]_toggleVars

-----------------------------------------------------------------------------
(* Properties.                                                              *)

\* Once hydrated from an answer no toggle overtook, with no second tab and
\* no failed request since, a page at rest shows the server's state on every
\* tile and counts it: re-taps mid-flight, double taps and the guard may
\* lose an intent but never leave heart, set, badge and row apart (F15).
RestingPageMatchesServer ==
    (Busy = {} /\ ~apart /\ faults = 0) =>
        /\ ids = fav /\ badge = One(fav)
        /\ \A t \in Tile : tile[t].shown = fav /\ tile[t].confirmed = fav
=============================================================================
