------------------------------ MODULE AlbumOrder ------------------------------
(* The order of an album's photos: reorderPhotos and insertPhotosBatch      *)
(* (lib/albums.ts, admin/albums/actions.ts) behind the admin grid, which    *)
(* shows a drag before it is saved and reloads in the background            *)
(* (components/admin/PhotoGrid.tsx).                                        *)
(*                                                                          *)
(* Each call of a grid (a drag, a sort by date, a reload) is used once.     *)
EXTENDS Integers, Sequences, SequencesExt, FiniteSets

CONSTANTS
    Picture, Newcomer,  \* photos; those an upload may still add
    ByDate,             \* all of them, by capture date
    Grid,               \* open album pages
    Reorder, Reload, GridOf,    \* calls, and the grid that makes each
    MaxMishaps

ASSUME OrderAssumption ==
    /\ Newcomer \subseteq Picture /\ IsFiniteSet(Picture) /\ MaxMishaps \in Nat
    /\ ByDate \in Seq(Picture) /\ ToSet(ByDate) = Picture /\ IsInjective(ByDate)
    /\ Reorder \cap Reload = {} /\ GridOf \in [Reorder \cup Reload -> Grid]

VARIABLES
    place,      \* sort_order of each row; NoRow of a deleted photo, Unborn
                \* of one not uploaded yet
    call,       \* the reorders
    reload,     \* the reloads
    grid,       \* what each page shows
    newest,     \* the list of the last reorder that committed (ghost)
    mishaps

orderVars == <<place, call, reload, grid, newest, mishaps>>

NoRow == -1
Unborn == -2
Rows == {p \in Picture : place[p] >= 0}
Lists == {q \in UNION {[1..n -> Picture] : n \in 0..Cardinality(Picture)} : IsInjective(q)}

OrderTypeOK ==
    /\ place \in [Picture -> Unborn..Cardinality(Picture)]
    /\ call \in [Reorder -> [pc : {"idle", "sent", "tx", "saved", "failed", "done"},
                             list : Lists, shown : Lists, sort : BOOLEAN,
                             at : 0..Cardinality(Picture)]]
    /\ reload \in [Reload -> [pc : {"idle", "asked", "answered", "done"}, list : Lists,
                              fresh : BOOLEAN]]
    /\ grid \in [Grid -> [order : Lists, data : SUBSET Picture, dragging : BOOLEAN,
                          synced : BOOLEAN]]
    /\ newest \in Lists /\ mishaps \in 0..MaxMishaps

PlaceOf(list) == [p \in Picture |-> IF p \in ToSet(list)
                                    THEN (CHOOSE i \in DOMAIN list : list[i] = p) - 1 ELSE Unborn]

\* ORDER BY taken_at: the photos of s by capture date (a set with one list).
DateOrders(s) == {q \in Lists : ToSet(q) = s /\ \A i, j \in DOMAIN q :
                             i < j => PlaceOf(ByDate)[q[i]] < PlaceOf(ByDate)[q[j]]}

OrderInit ==
    /\ \E first \in DateOrders(Picture \ Newcomer) :
         /\ place = PlaceOf(first)
         /\ grid = [g \in Grid |-> [order |-> first, data |-> ToSet(first), dragging |-> FALSE,
                                    synced |-> TRUE]]
    /\ call = [c \in Reorder |-> [pc |-> "idle", list |-> <<>>, shown |-> <<>>, sort |-> FALSE, at |-> 0]]
    /\ reload = [r \in Reload |-> [pc |-> "idle", list |-> <<>>, fresh |-> FALSE]]
    /\ newest = <<>> /\ mishaps = 0

\* listPhotos: ORDER BY sort_order, created_at; newer photos come later
\* (again a set with one list).
CreatedBefore(p, q) == \/ p \notin Newcomer /\ q \in Newcomer
                       \/ (p \in Newcomer <=> q \in Newcomer) /\ PlaceOf(ByDate)[p] < PlaceOf(ByDate)[q]
Before(p, q) == place[p] < place[q] \/ (place[p] = place[q] /\ CreatedBefore(p, q))
ListPhotos == {q \in Lists : ToSet(q) = Rows /\ \A i, j \in DOMAIN q : i < j => Before(q[i], q[j])}

Mishap == mishaps < MaxMishaps /\ mishaps' = mishaps + 1

-----------------------------------------------------------------------------
(* Reorders.                                                                *)

InFlight(g) == \/ \E c \in Reorder : GridOf[c] = g /\ call[c].pc \notin {"idle", "done"}
               \/ \E r \in Reload : GridOf[r] = g /\ reload[r].pc \in {"asked", "answered"}

\* A reload and a drag of one page in flight together, or two drags: what
\* lands last stays, whichever was right.
Crossing(g) == [grid EXCEPT ![g].synced = @ /\ ~InFlight(g)]

\* onDragEnd: the new order is shown at once.
Drag(c) ==
    LET g == GridOf[c] IN
    /\ call[c].pc = "idle"
    /\ \E i, j \in DOMAIN grid[g].order :
         LET to == InsertAt(RemoveAt(grid[g].order, i), j, grid[g].order[i]) IN
         /\ i # j
         /\ call' = [call EXCEPT ![c] = [pc |-> "sent", list |-> to, shown |-> grid[g].order,
                                         sort |-> FALSE, at |-> 0]]
         /\ grid' = [Crossing(g) EXCEPT ![g].order = to, ![g].dragging = TRUE]
    /\ UNCHANGED <<place, reload, newest, mishaps>>

\* reorderPhotosByDateAction reads the list it will write.
SortByDate(c) ==
    LET g == GridOf[c] IN
    /\ call[c].pc = "idle"
    /\ ~\E d \in Reorder : GridOf[d] = g /\ call[d].sort /\ call[d].pc # "done"
    /\ \E q \in DateOrders(Rows) : call' = [call EXCEPT ![c] = [pc |-> "sent", list |-> q, shown |-> <<>>,
                                                           sort |-> TRUE, at |-> 0]]
    /\ grid' = Crossing(g)
    /\ UNCHANGED <<place, reload, newest, mishaps>>

\* Rows the transaction has written stay locked until it ends.
Holds(c, p) == call[c].pc = "tx" /\ p \in Rows /\ \E i \in 1..call[c].at : call[c].list[i] = p
Blocked(c) == /\ call[c].pc = "tx" /\ call[c].at < Len(call[c].list)
              /\ \E d \in Reorder \ {c} : Holds(d, call[c].list[call[c].at + 1])
BlockedBy(c, d) == Blocked(c) /\ Holds(d, call[c].list[call[c].at + 1])

BeginReorder(c) ==
    /\ call[c].pc = "sent"
    /\ call' = [call EXCEPT ![c].pc = "tx"]
    /\ UNCHANGED <<place, reload, grid, newest, mishaps>>

\* The rows a statement shows to others: the i-th UPDATE, or 0 for COMMIT.
\* Mutant: without the transaction every UPDATE shows at once.
VisibleAtOnce(c, i) == IF i = 0 THEN {} ELSE {call[c].list[i]}

Visible(c, i) == IF i = 0 THEN ToSet(call[c].list) ELSE {}

Show(c, i) == place' = [p \in Picture |-> IF p \in Rows \cap Visible(c, i)
                                         THEN PlaceOf(call[c].list)[p] ELSE place[p]]

\* UPDATE photos SET sort_order, one row after the other.
WriteRow(c) ==
    /\ call[c].pc = "tx" /\ call[c].at < Len(call[c].list) /\ ~Blocked(c)
    /\ call' = [call EXCEPT ![c].at = @ + 1]
    /\ Show(c, call[c].at + 1)
    /\ UNCHANGED <<reload, grid, newest, mishaps>>

\* Two reorders wait for each other: Postgres aborts one.
Deadlock(c) ==
    /\ \E d \in Reorder : BlockedBy(c, d) /\ BlockedBy(d, c)
    /\ call' = [call EXCEPT ![c].pc = "failed"]
    /\ UNCHANGED <<place, reload, grid, newest, mishaps>>

\* Other pages now show an order that is not the album's any more.
OthersStale(g) == [h \in Grid |-> [grid[h] EXCEPT !.synced = @ /\ h = g]]
NoneFresh == [r \in Reload |-> [reload[r] EXCEPT !.fresh = FALSE]]

Commit(c) ==
    /\ call[c].pc = "tx" /\ call[c].at = Len(call[c].list)
    /\ Show(c, 0)
    /\ newest' = call[c].list
    /\ grid' = OthersStale(GridOf[c]) /\ reload' = NoneFresh
    /\ call' = [call EXCEPT ![c].pc = "saved"]
    /\ UNCHANGED mishaps

\* The session lapsed, the album is gone, the connection broke.
RequestFails(c) ==
    /\ call[c].pc \in {"sent", "tx"} /\ Mishap
    /\ call' = [call EXCEPT ![c].pc = "failed"]
    /\ UNCHANGED <<place, reload, grid, newest>>

-----------------------------------------------------------------------------
(* Reloads.                                                                 *)

AskFor(g) == {r \in Reload : GridOf[r] = g /\ reload[r].pc = "idle"}
Asked == [pc |-> "asked", list |-> <<>>, fresh |-> FALSE]

\* The 2 s poll: not while a drag is being saved (F45).
Poll(r) ==
    /\ reload[r].pc = "idle" /\ ~grid[GridOf[r]].dragging
    /\ reload' = [reload EXCEPT ![r] = Asked]
    /\ grid' = Crossing(GridOf[r])
    /\ UNCHANGED <<place, call, newest, mishaps>>

Answer(r) ==
    /\ reload[r].pc = "asked"
    /\ \E q \in ListPhotos :
         reload' = [reload EXCEPT ![r] = [pc |-> "answered", list |-> q, fresh |-> TRUE]]
    /\ UNCHANGED <<place, call, grid, newest, mishaps>>

Apply(r) ==
    LET g == GridOf[r]
        alone == /\ \A c \in Reorder : GridOf[c] = g => call[c].pc \in {"idle", "done"}
                 /\ \A q \in Reload \ {r} : GridOf[q] = g => reload[q].pc \in {"idle", "done"}
    IN
    /\ reload[r].pc = "answered"
    /\ grid' = [grid EXCEPT ![g].order = reload[r].list, ![g].data = ToSet(reload[r].list),
                            ![g].synced = reload[r].fresh /\ alone]
    /\ reload' = [reload EXCEPT ![r].pc = "done"]
    /\ UNCHANGED <<place, call, newest, mishaps>>

\* A reload that fails leaves the page as it is.
ReloadFails(r) ==
    /\ reload[r].pc \in {"asked", "answered"} /\ Mishap
    /\ reload' = [reload EXCEPT ![r] = [pc |-> "done", list |-> <<>>, fresh |-> FALSE]]
    /\ UNCHANGED <<place, call, grid, newest>>

-----------------------------------------------------------------------------
(* Answers of the reorders.                                                 *)

\* Mutant: a failed drag stays on the screen.
RevertedNot(c) == grid[GridOf[c]].order

\* setOrder(prev): the order before this drag, whatever came since.
Reverted(c) == call[c].shown

\* A sort by date shows nothing of its own; its answer is followed by a reload.
Settled(c) ==
    /\ call[c].pc = "saved"
    /\ call' = [call EXCEPT ![c].pc = "done"]
    /\ IF call[c].sort
       THEN /\ \E r \in AskFor(GridOf[c]) : reload' = [reload EXCEPT ![r] = Asked]
            /\ grid' = [grid EXCEPT ![GridOf[c]].synced = FALSE]
       ELSE /\ grid' = [grid EXCEPT ![GridOf[c]].dragging = FALSE]
            /\ UNCHANGED reload
    /\ UNCHANGED <<place, newest, mishaps>>

\* A failure, or a success whose answer is lost.
Fails(c) ==
    /\ \/ call[c].pc = "failed" /\ UNCHANGED mishaps
       \/ call[c].pc = "saved" /\ Mishap
    /\ call' = [call EXCEPT ![c].pc = "done"]
    /\ LET g == GridOf[c]
           after == [grid EXCEPT ![g].synced = @ /\ call[c].pc = "failed"]
       IN grid' = IF call[c].sort THEN after
                  ELSE [after EXCEPT ![g].order = Reverted(c), ![g].dragging = FALSE]
    /\ UNCHANGED <<place, reload, newest>>

-----------------------------------------------------------------------------
(* Photos come (insertPhotosBatch, one transaction on the album row) and go *)
(* (bulkDeletePhotos, bulkMovePhotos); the page that did it reloads.        *)

NextPlace == IF Rows = {} THEN 0 ELSE (CHOOSE n \in {place[p] : p \in Rows} : \A p \in Rows : place[p] <= n) + 1

PhotosChange(g) ==
    /\ \E r \in AskFor(g) : reload' = [NoneFresh EXCEPT ![r] = Asked]
    /\ grid' = [h \in Grid |-> [grid[h] EXCEPT !.synced = FALSE]]
    /\ UNCHANGED <<call, newest, mishaps>>

InsertPhotos(g) ==
    /\ \E p \in Newcomer : /\ place[p] = Unborn /\ NextPlace <= Cardinality(Picture)
                           /\ place' = [place EXCEPT ![p] = NextPlace]
    /\ PhotosChange(g)

\* The DELETE waits for rows a reorder has locked.
DeletePhotos(g) ==
    /\ \E p \in grid[g].data : /\ p \in Rows /\ \A c \in Reorder : ~Holds(c, p)
                               /\ place' = [place EXCEPT ![p] = NoRow]
    /\ PhotosChange(g)

OrderNext ==
    \/ \E c \in Reorder : \/ Drag(c) \/ SortByDate(c) \/ BeginReorder(c) \/ WriteRow(c)
                          \/ Deadlock(c) \/ Commit(c) \/ RequestFails(c) \/ Settled(c) \/ Fails(c)
    \/ \E r \in Reload : Poll(r) \/ Answer(r) \/ Apply(r) \/ ReloadFails(r)
    \/ \E g \in Grid : InsertPhotos(g) \/ DeletePhotos(g)

OrderSpec == OrderInit /\ [][OrderNext]_orderVars

-----------------------------------------------------------------------------
(* Properties.                                                              *)

\* Reorders of one album do not mix: however their row updates interleave,
\* the photos of the last one that committed stand where its list says.
ReorderIsWhole == \A i \in DOMAIN newest : place[newest[i]] \in {i - 1, NoRow}

\* A page with nothing in flight shows the album's order, unless another
\* page changed it, the answer of a call was lost or two of its own calls
\* crossed: a drag that failed is taken back (PhotoGrid.tsx 97-169).
GridShowsAlbum ==
    \A g \in Grid : (grid[g].synced /\ ~InFlight(g)) => grid[g].order \in ListPhotos
=============================================================================
