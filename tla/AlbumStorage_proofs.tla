-------------------------- MODULE AlbumStorage_proofs --------------------------
(***************************************************************************)
(* Theorems about AlbumStorage, for any albums, photos and requests.       *)
(***************************************************************************)
EXTENDS AlbumStorage, TLAPS

-----------------------------------------------------------------------------
(* The type invariant.                                                      *)

(* TypeOK alone is not inductive: a copy goes to the key of dst, so a move  *)
(* that has started must name albums, and so must a wipe.                   *)
Addressed ==
    /\ \A m \in Move : move[m].stage # "idle" => move[m].src \in Album /\ move[m].dst \in Album
    /\ \A k \in Wiper : wipe[k].stage # "idle" => wipe[k].album \in Album

TypeInv == TypeOK /\ Addressed

LEMMA InitType == Init => TypeInv
BY StorageAssumption
DEF Init, TypeInv, TypeOK, Addressed, NoMove, NoDelete, NoWipe, MoveCall, DeleteCall, WipeCall

LEMMA FaultType ==
    ASSUME TypeOK, Fault
    PROVE  faults' \in 0..MaxFaults
BY StorageAssumption DEF TypeOK, Fault

LEMMA UploadType ==
    ASSUME TypeInv, NEW p \in Photo, UploadStep(p)
    PROVE  TypeInv'
<1> USE DEF TypeInv, TypeOK, Addressed, historyVars
<1>1. Home[p] \in Album
  BY StorageAssumption
<1>2. CASE Put(p)
  BY <1>1, <1>2 DEF Put
<1>3. CASE Resolve(p)
  BY <1>3 DEF Resolve
<1>4. CASE Insert(p)
  BY <1>1, <1>4 DEF Insert
<1>5. QED
  BY <1>2, <1>3, <1>4 DEF UploadStep

(* A step that rewrites one move and keeps its album keeps moves typed.     *)
LEMMA MoveRecordType ==
    ASSUME TypeInv, NEW m \in Move, NEW r \in MoveCall,
           r.stage # "idle" => r.src \in Album /\ r.dst \in Album,
           move' = [move EXCEPT ![m] = r], UNCHANGED wipe
    PROVE  move' \in [Move -> MoveCall] /\ Addressed'
BY DEF TypeInv, TypeOK, Addressed

LEMMA ToType ==
    ASSUME TypeInv, NEW m \in Move, move[m].stage # "idle", NEW T \in SUBSET Photo,
           NEW s \in {"head", "copy", "cover", "sweep", "undo", "end"}, To(m, s, T),
           UNCHANGED wipe
    PROVE  move' \in [Move -> MoveCall] /\ Addressed'
<1> DEFINE r == [move[m] EXCEPT !.stage = s, !.todo = T]
<1>1. r \in MoveCall /\ r.src = move[m].src /\ r.dst = move[m].dst
  BY DEF TypeInv, TypeOK, MoveCall
<1>2. move' = [move EXCEPT ![m] = r]
  BY DEF To, TypeInv, TypeOK
<1>3. move[m].src \in Album /\ move[m].dst \in Album
  BY DEF TypeInv, Addressed
<1> HIDE DEF r
<1>4. QED
  BY <1>1, <1>2, <1>3, MoveRecordType

LEMMA MoveType ==
    ASSUME TypeInv, NEW m \in Move, MoveStep(m)
    PROVE  TypeInv'
<1> USE DEF historyVars
<1>1. move[m] \in MoveCall
  BY DEF TypeInv, TypeOK
<1>2. /\ move[m].photos \in SUBSET Photo /\ move[m].todo \in SUBSET Photo
      /\ move[m].copied \in SUBSET Photo
      /\ move[m].stage # "idle" => move[m].src \in Album /\ move[m].dst \in Album
  BY <1>1 DEF MoveCall, TypeInv, Addressed
<1>3. ASSUME NEW a \in Album, NEW b \in Album, NEW S \in SUBSET Photo, MoveStart(m, a, b, S)
      PROVE  TypeInv'
  <2> DEFINE r == [NoMove EXCEPT !.stage = "head", !.src = a, !.dst = b, !.photos = S, !.todo = S,
                                 !.crossed = S \cap Crossed(b)]
  <2>1. r \in MoveCall /\ r.src = a /\ r.dst = b
    BY DEF NoMove, MoveCall
  <2>2. move' = [move EXCEPT ![m] = r] /\ UNCHANGED wipe
    BY <1>3 DEF MoveStart
  <2> HIDE DEF r
  <2>3. move' \in [Move -> MoveCall] /\ Addressed'
    BY <2>1, <2>2, MoveRecordType
  <2>4. QED
    BY <1>3, <2>3 DEF MoveStart, TypeInv, TypeOK
<1>4. CASE MoveHead(m)
  <2>1. PICK T \in SUBSET move[m].photos :
            LET found == {p \in move[m].photos : <<move[m].src, p>> \in objects} \ T IN
            /\ To(m, "copy", found)
            /\ missed' = missed \cup ((move[m].photos \cap RowsOf(move[m].src)) \ found)
            /\ IF T = {} THEN UNCHANGED faults ELSE Fault
    BY <1>4 DEF MoveHead
  <2>2. move[m].stage # "idle" /\ UNCHANGED wipe
    BY <1>4 DEF MoveHead
  <2>3. move' \in [Move -> MoveCall] /\ Addressed'
    BY <1>2, <2>1, <2>2, ToType
  <2>4. faults' \in 0..MaxFaults /\ missed' \subseteq Photo
    BY <1>2, <2>1, FaultType DEF TypeInv, TypeOK
  <2>5. QED
    BY <1>4, <2>3, <2>4 DEF MoveHead, TypeInv, TypeOK
<1>5. CASE MoveCopy(m)
  <2>1. PICK p \in move[m].todo :
            IF <<move[m].src, p>> \in objects
            THEN /\ objects' = objects \cup {<<move[m].dst, p>>}
                 /\ move' = [move EXCEPT ![m].todo = @ \ {p}, ![m].copied = @ \cup {p}]
            ELSE /\ To(m, "copy", move[m].todo \ {p})
                 /\ UNCHANGED objects
    BY <1>5 DEF MoveCopy
  <2>2. move[m].stage # "idle" /\ UNCHANGED wipe /\ p \in Photo
    BY <1>2, <1>5 DEF MoveCopy
  <2>3. CASE <<move[m].src, p>> \in objects
    <3> DEFINE r == [move[m] EXCEPT !.todo = @ \ {p}, !.copied = @ \cup {p}]
    <3>1. r \in MoveCall /\ r.src = move[m].src /\ r.dst = move[m].dst
      BY <1>1, <1>2, <2>2 DEF MoveCall
    <3>2. move' = [move EXCEPT ![m] = r]
      BY <2>1, <2>3 DEF TypeInv, TypeOK
    <3> HIDE DEF r
    <3>3. move' \in [Move -> MoveCall] /\ Addressed'
      BY <1>2, <2>2, <3>1, <3>2, MoveRecordType
    <3>4. QED
      BY <1>2, <1>5, <2>1, <2>2, <2>3, <3>3 DEF MoveCopy, TypeInv, TypeOK
  <2>4. CASE <<move[m].src, p>> \notin objects
    <3>1. move' \in [Move -> MoveCall] /\ Addressed'
      BY <1>2, <2>1, <2>2, <2>4, ToType
    <3>2. QED
      BY <1>5, <2>1, <2>4, <3>1 DEF MoveCopy, TypeInv, TypeOK
  <2>5. QED
    BY <2>3, <2>4
<1>6. CASE MoveCopyFails(m)
  <2>1. move[m].stage # "idle" /\ UNCHANGED wipe /\ To(m, "undo", move[m].copied) /\ Fault
    BY <1>6 DEF MoveCopyFails
  <2>2. move' \in [Move -> MoveCall] /\ Addressed' /\ faults' \in 0..MaxFaults
    BY <1>2, <2>1, ToType, FaultType DEF TypeInv
  <2>3. QED
    BY <1>6, <2>2 DEF MoveCopyFails, TypeInv, TypeOK
<1>7. CASE MoveUndo(m)
  <2>1. PICK p \in move[m].todo : /\ objects' = objects \ {<<move[m].dst, p>>}
                                  /\ To(m, "undo", move[m].todo \ {p})
    BY <1>7 DEF MoveUndo
  <2>2. move[m].stage # "idle" /\ UNCHANGED wipe
    BY <1>7 DEF MoveUndo
  <2>3. move' \in [Move -> MoveCall] /\ Addressed'
    BY <1>2, <2>1, <2>2, ToType
  <2>4. QED
    BY <1>7, <2>1, <2>3 DEF MoveUndo, TypeInv, TypeOK
<1>8. CASE MoveUpdate(m)
  <2>1. move[m].stage # "idle" /\ UNCHANGED wipe
    BY <1>8 DEF MoveUpdate
  <2>2. To(m, "end", {}) \/ To(m, "cover", {})
    BY <1>8 DEF MoveUpdate
  <2>3. move' \in [Move -> MoveCall] /\ Addressed'
    BY <2>1, <2>2, ToType
  <2>4. row' \in [Photo -> Album \cup {NoAlbum}]
    BY <1>2, <1>8, <2>1 DEF MoveUpdate, TypeInv, TypeOK
  <2>5. shown' \subseteq Album \X Photo
    BY <1>2, <1>8, <2>1 DEF MoveUpdate, TypeInv, TypeOK
  <2>6. QED
    BY <1>8, <2>3, <2>4, <2>5 DEF MoveUpdate, TypeInv, TypeOK
<1>9. CASE MoveClearCover(m)
  <2>1. move[m].stage # "idle" /\ UNCHANGED wipe /\ To(m, "sweep", move[m].copied)
    BY <1>9 DEF MoveClearCover
  <2>2. move' \in [Move -> MoveCall] /\ Addressed'
    BY <1>2, <2>1, ToType
  <2>3. cover' \in [Album -> Photo \cup {NoPhoto}]
    BY <1>9 DEF MoveClearCover, ClearCover, TypeInv, TypeOK
  <2>4. QED
    BY <1>9, <2>2, <2>3 DEF MoveClearCover, TypeInv, TypeOK
<1>10. CASE MoveSweep(m)
  <2>1. PICK p \in move[m].todo :
            /\ To(m, "sweep", move[m].todo \ {p})
            /\ \/ objects' = objects \ {<<move[m].src, p>>} /\ UNCHANGED faults
               \/ UNCHANGED objects /\ Fault
    BY <1>10 DEF MoveSweep
  <2>2. move[m].stage # "idle" /\ UNCHANGED wipe
    BY <1>10 DEF MoveSweep
  <2>3. move' \in [Move -> MoveCall] /\ Addressed'
    BY <1>2, <2>1, <2>2, ToType
  <2>4. faults' \in 0..MaxFaults
    BY <2>1, FaultType DEF TypeInv, TypeOK
  <2>5. QED
    BY <1>10, <2>1, <2>3, <2>4 DEF MoveSweep, TypeInv, TypeOK
<1>11. CASE MoveEnd(m)
  <2>1. move[m].stage # "idle" /\ UNCHANGED wipe /\ To(m, "end", {})
    BY <1>11 DEF MoveEnd
  <2>2. move' \in [Move -> MoveCall] /\ Addressed'
    BY <2>1, ToType
  <2>3. QED
    BY <1>11, <2>2 DEF MoveEnd, TypeInv, TypeOK
<1>12. CASE MoveCrash(m)
  <2>1. move[m].stage # "idle" /\ UNCHANGED wipe /\ To(m, "end", {}) /\ Fault
    BY <1>12 DEF MoveCrash
  <2>2. move' \in [Move -> MoveCall] /\ Addressed' /\ faults' \in 0..MaxFaults
    BY <2>1, ToType, FaultType DEF TypeInv
  <2>3. uncleared' \subseteq Album
    BY <1>2, <1>12, <2>1 DEF MoveCrash, TypeInv, TypeOK
  <2>4. QED
    BY <1>12, <2>2, <2>3 DEF MoveCrash, TypeInv, TypeOK
<1>13. QED
  BY <1>3, <1>4, <1>5, <1>6, <1>7, <1>8, <1>9, <1>10, <1>11, <1>12 DEF MoveStep

LEMMA DeleteType ==
    ASSUME TypeInv, NEW d \in Delete, DeleteStep(d)
    PROVE  TypeInv'
<1> USE DEF historyVars
<1>1. delete[d] \in DeleteCall
  BY DEF TypeInv, TypeOK
<1>2. ASSUME NEW s \in {"cover", "objects", "end"}, delete' = [delete EXCEPT ![d].stage = s]
      PROVE  delete' \in [Delete -> DeleteCall]
  <2>1. [delete[d] EXCEPT !.stage = s] \in DeleteCall
    BY <1>1 DEF DeleteCall
  <2>2. QED
    BY <1>2, <2>1 DEF TypeInv, TypeOK
<1>3. ASSUME NEW a \in Album, NEW S \in SUBSET Photo, NEW bulk \in BOOLEAN, DeleteStart(d, a, S, bulk)
      PROVE  TypeInv'
  <2>1. [stage |-> "rows", bulk |-> bulk, album |-> a, photos |-> S,
         crossed |-> (S \cap CarriedTo(a)) \ RowsOf(a)] \in DeleteCall
    BY DEF DeleteCall
  <2>2. QED
    BY <1>3, <2>1 DEF DeleteStart, TypeInv, TypeOK, Addressed
<1>4. CASE DeleteRows(d)
  <2>1. delete' \in [Delete -> DeleteCall]
    BY <1>2, <1>4 DEF DeleteRows
  <2>2. row' \in [Photo -> Album \cup {NoAlbum}] /\ cover' \in [Album -> Photo \cup {NoPhoto}]
    BY <1>4 DEF DeleteRows, DropRows, TypeInv, TypeOK
  <2>3. QED
    BY <1>4, <2>1, <2>2 DEF DeleteRows, TypeInv, TypeOK, Addressed
<1>5. CASE DeleteClearCover(d)
  <2>1. cover' \in [Album -> Photo \cup {NoPhoto}]
    BY <1>5 DEF DeleteClearCover, ClearCover, TypeInv, TypeOK
  <2>2. QED
    BY <1>2, <1>5, <2>1 DEF DeleteClearCover, TypeInv, TypeOK, Addressed
<1>6. CASE DeleteObjects(d)
  BY <1>2, <1>6 DEF DeleteObjects, TypeInv, TypeOK, Addressed
<1>7. CASE DeleteLost(d)
  <2>1. faults' \in 0..MaxFaults
    BY <1>7, FaultType DEF DeleteLost, TypeInv
  <2>2. objects' \subseteq Album \X Photo
    BY <1>7 DEF DeleteLost, TypeInv, TypeOK
  <2>3. QED
    BY <1>2, <1>7, <2>1, <2>2 DEF DeleteLost, TypeInv, TypeOK, Addressed
<1>8. QED
  BY <1>3, <1>4, <1>5, <1>6, <1>7 DEF DeleteStep

LEMMA WipeType ==
    ASSUME TypeInv, NEW k \in Wiper, WipeStep(k)
    PROVE  TypeInv'
<1> USE DEF historyVars
<1>1. wipe[k] \in WipeCall /\ wipe[k].listed \subseteq Album \X Photo
  BY DEF TypeInv, TypeOK, WipeCall
<1>2. wipe[k].stage # "idle" => wipe[k].album \in Album
  BY DEF TypeInv, Addressed
<1>3. ASSUME NEW r \in WipeCall, r.stage # "idle" => r.album \in Album,
             wipe' = [wipe EXCEPT ![k] = r], UNCHANGED move
      PROVE  wipe' \in [Wiper -> WipeCall] /\ Addressed'
  BY <1>3 DEF TypeInv, TypeOK, Addressed
<1>4. NoWipe \in WipeCall /\ NoWipe.stage = "idle"
  BY DEF NoWipe, WipeCall
<1>5. ASSUME NEW s \in {"rows", "album"}, wipe[k].stage # "idle"
      PROVE  /\ [wipe[k] EXCEPT !.stage = s] \in WipeCall
             /\ [wipe[k] EXCEPT !.stage = s].album = wipe[k].album
  BY <1>1, <1>5 DEF WipeCall
<1>6. ASSUME NEW a \in Album, WipeList(k, a)
      PROVE  TypeInv'
  <2> DEFINE r == [stage |-> "listed", album |-> a, listed |-> objects \cap ({a} \X Photo)]
  <2>1. r \in WipeCall /\ r.album = a
    BY DEF WipeCall
  <2>2. wipe' = [wipe EXCEPT ![k] = r] /\ UNCHANGED move
    BY <1>6 DEF WipeList
  <2> HIDE DEF r
  <2>3. wipe' \in [Wiper -> WipeCall] /\ Addressed'
    BY <1>3, <2>1, <2>2
  <2>4. QED
    BY <1>6, <2>3 DEF WipeList, TypeInv, TypeOK
<1>7. CASE WipeObjects(k)
  <2>1. wipe' = [wipe EXCEPT ![k] = [wipe[k] EXCEPT !.stage = "rows"]] /\ UNCHANGED move
    BY <1>7 DEF WipeObjects, TypeInv, TypeOK
  <2>2. wipe[k].stage # "idle"
    BY <1>7 DEF WipeObjects
  <2>3. wipe' \in [Wiper -> WipeCall] /\ Addressed'
    BY <1>2, <1>3, <1>5, <2>1, <2>2
  <2>4. wiped' \subseteq Photo
    BY <1>1, <1>7 DEF WipeObjects, TypeInv, TypeOK
  <2>5. QED
    BY <1>7, <2>3, <2>4 DEF WipeObjects, TypeInv, TypeOK
<1>8. CASE WipeObjectsFails(k)
  <2>1. PICK left \in SUBSET wipe[k].listed :
            /\ objects' = objects \ (wipe[k].listed \ left)
            /\ wiped' = wiped \cup {o[2] : o \in wipe[k].listed \ left}
    BY <1>8 DEF WipeObjectsFails
  <2>2. wiped' \subseteq Photo /\ objects' \subseteq Album \X Photo
    BY <1>1, <2>1 DEF TypeInv, TypeOK
  <2>3. \/ wipe' = [wipe EXCEPT ![k] = [wipe[k] EXCEPT !.stage = "rows"]]
        \/ wipe' = [wipe EXCEPT ![k] = NoWipe]
    BY <1>8 DEF WipeObjectsFails, TypeInv, TypeOK
  <2>4. wipe[k].stage # "idle" /\ UNCHANGED move
    BY <1>8 DEF WipeObjectsFails
  <2>5. wipe' \in [Wiper -> WipeCall] /\ Addressed'
    BY <1>2, <1>3, <1>4, <1>5, <2>3, <2>4
  <2>6. faults' \in 0..MaxFaults
    BY <1>8, FaultType DEF WipeObjectsFails, TypeInv
  <2>7. QED
    BY <1>8, <2>2, <2>5, <2>6 DEF WipeObjectsFails, TypeInv, TypeOK
<1>9. CASE WipeRows(k)
  <2>1. wipe' = [wipe EXCEPT ![k] = [wipe[k] EXCEPT !.stage = "album"]] /\ UNCHANGED move
    BY <1>9 DEF WipeRows, TypeInv, TypeOK
  <2>2. wipe[k].stage # "idle"
    BY <1>9 DEF WipeRows
  <2>3. wipe' \in [Wiper -> WipeCall] /\ Addressed'
    BY <1>2, <1>3, <1>5, <2>1, <2>2
  <2>4. row' \in [Photo -> Album \cup {NoAlbum}] /\ cover' \in [Album -> Photo \cup {NoPhoto}]
    BY <1>9 DEF WipeRows, DropRows, TypeInv, TypeOK
  <2>5. QED
    BY <1>9, <2>3, <2>4 DEF WipeRows, TypeInv, TypeOK
<1>10. CASE WipeAlbum(k)
  <2>1. wipe[k].album \in Album /\ wipe' = [wipe EXCEPT ![k] = NoWipe] /\ UNCHANGED move
    BY <1>2, <1>10 DEF WipeAlbum
  <2>2. wipe' \in [Wiper -> WipeCall] /\ Addressed'
    BY <1>3, <1>4, <2>1
  <2>3. /\ row' \in [Photo -> Album \cup {NoAlbum}]
        /\ cover' \in [Album -> Photo \cup {NoPhoto}]
        /\ life' \in [Album -> {"live", "trashed", "gone"}]
        /\ reaped' \subseteq Album
    BY <1>10, <2>1 DEF WipeAlbum, TypeInv, TypeOK
  <2>4. QED
    BY <1>10, <2>2, <2>3 DEF WipeAlbum, TypeInv, TypeOK
<1>11. CASE WipeCrash(k)
  <2>1. wipe' \in [Wiper -> WipeCall] /\ Addressed' /\ faults' \in 0..MaxFaults
    BY <1>3, <1>4, <1>11, FaultType DEF WipeCrash, TypeInv
  <2>2. QED
    BY <1>11, <2>1 DEF WipeCrash, TypeInv, TypeOK
<1>12. QED
  BY <1>6, <1>7, <1>8, <1>9, <1>10, <1>11 DEF WipeStep

LEMMA StepType == TypeInv /\ [Next]_vars => TypeInv'
<1> SUFFICES ASSUME TypeInv, [Next]_vars
             PROVE  TypeInv'
  OBVIOUS
<1>1. ASSUME NEW a \in Album, NEW p \in Photo, SetCover(a, p)
      PROVE  TypeInv'
  BY <1>1 DEF SetCover, TypeInv, TypeOK, Addressed, historyVars
<1>2. CASE UNCHANGED vars
  BY <1>2 DEF vars, TypeInv, TypeOK, Addressed
<1>3. QED
  BY <1>1, <1>2, UploadType, MoveType, DeleteType, WipeType DEF Next

(* Rows, covers, objects and requests stay well formed; in particular no    *)
(* object is ever written under the key of an album that does not exist.    *)
THEOREM StorageTypeCorrect == Spec => []TypeOK
<1>1. Init => TypeInv
  BY InitType
<1>2. TypeInv /\ [Next]_vars => TypeInv'
  BY StepType
<1>3. TypeInv => TypeOK
  BY DEF TypeInv
<1>4. QED
  BY <1>1, <1>2, <1>3, PTL DEF Spec

-----------------------------------------------------------------------------
(* What the reaper leaves.                                                  *)

BytesOf(a) == objects \cap ({a} \X Photo)

(* Nothing reaches an album in the trash any more: no upload signed for it  *)
(* is outstanding, no move may name it, and it never becomes live again.    *)
TrashStays ==
    /\ \A a \in Album : life[a] = "trashed" => a \in Trash
    /\ \A a \in Trash : life[a] # "live"
    /\ \A p \in Photo : upload[p] = "new" => Home[p] \notin Trash
    /\ \A m \in Move : move[m].stage # "idle" => move[m].dst \notin Trash

(* So the listing a reap holds covers every byte of its album, and the      *)
(* album is empty once that listing has been deleted.                       *)
ReapCare ==
    /\ reaped \subseteq Trash
    /\ ReapedIsClean
    /\ \A k \in Wiper : k = "reap" =>
        /\ wipe[k].stage # "idle" => wipe[k].album \in Trash
        /\ wipe[k].stage = "listed" => BytesOf(wipe[k].album) \subseteq wipe[k].listed
        /\ wipe[k].stage \in {"rows", "album"} => BytesOf(wipe[k].album) = {}

ReapInv == TypeInv /\ TrashStays /\ ReapCare

NoNewBytes == \A a \in Trash : BytesOf(a)' \subseteq BytesOf(a)

LEMMA InitReap == Init => TrashStays /\ ReapCare
BY StorageAssumption
DEF Init, TrashStays, ReapCare, ReapedIsClean, NoMove, NoWipe

LEMMA UploadAdds ==
    ASSUME TypeInv, TrashStays, NEW p \in Photo, UploadStep(p)
    PROVE  TrashStays' /\ NoNewBytes
<1> USE DEF TypeInv, TypeOK, TrashStays, NoNewBytes, BytesOf, historyVars
<1>1. CASE Put(p)
  BY <1>1 DEF Put
<1>2. CASE Resolve(p)
  BY <1>2 DEF Resolve
<1>3. CASE Insert(p)
  BY <1>3 DEF Insert
<1>4. QED
  BY <1>1, <1>2, <1>3 DEF UploadStep

(* A move keeps its destination once it has started.                        *)
LEMMA ToKeepsTrash ==
    ASSUME TypeInv, TrashStays, NEW m \in Move, move[m].stage # "idle", NEW T, NEW s,
           To(m, s, T), UNCHANGED <<life, upload>>
    PROVE  TrashStays'
<1>1. move[m] \in MoveCall /\ move \in [Move -> MoveCall]
  BY DEF TypeInv, TypeOK
<1>2. move'[m].dst = move[m].dst
  BY <1>1 DEF To, MoveCall
<1>3. \A n \in Move \ {m} : move'[n] = move[n]
  BY <1>1 DEF To
<1>4. QED
  BY <1>2, <1>3 DEF TrashStays

LEMMA MoveAdds ==
    ASSUME TypeInv, TrashStays, NEW m \in Move, MoveStep(m)
    PROVE  TrashStays' /\ NoNewBytes
<1> USE DEF NoNewBytes, BytesOf, historyVars
<1>1. move \in [Move -> MoveCall] /\ move[m] \in MoveCall
  BY DEF TypeInv, TypeOK
<1>2. ASSUME NEW a \in Album, NEW b \in Album, NEW S \in SUBSET Photo, MoveStart(m, a, b, S)
      PROVE  TrashStays' /\ NoNewBytes
  <2>1. b \notin Trash
    BY <1>2 DEF MoveStart, TrashStays
  <2>2. move'[m].dst = b /\ \A n \in Move \ {m} : move'[n] = move[n]
    BY <1>1, <1>2 DEF MoveStart, NoMove
  <2>3. QED
    BY <1>2, <2>1, <2>2 DEF MoveStart, TrashStays
<1>3. CASE MoveHead(m)
  <2>1. PICK T \in SUBSET move[m].photos :
            To(m, "copy", {p \in move[m].photos : <<move[m].src, p>> \in objects} \ T)
    BY <1>3 DEF MoveHead
  <2>2. QED
    BY <1>3, <2>1, ToKeepsTrash DEF MoveHead
<1>4. CASE MoveCopy(m)
  <2>1. PICK p \in move[m].todo :
            IF <<move[m].src, p>> \in objects
            THEN /\ objects' = objects \cup {<<move[m].dst, p>>}
                 /\ move' = [move EXCEPT ![m].todo = @ \ {p}, ![m].copied = @ \cup {p}]
            ELSE /\ To(m, "copy", move[m].todo \ {p})
                 /\ UNCHANGED objects
    BY <1>4 DEF MoveCopy
  <2>2. move[m].stage # "idle" /\ UNCHANGED <<life, upload>>
    BY <1>4 DEF MoveCopy
  <2>3. CASE <<move[m].src, p>> \in objects
    <3>1. move[m].dst \notin Trash
      BY <2>2 DEF TrashStays
    <3>2. move'[m].dst = move[m].dst
      BY <1>1, <2>1, <2>3 DEF MoveCall
    <3>3. \A n \in Move \ {m} : move'[n] = move[n]
      BY <1>1, <2>1, <2>3
    <3>4. TrashStays'
      BY <2>2, <3>1, <3>2, <3>3 DEF TrashStays
    <3>5. QED
      BY <2>1, <2>3, <3>1, <3>4
  <2>4. CASE <<move[m].src, p>> \notin objects
    BY <2>1, <2>2, <2>4, ToKeepsTrash
  <2>5. QED
    BY <2>3, <2>4
<1>5. CASE MoveCopyFails(m)
  BY <1>5, ToKeepsTrash DEF MoveCopyFails
<1>6. CASE MoveUndo(m)
  <2>1. PICK p \in move[m].todo : /\ objects' = objects \ {<<move[m].dst, p>>}
                                  /\ To(m, "undo", move[m].todo \ {p})
    BY <1>6 DEF MoveUndo
  <2>2. QED
    BY <1>6, <2>1, ToKeepsTrash DEF MoveUndo
<1>7. CASE MoveUpdate(m)
  <2>1. \E s : To(m, s, {})
    BY <1>7 DEF MoveUpdate
  <2>2. QED
    BY <1>7, <2>1, ToKeepsTrash DEF MoveUpdate
<1>8. CASE MoveClearCover(m)
  BY <1>8, ToKeepsTrash DEF MoveClearCover
<1>9. CASE MoveSweep(m)
  <2>1. PICK p \in move[m].todo : /\ To(m, "sweep", move[m].todo \ {p})
                                  /\ objects' \subseteq objects
    BY <1>9 DEF MoveSweep
  <2>2. QED
    BY <1>9, <2>1, ToKeepsTrash DEF MoveSweep
<1>10. CASE MoveEnd(m)
  BY <1>10, ToKeepsTrash DEF MoveEnd
<1>11. CASE MoveCrash(m)
  BY <1>11, ToKeepsTrash DEF MoveCrash
<1>12. QED
  BY <1>2, <1>3, <1>4, <1>5, <1>6, <1>7, <1>8, <1>9, <1>10, <1>11 DEF MoveStep

LEMMA DeleteAdds ==
    ASSUME TypeInv, TrashStays, NEW d \in Delete, DeleteStep(d)
    PROVE  TrashStays' /\ NoNewBytes
<1> USE DEF TrashStays, NoNewBytes, BytesOf, historyVars
<1>1. ASSUME NEW a \in Album, NEW S \in SUBSET Photo, NEW bulk \in BOOLEAN,
             DeleteStart(d, a, S, bulk)
      PROVE  TrashStays' /\ NoNewBytes
  BY <1>1 DEF DeleteStart
<1>2. CASE DeleteRows(d)
  BY <1>2 DEF DeleteRows
<1>3. CASE DeleteClearCover(d)
  BY <1>3 DEF DeleteClearCover
<1>4. CASE DeleteObjects(d)
  BY <1>4 DEF DeleteObjects
<1>5. CASE DeleteLost(d)
  BY <1>5 DEF DeleteLost
<1>6. QED
  BY <1>1, <1>2, <1>3, <1>4, <1>5 DEF DeleteStep

LEMMA WipeAdds ==
    ASSUME TypeInv, TrashStays, NEW k \in Wiper, WipeStep(k)
    PROVE  TrashStays' /\ NoNewBytes
<1> USE DEF TrashStays, NoNewBytes, BytesOf, historyVars
<1>1. ASSUME NEW a \in Album, WipeList(k, a)
      PROVE  TrashStays' /\ NoNewBytes
  BY <1>1 DEF WipeList
<1>2. CASE WipeObjects(k)
  BY <1>2 DEF WipeObjects
<1>3. CASE WipeObjectsFails(k)
  BY <1>3 DEF WipeObjectsFails
<1>4. CASE WipeRows(k)
  BY <1>4 DEF WipeRows
<1>5. CASE WipeAlbum(k)
  BY <1>5 DEF WipeAlbum, TypeInv, TypeOK
<1>6. CASE WipeCrash(k)
  BY <1>6 DEF WipeCrash
<1>7. QED
  BY <1>1, <1>2, <1>3, <1>4, <1>5, <1>6 DEF WipeStep

(* Whoever moves, no byte is added to an album in the trash, and a step     *)
(* that is not the reaper's leaves its request and its history alone.       *)
LEMMA OthersKeepReap ==
    ASSUME TypeInv, ReapCare, NoNewBytes, UNCHANGED reaped,
           \A k \in Wiper : k = "reap" => UNCHANGED wipe[k]
    PROVE  ReapCare'
BY DEF ReapCare, ReapedIsClean, NoNewBytes, BytesOf

LEMMA ReaperKeepsCare ==
    ASSUME ReapInv, TrashStays', NoNewBytes, "reap" \in Wiper, WipeStep("reap")
    PROVE  ReapCare'
<1> DEFINE k == "reap"
<1>1. wipe \in [Wiper -> WipeCall] /\ wipe[k] \in WipeCall
  BY DEF ReapInv, TypeInv, TypeOK
<1>2. \A a \in Trash : BytesOf(a) = {} => BytesOf(a)' = {}
  BY DEF NoNewBytes
<1>3. reaped \subseteq Trash /\ \A a \in reaped : BytesOf(a)' = {}
  BY <1>2 DEF ReapInv, ReapCare, ReapedIsClean, BytesOf
<1>4. ASSUME NEW a \in Album, WipeList(k, a)
      PROVE  ReapCare'
  <2>1. life[a] = "trashed"
    BY <1>4 DEF WipeList, Wipes
  <2>2. a \in Trash
    BY <2>1 DEF ReapInv, TrashStays
  <2>3. wipe'[k] = [stage |-> "listed", album |-> a, listed |-> objects \cap ({a} \X Photo)]
    BY <1>1, <1>4 DEF WipeList
  <2>4. UNCHANGED <<objects, reaped>>
    BY <1>4 DEF WipeList, historyVars
  <2>5. QED
    BY <1>3, <2>2, <2>3, <2>4 DEF ReapCare, ReapedIsClean, BytesOf
<1>5. CASE WipeObjects(k)
  <2>1. /\ wipe'[k].stage = "rows" /\ wipe'[k].album = wipe[k].album
        /\ wipe[k].stage = "listed" /\ objects' = objects \ wipe[k].listed
        /\ UNCHANGED reaped
    BY <1>1, <1>5 DEF WipeObjects, WipeCall
  <2>2. wipe[k].album \in Trash /\ BytesOf(wipe[k].album) \subseteq wipe[k].listed
    BY <2>1 DEF ReapInv, ReapCare
  <2>3. BytesOf(wipe[k].album)' = {}
    BY <2>1, <2>2 DEF BytesOf
  <2>4. QED
    BY <1>3, <2>1, <2>2, <2>3 DEF ReapCare, ReapedIsClean, BytesOf
<1>6. CASE WipeObjectsFails(k)
  <2>1. wipe'[k] = NoWipe /\ UNCHANGED reaped
    BY <1>1, <1>6 DEF WipeObjectsFails, CarriesOn
  <2>2. QED
    BY <1>3, <2>1 DEF ReapCare, ReapedIsClean, BytesOf, NoWipe
<1>7. CASE WipeRows(k)
  <2>1. /\ wipe'[k].stage = "album" /\ wipe'[k].album = wipe[k].album
        /\ wipe[k].stage = "rows" /\ UNCHANGED <<objects, reaped>>
    BY <1>1, <1>7 DEF WipeRows, WipeCall, historyVars
  <2>2. wipe[k].album \in Trash /\ BytesOf(wipe[k].album) = {}
    BY <2>1 DEF ReapInv, ReapCare
  <2>3. QED
    BY <1>3, <2>1, <2>2 DEF ReapCare, ReapedIsClean, BytesOf
<1>8. CASE WipeAlbum(k)
  <2>1. /\ wipe'[k] = NoWipe /\ wipe[k].stage = "album" /\ UNCHANGED objects
        /\ reaped' = reaped \cup {wipe[k].album}
    BY <1>1, <1>8 DEF WipeAlbum
  <2>2. wipe[k].album \in Trash /\ BytesOf(wipe[k].album) = {}
    BY <2>1 DEF ReapInv, ReapCare
  <2>3. QED
    BY <1>3, <2>1, <2>2 DEF ReapCare, ReapedIsClean, BytesOf, NoWipe
<1>9. CASE WipeCrash(k)
  <2>1. wipe'[k] = NoWipe /\ UNCHANGED reaped
    BY <1>1, <1>9 DEF WipeCrash, historyVars
  <2>2. QED
    BY <1>3, <2>1 DEF ReapCare, ReapedIsClean, BytesOf, NoWipe
<1>10. QED
  BY <1>4, <1>5, <1>6, <1>7, <1>8, <1>9 DEF WipeStep

LEMMA StepReap == ReapInv /\ [Next]_vars => ReapInv'
<1> SUFFICES ASSUME ReapInv, [Next]_vars
             PROVE  TrashStays' /\ ReapCare'
  BY StepType DEF ReapInv
<1> USE DEF ReapInv
<1>1. ASSUME NEW p \in Photo, UploadStep(p)
      PROVE  TrashStays' /\ ReapCare'
  <2>1. UNCHANGED <<wipe, reaped>>
    BY <1>1 DEF UploadStep, Put, Resolve, Insert, historyVars
  <2>2. QED
    BY <1>1, <2>1, UploadAdds, OthersKeepReap
<1>2. ASSUME NEW a \in Album, NEW p \in Photo, SetCover(a, p)
      PROVE  TrashStays' /\ ReapCare'
  <2>1. UNCHANGED <<wipe, reaped, objects, life, upload, move>>
    BY <1>2 DEF SetCover, historyVars
  <2>2. QED
    BY <2>1 DEF TrashStays, ReapCare, ReapedIsClean, BytesOf
<1>3. ASSUME NEW m \in Move, MoveStep(m)
      PROVE  TrashStays' /\ ReapCare'
  <2>1. UNCHANGED <<wipe, reaped>>
    BY <1>3 DEF MoveStep, MoveStart, MoveHead, MoveCopy, MoveCopyFails, MoveUndo, MoveUpdate,
                MoveClearCover, MoveSweep, MoveEnd, MoveCrash, historyVars
  <2>2. QED
    BY <1>3, <2>1, MoveAdds, OthersKeepReap
<1>4. ASSUME NEW d \in Delete, DeleteStep(d)
      PROVE  TrashStays' /\ ReapCare'
  <2>1. UNCHANGED <<wipe, reaped>>
    BY <1>4 DEF DeleteStep, DeleteStart, DeleteRows, DeleteClearCover, DeleteObjects,
                DeleteLost, historyVars
  <2>2. QED
    BY <1>4, <2>1, DeleteAdds, OthersKeepReap
<1>5. ASSUME NEW k \in Wiper, WipeStep(k), k # "reap"
      PROVE  TrashStays' /\ ReapCare'
  <2>1. TrashStays' /\ NoNewBytes
    BY <1>5, WipeAdds
  <2>2. UNCHANGED reaped /\ \A j \in Wiper \ {k} : wipe'[j] = wipe[j]
    BY <1>5 DEF WipeStep, WipeList, WipeObjects, WipeObjectsFails, WipeRows, WipeAlbum,
                WipeCrash, historyVars, TypeInv, TypeOK
  <2>3. QED
    BY <1>5, <2>1, <2>2, OthersKeepReap
<1>6. ASSUME "reap" \in Wiper, WipeStep("reap")
      PROVE  TrashStays' /\ ReapCare'
  BY <1>6, WipeAdds, ReaperKeepsCare
<1>7. CASE UNCHANGED vars
  BY <1>7 DEF vars, TrashStays, ReapCare, ReapedIsClean, BytesOf
<1>8. QED
  BY <1>1, <1>2, <1>3, <1>4, <1>5, <1>6, <1>7 DEF Next

(* reaper.ts, F23: whatever fails, dies or overlaps, an album whose row the *)
(* reaper deleted has no object left in MinIO.                              *)
THEOREM ReapedStaysClean == Spec => []ReapedIsClean
<1>1. Init => ReapInv
  BY InitType, InitReap DEF ReapInv
<1>2. ReapInv /\ [Next]_vars => ReapInv'
  BY StepReap
<1>3. ReapInv => ReapedIsClean
  BY DEF ReapInv, ReapCare
<1>4. QED
  BY <1>1, <1>2, <1>3, PTL DEF Spec

-----------------------------------------------------------------------------
(* The cover of an album.                                                   *)

(* A photo gets its row when its upload is done, so no cover can name it    *)
(* before, and the insert takes no photo away from another album.           *)
RowsComeLast == \A p \in Photo : upload[p] # "done" => row[p] = NoAlbum

CoverInv == TypeInv /\ RowsComeLast /\ CoverInAlbum

LEMMA InitCover == Init => RowsComeLast /\ CoverInAlbum
BY DEF Init, RowsComeLast, CoverInAlbum

(* A step that ends no move at "cover" keeps the covers right if it only    *)
(* clears covers, or moves no photo away from the album it is the cover of. *)
LEMMA KeepsCover ==
    ASSUME CoverInAlbum, uncleared \subseteq uncleared',
           \A m \in Move : move[m].stage = "cover" => UNCHANGED move[m],
           \A a \in Album : \/ cover'[a] = NoPhoto
                            \/ cover'[a] = cover[a] /\ UNCHANGED row[cover[a]]
    PROVE  CoverInAlbum'
<1> SUFFICES ASSUME NEW a \in Album, cover'[a] # NoPhoto
             PROVE  \/ row'[cover'[a]] = a
                    \/ \E m \in Move : move'[m].stage = "cover" /\ move'[m].src = a
                                        /\ cover'[a] \in move'[m].photos
                    \/ a \in uncleared'
  BY DEF CoverInAlbum
<1>1. cover'[a] = cover[a] /\ row'[cover[a]] = row[cover[a]]
  OBVIOUS
<1>2. QED
  BY <1>1 DEF CoverInAlbum

LEMMA UploadCover ==
    ASSUME CoverInv, NEW p \in Photo, UploadStep(p)
    PROVE  RowsComeLast' /\ CoverInAlbum'
<1> USE DEF historyVars
<1>1. ASSUME NEW a \in Album, cover[a] # NoPhoto, UNCHANGED <<cover, move, uncleared>>,
             \A q \in Photo : row[q] = NoAlbum \/ UNCHANGED row[q]
      PROVE  \/ row'[cover'[a]] = a
             \/ \E m \in Move : move'[m].stage = "cover" /\ move'[m].src = a
                                 /\ cover'[a] \in move'[m].photos
             \/ a \in uncleared'
  <2>1. cover[a] \in Photo
    BY <1>1 DEF CoverInv, TypeInv, TypeOK
  <2>2. row[cover[a]] = a => row'[cover[a]] = a
    BY <1>1, <2>1, StorageAssumption
  <2>3. QED
    BY <1>1, <2>2 DEF CoverInv, CoverInAlbum
<1>2. CASE Put(p)
  BY <1>1, <1>2 DEF Put, CoverInv, RowsComeLast, CoverInAlbum, TypeInv, TypeOK
<1>3. CASE Resolve(p)
  BY <1>1, <1>3 DEF Resolve, CoverInv, RowsComeLast, CoverInAlbum, TypeInv, TypeOK
<1>4. CASE Insert(p)
  <2>1. row[p] = NoAlbum /\ UNCHANGED <<cover, move, uncleared>>
    BY <1>4 DEF Insert, CoverInv, RowsComeLast
  <2>2. \A q \in Photo : row[q] = NoAlbum \/ UNCHANGED row[q]
    BY <1>4, <2>1 DEF Insert, CoverInv, TypeInv, TypeOK
  <2>3. CoverInAlbum'
    BY <1>1, <2>1, <2>2 DEF CoverInAlbum
  <2>4. RowsComeLast'
    BY <1>4 DEF Insert, CoverInv, RowsComeLast, TypeInv, TypeOK
  <2>5. QED
    BY <2>3, <2>4
<1>5. QED
  BY <1>2, <1>3, <1>4 DEF UploadStep

LEMMA SetCoverCover ==
    ASSUME CoverInv, NEW a \in Album, NEW p \in Photo, SetCover(a, p)
    PROVE  RowsComeLast' /\ CoverInAlbum'
<1>1. /\ row[p] = a /\ cover' = [cover EXCEPT ![a] = p]
      /\ UNCHANGED <<row, upload, move, uncleared>>
  BY DEF SetCover, historyVars
<1>2. RowsComeLast'
  BY <1>1 DEF CoverInv, RowsComeLast
<1>3. cover'[a] = p /\ \A b \in Album \ {a} : cover'[b] = cover[b]
  BY <1>1 DEF CoverInv, TypeInv, TypeOK
<1>4. QED
  BY <1>1, <1>2, <1>3 DEF CoverInv, CoverInAlbum

(* A move that is not at "cover" and does not get there changes no cover.   *)
LEMMA OtherMovesCover ==
    ASSUME CoverInv, NEW m \in Move, move[m].stage # "cover",
           \A n \in Move \ {m} : UNCHANGED move[n],
           UNCHANGED <<row, cover, upload>>, uncleared \subseteq uncleared'
    PROVE  RowsComeLast' /\ CoverInAlbum'
<1>1. RowsComeLast'
  BY DEF CoverInv, RowsComeLast
<1>2. \A n \in Move : move[n].stage = "cover" => UNCHANGED move[n]
  OBVIOUS
<1>3. QED
  BY <1>1, <1>2, KeepsCover DEF CoverInv

LEMMA MoveCover ==
    ASSUME CoverInv, NEW m \in Move, MoveStep(m)
    PROVE  RowsComeLast' /\ CoverInAlbum'
<1> USE DEF historyVars
<1>1. move \in [Move -> MoveCall] /\ move[m] \in MoveCall
  BY DEF CoverInv, TypeInv, TypeOK
<1>2. ASSUME NEW s, NEW T, To(m, s, T)
      PROVE  /\ \A n \in Move \ {m} : UNCHANGED move[n]
             /\ move'[m].stage = s /\ move'[m].src = move[m].src
             /\ move'[m].photos = move[m].photos
  BY <1>1, <1>2 DEF To, MoveCall
<1>3. ASSUME NEW a \in Album, NEW b \in Album, NEW S \in SUBSET Photo, MoveStart(m, a, b, S)
      PROVE  RowsComeLast' /\ CoverInAlbum'
  BY <1>1, <1>3, OtherMovesCover DEF MoveStart
<1>4. CASE MoveHead(m)
  <2>1. PICK T \in SUBSET move[m].photos :
            To(m, "copy", {p \in move[m].photos : <<move[m].src, p>> \in objects} \ T)
    BY <1>4 DEF MoveHead
  <2>2. QED
    BY <1>2, <1>4, <2>1, OtherMovesCover DEF MoveHead
<1>5. CASE MoveCopy(m)
  <2>1. \A n \in Move \ {m} : UNCHANGED move[n]
    BY <1>1, <1>2, <1>5 DEF MoveCopy
  <2>2. QED
    BY <1>5, <2>1, OtherMovesCover DEF MoveCopy
<1>6. CASE MoveCopyFails(m)
  BY <1>2, <1>6, OtherMovesCover DEF MoveCopyFails
<1>7. CASE MoveUndo(m)
  BY <1>2, <1>7, OtherMovesCover DEF MoveUndo
<1>8. CASE MoveUpdate(m)
  <2> DEFINE mine == move[m].photos \cap RowsOf(move[m].src)
  <2>1. move[m].stage = "copy" /\ UNCHANGED <<cover, upload, uncleared>>
    BY <1>8 DEF MoveUpdate
  <2>2. move[m].src \in Album /\ move[m].src # NoAlbum
    BY <2>1, StorageAssumption DEF CoverInv, TypeInv, Addressed
  <2>3. CASE To(m, "end", {}) /\ UNCHANGED row
    BY <1>2, <2>1, <2>3, OtherMovesCover
  <2>4. CASE /\ To(m, "cover", {})
             /\ row' = [p \in Photo |-> IF p \in mine THEN move[m].dst ELSE row[p]]
    <3>1. \A p \in mine : row[p] = move[m].src
      BY DEF RowsOf
    <3>2. RowsComeLast'
      BY <2>1, <2>2, <2>4, <3>1 DEF CoverInv, RowsComeLast
    <3>3. SUFFICES ASSUME NEW a \in Album, cover[a] # NoPhoto
                   PROVE  \/ row'[cover[a]] = a
                          \/ \E n \in Move : move'[n].stage = "cover" /\ move'[n].src = a
                                              /\ cover[a] \in move'[n].photos
                          \/ a \in uncleared
      BY <2>1, <3>2 DEF CoverInAlbum
    <3>4. cover[a] \in Photo
      BY <3>3 DEF CoverInv, TypeInv, TypeOK
    <3>5. /\ \A n \in Move \ {m} : UNCHANGED move[n]
          /\ move'[m].stage = "cover" /\ move'[m].src = move[m].src
          /\ move'[m].photos = move[m].photos
      BY <1>2, <2>4
    <3>6. CASE row[cover[a]] = a /\ cover[a] \in mine
      BY <3>1, <3>5, <3>6
    <3>7. CASE row[cover[a]] = a /\ cover[a] \notin mine
      BY <2>4, <3>4, <3>7
    <3>8. CASE row[cover[a]] # a
      BY <2>1, <3>3, <3>5, <3>8 DEF CoverInv, CoverInAlbum
    <3>9. QED
      BY <3>6, <3>7, <3>8
  <2>5. QED
    BY <1>8, <2>3, <2>4 DEF MoveUpdate
<1>9. CASE MoveClearCover(m)
  <2>1. /\ cover' = [cover EXCEPT ![move[m].src] =
                        IF @ \in move[m].photos THEN NoPhoto ELSE @]
        /\ UNCHANGED <<row, upload, uncleared>>
    BY <1>9 DEF MoveClearCover, ClearCover
  <2>2. /\ \A n \in Move \ {m} : UNCHANGED move[n]
    BY <1>2, <1>9 DEF MoveClearCover
  <2>3. RowsComeLast'
    BY <2>1 DEF CoverInv, RowsComeLast
  <2>4. \A a \in Album : \/ cover'[a] = NoPhoto
                         \/ cover'[a] = cover[a] /\ ~(move[m].src = a /\ cover[a] \in move[m].photos)
    BY <2>1 DEF CoverInv, TypeInv, TypeOK
  <2>5. QED
    BY <2>1, <2>2, <2>3, <2>4 DEF CoverInv, CoverInAlbum
<1>10. CASE MoveSweep(m)
  <2>1. PICK p \in move[m].todo : To(m, "sweep", move[m].todo \ {p})
    BY <1>10 DEF MoveSweep
  <2>2. QED
    BY <1>2, <1>10, <2>1, OtherMovesCover DEF MoveSweep
<1>11. CASE MoveEnd(m)
  BY <1>2, <1>11, OtherMovesCover DEF MoveEnd
<1>12. CASE MoveCrash(m)
  <2>1. /\ \A n \in Move \ {m} : UNCHANGED move[n]
        /\ UNCHANGED <<row, cover, upload>>
        /\ uncleared' = IF move[m].stage = "cover" THEN uncleared \cup {move[m].src} ELSE uncleared
    BY <1>2, <1>12 DEF MoveCrash
  <2>2. QED
    BY <2>1 DEF CoverInv, RowsComeLast, CoverInAlbum
<1>13. QED
  BY <1>3, <1>4, <1>5, <1>6, <1>7, <1>8, <1>9, <1>10, <1>11, <1>12 DEF MoveStep

(* A dropped row takes the covers it was with it.                           *)
LEMMA DropCover ==
    ASSUME CoverInv, NEW S, DropRows(S), UNCHANGED <<upload, move, uncleared>>
    PROVE  RowsComeLast' /\ CoverInAlbum'
<1>1. RowsComeLast'
  BY DEF DropRows, CoverInv, RowsComeLast
<1>2. \A a \in Album : cover'[a] = IF cover[a] \in S THEN NoPhoto ELSE cover[a]
  BY DEF DropRows
<1>3. \A a \in Album : cover[a] \in Photo \cup {NoPhoto}
  BY DEF CoverInv, TypeInv, TypeOK
<1>4. \A p \in Photo : p \notin S => row'[p] = row[p]
  BY DEF DropRows
<1>5. QED
  BY <1>1, <1>2, <1>3, <1>4 DEF CoverInv, CoverInAlbum

LEMMA DeleteCover ==
    ASSUME CoverInv, NEW d \in Delete, DeleteStep(d)
    PROVE  RowsComeLast' /\ CoverInAlbum'
<1> USE DEF historyVars
<1>1. ASSUME NEW a \in Album, NEW S \in SUBSET Photo, NEW bulk \in BOOLEAN,
             DeleteStart(d, a, S, bulk)
      PROVE  RowsComeLast' /\ CoverInAlbum'
  BY <1>1 DEF DeleteStart, CoverInv, RowsComeLast, CoverInAlbum
<1>2. CASE DeleteRows(d)
  BY <1>2, DropCover DEF DeleteRows
<1>3. CASE DeleteClearCover(d)
  <2>1. \A a \in Album : cover'[a] = NoPhoto \/ cover'[a] = cover[a]
    BY <1>3 DEF DeleteClearCover, ClearCover, CoverInv, TypeInv, TypeOK
  <2>2. UNCHANGED <<row, upload, move, uncleared>>
    BY <1>3 DEF DeleteClearCover
  <2>3. QED
    BY <2>1, <2>2 DEF CoverInv, RowsComeLast, CoverInAlbum
<1>4. CASE DeleteObjects(d)
  BY <1>4 DEF DeleteObjects, CoverInv, RowsComeLast, CoverInAlbum
<1>5. CASE DeleteLost(d)
  BY <1>5 DEF DeleteLost, CoverInv, RowsComeLast, CoverInAlbum
<1>6. QED
  BY <1>1, <1>2, <1>3, <1>4, <1>5 DEF DeleteStep

LEMMA WipeCover ==
    ASSUME CoverInv, NEW k \in Wiper, WipeStep(k)
    PROVE  RowsComeLast' /\ CoverInAlbum'
<1> USE DEF historyVars
<1>1. ASSUME UNCHANGED <<row, cover, upload, move, uncleared>>
      PROVE  RowsComeLast' /\ CoverInAlbum'
  BY <1>1 DEF CoverInv, RowsComeLast, CoverInAlbum
<1>2. ASSUME NEW a \in Album, WipeList(k, a)
      PROVE  RowsComeLast' /\ CoverInAlbum'
  BY <1>1, <1>2 DEF WipeList
<1>3. CASE WipeObjects(k)
  BY <1>1, <1>3 DEF WipeObjects
<1>4. CASE WipeObjectsFails(k)
  BY <1>1, <1>4 DEF WipeObjectsFails
<1>5. CASE WipeRows(k)
  BY <1>5, DropCover DEF WipeRows
<1>6. CASE WipeAlbum(k)
  <2> DEFINE a == wipe[k].album
  <2>1. UNCHANGED <<upload, move, uncleared>>
    BY <1>6 DEF WipeAlbum
  <2>2. RowsComeLast'
    BY <1>6, <2>1 DEF WipeAlbum, CoverInv, RowsComeLast
  <2>3. \A b \in Album : cover'[b] = IF b = a \/ cover[b] \in RowsOf(a) THEN NoPhoto ELSE cover[b]
    BY <1>6 DEF WipeAlbum
  <2>4. \A p \in Photo : p \notin RowsOf(a) => row'[p] = row[p]
    BY <1>6 DEF WipeAlbum, RowsOf
  <2>5. \A b \in Album : cover[b] \in Photo \cup {NoPhoto}
    BY DEF CoverInv, TypeInv, TypeOK
  <2> HIDE DEF a
  <2>6. QED
    BY <2>1, <2>2, <2>3, <2>4, <2>5 DEF CoverInv, CoverInAlbum
<1>7. CASE WipeCrash(k)
  BY <1>1, <1>7 DEF WipeCrash
<1>8. QED
  BY <1>2, <1>3, <1>4, <1>5, <1>6, <1>7 DEF WipeStep

LEMMA StepCover == CoverInv /\ [Next]_vars => CoverInv'
<1> SUFFICES ASSUME CoverInv, [Next]_vars
             PROVE  RowsComeLast' /\ CoverInAlbum'
  BY StepType DEF CoverInv
<1>1. CASE UNCHANGED vars
  BY <1>1 DEF vars, CoverInv, RowsComeLast, CoverInAlbum
<1>2. QED
  BY <1>1, UploadCover, SetCoverCover, MoveCover, DeleteCover, WipeCover DEF Next

(* albums.ts:377-383: whatever is moved, deleted, purged or crashes         *)
(* meanwhile, the cover of an album is one of its photos, except between    *)
(* the two statements of a move, or for good if the move died there.        *)
THEOREM CoverStaysInAlbum == Spec => []CoverInAlbum
<1>1. Init => CoverInv
  BY InitType, InitCover DEF CoverInv
<1>2. CoverInv /\ [Next]_vars => CoverInv'
  BY StepCover
<1>3. CoverInv => CoverInAlbum
  BY DEF CoverInv
<1>4. QED
  BY <1>1, <1>2, <1>3, PTL DEF Spec

-----------------------------------------------------------------------------
(* The bytes of a row.                                                      *)

(* A request that has not begun has no photos, and what a move has done is  *)
(* part of what it was asked to do.                                         *)
RequestShape ==
  /\ \A d \in Delete : delete[d].stage = "idle" => delete[d].photos = {} /\ delete[d].crossed = {}
  /\ \A m \in Move :
      /\ move[m].stage = "idle" => move[m].photos = {} /\ move[m].crossed = {}
      /\ move[m].stage # "idle" => move[m].src # move[m].dst
      /\ move[m].todo \cup move[m].copied \subseteq move[m].photos
      /\ move[m].stage = "head" => move[m].copied = {}
      /\ move[m].stage \in {"undo", "sweep"} => move[m].todo \subseteq move[m].copied

LEMMA InitShape == Init => RequestShape
BY DEF Init, RequestShape, NoMove, NoDelete

LEMMA RequestShapeStep == TypeInv /\ RequestShape /\ [Next]_vars => RequestShape'
<1> SUFFICES ASSUME TypeInv, RequestShape, [Next]_vars
             PROVE  RequestShape'
  OBVIOUS
<1> USE DEF RequestShape
<1>1. ASSUME NEW m \in Move, MoveStep(m)
      PROVE  RequestShape'
  <2>1. move \in [Move -> MoveCall] /\ move[m] \in MoveCall
    BY DEF TypeInv, TypeOK
  <2>2. ASSUME NEW a \in Album, NEW b \in Album, NEW S \in SUBSET Photo, MoveStart(m, a, b, S)
        PROVE  RequestShape'
    BY <2>1, <2>2 DEF MoveStart, NoMove
  <2>3. CASE MoveHead(m)
    BY <2>1, <2>3 DEF MoveHead, To, MoveCall
  <2>4. CASE MoveCopy(m)
    BY <2>1, <2>4 DEF MoveCopy, To, MoveCall
  <2>5. CASE MoveCopyFails(m) \/ MoveUpdate(m) \/ MoveClearCover(m) \/ MoveEnd(m) \/ MoveCrash(m)
    BY <2>1, <2>5 DEF MoveCopyFails, MoveUpdate, MoveClearCover, MoveEnd, MoveCrash, To, MoveCall
  <2>6. CASE MoveUndo(m) \/ MoveSweep(m)
    BY <2>1, <2>6 DEF MoveUndo, MoveSweep, To, MoveCall
  <2>7. QED
    BY <1>1, <2>2, <2>3, <2>4, <2>5, <2>6 DEF MoveStep
<1>2. CASE UNCHANGED <<move, delete>>
  BY <1>2
<1>3. ASSUME NEW p \in Photo, UploadStep(p)
      PROVE  UNCHANGED <<move, delete>>
  BY <1>3 DEF UploadStep, Put, Resolve, Insert
<1>4. ASSUME NEW d \in Delete, DeleteStep(d)
      PROVE  RequestShape'
  <2>1. delete \in [Delete -> DeleteCall] /\ UNCHANGED move
    BY <1>4 DEF TypeInv, TypeOK, DeleteStep, DeleteStart, DeleteRows, DeleteClearCover, DeleteObjects, DeleteLost
  <2>2. ASSUME NEW a \in Album, NEW S \in SUBSET Photo, NEW bulk \in BOOLEAN, DeleteStart(d, a, S, bulk)
        PROVE  RequestShape'
    BY <2>1, <2>2 DEF DeleteStart
  <2>3. CASE DeleteRows(d) \/ DeleteClearCover(d) \/ DeleteObjects(d) \/ DeleteLost(d)
    BY <2>1, <2>3 DEF DeleteRows, DeleteClearCover, DeleteObjects, DeleteLost, DeleteCall
  <2>4. QED
    BY <1>4, <2>2, <2>3 DEF DeleteStep
<1>5. ASSUME NEW k \in Wiper, WipeStep(k)
      PROVE  UNCHANGED <<move, delete>>
  BY <1>5 DEF WipeStep, WipeList, WipeObjects, WipeObjectsFails, WipeRows, WipeAlbum, WipeCrash
<1>6. ASSUME NEW a \in Album, NEW p \in Photo, SetCover(a, p)
      PROVE  UNCHANGED <<move, delete>>
  BY <1>6 DEF SetCover
<1>7. CASE UNCHANGED vars
  BY <1>7 DEF vars
<1>8. QED
  BY <1>1, <1>2, <1>3, <1>4, <1>5, <1>6, <1>7 DEF Next

(* The photos RowHasBytes is about, and the requests under way.             *)
Straight(p) ==
    /\ p \notin wiped
    /\ \A m \in Move : p \notin move[m].crossed
    /\ \A d \in Delete : p \notin delete[d].crossed
Moving(m, p) == move[m].stage \notin {"idle", "end"} /\ p \in move[m].photos
Deleting(d, p) == delete[d].stage \notin {"idle", "end"} /\ p \in delete[d].photos

(* No page lists a photo, and nobody moves or deletes it, before its row is *)
(* in; until then its bytes are where they were uploaded.                   *)
BytesFirst(p) ==
    /\ upload[p] # "done" => /\ row[p] = NoAlbum
                             /\ \A m \in Move : p \notin move[m].photos
                             /\ \A d \in Delete : p \notin delete[d].photos
                             /\ \A a \in Album : <<a, p>> \notin shown
    /\ upload[p] \in {"put", "resolved"} => <<Home[p], p>> \in objects

(* One move has the photo at a time, and no delete takes it out of the      *)
(* album a move is bringing it to.                                          *)
OneHand(p) ==
    /\ \A m, n \in Move : Moving(m, p) /\ Moving(n, p) => m = n
    /\ \A m \in Move, d \in Delete :
         Moving(m, p) /\ move[m].stage \in {"head", "copy"} /\ Deleting(d, p)
           => delete[d].album # move[m].dst

(* Until a move updates the rows its photos are not in the destination, and *)
(* then they are not in the source; a delete whose row stage has passed     *)
(* left none in its album.                                                  *)
RowStands(p) ==
    /\ \A m \in Move : Moving(m, p) =>
         IF move[m].stage \in {"cover", "sweep"} THEN row[p] # move[m].src
                                                 ELSE row[p] # move[m].dst
    /\ \A d \in Delete : (Deleting(d, p) /\ delete[d].stage # "rows") =>
         row[p] = NoAlbum \/ row[p] # delete[d].album

(* What a move is done with of the source's photos was copied, or had been  *)
(* missed; the copy stays, and until the sweep so does the original.        *)
BytesStand(p) ==
    \A m \in Move :
      /\ (Moving(m, p) /\ move[m].stage = "copy") =>
           /\ row[p] = move[m].src /\ p \notin missed => p \in move[m].todo \cup move[m].copied
           /\ p \in move[m].copied => <<move[m].dst, p>> \in objects
      /\ (Moving(m, p) /\ p \in move[m].copied /\ \A d \in Delete : p \notin delete[d].photos) =>
           /\ move[m].stage \in {"cover", "sweep"} => <<move[m].dst, p>> \in objects
           /\ move[m].stage \in {"copy", "undo"} => <<move[m].src, p>> \in objects

HasBytes(p) ==
    row[p] # NoAlbum =>
      \/ <<row[p], p>> \in objects
      \/ /\ p \in missed
         /\ \/ \E a \in Album : <<a, p>> \in objects
            \/ \E d \in Delete : p \in delete[d].photos

BytesInv(p) ==
    Straight(p) => BytesFirst(p) /\ OneHand(p) /\ RowStands(p) /\ BytesStand(p) /\ HasBytes(p)

LEMMA InitBytes ==
    ASSUME Init, NEW p \in Photo
    PROVE  BytesInv(p)
BY StorageAssumption DEF Init, BytesInv, BytesFirst, OneHand, RowStands, BytesStand, HasBytes, Moving, Deleting, NoMove, NoDelete

(* An upload's or a cover's step.                                           *)
LEMMA UploadBytes ==
    ASSUME TypeInv, NEW p \in Photo, BytesInv(p), NEW q \in Photo, UploadStep(q)
    PROVE  BytesInv(p)'
<1> SUFFICES ASSUME Straight(p)'
             PROVE  (BytesFirst(p) /\ OneHand(p) /\ RowStands(p) /\ BytesStand(p) /\ HasBytes(p))'
  BY DEF BytesInv
<1> USE DEF historyVars
<1>1. UNCHANGED <<move, delete, missed, wiped>> /\ objects \subseteq objects'
  BY DEF UploadStep, Put, Resolve, Insert
<1>2. Straight(p)
  BY <1>1 DEF Straight
<1>3. BytesFirst(p) /\ OneHand(p) /\ RowStands(p) /\ BytesStand(p) /\ HasBytes(p)
  BY <1>2 DEF BytesInv
<1>4. OneHand(p)'
  BY <1>1, <1>3 DEF OneHand, Moving, Deleting
<1>5. CASE UNCHANGED row
  <2>1. BytesFirst(p)'
    <3>1. CASE Put(q)
      BY <1>1, <1>3, <1>5, <3>1 DEF Put, BytesFirst, TypeInv, TypeOK
    <3>2. CASE Resolve(q)
      BY <1>1, <1>3, <1>5, <3>2 DEF Resolve, BytesFirst, TypeInv, TypeOK
    <3>3. CASE Insert(q)
      BY <1>1, <1>3, <1>5, <3>3 DEF Insert, BytesFirst, TypeInv, TypeOK
    <3>4. QED
      BY <3>1, <3>2, <3>3 DEF UploadStep
  <2>2. RowStands(p)' /\ BytesStand(p)' /\ HasBytes(p)'
    BY <1>1, <1>3, <1>5 DEF RowStands, BytesStand, HasBytes, Moving, Deleting
  <2>3. QED
    BY <1>4, <2>1, <2>2
<1>6. CASE Insert(q) /\ q # p
  <2>1. /\ row'[p] = row[p] /\ upload'[p] = upload[p]
        /\ \A a \in Album : <<a, p>> \in shown' => <<a, p>> \in shown
    BY <1>6 DEF Insert, TypeInv, TypeOK
  <2>2. QED
    BY <1>1, <1>3, <1>4, <2>1 DEF BytesFirst, RowStands, BytesStand, HasBytes, Moving, Deleting
<1>7. CASE Insert(q) /\ q = p
  <2>1. /\ upload[p] = "resolved" /\ upload'[p] = "done" /\ UNCHANGED objects
        /\ row'[p] \in {row[p], Home[p]}
    BY <1>7 DEF Insert, TypeInv, TypeOK
  <2>2. /\ row[p] = NoAlbum /\ <<Home[p], p>> \in objects
        /\ \A m \in Move : p \notin move[m].photos
        /\ \A d \in Delete : p \notin delete[d].photos
    BY <1>3, <2>1 DEF BytesFirst
  <2>3. BytesFirst(p)' /\ RowStands(p)' /\ BytesStand(p)' /\ HasBytes(p)'
    BY <1>1, <2>1, <2>2 DEF BytesFirst, RowStands, BytesStand, HasBytes, Moving, Deleting
  <2>4. QED
    BY <1>4, <2>3
<1>8. UNCHANGED row \/ Insert(q)
  BY DEF UploadStep, Put, Resolve
<1>9. QED
  BY <1>5, <1>6, <1>7, <1>8

(* A delete takes the row first, and then bytes no row names: those of the  *)
(* album it was asked for, where the row is no more, if it ever was.        *)
LEMMA DeleteBytes ==
    ASSUME TypeInv, RequestShape, NEW p \in Photo, BytesInv(p), NEW d \in Delete, DeleteStep(d)
    PROVE  BytesInv(p)'
<1> SUFFICES ASSUME Straight(p)'
             PROVE  (BytesFirst(p) /\ OneHand(p) /\ RowStands(p) /\ BytesStand(p) /\ HasBytes(p))'
  BY DEF BytesInv
<1> USE DEF historyVars
<1>1. UNCHANGED <<move, upload, shown, missed, wiped>> /\ objects' \subseteq objects
  BY DEF DeleteStep, DeleteStart, DeleteRows, DeleteClearCover, DeleteObjects, DeleteLost
<1>2. Straight(p)
  <2>1. \A e \in Delete : delete[e].crossed \subseteq delete'[e].crossed
    <3>1. delete \in [Delete -> DeleteCall]
      BY DEF TypeInv, TypeOK
    <3>2. ASSUME NEW a \in Album, NEW S \in SUBSET Photo, NEW bulk \in BOOLEAN, DeleteStart(d, a, S, bulk)
          PROVE  \A e \in Delete : delete[e].crossed \subseteq delete'[e].crossed
      BY <3>1, <3>2 DEF DeleteStart, RequestShape
    <3>3. CASE \E s : delete' = [delete EXCEPT ![d].stage = s]
      BY <3>1, <3>3 DEF DeleteCall
    <3>4. QED
      BY <3>2, <3>3 DEF DeleteStep, DeleteRows, DeleteClearCover, DeleteObjects, DeleteLost
  <2>2. QED
    BY <1>1, <2>1 DEF Straight
<1>3. BytesFirst(p) /\ OneHand(p) /\ RowStands(p) /\ BytesStand(p) /\ HasBytes(p)
  BY <1>2 DEF BytesInv
<1>4. /\ delete \in [Delete -> DeleteCall] /\ delete[d] \in DeleteCall
      /\ move \in [Move -> MoveCall] /\ row \in [Photo -> Album \cup {NoAlbum}]
  BY DEF TypeInv, TypeOK
<1>5. ASSUME NEW a \in Album, NEW S \in SUBSET Photo, NEW bulk \in BOOLEAN, DeleteStart(d, a, S, bulk)
      PROVE  (BytesFirst(p) /\ OneHand(p) /\ RowStands(p) /\ BytesStand(p) /\ HasBytes(p))'
  <2>1. /\ delete' = [delete EXCEPT ![d] = [stage |-> "rows", bulk |-> bulk, album |-> a, photos |-> S,
                                            crossed |-> (S \cap CarriedTo(a)) \ RowsOf(a)]]
        /\ delete[d].stage = "idle" /\ S \subseteq Shown(a) \cup RowsOf(a)
        /\ UNCHANGED <<row, objects>>
    BY <1>5 DEF DeleteStart
  <2>2. BytesFirst(p)'
    <3>1. p \in S => upload[p] = "done"
      BY <1>3, <2>1, StorageAssumption DEF BytesFirst, Shown, RowsOf
    <3>2. QED
      BY <1>1, <1>3, <1>4, <2>1, <3>1 DEF BytesFirst
  <2>3. OneHand(p)'
    <3>1. p \notin (S \cap CarriedTo(a)) \ RowsOf(a)
      BY <1>4, <2>1 DEF Straight
    <3>2. ASSUME NEW m \in Move, Moving(m, p), move[m].stage \in {"head", "copy"}, p \in S
          PROVE  a # move[m].dst
      <4>1. p \in RowsOf(a) => a # move[m].dst
        BY <1>3, <3>2 DEF RowStands, RowsOf
      <4>2. a = move[m].dst => p \in CarriedTo(a)
        BY <3>2 DEF CarriedTo, Moving
      <4>3. QED
        BY <3>1, <3>2, <4>1, <4>2
    <3>3. QED
      BY <1>1, <1>3, <1>4, <2>1, <3>2 DEF OneHand, Moving, Deleting
  <2>4. RowStands(p)'
    BY <1>1, <1>3, <1>4, <2>1 DEF RowStands, Moving, Deleting
  <2>5. \A e \in Delete : p \in delete[e].photos => p \in delete'[e].photos
    BY <1>4, <2>1 DEF RequestShape
  <2>6. BytesStand(p)' /\ HasBytes(p)'
    BY <1>1, <1>3, <2>1, <2>5 DEF BytesStand, HasBytes, Moving
  <2>7. QED
    BY <2>2, <2>3, <2>4, <2>6
<1>6. ASSUME NEW s \in {"cover", "objects", "end"}, delete' = [delete EXCEPT ![d].stage = s],
             delete[d].stage \notin {"idle", "end"}
      PROVE  /\ OneHand(p)'
             /\ \A e \in Delete : delete'[e].photos = delete[e].photos /\ delete'[e].album = delete[e].album
             /\ \A e \in Delete \ {d} : delete'[e] = delete[e]
             /\ Deleting(d, p)' => Deleting(d, p)
             /\ delete'[d].stage = s
  <2>1. /\ \A e \in Delete : delete'[e].photos = delete[e].photos /\ delete'[e].album = delete[e].album
        /\ \A e \in Delete \ {d} : delete'[e] = delete[e]
        /\ delete'[d].stage = s
    BY <1>4, <1>6 DEF DeleteCall
  <2>2. \A e \in Delete : Deleting(e, p)' => Deleting(e, p)
    BY <1>6, <2>1 DEF Deleting
  <2>3. QED
    BY <1>1, <1>3, <2>1, <2>2 DEF OneHand, Moving
<1>7. CASE DeleteRows(d)
  <2>1. PICK s \in {"cover", "objects"} : delete' = [delete EXCEPT ![d].stage = s]
    BY <1>7 DEF DeleteRows
  <2>2. /\ delete[d].stage = "rows" /\ UNCHANGED objects
        /\ row'[p] \in {row[p], NoAlbum}
        /\ p \in delete[d].photos => row'[p] = NoAlbum \/ row'[p] # delete[d].album
    BY <1>4, <1>7, StorageAssumption DEF DeleteRows, DropRows, RowsOf
  <2>3. BytesFirst(p)' /\ OneHand(p)'
    BY <1>1, <1>3, <1>6, <2>1, <2>2 DEF BytesFirst
  <2>4. \A m \in Move : Moving(m, p) => move[m].src # NoAlbum /\ move[m].dst # NoAlbum
    BY StorageAssumption DEF TypeInv, Addressed, Moving
  <2>5. RowStands(p)'
    BY <1>1, <1>3, <1>4, <1>6, <2>1, <2>2, <2>4 DEF RowStands, Moving, Deleting
  <2>6. BytesStand(p)' /\ HasBytes(p)'
    BY <1>1, <1>3, <1>6, <2>1, <2>2, <2>4 DEF BytesStand, HasBytes, Moving
  <2>7. QED
    BY <2>3, <2>5, <2>6
<1>8. CASE DeleteClearCover(d)
  <2>1. delete' = [delete EXCEPT ![d].stage = "objects"] /\ delete[d].stage = "cover"
    BY <1>8 DEF DeleteClearCover
  <2>2. UNCHANGED <<row, objects>>
    BY <1>8 DEF DeleteClearCover
  <2>3. BytesFirst(p)' /\ OneHand(p)'
    BY <1>1, <1>3, <1>6, <2>1, <2>2 DEF BytesFirst
  <2>4. RowStands(p)'
    BY <1>1, <1>3, <1>4, <1>6, <2>1, <2>2 DEF RowStands, Moving, Deleting
  <2>5. BytesStand(p)' /\ HasBytes(p)'
    BY <1>1, <1>3, <1>6, <2>1, <2>2 DEF BytesStand, HasBytes, Moving
  <2>6. QED
    BY <2>3, <2>4, <2>5
<1>9. CASE DeleteObjects(d) \/ DeleteLost(d)
  <2>1. delete' = [delete EXCEPT ![d].stage = "end"] /\ delete[d].stage \notin {"idle", "end"}
    BY <1>9 DEF DeleteObjects, DeleteLost
  <2>2. /\ UNCHANGED row
        /\ \A a \in Album : <<a, p>> \in objects \ objects' =>
             Deleting(d, p) /\ delete[d].stage = "objects" /\ a = delete[d].album
    BY <1>9, <2>1 DEF DeleteObjects, DeleteLost, Deleting
  <2>3. BytesFirst(p)' /\ OneHand(p)'
    BY <1>1, <1>3, <1>6, <2>1, <2>2, StorageAssumption DEF BytesFirst, Deleting
  <2>4. RowStands(p)'
    BY <1>1, <1>3, <1>4, <1>6, <2>1, <2>2 DEF RowStands, Moving, Deleting
  <2>5. HasBytes(p)'
    BY <1>1, <1>3, <1>4, <1>6, <2>1, <2>2 DEF HasBytes, RowStands, Deleting
  <2>6. BytesStand(p)'
    <3>1. ASSUME NEW m \in Move, Moving(m, p), move[m].stage = "copy"
          PROVE  <<move[m].dst, p>> \in objects => <<move[m].dst, p>> \in objects'
      BY <1>3, <2>2, <3>1 DEF OneHand, RequestShape, Moving, TypeInv, Addressed
    <3>2. ASSUME NEW a \in Album, <<a, p>> \in objects, \A e \in Delete : p \notin delete[e].photos
          PROVE  <<a, p>> \in objects'
      BY <2>2, <3>2 DEF Deleting
    <3>3. \A m \in Move : Moving(m, p) => move[m].src \in Album /\ move[m].dst \in Album
      BY DEF TypeInv, Addressed, Moving
    <3>4. QED
      BY <1>1, <1>3, <1>6, <2>1, <2>2, <3>1, <3>2, <3>3 DEF BytesStand, Moving
  <2>7. QED
    BY <2>3, <2>4, <2>5, <2>6
<1>10. QED
  BY <1>5, <1>7, <1>8, <1>9 DEF DeleteStep

(* A move picks photos nobody else has in hand and that are not where it    *)
(* goes, or is exempt for them; it updates the row after its copies and     *)
(* deletes the original after that.                                         *)
LEMMA MoveBytes ==
    ASSUME TypeInv, RequestShape, NEW p \in Photo, BytesInv(p), NEW m \in Move, MoveStep(m)
    PROVE  BytesInv(p)'
<1> SUFFICES ASSUME Straight(p)'
             PROVE  (BytesFirst(p) /\ OneHand(p) /\ RowStands(p) /\ BytesStand(p) /\ HasBytes(p))'
  BY DEF BytesInv
<1> USE DEF historyVars
<1>1. /\ UNCHANGED <<delete, upload, wiped>>
      /\ missed \subseteq missed'
      /\ \A a \in Album : <<a, p>> \in shown' => <<a, p>> \in shown \/ p \in move[m].photos
  <2>1. CASE UNCHANGED shown
    BY <2>1 DEF MoveStep, MoveStart, MoveHead, MoveCopy, MoveCopyFails, MoveUndo, MoveUpdate, MoveClearCover,
                MoveSweep, MoveEnd, MoveCrash
  <2>2. CASE MoveUpdate(m)
    BY <2>2 DEF MoveUpdate
  <2>3. UNCHANGED shown \/ MoveUpdate(m)
    BY DEF MoveStep, MoveStart, MoveHead, MoveCopy, MoveCopyFails, MoveUndo, MoveClearCover,
           MoveSweep, MoveEnd, MoveCrash
  <2>4. QED
    BY <2>1, <2>2, <2>3
<1>2. /\ move \in [Move -> MoveCall] /\ move[m] \in MoveCall
      /\ row \in [Photo -> Album \cup {NoAlbum}] /\ objects \subseteq Album \X Photo
      /\ move[m].stage # "idle" => move[m].src \in Album /\ move[m].dst \in Album
  BY DEF TypeInv, TypeOK, Addressed
<1>3. ASSUME NEW s, NEW T, To(m, s, T)
      PROVE  /\ \A n \in Move : /\ move'[n].photos = move[n].photos /\ move'[n].crossed = move[n].crossed
                                /\ move'[n].src = move[n].src /\ move'[n].dst = move[n].dst
                                /\ move'[n].copied = move[n].copied
             /\ \A n \in Move \ {m} : move'[n] = move[n]
             /\ move'[m].stage = s /\ move'[m].todo = T
  BY <1>2, <1>3 DEF To, MoveCall
<1>4. Straight(p)
  <2>1. \A n \in Move : move[n].crossed \subseteq move'[n].crossed
    <3>1. ASSUME NEW a \in Album, NEW b \in Album, NEW S \in SUBSET Photo, MoveStart(m, a, b, S)
          PROVE  \A n \in Move : move[n].crossed \subseteq move'[n].crossed
      BY <1>2, <3>1 DEF MoveStart, RequestShape
    <3>2. CASE MoveCopy(m)
      BY <1>2, <3>2 DEF MoveCopy, To, MoveCall
    <3>3. CASE \E s, T : To(m, s, T)
      BY <1>3, <3>3
    <3>4. QED
      BY <3>1, <3>2, <3>3 DEF MoveStep, MoveHead, MoveCopyFails, MoveUndo, MoveUpdate, MoveClearCover,
                              MoveSweep, MoveEnd, MoveCrash
  <2>2. QED
    BY <1>1, <2>1 DEF Straight
<1>5. BytesFirst(p) /\ OneHand(p) /\ RowStands(p) /\ BytesStand(p) /\ HasBytes(p)
  BY <1>4 DEF BytesInv
<1>6. ASSUME NEW a \in Album, NEW b \in Album, NEW S \in SUBSET Photo, MoveStart(m, a, b, S)
      PROVE  (BytesFirst(p) /\ OneHand(p) /\ RowStands(p) /\ BytesStand(p) /\ HasBytes(p))'
  <2>1. /\ UNCHANGED <<row, objects, missed>> /\ move[m].stage = "idle"
        /\ \A n \in Move \ {m} : move'[n] = move[n]
        /\ move'[m].stage = "head" /\ move'[m].dst = b /\ move'[m].photos = S
        /\ move'[m].copied = {} /\ move'[m].crossed = S \cap Crossed(b)
        /\ p \in S => <<a, p>> \in shown
    BY <1>2, <1>6 DEF MoveStart, NoMove, MoveCall, Shown
  <2>2. p \in S => /\ \A n \in Move : ~Moving(n, p)
                   /\ \A d \in Delete : Deleting(d, p) => delete[d].album # b
                   /\ row[p] # b
    <3>1. p \in S => p \notin Crossed(b)
      BY <2>1 DEF Straight
    <3>2. ASSUME NEW n \in Move, Moving(n, p)
          PROVE  p \in Crossed(b)
      BY <3>2 DEF Crossed, Moving
    <3>3. ASSUME NEW d \in Delete, Deleting(d, p), delete[d].album = b
          PROVE  p \in Crossed(b)
      BY <3>3 DEF Crossed, Deleting
    <3>4. row[p] = b => p \in Crossed(b)
      BY DEF Crossed
    <3>5. QED
      BY <3>1, <3>2, <3>3, <3>4
  <2>3. BytesFirst(p)'
    BY <1>1, <1>5, <2>1 DEF BytesFirst, RequestShape
  <2>4. OneHand(p)'
    BY <1>1, <1>5, <2>1, <2>2 DEF OneHand, Moving, Deleting
  <2>5. RowStands(p)'
    BY <1>1, <1>5, <2>1, <2>2 DEF RowStands, Moving, Deleting
  <2>6. BytesStand(p)' /\ HasBytes(p)'
    BY <1>1, <1>5, <2>1 DEF BytesStand, HasBytes, Moving
  <2>7. QED
    BY <2>3, <2>4, <2>5, <2>6
<1>7. CASE MoveHead(m)
  <2>1. PICK T \in SUBSET move[m].photos :
            LET found == {q \in move[m].photos : <<move[m].src, q>> \in objects} \ T IN
            /\ To(m, "copy", found)
            /\ missed' = missed \cup ((move[m].photos \cap RowsOf(move[m].src)) \ found)
    BY <1>7 DEF MoveHead
  <2>2. UNCHANGED <<row, objects>> /\ move[m].stage = "head"
    BY <1>7 DEF MoveHead
  <2> DEFINE found == {q \in move[m].photos : <<move[m].src, q>> \in objects} \ T
  <2>3. /\ To(m, "copy", found)
        /\ missed' = missed \cup ((move[m].photos \cap RowsOf(move[m].src)) \ found)
    BY <2>1
  <2>4. p \in move[m].photos /\ row[p] = move[m].src => p \in missed' \/ p \in move'[m].todo
    BY <1>3, <2>3 DEF RowsOf
  <2>5. move[m].copied = {}
    BY <2>2 DEF RequestShape
  <2>6. BytesFirst(p)' /\ OneHand(p)'
    BY <1>1, <1>3, <1>5, <2>2, <2>3 DEF BytesFirst, OneHand, Moving, Deleting
  <2>7. RowStands(p)'
    BY <1>1, <1>3, <1>5, <2>2, <2>3 DEF RowStands, Moving, Deleting
  <2>8. BytesStand(p)'
    BY <1>1, <1>3, <1>5, <2>2, <2>3, <2>4, <2>5 DEF BytesStand, Moving
  <2>9. HasBytes(p)'
    BY <1>1, <1>5, <2>2 DEF HasBytes
  <2>10. QED
    BY <2>6, <2>7, <2>8, <2>9
<1>8. CASE MoveCopy(m)
  <2>1. PICK q \in move[m].todo :
          \/ /\ <<move[m].src, q>> \in objects
             /\ objects' = objects \cup {<<move[m].dst, q>>}
             /\ move' = [move EXCEPT ![m].todo = @ \ {q}, ![m].copied = @ \cup {q}]
          \/ /\ <<move[m].src, q>> \notin objects
             /\ To(m, "copy", move[m].todo \ {q})
             /\ UNCHANGED objects
    BY <1>8 DEF MoveCopy
  <2>2. UNCHANGED <<row, missed>> /\ objects \subseteq objects' /\ move[m].stage = "copy"
    BY <1>8, <2>1 DEF MoveCopy
  <2>3. /\ \A n \in Move : /\ move'[n].photos = move[n].photos /\ move'[n].stage = move[n].stage
                           /\ move'[n].src = move[n].src /\ move'[n].dst = move[n].dst
        /\ \A n \in Move \ {m} : move'[n] = move[n]
    BY <1>2, <1>3, <2>1, <2>2 DEF MoveCall
  <2>4. /\ move'[m].todo \cup {q} = move[m].todo
        /\ move'[m].copied \in {move[m].copied, move[m].copied \cup {q}}
        /\ q \in move'[m].copied \ move[m].copied =>
             <<move[m].src, q>> \in objects /\ <<move[m].dst, q>> \in objects'
        /\ q \notin move'[m].copied => <<move[m].src, q>> \notin objects
    BY <1>2, <1>3, <2>1 DEF MoveCall
  <2>5. BytesFirst(p)' /\ OneHand(p)'
    BY <1>1, <1>5, <2>2, <2>3 DEF BytesFirst, OneHand, Moving, Deleting
  <2>6. RowStands(p)' /\ HasBytes(p)'
    BY <1>1, <1>5, <2>2, <2>3 DEF RowStands, HasBytes, Moving, Deleting
  <2>7. (Moving(m, p) /\ row[p] = move[m].src /\ p \notin missed) => p \in move'[m].todo \cup move'[m].copied
    <3>1. SUFFICES ASSUME Moving(m, p), row[p] = move[m].src, p \notin missed
                   PROVE  p \in move'[m].todo \cup move'[m].copied
      OBVIOUS
    <3>2. <<move[m].src, p>> \in objects
      BY <1>2, <1>5, <2>2, <3>1, StorageAssumption DEF HasBytes
    <3>3. p \in move[m].todo \cup move[m].copied
      BY <1>5, <2>2, <3>1 DEF BytesStand
    <3>4. QED
      BY <2>4, <3>2, <3>3
  <2>8. BytesStand(p)'
    BY <1>1, <1>5, <2>2, <2>3, <2>4, <2>7 DEF BytesStand, Moving
  <2>9. QED
    BY <2>5, <2>6, <2>8
<1>9. CASE MoveCopyFails(m)
  <2>1. /\ To(m, "undo", move[m].copied) /\ move[m].stage = "copy"
        /\ UNCHANGED <<row, objects, missed>>
    BY <1>9 DEF MoveCopyFails
  <2>2. BytesFirst(p)' /\ OneHand(p)'
    BY <1>1, <1>3, <1>5, <2>1 DEF BytesFirst, OneHand, Moving, Deleting
  <2>3. RowStands(p)' /\ HasBytes(p)'
    BY <1>1, <1>3, <1>5, <2>1 DEF RowStands, HasBytes, Moving, Deleting
  <2>4. BytesStand(p)'
    BY <1>1, <1>3, <1>5, <2>1 DEF BytesStand, Moving
  <2>5. QED
    BY <2>2, <2>3, <2>4
<1>10. CASE MoveUndo(m)
  <2>1. PICK q \in move[m].todo :
          objects' = objects \ {<<move[m].dst, q>>} /\ To(m, "undo", move[m].todo \ {q})
    BY <1>10 DEF MoveUndo
  <2>2. move[m].stage = "undo" /\ UNCHANGED <<row, missed>> /\ q \in move[m].copied /\ q \in move[m].photos
    BY <1>10, <2>1 DEF MoveUndo, RequestShape
  <2>3. BytesFirst(p)'
    BY <1>1, <1>3, <1>5, <2>1, <2>2 DEF BytesFirst
  <2>4. OneHand(p)'
    BY <1>1, <1>3, <1>5, <2>1, <2>2 DEF OneHand, Moving, Deleting
  <2>5. RowStands(p)'
    BY <1>1, <1>3, <1>5, <2>1, <2>2 DEF RowStands, Moving, Deleting
  <2>6. q = p => \A n \in Move : Moving(n, p) => n = m
    BY <1>5, <2>2 DEF OneHand, Moving
  <2>7. BytesStand(p)'
    <3>1. \A n \in Move : <<move[n].src, p>> \in objects /\ Moving(n, p) => <<move[n].src, p>> \in objects'
      BY <2>1, <2>2, <2>6 DEF RequestShape, Moving
    <3>2. \A n \in Move \ {m} : Moving(n, p) /\ <<move[n].dst, p>> \in objects => <<move[n].dst, p>> \in objects'
      BY <2>1, <2>6
    <3>3. QED
      BY <1>1, <1>3, <1>5, <2>1, <2>2, <3>1, <3>2 DEF BytesStand, Moving
  <2>8. HasBytes(p)'
    <3>1. CASE q # p
      BY <1>1, <1>5, <2>1, <2>2, <3>1 DEF HasBytes
    <3>2. CASE q = p
      <4>1. row[p] # move[m].dst /\ move[m].src # move[m].dst
        BY <1>5, <2>2, <3>2 DEF RowStands, Moving, RequestShape
      <4>2. (\A d \in Delete : p \notin delete[d].photos) => <<move[m].src, p>> \in objects'
        BY <1>5, <2>1, <2>2, <3>2, <4>1 DEF BytesStand, Moving
      <4>3. <<row[p], p>> \in objects /\ row[p] # NoAlbum => <<row[p], p>> \in objects'
        BY <2>1, <4>1
      <4>4. QED
        BY <1>1, <1>2, <1>5, <2>2, <4>2, <4>3 DEF HasBytes
    <3>3. QED
      BY <3>1, <3>2
  <2>9. QED
    BY <2>3, <2>4, <2>5, <2>7, <2>8
<1>11. CASE MoveUpdate(m)
  <2>1. /\ move[m].stage = "copy" /\ move[m].todo = {} /\ UNCHANGED <<objects, missed>>
        /\ \E s \in {"cover", "end"} : To(m, s, {})
        /\ move'[m].stage = "cover" \/ UNCHANGED row
    BY <1>3, <1>11 DEF MoveUpdate
  <2>2. /\ move'[m].stage \in {"cover", "end"}
        /\ \A n \in Move : /\ move'[n].photos = move[n].photos /\ move'[n].src = move[n].src
                           /\ move'[n].dst = move[n].dst /\ move'[n].copied = move[n].copied
                           /\ Moving(n, p)' => Moving(n, p)
        /\ \A n \in Move \ {m} : move'[n] = move[n]
    BY <1>3, <2>1 DEF Moving
  <2>3. IF p \in move[m].photos /\ row[p] = move[m].src /\ move'[m].stage = "cover"
        THEN row'[p] = move[m].dst ELSE row'[p] = row[p]
    BY <1>2, <1>3, <1>11, <2>1 DEF MoveUpdate, RowsOf
  <2>4. move[m].src # move[m].dst /\ move[m].src \in Album /\ move[m].dst \in Album
    BY <1>2, <2>1 DEF RequestShape
  <2>5. BytesFirst(p)' /\ OneHand(p)'
    BY <1>1, <1>5, <2>1, <2>2, <2>3 DEF BytesFirst, OneHand, Moving, Deleting
  <2>6. CASE row'[p] = row[p] /\ ~(p \in move[m].photos /\ row[p] = move[m].src /\ move'[m].stage = "cover")
    <3>1. RowStands(p)' /\ HasBytes(p)'
      BY <1>1, <1>5, <2>1, <2>2, <2>4, <2>6, StorageAssumption DEF RowStands, HasBytes, Moving, Deleting
    <3>2. BytesStand(p)'
      BY <1>1, <1>5, <2>1, <2>2, <2>6 DEF BytesStand, Moving
    <3>3. QED
      BY <2>5, <3>1, <3>2
  <2>7. CASE /\ p \in move[m].photos /\ row[p] = move[m].src /\ move'[m].stage = "cover"
             /\ row'[p] = move[m].dst
    <3>1. Moving(m, p) /\ row[p] # NoAlbum
      BY <2>1, <2>4, <2>7, StorageAssumption DEF Moving
    <3>2. \A n \in Move : Moving(n, p) => n = m
      BY <1>5, <3>1 DEF OneHand
    <3>3. \A d \in Delete : Deleting(d, p) => delete[d].album # move[m].dst
      BY <1>5, <2>1, <3>1 DEF OneHand
    <3>4. RowStands(p)'
      BY <1>1, <2>2, <2>4, <2>7, <3>2, <3>3 DEF RowStands, Deleting
    <3>5. BytesStand(p)'
      BY <1>1, <1>5, <2>1, <2>2, <2>7, <3>1, <3>2 DEF BytesStand, Moving
    <3>6. p \notin missed => <<move[m].dst, p>> \in objects
      BY <1>5, <2>1, <2>7, <3>1 DEF BytesStand
    <3>7. HasBytes(p)'
      BY <1>1, <1>2, <1>5, <2>1, <2>4, <2>7, <3>1, <3>6 DEF HasBytes
    <3>8. QED
      BY <2>5, <3>4, <3>5, <3>7
  <2>8. QED
    BY <2>3, <2>6, <2>7
<1>12. CASE MoveClearCover(m)
  <2>1. /\ To(m, "sweep", move[m].copied) /\ move[m].stage = "cover"
        /\ UNCHANGED <<row, objects, missed>>
    BY <1>12 DEF MoveClearCover
  <2>2. BytesFirst(p)' /\ OneHand(p)'
    BY <1>1, <1>3, <1>5, <2>1 DEF BytesFirst, OneHand, Moving, Deleting
  <2>3. RowStands(p)' /\ HasBytes(p)'
    BY <1>1, <1>3, <1>5, <2>1 DEF RowStands, HasBytes, Moving, Deleting
  <2>4. BytesStand(p)'
    BY <1>1, <1>3, <1>5, <2>1 DEF BytesStand, Moving
  <2>5. QED
    BY <2>2, <2>3, <2>4
<1>13. CASE MoveSweep(m)
  <2>1. PICK q \in move[m].todo :
          objects' \in {objects, objects \ {<<move[m].src, q>>}} /\ To(m, "sweep", move[m].todo \ {q})
    BY <1>13 DEF MoveSweep
  <2>2. /\ move[m].stage = "sweep" /\ UNCHANGED <<row, missed>>
        /\ q \in move[m].copied /\ q \in move[m].photos
    BY <1>13, <2>1 DEF MoveSweep, RequestShape
  <2>3. BytesFirst(p)' /\ OneHand(p)'
    BY <1>1, <1>3, <1>5, <2>1, <2>2 DEF BytesFirst, OneHand, Moving, Deleting
  <2>4. RowStands(p)'
    BY <1>1, <1>3, <1>5, <2>1, <2>2 DEF RowStands, Moving, Deleting
  <2>5. q = p => \A n \in Move : Moving(n, p) => n = m
    BY <1>5, <2>2 DEF OneHand, Moving
  <2>6. move[m].src # move[m].dst /\ move[m].dst \in Album
    BY <1>2, <2>2 DEF RequestShape
  <2>7. BytesStand(p)'
    <3>1. \A n \in Move : <<move[n].dst, p>> \in objects /\ Moving(n, p) => <<move[n].dst, p>> \in objects'
      BY <2>1, <2>5, <2>6
    <3>2. \A n \in Move \ {m} : Moving(n, p) /\ <<move[n].src, p>> \in objects => <<move[n].src, p>> \in objects'
      BY <2>1, <2>5
    <3>3. QED
      BY <1>1, <1>3, <1>5, <2>1, <2>2, <3>1, <3>2 DEF BytesStand, Moving
  <2>8. HasBytes(p)'
    <3>1. CASE q # p
      BY <1>1, <1>5, <2>1, <2>2, <3>1 DEF HasBytes
    <3>2. CASE q = p
      <4>1. row[p] # move[m].src
        BY <1>5, <2>2, <3>2 DEF RowStands, Moving
      <4>2. (\A d \in Delete : p \notin delete[d].photos) => <<move[m].dst, p>> \in objects'
        BY <1>5, <2>1, <2>2, <2>6, <3>2 DEF BytesStand, Moving
      <4>3. <<row[p], p>> \in objects => <<row[p], p>> \in objects'
        BY <2>1, <4>1
      <4>4. QED
        BY <1>1, <1>5, <2>2, <2>6, <4>2, <4>3 DEF HasBytes
    <3>3. QED
      BY <3>1, <3>2
  <2>9. QED
    BY <2>3, <2>4, <2>7, <2>8
<1>14. CASE MoveEnd(m) \/ MoveCrash(m)
  <2>1. To(m, "end", {}) /\ UNCHANGED <<row, objects, missed>>
    BY <1>14 DEF MoveEnd, MoveCrash
  <2>2. \A n \in Move : Moving(n, p)' => Moving(n, p) /\ move'[n] = move[n]
    BY <1>3, <2>1 DEF Moving
  <2>3. BytesFirst(p)' /\ OneHand(p)'
    BY <1>1, <1>3, <1>5, <2>1, <2>2 DEF BytesFirst, OneHand, Deleting
  <2>4. RowStands(p)' /\ HasBytes(p)'
    BY <1>1, <1>5, <2>1, <2>2 DEF RowStands, HasBytes, Deleting
  <2>5. BytesStand(p)'
    BY <1>1, <1>5, <2>1, <2>2 DEF BytesStand
  <2>6. QED
    BY <2>3, <2>4, <2>5
<1>15. QED
  BY <1>6, <1>7, <1>8, <1>9, <1>10, <1>11, <1>12, <1>13, <1>14 DEF MoveStep

(* A wipe takes the bytes of photos it answers for, and rows.               *)
LEMMA WipeBytes ==
    ASSUME TypeInv, NEW p \in Photo, BytesInv(p), NEW k \in Wiper, WipeStep(k)
    PROVE  BytesInv(p)'
<1> SUFFICES ASSUME Straight(p)'
             PROVE  (BytesFirst(p) /\ OneHand(p) /\ RowStands(p) /\ BytesStand(p) /\ HasBytes(p))'
  BY DEF BytesInv
<1> USE DEF historyVars
<1>1. UNCHANGED <<move, delete, upload, shown, missed>> /\ wiped \subseteq wiped'
  BY DEF WipeStep, WipeList, WipeObjects, WipeObjectsFails, WipeRows, WipeAlbum, WipeCrash
<1>2. Straight(p)
  BY <1>1 DEF Straight
<1>3. BytesFirst(p) /\ OneHand(p) /\ RowStands(p) /\ BytesStand(p) /\ HasBytes(p)
  BY <1>2 DEF BytesInv
<1>4. row'[p] \in {row[p], NoAlbum}
  BY DEF WipeStep, WipeList, WipeObjects, WipeObjectsFails, WipeRows, WipeAlbum, WipeCrash,
         DropRows, RowsOf, TypeInv, TypeOK
<1>5. \A a \in Album : <<a, p>> \in objects => <<a, p>> \in objects'
  <2>1. CASE WipeObjects(k)
    BY <2>1 DEF WipeObjects, Straight
  <2>2. CASE WipeObjectsFails(k)
    BY <2>2 DEF WipeObjectsFails, Straight
  <2>3. CASE UNCHANGED objects
    BY <2>3
  <2>4. QED
    BY <2>1, <2>2, <2>3 DEF WipeStep, WipeList, WipeRows, WipeAlbum, WipeCrash
<1>6. /\ Home[p] \in Album
      /\ \A m \in Move : Moving(m, p) => move[m].src \in Album \ {NoAlbum} /\ move[m].dst \in Album \ {NoAlbum}
      /\ row[p] \in Album \cup {NoAlbum}
  BY StorageAssumption DEF TypeInv, TypeOK, Addressed, Moving, Deleting
<1>7. BytesFirst(p)' /\ OneHand(p)'
  BY <1>1, <1>3, <1>4, <1>5, <1>6 DEF BytesFirst, OneHand, Moving, Deleting
<1>8. RowStands(p)'
  BY <1>1, <1>3, <1>4, <1>6 DEF RowStands, Moving, Deleting
<1>9. BytesStand(p)' /\ HasBytes(p)'
  BY <1>1, <1>3, <1>4, <1>5, <1>6 DEF BytesStand, HasBytes, Moving
<1>10. QED
  BY <1>7, <1>8, <1>9

LEMMA BytesStep ==
    ASSUME TypeInv, RequestShape, NEW p \in Photo, BytesInv(p), [Next]_vars
    PROVE  BytesInv(p)'
<1>1. CASE UNCHANGED <<row, objects, upload, move, delete, shown, missed, wiped>>
  BY <1>1 DEF BytesInv, Straight, BytesFirst, OneHand, RowStands, BytesStand, HasBytes, Moving, Deleting
<1>2. ASSUME NEW a \in Album, NEW q \in Photo, SetCover(a, q)
      PROVE  UNCHANGED <<row, objects, upload, move, delete, shown, missed, wiped>>
  BY <1>2 DEF SetCover, historyVars
<1>3. CASE UNCHANGED vars
  BY <1>1, <1>3 DEF vars
<1>4. QED
  BY <1>1, <1>2, <1>3, UploadBytes, MoveBytes, DeleteBytes, WipeBytes DEF Next

(* Whatever uploads, moves, deletes and wipes overlap, from pages however   *)
(* old, a photo's row names an album its bytes are in, but for photos a     *)
(* move or delete crossed another request for (CarriedTo, Crossed), and for *)
(* those whose bytes a move did not see.                                    *)
THEOREM RowsKeepTheirBytes == Spec => []RowHasBytes
<1> DEFINE Inv == TypeInv /\ RequestShape /\ \A p \in Photo : BytesInv(p)
<1>1. Init => Inv
  BY InitType, InitShape, InitBytes
<1>2. Inv /\ [Next]_vars => Inv'
  BY StepType, RequestShapeStep, BytesStep
<1>3. Inv => RowHasBytes
  BY DEF BytesInv, Straight, HasBytes, RowHasBytes
<1>4. QED
  BY <1>1, <1>2, <1>3, PTL DEF Spec
=============================================================================
