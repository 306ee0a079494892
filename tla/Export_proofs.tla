---------------------------- MODULE Export_proofs -----------------------------
(***************************************************************************)
(* Theorems about Export, for any number of requests, photos, edits and     *)
(* faults and any high water mark, and about ExportDialog, for any album,   *)
(* limits and number of turns.                                              *)
(***************************************************************************)
EXTENDS Export, ExportDialog, SequenceTheorems, FiniteSetTheorems, TLAPS

-----------------------------------------------------------------------------
(* Sequences and their elements.                                            *)

Elems(s) == {s[i] : i \in 1..Len(s)}

LEMMA ElemsAppend ==
    ASSUME NEW S, NEW s \in Seq(S), NEW x \in S
    PROVE  Append(s, x) \in Seq(S) /\ Elems(Append(s, x)) = Elems(s) \cup {x}
<1>1. /\ Append(s, x) \in Seq(S) /\ Len(Append(s, x)) = Len(s) + 1
      /\ \A i \in 1..Len(s) : Append(s, x)[i] = s[i]
      /\ Append(s, x)[Len(s) + 1] = x /\ Len(s) \in Nat
  OBVIOUS
<1>2. QED
  BY <1>1 DEF Elems

LEMMA ElemsTail ==
    ASSUME NEW S, NEW s \in Seq(S), s # <<>>
    PROVE  Tail(s) \in Seq(S) /\ s[1] \in S /\ Elems(s) = {s[1]} \cup Elems(Tail(s))
<1>1. /\ Tail(s) \in Seq(S) /\ Len(Tail(s)) = Len(s) - 1 /\ Len(s) \in Nat \ {0}
      /\ \A i \in 1..Len(Tail(s)) : Tail(s)[i] = s[i + 1]
  BY HeadTailProperties, EmptySeq
<1>2. s[1] \in S
  BY <1>1, ElementOfSeq
<1>3. \A i \in 1..Len(s) : i = 1 \/ (i - 1 \in 1..Len(Tail(s)) /\ Tail(s)[i - 1] = s[i])
  BY <1>1
<1>4. Elems(s) \subseteq {s[1]} \cup Elems(Tail(s))
  BY <1>3 DEF Elems
<1>5. Elems(Tail(s)) \subseteq Elems(s) /\ s[1] \in Elems(s)
  BY <1>1 DEF Elems
<1>6. QED
  BY <1>1, <1>2, <1>4, <1>5

LEMMA ElemsEmpty == Elems(<<>>) = {}
BY DEF Elems

(* What SetToSeq lists is the set, when the set is finite.                  *)
LEMMA ElemsSetToSeq ==
    ASSUME NEW S, IsFiniteSet(S)
    PROVE  SetToSeq(S) \in Seq(S) /\ Elems(SetToSeq(S)) = S
<1> DEFINE n == Cardinality(S)
<1>1. n \in Nat /\ ExistsBijection(1..n, S)
  BY FS_CardinalityType
<1>2. \E f \in [1..n -> S] : IsInjective(f)
  BY <1>1 DEF ExistsBijection, Bijection, Injection, IsInjective
<1>3. SetToSeq(S) \in [1..n -> S] /\ IsInjective(SetToSeq(S))
  BY <1>2 DEF SetToSeq
<1>4. PICK f \in [1..n -> S] : f = SetToSeq(S) /\ IsInjective(f)
  BY <1>3
<1>5. f \in Injection(1..n, S)
  BY <1>4 DEF Injection, IsInjective
<1>6. IsFiniteSet(1..n) /\ Cardinality(1..n) = n
  BY <1>1, FS_Interval
<1>7. f \in Surjection(1..n, S)
  BY <1>1, <1>5, <1>6, FS_Injection
<1>8. f \in Seq(S) /\ Len(f) = n
  BY <1>1, <1>4
<1>9. QED
  BY <1>4, <1>7, <1>8 DEF Surjection, Elems

-----------------------------------------------------------------------------
(* The invariant.                                                           *)

StreamType == [buf : Nat, ready : BOOLEAN, state : {"open", "ended", "finished", "gone"}]

(* What stands for a chunk does not matter to either property: A is any set *)
(* that holds the chunks seen so far.                                       *)
RequestType(A) ==
    [pc : {"idle", "head", "build", "redirect", "served", "failed"},
     sig : SUBSET A, day : Day, floor : SUBSET A, fetch : Seq(Photo), opened : Seq(A),
     zip : SUBSET A, side : [Side -> StreamType]]

RequestsTyped(A) == rq \in [Request -> RequestType(A)]

(* What the key was signed for is packed, opened or still to be fetched; a  *)
(* stream ends when there is nothing left of the last two; and what was     *)
(* asked for is what the key was signed for, and what is served.            *)
Whole(q) == PhotosIn(q.sig) = Elems(q.fetch) \cup PhotosIn(Elems(q.opened)) \cup PhotosIn(q.zip)
Complete(q) ==
    \A s \in Side : q.side[s].state \in {"ended", "finished"} => q.fetch = <<>> /\ q.opened = <<>>
Answers(q) ==
    /\ PhotosIn(q.floor) = PhotosIn(q.sig)
    /\ q.pc = "served" => PhotosIn(q.zip) = PhotosIn(q.sig)
Untouched(q) == q.pc = "idle" => q = IdleRequest

(* A stream that takes a write has room for it, and one that does not has   *)
(* something to drain.                                                      *)
Flows(d) ==
    /\ d.buf <= HighWater
    /\ d.state = "open" /\ d.ready => d.buf < HighWater
    /\ ~d.ready => (d.state = "open" /\ d.buf > 0) \/ d.state = "gone"

Good(q) == Whole(q) /\ Complete(q) /\ Answers(q) /\ Untouched(q) /\ \A s \in Side : Flows(q.side[s])

ExportInv ==
    /\ \E A : RequestsTyped(A)
    /\ today \in Day
    /\ \A r \in Request : Good(rq[r])
    /\ CachedZipIsWhole

LEMMA ChunksGrow ==
    ASSUME NEW A, NEW B, A \subseteq B
    PROVE  RequestType(A) \subseteq RequestType(B)
<1>1. Seq(A) \subseteq Seq(B)
  BY SeqMonotonic, ElementOfSeq
<1>2. QED
  BY <1>1 DEF RequestType

(* One stream takes a write, or has one chunk read.                         *)
LEMMA WriteFlows ==
    ASSUME NEW d \in StreamType, Flows(d), d.ready, d.state \in {"open", "gone"}
    PROVE  /\ WriteEntry(d) \in StreamType /\ Flows(WriteEntry(d))
           /\ WriteEntry(d).state = d.state
<1>1. d.buf \in Nat /\ d.buf + 1 \in Nat /\ HighWater \in Nat \ {0}
  BY ExportAssumption DEF StreamType
<1>2. CASE d.state = "open" /\ d.buf + 1 < HighWater
  <2>1. WriteEntry(d) = [d EXCEPT !.buf = d.buf + 1, !.ready = TRUE]
    BY <1>2 DEF WriteEntry
  <2>2. /\ WriteEntry(d) \in StreamType /\ WriteEntry(d).buf = d.buf + 1
        /\ WriteEntry(d).ready = TRUE /\ WriteEntry(d).state = d.state
    BY <1>1, <2>1 DEF StreamType
  <2>3. QED
    BY <1>1, <1>2, <2>2 DEF Flows
<1>3. CASE d.state = "open" /\ ~(d.buf + 1 < HighWater)
  <2>1. (d.buf + 1 < HighWater) = FALSE
    BY <1>3
  <2>2. WriteEntry(d) = [d EXCEPT !.buf = d.buf + 1, !.ready = d.buf + 1 < HighWater]
    BY <1>3 DEF WriteEntry
  <2>3. WriteEntry(d) = [d EXCEPT !.buf = d.buf + 1, !.ready = FALSE]
    BY <2>1, <2>2, Zenon
  <2>4. /\ WriteEntry(d) \in StreamType /\ WriteEntry(d).buf = d.buf + 1
        /\ WriteEntry(d).ready = FALSE /\ WriteEntry(d).state = d.state
    BY <1>1, <2>3 DEF StreamType
  <2>5. d.buf < HighWater
    BY <1>3 DEF Flows
  <2>6. QED
    BY <1>1, <1>3, <2>4, <2>5 DEF Flows
<1>4. CASE d.state # "open"
  <2>1. WriteEntry(d) = [d EXCEPT !.ready = FALSE]
    BY <1>4 DEF WriteEntry
  <2>2. QED
    BY <1>4, <2>1 DEF StreamType, Flows
<1>5. QED
  BY <1>2, <1>3, <1>4

LEMMA ReadFlows ==
    ASSUME NEW d \in StreamType, Flows(d), d.buf > 0,
           NEW e, e = [d EXCEPT !.buf = d.buf - 1, !.ready = d.ready \/ d.buf = 1]
    PROVE  e \in StreamType /\ Flows(e) /\ e.state = d.state
<1>1. d.buf \in Nat /\ d.buf - 1 \in Nat /\ HighWater \in Nat \ {0}
  BY ExportAssumption DEF StreamType
<1>2. CASE d.ready \/ d.buf = 1
  <2>1. (d.ready \/ d.buf = 1) = TRUE
    BY <1>2
  <2>2. e = [d EXCEPT !.buf = d.buf - 1, !.ready = TRUE]
    BY <2>1, Zenon
  <2>3. e \in StreamType /\ e.buf = d.buf - 1 /\ e.ready = TRUE /\ e.state = d.state
    BY <1>1, <2>2 DEF StreamType
  <2>4. d.state = "open" => d.buf - 1 < HighWater
    BY <1>1, <1>2 DEF Flows
  <2>5. QED
    BY <1>1, <2>3, <2>4 DEF Flows
<1>3. CASE ~(d.ready \/ d.buf = 1)
  <2>1. (d.ready \/ d.buf = 1) = FALSE
    BY <1>3
  <2>2. e = [d EXCEPT !.buf = d.buf - 1, !.ready = FALSE]
    BY <2>1, Zenon
  <2>3. e \in StreamType /\ e.buf = d.buf - 1 /\ e.ready = FALSE /\ e.state = d.state
    BY <1>1, <2>2 DEF StreamType
  <2>4. QED
    BY <1>1, <1>3, <2>3 DEF Flows
<1>4. QED
  BY <1>2, <1>3

LEMMA IdleIsGood == (\A A : IdleRequest \in RequestType(A)) /\ Good(IdleRequest)
<1>1. FreshSide \in StreamType
  BY DEF FreshSide, StreamType
<1>2. 0 \in Day /\ HighWater \in Nat \ {0}
  BY ExportAssumption DEF Day
<1>3. \A A : IdleRequest \in RequestType(A)
  BY <1>1, <1>2, EmptySeq DEF IdleRequest, RequestType
<1>4. Whole(IdleRequest)
  BY ElemsEmpty DEF IdleRequest, Whole, PhotosIn
<1>5. Complete(IdleRequest) /\ Answers(IdleRequest) /\ Untouched(IdleRequest)
  BY DEF IdleRequest, Complete, Answers, Untouched
<1>6. \A s \in Side : Flows(IdleRequest.side[s])
  BY <1>2 DEF IdleRequest, Flows, FreshSide
<1>7. QED
  BY <1>3, <1>4, <1>5, <1>6 DEF Good

LEMMA ExportBegins == ExportInit => ExportInv
<1> SUFFICES ASSUME ExportInit
             PROVE  ExportInv
  OBVIOUS
<1>1. rq = [r \in Request |-> IdleRequest] /\ cache = {} /\ today = 0
  BY DEF ExportInit
<1>2. RequestsTyped({})
  BY <1>1, IdleIsGood DEF RequestsTyped
<1>3. \A r \in Request : Good(rq[r])
  BY <1>1, IdleIsGood
<1>4. QED
  BY <1>1, <1>2, <1>3, ExportAssumption DEF ExportInv, CachedZipIsWhole, Day

(* One request becomes another good one.                                    *)
LEMMA OneRequest ==
    ASSUME ExportInv, NEW r \in Request, NEW q, NEW B, q \in RequestType(B), Good(q),
           rq' = [rq EXCEPT ![r] = q], UNCHANGED today, CachedZipIsWhole'
    PROVE  ExportInv'
<1>1. PICK A : RequestsTyped(A)
  BY DEF ExportInv
<1>2. q \in RequestType(A \cup B) /\ RequestType(A) \subseteq RequestType(A \cup B)
  BY ChunksGrow
<1>3. RequestsTyped(A \cup B)'
  BY <1>1, <1>2 DEF RequestsTyped
<1>4. \A p \in Request : Good(rq'[p])
  BY <1>1 DEF ExportInv, RequestsTyped
<1>5. QED
  BY <1>3, <1>4 DEF ExportInv

-----------------------------------------------------------------------------
(* The steps of a request.                                                  *)

LEMMA SelectKeeps == ASSUME ExportInv, NEW r \in Request, Select(r) PROVE ExportInv'
<1> DEFINE ps == {p \in Photo : photo[p].row}
           sig == Signature(ps)
           floor == {<<p, photo[p].done>> : p \in ps}
           fetch == SetToSeq(ps)
<1>1. PICK A : RequestsTyped(A)
  BY DEF ExportInv
<1>2. rq[r] = IdleRequest /\ UNCHANGED <<today, cache>>
  BY DEF Select, ExportInv, Good, Untouched, RequestUnchanged
<1>3. fetch \in Seq(Photo) /\ Elems(fetch) = ps
  <2>1. IsFiniteSet(ps)
    BY ExportAssumption, FS_Subset
  <2>2. fetch \in Seq(ps) /\ Elems(fetch) = ps
    BY <2>1, ElemsSetToSeq
  <2>3. QED
    BY <2>2, SeqMonotonic, ElementOfSeq
<1>4. PhotosIn(sig) = ps
  <2> DEFINE stamp == [p \in ps |-> photo[p].stamp]
  <2>1. sig = {<<p, stamp[p]>> : p \in ps}
    BY DEF Signature
  <2> HIDE DEF stamp, ps, sig
  <2>2. \A p \in ps : <<p, stamp[p]>> \in sig /\ <<p, stamp[p]>>[1] = p
    BY <2>1
  <2>3. \A c \in sig : c[1] \in ps
    BY <2>1
  <2>4. ps \subseteq PhotosIn(sig) /\ PhotosIn(sig) \subseteq ps
    BY <2>2, <2>3 DEF PhotosIn
  <2>5. QED
    BY <2>4
<1>4a. PhotosIn(floor) = ps
  <2> DEFINE done == [p \in ps |-> photo[p].done]
  <2>1. floor = {<<p, done[p]>> : p \in ps}
    OBVIOUS
  <2> HIDE DEF done, ps, floor
  <2>2. \A p \in ps : <<p, done[p]>> \in floor /\ <<p, done[p]>>[1] = p
    BY <2>1
  <2>3. \A c \in floor : c[1] \in ps
    BY <2>1
  <2>4. QED
    BY <2>2, <2>3 DEF PhotosIn
<1> HIDE DEF ps, sig, floor, fetch
<1>5. CASE ps = {}
  <2> DEFINE q == [IdleRequest EXCEPT !.pc = "failed"]
  <2>1. rq' = [rq EXCEPT ![r] = q]
    BY <1>2, <1>5 DEF Select, ps
  <2>2. q \in RequestType(A)
    BY IdleIsGood DEF RequestType
  <2>3. Good(q)
    BY IdleIsGood DEF Good, Whole, Complete, Answers, Untouched, IdleRequest
  <2>4. QED
    BY <1>2, <2>1, <2>2, <2>3, OneRequest DEF ExportInv, CachedZipIsWhole
<1>6. CASE ps # {}
  <2> DEFINE q == [IdleRequest EXCEPT !.pc = "head", !.day = today, !.sig = sig,
                                      !.floor = floor, !.fetch = fetch]
             B == sig \cup floor
  <2>1. rq' = [rq EXCEPT ![r] = q]
    BY <1>2, <1>6 DEF Select, ps, sig, floor, fetch
  <2>2. /\ q \in RequestType(B)
        /\ q.pc = "head" /\ q.sig = sig /\ q.fetch = fetch /\ q.opened = <<>> /\ q.zip = {}
        /\ q.side = IdleRequest.side /\ q.floor = floor
    <3>1. IdleRequest \in RequestType(B)
      BY IdleIsGood
    <3>2. QED
      BY <1>3, <3>1 DEF RequestType, ExportInv, IdleRequest
  <2>3. \A s \in Side : q.side[s].state = "open"
    BY <2>2 DEF IdleRequest, FreshSide, Side
  <2> HIDE DEF q, B
  <2>4. Whole(q)
    BY <1>3, <1>4, <2>2, ElemsEmpty DEF Whole, PhotosIn
  <2>5. Good(q)
    BY <1>4, <1>4a, <2>2, <2>3, <2>4, IdleIsGood DEF Good, Complete, Answers, Untouched
  <2>6. QED
    BY <1>2, <2>1, <2>2, <2>5, OneRequest DEF ExportInv, CachedZipIsWhole
<1>7. QED
  BY <1>5, <1>6

(* Only the label of the request changes.                                   *)
LEMMA Relabelled ==
    ASSUME ExportInv, NEW r \in Request,
           NEW pc \in {"build", "redirect", "failed"},
           rq' = [rq EXCEPT ![r].pc = pc], UNCHANGED <<today, cache>>
    PROVE  ExportInv'
<1> DEFINE q == [rq[r] EXCEPT !.pc = pc]
<1>1. PICK A : RequestsTyped(A)
  BY DEF ExportInv
<1>2. rq[r] \in RequestType(A) /\ Good(rq[r])
  BY <1>1 DEF RequestsTyped, ExportInv
<1>3. /\ q \in RequestType(A) /\ q.pc = pc /\ q.sig = rq[r].sig /\ q.fetch = rq[r].fetch
      /\ q.opened = rq[r].opened /\ q.zip = rq[r].zip /\ q.side = rq[r].side
      /\ q.floor = rq[r].floor
  BY <1>2 DEF RequestType
<1>4. rq' = [rq EXCEPT ![r] = q]
  BY <1>1 DEF RequestsTyped
<1> HIDE DEF q
<1>5. Good(q)
  BY <1>2, <1>3 DEF Good, Whole, Complete, Answers, Untouched
<1>6. QED
  BY <1>3, <1>4, <1>5, OneRequest DEF ExportInv, CachedZipIsWhole

LEMMA LookupKeeps == ASSUME ExportInv, NEW r \in Request, CacheLookup(r) PROVE ExportInv'
<1>1. \E pc \in {"redirect", "build"} :
        /\ rq' = [rq EXCEPT ![r] = [@ EXCEPT !.pc = pc]]
        /\ UNCHANGED <<today, cache>>
  BY DEF CacheLookup, RequestUnchanged
<1>2. QED
  BY <1>1, Relabelled

(* What is read under the key is whole, because what is there is.           *)
LEMMA FollowKeeps == ASSUME ExportInv, NEW r \in Request, Follow(r) PROVE ExportInv'
<1>1. PICK A : RequestsTyped(A)
  BY DEF ExportInv
<1>2. rq[r] \in RequestType(A) /\ Good(rq[r])
  BY <1>1 DEF RequestsTyped, ExportInv
<1>3. UNCHANGED <<today, cache>>
  BY DEF Follow, RequestUnchanged
<1>4. CASE Cached(r) = {}
  <2>1. rq' = [rq EXCEPT ![r].pc = "failed"]
    BY <1>4 DEF Follow
  <2>2. QED
    BY <1>3, <2>1, Relabelled
<1>5. CASE Cached(r) # {}
  <2> DEFINE zip == (CHOOSE o \in Cached(r) : TRUE).zip
             q == [rq[r] EXCEPT !.pc = "served", !.zip = zip]
  <2>1. PhotosIn(zip) = PhotosIn(rq[r].sig)
    BY <1>5 DEF Cached, ExportInv, CachedZipIsWhole
  <2>2. rq' = [rq EXCEPT ![r] = q]
    BY <1>1, <1>5 DEF Follow, RequestsTyped
  <2> HIDE DEF zip
  <2>3. /\ q \in RequestType(A \cup zip) /\ q.pc = "served" /\ q.zip = zip
        /\ q.sig = rq[r].sig /\ q.fetch = rq[r].fetch
        /\ q.opened = rq[r].opened /\ q.side = rq[r].side /\ q.floor = rq[r].floor
    <3>1. rq[r] \in RequestType(A \cup zip)
      BY <1>2, ChunksGrow
    <3>2. QED
      BY <3>1 DEF RequestType
  <2> HIDE DEF q
  <2>4. Whole(q)
    BY <1>2, <2>1, <2>3 DEF Whole, Good
  <2>5. Good(q)
    BY <1>2, <2>1, <2>3, <2>4 DEF Good, Complete, Answers, Untouched
  <2>6. QED
    BY <1>3, <2>2, <2>3, <2>5, OneRequest DEF ExportInv, CachedZipIsWhole
<1>6. QED
  BY <1>4, <1>5

(* errored(): both streams are gone or finished, and nothing is held.       *)
LEMMA ErrorKeeps ==
    ASSUME ExportInv, NEW r \in Request, rq' = [rq EXCEPT ![r] = Errored(rq[r])],
           UNCHANGED <<today, cache>>
    PROVE  ExportInv'
<1> DEFINE side == [s \in Side |-> [Destroyed(rq[r].side[s]) EXCEPT !.buf = 0]]
           q == [IdleRequest EXCEPT !.pc = "failed", !.side = side]
<1>1. PICK A : RequestsTyped(A)
  BY DEF ExportInv
<1>2. rq[r].side \in [Side -> StreamType]
  BY <1>1 DEF RequestsTyped, RequestType
<1>3. \A s \in Side : /\ side[s] \in StreamType /\ side[s].buf = 0
                      /\ side[s].state \in {"finished", "gone"}
                      /\ side[s].ready \/ side[s].state = "gone"
  <2> SUFFICES ASSUME NEW s \in Side
               PROVE  /\ side[s] \in StreamType /\ side[s].buf = 0
                      /\ side[s].state \in {"finished", "gone"}
                      /\ side[s].ready \/ side[s].state = "gone"
    OBVIOUS
  <2> DEFINE d == Destroyed(rq[r].side[s])
  <2>1. rq[r].side[s] \in StreamType /\ Flows(rq[r].side[s])
    BY <1>2 DEF ExportInv, Good
  <2>2. /\ d \in StreamType /\ d.state \in {"finished", "gone"}
        /\ d.ready \/ d.state = "gone"
    BY <2>1 DEF Destroyed, Live, StreamType, Flows
  <2>3. side[s] = [d EXCEPT !.buf = 0]
    OBVIOUS
  <2> HIDE DEF side, d
  <2>4. /\ side[s] \in StreamType /\ side[s].buf = 0
        /\ side[s].state = d.state /\ side[s].ready = d.ready
    BY <2>2, <2>3 DEF StreamType
  <2>5. QED
    BY <2>2, <2>4
<1>4. side \in [Side -> StreamType]
  BY <1>3
<1>5. rq' = [rq EXCEPT ![r] = q]
  BY DEF Errored
<1> HIDE DEF side
<1>6. /\ q \in RequestType(A) /\ q.pc = "failed" /\ q.sig = {} /\ q.zip = {}
      /\ q.fetch = <<>> /\ q.opened = <<>> /\ q.side = side /\ q.floor = {}
  <2>1. IdleRequest \in RequestType(A)
    BY IdleIsGood
  <2>2. QED
    BY <1>4, <2>1 DEF RequestType, IdleRequest
<1> HIDE DEF q
<1>7. Whole(q)
  BY <1>6, ElemsEmpty DEF Whole, PhotosIn
<1>8. \A s \in Side : Flows(q.side[s])
  BY <1>3, <1>6, ExportAssumption DEF Flows
<1>9. Good(q)
  BY <1>6, <1>7, <1>8 DEF Good, Complete, Answers, Untouched
<1>10. QED
  BY <1>5, <1>6, <1>9, OneRequest DEF ExportInv, CachedZipIsWhole

LEMMA OpenKeeps == ASSUME ExportInv, NEW r \in Request, OpenBody(r) PROVE ExportInv'
<1> DEFINE p == rq[r].fetch[1]
           c == <<p, photo[p].bytes>>
           fetch == Tail(rq[r].fetch)
           opened == Append(rq[r].opened, c)
           q == [rq[r] EXCEPT !.fetch = fetch, !.opened = opened]
<1>1. PICK A : RequestsTyped(A)
  BY DEF ExportInv
<1>2. rq[r] \in RequestType(A \cup {c}) /\ Good(rq[r])
  <2>1. rq[r] \in RequestType(A)
    BY <1>1 DEF RequestsTyped
  <2> HIDE DEF c
  <2>2. QED
    BY <2>1, ChunksGrow DEF ExportInv
<1>3. rq[r].pc = "build" /\ rq[r].fetch # <<>> /\ UNCHANGED <<today, cache>>
  BY DEF OpenBody, RequestUnchanged
<1>4. CASE photo[p].object
  <2>1. rq' = [rq EXCEPT ![r] = IF photo[p].object THEN q ELSE Errored(rq[r])]
    BY DEF OpenBody
  <2>11. rq' = [rq EXCEPT ![r] = q]
    BY <1>4, <2>1
  <2>2. rq[r].fetch \in Seq(Photo) /\ rq[r].opened \in Seq(A \cup {c})
    BY <1>2 DEF RequestType
  <2>3. fetch \in Seq(Photo) /\ Elems(rq[r].fetch) = {p} \cup Elems(fetch)
    BY <1>3, <2>2, ElemsTail
  <2>4. c[1] = p
    OBVIOUS
  <2> HIDE DEF p, c
  <2>5. opened \in Seq(A \cup {c}) /\ Elems(opened) = Elems(rq[r].opened) \cup {c}
    BY <2>2, ElemsAppend
  <2>6. PhotosIn(Elems(opened)) = PhotosIn(Elems(rq[r].opened)) \cup {p}
    BY <2>4, <2>5 DEF PhotosIn
  <2> HIDE DEF fetch, opened
  <2>7. /\ q \in RequestType(A \cup {c}) /\ q.pc = "build" /\ q.sig = rq[r].sig
        /\ q.zip = rq[r].zip /\ q.side = rq[r].side /\ q.fetch = fetch /\ q.opened = opened
        /\ q.floor = rq[r].floor
    BY <1>2, <1>3, <2>3, <2>5 DEF RequestType
  <2> HIDE DEF q
  <2>8. Whole(q)
    BY <1>2, <2>3, <2>6, <2>7 DEF Good, Whole
  <2>9. Good(q)
    BY <1>2, <1>3, <2>7, <2>8 DEF Good, Complete, Answers, Untouched
  <2>10. QED
    BY <1>3, <2>11, <2>7, <2>9, OneRequest DEF ExportInv, CachedZipIsWhole
<1>5. CASE ~photo[p].object
  <2>1. rq' = [rq EXCEPT ![r] = Errored(rq[r])]
    BY <1>5 DEF OpenBody
  <2>2. QED
    BY <1>3, <2>1, ErrorKeeps
<1>6. QED
  BY <1>4, <1>5

LEMMA BodyFailsKeeps == ASSUME ExportInv, NEW r \in Request, BodyFails(r) PROVE ExportInv'
<1>1. rq' = [rq EXCEPT ![r] = Errored(rq[r])] /\ UNCHANGED <<today, cache>>
  BY DEF BodyFails, RequestUnchanged
<1>2. QED
  BY <1>1, ErrorKeeps

(* A write is made only when neither stream waits for a drain, so an open   *)
(* one has room.                                                            *)
LEMMA PackKeeps == ASSUME ExportInv, NEW r \in Request, Pack(r) PROVE ExportInv'
<1> DEFINE c == rq[r].opened[1]
           opened == Tail(rq[r].opened)
           zip == rq[r].zip \cup {c}
           side == [s \in Side |-> WriteEntry(rq[r].side[s])]
           q == [rq[r] EXCEPT !.opened = opened, !.zip = zip, !.side = side]
<1>1. PICK A : RequestsTyped(A)
  BY DEF ExportInv
<1>2. rq[r] \in RequestType(A) /\ Good(rq[r])
  BY <1>1 DEF RequestsTyped, ExportInv
<1>3. /\ rq[r].pc = "build" /\ rq[r].opened # <<>> /\ ~Paused(rq[r])
      /\ UNCHANGED <<today, cache>>
  BY DEF Pack, RequestUnchanged
<1>4. rq' = [rq EXCEPT ![r] = q]
  BY <1>1 DEF Pack, RequestsTyped
<1>5. rq[r].opened \in Seq(A) /\ rq[r].zip \in SUBSET A /\ rq[r].side \in [Side -> StreamType]
  BY <1>2 DEF RequestType
<1>6. opened \in Seq(A) /\ c \in A /\ Elems(rq[r].opened) = {c} \cup Elems(opened)
  BY <1>3, <1>5, ElemsTail
<1>7. \A s \in Side : /\ side[s] \in StreamType /\ Flows(side[s])
                      /\ side[s].state = rq[r].side[s].state
  <2> SUFFICES ASSUME NEW s \in Side
               PROVE  /\ side[s] \in StreamType /\ Flows(side[s])
                      /\ side[s].state = rq[r].side[s].state
    OBVIOUS
  <2>1. /\ rq[r].side[s] \in StreamType /\ Flows(rq[r].side[s]) /\ rq[r].side[s].ready
        /\ rq[r].side[s].state \in {"open", "gone"}
    BY <1>2, <1>3, <1>5 DEF Good, Paused, Complete, StreamType
  <2>2. side[s] = WriteEntry(rq[r].side[s])
    OBVIOUS
  <2> HIDE DEF side
  <2>3. QED
    BY <2>1, <2>2, WriteFlows
<1>8. side \in [Side -> StreamType]
  BY <1>7
<1> HIDE DEF c, opened, side
<1>9. /\ q \in RequestType(A) /\ q.pc = "build" /\ q.sig = rq[r].sig /\ q.fetch = rq[r].fetch
      /\ q.opened = opened /\ q.zip = rq[r].zip \cup {c} /\ q.side = side
      /\ q.floor = rq[r].floor
  BY <1>2, <1>3, <1>5, <1>6, <1>8 DEF RequestType
<1> HIDE DEF q
<1>10. Whole(q)
  BY <1>2, <1>6, <1>9 DEF Good, Whole, PhotosIn
<1>11. \A s \in Side : q.side[s].state \notin {"ended", "finished"}
  BY <1>2, <1>3, <1>7, <1>9 DEF Good, Complete
<1>12. Good(q)
  BY <1>2, <1>7, <1>9, <1>10, <1>11 DEF Good, Complete, Answers, Untouched
<1>13. QED
  BY <1>3, <1>4, <1>9, <1>12, OneRequest DEF ExportInv, CachedZipIsWhole

(* A step that changes the streams alone.                                   *)
LEMMA StreamsKeep ==
    ASSUME ExportInv, NEW r \in Request, NEW side \in [Side -> StreamType],
           rq[r].pc # "idle", rq' = [rq EXCEPT ![r].side = side],
           UNCHANGED today, CachedZipIsWhole', \A s \in Side : Flows(side[s]),
           \A s \in Side : side[s].state \in {"ended", "finished"} => rq[r].fetch = <<>> /\ rq[r].opened = <<>>
    PROVE  ExportInv'
<1> DEFINE q == [rq[r] EXCEPT !.side = side]
<1>1. PICK A : RequestsTyped(A)
  BY DEF ExportInv
<1>2. rq[r] \in RequestType(A) /\ Good(rq[r])
  BY <1>1 DEF RequestsTyped, ExportInv
<1>3. rq' = [rq EXCEPT ![r] = q]
  BY <1>1 DEF RequestsTyped
<1>4. /\ q \in RequestType(A) /\ q.pc = rq[r].pc /\ q.sig = rq[r].sig /\ q.fetch = rq[r].fetch
      /\ q.opened = rq[r].opened /\ q.zip = rq[r].zip /\ q.side = side /\ q.floor = rq[r].floor
  BY <1>2 DEF RequestType
<1> HIDE DEF q
<1>5. Good(q)
  BY <1>2, <1>4 DEF Good, Whole, Complete, Answers, Untouched
<1>6. QED
  BY <1>3, <1>4, <1>5, OneRequest

LEMMA EndKeeps == ASSUME ExportInv, NEW r \in Request, EndArchive(r) PROVE ExportInv'
<1> DEFINE side == [s \in Side |->
                IF rq[r].side[s].state = "open" THEN [rq[r].side[s] EXCEPT !.state = "ended"]
                ELSE rq[r].side[s]]
<1>1. rq[r].side \in [Side -> StreamType] /\ Good(rq[r])
  BY DEF ExportInv, RequestsTyped, RequestType
<1>2. \A s \in Side : side[s] \in StreamType /\ Flows(side[s])
  <2> SUFFICES ASSUME NEW s \in Side
               PROVE  side[s] \in StreamType /\ Flows(side[s])
    OBVIOUS
  <2>1. rq[r].side[s] \in StreamType /\ Flows(rq[r].side[s]) /\ rq[r].side[s].ready
    BY <1>1 DEF Good, EndArchive, Paused
  <2>2. QED
    BY <2>1 DEF StreamType, Flows
<1>3. side \in [Side -> StreamType]
  BY <1>2
<1>4. /\ rq[r].pc = "build" /\ rq[r].fetch = <<>> /\ rq[r].opened = <<>>
      /\ rq' = [rq EXCEPT ![r].side = side] /\ UNCHANGED <<today, cache>>
  BY DEF EndArchive, RequestUnchanged
<1> HIDE DEF side
<1>5. QED
  BY <1>2, <1>3, <1>4, StreamsKeep DEF ExportInv, CachedZipIsWhole

(* Reading one chunk: the stream that waited wakes when it is empty.        *)
LEMMA DrainKeeps ==
    ASSUME ExportInv, NEW r \in Request, NEW s \in Side, Drain(r, s)
    PROVE  ExportInv'
<1> DEFINE d == rq[r].side[s]
           e == [d EXCEPT !.buf = d.buf - 1, !.ready = d.ready \/ d.buf = 1]
           side == [rq[r].side EXCEPT ![s] = e]
<1>1. PICK A : RequestsTyped(A)
  BY DEF ExportInv
<1>2. rq[r] \in RequestType(A) /\ rq[r].side \in [Side -> StreamType] /\ Good(rq[r])
  BY <1>1 DEF ExportInv, RequestsTyped, RequestType
<1>3. d \in StreamType /\ Flows(d) /\ d.buf > 0 /\ rq[r].side["minio"] \in StreamType
  BY <1>2 DEF Drain, Good, Side
<1>4. e \in StreamType /\ Flows(e) /\ e.state = d.state
  BY <1>3, ReadFlows
<1>5. rq[r].pc # "idle"
  BY <1>2, <1>3 DEF Good, Untouched, IdleRequest, FreshSide
<1>6. rq' = [rq EXCEPT ![r].side = side] /\ UNCHANGED <<today, cache>>
  BY <1>1, <1>2 DEF Drain, RequestUnchanged, RequestsTyped, RequestType
<1> HIDE DEF e
<1>7. side \in [Side -> StreamType] /\ \A t \in Side : Flows(side[t])
  BY <1>2, <1>4 DEF Good
<1>8. \A t \in Side : side[t].state = rq[r].side[t].state
  BY <1>2, <1>4
<1> HIDE DEF side
<1>9. \A t \in Side : side[t].state \in {"ended", "finished"} => rq[r].fetch = <<>> /\ rq[r].opened = <<>>
  BY <1>2, <1>8 DEF Good, Complete
<1>10. QED
  BY <1>5, <1>6, <1>7, <1>9, StreamsKeep DEF ExportInv, CachedZipIsWhole

LEMMA GoesKeeps ==
    ASSUME ExportInv, NEW r \in Request, NEW s \in Side, GoesAway(r, s)
    PROVE  ExportInv'
<1> DEFINE e == [rq[r].side[s] EXCEPT !.state = "gone"]
           side == [rq[r].side EXCEPT ![s] = e]
<1>1. PICK A : RequestsTyped(A)
  BY DEF ExportInv
<1>2. rq[r] \in RequestType(A) /\ rq[r].side \in [Side -> StreamType] /\ Good(rq[r])
  BY <1>1 DEF ExportInv, RequestsTyped, RequestType
<1>3. e \in StreamType /\ Flows(e) /\ e.state = "gone"
  BY <1>2 DEF Good, Flows, StreamType
<1>4. /\ rq' = [rq EXCEPT ![r].side = side] /\ rq[r].pc # "idle"
      /\ UNCHANGED <<today, cache>>
  BY <1>1, <1>2 DEF GoesAway, RequestUnchanged, RequestsTyped, RequestType
<1> HIDE DEF e
<1>5. side \in [Side -> StreamType] /\ \A t \in Side : Flows(side[t])
  BY <1>2, <1>3 DEF Good
<1>6. \A t \in Side : side[t].state \in {"gone", rq[r].side[t].state}
  BY <1>2, <1>3
<1> HIDE DEF side
<1>7. \A t \in Side : side[t].state \in {"ended", "finished"} => rq[r].fetch = <<>> /\ rq[r].opened = <<>>
  BY <1>2, <1>6 DEF Good, Complete
<1>8. QED
  BY <1>4, <1>5, <1>7, StreamsKeep DEF ExportInv, CachedZipIsWhole

LEMMA DownloadedKeeps == ASSUME ExportInv, NEW r \in Request, Downloaded(r) PROVE ExportInv'
<1> DEFINE e == [rq[r].side["http"] EXCEPT !.state = "finished"]
           side == [rq[r].side EXCEPT !["http"] = e]
           q == [rq[r] EXCEPT !.side = side, !.pc = "served"]
<1>1. PICK A : RequestsTyped(A)
  BY DEF ExportInv
<1>2. rq[r] \in RequestType(A) /\ rq[r].side \in [Side -> StreamType] /\ Good(rq[r])
  BY <1>1 DEF ExportInv, RequestsTyped, RequestType
<1>3. e \in StreamType /\ Flows(e)
  BY <1>2 DEF Good, Flows, StreamType, Side, Downloaded
<1>4. rq' = [rq EXCEPT ![r] = q] /\ UNCHANGED <<today, cache>>
  BY <1>1, <1>2 DEF Downloaded, RequestUnchanged, RequestsTyped, RequestType, Side, StreamType
<1> HIDE DEF e
<1>5. side \in [Side -> StreamType] /\ (\A t \in Side : Flows(side[t]))
      /\ rq[r].fetch = <<>> /\ rq[r].opened = <<>>
  BY <1>2, <1>3 DEF Downloaded, Good, Complete, Side
<1> HIDE DEF side
<1>6. /\ q \in RequestType(A) /\ q.pc = "served" /\ q.sig = rq[r].sig /\ q.fetch = rq[r].fetch
      /\ q.opened = rq[r].opened /\ q.zip = rq[r].zip /\ q.side = side /\ q.floor = rq[r].floor
  BY <1>2, <1>5 DEF RequestType
<1> HIDE DEF q
<1>7. PhotosIn(q.zip) = PhotosIn(q.sig)
  BY <1>2, <1>5, <1>6, ElemsEmpty DEF Good, Whole, PhotosIn
<1>7a. Good(q)
  BY <1>2, <1>5, <1>6, <1>7 DEF Good, Whole, Complete, Answers, Untouched
<1>8. QED
  BY <1>4, <1>6, <1>7a, OneRequest DEF ExportInv, CachedZipIsWhole

(* The object appears when the archive has ended: by then the build holds   *)
(* everything its key was signed for.                                       *)
LEMMA UploadedKeeps == ASSUME ExportInv, NEW r \in Request, Uploaded(r) PROVE ExportInv'
<1> DEFINE e == [rq[r].side["minio"] EXCEPT !.state = "finished"]
           side == [rq[r].side EXCEPT !["minio"] = e]
           new == [sig |-> rq[r].sig, day |-> rq[r].day, zip |-> rq[r].zip, at |-> today]
<1>1. PICK A : RequestsTyped(A)
  BY DEF ExportInv
<1>2. rq[r] \in RequestType(A) /\ rq[r].side \in [Side -> StreamType] /\ Good(rq[r])
  BY <1>1 DEF ExportInv, RequestsTyped, RequestType
<1>3. /\ rq[r].side["minio"].state = "ended" /\ UNCHANGED today
      /\ cache' \subseteq cache \cup {new}
  BY DEF Uploaded, RequestUnchanged
<1>4. rq[r].fetch = <<>> /\ rq[r].opened = <<>> /\ rq[r].pc # "idle"
  BY <1>2, <1>3 DEF Good, Complete, Untouched, IdleRequest, FreshSide, Side
<1>5. PhotosIn(rq[r].zip) = PhotosIn(rq[r].sig)
  BY <1>2, <1>4, ElemsEmpty DEF Good, Whole, PhotosIn
<1>6. CachedZipIsWhole'
  BY <1>3, <1>5 DEF ExportInv, CachedZipIsWhole
<1>7. e \in StreamType /\ Flows(e)
  BY <1>2, <1>3 DEF Good, Flows, StreamType, Side
<1>8. rq' = [rq EXCEPT ![r].side = side]
  BY <1>1, <1>2 DEF Uploaded, RequestsTyped, RequestType, Side, StreamType
<1> HIDE DEF e
<1>9. side \in [Side -> StreamType] /\ \A t \in Side : Flows(side[t])
  BY <1>2, <1>7 DEF Good, Side
<1> HIDE DEF side
<1>10. QED
  BY <1>3, <1>4, <1>6, <1>8, <1>9, StreamsKeep

(* Edits, deletes, the reaper and midnight build nothing.                   *)
LEMMA OthersKeep ==
    ASSUME ExportInv, UNCHANGED rq, today' \in Day, cache' \subseteq cache
    PROVE  ExportInv'
BY DEF ExportInv, RequestsTyped, CachedZipIsWhole

LEMMA ExportStep == ExportInv /\ [ExportNext]_exportVars => ExportInv'
<1> SUFFICES ASSUME ExportInv, [ExportNext]_exportVars
             PROVE  ExportInv'
  OBVIOUS
<1>1. today \in Day
  BY DEF ExportInv
<1>2. ASSUME NEW e \in Edit, EditPut(e) \/ EditRow(e) \/ EditDies(e)
      PROVE  ExportInv'
  BY <1>1, <1>2, OthersKeep DEF EditPut, EditRow, EditDies, PhotoUnchanged
<1>3. ASSUME NEW p \in Photo, DeleteRow(p) \/ DeleteObject(p)
      PROVE  ExportInv'
  BY <1>1, <1>3, OthersKeep DEF DeleteRow, DeleteObject, PhotoUnchanged
<1>4. ASSUME NEW r \in Request,
             \/ Select(r) \/ CacheLookup(r) \/ Follow(r) \/ BodyFails(r) \/ OpenBody(r)
             \/ Pack(r) \/ EndArchive(r) \/ Downloaded(r) \/ Uploaded(r)
      PROVE  ExportInv'
  BY <1>4, SelectKeeps, LookupKeeps, FollowKeeps, BodyFailsKeeps, OpenKeeps, PackKeeps,
     EndKeeps, DownloadedKeeps, UploadedKeeps
<1>5. ASSUME NEW r \in Request, NEW s \in Side, Drain(r, s) \/ GoesAway(r, s)
      PROVE  ExportInv'
  BY <1>5, DrainKeeps, GoesKeeps
<1>6. CASE ReapList
  BY <1>1, <1>6, OthersKeep DEF ReapList
<1>7. CASE ReapDelete
  <2>1. cache' \subseteq cache /\ UNCHANGED <<rq, today>>
    BY <1>7 DEF ReapDelete
  <2>2. QED
    BY <1>1, <2>1, OthersKeep
<1>8. CASE NextDay
  <2>1. today' \in Day
    BY <1>1, <1>8, ExportAssumption DEF NextDay, Day
  <2>2. QED
    BY <1>8, <2>1, OthersKeep DEF NextDay
<1>9. CASE UNCHANGED exportVars
  BY <1>1, <1>9, OthersKeep DEF exportVars
<1>10. QED
  BY <1>2, <1>3, <1>4, <1>5, <1>6, <1>7, <1>8, <1>9 DEF ExportNext

(* exportCache.ts, zipStream.ts: whatever fails or goes away in the middle  *)
(* of a build, an archive in the cache holds every photo its key was signed *)
(* for, and only those.                                                     *)
THEOREM CacheAlwaysWhole == ExportSpec => []CachedZipIsWhole
<1>1. ExportInit => ExportInv
  BY ExportBegins
<1>2. ExportInv /\ [ExportNext]_exportVars => ExportInv'
  BY ExportStep
<1>3. ExportInv => CachedZipIsWhole
  BY DEF ExportInv
<1>4. QED
  BY <1>1, <1>2, <1>3, PTL DEF ExportSpec

(* zipStream.ts (F4): at any high water mark a stream never buffers more,   *)
(* and one that waits for a drain has a chunk whose reading wakes it, or    *)
(* its consumer has gone away.                                              *)
THEOREM BackpressureAlwaysWorks == ExportSpec => []BackpressureWorks
<1>1. ExportInit => ExportInv
  BY ExportBegins
<1>2. ExportInv /\ [ExportNext]_exportVars => ExportInv'
  BY ExportStep
<1>3. ExportInv => BackpressureWorks
  BY DEF ExportInv, Good, Flows, BackpressureWorks
<1>4. QED
  BY <1>1, <1>2, <1>3, PTL DEF ExportSpec

-----------------------------------------------------------------------------
(* What is served is current.                                               *)

Chunks(q) == Elems(q.opened) \cup q.zip
Numbered(S) == \A c \in S : c[1] \in Photo /\ c[2] \in Nat

(* The stamp of a photo grows with every edit that finishes, and its bytes  *)
(* with every one that starts.                                              *)
PhotoType == [row : BOOLEAN, object : BOOLEAN, stamp : Nat, bytes : Nat, done : Nat]
SomeNewest(field) == Photo # {} => \E p \in Photo : \A q \in Photo : photo[q][field] <= photo[p][field]
Dated ==
    /\ photo \in [Photo -> PhotoType]
    /\ \A p \in Photo : photo[p].done <= photo[p].bytes
    /\ SomeNewest("stamp") /\ SomeNewest("bytes")

(* A key was signed with stamps that were current once.  Bytes built for a  *)
(* stamp are no older than the edit that set it: not while it is current,   *)
(* and not for a request that signed the same stamp.                        *)
UpToDate(sig, has) ==
    /\ Numbered(sig) /\ Numbered(has)
    /\ \A x \in sig : x[2] <= photo[x[1]].stamp
    /\ \A x \in sig, c \in has :
         x[1] = c[1] /\ x[2] = photo[x[1]].stamp => photo[x[1]].done <= c[2]
    /\ \A x \in sig, c \in has, r \in Request : x[1] = c[1] /\ x \in rq[r].sig =>
         \A f \in rq[r].floor : f[1] = x[1] => f[2] <= c[2]

Floored(r) == Numbered(rq[r].floor) /\ \A f \in rq[r].floor : f[2] <= photo[f[1]].bytes

CurrentInv ==
    /\ Dated
    /\ \A r \in Request : UpToDate(rq[r].sig, Chunks(rq[r])) /\ Floored(r)
    /\ \A o \in cache : UpToDate(o.sig, o.zip)

LEMMA CurrentBegins == ExportInit => CurrentInv
<1> SUFFICES ASSUME ExportInit
             PROVE  CurrentInv
  OBVIOUS
<1>1. Dated
  BY DEF ExportInit, Dated, PhotoType, SomeNewest
<1>2. \A r \in Request : rq[r].sig = {} /\ rq[r].floor = {} /\ Chunks(rq[r]) = {}
  BY ElemsEmpty DEF ExportInit, IdleRequest, Chunks
<1>3. QED
  BY <1>1, <1>2 DEF ExportInit, CurrentInv, UpToDate, Numbered, Floored

LEMMA LatestIsNewest ==
    ASSUME Dated, NEW field \in {"stamp", "bytes"}, NEW p \in Photo
    PROVE  Latest(field) \in Nat /\ \A q \in Photo : photo[q][field] <= Latest(field)
<1>1. \A q \in Photo : photo[q][field] \in Nat
  BY DEF Dated, PhotoType
<1>2. PICK m \in Photo : \A q \in Photo : photo[q][field] <= photo[m][field]
  BY DEF Dated, SomeNewest
<1>3. \E x \in {photo[q][field] : q \in Photo} : \A y \in {photo[q][field] : q \in Photo} : x >= y
  BY <1>1, <1>2
<1>4. QED
  BY <1>1, <1>3 DEF Latest, Max

(* An edit or a delete: a stamp that changes was never signed before.       *)
LEMMA PhotoStep ==
    ASSUME CurrentInv, Dated', UNCHANGED <<rq, cache>>,
           \A p \in Photo : /\ photo[p].bytes <= photo'[p].bytes
                            /\ \/ photo[p].stamp < photo'[p].stamp
                               \/ photo[p].stamp = photo'[p].stamp /\ photo[p].done = photo'[p].done
    PROVE  CurrentInv'
<1>1. \A p \in Photo : photo[p] \in PhotoType /\ photo'[p] \in PhotoType
  BY DEF CurrentInv, Dated
<1>2. ASSUME NEW sig, NEW has, UpToDate(sig, has)
      PROVE  UpToDate(sig, has)'
  BY <1>1, <1>2 DEF UpToDate, Numbered, PhotoType
<1>3. \A r \in Request : Floored(r)'
  BY <1>1 DEF CurrentInv, Floored, Numbered, PhotoType
<1>4. QED
  BY <1>2, <1>3 DEF CurrentInv, Chunks

LEMMA EditDates ==
    ASSUME CurrentInv, NEW e \in Edit, EditPut(e) \/ EditRow(e)
    PROVE  CurrentInv'
<1> DEFINE p == EditOf[e]
<1>1. p \in Photo /\ Dated
  BY ExportAssumption DEF CurrentInv
<1>2. photo[p] \in PhotoType /\ photo \in [Photo -> PhotoType]
  BY <1>1 DEF Dated
<1>3. /\ Latest("bytes") \in Nat /\ \A q \in Photo : photo[q].bytes <= Latest("bytes")
      /\ Latest("stamp") \in Nat /\ \A q \in Photo : photo[q].stamp <= Latest("stamp")
  BY <1>1, LatestIsNewest
<1> HIDE DEF p
<1>4. CASE EditPut(e)
  <2>1. photo' = [photo EXCEPT ![p].bytes = Latest("bytes") + 1] /\ UNCHANGED <<rq, cache>>
    BY <1>4 DEF EditPut, PhotoUnchanged, p
  <2>2. /\ photo' \in [Photo -> PhotoType] /\ photo'[p].bytes = Latest("bytes") + 1
        /\ \A q \in Photo : /\ photo'[q].stamp = photo[q].stamp /\ photo'[q].done = photo[q].done
                            /\ q # p => photo'[q] = photo[q]
    BY <1>1, <1>2, <1>3, <2>1 DEF PhotoType
  <2>3. \A q \in Photo : photo[q].bytes <= photo'[q].bytes /\ photo'[q].bytes <= photo'[p].bytes
    BY <1>1, <1>2, <1>3, <2>2 DEF PhotoType
  <2>4. Dated'
    <3>1. \A q \in Photo : photo'[q].done <= photo'[q].bytes
      BY <1>1, <1>2, <2>2, <2>3 DEF Dated, PhotoType
    <3>2. SomeNewest("stamp")' /\ SomeNewest("bytes")'
      BY <1>1, <2>2, <2>3 DEF Dated, SomeNewest
    <3>3. QED
      BY <2>2, <3>1, <3>2 DEF Dated
  <2>5. QED
    BY <2>1, <2>2, <2>3, <2>4, PhotoStep
<1>5. CASE EditRow(e)
  <2>1. /\ photo' = [photo EXCEPT ![p].stamp = Latest("stamp") + 1, ![p].done = photo[p].bytes]
        /\ UNCHANGED <<rq, cache>>
    BY <1>5 DEF EditRow, PhotoUnchanged, p
  <2>2. /\ photo' \in [Photo -> PhotoType] /\ photo'[p].stamp = Latest("stamp") + 1
        /\ photo'[p].done = photo[p].bytes
        /\ \A q \in Photo : photo'[q].bytes = photo[q].bytes /\ (q # p => photo'[q] = photo[q])
    <3> DEFINE n == Latest("stamp") + 1
               b == photo[p].bytes
               new == [photo[p] EXCEPT !.stamp = n, !.done = b]
    <3>0. n \in Nat /\ b \in Nat
      BY <1>2, <1>3 DEF PhotoType
    <3>1. photo' = [photo EXCEPT ![p] = new]
      BY <1>1, <1>2, <2>1 DEF PhotoType
    <3> HIDE DEF n, b
    <3>2. new \in PhotoType /\ new.stamp = n /\ new.done = b /\ new.bytes = photo[p].bytes
      BY <1>2, <3>0 DEF PhotoType
    <3> HIDE DEF new
    <3> USE DEF n, b
    <3>3. QED
      BY <1>1, <1>2, <3>1, <3>2
  <2>3. photo[p].stamp < photo'[p].stamp /\ \A q \in Photo : photo'[q].stamp <= photo'[p].stamp
    BY <1>1, <1>2, <1>3, <2>2 DEF PhotoType
  <2>4. Dated'
    <3>1. \A q \in Photo : photo'[q].done <= photo'[q].bytes
      BY <1>1, <1>2, <2>2 DEF Dated, PhotoType
    <3>2. SomeNewest("stamp")' /\ SomeNewest("bytes")'
      BY <1>1, <2>2, <2>3 DEF Dated, SomeNewest
    <3>3. QED
      BY <2>2, <3>1, <3>2 DEF Dated
  <2>5. \A q \in Photo : photo[q].bytes <= photo'[q].bytes
    BY <1>2, <2>2 DEF PhotoType
  <2>6. QED
    BY <2>1, <2>2, <2>3, <2>4, <2>5, PhotoStep
<1>6. QED
  BY <1>4, <1>5

LEMMA DeleteDates ==
    ASSUME CurrentInv, NEW p \in Photo, DeleteRow(p) \/ DeleteObject(p)
    PROVE  CurrentInv'
<1>1. Dated /\ photo \in [Photo -> PhotoType]
  BY DEF CurrentInv, Dated
<1>2. /\ photo' \in [Photo -> PhotoType] /\ UNCHANGED <<rq, cache>>
      /\ \A q \in Photo : /\ photo'[q].stamp = photo[q].stamp /\ photo'[q].bytes = photo[q].bytes
                          /\ photo'[q].done = photo[q].done
  <2>1. CASE DeleteRow(p)
    BY <1>1, <2>1 DEF DeleteRow, PhotoUnchanged, PhotoType
  <2>2. CASE DeleteObject(p)
    BY <1>1, <2>2 DEF DeleteObject, PhotoUnchanged, PhotoType
  <2>3. QED
    BY <2>1, <2>2
<1>3. Dated'
  BY <1>1, <1>2 DEF Dated, SomeNewest
<1>4. \A q \in Photo : photo[q].bytes <= photo'[q].bytes
  BY <1>1, <1>2 DEF PhotoType
<1>5. QED
  BY <1>2, <1>3, <1>4, PhotoStep

(* What one step makes of a request: it is over and empty; it is signed     *)
(* now; or it keeps what it asked for, and has in addition only what the    *)
(* originals hold now or what is cached under its key.                      *)
IsEmpty(q) == q.sig = {} /\ q.floor = {} /\ Chunks(q) = {}
IsSigned(q) ==
    /\ Chunks(q) = {}
    /\ \A x \in q.sig : \E p \in Photo : x = <<p, photo[p].stamp>>
    /\ \A f \in q.floor : \E p \in Photo : f = <<p, photo[p].done>>
Builds(q, old) ==
    /\ q.sig = old.sig /\ q.floor = old.floor
    /\ \A c \in Chunks(q) : \/ c \in Chunks(old)
                            \/ \E p \in Photo : c = <<p, photo[p].bytes>>
                            \/ \E o \in cache : o.sig = old.sig /\ c \in o.zip

LEMMA BuildStep ==
    ASSUME ExportInv, CurrentInv, NEW r \in Request, NEW q, rq' = [rq EXCEPT ![r] = q], UNCHANGED photo,
           IsEmpty(q) \/ IsSigned(q) \/ Builds(q, rq[r]),
           \A o \in cache' : o \in cache \/ (o.sig = rq[r].sig /\ o.zip \subseteq Chunks(rq[r]))
    PROVE  CurrentInv'
<1>1. rq'[r] = q /\ \A a \in Request \ {r} : rq'[a] = rq[a]
  BY DEF ExportInv, RequestsTyped
<1>2. \A p \in Photo : photo[p].stamp \in Nat /\ photo[p].bytes \in Nat /\ photo[p].done \in Nat
                       /\ photo[p].done <= photo[p].bytes
  BY DEF CurrentInv, Dated, PhotoType
<1>3. Dated' /\ Dated
  BY DEF CurrentInv, Dated, SomeNewest
<1>4. UpToDate(rq[r].sig, Chunks(rq[r])) /\ Floored(r)
  BY DEF CurrentInv
\* Nothing that is up to date is put behind by what r asks for.
<1>5. ASSUME NEW sig, NEW has, UpToDate(sig, has)
      PROVE  UpToDate(sig, has)'
  <2>1. \A x \in sig, c \in has : x[1] = c[1] /\ x \in q.sig =>
          \A f \in q.floor : f[1] = x[1] => f[2] <= c[2]
    <3>1. CASE IsEmpty(q)
      BY <3>1 DEF IsEmpty
    <3>2. CASE IsSigned(q)
      BY <1>5, <3>2 DEF IsSigned, UpToDate
    <3>3. CASE Builds(q, rq[r])
      BY <1>5, <3>3 DEF Builds, UpToDate
    <3>4. QED
      BY <3>1, <3>2, <3>3
  <2>2. QED
    BY <1>1, <1>5, <2>1 DEF UpToDate, Numbered
<1>6. UpToDate(q.sig, Chunks(q))
  <2>1. CASE IsEmpty(q)
    BY <2>1 DEF IsEmpty, UpToDate, Numbered
  <2>2. CASE IsSigned(q)
    BY <1>2, <2>2 DEF IsSigned, UpToDate, Numbered
  <2>3. CASE Builds(q, rq[r])
    <3>1. \A o \in cache : o.sig = q.sig => UpToDate(q.sig, o.zip)
      BY DEF CurrentInv
    <3>2. UpToDate(q.sig, {<<p, photo[p].bytes>> : p \in Photo})
      <4>1. \A a \in Request : Floored(a)
        BY DEF CurrentInv
      <4>2. Numbered(q.sig) /\ \A x \in q.sig : x[2] <= photo[x[1]].stamp
        BY <1>4, <2>3 DEF Builds, UpToDate
      <4>3. \A c \in {<<p, photo[p].bytes>> : p \in Photo} :
              /\ c[1] \in Photo /\ c[2] \in Nat /\ c[2] = photo[c[1]].bytes
        BY <1>2
      <4>4. \A a \in Request : \A f \in rq[a].floor : f[1] \in Photo /\ f[2] <= photo[f[1]].bytes
        BY <4>1 DEF Floored, Numbered
      <4>5. QED
        BY <1>2, <4>2, <4>3, <4>4 DEF UpToDate, Numbered
    <3>3. ASSUME NEW c \in Chunks(q)
          PROVE  \E has : c \in has /\ UpToDate(q.sig, has)
      BY <1>4, <2>3, <3>1, <3>2, <3>3 DEF Builds
    <3>4. Numbered(q.sig) /\ \A x \in q.sig : x[2] <= photo[x[1]].stamp
      BY <1>4, <2>3 DEF Builds, UpToDate
    <3>5. QED
      BY <3>3, <3>4 DEF UpToDate, Numbered
  <2>4. QED
    BY <2>1, <2>2, <2>3
<1>7. Floored(r)'
  <2>1. CASE IsEmpty(q)
    BY <1>1, <2>1 DEF IsEmpty, Floored, Numbered
  <2>2. CASE IsSigned(q)
    BY <1>1, <1>2, <2>2 DEF IsSigned, Floored, Numbered
  <2>3. CASE Builds(q, rq[r])
    BY <1>1, <1>4, <2>3 DEF Builds, Floored, Numbered
  <2>4. QED
    BY <2>1, <2>2, <2>3
<1>8. \A a \in Request : UpToDate(rq[a].sig, Chunks(rq[a]))' /\ Floored(a)'
  <2>1. ASSUME NEW a \in Request \ {r}
        PROVE  UpToDate(rq[a].sig, Chunks(rq[a]))' /\ Floored(a)'
    <3>1. UpToDate(rq[a].sig, Chunks(rq[a])) /\ Floored(a)
      BY DEF CurrentInv
    <3>2. UpToDate(rq[a].sig, Chunks(rq[a]))'
      BY <1>1, <1>5, <3>1 DEF Chunks
    <3>3. QED
      BY <1>1, <3>1, <3>2 DEF Floored, Numbered
  <2>2. QED
    BY <1>1, <1>5, <1>6, <1>7, <2>1 DEF Chunks
<1>9. \A o \in cache' : UpToDate(o.sig, o.zip)'
  <2>1. ASSUME NEW zip, zip \subseteq Chunks(rq[r])
        PROVE  UpToDate(rq[r].sig, zip)
    BY <1>4, <2>1 DEF UpToDate, Numbered
  <2>2. \A o \in cache' : UpToDate(o.sig, o.zip)
    BY <2>1 DEF CurrentInv
  <2>3. QED
    BY <1>5, <2>2
<1>10. QED
  BY <1>3, <1>8, <1>9 DEF CurrentInv

Archive(r) == [sig |-> rq[r].sig, day |-> rq[r].day, zip |-> rq[r].zip, at |-> today]
Becomes(r, q) ==
    /\ rq' = [rq EXCEPT ![r] = q] /\ UNCHANGED photo
    /\ IsEmpty(q) \/ IsSigned(q) \/ Builds(q, rq[r])
    /\ \A o \in cache' : o \in cache \/ o = Archive(r)

LEMMA RequestBecomes ==
    ASSUME ExportInv, NEW r \in Request,
           \/ Select(r) \/ CacheLookup(r) \/ Follow(r) \/ BodyFails(r) \/ OpenBody(r)
           \/ Pack(r) \/ EndArchive(r) \/ Downloaded(r) \/ Uploaded(r)
           \/ \E s \in Side : Drain(r, s) \/ GoesAway(r, s)
    PROVE  \E a : Becomes(r, a)
<1>1. PICK A : rq \in [Request -> RequestType(A)]
  BY DEF ExportInv, RequestsTyped
<1>2. rq[r] \in RequestType(A) /\ rq[r].opened \in Seq(A) /\ rq[r].side \in [Side -> StreamType]
  BY <1>1 DEF RequestType
<1>3. UNCHANGED photo
  BY DEF Select, CacheLookup, Follow, BodyFails, OpenBody, Pack, EndArchive, Downloaded, Uploaded,
         Drain, GoesAway, RequestUnchanged
<1>4. ASSUME NEW q, rq' = [rq EXCEPT ![r] = q], UNCHANGED cache,
             IsEmpty(q) \/ IsSigned(q) \/ Builds(q, rq[r])
      PROVE  \E a : Becomes(r, a)
  BY <1>3, <1>4 DEF Becomes
\* The steps that change neither what r asks for nor what it has.
<1>5. ASSUME NEW q, rq' = [rq EXCEPT ![r] = q], UNCHANGED cache,
             q.sig = rq[r].sig, q.floor = rq[r].floor, q.opened = rq[r].opened, q.zip = rq[r].zip
      PROVE  \E a : Becomes(r, a)
  BY <1>4, <1>5 DEF Builds, Chunks
<1>6. IsEmpty(IdleRequest) /\ \A q : IsEmpty(Errored(q))
  BY ElemsEmpty DEF IsEmpty, IdleRequest, Errored, Chunks
<1>7. CASE Select(r)
  <2> DEFINE ps == {p \in Photo : photo[p].row}
             q == IF ps = {} THEN [IdleRequest EXCEPT !.pc = "failed"]
                  ELSE [IdleRequest EXCEPT !.pc = "head", !.day = today, !.sig = Signature(ps),
                          !.floor = {<<p, photo[p].done>> : p \in ps}, !.fetch = SetToSeq(ps)]
  <2>1. rq[r] = IdleRequest /\ UNCHANGED cache
    BY <1>7 DEF Select, ExportInv, Good, Untouched
  <2>2. rq' = [rq EXCEPT ![r] = q]
    BY <1>7, <2>1 DEF Select
  <2>3. IsEmpty(q) \/ IsSigned(q)
    <3>1. CASE ps = {}
      BY <3>1, ElemsEmpty DEF IsEmpty, IdleRequest, Chunks
    <3>2. CASE ps # {}
      <4>1. /\ q.opened = <<>> /\ q.zip = {} /\ q.sig = Signature(ps)
            /\ q.floor = {<<p, photo[p].done>> : p \in ps}
        BY <3>2 DEF IdleRequest
      <4> HIDE DEF q
      <4>2. QED
        BY <4>1, ElemsEmpty DEF IsSigned, Chunks, Signature
    <3>3. QED
      BY <3>1, <3>2
  <2>4. QED
    BY <1>4, <2>1, <2>2, <2>3
<1>8. CASE CacheLookup(r)
  <2>1. PICK pc \in {"redirect", "build"} : rq' = [rq EXCEPT ![r] = [rq[r] EXCEPT !.pc = pc]]
    BY <1>1, <1>8 DEF CacheLookup
  <2>2. UNCHANGED cache
    BY <1>8 DEF CacheLookup
  <2>3. QED
    BY <1>2, <1>5, <2>1, <2>2 DEF RequestType
<1>9. CASE Follow(r)
  <2>1. CASE Cached(r) = {}
    <3>1. rq' = [rq EXCEPT ![r] = [rq[r] EXCEPT !.pc = "failed"]] /\ UNCHANGED cache
      BY <1>9, <2>1 DEF Follow
    <3>2. QED
      BY <1>2, <1>5, <3>1 DEF RequestType
  <2>2. CASE Cached(r) # {}
    <3> DEFINE o == CHOOSE x \in Cached(r) : TRUE
               q == [rq[r] EXCEPT !.pc = "served", !.zip = o.zip]
    <3>1. o \in cache /\ o.sig = rq[r].sig
      BY <2>2 DEF Cached
    <3>2. rq' = [rq EXCEPT ![r] = q] /\ UNCHANGED cache
      BY <1>9, <2>2 DEF Follow
    <3> HIDE DEF o
    <3>3. q.sig = rq[r].sig /\ q.floor = rq[r].floor /\ q.opened = rq[r].opened /\ q.zip = o.zip
      BY <1>2 DEF RequestType
    <3> HIDE DEF q
    <3>4. Builds(q, rq[r])
      BY <3>1, <3>3 DEF Builds, Chunks
    <3>5. QED
      BY <1>4, <3>2, <3>4
  <2>3. QED
    BY <2>1, <2>2
<1>10. CASE BodyFails(r)
  <2>1. rq' = [rq EXCEPT ![r] = Errored(rq[r])] /\ UNCHANGED cache
    BY <1>10 DEF BodyFails
  <2>2. QED
    BY <1>4, <1>6, <2>1
<1>11. CASE OpenBody(r)
  <2> DEFINE p == rq[r].fetch[1]
             c == <<p, photo[p].bytes>>
             q == [rq[r] EXCEPT !.fetch = Tail(rq[r].fetch), !.opened = Append(rq[r].opened, c)]
  <2>1. rq' = [rq EXCEPT ![r] = IF photo[p].object THEN q ELSE Errored(rq[r])] /\ UNCHANGED cache
    BY <1>11 DEF OpenBody
  <2>2. p \in Photo
    <3>1. rq[r].fetch \in Seq(Photo) /\ rq[r].fetch # <<>>
      BY <1>2, <1>11 DEF OpenBody, RequestType
    <3>2. QED
      BY <3>1, ElemsTail
  <2> HIDE DEF p
  <2>3. Elems(Append(rq[r].opened, c)) = Elems(rq[r].opened) \cup {c}
    <3>1. rq[r].opened \in Seq(A \cup {c})
      BY <1>2, SeqMonotonic, ElementOfSeq
    <3>2. QED
      BY <3>1, ElemsAppend
  <2>4. /\ q.sig = rq[r].sig /\ q.floor = rq[r].floor /\ q.zip = rq[r].zip
        /\ q.opened = Append(rq[r].opened, c)
    BY <1>2 DEF RequestType
  <2>5. Builds(q, rq[r])
    BY <2>2, <2>3, <2>4 DEF Builds, Chunks
  <2> HIDE DEF q
  <2>6. QED
    BY <1>4, <1>6, <2>1, <2>5
<1>12. CASE Pack(r)
  <2> DEFINE q == [rq[r] EXCEPT !.opened = Tail(rq[r].opened), !.zip = rq[r].zip \cup {rq[r].opened[1]},
                                !.side = [s \in Side |-> WriteEntry(rq[r].side[s])]]
  <2>1. rq' = [rq EXCEPT ![r] = q] /\ UNCHANGED cache /\ rq[r].opened # <<>>
    BY <1>12 DEF Pack
  <2>2. Elems(rq[r].opened) = {rq[r].opened[1]} \cup Elems(Tail(rq[r].opened))
    BY <1>2, <2>1, ElemsTail
  <2>3. /\ q.sig = rq[r].sig /\ q.floor = rq[r].floor /\ q.zip = rq[r].zip \cup {rq[r].opened[1]}
        /\ q.opened = Tail(rq[r].opened)
    BY <1>2 DEF RequestType
  <2> HIDE DEF q
  <2>4. Builds(q, rq[r])
    BY <2>2, <2>3 DEF Builds, Chunks
  <2>5. QED
    BY <1>4, <2>1, <2>4
\* The steps that change its streams.
<1>13. ASSUME NEW side, rq' = [rq EXCEPT ![r].side = side] \/ rq' = [rq EXCEPT ![r].side = side, ![r].pc = "served"],
              \A o \in cache' : o \in cache \/ o = Archive(r)
       PROVE  \E a : Becomes(r, a)
  <2>1. PICK q : /\ rq' = [rq EXCEPT ![r] = q]
                 /\ q = [rq[r] EXCEPT !.side = side] \/ q = [rq[r] EXCEPT !.side = side, !.pc = "served"]
    BY <1>1, <1>13
  <2>2. q.sig = rq[r].sig /\ q.floor = rq[r].floor /\ q.opened = rq[r].opened /\ q.zip = rq[r].zip
    BY <1>2, <2>1 DEF RequestType
  <2>3. Builds(q, rq[r])
    BY <2>2 DEF Builds, Chunks
  <2>4. QED
    BY <1>3, <1>13, <2>1, <2>3 DEF Becomes
<1>14. CASE EndArchive(r)
  <2>1. (\E side : rq' = [rq EXCEPT ![r].side = side]) /\ UNCHANGED cache
    BY <1>14 DEF EndArchive
  <2>2. QED
    BY <1>13, <2>1
<1>15. CASE Downloaded(r)
  <2> DEFINE side == [rq[r].side EXCEPT !["http"] = [rq[r].side["http"] EXCEPT !.state = "finished"]]
  <2>1. rq' = [rq EXCEPT ![r].side = side, ![r].pc = "served"] /\ UNCHANGED cache
    BY <1>1, <1>2, <1>15 DEF Downloaded, RequestType, Side, StreamType
  <2>2. QED
    BY <1>13, <2>1
<1>16. CASE Uploaded(r)
  <2> DEFINE side == [rq[r].side EXCEPT !["minio"] = [rq[r].side["minio"] EXCEPT !.state = "finished"]]
  <2>1. rq' = [rq EXCEPT ![r].side = side]
    BY <1>1, <1>2, <1>16 DEF Uploaded, RequestType, Side, StreamType
  <2>2. \A o \in cache' : o \in cache \/ o = Archive(r)
    BY <1>16 DEF Uploaded, Archive
  <2>3. QED
    BY <1>13, <2>1, <2>2
<1>17. ASSUME NEW s \in Side, Drain(r, s) \/ GoesAway(r, s)
       PROVE  \E a : Becomes(r, a)
  <2>1. PICK d : rq' = [rq EXCEPT ![r].side = [rq[r].side EXCEPT ![s] = d]]
    <3>1. CASE Drain(r, s)
      BY <1>1, <1>2, <3>1 DEF Drain, RequestType
    <3>2. CASE GoesAway(r, s)
      BY <1>1, <1>2, <3>2 DEF GoesAway, RequestType
    <3>3. QED
      BY <1>17, <3>1, <3>2
  <2>2. UNCHANGED cache
    BY <1>17 DEF Drain, GoesAway
  <2>3. QED
    BY <1>13, <2>1, <2>2
<1>18. QED
  BY <1>7, <1>8, <1>9, <1>10, <1>11, <1>12, <1>14, <1>15, <1>16, <1>17

LEMMA RequestStep ==
    ASSUME ExportInv, CurrentInv, NEW r \in Request, NEW q, Becomes(r, q)
    PROVE  CurrentInv'
<1>1. \A o \in cache' : o \in cache \/ (o.sig = rq[r].sig /\ o.zip \subseteq Chunks(rq[r]))
  BY DEF Becomes, Archive, Chunks
<1>2. QED
  BY <1>1, BuildStep DEF Becomes

LEMMA CurrentStep == ExportInv /\ CurrentInv /\ [ExportNext]_exportVars => CurrentInv'
<1> SUFFICES ASSUME ExportInv, CurrentInv, [ExportNext]_exportVars
             PROVE  CurrentInv'
  OBVIOUS
<1>1. CASE UNCHANGED <<photo, rq>> /\ cache' \subseteq cache
  BY <1>1 DEF CurrentInv, Dated, SomeNewest, UpToDate, Numbered, Floored, Chunks
<1>2. ASSUME NEW e \in Edit, EditDies(e)
      PROVE  UNCHANGED <<photo, rq>> /\ cache' \subseteq cache
  BY <1>2 DEF EditDies, PhotoUnchanged
<1>3. ReapList \/ ReapDelete \/ NextDay \/ UNCHANGED exportVars
        => UNCHANGED <<photo, rq>> /\ cache' \subseteq cache
  BY DEF ReapList, ReapDelete, NextDay, exportVars
<1>4. QED
  BY <1>1, <1>2, <1>3, EditDates, DeleteDates, RequestBecomes, RequestStep DEF ExportNext

(* exportCache.ts (F20): whatever edits, deletes and other exports do in    *)
(* the meantime, the archive a visitor gets, built for him or found in the  *)
(* cache, holds the photos the album had when he asked, and none of them    *)
(* older than the last edit that had finished.                              *)
THEOREM ExportAlwaysCurrent == ExportSpec => []ExportIsCurrent
<1>1. ExportInit => ExportInv /\ CurrentInv
  BY ExportBegins, CurrentBegins
<1>2. ExportInv /\ CurrentInv /\ [ExportNext]_exportVars => (ExportInv /\ CurrentInv)'
  BY ExportStep, CurrentStep
<1>3. ExportInv /\ CurrentInv => ExportIsCurrent
  <2> SUFFICES ASSUME ExportInv, CurrentInv, NEW r \in Request, rq[r].pc = "served"
               PROVE  /\ PhotosIn(rq[r].zip) = PhotosIn(rq[r].floor)
                      /\ \A c \in rq[r].zip, f \in rq[r].floor : c[1] = f[1] => c[2] >= f[2]
    BY DEF ExportIsCurrent
  <2>1. PhotosIn(rq[r].zip) = PhotosIn(rq[r].sig) /\ PhotosIn(rq[r].floor) = PhotosIn(rq[r].sig)
    BY DEF ExportInv, Good, Answers
  <2>2. ASSUME NEW c \in rq[r].zip, NEW f \in rq[r].floor, c[1] = f[1]
        PROVE  c[2] >= f[2]
    <3>1. PICK x \in rq[r].sig : x[1] = c[1]
      BY <2>1 DEF PhotosIn
    <3>2. f[2] <= c[2] /\ c[2] \in Nat /\ f[2] \in Nat
      BY <2>2, <3>1 DEF CurrentInv, UpToDate, Floored, Numbered, Chunks
    <3>3. QED
      BY <3>2
  <2>3. QED
    BY <2>1, <2>2
<1>4. QED
  BY <1>1, <1>2, <1>3, PTL DEF ExportSpec

-----------------------------------------------------------------------------
(* The types.  An edit writes one version and sets one stamp, so neither    *)
(* counts beyond the number of edits, and what is signed, asked for, packed *)
(* or cached is a photo with such a count.                                  *)

Edits(S) == {e \in Edit : edit[e] \in S}
Counted ==
    /\ edit \in [Edit -> {"idle", "put", "done"}]
    /\ \A p \in Photo : /\ photo[p].bytes <= Cardinality(Edits({"put", "done"}))
                        /\ photo[p].stamp <= Cardinality(Edits({"done"}))

ArchiveType == [sig : SUBSET Chunk, day : Day, zip : SUBSET Chunk, at : Day]
KeyType == (SUBSET Chunk) \X Day
Held ==
    /\ \A r \in Request : /\ rq[r].sig \subseteq Chunk /\ rq[r].floor \subseteq Chunk
                          /\ Chunks(rq[r]) \subseteq Chunk
    /\ cache \subseteq ArchiveType /\ reap \subseteq KeyType /\ faults \in 0..MaxFaults

LEMMA CountsAreVersions ==
    ASSUME Dated, Counted, NEW p \in Photo
    PROVE  photo[p].stamp \in Version /\ photo[p].bytes \in Version /\ photo[p].done \in Version
<1>1. /\ photo[p].stamp \in Nat /\ photo[p].bytes \in Nat /\ photo[p].done \in Nat
      /\ photo[p].done <= photo[p].bytes
  BY DEF Dated, PhotoType
<1>2. \A S : /\ Cardinality(Edits(S)) \in Nat /\ Cardinality(Edit) \in Nat
             /\ Cardinality(Edits(S)) <= Cardinality(Edit)
  <2>1. \A S : Edits(S) \subseteq Edit
    BY DEF Edits
  <2>2. QED
    BY <2>1, ExportAssumption, FS_Subset, FS_CardinalityType
<1>3. /\ photo[p].bytes <= Cardinality(Edits({"put", "done"}))
      /\ photo[p].stamp <= Cardinality(Edits({"done"}))
  BY DEF Counted
<1>4. QED
  BY <1>1, <1>2, <1>3 DEF Version

LEMMA LatestIsSome ==
    ASSUME Dated, NEW field \in {"stamp", "bytes"}, NEW p \in Photo
    PROVE  \E q \in Photo : Latest(field) = photo[q][field]
<1>1. \A q \in Photo : photo[q][field] \in Nat
  BY DEF Dated, PhotoType
<1>2. PICK m \in Photo : \A q \in Photo : photo[q][field] <= photo[m][field]
  BY DEF Dated, SomeNewest
<1>3. \E x \in {photo[q][field] : q \in Photo} : \A y \in {photo[q][field] : q \in Photo} : x >= y
  BY <1>1, <1>2
<1>4. QED
  BY <1>1, <1>3 DEF Latest, Max

LEMMA EditCounts ==
    ASSUME Dated, Counted, NEW e \in Edit, EditPut(e) \/ EditRow(e) \/ EditDies(e)
    PROVE  Counted'
<1> DEFINE p == EditOf[e]
           put == {"put", "done"}
           done == {"done"}
           wrote == Edits(put)
           ended == Edits(done)
<1>1. p \in Photo /\ photo \in [Photo -> PhotoType] /\ edit \in [Edit -> {"idle", "put", "done"}]
  BY ExportAssumption DEF Dated, Counted
<1>2. \A q \in Photo : photo[q].bytes \in Nat /\ photo[q].stamp \in Nat
  BY <1>1 DEF PhotoType
<1>3. \A q \in Photo : photo[q].bytes <= Cardinality(wrote) /\ photo[q].stamp <= Cardinality(ended)
  BY DEF Counted
<1>4. \E q \in Photo : Latest("bytes") = photo[q].bytes
  BY <1>1, LatestIsSome
<1>5. \E q \in Photo : Latest("stamp") = photo[q].stamp
  BY <1>1, LatestIsSome
<1>6. wrote \subseteq Edit /\ ended \subseteq Edit
  BY DEF Edits
<1>7. IsFiniteSet(wrote) /\ IsFiniteSet(ended)
  BY <1>6, ExportAssumption, FS_Subset
<1>8. Cardinality(wrote) \in Nat /\ Cardinality(ended) \in Nat
  BY <1>7, FS_CardinalityType
<1> HIDE DEF p
<1>9. CASE EditPut(e)
  <2>1. /\ edit[e] = "idle" /\ edit' = [edit EXCEPT ![e] = "put"]
        /\ photo' = [photo EXCEPT ![p].bytes = Latest("bytes") + 1]
    BY <1>9 DEF EditPut, p
  <2>2. e \notin wrote /\ wrote' = wrote \cup {e} /\ ended' = ended
    BY <1>1, <2>1 DEF Edits
  <2>3. edit' \in [Edit -> {"idle", "put", "done"}]
    BY <1>1, <2>1
  <2>4. /\ photo'[p].bytes = Latest("bytes") + 1
        /\ \A q \in Photo : photo'[q].stamp = photo[q].stamp /\ (q # p => photo'[q].bytes = photo[q].bytes)
    BY <1>1, <2>1 DEF PhotoType
  <2> HIDE DEF wrote, ended
  <2>5. Cardinality(wrote') = Cardinality(wrote) + 1
    BY <1>7, <2>2, FS_AddElement
  <2>6. \A q \in Photo : photo'[q].bytes <= Cardinality(wrote') /\ photo'[q].stamp <= Cardinality(ended')
    BY <1>2, <1>3, <1>4, <1>8, <2>2, <2>4, <2>5
  <2>7. QED
    BY <2>3, <2>6 DEF Counted, wrote, ended
<1>10. CASE EditRow(e)
  <2>1. /\ edit[e] = "put" /\ edit' = [edit EXCEPT ![e] = "done"]
        /\ photo' = [photo EXCEPT ![p].stamp = Latest("stamp") + 1, ![p].done = photo[p].bytes]
    BY <1>10 DEF EditRow, p
  <2>2. e \notin ended /\ ended' = ended \cup {e} /\ wrote' = wrote
    BY <1>1, <2>1 DEF Edits
  <2>3. edit' \in [Edit -> {"idle", "put", "done"}]
    BY <1>1, <2>1
  <2>4. /\ photo'[p].stamp = Latest("stamp") + 1
        /\ \A q \in Photo : photo'[q].bytes = photo[q].bytes /\ (q # p => photo'[q].stamp = photo[q].stamp)
    BY <1>1, <2>1 DEF PhotoType
  <2> HIDE DEF wrote, ended
  <2>5. Cardinality(ended') = Cardinality(ended) + 1
    BY <1>7, <2>2, FS_AddElement
  <2>6. \A q \in Photo : photo'[q].bytes <= Cardinality(wrote') /\ photo'[q].stamp <= Cardinality(ended')
    BY <1>2, <1>3, <1>5, <1>8, <2>2, <2>4, <2>5
  <2>7. QED
    BY <2>3, <2>6 DEF Counted, wrote, ended
<1>11. CASE EditDies(e)
  <2>1. edit[e] = "put" /\ edit' = [edit EXCEPT ![e] = "done"] /\ UNCHANGED photo
    BY <1>11 DEF EditDies
  <2>2. e \notin ended /\ ended' = ended \cup {e} /\ wrote' = wrote
    BY <1>1, <2>1 DEF Edits
  <2>3. edit' \in [Edit -> {"idle", "put", "done"}]
    BY <1>1, <2>1
  <2> HIDE DEF wrote, ended
  <2>4. Cardinality(ended') = Cardinality(ended) + 1
    BY <1>7, <2>2, FS_AddElement
  <2>5. \A q \in Photo : photo'[q].bytes <= Cardinality(wrote') /\ photo'[q].stamp <= Cardinality(ended')
    BY <1>2, <1>3, <1>8, <2>1, <2>2, <2>4
  <2>6. QED
    BY <2>3, <2>5 DEF Counted, wrote, ended
<1>12. QED
  BY <1>9, <1>10, <1>11

LEMMA DeleteCounts ==
    ASSUME Dated, Counted, NEW p \in Photo, DeleteRow(p) \/ DeleteObject(p)
    PROVE  Counted'
<1>1. photo \in [Photo -> PhotoType]
  BY DEF Dated
<1>2. \A q \in Photo : photo'[q].bytes = photo[q].bytes /\ photo'[q].stamp = photo[q].stamp
  BY <1>1 DEF DeleteRow, DeleteObject, PhotoType
<1>3. UNCHANGED edit
  BY DEF DeleteRow, DeleteObject
<1>4. QED
  BY <1>2, <1>3 DEF Counted, Edits

(* What a request asks for and has are photos as they are or were.          *)
LEMMA BecomesHeld ==
    ASSUME ExportInv, Dated, Counted, Held, NEW r \in Request, NEW q, Becomes(r, q),
           UNCHANGED reap, faults' \in 0..MaxFaults
    PROVE  Held'
<1>1. rq'[r] = q /\ \A a \in Request \ {r} : rq'[a] = rq[a]
  BY DEF Becomes, ExportInv, RequestsTyped
<1>2. \A p \in Photo : /\ <<p, photo[p].stamp>> \in Chunk /\ <<p, photo[p].bytes>> \in Chunk
                       /\ <<p, photo[p].done>> \in Chunk
  BY CountsAreVersions DEF Chunk
<1>3. rq[r].sig \subseteq Chunk /\ rq[r].floor \subseteq Chunk /\ Chunks(rq[r]) \subseteq Chunk
  BY DEF Held
<1>4. \A o \in cache : o.zip \subseteq Chunk
  BY DEF Held, ArchiveType
<1>5. q.sig \subseteq Chunk /\ q.floor \subseteq Chunk /\ Chunks(q) \subseteq Chunk
  <2>1. CASE IsEmpty(q)
    BY <2>1 DEF IsEmpty
  <2>2. CASE IsSigned(q)
    BY <1>2, <2>2 DEF IsSigned
  <2>3. CASE Builds(q, rq[r])
    BY <1>2, <1>3, <1>4, <2>3 DEF Builds
  <2>4. QED
    BY <2>1, <2>2, <2>3 DEF Becomes
<1>6. Archive(r) \in ArchiveType
  <2>1. rq[r].day \in Day /\ today \in Day
    BY DEF ExportInv, RequestsTyped, RequestType
  <2>2. rq[r].zip \subseteq Chunk
    BY <1>3 DEF Chunks
  <2>3. QED
    BY <1>3, <2>1, <2>2 DEF Archive, ArchiveType
<1>7. cache' \subseteq ArchiveType
  BY <1>6 DEF Becomes, Held
<1>8. \A a \in Request : rq'[a].sig \subseteq Chunk /\ rq'[a].floor \subseteq Chunk /\ Chunks(rq'[a]) \subseteq Chunk
  BY <1>1, <1>5 DEF Held
<1>9. QED
  BY <1>7, <1>8 DEF Held, Chunks

LEMMA TypesStep ==
    ExportInv /\ CurrentInv /\ Counted /\ Held /\ [ExportNext]_exportVars => (Counted /\ Held)'
<1> SUFFICES ASSUME ExportInv, CurrentInv, Counted, Held, [ExportNext]_exportVars
             PROVE  (Counted /\ Held)'
  OBVIOUS
<1>1. Dated /\ faults \in 0..MaxFaults /\ MaxFaults \in Nat
  BY ExportAssumption DEF CurrentInv, Held
<1>2. ASSUME UNCHANGED <<edit, photo>>
      PROVE  Counted'
  BY <1>2 DEF Counted, Edits
<1>3. ASSUME UNCHANGED rq, cache' \subseteq cache, reap' \subseteq KeyType, faults' \in 0..MaxFaults
      PROVE  Held'
  BY <1>3 DEF Held, Chunks
<1>4. ASSUME NEW e \in Edit, EditPut(e) \/ EditRow(e) \/ EditDies(e)
      PROVE  (Counted /\ Held)'
  <2>1. UNCHANGED <<rq, cache, reap>> /\ faults' \in 0..MaxFaults
    BY <1>1, <1>4 DEF EditPut, EditRow, EditDies, PhotoUnchanged
  <2>2. reap \subseteq KeyType
    BY DEF Held
  <2>3. QED
    BY <1>1, <1>3, <1>4, <2>1, <2>2, EditCounts
<1>5. ASSUME NEW p \in Photo, DeleteRow(p) \/ DeleteObject(p)
      PROVE  (Counted /\ Held)'
  <2>1. UNCHANGED <<rq, cache, reap, faults>>
    BY <1>5 DEF DeleteRow, DeleteObject, PhotoUnchanged
  <2>2. reap \subseteq KeyType
    BY DEF Held
  <2>3. QED
    BY <1>1, <1>3, <1>5, <2>1, <2>2, DeleteCounts
<1>6. ASSUME NEW r \in Request,
             \/ Select(r) \/ CacheLookup(r) \/ Follow(r) \/ BodyFails(r) \/ OpenBody(r)
             \/ Pack(r) \/ EndArchive(r) \/ Downloaded(r) \/ Uploaded(r)
             \/ \E s \in Side : Drain(r, s) \/ GoesAway(r, s)
      PROVE  (Counted /\ Held)'
  <2>1. UNCHANGED <<photo, edit, reap>>
    BY <1>6 DEF Select, CacheLookup, Follow, BodyFails, OpenBody, Pack, EndArchive, Downloaded, Uploaded,
         Drain, GoesAway, RequestUnchanged
  <2>2. faults' \in 0..MaxFaults
    <3>1. CASE CacheLookup(r)
      BY <1>1, <3>1 DEF CacheLookup
    <3>2. CASE BodyFails(r)
      BY <1>1, <3>2 DEF BodyFails
    <3>3. CASE \E s \in Side : GoesAway(r, s)
      BY <1>1, <3>3 DEF GoesAway
    <3>4. CASE \/ Select(r) \/ Follow(r) \/ OpenBody(r) \/ Pack(r) \/ EndArchive(r) \/ Downloaded(r)
               \/ Uploaded(r) \/ \E s \in Side : Drain(r, s)
      <4>1. UNCHANGED faults
        BY <3>4 DEF Select, Follow, OpenBody, Pack, EndArchive, Downloaded, Uploaded, Drain
      <4>2. QED
        BY <1>1, <4>1
    <3>5. QED
      BY <1>6, <3>1, <3>2, <3>3, <3>4
  <2>3. \E q : Becomes(r, q)
    BY <1>6, RequestBecomes
  <2>4. QED
    BY <1>1, <1>2, <2>1, <2>2, <2>3, BecomesHeld
<1>7. CASE ReapList
  <2>1. \A o \in cache : <<o.sig, o.day>> \in KeyType
    BY DEF Held, ArchiveType, KeyType
  <2>2. reap' \subseteq KeyType /\ UNCHANGED <<photo, edit, rq, cache, faults>>
    BY <1>7, <2>1 DEF ReapList
  <2>3. QED
    BY <1>1, <1>2, <1>3, <2>2
<1>8. CASE ReapDelete
  <2>1. reap' \subseteq reap /\ cache' \subseteq cache /\ UNCHANGED <<photo, edit, rq, faults>>
    BY <1>8 DEF ReapDelete
  <2>2. QED
    BY <1>1, <1>2, <1>3, <2>1 DEF Held
<1>9. CASE NextDay \/ UNCHANGED exportVars
  <2>1. UNCHANGED <<photo, edit, rq, cache, reap, faults>>
    BY <1>9 DEF NextDay, exportVars
  <2>2. QED
    BY <1>1, <1>2, <1>3, <2>1 DEF Held
<1>10. QED
  BY <1>4, <1>5, <1>6, <1>7, <1>8, <1>9 DEF ExportNext

LEMMA TypesBegin == ExportInit => Counted /\ Held
<1> SUFFICES ASSUME ExportInit
             PROVE  Counted /\ Held
  OBVIOUS
<1>1. /\ photo = [p \in Photo |-> [row |-> TRUE, object |-> TRUE, stamp |-> 0, bytes |-> 0, done |-> 0]]
      /\ edit = [e \in Edit |-> "idle"] /\ rq = [r \in Request |-> IdleRequest]
      /\ cache = {} /\ reap = {} /\ faults = 0
  BY DEF ExportInit
<1>2. Edits({"put", "done"}) = {} /\ Edits({"done"}) = {}
  BY <1>1 DEF Edits
<1>3. Cardinality({}) = 0
  BY FS_EmptySet
<1>4. Counted
  BY <1>1, <1>2, <1>3 DEF Counted
<1>5. \A r \in Request : rq[r].sig = {} /\ rq[r].floor = {} /\ Chunks(rq[r]) = {}
  BY <1>1, ElemsEmpty DEF IdleRequest, Chunks
<1>6. QED
  BY <1>1, <1>4, <1>5, ExportAssumption DEF Held

(* Every request, archive and key holds photos with a stamp or a version     *)
(* that is at most the number of edits, whatever fails or overlaps          *)
(* (contentSignature in lib/exportCache.ts, the chunks of lib/zipStream.ts). *)
THEOREM ExportAlwaysTyped == ExportSpec => []ExportTypeOK
<1>1. ExportInit => ExportInv /\ CurrentInv /\ Counted /\ Held
  BY ExportBegins, CurrentBegins, TypesBegin
<1>2. ExportInv /\ CurrentInv /\ Counted /\ Held /\ [ExportNext]_exportVars
        => (ExportInv /\ CurrentInv /\ Counted /\ Held)'
  BY ExportStep, CurrentStep, TypesStep
<1>3. ExportInv /\ CurrentInv /\ Counted /\ Held => ExportTypeOK
  <2> SUFFICES ASSUME ExportInv, CurrentInv, Counted, Held
               PROVE  ExportTypeOK
    OBVIOUS
  <2>1. photo \in [Photo -> [row : BOOLEAN, object : BOOLEAN, stamp : Version,
                             bytes : Version, done : Version]]
    <3>1. photo \in [Photo -> PhotoType] /\ Dated
      BY DEF CurrentInv, Dated
    <3>2. \A p \in Photo : photo[p] \in [row : BOOLEAN, object : BOOLEAN, stamp : Version,
                                         bytes : Version, done : Version]
      BY <3>1, CountsAreVersions DEF PhotoType
    <3>3. QED
      BY <3>1, <3>2
  <2>2. ASSUME NEW r \in Request
        PROVE  /\ rq[r].pc \in {"idle", "head", "build", "redirect", "served", "failed"}
               /\ rq[r].sig \subseteq Chunk /\ rq[r].floor \subseteq Chunk /\ rq[r].zip \subseteq Chunk
               /\ rq[r].day \in Day
               /\ rq[r].fetch \in Seq(Photo) /\ rq[r].opened \in Seq(Chunk)
               /\ \A s \in Side : /\ rq[r].side[s].buf \in Nat /\ rq[r].side[s].ready \in BOOLEAN
                                  /\ rq[r].side[s].state \in {"open", "ended", "finished", "gone"}
    <3>1. PICK A : rq[r] \in RequestType(A)
      BY DEF ExportInv, RequestsTyped
    <3>2. rq[r].opened \in Seq(A) /\ Elems(rq[r].opened) \subseteq Chunk
      BY <3>1 DEF RequestType, Held, Chunks
    <3>3. rq[r].opened \in Seq(Chunk)
      <4>1. \A i \in 1..Len(rq[r].opened) : rq[r].opened[i] \in Chunk
        BY <3>2 DEF Elems
      <4>2. rq[r].opened \in [1..Len(rq[r].opened) -> Chunk] /\ Len(rq[r].opened) \in Nat
        BY <3>2, <4>1
      <4>3. QED
        BY <4>2, SeqDef
    <3>4. \A s \in Side : rq[r].side[s] \in StreamType
      BY <3>1 DEF RequestType
    <3>5. rq[r].sig \subseteq Chunk /\ rq[r].floor \subseteq Chunk /\ rq[r].zip \subseteq Chunk
      BY DEF Held, Chunks
    <3>6. QED
      BY <3>1, <3>3, <3>4, <3>5 DEF RequestType, StreamType
  <2>3. QED
    BY <2>1, <2>2 DEF ExportTypeOK, ExportInv, Counted, Held, ArchiveType, KeyType
<1>4. QED
  BY <1>1, <1>2, <1>3, PTL DEF ExportSpec

-----------------------------------------------------------------------------
(* The dialog.                                                              *)

\* The records of the dialog and of what it started.
Choice == ExportOption \cup {Nothing}
Dialogs == [open : BOOLEAN, selected : Choice, submitting : BOOLEAN, pick : Choice]
Probes == [pc : {"none", "asked", "green", "red"}, option : Choice, pick : Choice, changed : BOOLEAN]
Navigations == [pc : {"none", "asked", "zip", "page"}, option : Choice, pick : Choice, excused : BOOLEAN]

Shaped == dialog \in Dialogs /\ probe \in Probes /\ navigation \in Navigations

\* A green answer stays true until something changes, which its record notes.
GreenIsTrue ==
    /\ (probe.pc = "green" /\ ~probe.changed) => Exportable(probe.option)
    /\ (navigation.pc = "asked" /\ ~navigation.excused) => Exportable(navigation.option)

PickInv == Shaped /\ GreenIsTrue /\ PickSurvives

-----------------------------------------------------------------------------
(* What is started afresh is well formed.                                   *)
LEMMA BlankRecords ==
    /\ ClosedDialog \in Dialogs /\ ~ClosedDialog.open
    /\ NoProbe \in Probes /\ NoProbe.pc = "none"
    /\ NoNavigation \in Navigations /\ NoNavigation.pc = "none"
BY DEF ClosedDialog, NoProbe, NoNavigation, Dialogs, Probes, Navigations, Choice

(* The first state.                                                         *)
LEMMA PickInit == DialogInit => PickInv
BY BlankRecords DEF DialogInit, PickInv, Shaped, GreenIsTrue, PickSurvives

(* Whether an export is allowed is the gallery's matter alone.              *)
LEMMA ExportableSame ==
    ASSUME UNCHANGED <<inAlbum, liked, offered>>, NEW o
    PROVE  Exportable(o)' <=> Exportable(o)
BY DEF Exportable, PhotosOf

(* A change of the dialog that leaves the probe and the navigation alone    *)
(* keeps the invariant when what it selects is what was picked.             *)
LEMMA DialogStep ==
    ASSUME PickInv, GallerySame, UNCHANGED <<probe, navigation>>,
           dialog' \in Dialogs,
           dialog'.open => dialog'.selected = dialog'.pick
    PROVE  PickInv'
<1>1. \A o : Exportable(o)' <=> Exportable(o)
  BY ExportableSame DEF GallerySame
<1>2. Shaped' /\ PickSurvives'
  BY DEF PickInv, Shaped, PickSurvives
<1>3. GreenIsTrue'
  BY DEF PickInv, GreenIsTrue, GallerySame, Exportable, PhotosOf
<1>4. QED
  BY <1>2, <1>3 DEF PickInv

(* A render leaves an open dialog's selection to the visitor (F46).         *)
LEMMA RenderKeepsPick ==
    ASSUME PickInv, NEW d, NEW wasOpen \in BOOLEAN, NEW sizes,
           d = dialog \/ (d = [dialog EXCEPT !.open = TRUE] /\ ~wasOpen),
           d = dialog => wasOpen = dialog.open
    PROVE  LET r == DialogRendered(d, wasOpen, sizes)
           IN  /\ r \in Dialogs
               /\ r.open => r.selected = r.pick
<1>1. Target(sizes) \in ExportOption
  BY DEF Target, ExportOption
<1>2. QED
  BY <1>1 DEF PickInv, Shaped, Dialogs, Choice, PickSurvives, DialogRendered, Selecting

(* Opening, closing, picking, and the context that lands.                   *)
LEMMA PickDialog ==
    ASSUME PickInv, OpenDialog \/ CloseDialog \/ PickOption \/ LandContext
    PROVE  PickInv'
<1>1. GallerySame /\ UNCHANGED <<probe, navigation>>
  BY DEF OpenDialog, CloseDialog, PickOption, LandContext
<1>2. CASE OpenDialog
  <2>1. dialog' = DialogRendered([dialog EXCEPT !.open = TRUE], FALSE, known)
    BY <1>2 DEF OpenDialog
  <2>2. [dialog EXCEPT !.open = TRUE] # dialog
    BY <1>2 DEF OpenDialog, PickInv, Shaped, Dialogs
  <2>3. QED
    BY <1>1, <2>1, <2>2, RenderKeepsPick, DialogStep
<1>3. CASE CloseDialog
  BY <1>1, <1>3, DialogStep DEF CloseDialog, PickInv, Shaped, Dialogs, PickSurvives
<1>4. CASE PickOption
  BY <1>1, <1>4, DialogStep DEF PickOption, Selecting, PickInv, Shaped, Dialogs, Choice
<1>5. CASE LandContext
  <2>1. dialog.open \in BOOLEAN
    BY DEF PickInv, Shaped, Dialogs
  <2>2. QED
    BY <1>1, <1>5, <2>1, RenderKeepsPick, DialogStep DEF LandContext
<1>6. QED
  BY <1>2, <1>3, <1>4, <1>5

(* The probe: what it was asked for is what was picked.                     *)
LEMMA PickProbe ==
    ASSUME PickInv, Submit \/ AnswerProbe \/ ProbeLands
    PROVE  PickInv'
<1>1. GallerySame
  BY DEF Submit, AnswerProbe, ProbeLands
<1>2. CASE Submit
  <2>1. Shaped' /\ PickSurvives' /\ probe'.pc = "asked" /\ UNCHANGED navigation
    BY <1>2 DEF Submit, NoProbe, PickInv, Shaped, Dialogs, Probes, PickSurvives
  <2>2. GreenIsTrue'
    BY <1>1, <2>1 DEF GallerySame, PickInv, GreenIsTrue, Exportable, PhotosOf
  <2>3. QED
    BY <2>1, <2>2 DEF PickInv
<1>3. CASE AnswerProbe
  <2>1. Shaped' /\ PickSurvives' /\ UNCHANGED <<dialog, navigation>>
    BY <1>3 DEF AnswerProbe, PickInv, Shaped, Probes, PickSurvives
  <2>2. /\ probe'.option = probe.option
        /\ probe'.pc = "green" => Exportable(probe.option)
    BY <1>3 DEF AnswerProbe, PickInv, Shaped, Probes
  <2>3. GreenIsTrue'
    BY <1>1, <2>1, <2>2 DEF GallerySame, PickInv, GreenIsTrue, Exportable, PhotosOf
  <2>4. QED
    BY <2>1, <2>3 DEF PickInv
<1>4. CASE ProbeLands
  <2>1. probe' \in Probes /\ probe'.pc = "none"
    BY <1>4, BlankRecords DEF ProbeLands
  <2>2. dialog' \in Dialogs /\ (dialog'.open => dialog'.selected = dialog'.pick)
    BY <1>4 DEF ProbeLands, PickInv, Shaped, Dialogs, PickSurvives
  <2>3. CASE probe.pc = "red"
    <3>1. UNCHANGED navigation
      BY <1>4, <2>3 DEF ProbeLands
    <3>2. GreenIsTrue'
      BY <1>1, <2>1, <3>1 DEF GallerySame, PickInv, GreenIsTrue, Exportable, PhotosOf
    <3>3. QED
      BY <2>1, <2>2, <3>1, <3>2 DEF PickInv, Shaped, PickSurvives
  <2>4. CASE probe.pc = "green"
    <3>1. /\ navigation' = [pc |-> "asked", option |-> probe.option, pick |-> probe.pick,
                           excused |-> probe.changed]
          /\ probe.option = probe.pick
      BY <1>4, <2>4 DEF ProbeLands, PickInv, PickSurvives
    <3>2. navigation' \in Navigations
      BY <3>1 DEF PickInv, Shaped, Probes, Navigations
    <3>3. GreenIsTrue'
      BY <1>1, <2>1, <2>4, <3>1 DEF GallerySame, PickInv, GreenIsTrue, Exportable, PhotosOf
    <3>4. QED
      BY <2>1, <2>2, <3>1, <3>2, <3>3 DEF PickInv, Shaped, PickSurvives
  <2>5. QED
    BY <1>4, <2>3, <2>4 DEF ProbeLands
<1>5. QED
  BY <1>2, <1>3, <1>4

(* The navigation: an export that is refused without the limiter was not    *)
(* exportable any more, so something changed.                               *)
LEMMA PickNavigation ==
    ASSUME PickInv, FollowExport \/ GoBack
    PROVE  PickInv'
<1>1. CASE FollowExport
  <2>1. UNCHANGED <<inAlbum, liked, offered, dialog, probe>>
    BY <1>1 DEF FollowExport
  <2>2. /\ navigation' \in Navigations /\ navigation'.pc \in {"zip", "page"}
        /\ navigation'.option = navigation.option /\ navigation'.pick = navigation.pick
        /\ navigation'.pc = "page" => navigation'.excused
    BY <1>1 DEF FollowExport, PickInv, Shaped, Navigations, GreenIsTrue, Exportable
  <2>3. Shaped' /\ PickSurvives'
    BY <1>1, <2>1, <2>2 DEF FollowExport, PickInv, Shaped, PickSurvives
  <2>4. GreenIsTrue'
    BY <2>1, <2>2 DEF PickInv, GreenIsTrue, Exportable, PhotosOf
  <2>5. QED
    BY <2>3, <2>4 DEF PickInv
<1>2. CASE GoBack
  <2>1. navigation' \in Navigations /\ navigation'.pc = "none"
    BY <1>2, BlankRecords DEF GoBack
  <2>2. \/ UNCHANGED <<dialog, probe>>
        \/ dialog' = ClosedDialog /\ probe' = NoProbe
    BY <1>2 DEF GoBack
  <2>3. Shaped' /\ PickSurvives'
    BY <2>1, <2>2, BlankRecords DEF PickInv, Shaped, PickSurvives
  <2>4. GreenIsTrue'
    BY <1>2, <2>1, <2>2, BlankRecords
       DEF GoBack, GallerySame, PickInv, GreenIsTrue, Exportable, PhotosOf
  <2>5. QED
    BY <2>3, <2>4 DEF PickInv
<1>3. QED
  BY <1>1, <1>2

(* The rest of the world notes what it changes.                             *)
LEMMA PickWorld ==
    ASSUME PickInv, (\E p \in Item : LikeHere(p)) \/ Elsewhere
    PROVE  PickInv'
<1>1. /\ UNCHANGED dialog
      /\ probe' = [probe EXCEPT !.changed = @ \/ probe.pc = "green"]
      /\ navigation' = [navigation EXCEPT !.excused = @ \/ navigation.pc = "asked"]
  BY DEF LikeHere, Elsewhere
<1>2. Shaped' /\ PickSurvives'
  BY <1>1 DEF PickInv, Shaped, Probes, Navigations, PickSurvives
<1>3. /\ ~(probe'.pc = "green" /\ ~probe'.changed)
      /\ ~(navigation'.pc = "asked" /\ ~navigation'.excused)
  BY <1>1 DEF PickInv, Shaped, Probes, Navigations
<1>4. QED
  BY <1>2, <1>3 DEF PickInv, GreenIsTrue

(* Every step keeps the invariant.                                          *)
LEMMA PickStep == PickInv /\ [DialogNext]_dialogVars => PickInv'
<1> SUFFICES ASSUME PickInv, [DialogNext]_dialogVars PROVE PickInv'
  OBVIOUS
<1>1. CASE \/ ReadContext \/ ContextFails \/ WindowPasses \/ UNCHANGED dialogVars
  BY <1>1 DEF ReadContext, ContextFails, WindowPasses, dialogVars, GallerySame,
              PickInv, Shaped, GreenIsTrue, PickSurvives, Exportable, PhotosOf
<1>2. QED
  BY <1>1, PickDialog, PickProbe, PickNavigation, PickWorld DEF DialogNext

(* Whatever the visitor, the answers and the rest of the world do, the      *)
(* selection, the probe and the download are what was picked, and an error  *)
(* page after a green probe has its reason.                                 *)
THEOREM PickAlwaysSurvives == DialogSpec => []PickSurvives
<1>1. PickInv => PickSurvives
  BY DEF PickInv
<1>2. QED
  BY PickInit, PickStep, <1>1, PTL DEF DialogSpec

-----------------------------------------------------------------------------
(* The types of the gallery: what the theorem above does not need of them.   *)

KnownSizes == [favorites : Nat, total : Nat]
GalleryTyped ==
    /\ inAlbum \subseteq Item /\ liked \subseteq inAlbum /\ offered \in BOOLEAN
    /\ taken \in 0..MaxDownloads /\ asks \in 0..MaxAsks /\ turns \in 0..MaxTurns
    /\ known \in KnownSizes
    /\ hydration \in [pc : {"asked", "read", "landed", "failed"}, sizes : KnownSizes]

(* The bounds are numbers, and an album has so many photos.                  *)
LEMMA DialogNumbers ==
    /\ MaxDownloads \in Nat /\ MaxAsks \in Nat /\ MaxTurns \in Nat
    /\ \A s \in SUBSET Item : Cardinality(s) \in Nat
BY DialogAssumption, FS_Subset, FS_CardinalityType

LEMMA GalleryBegins == DialogInit => GalleryTyped
BY DialogNumbers DEF DialogInit, GalleryTyped, KnownSizes

(* The context, and what a page shows of it.                                 *)
LEMMA ContextTyped ==
    ASSUME GalleryTyped, ReadContext \/ ContextFails \/ LandContext \/ GoBack
    PROVE  GalleryTyped'
<1>1. UNCHANGED <<inAlbum, liked, offered, taken, asks, turns>>
  BY DEF ReadContext, ContextFails, LandContext, GoBack, GallerySame
<1>2. Cardinality(liked) \in Nat /\ Cardinality(inAlbum) \in Nat
  BY DialogNumbers DEF GalleryTyped
<1>3. known' \in KnownSizes
  BY <1>2 DEF ReadContext, ContextFails, LandContext, GoBack, GallerySame, GalleryTyped, KnownSizes
<1>4. hydration' \in [pc : {"asked", "read", "landed", "failed"}, sizes : KnownSizes]
  BY <1>2 DEF ReadContext, ContextFails, LandContext, GoBack, GallerySame, GalleryTyped, KnownSizes
<1> QED BY <1>1, <1>3, <1>4 DEF GalleryTyped

(* A heart and its count.                                                    *)
LEMMA LikeTyped ==
    ASSUME GalleryTyped, NEW p \in Item, LikeHere(p)
    PROVE  GalleryTyped'
<1>1. UNCHANGED <<inAlbum, offered, taken, hydration, asks>> /\ turns' \in 0..MaxTurns
  BY DialogNumbers DEF LikeHere, GalleryTyped
<1>2. liked' \subseteq inAlbum
  BY DEF LikeHere, GalleryTyped
<1>3. known' \in KnownSizes
  BY DEF LikeHere, GalleryTyped, KnownSizes
<1> QED BY <1>1, <1>2, <1>3 DEF GalleryTyped

LEMMA GalleryStep == GalleryTyped /\ [DialogNext]_dialogVars => GalleryTyped'
<1> SUFFICES ASSUME GalleryTyped, [DialogNext]_dialogVars PROVE GalleryTyped'
  OBVIOUS
<1>1. CASE OpenDialog
  BY <1>1, DialogNumbers DEF OpenDialog, GallerySame, GalleryTyped
<1>2. CASE CloseDialog \/ PickOption
  BY <1>2 DEF CloseDialog, PickOption, GallerySame, GalleryTyped
<1>3. CASE Submit
  BY <1>3, DialogNumbers DEF Submit, GallerySame, GalleryTyped
<1>4. CASE AnswerProbe \/ ProbeLands
  BY <1>4 DEF AnswerProbe, ProbeLands, GallerySame, GalleryTyped
<1>5. CASE FollowExport
  BY <1>5, DialogNumbers DEF FollowExport, GalleryTyped
<1>6. CASE Elsewhere
  <2>1. inAlbum' \subseteq Item /\ liked' \subseteq inAlbum' /\ offered' \in BOOLEAN
    BY <1>6 DEF Elsewhere, GalleryTyped
  <2>2. turns' \in 0..MaxTurns /\ UNCHANGED <<taken, known, hydration, asks>>
    BY <1>6, DialogNumbers DEF Elsewhere, GalleryTyped
  <2> QED BY <2>1, <2>2 DEF GalleryTyped
<1>7. CASE WindowPasses
  BY <1>7, DialogNumbers DEF WindowPasses, GalleryTyped
<1>8. CASE UNCHANGED dialogVars
  BY <1>8 DEF dialogVars, GalleryTyped
<1> QED BY <1>1, <1>2, <1>3, <1>4, <1>5, <1>6, <1>7, <1>8, ContextTyped, LikeTyped DEF DialogNext

(* The states are typed.                                                     *)
LEMMA DialogAlwaysTyped == DialogSpec => []DialogTypeOK
<1>1. PickInv /\ GalleryTyped => DialogTypeOK
  BY DEF PickInv, Shaped, Dialogs, Probes, Navigations, Choice, GalleryTyped, KnownSizes, DialogTypeOK
<1> QED BY PickInit, PickStep, GalleryBegins, GalleryStep, <1>1, PTL DEF DialogSpec
=============================================================================
