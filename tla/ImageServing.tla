---------------------------- MODULE ImageServing -----------------------------
(* How a photo's bytes reach a page: imgproxy URLs with a version in them   *)
(* (lib/imgproxy.ts), cached for a year under that URL; the presigned       *)
(* download of the original and its LRU cache (lib/presign.ts); and what    *)
(* changes the bytes or the row behind them.                                *)
(*                                                                          *)
(* A photo's bytes are the number of the write that made them.  Every size  *)
(* of a photo has the same source and version, so one URL stands for all.   *)
EXTENDS Integers, Sequences, SequencesExt, FiniteSets

CONSTANTS
    Image,
    Rewrite, ImageOf,   \* edits and replacements, each of one image
    Page,               \* rendered pages, each showing one image
    Download,           \* renders that presign a download
    Second,             \* ticks in a second
    UrlLife,            \* seconds a presigned URL is valid
    SignedMax,          \* PRESIGN_CACHE_MAX
    LastMoment, MaxTouches

ASSUME ImageAssumption ==
    /\ Image # {} /\ ImageOf \in [Rewrite -> Image] /\ IsFiniteSet(Rewrite)
    /\ Second \in Nat \ {0} /\ UrlLife \in Nat \ {0, 1} /\ SignedMax \in Nat \ {0}
    /\ {LastMoment, MaxTouches} \subseteq Nat

Moment == 0..LastMoment
Bytes == 0..Cardinality(Rewrite)
NoVersion == -1

VARIABLES
    moment,     \* in ticks; the database keeps them, a version is a second
    source,     \* the original of each image
    record,     \* updated_at, and the bytes the last finished rewrite wrote (ghost)
    rewrite,    \* edits in flight
    variant,    \* what the CDN and the browsers keep: [image, version, bytes]
    tile,       \* what each page asks for and shows
    signed,     \* the presign LRU, oldest first
    download,   \* presigns in flight and handed out
    touches,
    hasty       \* images rewritten twice in one second (ghost)

imageVars == <<moment, source, record, rewrite, variant, tile, signed, download, touches, hasty>>

BlankTile == [pc |-> "blank", image |-> CHOOSE i \in Image : TRUE, version |-> NoVersion,
              bytes |-> 0, due |-> 0]
NoDownload == [pc |-> "none", image |-> CHOOSE i \in Image : TRUE, bucket |-> 0, expires |-> 0]

ImageTypeOK ==
    /\ moment \in Moment
    /\ source \in [Image -> Bytes]
    /\ record \in [Image -> [at : Moment, bytes : Bytes]]
    /\ rewrite \in [Rewrite -> [pc : {"idle", "put", "done"}, bytes : Bytes]]
    /\ variant \subseteq [image : Image, version : Int, bytes : Bytes]
    /\ tile \in [Page -> [pc : {"blank", "html", "reading", "shown"}, image : Image,
                          version : Int, bytes : Bytes, due : Bytes]]
    /\ signed \in Seq([image : Image, bucket : Nat, expires : Nat])
    /\ download \in [Download -> [pc : {"none", "sign", "given"}, image : Image,
                                  bucket : Nat, expires : Nat]]
    /\ touches \in 0..MaxTouches /\ hasty \subseteq Image

ImageInit ==
    /\ moment = 0
    /\ source = [i \in Image |-> 0]
    /\ record = [i \in Image |-> [at |-> 0, bytes |-> 0]]
    /\ rewrite = [e \in Rewrite |-> [pc |-> "idle", bytes |-> 0]]
    /\ variant = {}
    /\ tile = [p \in Page |-> BlankTile]
    /\ signed = <<>>
    /\ download = [d \in Download |-> NoDownload]
    /\ touches = 0 /\ hasty = {}

-----------------------------------------------------------------------------
(* Rewrites: photos/[id]/edit and scripts/replace-photo.ts put the object,  *)
(* then stamp the row.                                                      *)

RewriteSame == UNCHANGED <<moment, variant, tile, signed, download, touches>>

\* photoVersionSeed: whole seconds.
VersionSeed(at) == at \div Second

PutOriginal(e) ==
    LET b == 1 + Cardinality({f \in Rewrite : rewrite[f].pc # "idle"}) IN
    /\ rewrite[e].pc = "idle"
    /\ source' = [source EXCEPT ![ImageOf[e]] = b]
    /\ rewrite' = [rewrite EXCEPT ![e] = [pc |-> "put", bytes |-> b]]
    /\ RewriteSame /\ UNCHANGED <<record, hasty>>

\* updated_at = now()
Stamp(i) == moment

StampRow(e) ==
    LET i == ImageOf[e] IN
    /\ rewrite[e].pc = "put"
    /\ record' = [record EXCEPT ![i] = [at |-> Stamp(i), bytes |-> rewrite[e].bytes]]
    /\ hasty' = IF VersionSeed(record[i].at) = VersionSeed(moment) THEN hasty \cup {i} ELSE hasty
    /\ rewrite' = [rewrite EXCEPT ![e].pc = "done"]
    /\ RewriteSame /\ UNCHANGED source

\* Dies between the two: new bytes under the old version.
RewriteDies(e) ==
    /\ rewrite[e].pc = "put"
    /\ rewrite' = [rewrite EXCEPT ![e].pc = "done"]
    /\ RewriteSame /\ UNCHANGED <<source, record, hasty>>

\* The worker's finalizePhotoMetadata, regenerate of an album and the
\* orientation backfill stamp the row over the same bytes.
TouchRow(i) ==
    /\ touches < MaxTouches /\ touches' = touches + 1
    /\ record' = [record EXCEPT ![i].at = moment]
    /\ UNCHANGED <<moment, source, rewrite, variant, tile, signed, download, hasty>>

-----------------------------------------------------------------------------
(* Pages.                                                                   *)

TileSame == UNCHANGED <<moment, source, record, rewrite, signed, download, touches, hasty>>

\* Mutant: buildImgproxyUrl without the cachebuster.
UrlUnversioned(i) == 0

\* buildImgproxyUrl: the key, the options and the version of the row.
UrlVersion(i) == VersionSeed(record[i].at)

\* `due`: the bytes of the last rewrite that had finished when the row was read.
Render(p) ==
    /\ tile[p].pc \in {"blank", "shown"}
    /\ \E i \in Image :
         tile' = [tile EXCEPT ![p] = [pc |-> "html", image |-> i, version |-> UrlVersion(i),
                                      bytes |-> 0, due |-> record[i].bytes]]
    /\ TileSame /\ UNCHANGED variant

Stored(i, v) == {c \in variant : c.image = i /\ c.version = v}

\* The browser asks for the URL.
FetchTile(p) ==
    /\ tile[p].pc = "html"
    /\ LET hit == Stored(tile[p].image, tile[p].version) IN
       tile' = [tile EXCEPT ![p] = IF hit # {}
                 THEN [@ EXCEPT !.pc = "shown", !.bytes = (CHOOSE c \in hit : TRUE).bytes]
                 ELSE [@ EXCEPT !.pc = "reading", !.bytes = source[tile[p].image]]]
    /\ TileSame /\ UNCHANGED variant

\* imgproxy has rendered what it read; the answer is kept for a year.
Rendered(p) ==
    /\ tile[p].pc = "reading"
    /\ variant' = (variant \ Stored(tile[p].image, tile[p].version))
                     \cup {[image |-> tile[p].image, version |-> tile[p].version, bytes |-> tile[p].bytes]}
    /\ tile' = [tile EXCEPT ![p].pc = "shown"]
    /\ TileSame

\* warmImgproxyVariants, at finalize and by the warm button: its items name
\* no version, so what it fetches is the URL without one.
Warm(i) ==
    /\ Stored(i, NoVersion) = {}
    /\ variant' = variant \cup {[image |-> i, version |-> NoVersion, bytes |-> source[i]]}
    /\ TileSame /\ UNCHANGED tile

-----------------------------------------------------------------------------
(* presignGet.                                                              *)

SignSame == UNCHANGED <<moment, source, record, rewrite, variant, tile, touches, hasty>>
Lifetime == UrlLife * Second

\* ttlBucket: a stride of 80% of the lifetime, in whole seconds.
Stride == IF (UrlLife * 4) \div 5 = 0 THEN 1 ELSE (UrlLife * 4) \div 5
TtlBucket(t) == t \div (Stride * Second)

Entries(i, b) == {n \in DOMAIN signed : signed[n].image = i /\ signed[n].bucket = b}

\* A hit moves to the young end; a miss awaits the signature.
PresignGet(d) ==
    /\ download[d].pc \in {"none", "given"}
    /\ \E i \in Image :
         LET b == TtlBucket(moment)
             hit == Entries(i, b)
         IN IF hit = {}
            THEN /\ download' = [download EXCEPT ![d] = [pc |-> "sign", image |-> i, bucket |-> b, expires |-> 0]]
                 /\ UNCHANGED signed
            ELSE LET n == CHOOSE m \in hit : TRUE IN
                 /\ signed' = Append(RemoveAt(signed, n), signed[n])
                 /\ download' = [download EXCEPT ![d] = [pc |-> "given", image |-> i, bucket |-> b,
                                                         expires |-> signed[n].expires]]
    /\ SignSame

\* Past the maximum the oldest entry goes.
Evict(s) == IF Len(s) > SignedMax THEN Tail(s) ELSE s

\* Map.set keeps the place of a key that is there already.
Sign(d) ==
    LET x == download[d]
        e == [image |-> x.image, bucket |-> x.bucket, expires |-> moment + Lifetime]
        old == Entries(x.image, x.bucket)
    IN
    /\ x.pc = "sign"
    /\ signed' = Evict(IF old = {} THEN Append(signed, e)
                       ELSE [signed EXCEPT ![CHOOSE n \in old : TRUE] = e])
    /\ download' = [download EXCEPT ![d].pc = "given", ![d].expires = e.expires]
    /\ SignSame

\* A page is sent when it is rendered: what was given a URL has it.
MomentPasses ==
    /\ moment < LastMoment
    /\ moment' = moment + 1
    /\ download' = [d \in Download |-> IF download[d].pc = "given" THEN NoDownload ELSE download[d]]
    /\ UNCHANGED <<source, record, rewrite, variant, tile, signed, touches, hasty>>

ImageNext ==
    \/ \E e \in Rewrite : PutOriginal(e) \/ StampRow(e) \/ RewriteDies(e)
    \/ \E i \in Image : TouchRow(i) \/ Warm(i)
    \/ \E p \in Page : Render(p) \/ FetchTile(p) \/ Rendered(p)
    \/ \E d \in Download : PresignGet(d) \/ Sign(d)
    \/ MomentPasses

ImageSpec == ImageInit /\ [][ImageNext]_imageVars

-----------------------------------------------------------------------------
(* Properties.                                                              *)

\* A page shows no bytes older than the last rewrite that had finished when
\* the page was rendered, however long the CDN keeps a variant and whatever
\* else stamps the row, as long as no image is stamped by a rewrite in the
\* second of an earlier stamp (photoVersionSeed counts seconds).
TilesShowTheEdit ==
    \A p \in Page :
      (tile[p].pc = "shown" /\ tile[p].image \notin hasty) => tile[p].bytes >= tile[p].due

\* A presigned URL is handed out with at least a fifth of its life left,
\* however long the signature took, and the cache keeps its bound.
UrlsOutliveTheirUse ==
    /\ \A d \in Download : download[d].pc = "given" =>
         5 * (download[d].expires - moment) >= Lifetime
    /\ Len(signed) <= SignedMax

\* What a page is given to show or to download is true when it is used.
ServedImagesHold == TilesShowTheEdit /\ UrlsOutliveTheirUse
=============================================================================
