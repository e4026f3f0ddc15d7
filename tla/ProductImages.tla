---------------------------- MODULE ProductImages ----------------------------
(***************************************************************************)
(* The photos of one product (staffProduct.service.js, imageStorage.       *)
(* service.js): a signed URL for a fresh key, the browser's PUT straight   *)
(* to the bucket, the attachment and the removal.  The product document    *)
(* and the bucket are two stores that no transaction spans.                *)
(*                                                                         *)
(* A photo is attached with $push, which raises the document's version and *)
(* asks nothing of it; it is removed by writing the whole array back, on   *)
(* condition that the version is still the one that was read.              *)
(***************************************************************************)
EXTENDS Integers, Sequences, FiniteSets, SequencesExt

CONSTANTS PhotoRequests,
          Keys,       \* what has the product's prefix
          MaxImages   \* MAX_IMAGES_PER_PRODUCT

VARIABLES
    images,        \* product.images: a sequence of [key, order]
    bucket,        \* bucket[k]: what the object at key k is
    issued,        \* keys handed out
    photoRequest,  \* photoRequest[q]: one attach or remove; fresh says whether
                   \* the version it read is still the document's
    overlapped,    \* two requests worked on the product at once (history)
    contested      \* keys two requests worked on at once (history)

\* There is room for a photo, and finitely many people work on the product.
ASSUME PhotosAssumption == IsFiniteSet(PhotoRequests) /\ MaxImages \in Nat \ {0}

photoVars == <<images, bucket, issued, photoRequest, overlapped, contested>>

PhotoIdle == [pc |-> "idle", key |-> "none", seen |-> <<>>, fresh |-> TRUE]

PhotoInit ==
    /\ images = <<>>
    /\ bucket = [k \in Keys |-> "nothing"]
    /\ issued = {}
    /\ photoRequest = [q \in PhotoRequests |-> PhotoIdle]
    /\ overlapped = FALSE
    /\ contested = {}

KeysOf(pictures) == { pictures[i].key : i \in DOMAIN pictures }

Busy == { q \in PhotoRequests : photoRequest[q].pc # "idle" }

PhotoAnswer(q) == photoRequest' = [photoRequest EXCEPT ![q] = PhotoIdle]

\* findOrThrow: a request starts from the product as it is now.
Start(q, pc, key) ==
    /\ photoRequest[q].pc = "idle"
    /\ photoRequest' = [photoRequest EXCEPT ![q] =
            [pc |-> pc, key |-> key, seen |-> images, fresh |-> TRUE]]
    /\ overlapped' = (overlapped \/ Busy # {})
    /\ contested' = IF \E p \in Busy : photoRequest[p].key = key
                    THEN contested \cup {key} ELSE contested

\* q wrote the document and goes on with `next'; the others hold an old version.
WroteProduct(q, next) ==
    photoRequest' = [p \in PhotoRequests |->
        IF p = q THEN next
        ELSE [photoRequest[p] EXCEPT !.fresh = photoRequest[p].pc = "idle"]]

-----------------------------------------------------------------------------
(* createImageUpload writes nothing: a key nobody had, if there is room.   *)
CreateImageUpload(key) ==
    /\ Len(images) < MaxImages
    /\ key \notin issued
    /\ issued' = issued \cup {key}
    /\ UNCHANGED <<images, bucket, photoRequest, overlapped, contested>>

\* The browser, as often as it likes while its URL is good; the object may not be
\* what was declared, but type and length are signed: a second one is like the first.
Put(key) ==
    /\ key \in issued
    /\ \E object \in {"photo", "refusable"} :
        /\ bucket[key] \in {"nothing", object}
        /\ bucket' = [bucket EXCEPT ![key] = object]
    /\ UNCHANGED <<images, issued, photoRequest, overlapped, contested>>

\* The limit and the duplicate check, on the product as it was read.  Any key with
\* the product's prefix will do, issued or not.
AttachReads(q, key) ==
    /\ Start(q, "stat", key)
    /\ Len(images) < MaxImages
    /\ key \notin KeysOf(images)
    /\ UNCHANGED <<images, bucket, issued>>

\* Mutated: the browser's word is taken for it.
TrustUpload(q) ==
    LET object == bucket[photoRequest[q].key] IN
    /\ photoRequest[q].pc = "stat"
    /\ photoRequest' = [photoRequest EXCEPT
            ![q].pc = IF object = "refusable" THEN "discard" ELSE "push"]
    /\ UNCHANGED <<images, bucket, issued, overlapped, contested>>

StatObject(q) ==
    LET object == bucket[photoRequest[q].key] IN
    /\ photoRequest[q].pc = "stat"
    /\ IF object = "nothing" THEN PhotoAnswer(q)
       ELSE photoRequest' = [photoRequest EXCEPT
                ![q].pc = IF object = "photo" THEN "push" ELSE "discard"]
    /\ UNCHANGED <<images, bucket, issued, overlapped, contested>>

\* Appended to whatever the array has become; the order is the length read.
AttachPushes(q) ==
    /\ photoRequest[q].pc = "push"
    /\ images' = Append(images, [key |-> photoRequest[q].key, order |-> Len(photoRequest[q].seen)])
    /\ WroteProduct(q, PhotoIdle)
    /\ UNCHANGED <<bucket, issued, overlapped, contested>>

RemoveReads(q, key) ==
    /\ Start(q, "splice", key)
    /\ key \in KeysOf(images)
    /\ UNCHANGED <<images, bucket, issued>>

\* Mutated: the orders are left as they were.
SplicedOnly(pictures, key) ==
    RemoveAt(pictures, SelectInSeq(pictures, LAMBDA p : p.key = key))

\* splice of the first image with the key, then every order set anew.
Spliced(pictures, key) ==
    LET rest == RemoveAt(pictures, SelectInSeq(pictures, LAMBDA p : p.key = key))
    IN  [i \in DOMAIN rest |-> [key |-> rest[i].key, order |-> i - 1]]

\* Mutated: the version is not looked at.
SaveAnyVersion(q) ==
    /\ photoRequest[q].pc = "splice"
    /\ images' = Spliced(photoRequest[q].seen, photoRequest[q].key)
    /\ WroteProduct(q, [photoRequest[q] EXCEPT !.pc = "discard", !.seen = <<>>])
    /\ UNCHANGED <<bucket, issued, overlapped, contested>>

\* save(): a VersionError, before anything is deleted, if the document moved on.
RemoveSaves(q) ==
    /\ photoRequest[q].pc = "splice"
    /\ IF photoRequest[q].fresh
       THEN /\ images' = Spliced(photoRequest[q].seen, photoRequest[q].key)
            /\ WroteProduct(q, [photoRequest[q] EXCEPT !.pc = "discard", !.seen = <<>>])
       ELSE PhotoAnswer(q) /\ UNCHANGED images
    /\ UNCHANGED <<bucket, issued, overlapped, contested>>

\* deleteObject never throws: the object goes, or it is left and logged.
DeleteObject(q) ==
    /\ photoRequest[q].pc = "discard"
    /\ \/ bucket' = [bucket EXCEPT ![photoRequest[q].key] = "nothing"]
       \/ UNCHANGED bucket
    /\ PhotoAnswer(q)
    /\ UNCHANGED <<images, issued, overlapped, contested>>

\* A read, the stat or a save throws, or the process ends.
PhotoDie(q) ==
    /\ photoRequest[q].pc # "idle"
    /\ PhotoAnswer(q)
    /\ UNCHANGED <<images, bucket, issued, overlapped, contested>>

PhotoNext ==
    \/ \E key \in Keys : CreateImageUpload(key) \/ Put(key)
    \/ \E q \in PhotoRequests :
        \/ \E key \in Keys : AttachReads(q, key) \/ RemoveReads(q, key)
        \/ StatObject(q) \/ AttachPushes(q) \/ RemoveSaves(q) \/ DeleteObject(q)
        \/ PhotoDie(q)

PhotoSpec == PhotoInit /\ [][PhotoNext]_photoVars

-----------------------------------------------------------------------------
(* The catalogue shows no broken tile: every attached photo is in the      *)
(* bucket, unless two requests worked on its key at once                   *)
(* (staffProduct.service.js:286-295).                                      *)
PicturesExist ==
    \A key \in KeysOf(images) \ contested : bucket[key] = "photo"

(* Photos leave the product one at a time and by name: a removal that      *)
(* crossed with another change is refused whole rather than writing back   *)
(* an array from before it.                                                *)
NoPictureIsLost ==
    [][\A key \in KeysOf(images) \ KeysOf(images') :
        \E q \in PhotoRequests :
            /\ photoRequest[q].pc = "splice" /\ photoRequest[q].key = key
            /\ photoRequest'[q].pc = "discard"]_photoVars

(* Photos are numbered from zero without gap or repetition and no more     *)
(* than MaxImages as long as requests take turns; side by side they pass   *)
(* the limit by one photo each at most (staffProduct.service.js:299-304).  *)
TilesInOrder ==
    /\ ~overlapped => /\ Len(images) <= MaxImages
                      /\ \A i \in DOMAIN images : images[i].order = i - 1
    /\ Len(images) < MaxImages + Cardinality(PhotoRequests)
=============================================================================
