--------------------------- MODULE BackOfficeProofs ---------------------------
(***************************************************************************)
(* What goes on away from the orders, for any number of requests: the      *)
(* photos of a product, whose two stores promise each other something, the *)
(* inbox of enquiries, and the codes that customers prove their numbers by.*)
(***************************************************************************)
EXTENDS ProductImages, EnquiryInbox, OtpVerification, FiniteSetTheorems, SequenceTheorems, TLAPS
-----------------------------------------------------------------------------
(* The photos of a product (ProductImages).                                *)

Pictures == [key : Keys, order : Nat]

PhotoRequestRecords ==
    [pc : {"idle", "stat", "push", "splice", "discard"}, key : Keys \cup {"none"},
     seen : Seq(Pictures), fresh : BOOLEAN]

PhotosTypeOK ==
    /\ images \in Seq(Pictures)
    /\ bucket \in [Keys -> {"nothing", "photo", "refusable"}]
    /\ issued \subseteq Keys
    /\ photoRequest \in [PhotoRequests -> PhotoRequestRecords]
    /\ \A q \in Busy : photoRequest[q].key \in Keys
    /\ overlapped \in BOOLEAN
    /\ contested \subseteq Keys

\* What a request read is still so when no write came between.
SnapshotsAreTrue ==
    \A q \in PhotoRequests :
        /\ photoRequest[q].pc \in {"stat", "push"} => Len(photoRequest[q].seen) < MaxImages
        /\ photoRequest[q].pc = "splice" => photoRequest[q].key \in KeysOf(photoRequest[q].seen)
        /\ photoRequest[q].pc \in {"stat", "push", "splice"} /\ photoRequest[q].fresh =>
            photoRequest[q].seen = images

\* As long as requests take turns, no write comes between.
TurnsAreTaken ==
    ~overlapped =>
        /\ \A p, q \in Busy : p = q
        /\ \A q \in PhotoRequests :
            photoRequest[q].pc \in {"stat", "push", "splice"} => photoRequest[q].fresh
        /\ Len(images) <= MaxImages
        /\ \A i \in DOMAIN images : images[i].order = i - 1

Attaching == { q \in PhotoRequests : photoRequest[q].pc \in {"stat", "push"} }

\* Whoever attaches found room, and only those found it whom it still counts.
RoomIsShared == Len(images) + Cardinality(Attaching) < MaxImages + Cardinality(PhotoRequests)

\* What the two stores and the one request that works on a key know of it.
KeyIsSettled(key) ==
    /\ \A i, j \in DOMAIN images : images[i].key = key /\ images[j].key = key => i = j
    /\ \A p, q \in Busy : photoRequest[p].key = key /\ photoRequest[q].key = key => p = q
    /\ \A q \in PhotoRequests : photoRequest[q].key = key =>
        /\ photoRequest[q].pc \in {"stat", "push", "discard"} => key \notin KeysOf(images)
        /\ photoRequest[q].pc = "push" => bucket[key] = "photo"
    /\ key \in KeysOf(images) => bucket[key] = "photo"

KeysAreSettled == \A key \in Keys \ contested : KeyIsSettled(key)

PhotosInv ==
    /\ PhotosTypeOK /\ SnapshotsAreTrue /\ TurnsAreTaken /\ RoomIsShared /\ KeysAreSettled

-----------------------------------------------------------------------------
\* A set of positions has a first one.
LEMMA FirstPosition ==
  ASSUME NEW S, S \subseteq Nat, S # {}
  PROVE  Min(S) \in S /\ \A j \in S : Min(S) <= j
<1> DEFINE R == OpToRel(<, Nat)
<1>1. IsWellFoundedOn(R, Nat)
  BY NatLessThanWellFounded
<1> HIDE DEF R
<1>2. PICK m \in S : \A y \in S : ~(<<y, m>> \in R)
  BY <1>1, WFMin
<1>3. \A j \in S : m <= j
  <2> SUFFICES ASSUME NEW j \in S PROVE m <= j
    OBVIOUS
  <2>1. j \in Nat /\ m \in Nat
    OBVIOUS
  <2>2. ~(j < m)
    BY <1>2, <2>1 DEF R, OpToRel
  <2> QED
    BY <2>1, <2>2
<1> QED
  BY <1>3 DEF Min

\* A picture taken out of its place: those behind it move up by one.
LEMMA TakenOut ==
  ASSUME NEW pictures \in Seq(Pictures), NEW n \in 1..Len(pictures)
  PROVE  /\ RemoveAt(pictures, n) \in Seq(Pictures)
         /\ Len(RemoveAt(pictures, n)) = Len(pictures) - 1
         /\ \A i \in 1..(Len(pictures) - 1) : RemoveAt(pictures, n)[i] =
              IF i < n THEN pictures[i] ELSE pictures[i + 1]
<1> DEFINE front == SubSeq(pictures, 1, n - 1)
           back  == SubSeq(pictures, n + 1, Len(pictures))
<1>1. Len(pictures) \in Nat /\ n \in Nat
  OBVIOUS
<1>2. /\ front \in Seq(Pictures) /\ Len(front) = n - 1
      /\ \A i \in 1..(n - 1) : front[i] = pictures[i]
  BY <1>1
<1>3. /\ back \in Seq(Pictures) /\ Len(back) = Len(pictures) - n
      /\ \A i \in 1..(Len(pictures) - n) : back[i] = pictures[n + i]
  BY <1>1
<1> HIDE DEF front, back
<1>4. /\ front \o back \in Seq(Pictures)
      /\ Len(front \o back) = Len(pictures) - 1
      /\ \A i \in 1..(Len(pictures) - 1) :
          (front \o back)[i] = IF i < n THEN front[i] ELSE back[i - (n - 1)]
  <2>1. /\ front \o back \in Seq(Pictures)
        /\ Len(front \o back) = Len(front) + Len(back)
        /\ \A i \in 1..(Len(front) + Len(back)) :
            (front \o back)[i] = IF i <= Len(front) THEN front[i] ELSE back[i - Len(front)]
    BY <1>2, <1>3, ConcatProperties
  <2>2. Len(front) + Len(back) = Len(pictures) - 1
    BY <1>1, <1>2, <1>3
  <2> QED
    BY <1>1, <1>2, <2>1, <2>2
<1>5. \A i \in 1..(Len(pictures) - 1) :
        (front \o back)[i] = IF i < n THEN pictures[i] ELSE pictures[i + 1]
  BY <1>1, <1>2, <1>3, <1>4
<1> QED
  BY <1>4, <1>5 DEF RemoveAt, front, back

\* The picture that a removal takes out is the first with its key.
LEMMA SplicedPictures ==
  ASSUME NEW pictures \in Seq(Pictures), NEW key \in KeysOf(pictures)
  PROVE  \E n \in 1..Len(pictures) :
          /\ pictures[n].key = key
          /\ Spliced(pictures, key) \in Seq(Pictures)
          /\ Len(Spliced(pictures, key)) = Len(pictures) - 1
          /\ \A i \in 1..(Len(pictures) - 1) :
              /\ Spliced(pictures, key)[i].order = i - 1
              /\ Spliced(pictures, key)[i].key =
                  IF i < n THEN pictures[i].key ELSE pictures[i + 1].key
<1> DEFINE I == { i \in 1..Len(pictures) : pictures[i].key = key }
           n == Min(I)
           rest == RemoveAt(pictures, n)
<1>1. I \subseteq Nat /\ I # {}
  BY DEF KeysOf
<1>2. n \in I
  BY <1>1, FirstPosition
<1>3. SelectInSeq(pictures, LAMBDA p : p.key = key) = n
  BY <1>1 DEF SelectInSeq
<1>4. Spliced(pictures, key) = [i \in DOMAIN rest |-> [key |-> rest[i].key, order |-> i - 1]]
  BY <1>3 DEF Spliced
<1>5. n \in 1..Len(pictures) /\ pictures[n].key = key
  BY <1>2
<1> HIDE DEF n
<1>6. /\ rest \in Seq(Pictures) /\ Len(rest) = Len(pictures) - 1
      /\ \A i \in 1..(Len(pictures) - 1) :
          rest[i] = IF i < n THEN pictures[i] ELSE pictures[i + 1]
  BY <1>5, TakenOut
<1> HIDE DEF rest
<1>7. \A p \in Pictures : p.key \in Keys
  BY DEF Pictures
<1>8. \A i \in DOMAIN rest : rest[i].key \in Keys /\ i - 1 \in Nat
  BY <1>6, <1>7
<1>9. \A i \in DOMAIN rest : [key |-> rest[i].key, order |-> i - 1] \in Pictures
  BY <1>8 DEF Pictures
<1>10. Spliced(pictures, key) \in Seq(Pictures) /\ Len(Spliced(pictures, key)) = Len(rest)
  <2> DEFINE spliced == [i \in DOMAIN rest |-> [key |-> rest[i].key, order |-> i - 1]]
             len == Len(rest)
  <2>1. DOMAIN rest = 1..len /\ len \in Nat
    BY <1>6
  <2>2. spliced \in [1..len -> Pictures]
    BY <1>9, <2>1
  <2> HIDE DEF spliced, len
  <2>3. spliced \in Seq(Pictures) /\ Len(spliced) = len
    BY <2>1, <2>2, SeqDef
  <2> QED
    BY <1>4, <2>3 DEF spliced, len
<1>11. \A i \in 1..(Len(pictures) - 1) :
        /\ Spliced(pictures, key)[i].order = i - 1
        /\ Spliced(pictures, key)[i].key = rest[i].key
  BY <1>4, <1>6
<1> QED
  BY <1>5, <1>6, <1>10, <1>11

-----------------------------------------------------------------------------
LEMMA IdleRecord ==
  /\ PhotoIdle \in PhotoRequestRecords /\ PhotoIdle.pc = "idle" /\ PhotoIdle.key = "none"
BY DEF PhotoIdle, PhotoRequestRecords

LEMMA PhotosBegin == ASSUME PhotoInit PROVE PhotosInv
<1>1. /\ \A q \in PhotoRequests : photoRequest[q] = PhotoIdle /\ photoRequest[q].pc = "idle"
      /\ Busy = {} /\ Len(images) = 0
  BY IdleRecord DEF PhotoInit, Busy
<1>4. PhotosTypeOK /\ SnapshotsAreTrue
  <2>1. photoRequest \in [PhotoRequests -> PhotoRequestRecords]
    BY IdleRecord DEF PhotoInit
  <2>2. images \in Seq(Pictures) /\ bucket \in [Keys -> {"nothing", "photo", "refusable"}]
    BY DEF PhotoInit
  <2> QED
    BY <1>1, <2>1, <2>2 DEF PhotoInit, PhotosTypeOK, SnapshotsAreTrue
<1>5. TurnsAreTaken
  BY <1>1, PhotosAssumption DEF PhotoInit, TurnsAreTaken
<1>2. RoomIsShared
  <2>1. Attaching = {} /\ Len(images) = 0
    BY DEF PhotoInit, PhotoIdle, Attaching
  <2> QED
    BY <2>1, FS_EmptySet, FS_CardinalityType, PhotosAssumption DEF RoomIsShared
<1>3. KeysAreSettled
  BY DEF PhotoInit, PhotoIdle, KeysAreSettled, KeyIsSettled, KeysOf, Busy
<1> QED
  BY <1>2, <1>3, <1>4, <1>5 DEF PhotosInv

\* One request changes, the others go on.
LEMMA ChangeOne ==
  ASSUME PhotosTypeOK, NEW q \in PhotoRequests, NEW r \in PhotoRequestRecords,
         photoRequest' = [photoRequest EXCEPT ![q] = r]
  PROVE  /\ photoRequest' \in [PhotoRequests -> PhotoRequestRecords] /\ photoRequest'[q] = r
         /\ \A p \in PhotoRequests : p # q => photoRequest'[p] = photoRequest[p]
BY DEF PhotosTypeOK

LEMMA AttachingIsFinite ==
  ASSUME NEW S \in SUBSET PhotoRequests
  PROVE  /\ IsFiniteSet(S) /\ Cardinality(S) \in Nat
         /\ Cardinality(PhotoRequests) \in Nat /\ Cardinality(S) <= Cardinality(PhotoRequests)
BY FS_Subset, FS_CardinalityType, PhotosAssumption

\* Nobody new attaches, and the photos are as many or fewer.
LEMMA RoomIsKept ==
  ASSUME PhotosInv, Attaching' \subseteq Attaching,
         Len(images') \in Nat, Len(images') <= Len(images)
  PROVE  RoomIsShared'
<1>1. Attaching \in SUBSET PhotoRequests /\ Attaching' \in SUBSET PhotoRequests
  BY DEF Attaching
<1>2. /\ IsFiniteSet(Attaching) /\ Cardinality(Attaching) \in Nat
      /\ Cardinality(Attaching') \in Nat /\ Cardinality(PhotoRequests) \in Nat
  BY <1>1, AttachingIsFinite
<1>3. Cardinality(Attaching') <= Cardinality(Attaching)
  BY <1>2, FS_Subset
<1>4. Len(images) \in Nat /\ MaxImages \in Nat
  BY PhotosAssumption DEF PhotosInv, PhotosTypeOK
<1> QED
  BY <1>2, <1>3, <1>4 DEF PhotosInv, RoomIsShared

\* A URL is handed out, or used: nothing that is attached or checked changes.
LEMMA UploadStep ==
  ASSUME PhotosInv, NEW key \in Keys,
         CreateImageUpload(key) \/ Put(key)
  PROVE  PhotosInv'
<1>1. /\ images' = images /\ photoRequest' = photoRequest
      /\ overlapped' = overlapped /\ contested' = contested
      /\ issued' \subseteq Keys
      /\ bucket' \in [Keys -> {"nothing", "photo", "refusable"}]
      /\ \A k \in Keys : bucket[k] = "photo" => bucket'[k] = "photo"
  BY DEF PhotosInv, PhotosTypeOK, CreateImageUpload, Put
<1>2. PhotosTypeOK' /\ SnapshotsAreTrue' /\ TurnsAreTaken'
  BY <1>1 DEF PhotosInv, PhotosTypeOK, SnapshotsAreTrue, TurnsAreTaken, Busy
<1>3. RoomIsShared'
  BY <1>1 DEF PhotosInv, RoomIsShared, Attaching
<1>4. KeysAreSettled'
  <2> SUFFICES ASSUME NEW k \in Keys \ contested PROVE KeyIsSettled(k)'
    BY <1>1 DEF KeysAreSettled
  <2>1. KeyIsSettled(k)
    BY DEF PhotosInv, KeysAreSettled
  <2> QED
    BY <1>1, <2>1 DEF KeyIsSettled, Busy
<1> QED
  BY <1>2, <1>3, <1>4 DEF PhotosInv

Started(pc, key) == [pc |-> pc, key |-> key, seen |-> images, fresh |-> TRUE]

\* A request reads the product, to attach a photo or to take one off.
LEMMA ReadStep ==
  ASSUME PhotosInv, NEW q \in PhotoRequests, NEW key \in Keys,
         NEW pc \in {"stat", "splice"}, Start(q, pc, key),
         UNCHANGED <<images, bucket, issued>>,
         pc = "stat" => Len(images) < MaxImages /\ key \notin KeysOf(images),
         pc = "splice" => key \in KeysOf(images)
  PROVE  PhotosInv'
<1> DEFINE r == Started(pc, key)
<1>1. PhotosTypeOK
  BY DEF PhotosInv
<1>2. /\ r \in PhotoRequestRecords /\ r.pc = pc /\ r.key = key /\ r.seen = images
      /\ r.fresh = TRUE
  BY <1>1 DEF PhotosTypeOK, Started, PhotoRequestRecords
<1>3. photoRequest[q].pc = "idle" /\ photoRequest' = [photoRequest EXCEPT ![q] = r]
  BY DEF Start, Started
<1>4. /\ overlapped' \in BOOLEAN /\ (~overlapped' => ~overlapped /\ Busy = {})
      /\ contested \subseteq contested' /\ contested' \subseteq Keys
      /\ key \notin contested' => \A p \in Busy : photoRequest[p].key # key
  BY <1>1 DEF Start, PhotosTypeOK
<1>5. images' = images /\ bucket' = bucket /\ issued' = issued
  OBVIOUS
<1> HIDE DEF r
<1>6. /\ photoRequest' \in [PhotoRequests -> PhotoRequestRecords] /\ photoRequest'[q] = r
      /\ \A p \in PhotoRequests : p # q => photoRequest'[p] = photoRequest[p]
  BY <1>1, <1>2, <1>3, ChangeOne
<1>7. Busy' = Busy \cup {q} /\ Busy \subseteq PhotoRequests \ {q}
  BY <1>2, <1>3, <1>6 DEF Busy
<1>8. PhotosTypeOK'
  BY <1>1, <1>2, <1>4, <1>5, <1>6, <1>7 DEF PhotosTypeOK
<1>9. SnapshotsAreTrue'
  BY <1>2, <1>5, <1>6 DEF PhotosInv, SnapshotsAreTrue
<1>10. TurnsAreTaken'
  <2> SUFFICES ASSUME ~overlapped'
               PROVE  /\ \A p, o \in Busy' : p = o
                      /\ \A p \in PhotoRequests :
                          photoRequest'[p].pc \in {"stat", "push", "splice"} => photoRequest'[p].fresh
                      /\ Len(images') <= MaxImages
                      /\ \A i \in DOMAIN images' : images'[i].order = i - 1
    BY DEF TurnsAreTaken
  <2>1. ~overlapped /\ Busy' = {q}
    BY <1>4, <1>7
  <2> QED
    BY <1>2, <1>5, <1>6, <2>1 DEF PhotosInv, TurnsAreTaken, Busy
<1>11. RoomIsShared'
  <2>1. CASE pc = "splice"
    <3>1. Attaching' \subseteq Attaching
      BY <1>2, <1>6, <2>1 DEF Attaching
    <3> QED
      BY <1>1, <1>5, <3>1, RoomIsKept DEF PhotosTypeOK
  <2>2. CASE pc = "stat"
    <3>1. Len(images) \in Nat /\ Len(images) < MaxImages /\ MaxImages \in Nat
      BY <1>1, <2>2, PhotosAssumption DEF PhotosTypeOK
    <3>2. Attaching' \in SUBSET PhotoRequests
      BY DEF Attaching
    <3>3. /\ Cardinality(Attaching') \in Nat /\ Cardinality(PhotoRequests) \in Nat
          /\ Cardinality(Attaching') <= Cardinality(PhotoRequests)
      BY <3>2, AttachingIsFinite
    <3> QED
      BY <1>5, <3>1, <3>3 DEF RoomIsShared
  <2> QED
    BY <2>1, <2>2
<1>12. KeysAreSettled'
  <2> SUFFICES ASSUME NEW k \in Keys \ contested' PROVE KeyIsSettled(k)'
    BY DEF KeysAreSettled
  <2>1. KeyIsSettled(k)
    BY <1>4 DEF PhotosInv, KeysAreSettled
  <2>2. \A p, o \in Busy' : photoRequest'[p].key = k /\ photoRequest'[o].key = k => p = o
    BY <1>2, <1>4, <1>6, <1>7, <2>1 DEF KeyIsSettled
  <2>3. \A p \in PhotoRequests : photoRequest'[p].key = k =>
          /\ photoRequest'[p].pc \in {"stat", "push", "discard"} => k \notin KeysOf(images)
          /\ photoRequest'[p].pc = "push" => bucket[k] = "photo"
    BY <1>2, <1>6, <2>1 DEF KeyIsSettled
  <2> QED
    BY <1>5, <2>1, <2>2, <2>3 DEF KeyIsSettled
<1> QED
  BY <1>8, <1>9, <1>10, <1>11, <1>12 DEF PhotosInv

\* A request goes on or ends, and the product stays: from stat to push or to
\* discard, or to its answer.
LEMMA RestStep ==
  ASSUME PhotosInv, NEW q \in PhotoRequests, NEW r \in PhotoRequestRecords,
         photoRequest[q].pc # "idle", photoRequest' = [photoRequest EXCEPT ![q] = r],
         UNCHANGED <<images, issued, overlapped, contested>>,
         bucket' \in [Keys -> {"nothing", "photo", "refusable"}],
         \/ r = PhotoIdle
         \/ /\ photoRequest[q].pc = "stat" /\ r.pc \in {"push", "discard"}
            /\ r.key = photoRequest[q].key /\ r.seen = photoRequest[q].seen
            /\ r.fresh = photoRequest[q].fresh
            /\ r.pc = "push" => bucket[r.key] = "photo",
         \A key \in Keys :
            \/ bucket'[key] = bucket[key]
            \/ photoRequest[q].pc = "discard" /\ photoRequest[q].key = key /\ r = PhotoIdle
  PROVE  PhotosInv'
<1>1. PhotosTypeOK /\ images' = images
  BY DEF PhotosInv
<1>2. /\ photoRequest' \in [PhotoRequests -> PhotoRequestRecords] /\ photoRequest'[q] = r
      /\ \A p \in PhotoRequests : p # q => photoRequest'[p] = photoRequest[p]
  BY <1>1, ChangeOne
<1>3. q \in Busy /\ Busy' \subseteq Busy
  BY <1>2 DEF Busy
<1>4. PhotosTypeOK'
  BY <1>1, <1>2, <1>3, IdleRecord DEF PhotosTypeOK, Busy
<1>5. SnapshotsAreTrue'
  BY <1>1, <1>2, IdleRecord DEF PhotosInv, SnapshotsAreTrue
<1>6. TurnsAreTaken'
  BY <1>1, <1>2, <1>3, IdleRecord DEF PhotosInv, TurnsAreTaken
<1>7. RoomIsShared'
  <2>1. Attaching' \subseteq Attaching
    BY <1>2, IdleRecord DEF Attaching
  <2> QED
    BY <1>1, <2>1, RoomIsKept DEF PhotosTypeOK
<1>8. KeysAreSettled'
  <2> SUFFICES ASSUME NEW k \in Keys \ contested PROVE KeyIsSettled(k)'
    BY DEF KeysAreSettled
  <2>1. KeyIsSettled(k)
    BY DEF PhotosInv, KeysAreSettled
  <2>2. \A p, o \in Busy' : photoRequest'[p].key = k /\ photoRequest'[o].key = k => p = o
    <3>1. \A p \in Busy' : photoRequest'[p].key = photoRequest[p].key
      BY <1>2, IdleRecord DEF Busy
    <3> QED
      BY <1>3, <2>1, <3>1 DEF KeyIsSettled
  <2>3. ASSUME NEW p \in PhotoRequests, photoRequest'[p].key = k, p \in Busy'
        PROVE  /\ photoRequest'[p].pc \in {"stat", "push", "discard"} => k \notin KeysOf(images)
               /\ photoRequest'[p].pc = "push" => bucket'[k] = "photo"
    <3>1. CASE p = q
      <4>1. /\ photoRequest[q].pc = "stat" /\ photoRequest[q].key = k /\ r.key = k
            /\ r.pc = "push" => bucket[k] = "photo"
        BY <1>2, <2>3, <3>1, IdleRecord DEF Busy
      <4> QED
        BY <1>2, <2>1, <3>1, <4>1 DEF KeyIsSettled
    <3>2. CASE p # q
      <4>1. photoRequest'[p] = photoRequest[p] /\ photoRequest[q].key # k
        BY <1>2, <1>3, <2>1, <2>3, <3>2 DEF KeyIsSettled
      <4> QED
        BY <2>1, <2>3, <4>1 DEF KeyIsSettled
    <3> QED
      BY <3>1, <3>2
  <2>4. k \in KeysOf(images) => bucket'[k] = "photo"
    BY <2>1 DEF KeyIsSettled
  <2>5. \A p \in PhotoRequests \ Busy' : photoRequest'[p].pc = "idle"
    BY DEF Busy
  <2> QED
    BY <1>1, <2>1, <2>2, <2>3, <2>4, <2>5 DEF KeyIsSettled
<1> QED
  BY <1>1, <1>4, <1>5, <1>6, <1>7, <1>8 DEF PhotosInv

Stale(r) == [r EXCEPT !.fresh = r.pc = "idle"]

LEMMA StaleRecord ==
  ASSUME NEW r \in PhotoRequestRecords
  PROVE  /\ Stale(r) \in PhotoRequestRecords /\ Stale(r).pc = r.pc /\ Stale(r).key = r.key
         /\ Stale(r).seen = r.seen /\ (r.pc # "idle" => ~Stale(r).fresh)
<1>1. (r.pc = "idle") \in BOOLEAN
  OBVIOUS
<1> QED
  BY <1>1 DEF Stale, PhotoRequestRecords

\* q wrote the product: what the others read before is old.
LEMMA Wrote ==
  ASSUME PhotosTypeOK, NEW q \in PhotoRequests, NEW next \in PhotoRequestRecords, WroteProduct(q, next)
  PROVE  /\ photoRequest' \in [PhotoRequests -> PhotoRequestRecords] /\ photoRequest'[q] = next
         /\ \A p \in PhotoRequests : p # q =>
             /\ photoRequest'[p].pc = photoRequest[p].pc /\ photoRequest'[p].key = photoRequest[p].key
             /\ photoRequest'[p].seen = photoRequest[p].seen
             /\ photoRequest[p].pc # "idle" => ~photoRequest'[p].fresh
<1> DEFINE r(p) == IF p = q THEN next ELSE Stale(photoRequest[p])
<1>1. photoRequest' = [p \in PhotoRequests |-> r(p)]
  BY DEF WroteProduct, Stale
<1>2. \A p \in PhotoRequests : photoRequest[p] \in PhotoRequestRecords
  BY DEF PhotosTypeOK
<1>3. \A p \in PhotoRequests : r(p) \in PhotoRequestRecords
  BY <1>2, StaleRecord
<1>4. r(q) = next /\ \A p \in PhotoRequests : p # q => r(p) = Stale(photoRequest[p])
  OBVIOUS
<1> HIDE DEF r
<1>5. /\ photoRequest' \in [PhotoRequests -> PhotoRequestRecords]
      /\ \A p \in PhotoRequests : photoRequest'[p] = r(p)
  BY <1>1, <1>3
<1> QED
  BY <1>2, <1>4, <1>5, StaleRecord

\* The write of a request in its turn, from images it knows to images it makes.
LEMMA WriteStep ==
  ASSUME PhotosInv, NEW q \in PhotoRequests, photoRequest[q].pc \in {"push", "splice"},
         NEW next \in PhotoRequestRecords, WroteProduct(q, next),
         next.pc \in {"idle", "discard"},
         next.pc = "discard" => next.key = photoRequest[q].key,
         UNCHANGED <<bucket, issued, overlapped, contested>>,
         images' \in Seq(Pictures),
         RoomIsShared',
         ~overlapped => /\ Len(images') <= MaxImages
                        /\ \A i \in DOMAIN images' : images'[i].order = i - 1,
         \A key \in Keys \ contested :
             /\ \A i, j \in DOMAIN images' :
                 images'[i].key = key /\ images'[j].key = key => i = j
             /\ photoRequest[q].key # key /\ key \in KeysOf(images') => key \in KeysOf(images)
             /\ photoRequest[q].key = key /\ key \in KeysOf(images') => bucket[key] = "photo"
             /\ photoRequest[q].key = key /\ next.pc = "discard" => key \notin KeysOf(images')
  PROVE  PhotosInv'
<1>1. PhotosTypeOK /\ q \in Busy
  BY DEF PhotosInv, Busy
<1>2. /\ photoRequest' \in [PhotoRequests -> PhotoRequestRecords] /\ photoRequest'[q] = next
      /\ \A p \in PhotoRequests : p # q =>
          /\ photoRequest'[p].pc = photoRequest[p].pc /\ photoRequest'[p].key = photoRequest[p].key
          /\ photoRequest'[p].seen = photoRequest[p].seen
          /\ photoRequest[p].pc # "idle" => ~photoRequest'[p].fresh
  BY <1>1, Wrote
<1>3. Busy' \subseteq Busy /\ \A p \in Busy' : photoRequest'[p].key = photoRequest[p].key
  BY <1>1, <1>2 DEF Busy
<1>4. PhotosTypeOK'
  BY <1>1, <1>2, <1>3 DEF PhotosTypeOK
<1>5. SnapshotsAreTrue'
  BY <1>2 DEF PhotosInv, SnapshotsAreTrue
<1>6. TurnsAreTaken'
  <2> SUFFICES ASSUME ~overlapped
               PROVE  /\ \A p, o \in Busy' : p = o
                      /\ \A p \in PhotoRequests :
                          photoRequest'[p].pc \in {"stat", "push", "splice"} => photoRequest'[p].fresh
    BY DEF TurnsAreTaken
  <2>1. \A p \in Busy : p = q
    BY <1>1 DEF PhotosInv, TurnsAreTaken
  <2> QED
    BY <1>2, <1>3, <2>1 DEF Busy
<1>7. KeysAreSettled'
  <2> SUFFICES ASSUME NEW k \in Keys \ contested PROVE KeyIsSettled(k)'
    BY DEF KeysAreSettled
  <2>1. KeyIsSettled(k)
    BY DEF PhotosInv, KeysAreSettled
  <2>2. \A p, o \in Busy' : photoRequest'[p].key = k /\ photoRequest'[o].key = k => p = o
    BY <1>3, <2>1 DEF KeyIsSettled
  <2>3. ASSUME NEW p \in Busy', photoRequest'[p].key = k
        PROVE  /\ photoRequest'[p].pc \in {"stat", "push", "discard"} => k \notin KeysOf(images')
               /\ photoRequest'[p].pc = "push" => bucket[k] = "photo"
    <3>1. CASE p = q
      BY <1>2, <1>3, <2>3, <3>1
    <3>2. CASE p # q
      <4>1. p \in PhotoRequests /\ photoRequest[p].key = k /\ photoRequest[q].key # k
        BY <1>1, <1>3, <2>1, <2>3, <3>2 DEF KeyIsSettled, Busy
      <4> QED
        BY <1>2, <2>1, <3>2, <4>1 DEF KeyIsSettled
    <3> QED
      BY <3>1, <3>2
  <2>4. k \in KeysOf(images') => bucket[k] = "photo"
    BY <2>1 DEF KeyIsSettled
  <2>5. \A p \in PhotoRequests \ Busy' : photoRequest'[p].pc = "idle"
    BY DEF Busy
  <2> QED
    BY <2>2, <2>3, <2>4, <2>5 DEF KeyIsSettled
<1> QED
  BY <1>4, <1>5, <1>6, <1>7 DEF PhotosInv

\* A photo is attached behind the others.
LEMMA PushStep ==
  ASSUME PhotosInv, NEW q \in PhotoRequests, AttachPushes(q)
  PROVE  PhotosInv'
<1> DEFINE k == photoRequest[q].key
           picture == [key |-> k, order |-> Len(photoRequest[q].seen)]
<1>1. /\ photoRequest[q].pc = "push" /\ images' = Append(images, picture) /\ WroteProduct(q, PhotoIdle)
      /\ UNCHANGED <<bucket, issued, overlapped, contested>>
  BY DEF AttachPushes
<1>2. /\ PhotosTypeOK /\ q \in Busy /\ k \in Keys /\ images \in Seq(Pictures)
      /\ photoRequest[q].seen \in Seq(Pictures) /\ MaxImages \in Nat /\ Len(images) \in Nat
  BY <1>1, PhotosAssumption DEF PhotosInv, PhotosTypeOK, Busy, PhotoRequestRecords
<1>3. /\ picture \in Pictures /\ picture.key = k /\ picture.order = Len(photoRequest[q].seen)
  BY <1>2 DEF Pictures
<1> HIDE DEF picture
<1>4. /\ images' \in Seq(Pictures) /\ Len(images') = Len(images) + 1
      /\ images'[Len(images) + 1] = picture
      /\ \A i \in DOMAIN images : images'[i] = images[i]
      /\ DOMAIN images' = DOMAIN images \cup {Len(images) + 1}
      /\ Len(images) + 1 \notin DOMAIN images
  BY <1>1, <1>2, <1>3
<1>5. /\ photoRequest'[q] = PhotoIdle
      /\ \A p \in PhotoRequests : p # q => photoRequest'[p].pc = photoRequest[p].pc
  BY <1>1, <1>2, Wrote, IdleRecord
<1>6. RoomIsShared'
  <2>1. Attaching' = Attaching \ {q} /\ q \in Attaching /\ Attaching \in SUBSET PhotoRequests
    BY <1>1, <1>5, IdleRecord DEF Attaching
  <2>2. /\ IsFiniteSet(Attaching) /\ Cardinality(Attaching) \in Nat
        /\ Cardinality(PhotoRequests) \in Nat
    BY <2>1, AttachingIsFinite
  <2>3. Cardinality(Attaching \ {q}) = Cardinality(Attaching) - 1
    BY <2>1, <2>2, FS_RemoveElement
  <2>4. Len(images) + Cardinality(Attaching) < MaxImages + Cardinality(PhotoRequests)
    BY DEF PhotosInv, RoomIsShared
  <2> QED
    BY <1>2, <1>4, <2>1, <2>2, <2>3, <2>4 DEF RoomIsShared
<1>7. ~overlapped => /\ Len(images') <= MaxImages
                     /\ \A i \in DOMAIN images' : images'[i].order = i - 1
  <2> SUFFICES ASSUME ~overlapped
               PROVE  /\ Len(images') <= MaxImages
                      /\ \A i \in DOMAIN images' : images'[i].order = i - 1
    OBVIOUS
  <2>1. photoRequest[q].seen = images /\ Len(images) < MaxImages
    BY <1>1 DEF PhotosInv, TurnsAreTaken, SnapshotsAreTrue
  <2>2. picture.order = Len(images)
    BY <1>3, <2>1
  <2> QED
    BY <1>2, <1>4, <2>1, <2>2 DEF PhotosInv, TurnsAreTaken
<1>8. KeysOf(images') = KeysOf(images) \cup {k}
  BY <1>3, <1>4 DEF KeysOf
<1>9. ASSUME NEW key \in Keys \ contested
      PROVE  /\ \A i, j \in DOMAIN images' :
                 images'[i].key = key /\ images'[j].key = key => i = j
             /\ k = key => bucket[key] = "photo"
  <2>1. KeyIsSettled(key)
    BY DEF PhotosInv, KeysAreSettled
  <2>2. k = key => key \notin KeysOf(images) /\ bucket[key] = "photo"
    BY <1>1, <2>1 DEF KeyIsSettled
  <2>3. \A i \in DOMAIN images : images[i].key = key => k # key
    BY <2>2 DEF KeysOf
  <2> QED
    BY <1>3, <1>4, <2>1, <2>2, <2>3 DEF KeyIsSettled
<1> QED
  BY <1>1, <1>4, <1>6, <1>7, <1>8, <1>9, WriteStep, IdleRecord

Discarding(r) == [r EXCEPT !.pc = "discard", !.seen = <<>>]
GoesOn(r, pc) == [r EXCEPT !.pc = pc]

LEMMA DiscardRecord ==
  ASSUME NEW r \in PhotoRequestRecords, NEW pc \in {"push", "discard"}
  PROVE  /\ Discarding(r) \in PhotoRequestRecords /\ Discarding(r).pc = "discard"
         /\ Discarding(r).key = r.key
         /\ GoesOn(r, pc) \in PhotoRequestRecords /\ GoesOn(r, pc).pc = pc
         /\ GoesOn(r, pc).key = r.key /\ GoesOn(r, pc).seen = r.seen
         /\ GoesOn(r, pc).fresh = r.fresh
<1>1. <<>> \in Seq(Pictures)
  OBVIOUS
<1>2. /\ Discarding(r) \in PhotoRequestRecords /\ Discarding(r).pc = "discard"
      /\ Discarding(r).key = r.key
  BY <1>1 DEF Discarding, PhotoRequestRecords
<1>3. /\ GoesOn(r, pc) \in PhotoRequestRecords /\ GoesOn(r, pc).pc = pc
      /\ GoesOn(r, pc).key = r.key /\ GoesOn(r, pc).seen = r.seen
      /\ GoesOn(r, pc).fresh = r.fresh
  BY DEF GoesOn, PhotoRequestRecords
<1> QED
  BY <1>2, <1>3

\* Whoever still holds the newest version takes its photo out of that one.
LEMMA RemovedPicture ==
  ASSUME PhotosInv, NEW q \in PhotoRequests, RemoveSaves(q), photoRequest[q].fresh
  PROVE  /\ photoRequest[q].key \in KeysOf(images)
         /\ images' = Spliced(images, photoRequest[q].key)
         /\ WroteProduct(q, Discarding(photoRequest[q]))
BY DEF PhotosInv, SnapshotsAreTrue, RemoveSaves, Discarding

LEMMA SpliceStep ==
  ASSUME PhotosInv, NEW q \in PhotoRequests, RemoveSaves(q), photoRequest[q].fresh
  PROVE  PhotosInv'
<1> DEFINE k == photoRequest[q].key
           next == Discarding(photoRequest[q])
           len == Len(images) - 1
           f(i, n) == IF i < n THEN i ELSE i + 1
<1>1. /\ photoRequest[q].pc = "splice" /\ k \in KeysOf(images) /\ images' = Spliced(images, k)
      /\ WroteProduct(q, next)
      /\ UNCHANGED <<bucket, issued, overlapped, contested>>
  BY RemovedPicture DEF RemoveSaves
<1>2. /\ PhotosTypeOK /\ images \in Seq(Pictures) /\ Len(images) \in Nat
      /\ photoRequest[q] \in PhotoRequestRecords
  BY DEF PhotosInv, PhotosTypeOK
<1>3. next \in PhotoRequestRecords /\ next.pc = "discard" /\ next.key = k
  BY <1>2, DiscardRecord
<1> HIDE DEF k, next
<1>4. PICK n \in 1..Len(images) :
        /\ images[n].key = k
        /\ images' \in Seq(Pictures) /\ Len(images') = len
        /\ \A i \in 1..len :
            /\ images'[i].order = i - 1
            /\ images'[i].key = IF i < n THEN images[i].key ELSE images[i + 1].key
  BY <1>1, <1>2, SplicedPictures
<1>5. /\ len \in Nat /\ len < Len(images)
      /\ DOMAIN images' = 1..len /\ DOMAIN images = 1..Len(images)
  BY <1>2, <1>4
<1>6. /\ \A i \in 1..len : /\ f(i, n) \in DOMAIN images /\ f(i, n) # n
                           /\ images'[i].key = images[f(i, n)].key
      /\ \A i, j \in 1..len : f(i, n) = f(j, n) => i = j
  BY <1>2, <1>4, <1>5
<1> HIDE DEF f, len
<1>7. \A p \in PhotoRequests : p # q => photoRequest'[p].pc = photoRequest[p].pc
  BY <1>1, <1>2, <1>3, Wrote
<1>8. photoRequest'[q] = next
  BY <1>1, <1>2, <1>3, Wrote
<1>9. RoomIsShared'
  <2>1. Attaching' \subseteq Attaching
    BY <1>3, <1>7, <1>8 DEF Attaching
  <2> QED
    BY <1>4, <1>5, <1>2, <2>1, RoomIsKept
<1>10. ~overlapped => /\ Len(images') <= MaxImages
                      /\ \A i \in DOMAIN images' : images'[i].order = i - 1
  BY <1>2, <1>4, <1>5, PhotosAssumption DEF PhotosInv, TurnsAreTaken
<1>11. KeysOf(images') \subseteq KeysOf(images)
  BY <1>5, <1>6 DEF KeysOf
<1>12. ASSUME NEW key \in Keys \ contested
       PROVE  /\ \A i, j \in DOMAIN images' :
                  images'[i].key = key /\ images'[j].key = key => i = j
              /\ k = key => key \notin KeysOf(images')
  <2>1. \A i, j \in DOMAIN images : images[i].key = key /\ images[j].key = key => i = j
    BY DEF PhotosInv, KeysAreSettled, KeyIsSettled
  <2>2. \A i, j \in DOMAIN images' :
          images'[i].key = key /\ images'[j].key = key => i = j
    BY <1>5, <1>6, <2>1
  <2>3. k = key => \A i \in DOMAIN images' : images'[i].key # key
    BY <1>4, <1>5, <1>6, <2>1
  <2> QED
    BY <2>2, <2>3 DEF KeysOf
<1> QED
  BY <1>1, <1>3, <1>4, <1>9, <1>10, <1>11, <1>12, WriteStep DEF k

\* A request that ends, with the object it discards or without.
LEMMA AnswerStep ==
  ASSUME PhotosInv, NEW q \in PhotoRequests, photoRequest[q].pc # "idle", PhotoAnswer(q),
         UNCHANGED <<images, issued, overlapped, contested>>,
         bucket' \in [Keys -> {"nothing", "photo", "refusable"}],
         \A key \in Keys :
            \/ bucket'[key] = bucket[key]
            \/ photoRequest[q].pc = "discard" /\ photoRequest[q].key = key
  PROVE  PhotosInv'
<1>1. photoRequest' = [photoRequest EXCEPT ![q] = PhotoIdle] /\ PhotoIdle \in PhotoRequestRecords
  BY IdleRecord DEF PhotoAnswer
<1> QED
  BY <1>1, RestStep

LEMMA PhotosStep == ASSUME PhotosInv, [PhotoNext]_photoVars PROVE PhotosInv'
<1>1. PhotosTypeOK /\ \A q \in PhotoRequests : photoRequest[q] \in PhotoRequestRecords
  BY DEF PhotosInv, PhotosTypeOK
<1>2. CASE UNCHANGED photoVars
  <2>1. /\ images' = images /\ bucket' = bucket /\ issued' = issued /\ photoRequest' = photoRequest
        /\ overlapped' = overlapped /\ contested' = contested
    BY <1>2 DEF photoVars
  <2>2. PhotosTypeOK' /\ SnapshotsAreTrue' /\ TurnsAreTaken' /\ RoomIsShared'
    BY <2>1 DEF PhotosInv, PhotosTypeOK, SnapshotsAreTrue, TurnsAreTaken, RoomIsShared, Busy,
                Attaching
  <2>3. KeysAreSettled'
    BY <2>1 DEF PhotosInv, KeysAreSettled, KeyIsSettled, Busy
  <2> QED
    BY <2>2, <2>3 DEF PhotosInv
<1>3. ASSUME NEW key \in Keys, CreateImageUpload(key) \/ Put(key) PROVE PhotosInv'
  BY <1>3, UploadStep
<1>4. ASSUME NEW q \in PhotoRequests, NEW key \in Keys, AttachReads(q, key) PROVE PhotosInv'
  BY <1>4, ReadStep DEF AttachReads
<1>5. ASSUME NEW q \in PhotoRequests, NEW key \in Keys, RemoveReads(q, key) PROVE PhotosInv'
  BY <1>5, ReadStep DEF RemoveReads
<1>6. ASSUME NEW q \in PhotoRequests, StatObject(q) PROVE PhotosInv'
  <2> DEFINE object == bucket[photoRequest[q].key]
             pc == IF object = "photo" THEN "push" ELSE "discard"
  <2>1. /\ photoRequest[q].pc = "stat" /\ UNCHANGED <<images, bucket, issued, overlapped, contested>>
        /\ bucket \in [Keys -> {"nothing", "photo", "refusable"}]
    BY <1>1, <1>6 DEF StatObject, PhotosTypeOK
  <2>2. CASE object = "nothing"
    <3>1. PhotoAnswer(q) /\ bucket' = bucket
      BY <1>6, <2>2 DEF StatObject
    <3> QED
      BY <2>1, <3>1, AnswerStep
  <2>3. CASE object # "nothing"
    <3> DEFINE r == GoesOn(photoRequest[q], pc)
    <3>1. photoRequest' = [photoRequest EXCEPT ![q] = r]
      BY <1>6, <2>3 DEF StatObject, GoesOn
    <3>2. pc \in {"push", "discard"} /\ (pc = "push" => object = "photo")
      OBVIOUS
    <3> HIDE DEF pc
    <3>3. /\ r \in PhotoRequestRecords /\ r.pc = pc /\ r.key = photoRequest[q].key
          /\ r.seen = photoRequest[q].seen /\ r.fresh = photoRequest[q].fresh
      BY <1>1, <3>2, DiscardRecord
    <3> HIDE DEF r
    <3>4. /\ UNCHANGED <<images, issued, overlapped, contested>>
          /\ bucket' \in [Keys -> {"nothing", "photo", "refusable"}]
          /\ \A key \in Keys : bucket'[key] = bucket[key]
          /\ r.pc \in {"push", "discard"}
          /\ photoRequest[q].pc # "idle" /\ (r.pc = "push" => bucket[r.key] = "photo")
      BY <2>1, <3>2, <3>3
    <3> QED
      BY <2>1, <3>1, <3>3, <3>4, RestStep
  <2> QED
    BY <2>2, <2>3
<1>7. ASSUME NEW q \in PhotoRequests, AttachPushes(q) PROVE PhotosInv'
  BY <1>7, PushStep
<1>8. ASSUME NEW q \in PhotoRequests, RemoveSaves(q) PROVE PhotosInv'
  <2>1. CASE photoRequest[q].fresh
    BY <1>8, <2>1, SpliceStep
  <2>2. CASE ~photoRequest[q].fresh
    <3>1. /\ photoRequest[q].pc = "splice" /\ PhotoAnswer(q)
          /\ UNCHANGED <<images, bucket, issued, overlapped, contested>>
          /\ bucket \in [Keys -> {"nothing", "photo", "refusable"}]
      BY <1>1, <1>8, <2>2 DEF RemoveSaves, PhotosTypeOK
    <3> QED
      BY <3>1, AnswerStep
  <2> QED
    BY <2>1, <2>2
<1>9. ASSUME NEW q \in PhotoRequests, DeleteObject(q) PROVE PhotosInv'
  <2>1. /\ photoRequest[q].pc = "discard" /\ PhotoAnswer(q)
        /\ UNCHANGED <<images, issued, overlapped, contested>>
        /\ bucket' \in [Keys -> {"nothing", "photo", "refusable"}]
        /\ \A key \in Keys : bucket'[key] = bucket[key] \/ photoRequest[q].key = key
    BY <1>1, <1>9 DEF DeleteObject, PhotosTypeOK
  <2> QED
    BY <2>1, AnswerStep
<1>10. ASSUME NEW q \in PhotoRequests, PhotoDie(q) PROVE PhotosInv'
  <2>1. /\ photoRequest[q].pc # "idle" /\ PhotoAnswer(q)
        /\ UNCHANGED <<images, bucket, issued, overlapped, contested>>
        /\ bucket \in [Keys -> {"nothing", "photo", "refusable"}]
    BY <1>1, <1>10 DEF PhotoDie, PhotosTypeOK
  <2> QED
    BY <2>1, AnswerStep
<1> QED
  BY <1>2, <1>3, <1>4, <1>5, <1>6, <1>7, <1>8, <1>9, <1>10 DEF PhotoNext

-----------------------------------------------------------------------------
(* The product, its bucket and the requests at work fit together at every  *)
(* moment (staffProduct.service.js:255-376).                               *)
THEOREM PhotosInvariant == PhotoSpec => []PhotosInv
<1>1. PhotoInit => PhotosInv
  BY PhotosBegin
<1>2. PhotosInv /\ [PhotoNext]_photoVars => PhotosInv'
  BY PhotosStep
<1> QED
  BY <1>1, <1>2, PTL DEF PhotoSpec

(* A photo that one request at a time attached, checked or removed is in   *)
(* the bucket as long as the product shows it                              *)
(* (staffProduct.service.js:286-295).                                      *)
THEOREM NoBrokenTile == PhotoSpec => []PicturesExist
<1>1. PhotosInv => PicturesExist
  <2> SUFFICES ASSUME PhotosInv, NEW key \in KeysOf(images) \ contested
               PROVE  bucket[key] = "photo"
    BY DEF PicturesExist
  <2>1. \A p \in Pictures : p.key \in Keys
    BY DEF Pictures
  <2>2. key \in Keys
    BY <2>1 DEF PhotosInv, PhotosTypeOK, KeysOf
  <2> QED
    BY <2>2 DEF PhotosInv, KeysAreSettled, KeyIsSettled
<1> QED
  BY <1>1, PhotosInvariant, PTL

(* Numbered without a gap and within the limit when requests take turns,   *)
(* and never further over it than one photo for each request but one       *)
(* (staffProduct.service.js:299-304).                                      *)
THEOREM TilesStayInOrder == PhotoSpec => []TilesInOrder
<1>1. PhotosInv => TilesInOrder
  <2> SUFFICES ASSUME PhotosInv PROVE TilesInOrder
    OBVIOUS
  <2>1. Attaching \in SUBSET PhotoRequests
    BY DEF Attaching
  <2>2. Cardinality(Attaching) \in Nat /\ Cardinality(PhotoRequests) \in Nat
    BY <2>1, AttachingIsFinite
  <2>3. Len(images) \in Nat /\ MaxImages \in Nat
    BY PhotosAssumption DEF PhotosInv, PhotosTypeOK
  <2>4. Len(images) < MaxImages + Cardinality(PhotoRequests)
    BY <2>2, <2>3 DEF PhotosInv, RoomIsShared
  <2> QED
    BY <2>4 DEF TilesInOrder, PhotosInv, TurnsAreTaken
<1> QED
  BY <1>1, PhotosInvariant, PTL

(* No write brings back an array from before another: what leaves the      *)
(* product was named by the request that saved                             *)
(* (staffProduct.service.js:341-376).                                      *)
THEOREM PhotosLeaveByName == PhotoSpec => NoPictureIsLost
<1> DEFINE Named ==
      \A key \in KeysOf(images) \ KeysOf(images') :
        \E q \in PhotoRequests :
            /\ photoRequest[q].pc = "splice" /\ photoRequest[q].key = key
            /\ photoRequest'[q].pc = "discard"
<1>1. ASSUME PhotosInv, [PhotoNext]_photoVars PROVE Named
  <2>1. PhotosTypeOK /\ images \in Seq(Pictures) /\ \A q \in PhotoRequests : photoRequest[q] \in PhotoRequestRecords
    BY <1>1 DEF PhotosInv, PhotosTypeOK
  <2>2. CASE images' = images
    BY <2>2
  <2>3. ASSUME NEW q \in PhotoRequests, AttachPushes(q) PROVE Named
    <3>1. images' = Append(images, [key |-> photoRequest[q].key, order |-> Len(photoRequest[q].seen)])
      BY <2>3 DEF AttachPushes
    <3>2. \A i \in DOMAIN images : i \in DOMAIN images' /\ images'[i] = images[i]
      BY <2>1, <3>1
    <3> QED
      BY <3>2 DEF KeysOf
  <2>4. ASSUME NEW q \in PhotoRequests, RemoveSaves(q), photoRequest[q].fresh PROVE Named
    <3> DEFINE k == photoRequest[q].key
    <3>1. /\ k \in KeysOf(images) /\ images' = Spliced(images, k)
          /\ WroteProduct(q, Discarding(photoRequest[q])) /\ photoRequest[q].pc = "splice"
      BY <1>1, <2>4, RemovedPicture DEF RemoveSaves
    <3>2. photoRequest'[q].pc = "discard"
      <4>1. /\ Discarding(photoRequest[q]) \in PhotoRequestRecords
            /\ Discarding(photoRequest[q]).pc = "discard"
        BY <2>1, DiscardRecord
      <4> QED
        BY <2>1, <3>1, <4>1, Wrote
    <3> HIDE DEF k
    <3>3. PICK n \in 1..Len(images) :
            /\ images[n].key = k
            /\ images' \in Seq(Pictures) /\ Len(images') = Len(images) - 1
            /\ \A i \in 1..(Len(images) - 1) : images'[i].key =
                  IF i < n THEN images[i].key ELSE images[i + 1].key
      BY <2>1, <3>1, SplicedPictures
    <3>4. ASSUME NEW i \in DOMAIN images, images[i].key # k
          PROVE  images[i].key \in KeysOf(images')
      <4>1. i # n /\ i \in 1..Len(images) /\ Len(images) \in Nat /\ n \in Nat
        BY <2>1, <3>3, <3>4
      <4> DEFINE j == IF i < n THEN i ELSE i - 1
      <4>2. j \in 1..(Len(images) - 1) /\ images'[j].key = images[i].key
        BY <3>3, <4>1
      <4> QED
        BY <3>3, <4>2 DEF KeysOf
    <3>5. \A key \in KeysOf(images) \ KeysOf(images') : key = k
      BY <3>4 DEF KeysOf
    <3> QED
      BY <3>1, <3>2, <3>5 DEF k
  <2>5. \A q \in PhotoRequests : RemoveSaves(q) /\ ~photoRequest[q].fresh => images' = images
    BY DEF RemoveSaves
  <2>6. ASSUME NEW q \in PhotoRequests, NEW key \in Keys,
               AttachReads(q, key) \/ RemoveReads(q, key)
        PROVE  images' = images
    BY <2>6 DEF AttachReads, RemoveReads
  <2>7. ASSUME NEW q \in PhotoRequests, StatObject(q) \/ DeleteObject(q) \/ PhotoDie(q)
        PROVE  images' = images
    BY <2>7 DEF StatObject, DeleteObject, PhotoDie
  <2>8. ASSUME NEW key \in Keys, CreateImageUpload(key) \/ Put(key) PROVE images' = images
    BY <2>8 DEF CreateImageUpload, Put
  <2>9. CASE UNCHANGED photoVars
    BY <2>2, <2>9 DEF photoVars
  <2> HIDE DEF Named
  <2> QED
    BY <1>1, <2>2, <2>3, <2>4, <2>5, <2>6, <2>7, <2>8, <2>9 DEF PhotoNext
<1> QED
  BY <1>1, PhotosInvariant, PTL DEF PhotoSpec, NoPictureIsLost
-----------------------------------------------------------------------------
(* The inbox of enquiries (EnquiryInbox).                                  *)

Updates == [pc : {"idle", "read", "saved", "done", "failed"},
            status : Statuses \cup {NoStatus}, note : BOOLEAN, seen : Statuses \cup {New, NoStatus}]

Enquiries == [stored : BOOLEAN, status : Statuses \cup {New, NoStatus}, emailed : BOOLEAN,
              notes : Seq(Staff)]

Rows == [by : Staff, note : BOOLEAN, from : Statuses \cup {New, NoStatus},
         to : Statuses \cup {NoStatus}]

InboxTypeOK ==
    /\ enquiry \in Enquiries
    /\ emailLeft \in BOOLEAN
    /\ update \in [Staff -> Updates]
    /\ trail \in Seq(Rows) /\ silent \in BOOLEAN /\ metAtWork \in BOOLEAN

\* Where the creating request stands, the mark and the email agree.
MarkIsTrue ==
    /\ sender \in {"create", "send"} => ~enquiry.emailed /\ ~emailLeft
    /\ sender = "stamp" => emailLeft
    /\ enquiry.emailed => emailLeft
    /\ sender \in {"notify", "answered"} => (enquiry.emailed <=> emailLeft)

NotesOf(s) == { i \in DOMAIN enquiry.notes : enquiry.notes[i] = s }

HasNoted(s) == update[s].note /\ update[s].pc \in {"saved", "done"}

\* A note is on the enquiry from its save on, and once.
NotesAreKept ==
    \A s \in Staff : IF HasNoted(s) THEN \E i \in Nat : NotesOf(s) = {i} ELSE NotesOf(s) = {}

Moves == { i \in DOMAIN trail : trail[i].to # NoStatus }

\* The last row about the status says it is v.
LastSaid(v) ==
    \/ Moves = {} /\ v = New
    \/ \E i \in Moves : (\A j \in Moves : j <= i) /\ v = trail[i].to

Moved(u) == u.status \notin {NoStatus, u.seen}

\* As long as updates take turns and leave their rows, the one at work saw what
\* the last row said, and the status is that or what it has just been set to.
TurnsAreTold ==
    ~metAtWork /\ ~silent =>
        /\ \A s, p \in Staff : AtWork(s) /\ AtWork(p) => s = p
        /\ (\A s \in Staff : update[s].pc # "saved") => LastSaid(enquiry.status)
        /\ \A s \in Staff : update[s].pc = "read" => update[s].seen = enquiry.status
        /\ \A s \in Staff : update[s].pc = "saved" =>
            /\ LastSaid(update[s].seen)
            /\ enquiry.status = IF Moved(update[s]) THEN update[s].status ELSE update[s].seen

InboxInv == InboxTypeOK /\ MarkIsTrue /\ NotesAreKept /\ TurnsAreTold

LEMMA InboxStarts == ASSUME InboxInit PROVE InboxInv
<1>1. enquiry.notes = <<>> /\ trail = <<>> /\ enquiry.status = New
      /\ ~enquiry.emailed /\ emailLeft = FALSE /\ sender = "create"
      /\ update = [s \in Staff |-> NoUpdate]
  BY DEF InboxInit
<1>2. \A s \in Staff : update[s].pc = "idle" /\ update[s].note = FALSE
  BY <1>1 DEF NoUpdate
<1>3. InboxTypeOK
  <2>1. <<>> \in Seq(Staff) /\ <<>> \in Seq(Rows)
    OBVIOUS
  <2>2. enquiry \in Enquiries
    BY <2>1 DEF InboxInit, Enquiries
  <2>3. update \in [Staff -> Updates]
    BY DEF InboxInit, Updates, NoUpdate
  <2> QED
    BY <2>1, <2>2, <2>3 DEF InboxInit, InboxTypeOK
<1>4. NotesAreKept
  BY <1>1, <1>2 DEF NotesAreKept, HasNoted, NotesOf
<1>5. LastSaid(enquiry.status)
  <2>1. Moves = {}
    BY <1>1 DEF Moves
  <2> QED
    BY <1>1, <2>1 DEF LastSaid
<1>6. TurnsAreTold
  BY <1>2, <1>5 DEF TurnsAreTold, AtWork
<1>7. MarkIsTrue
  BY <1>1 DEF MarkIsTrue
<1> QED
  BY <1>3, <1>4, <1>6, <1>7 DEF InboxInv

(* The creating request never touches notes or status.                     *)
LEMMA SenderStep ==
  ASSUME InboxInv, CreateEnquiry \/ SendEmail \/ StampEmailed \/ Notify \/ SenderDies
  PROVE  InboxInv'
<1>1. /\ UNCHANGED <<update, trail, silent, metAtWork>>
      /\ enquiry'.notes = enquiry.notes /\ enquiry'.status = enquiry.status
      /\ InboxTypeOK
  BY DEF CreateEnquiry, SendEmail, StampEmailed, Notify, SenderDies, InboxInv, InboxTypeOK, Enquiries
<1>2. InboxTypeOK'
  BY DEF CreateEnquiry, SendEmail, StampEmailed, Notify, SenderDies, InboxInv, InboxTypeOK, Enquiries
<1>3. MarkIsTrue'
  <2> USE DEF InboxInv, InboxTypeOK, MarkIsTrue, Enquiries
  <2>1. CASE CreateEnquiry
    BY <2>1 DEF CreateEnquiry
  <2>2. CASE SendEmail
    BY <2>2 DEF SendEmail
  <2>3. CASE StampEmailed
    BY <2>3 DEF StampEmailed
  <2>4. CASE Notify
    BY <2>4 DEF Notify
  <2>5. CASE SenderDies
    BY <2>5 DEF SenderDies
  <2> QED
    BY <2>1, <2>2, <2>3, <2>4, <2>5
<1>4. NotesAreKept'
  BY <1>1 DEF InboxInv, NotesAreKept, NotesOf, HasNoted
<1>5. TurnsAreTold'
  <2>1. \A v : LastSaid(v)' <=> LastSaid(v)
    BY <1>1 DEF LastSaid, Moves
  <2>2. LastSaid(enquiry.status)' <=> LastSaid(enquiry.status)
    BY <1>1 DEF LastSaid, Moves
  <2>3. \A s \in Staff : LastSaid(update[s].seen)' <=> LastSaid(update[s].seen)
    BY <1>1 DEF LastSaid, Moves
  <2> QED
    BY <1>1, <2>2, <2>3 DEF InboxInv, TurnsAreTold, AtWork, Moved
<1> QED
  BY <1>2, <1>3, <1>4, <1>5 DEF InboxInv

\* The mark is the creating request's alone.
LEMMA MarkStays ==
  ASSUME InboxInv, UNCHANGED <<sender, emailLeft>>, enquiry'.emailed = enquiry.emailed
  PROVE  MarkIsTrue'
BY DEF InboxInv, MarkIsTrue

LEMMA InboxReads == ASSUME InboxInv, NEW s \in Staff, UpdateReads(s) PROVE InboxInv'
<1>1. PICK status \in Statuses \cup {NoStatus}, note \in BOOLEAN :
        update' = [update EXCEPT ![s] =
            [pc |-> "read", status |-> status, note |-> note, seen |-> enquiry.status]]
  BY DEF UpdateReads
<1>2. /\ update[s].pc = "idle" /\ UNCHANGED <<enquiry, sender, emailLeft, trail, silent>>
      /\ metAtWork' = (metAtWork \/ \E p \in Staff : AtWork(p))
      /\ InboxTypeOK /\ update \in [Staff -> Updates] /\ metAtWork \in BOOLEAN
      /\ enquiry.status \in Statuses \cup {New, NoStatus}
  BY DEF UpdateReads, InboxInv, InboxTypeOK, Enquiries
<1>3. /\ update'[s].pc = "read" /\ update'[s].seen = enquiry.status
      /\ \A p \in Staff : p # s => update'[p] = update[p]
      /\ update' \in [Staff -> Updates]
  BY <1>1, <1>2 DEF Updates
<1>4. InboxTypeOK'
  BY <1>2, <1>3 DEF InboxTypeOK
<1>5. NotesAreKept'
  <2>1. \A p \in Staff : HasNoted(p)' <=> HasNoted(p)
    BY <1>2, <1>3 DEF HasNoted
  <2>2. \A p \in Staff : NotesOf(p)' = NotesOf(p)
    BY <1>2 DEF NotesOf
  <2> QED
    BY <2>1, <2>2 DEF InboxInv, NotesAreKept
<1>6. ASSUME ~metAtWork', ~silent' PROVE TurnsAreTold'
  <2>1. ~metAtWork /\ ~silent /\ \A p \in Staff : ~AtWork(p)
    BY <1>2, <1>6
  <2>2. LastSaid(enquiry.status)
    BY <2>1 DEF InboxInv, TurnsAreTold, AtWork
  <2>3. LastSaid(enquiry.status)'
    BY <1>2, <2>2 DEF LastSaid, Moves
  <2>4. \A p \in Staff : p # s => update'[p].pc \notin {"read", "saved"}
    BY <1>3, <2>1 DEF AtWork
  <2> QED
    BY <1>2, <1>3, <2>3, <2>4 DEF TurnsAreTold, AtWork
<1>7. TurnsAreTold'
  BY <1>6 DEF TurnsAreTold
<1> QED
  BY <1>2, <1>4, <1>5, <1>7, MarkStays DEF InboxInv

LEMMA InboxSaves == ASSUME InboxInv, NEW s \in Staff, UpdateSaves(s) PROVE InboxInv'
<1>1. PICK u : u = update[s]
  OBVIOUS
<1> DEFINE notes == IF u.note THEN Append(enquiry.notes, s) ELSE enquiry.notes
           status == IF Moved(u) THEN u.status ELSE enquiry.status
<1>2. /\ u.pc = "read" /\ UNCHANGED <<sender, emailLeft, trail, silent, metAtWork>>
      /\ enquiry' = [enquiry EXCEPT !.notes = notes, !.status = status]
      /\ update' = [update EXCEPT ![s].pc = "saved"]
      /\ InboxTypeOK /\ enquiry \in Enquiries /\ update \in [Staff -> Updates] /\ u \in Updates
      /\ enquiry.notes \in Seq(Staff)
  BY <1>1 DEF UpdateSaves, Moved, InboxInv, InboxTypeOK, Enquiries
<1>3. /\ enquiry'.notes = notes /\ enquiry'.status = status
      /\ enquiry'.emailed = enquiry.emailed /\ enquiry'.stored = enquiry.stored
  BY <1>2 DEF Enquiries
<1>4. /\ update'[s].pc = "saved" /\ update'[s].status = u.status
      /\ update'[s].note = u.note /\ update'[s].seen = u.seen
      /\ \A p \in Staff : p # s => update'[p] = update[p]
      /\ update' \in [Staff -> Updates]
  BY <1>1, <1>2 DEF Updates
<1>5. InboxTypeOK'
  <2>1. notes \in Seq(Staff) /\ status \in Statuses \cup {New, NoStatus}
    BY <1>2 DEF Updates, Enquiries, Moved
  <2> HIDE DEF notes, status
  <2>2. enquiry' \in Enquiries
    BY <1>2, <2>1 DEF Enquiries
  <2> QED
    BY <1>2, <1>4, <2>2 DEF InboxTypeOK
<1>6. NotesAreKept'
  <2>1. ASSUME NEW p \in Staff, p # s PROVE NotesOf(p)' = NotesOf(p)
    BY <1>2, <1>3, <2>1 DEF NotesOf
  <2>2. NotesOf(s) = {}
    BY <1>1, <1>2 DEF InboxInv, NotesAreKept, HasNoted
  <2>3. CASE u.note
    <3>1. notes = Append(enquiry.notes, s)
      BY <2>3
    <3>2. NotesOf(s)' = {Len(enquiry.notes) + 1}
      BY <1>2, <1>3, <2>2, <3>1 DEF NotesOf
    <3>3. Len(enquiry.notes) + 1 \in Nat
      BY <1>2
    <3>4. HasNoted(s)'
      BY <1>4, <2>3 DEF HasNoted
    <3> QED
      BY <1>4, <2>1, <3>2, <3>3, <3>4 DEF InboxInv, NotesAreKept, HasNoted
  <2>4. CASE ~u.note
    <3>1. NotesOf(s)' = {} /\ ~HasNoted(s)'
      BY <1>3, <1>4, <2>2, <2>4 DEF NotesOf, HasNoted
    <3> QED
      BY <1>4, <2>1, <3>1 DEF InboxInv, NotesAreKept, HasNoted
  <2> QED
    BY <1>2, <2>3, <2>4 DEF Updates
<1>7. ASSUME ~metAtWork, ~silent PROVE TurnsAreTold'
  <2>1. AtWork(s) /\ \A p \in Staff : p # s => ~AtWork(p)
    BY <1>1, <1>2, <1>7 DEF InboxInv, TurnsAreTold, AtWork
  <2>2. u.seen = enquiry.status /\ LastSaid(enquiry.status)
    BY <1>1, <1>2, <1>7, <2>1 DEF InboxInv, TurnsAreTold, AtWork
  <2>3. \A p \in Staff : p # s => update'[p].pc \notin {"read", "saved"}
    BY <1>4, <2>1 DEF AtWork
  <2>4. LastSaid(update[s].seen)'
    BY <1>2, <1>4, <2>2 DEF LastSaid, Moves
  <2>5. enquiry'.status = IF Moved(update[s])' THEN update'[s].status ELSE update'[s].seen
    BY <1>3, <1>4, <2>2 DEF Moved
  <2> QED
    BY <1>4, <2>3, <2>4, <2>5 DEF TurnsAreTold, AtWork
<1>8. TurnsAreTold'
  BY <1>2, <1>7 DEF TurnsAreTold
<1> QED
  BY <1>2, <1>3, <1>5, <1>6, <1>8, MarkStays DEF InboxInv

\* An update that stops after its save or before it keeps its notes.
LEMMA NotesStay ==
  ASSUME InboxInv, enquiry' = enquiry, NEW s \in Staff, AtWork(s),
         update'[s].note = update[s].note,
         update'[s].pc = IF update[s].pc = "saved" THEN "done" ELSE "failed",
         \A p \in Staff : p # s => update'[p] = update[p]
  PROVE  NotesAreKept'
<1>1. \A p \in Staff : HasNoted(p)' <=> HasNoted(p)
  BY DEF HasNoted, AtWork
<1>2. \A p \in Staff : NotesOf(p)' = NotesOf(p)
  BY DEF NotesOf
<1> QED
  BY <1>1, <1>2 DEF InboxInv, NotesAreKept

LEMMA InboxRecords == ASSUME InboxInv, NEW s \in Staff, UpdateRecords(s) PROVE InboxInv'
<1>1. PICK u : u = update[s]
  OBVIOUS
<1> DEFINE to == IF Moved(u) THEN u.status ELSE NoStatus
<1>2. PICK row : row = [by |-> s, note |-> u.note,
                        from |-> IF Moved(u) THEN u.seen ELSE NoStatus, to |-> to]
  OBVIOUS
<1>3. /\ u.pc = "saved" /\ UNCHANGED <<enquiry, sender, emailLeft, silent, metAtWork>>
      /\ trail' = Append(trail, row)
      /\ update' = [update EXCEPT ![s].pc = "done"]
      /\ InboxTypeOK /\ trail \in Seq(Rows) /\ update \in [Staff -> Updates] /\ u \in Updates
  BY <1>1, <1>2 DEF UpdateRecords, Moved, InboxInv, InboxTypeOK
<1>4. row \in Rows /\ row.to = to
  BY <1>2, <1>3 DEF Rows, Updates
<1>5. /\ trail' \in Seq(Rows) /\ Len(trail) \in Nat /\ Len(trail') = Len(trail) + 1
      /\ DOMAIN trail = 1..Len(trail) /\ DOMAIN trail' = 1..(Len(trail) + 1)
      /\ trail'[Len(trail) + 1] = row
      /\ \A i \in DOMAIN trail : trail'[i] = trail[i]
  BY <1>3, <1>4
<1>6. /\ update'[s].pc = "done" /\ update'[s].note = u.note
      /\ \A p \in Staff : p # s => update'[p] = update[p]
      /\ update' \in [Staff -> Updates]
  BY <1>1, <1>3 DEF Updates
<1>7. InboxTypeOK'
  BY <1>3, <1>5, <1>6 DEF InboxTypeOK
<1>8. NotesAreKept'
  BY <1>1, <1>3, <1>6, NotesStay DEF AtWork
<1>9. ASSUME ~metAtWork, ~silent PROVE TurnsAreTold'
  <2>1. \A p \in Staff : p # s => ~AtWork(p)
    BY <1>1, <1>3, <1>9 DEF InboxInv, TurnsAreTold, AtWork
  <2>2. \A p \in Staff : update'[p].pc \notin {"read", "saved"}
    BY <1>6, <2>1 DEF AtWork
  <2>3. /\ LastSaid(update[s].seen)
        /\ enquiry.status = IF Moved(u) THEN u.status ELSE u.seen
    BY <1>1, <1>3, <1>9 DEF InboxInv, TurnsAreTold
  <2>4. LastSaid(enquiry.status)'
    <3>1. CASE Moved(u)
      <4>1. to = u.status /\ to # NoStatus /\ enquiry.status = to
        BY <2>3, <3>1 DEF Moved
      <4>2. Len(trail) + 1 \in Moves' /\ \A j \in Moves' : j <= Len(trail) + 1
        BY <1>4, <1>5, <4>1 DEF Moves
      <4> QED
        BY <1>3, <1>4, <1>5, <4>1, <4>2 DEF LastSaid
    <3>2. CASE ~Moved(u)
      <4>1. to = NoStatus /\ enquiry.status = u.seen
        BY <2>3, <3>2
      <4>2. Moves' = Moves /\ Moves \subseteq DOMAIN trail
        BY <1>4, <1>5, <4>1 DEF Moves
      <4> QED
        BY <1>1, <1>3, <1>5, <2>3, <4>1, <4>2 DEF LastSaid
    <3> QED
      BY <3>1, <3>2
  <2> QED
    BY <2>2, <2>4 DEF TurnsAreTold, AtWork
<1>10. TurnsAreTold'
  BY <1>3, <1>9 DEF TurnsAreTold
<1> QED
  BY <1>3, <1>7, <1>8, <1>10, MarkStays DEF InboxInv

LEMMA InboxEnds == ASSUME InboxInv, NEW s \in Staff, UpdateEnds(s) PROVE InboxInv'
<1>1. PICK u : u = update[s]
  OBVIOUS
<1>2. /\ AtWork(s) /\ UNCHANGED <<enquiry, sender, emailLeft, trail, metAtWork>>
      /\ silent' = (silent \/ u.pc = "saved")
      /\ update' = [update EXCEPT ![s].pc = IF u.pc = "saved" THEN "done" ELSE "failed"]
      /\ InboxTypeOK /\ update \in [Staff -> Updates] /\ u \in Updates /\ silent \in BOOLEAN
  BY <1>1 DEF UpdateEnds, InboxInv, InboxTypeOK
<1>3. /\ update'[s].pc = (IF u.pc = "saved" THEN "done" ELSE "failed")
      /\ update'[s].note = u.note
      /\ \A p \in Staff : p # s => update'[p] = update[p]
      /\ update' \in [Staff -> Updates]
  BY <1>1, <1>2 DEF Updates
<1>4. InboxTypeOK'
  BY <1>2, <1>3 DEF InboxTypeOK
<1>5. NotesAreKept'
  BY <1>1, <1>2, <1>3, NotesStay
<1>6. ASSUME ~metAtWork', ~silent' PROVE TurnsAreTold'
  <2>1. ~metAtWork /\ ~silent /\ u.pc = "read"
    BY <1>1, <1>2, <1>6 DEF AtWork
  <2>2. \A p \in Staff : p # s => ~AtWork(p)
    BY <1>2, <2>1 DEF InboxInv, TurnsAreTold
  <2>3. LastSaid(enquiry.status)
    BY <1>1, <2>1, <2>2 DEF InboxInv, TurnsAreTold, AtWork
  <2>4. LastSaid(enquiry.status)'
    BY <1>2, <2>3 DEF LastSaid, Moves
  <2>5. \A p \in Staff : update'[p].pc \notin {"read", "saved"}
    BY <1>3, <2>2 DEF AtWork
  <2> QED
    BY <2>4, <2>5 DEF TurnsAreTold, AtWork
<1>7. TurnsAreTold'
  BY <1>6 DEF TurnsAreTold
<1> QED
  BY <1>2, <1>4, <1>5, <1>7, MarkStays DEF InboxInv

LEMMA InboxStep == ASSUME InboxInv, [InboxNext]_inboxVars PROVE InboxInv'
<1>1. CASE UNCHANGED inboxVars
  <2>1. UNCHANGED <<enquiry, sender, emailLeft, update, trail, silent, metAtWork>>
    BY <1>1 DEF inboxVars
  <2>2. InboxTypeOK' /\ MarkIsTrue'
    BY <2>1 DEF InboxInv, InboxTypeOK, MarkIsTrue
  <2>3. NotesAreKept'
    BY <2>1 DEF InboxInv, NotesAreKept, NotesOf, HasNoted
  <2>4. /\ LastSaid(enquiry.status)' <=> LastSaid(enquiry.status)
        /\ \A s \in Staff : LastSaid(update[s].seen)' <=> LastSaid(update[s].seen)
    BY <2>1 DEF LastSaid, Moves
  <2>5. TurnsAreTold'
    BY <2>1, <2>4 DEF InboxInv, TurnsAreTold, AtWork, Moved
  <2> QED
    BY <2>2, <2>3, <2>5 DEF InboxInv
<1> QED
  BY <1>1, SenderStep, InboxReads, InboxSaves, InboxRecords, InboxEnds DEF InboxNext

(* The mark follows the email, notes are kept and turns are told.          *)
THEOREM InboxInvariant == InboxSpec => []InboxInv
<1>1. InboxInit => InboxInv
  BY InboxStarts
<1>2. InboxInv /\ [InboxNext]_inboxVars => InboxInv'
  BY InboxStep
<1> QED
  BY <1>1, <1>2, PTL DEF InboxSpec

(* An email is never marked that did not leave, and an answered enquiry    *)
(* without the mark is one nobody was emailed about (Enquiry.js:75-76).    *)
THEOREM MarkTellsTheTruth == InboxSpec => []FlagTellsWhoWasTold
<1>1. InboxInv => FlagTellsWhoWasTold
  BY DEF InboxInv, MarkIsTrue, FlagTellsWhoWasTold
<1> QED
  BY <1>1, InboxInvariant, PTL

(* Every saved update has its note on the enquiry once, and where updates  *)
(* took turns the trail tells the status (staffEnquiry.service.js:109).    *)
THEOREM NothingIsForgotten == InboxSpec => []WorkIsRemembered
<1>1. ASSUME InboxInv PROVE WorkIsRemembered
  <2>1. ASSUME NEW s \in Staff
        PROVE  Cardinality(NotesOf(s)) = IF HasNoted(s) THEN 1 ELSE 0
    BY <1>1, FS_EmptySet, FS_Singleton DEF InboxInv, NotesAreKept
  <2>2. ASSUME ~metAtWork, ~silent, \A s \in Staff : ~AtWork(s)
        PROVE  enquiry.status = IF Moves = {} THEN New ELSE trail[Max(Moves)].to
    <3>1. LastSaid(enquiry.status)
      BY <1>1, <2>2 DEF InboxInv, TurnsAreTold, AtWork
    <3>2. CASE Moves = {}
      BY <3>1, <3>2 DEF LastSaid
    <3>3. CASE Moves # {}
      <4>1. PICK i \in Moves : (\A j \in Moves : j <= i) /\ enquiry.status = trail[i].to
        BY <3>1, <3>3 DEF LastSaid
      <4>2. Moves \subseteq Nat
        BY <1>1 DEF InboxInv, InboxTypeOK, Moves
      <4>3. Max(Moves) = i
        BY <4>1, <4>2 DEF Max
      <4> QED
        BY <3>3, <4>1, <4>3
    <3> QED
      BY <3>2, <3>3
  <2> QED
    BY <2>1, <2>2 DEF WorkIsRemembered, NotesOf, HasNoted, Moves
<1> QED
  BY <1>1, InboxInvariant, PTL

-----------------------------------------------------------------------------
(* The codes of a number (OtpVerification): what is promised of those that *)
(* no two requests work on at once, at any clock.                          *)

Challenges ==
    [stored : BOOLEAN, createdAt : Nat, attempts : Nat, consumed : BOOLEAN,
     delivered : BOOLEAN, unsaid : BOOLEAN, guesses : Nat, tokens : Nat, raced : BOOLEAN,
     abandoned : BOOLEAN]

OtpRequestRecords ==
    [pc : {"idle", "allowed", "deliver", "undo", "matching"}, of : Nat, attempts : Nat,
     overlapped : BOOLEAN]

OtpTypeOK ==
    /\ clock \in Nat
    /\ challenge \in Seq(Challenges)
    /\ otpRequest \in [OtpRequests -> OtpRequestRecords]
    /\ \A q \in OtpRequests :
        /\ otpRequest[q].pc \in {"deliver", "undo", "matching"} => otpRequest[q].of \in DOMAIN challenge
        /\ otpRequest[q].pc = "allowed" => otpRequest[q].of = 0

\* Challenges are stored in the order of the clock.
InOrder ==
    \A i, j \in DOMAIN challenge :
        /\ challenge[i].createdAt <= clock
        /\ i < j => challenge[i].createdAt <= challenge[j].createdAt

\* Who verifies a code alone has its counter as it is stored.
VerifiersAreExact ==
    \A q \in OtpRequests : otpRequest[q].pc = "matching" /\ ~challenge[otpRequest[q].of].raced =>
        /\ \A p \in OtpRequests :
            p # q => otpRequest[p].pc # "matching" \/ otpRequest[p].of # otpRequest[q].of
        /\ challenge[otpRequest[q].of].stored =>
            /\ ~challenge[otpRequest[q].of].consumed
            /\ challenge[otpRequest[q].of].attempts = otpRequest[q].attempts
            /\ otpRequest[q].attempts < MaxAttempts

\* One token, and then the code is consumed.
CountsAreExact ==
    \A i \in DOMAIN challenge : ~challenge[i].raced =>
        /\ challenge[i].tokens = IF challenge[i].consumed THEN 1 ELSE 0
        /\ challenge[i].attempts = challenge[i].guesses
        /\ challenge[i].guesses <= MaxAttempts

\* A request that is sending a code is the only one to do so.
SendersAreAlone ==
    \A q \in OtpRequests : otpRequest[q].pc \in {"deliver", "undo"} =>
        /\ ~challenge[otpRequest[q].of].delivered
        /\ \A p \in OtpRequests :
            p # q => otpRequest[p].pc \notin {"deliver", "undo"} \/ otpRequest[p].of # otpRequest[q].of

\* Its code was delivered, or may still be.
MayArrive(i) ==
    \/ challenge[i].delivered
    \/ \E q \in OtpRequests : otpRequest[q].pc = "deliver" /\ otpRequest[q].of = i

\* Such a code is forgotten only when it has expired.
ForgottenIsExpired ==
    \A i \in DOMAIN challenge :
        ~challenge[i].stored /\ MayArrive(i) => ExpiresAt(challenge[i]) <= clock

\* A request that was let through on its own may still create its code.
AllowanceHolds ==
    \A q \in OtpRequests : otpRequest[q].pc = "allowed" /\ ~otpRequest[q].overlapped =>
        /\ Requesting = {q}
        /\ Cardinality(Recent) < Cap
        /\ \A i \in DOMAIN challenge :
            MayArrive(i) => challenge[i].createdAt + Cooldown <= clock

CooldownKept ==
    \A i, j \in DOMAIN challenge :
        i < j /\ ~challenge[j].raced /\ MayArrive(i) =>
            challenge[i].createdAt + Cooldown <= challenge[j].createdAt

\* The calm codes of a span of time that arrived, may arrive, or are stored.
Counted(from) ==
    { i \in DOMAIN challenge : /\ ~challenge[i].raced
                               /\ challenge[i].createdAt \in from..(from + TTL - 1)
                               /\ challenge[i].stored \/ MayArrive(i) }

CapKept == \A from \in Nat : Cardinality(Counted(from)) <= Cap

CodesInv ==
    /\ OtpTypeOK /\ InOrder
    /\ VerifiersAreExact /\ CountsAreExact
    /\ SendersAreAlone /\ UndeliveredCostsNothing /\ ForgottenIsExpired
    /\ AllowanceHolds /\ CooldownKept /\ CapKept

-----------------------------------------------------------------------------
\* A nonempty set of positions in a sequence has a last one.
LEMMA LastPosition ==
  ASSUME NEW n \in Nat, NEW S, S \subseteq 1..n, S # {}
  PROVE  Newest(S) \in S /\ \A j \in S : j <= Newest(S)
<1> DEFINE T == { n - i : i \in S }
           R == OpToRel(<, Nat)
<1>1. T \subseteq Nat /\ T # {}
  <2>1. \A i \in S : n - i \in Nat
    OBVIOUS
  <2>2. PICK i \in S : TRUE
    OBVIOUS
  <2> QED
    BY <2>1, <2>2
<1>2. IsWellFoundedOn(R, Nat)
  BY NatLessThanWellFounded
<1> HIDE DEF T, R
<1>3. PICK t \in T : \A y \in T : ~(<<y, t>> \in R)
  BY <1>1, <1>2, WFMin
<1>4. PICK i \in S : t = n - i
  BY <1>3 DEF T
<1>5. \A j \in S : j <= i
  <2> SUFFICES ASSUME NEW j \in S PROVE j <= i
    OBVIOUS
  <2>1. n - j \in T
    BY DEF T
  <2>2. n - j \in Nat /\ n - i \in Nat /\ i \in Int /\ j \in Int
    OBVIOUS
  <2>3. ~(n - j < n - i)
    BY <1>3, <1>4, <2>1, <2>2 DEF R, OpToRel
  <2> QED
    BY <2>2, <2>3
<1> QED
  BY <1>4, <1>5 DEF Newest

\* One challenge changes, the others stay where they are.
LEMMA ReplaceOne ==
  ASSUME OtpTypeOK, NEW i \in DOMAIN challenge, NEW c \in Challenges,
         challenge' = [challenge EXCEPT ![i] = c]
  PROVE  /\ challenge' \in Seq(Challenges)
         /\ DOMAIN challenge' = DOMAIN challenge
         /\ Len(challenge') = Len(challenge)
         /\ challenge'[i] = c
         /\ \A j \in DOMAIN challenge : j # i => challenge'[j] = challenge[j]
BY DEF OtpTypeOK

\* A request is answered, the others go on.
LEMMA AnswerOne ==
  ASSUME OtpTypeOK, NEW q \in OtpRequests, OtpAnswer(q)
  PROVE  /\ otpRequest' \in [OtpRequests -> OtpRequestRecords]
         /\ otpRequest'[q] = OtpIdle
         /\ \A p \in OtpRequests : p # q => otpRequest'[p] = otpRequest[p]
BY DEF OtpTypeOK, OtpAnswer, OtpIdle, OtpRequestRecords

LEMMA Positions ==
  ASSUME OtpTypeOK
  PROVE  /\ clock \in Nat /\ Len(challenge) \in Nat /\ DOMAIN challenge = 1..Len(challenge)
         /\ \A i \in DOMAIN challenge :
             i \in Nat /\ challenge[i] \in Challenges /\ challenge[i].createdAt \in Nat
<1>1. \A c \in Challenges : c.createdAt \in Nat
  BY DEF Challenges
<1>2. \A i \in DOMAIN challenge : i \in Nat /\ challenge[i] \in Challenges
  BY DEF OtpTypeOK
<1> QED
  BY <1>1, <1>2 DEF OtpTypeOK

LEMMA PositionsAreFinite ==
  ASSUME OtpTypeOK, NEW S \in SUBSET DOMAIN challenge
  PROVE  IsFiniteSet(S) /\ Cardinality(S) \in Nat
<1>1. IsFiniteSet(1..Len(challenge))
  BY FS_Interval DEF OtpTypeOK
<1>2. S \subseteq 1..Len(challenge)
  BY DEF OtpTypeOK
<1> QED
  BY <1>1, <1>2, FS_Subset, FS_CardinalityType

\* Codes that cannot become more keep under the cap.
LEMMA CapShrinks ==
  ASSUME OtpTypeOK, CapKept, Cap \in Nat, DOMAIN challenge' = DOMAIN challenge,
         \A from \in Nat : Counted(from)' \subseteq Counted(from)
  PROVE  CapKept'
<1> SUFFICES ASSUME NEW from \in Nat PROVE Cardinality(Counted(from)') <= Cap
  BY DEF CapKept
<1>1. /\ IsFiniteSet(Counted(from)) /\ Cardinality(Counted(from)) \in Nat
      /\ IsFiniteSet(Counted(from)') /\ Cardinality(Counted(from)') \in Nat
  BY PositionsAreFinite DEF Counted
<1>2. Cardinality(Counted(from)') <= Cardinality(Counted(from))
  BY <1>1, FS_Subset
<1>3. Cardinality(Counted(from)) <= Cap
  BY DEF CapKept
<1> QED
  BY <1>1, <1>2, <1>3

LEMMA CodesInit == ASSUME OtpInit PROVE CodesInv
<1>1. OtpTypeOK /\ InOrder
  BY DEF OtpInit, OtpTypeOK, InOrder, OtpIdle, OtpRequestRecords
<1>2. /\ VerifiersAreExact /\ CountsAreExact /\ SendersAreAlone
      /\ UndeliveredCostsNothing /\ ForgottenIsExpired /\ AllowanceHolds /\ CooldownKept
  BY DEF OtpInit, OtpIdle, VerifiersAreExact, CountsAreExact, SendersAreAlone, Stored,
         UndeliveredCostsNothing, ForgottenIsExpired, AllowanceHolds, CooldownKept
<1>3. CapKept
  <2>1. \A from : Counted(from) = {}
    BY DEF OtpInit, Counted
  <2> QED
    BY <2>1, FS_EmptySet, CodesAssumption DEF CapKept
<1> QED
  BY <1>1, <1>2, <1>3 DEF CodesInv

-----------------------------------------------------------------------------
(***************************************************************************)
(* Steps that create no code and let no time pass: codes at most fade, and *)
(* nobody new is let through.                                              *)
(***************************************************************************)
Fades ==
    /\ clock' = clock
    /\ DOMAIN challenge' = DOMAIN challenge
    /\ \A i \in DOMAIN challenge :
        /\ challenge'[i].createdAt = challenge[i].createdAt
        /\ challenge[i].raced => challenge'[i].raced
        /\ challenge'[i].stored => challenge[i].stored
        /\ MayArrive(i)' => MayArrive(i)
    /\ \A q \in OtpRequests :
        /\ otpRequest'[q].pc = "allowed" => otpRequest'[q] = otpRequest[q]
        /\ otpRequest'[q].pc \in {"deliver", "undo"} => otpRequest[q].pc \in {"deliver", "undo"}

LEMMA FadingKeepsLimits ==
  ASSUME CodesInv, Fades
  PROVE  InOrder' /\ CooldownKept' /\ CapKept' /\ AllowanceHolds'
<1> USE DEF Fades
<1>1. InOrder' /\ CooldownKept'
  BY DEF CodesInv, InOrder, CooldownKept
<1>2. CapKept'
  <2>1. \A from \in Nat : Counted(from)' \subseteq Counted(from)
    BY DEF Counted
  <2> QED
    BY <2>1, CapShrinks, CodesAssumption DEF CodesInv
<1>3. AllowanceHolds'
  <2> SUFFICES ASSUME NEW q \in OtpRequests,
                      otpRequest'[q].pc = "allowed", ~otpRequest'[q].overlapped
               PROVE  /\ Requesting' = {q}
                      /\ Cardinality(Recent') < Cap
                      /\ \A i \in DOMAIN challenge' :
                          MayArrive(i)' => challenge'[i].createdAt + Cooldown <= clock'
    BY DEF AllowanceHolds
  <2>1. otpRequest'[q] = otpRequest[q]
    OBVIOUS
  <2>2. /\ Requesting = {q}
        /\ Cardinality(Recent) < Cap
        /\ \A i \in DOMAIN challenge :
            MayArrive(i) => challenge[i].createdAt + Cooldown <= clock
    BY <2>1 DEF CodesInv, AllowanceHolds
  <2>3. Requesting' = {q}
    BY <2>1, <2>2 DEF Requesting
  <2>4. Recent' \subseteq Recent /\ Recent \subseteq DOMAIN challenge
    BY DEF Recent, Stored
  <2>5. /\ IsFiniteSet(Recent) /\ Cardinality(Recent) \in Nat
        /\ Cardinality(Recent') \in Nat
    BY <2>4, PositionsAreFinite DEF CodesInv
  <2>6. Cardinality(Recent') <= Cardinality(Recent)
    BY <2>4, <2>5, FS_Subset
  <2> QED
    BY <2>2, <2>3, <2>5, <2>6, CodesAssumption
<1> QED
  BY <1>1, <1>2, <1>3

LEMMA DeliverStep ==
  ASSUME CodesInv, NEW q \in OtpRequests, Deliver(q)
  PROVE  CodesInv'
<1> DEFINE i == otpRequest[q].of
           c == [challenge[i] EXCEPT !.delivered = TRUE]
<1>1. /\ otpRequest[q].pc = "deliver" /\ OtpAnswer(q) /\ clock' = clock
      /\ challenge' = [challenge EXCEPT ![i] = c]
  BY DEF Deliver
<1>2. OtpTypeOK /\ i \in DOMAIN challenge /\ challenge[i] \in Challenges
  BY <1>1 DEF CodesInv, OtpTypeOK
<1>3. /\ c \in Challenges /\ c.delivered = TRUE
      /\ c.stored = challenge[i].stored /\ c.createdAt = challenge[i].createdAt
      /\ c.attempts = challenge[i].attempts /\ c.consumed = challenge[i].consumed
      /\ c.guesses = challenge[i].guesses /\ c.tokens = challenge[i].tokens
      /\ c.raced = challenge[i].raced /\ c.abandoned = challenge[i].abandoned
  BY <1>2 DEF Challenges
<1> HIDE DEF i, c
<1>4. /\ otpRequest' \in [OtpRequests -> OtpRequestRecords] /\ otpRequest'[q] = OtpIdle
      /\ \A p \in OtpRequests : p # q => otpRequest'[p] = otpRequest[p]
  BY <1>1, <1>2, AnswerOne
<1>5. /\ challenge' \in Seq(Challenges) /\ DOMAIN challenge' = DOMAIN challenge
      /\ challenge'[i] = c
      /\ \A j \in DOMAIN challenge : j # i => challenge'[j] = challenge[j]
  BY <1>1, <1>2, <1>3, ReplaceOne
<1>6. \A j \in DOMAIN challenge : MayArrive(j)' => MayArrive(j)
  BY <1>1, <1>4, <1>5 DEF MayArrive, OtpIdle, i
<1>7. Fades
  BY <1>1, <1>3, <1>4, <1>5, <1>6 DEF Fades, OtpIdle
<1>8. OtpTypeOK'
  BY <1>1, <1>2, <1>4, <1>5 DEF OtpTypeOK, OtpIdle
<1>13. VerifiersAreExact'
  BY <1>3, <1>4, <1>5 DEF CodesInv, VerifiersAreExact, OtpTypeOK, OtpIdle
<1>14. CountsAreExact'
  BY <1>3, <1>5 DEF CodesInv, CountsAreExact
<1>9. VerifiersAreExact' /\ CountsAreExact'
  BY <1>13, <1>14
<1>10. SendersAreAlone'
  BY <1>1, <1>2, <1>3, <1>4, <1>5 DEF CodesInv, SendersAreAlone, OtpTypeOK, OtpIdle, i
<1>11. UndeliveredCostsNothing'
  BY <1>1, <1>2, <1>3, <1>4, <1>5 DEF CodesInv, UndeliveredCostsNothing, Stored, i
<1>12. ForgottenIsExpired'
  BY <1>1, <1>3, <1>5, <1>6 DEF CodesInv, ForgottenIsExpired, ExpiresAt
<1> QED
  BY <1>7, <1>8, <1>9, <1>10, <1>11, <1>12, FadingKeepsLimits DEF CodesInv

LEMMA DeliverFailsStep ==
  ASSUME CodesInv, NEW q \in OtpRequests, DeliverFails(q)
  PROVE  CodesInv'
<1> DEFINE i == otpRequest[q].of
<1>1. PICK left \in BOOLEAN : challenge' = [challenge EXCEPT ![i].unsaid = left]
  BY DEF DeliverFails
<1> DEFINE c == [challenge[i] EXCEPT !.unsaid = left]
<1>2. /\ otpRequest[q].pc = "deliver" /\ clock' = clock
      /\ otpRequest' = [otpRequest EXCEPT ![q].pc = "undo"]
      /\ challenge' = [challenge EXCEPT ![i] = c]
  BY <1>1 DEF DeliverFails
<1>3. /\ OtpTypeOK /\ otpRequest[q] \in OtpRequestRecords
      /\ i \in DOMAIN challenge /\ challenge[i] \in Challenges
  BY <1>2 DEF CodesInv, OtpTypeOK
<1>4. /\ c \in Challenges /\ c.delivered = challenge[i].delivered
      /\ c.stored = challenge[i].stored /\ c.createdAt = challenge[i].createdAt
      /\ c.attempts = challenge[i].attempts /\ c.consumed = challenge[i].consumed
      /\ c.guesses = challenge[i].guesses /\ c.tokens = challenge[i].tokens
      /\ c.raced = challenge[i].raced /\ c.abandoned = challenge[i].abandoned
  BY <1>1, <1>3 DEF Challenges
<1> HIDE DEF c
<1>5. /\ otpRequest' \in [OtpRequests -> OtpRequestRecords]
      /\ otpRequest'[q].pc = "undo" /\ otpRequest'[q].of = i
      /\ \A p \in OtpRequests : p # q => otpRequest'[p] = otpRequest[p]
  BY <1>2, <1>3 DEF OtpTypeOK, OtpRequestRecords
<1> HIDE DEF i
<1>6. /\ challenge' \in Seq(Challenges) /\ DOMAIN challenge' = DOMAIN challenge
      /\ challenge'[i] = c
      /\ \A j \in DOMAIN challenge : j # i => challenge'[j] = challenge[j]
  BY <1>2, <1>3, <1>4, ReplaceOne
<1>7. \A j \in DOMAIN challenge : MayArrive(j)' => MayArrive(j)
  BY <1>4, <1>5, <1>6 DEF MayArrive
<1>8. Fades
  BY <1>2, <1>4, <1>5, <1>6, <1>7 DEF Fades
<1>9. OtpTypeOK'
  BY <1>2, <1>3, <1>5, <1>6 DEF OtpTypeOK
<1>10. VerifiersAreExact' /\ CountsAreExact'
  <2>1. \A j \in DOMAIN challenge :
            /\ challenge'[j].raced = challenge[j].raced
            /\ challenge'[j].stored = challenge[j].stored
            /\ challenge'[j].consumed = challenge[j].consumed
            /\ challenge'[j].attempts = challenge[j].attempts
            /\ challenge'[j].guesses = challenge[j].guesses
            /\ challenge'[j].tokens = challenge[j].tokens
    BY <1>4, <1>6
  <2>2. CountsAreExact'
    BY <1>6, <2>1 DEF CodesInv, CountsAreExact
  <2>3. \A p \in OtpRequests : otpRequest'[p].pc = "matching" =>
            p # q /\ otpRequest'[p] = otpRequest[p] /\ otpRequest[p].of \in DOMAIN challenge
    BY <1>3, <1>5 DEF OtpTypeOK
  <2>4. VerifiersAreExact'
    BY <2>1, <2>3 DEF CodesInv, VerifiersAreExact
  <2> QED
    BY <2>2, <2>4
<1>11. SendersAreAlone'
  BY <1>2, <1>3, <1>4, <1>5, <1>6 DEF CodesInv, SendersAreAlone, OtpTypeOK, i
<1>12. UndeliveredCostsNothing'
  BY <1>2, <1>4, <1>5, <1>6 DEF CodesInv, UndeliveredCostsNothing, Stored, i
<1>13. ForgottenIsExpired'
  BY <1>2, <1>4, <1>6, <1>7 DEF CodesInv, ForgottenIsExpired, ExpiresAt
<1> QED
  BY <1>8, <1>9, <1>10, <1>11, <1>12, <1>13, FadingKeepsLimits DEF CodesInv

\* A document that is gone: its counters are no one's any more.
LEMMA GoneRecord ==
  ASSUME NEW c \in Challenges
  PROVE  /\ Gone(c) \in Challenges
         /\ Gone(c).stored = FALSE /\ Gone(c).consumed = FALSE
         /\ Gone(c).attempts = 0 /\ Gone(c).guesses = 0 /\ Gone(c).tokens = 0
         /\ Gone(c).createdAt = c.createdAt /\ Gone(c).raced = c.raced
         /\ Gone(c).delivered = c.delivered
BY DEF Gone, Challenges

\* The deletion of the code that could not be sent.
LEMMA DeleteStep ==
  ASSUME CodesInv, NEW q \in OtpRequests, DeleteChallenge(q)
  PROVE  CodesInv'
<1> DEFINE i == otpRequest[q].of
           c == Gone(challenge[i])
<1>1. /\ otpRequest[q].pc = "undo" /\ OtpAnswer(q) /\ clock' = clock
      /\ challenge' = [challenge EXCEPT ![i] = c]
  BY DEF DeleteChallenge
<1>2. OtpTypeOK /\ i \in DOMAIN challenge /\ challenge[i] \in Challenges
  BY <1>1 DEF CodesInv, OtpTypeOK
<1>3. /\ c \in Challenges /\ c.stored = FALSE /\ c.consumed = FALSE
      /\ c.attempts = 0 /\ c.guesses = 0 /\ c.tokens = 0
      /\ c.createdAt = challenge[i].createdAt /\ c.raced = challenge[i].raced
      /\ c.delivered = challenge[i].delivered
  BY <1>2, GoneRecord
<1> HIDE DEF i, c
<1>4. /\ otpRequest' \in [OtpRequests -> OtpRequestRecords] /\ otpRequest'[q] = OtpIdle
      /\ \A p \in OtpRequests : p # q => otpRequest'[p] = otpRequest[p]
  BY <1>1, <1>2, AnswerOne
<1>5. /\ challenge' \in Seq(Challenges) /\ DOMAIN challenge' = DOMAIN challenge
      /\ challenge'[i] = c
      /\ \A j \in DOMAIN challenge : j # i => challenge'[j] = challenge[j]
  BY <1>1, <1>2, <1>3, ReplaceOne
<1>6. \A j \in DOMAIN challenge : MayArrive(j)' => MayArrive(j) /\ j # i
  BY <1>1, <1>2, <1>3, <1>4, <1>5 DEF CodesInv, SendersAreAlone, MayArrive, OtpIdle, i
<1>7. Fades
  BY <1>1, <1>3, <1>4, <1>5, <1>6 DEF Fades, OtpIdle
<1>8. OtpTypeOK'
  BY <1>1, <1>2, <1>4, <1>5 DEF OtpTypeOK, OtpIdle
<1>9. CountsAreExact'
  <2>1. ASSUME NEW j \in DOMAIN challenge, j # i
        PROVE  challenge'[j] = challenge[j]
    BY <1>5, <2>1
  <2>2. MaxAttempts \in Nat
    BY CodesAssumption
  <2> QED
    BY <1>2, <1>3, <1>5, <2>1, <2>2 DEF CodesInv, CountsAreExact
<1>10. VerifiersAreExact'
  <2>1. otpRequest'[q].pc # "matching"
    BY <1>4 DEF OtpIdle
  <2>2. ASSUME NEW p \in OtpRequests, otpRequest'[p].pc = "matching"
        PROVE  p # q /\ otpRequest'[p] = otpRequest[p] /\ otpRequest[p].of \in DOMAIN challenge
    BY <1>2, <1>4, <2>1, <2>2 DEF OtpTypeOK
  <2>3. \A j \in DOMAIN challenge :
          /\ challenge'[j].raced = challenge[j].raced
          /\ challenge'[j].stored => challenge'[j] = challenge[j]
    BY <1>3, <1>5
  <2> QED
    BY <2>2, <2>3 DEF CodesInv, VerifiersAreExact
<1>13. SendersAreAlone'
  BY <1>1, <1>2, <1>3, <1>4, <1>5 DEF CodesInv, SendersAreAlone, OtpTypeOK, OtpIdle, i
<1>11. UndeliveredCostsNothing'
  BY <1>1, <1>2, <1>3, <1>4, <1>5 DEF CodesInv, UndeliveredCostsNothing, Stored, i
<1>12. ForgottenIsExpired'
  BY <1>1, <1>3, <1>5, <1>6 DEF CodesInv, ForgottenIsExpired, ExpiresAt
<1> QED
  BY <1>7, <1>8, <1>9, <1>10, <1>11, <1>12, <1>13, FadingKeepsLimits DEF CodesInv

LEMMA PurgeStep ==
  ASSUME CodesInv, NEW i \in DOMAIN challenge, PurgeChallenge(i)
  PROVE  CodesInv'
<1> DEFINE c == Gone(challenge[i])
<1>1. /\ ExpiresAt(challenge[i]) <= clock /\ clock' = clock /\ otpRequest' = otpRequest
      /\ challenge' = [challenge EXCEPT ![i] = c]
  BY DEF PurgeChallenge
<1>2. OtpTypeOK /\ challenge[i] \in Challenges
  BY DEF CodesInv, OtpTypeOK
<1>3. /\ c \in Challenges /\ c.stored = FALSE /\ c.consumed = FALSE
      /\ c.attempts = 0 /\ c.guesses = 0 /\ c.tokens = 0
      /\ c.createdAt = challenge[i].createdAt /\ c.raced = challenge[i].raced
      /\ c.delivered = challenge[i].delivered
  BY <1>2, GoneRecord
<1> HIDE DEF c
<1>4. /\ challenge' \in Seq(Challenges) /\ DOMAIN challenge' = DOMAIN challenge
      /\ challenge'[i] = c
      /\ \A j \in DOMAIN challenge : j # i => challenge'[j] = challenge[j]
  BY <1>1, <1>2, <1>3, ReplaceOne
<1>5. \A j \in DOMAIN challenge : MayArrive(j)' => MayArrive(j)
  BY <1>1, <1>3, <1>4 DEF MayArrive
<1>6. Fades
  BY <1>1, <1>3, <1>4, <1>5 DEF Fades
<1>7. OtpTypeOK'
  BY <1>1, <1>2, <1>4 DEF OtpTypeOK
<1>8. VerifiersAreExact' /\ CountsAreExact' /\ SendersAreAlone'
  BY <1>1, <1>2, <1>3, <1>4, CodesAssumption
     DEF CodesInv, VerifiersAreExact, CountsAreExact, SendersAreAlone, OtpTypeOK
<1>9. UndeliveredCostsNothing'
  BY <1>1, <1>3, <1>4 DEF CodesInv, UndeliveredCostsNothing, Stored
<1>10. ForgottenIsExpired'
  BY <1>1, <1>3, <1>4, <1>5 DEF CodesInv, ForgottenIsExpired, ExpiresAt
<1> QED
  BY <1>6, <1>7, <1>8, <1>9, <1>10, FadingKeepsLimits DEF CodesInv

\* What a verification does to a challenge and to its request.
Shared(c, b) == [c EXCEPT !.raced = b]
Missed(c, n) == [c EXCEPT !.attempts = n + 1, !.guesses = OnceMore(c, @)]
Matched(c) == [c EXCEPT !.consumed = TRUE, !.tokens = OnceMore(c, @)]
Matching(i, n) == [OtpIdle EXCEPT !.pc = "matching", !.of = i, !.attempts = n]

LEMMA SharedRecord ==
  ASSUME NEW c \in Challenges, NEW b \in BOOLEAN
  PROVE  /\ Shared(c, b) \in Challenges /\ Shared(c, b).raced = b
         /\ Shared(c, b).stored = c.stored /\ Shared(c, b).createdAt = c.createdAt
         /\ Shared(c, b).attempts = c.attempts /\ Shared(c, b).consumed = c.consumed
         /\ Shared(c, b).guesses = c.guesses /\ Shared(c, b).tokens = c.tokens
         /\ Shared(c, b).delivered = c.delivered /\ Shared(c, b).abandoned = c.abandoned
BY DEF Shared, Challenges

LEMMA MissedRecord ==
  ASSUME NEW c \in Challenges, NEW n \in Nat
  PROVE  /\ Missed(c, n) \in Challenges
         /\ Missed(c, n).stored = c.stored /\ Missed(c, n).createdAt = c.createdAt
         /\ Missed(c, n).raced = c.raced /\ Missed(c, n).delivered = c.delivered
         /\ Missed(c, n).abandoned = c.abandoned
         /\ Missed(c, n).attempts = n + 1 /\ Missed(c, n).guesses = OnceMore(c, c.guesses)
         /\ Missed(c, n).consumed = c.consumed /\ Missed(c, n).tokens = c.tokens
<1>1. c.guesses \in Nat /\ OnceMore(c, c.guesses) \in Nat /\ n + 1 \in Nat
  BY DEF Challenges, OnceMore
<1> QED
  BY <1>1 DEF Missed, Challenges

LEMMA MatchedRecord ==
  ASSUME NEW c \in Challenges
  PROVE  /\ Matched(c) \in Challenges
         /\ Matched(c).stored = c.stored /\ Matched(c).createdAt = c.createdAt
         /\ Matched(c).raced = c.raced /\ Matched(c).delivered = c.delivered
         /\ Matched(c).abandoned = c.abandoned
         /\ Matched(c).attempts = c.attempts /\ Matched(c).guesses = c.guesses
         /\ Matched(c).consumed = TRUE /\ Matched(c).tokens = OnceMore(c, c.tokens)
<1>1. c.tokens \in Nat /\ OnceMore(c, c.tokens) \in Nat
  BY DEF Challenges, OnceMore
<1> QED
  BY <1>1 DEF Matched, Challenges

LEMMA MatchingRecord ==
  ASSUME NEW i \in Nat, NEW n \in Nat
  PROVE  /\ Matching(i, n) \in OtpRequestRecords
         /\ Matching(i, n).pc = "matching" /\ Matching(i, n).of = i
         /\ Matching(i, n).attempts = n
BY DEF Matching, OtpIdle, OtpRequestRecords

LEMMA VerifyReadsStep ==
  ASSUME CodesInv, NEW q \in OtpRequests, VerifyReads(q)
  PROVE  CodesInv'
<1> DEFINE i == Newest(Stored)
           rival == \E p \in OtpRequests : otpRequest[p].pc = "matching" /\ otpRequest[p].of = i
           b == challenge[i].raced \/ rival
           c == Shared(challenge[i], b)
           r == Matching(i, challenge[i].attempts)
<1>1. /\ otpRequest[q].pc = "idle" /\ Stored # {} /\ IsUsable(challenge[i]) /\ clock' = clock
      /\ otpRequest' = [otpRequest EXCEPT ![q] = r]
      /\ challenge' = [challenge EXCEPT ![i] = c]
  BY DEF VerifyReads, Shared, Matching
<1>2. OtpTypeOK /\ i \in DOMAIN challenge /\ challenge[i] \in Challenges
  <2>1. Stored \subseteq 1..Len(challenge) /\ Len(challenge) \in Nat
    BY DEF CodesInv, OtpTypeOK, Stored
  <2>2. i \in Stored
    BY <1>1, <2>1, LastPosition
  <2> QED
    BY <2>2 DEF CodesInv, OtpTypeOK, Stored
<1>3. /\ c \in Challenges
      /\ challenge[i].raced => c.raced
      /\ \A p \in OtpRequests : otpRequest[p].pc = "matching" /\ otpRequest[p].of = i => c.raced
      /\ c.stored = challenge[i].stored /\ c.createdAt = challenge[i].createdAt
      /\ c.attempts = challenge[i].attempts /\ c.consumed = challenge[i].consumed
      /\ c.guesses = challenge[i].guesses /\ c.tokens = challenge[i].tokens
      /\ c.delivered = challenge[i].delivered /\ c.abandoned = challenge[i].abandoned
  <2>1. b \in BOOLEAN /\ (rival => b) /\ (challenge[i].raced => b)
    BY <1>2 DEF Challenges
  <2> HIDE DEF b
  <2>2. c.raced = b
    BY <1>2, <2>1, SharedRecord
  <2>3. \A p \in OtpRequests : otpRequest[p].pc = "matching" /\ otpRequest[p].of = i => rival
    OBVIOUS
  <2> HIDE DEF rival
  <2> QED
    BY <1>2, <2>1, <2>2, <2>3, SharedRecord
<1>4. /\ r \in OtpRequestRecords /\ r.pc = "matching" /\ r.of = i
      /\ r.attempts = challenge[i].attempts
  <2>1. i \in Nat /\ challenge[i].attempts \in Nat
    BY <1>2 DEF Challenges, OtpTypeOK
  <2> QED
    BY <2>1, MatchingRecord
<1> HIDE DEF i, c, r
<1>5. /\ otpRequest' \in [OtpRequests -> OtpRequestRecords] /\ otpRequest'[q] = r
      /\ \A p \in OtpRequests : p # q => otpRequest'[p] = otpRequest[p]
  BY <1>1, <1>2, <1>4 DEF OtpTypeOK
<1>6. /\ challenge' \in Seq(Challenges) /\ DOMAIN challenge' = DOMAIN challenge
      /\ challenge'[i] = c
      /\ \A j \in DOMAIN challenge : j # i => challenge'[j] = challenge[j]
  BY <1>1, <1>2, <1>3, ReplaceOne
<1>7. \A j \in DOMAIN challenge : MayArrive(j)' => MayArrive(j)
  BY <1>3, <1>4, <1>5, <1>6 DEF MayArrive
<1>8. Fades
  BY <1>1, <1>3, <1>4, <1>5, <1>6, <1>7 DEF Fades
<1>9. OtpTypeOK'
  BY <1>1, <1>2, <1>4, <1>5, <1>6 DEF OtpTypeOK
<1>10. VerifiersAreExact'
  <2> SUFFICES ASSUME NEW p \in OtpRequests, otpRequest'[p].pc = "matching",
                      ~challenge'[otpRequest'[p].of].raced
               PROVE  /\ \A o \in OtpRequests :
                          o # p => otpRequest'[o].pc # "matching" \/ otpRequest'[o].of # otpRequest'[p].of
                      /\ challenge'[otpRequest'[p].of].stored =>
                          /\ ~challenge'[otpRequest'[p].of].consumed
                          /\ challenge'[otpRequest'[p].of].attempts = otpRequest'[p].attempts
                          /\ otpRequest'[p].attempts < MaxAttempts
    BY DEF VerifiersAreExact
  <2>1. CASE p = q
    BY <1>1, <1>3, <1>4, <1>5, <1>6, <2>1 DEF IsUsable
  <2>2. CASE p # q
    <3>1. otpRequest'[p] = otpRequest[p] /\ otpRequest[p].of # i
      BY <1>3, <1>5, <1>6, <2>2
    <3>2. challenge'[otpRequest[p].of] = challenge[otpRequest[p].of]
      BY <1>2, <1>6, <2>2, <3>1 DEF OtpTypeOK
    <3> QED
      BY <1>4, <1>5, <2>2, <3>1, <3>2 DEF CodesInv, VerifiersAreExact
  <2> QED
    BY <2>1, <2>2
<1>11. CountsAreExact'
  BY <1>3, <1>6 DEF CodesInv, CountsAreExact
<1>12. SendersAreAlone'
  BY <1>1, <1>2, <1>3, <1>4, <1>5, <1>6 DEF CodesInv, SendersAreAlone, OtpTypeOK
<1>13. UndeliveredCostsNothing'
  BY <1>1, <1>3, <1>5, <1>6 DEF CodesInv, UndeliveredCostsNothing, Stored
<1>14. ForgottenIsExpired'
  BY <1>1, <1>3, <1>6, <1>7 DEF CodesInv, ForgottenIsExpired, ExpiresAt
<1> QED
  BY <1>8, <1>9, <1>10, <1>11, <1>12, <1>13, <1>14, FadingKeepsLimits DEF CodesInv

\* A verification is answered: the code it matched becomes d, if it is still
\* there, and d counts one guess or one token more.
LEMMA MatchedStep ==
  ASSUME CodesInv, NEW q \in OtpRequests,
         otpRequest[q].pc = "matching", OtpAnswer(q), clock' = clock,
         NEW i, i = otpRequest[q].of, NEW d \in Challenges,
         challenge' = IF challenge[i].stored THEN [challenge EXCEPT ![i] = d] ELSE challenge,
         /\ d.stored = challenge[i].stored /\ d.createdAt = challenge[i].createdAt
         /\ d.raced = challenge[i].raced /\ d.delivered = challenge[i].delivered
         /\ d.abandoned = challenge[i].abandoned,
         \/ /\ d.attempts = otpRequest[q].attempts + 1
            /\ d.guesses = OnceMore(challenge[i], challenge[i].guesses)
            /\ d.consumed = challenge[i].consumed /\ d.tokens = challenge[i].tokens
         \/ /\ d.attempts = challenge[i].attempts /\ d.guesses = challenge[i].guesses
            /\ d.consumed = TRUE /\ d.tokens = OnceMore(challenge[i], challenge[i].tokens)
  PROVE  CodesInv'
<1>1. OtpTypeOK /\ i \in DOMAIN challenge /\ challenge[i] \in Challenges
  BY DEF CodesInv, OtpTypeOK
<1>2. /\ otpRequest' \in [OtpRequests -> OtpRequestRecords] /\ otpRequest'[q] = OtpIdle
      /\ \A p \in OtpRequests : p # q => otpRequest'[p] = otpRequest[p]
  BY <1>1, AnswerOne
<1>3. /\ challenge' \in Seq(Challenges) /\ DOMAIN challenge' = DOMAIN challenge
      /\ challenge'[i] = IF challenge[i].stored THEN d ELSE challenge[i]
      /\ \A j \in DOMAIN challenge : j # i => challenge'[j] = challenge[j]
  BY <1>1, ReplaceOne DEF OtpTypeOK
<1>4. \A j \in DOMAIN challenge : MayArrive(j)' => MayArrive(j)
  BY <1>2, <1>3 DEF MayArrive, OtpIdle
<1>5. Fades
  BY <1>2, <1>3, <1>4 DEF Fades, OtpIdle
<1>6. OtpTypeOK'
  BY <1>1, <1>2, <1>3 DEF OtpTypeOK, OtpIdle
<1>7. VerifiersAreExact'
  <2> SUFFICES ASSUME NEW p \in OtpRequests, otpRequest'[p].pc = "matching",
                      ~challenge'[otpRequest'[p].of].raced
               PROVE  /\ \A o \in OtpRequests :
                          o # p => otpRequest'[o].pc # "matching" \/ otpRequest'[o].of # otpRequest'[p].of
                      /\ challenge'[otpRequest'[p].of].stored =>
                          /\ ~challenge'[otpRequest'[p].of].consumed
                          /\ challenge'[otpRequest'[p].of].attempts = otpRequest'[p].attempts
                          /\ otpRequest'[p].attempts < MaxAttempts
    BY DEF VerifiersAreExact
  <2>1. p # q /\ otpRequest'[p] = otpRequest[p]
    BY <1>2 DEF OtpIdle
  <2>2. otpRequest[p].of \in DOMAIN challenge
    BY <1>1, <2>1 DEF OtpTypeOK
  <2>3. otpRequest[p].of # i
    BY <1>3, <2>1 DEF CodesInv, VerifiersAreExact
  <2>4. challenge'[otpRequest[p].of] = challenge[otpRequest[p].of]
    BY <1>3, <2>2, <2>3
  <2> QED
    BY <1>2, <2>1, <2>4 DEF CodesInv, VerifiersAreExact, OtpIdle
<1>8. CountsAreExact'
  <2> SUFFICES ASSUME NEW j \in DOMAIN challenge, ~challenge'[j].raced
               PROVE  /\ challenge'[j].tokens = IF challenge'[j].consumed THEN 1 ELSE 0
                      /\ challenge'[j].attempts = challenge'[j].guesses
                      /\ challenge'[j].guesses <= MaxAttempts
    BY <1>3 DEF CountsAreExact
  <2>1. CASE j = i /\ challenge[i].stored
    <3>1. /\ ~challenge[i].raced /\ ~challenge[i].consumed
          /\ challenge[i].attempts = otpRequest[q].attempts
          /\ otpRequest[q].attempts < MaxAttempts
          /\ challenge[i].tokens = 0 /\ challenge[i].attempts = challenge[i].guesses
      BY <1>1, <1>3, <2>1 DEF CodesInv, VerifiersAreExact, CountsAreExact
    <3>2. challenge[i].attempts \in Nat /\ MaxAttempts \in Nat
      BY <1>1, CodesAssumption DEF Challenges
    <3> QED
      BY <1>3, <2>1, <3>1, <3>2 DEF OnceMore
  <2>2. CASE ~(j = i /\ challenge[i].stored)
    BY <1>3, <2>2 DEF CodesInv, CountsAreExact
  <2> QED
    BY <2>1, <2>2
<1>9. SendersAreAlone'
  BY <1>1, <1>2, <1>3 DEF CodesInv, SendersAreAlone, OtpTypeOK, OtpIdle
<1>10. UndeliveredCostsNothing'
  BY <1>1, <1>2, <1>3 DEF CodesInv, UndeliveredCostsNothing, Stored
<1>11. ForgottenIsExpired'
  BY <1>3, <1>4 DEF CodesInv, ForgottenIsExpired, ExpiresAt
<1> QED
  BY <1>5, <1>6, <1>7, <1>8, <1>9, <1>10, <1>11, FadingKeepsLimits DEF CodesInv

LEMMA CodeIsWrongStep ==
  ASSUME CodesInv, NEW q \in OtpRequests, CodeIsWrong(q)
  PROVE  CodesInv'
<1> DEFINE i == otpRequest[q].of
           d == Missed(challenge[i], otpRequest[q].attempts)
<1>1. /\ otpRequest[q].pc = "matching" /\ OtpAnswer(q) /\ clock' = clock
      /\ challenge' = IF challenge[i].stored THEN [challenge EXCEPT ![i] = d] ELSE challenge
  BY DEF CodeIsWrong, Missed
<1>2. challenge[i] \in Challenges /\ otpRequest[q].attempts \in Nat
  BY <1>1 DEF CodesInv, OtpTypeOK, OtpRequestRecords
<1>3. /\ d \in Challenges
      /\ d.stored = challenge[i].stored /\ d.createdAt = challenge[i].createdAt
      /\ d.raced = challenge[i].raced /\ d.delivered = challenge[i].delivered
      /\ d.abandoned = challenge[i].abandoned
      /\ d.attempts = otpRequest[q].attempts + 1
      /\ d.guesses = OnceMore(challenge[i], challenge[i].guesses)
      /\ d.consumed = challenge[i].consumed /\ d.tokens = challenge[i].tokens
  BY <1>2, MissedRecord
<1> HIDE DEF i, d
<1> QED
  BY <1>1, <1>3, MatchedStep DEF i

LEMMA CodeIsRightStep ==
  ASSUME CodesInv, NEW q \in OtpRequests, CodeIsRight(q)
  PROVE  CodesInv'
<1> DEFINE i == otpRequest[q].of
           d == Matched(challenge[i])
<1>1. /\ otpRequest[q].pc = "matching" /\ OtpAnswer(q) /\ clock' = clock
      /\ challenge' = IF challenge[i].stored THEN [challenge EXCEPT ![i] = d] ELSE challenge
  BY DEF CodeIsRight, Matched
<1>2. challenge[i] \in Challenges
  BY <1>1 DEF CodesInv, OtpTypeOK
<1>3. /\ d \in Challenges
      /\ d.stored = challenge[i].stored /\ d.createdAt = challenge[i].createdAt
      /\ d.raced = challenge[i].raced /\ d.delivered = challenge[i].delivered
      /\ d.abandoned = challenge[i].abandoned
      /\ d.attempts = challenge[i].attempts /\ d.guesses = challenge[i].guesses
      /\ d.consumed = TRUE /\ d.tokens = OnceMore(challenge[i], challenge[i].tokens)
  BY <1>2, MatchedRecord
<1> HIDE DEF i, d
<1> QED
  BY <1>1, <1>3, MatchedStep DEF i

\* A document whose process died on it.
Abandoned(c, left) == [c EXCEPT !.abandoned = TRUE, !.unsaid = @ \/ left]

LEMMA AbandonedRecord ==
  ASSUME NEW c \in Challenges, NEW left \in BOOLEAN
  PROVE  /\ Abandoned(c, left) \in Challenges /\ Abandoned(c, left).abandoned = TRUE
         /\ Abandoned(c, left).stored = c.stored /\ Abandoned(c, left).createdAt = c.createdAt
         /\ Abandoned(c, left).attempts = c.attempts /\ Abandoned(c, left).consumed = c.consumed
         /\ Abandoned(c, left).guesses = c.guesses /\ Abandoned(c, left).tokens = c.tokens
         /\ Abandoned(c, left).raced = c.raced /\ Abandoned(c, left).delivered = c.delivered
BY DEF Abandoned, Challenges

LEMMA DieStep ==
  ASSUME CodesInv, NEW q \in OtpRequests, OtpDie(q)
  PROVE  CodesInv'
<1> DEFINE i == otpRequest[q].of
           c(j, l) == IF j = i /\ challenge[j].stored THEN Abandoned(challenge[j], l)
                                                     ELSE challenge[j]
<1>0. PICK left \in BOOLEAN : challenge' = [j \in DOMAIN challenge |-> c(j, left)]
  BY DEF OtpDie, Abandoned
<1>1. otpRequest[q].pc \in {"allowed", "deliver", "undo"} /\ OtpAnswer(q) /\ clock' = clock
  BY DEF OtpDie
<1>2. OtpTypeOK /\ \A j \in DOMAIN challenge : challenge[j] \in Challenges
  BY DEF CodesInv, OtpTypeOK
<1>3. \A j \in DOMAIN challenge :
        /\ c(j, left) \in Challenges
        /\ j = i /\ c(j, left).stored => c(j, left).abandoned
        /\ challenge[j].abandoned => c(j, left).abandoned
        /\ c(j, left).stored = challenge[j].stored /\ c(j, left).createdAt = challenge[j].createdAt
        /\ c(j, left).attempts = challenge[j].attempts /\ c(j, left).consumed = challenge[j].consumed
        /\ c(j, left).guesses = challenge[j].guesses /\ c(j, left).tokens = challenge[j].tokens
        /\ c(j, left).raced = challenge[j].raced /\ c(j, left).delivered = challenge[j].delivered
  BY <1>2, AbandonedRecord
<1> HIDE DEF i, c
<1>4. /\ otpRequest' \in [OtpRequests -> OtpRequestRecords] /\ otpRequest'[q] = OtpIdle
      /\ \A p \in OtpRequests : p # q => otpRequest'[p] = otpRequest[p]
  BY <1>1, <1>2, AnswerOne
<1>5. /\ challenge' \in Seq(Challenges) /\ DOMAIN challenge' = DOMAIN challenge
      /\ \A j \in DOMAIN challenge : challenge'[j] = c(j, left)
  BY <1>0, <1>2, <1>3 DEF OtpTypeOK
<1>6. \A j \in DOMAIN challenge :
        /\ j = i /\ challenge'[j].stored => challenge'[j].abandoned
        /\ challenge[j].abandoned => challenge'[j].abandoned
        /\ challenge'[j].stored = challenge[j].stored
        /\ challenge'[j].createdAt = challenge[j].createdAt
        /\ challenge'[j].attempts = challenge[j].attempts
        /\ challenge'[j].consumed = challenge[j].consumed
        /\ challenge'[j].guesses = challenge[j].guesses
        /\ challenge'[j].tokens = challenge[j].tokens
        /\ challenge'[j].raced = challenge[j].raced
        /\ challenge'[j].delivered = challenge[j].delivered
  BY <1>3, <1>5
<1>7. \A j \in DOMAIN challenge : MayArrive(j)' => MayArrive(j)
  BY <1>4, <1>6 DEF MayArrive, OtpIdle
<1>8. Fades
  BY <1>1, <1>4, <1>5, <1>6, <1>7 DEF Fades, OtpIdle
<1>9. OtpTypeOK'
  BY <1>1, <1>2, <1>4, <1>5 DEF OtpTypeOK, OtpIdle
<1>10. VerifiersAreExact' /\ CountsAreExact'
  <2>1. \A p \in OtpRequests : otpRequest'[p].pc = "matching" =>
          p # q /\ otpRequest'[p] = otpRequest[p] /\ otpRequest[p].of \in DOMAIN challenge
    BY <1>2, <1>4 DEF OtpTypeOK, OtpIdle
  <2>2. VerifiersAreExact'
    BY <1>4, <1>6, <2>1 DEF CodesInv, VerifiersAreExact, OtpIdle
  <2>3. CountsAreExact'
    BY <1>5, <1>6 DEF CodesInv, CountsAreExact
  <2> QED
    BY <2>2, <2>3
<1>11. SendersAreAlone'
  BY <1>2, <1>4, <1>6 DEF CodesInv, SendersAreAlone, OtpTypeOK, OtpIdle
<1>12. UndeliveredCostsNothing'
  <2> SUFFICES ASSUME NEW j \in DOMAIN challenge, challenge'[j].stored,
                      ~challenge'[j].delivered, ~challenge'[j].abandoned
               PROVE  \E p \in OtpRequests :
                        otpRequest'[p].pc \in {"deliver", "undo"} /\ otpRequest'[p].of = j
    BY <1>5 DEF UndeliveredCostsNothing, Stored
  <2>1. /\ j # i /\ challenge[j].stored
        /\ ~challenge[j].delivered /\ ~challenge[j].abandoned
    BY <1>6
  <2>2. PICK p \in OtpRequests : otpRequest[p].pc \in {"deliver", "undo"} /\ otpRequest[p].of = j
    BY <2>1 DEF CodesInv, UndeliveredCostsNothing, Stored
  <2> QED
    BY <1>4, <2>1, <2>2 DEF i
<1>13. ForgottenIsExpired'
  BY <1>1, <1>5, <1>6, <1>7 DEF CodesInv, ForgottenIsExpired, ExpiresAt
<1> QED
  BY <1>8, <1>9, <1>10, <1>11, <1>12, <1>13, FadingKeepsLimits DEF CodesInv

-----------------------------------------------------------------------------
LEMMA TickStep ==
  ASSUME CodesInv, ClockTicks
  PROVE  CodesInv'
<1>1. /\ clock' = clock + 1 /\ challenge' = challenge /\ otpRequest' = otpRequest
      /\ \A q \in OtpRequests : otpRequest[q].pc # "allowed"
  BY DEF ClockTicks
<1>2. clock \in Nat /\ \A i \in DOMAIN challenge : challenge[i].createdAt \in Nat
  BY Positions DEF CodesInv
<1>3. OtpTypeOK'
  BY <1>1, <1>2 DEF CodesInv, OtpTypeOK
<1>4. InOrder'
  BY <1>1, <1>2 DEF CodesInv, InOrder
<1>5. /\ VerifiersAreExact' /\ CountsAreExact' /\ SendersAreAlone'
      /\ UndeliveredCostsNothing' /\ CooldownKept' /\ AllowanceHolds'
  BY <1>1 DEF CodesInv, VerifiersAreExact, CountsAreExact, SendersAreAlone, Stored,
              UndeliveredCostsNothing, CooldownKept, AllowanceHolds, MayArrive
<1>6. ForgottenIsExpired'
  <2> SUFFICES ASSUME NEW i \in DOMAIN challenge, ~challenge[i].stored, MayArrive(i)
               PROVE  challenge[i].createdAt + TTL <= clock + 1
    BY <1>1 DEF ForgottenIsExpired, MayArrive, ExpiresAt
  <2>1. challenge[i].createdAt + TTL <= clock
    BY DEF CodesInv, ForgottenIsExpired, ExpiresAt
  <2> QED
    BY <1>2, <2>1, CodesAssumption
<1>7. CapKept'
  <2>1. \A from \in Nat : Counted(from)' = Counted(from)
    BY <1>1 DEF Counted, MayArrive
  <2> QED
    BY <2>1 DEF CodesInv, CapKept
<1> QED
  BY <1>3, <1>4, <1>5, <1>6, <1>7 DEF CodesInv

Allowed(b) == [OtpIdle EXCEPT !.pc = "allowed", !.overlapped = b]
Marked(r, b) == [r EXCEPT !.overlapped = b]

LEMMA MarkedRecord ==
  ASSUME NEW r \in OtpRequestRecords, NEW b \in BOOLEAN
  PROVE  /\ Marked(r, b) \in OtpRequestRecords /\ Marked(r, b).overlapped = b
         /\ Marked(r, b).pc = r.pc /\ Marked(r, b).of = r.of
         /\ Marked(r, b).attempts = r.attempts
         /\ Allowed(b) \in OtpRequestRecords /\ Allowed(b).overlapped = b
         /\ Allowed(b).pc = "allowed" /\ Allowed(b).of = 0
BY DEF Marked, Allowed, OtpIdle, OtpRequestRecords

LEMMA RequestReadsStep ==
  ASSUME CodesInv, NEW q \in OtpRequests, RequestReads(q)
  PROVE  CodesInv'
<1> DEFINE b(p) == otpRequest[p].overlapped \/ p \in Requesting
           others == Requesting # {}
           r(p) == IF p = q THEN Allowed(others) ELSE Marked(otpRequest[p], b(p))
<1>1. /\ otpRequest[q].pc = "idle" /\ ~CoolingDown /\ Cardinality(Recent) < Cap
      /\ otpRequest' = [p \in OtpRequests |-> r(p)]
      /\ clock' = clock /\ challenge' = challenge
  BY DEF RequestReads, Allowed, Marked
<1>2. OtpTypeOK /\ \A p \in OtpRequests : otpRequest[p] \in OtpRequestRecords
  BY DEF CodesInv, OtpTypeOK
<1>3. others \in BOOLEAN /\ \A p \in OtpRequests : b(p) \in BOOLEAN
  OBVIOUS
<1>4. /\ \A p \in OtpRequests : p \in Requesting => b(p)
      /\ ~others => Requesting = {}
  OBVIOUS
<1> HIDE DEF b, others
<1>5. \A p \in OtpRequests : r(p) \in OtpRequestRecords
  BY <1>2, <1>3, MarkedRecord
<1>6. /\ r(q).pc = "allowed" /\ r(q).of = 0
      /\ ~r(q).overlapped => Requesting = {}
  BY <1>2, <1>3, <1>4, MarkedRecord
<1>7. \A p \in OtpRequests : p # q =>
        /\ r(p).pc = otpRequest[p].pc /\ r(p).of = otpRequest[p].of
        /\ r(p).attempts = otpRequest[p].attempts
        /\ ~r(p).overlapped => p \notin Requesting
  BY <1>2, <1>3, <1>4, MarkedRecord
<1> HIDE DEF r
<1>8. /\ otpRequest' \in [OtpRequests -> OtpRequestRecords]
      /\ \A p \in OtpRequests : otpRequest'[p] = r(p)
  BY <1>1, <1>5
<1>9. OtpTypeOK'
  BY <1>1, <1>2, <1>6, <1>7, <1>8 DEF OtpTypeOK
<1>10. \A j \in DOMAIN challenge : MayArrive(j)' <=> MayArrive(j)
  BY <1>1, <1>6, <1>7, <1>8 DEF MayArrive
<1>11. VerifiersAreExact' /\ CountsAreExact' /\ SendersAreAlone'
  BY <1>1, <1>6, <1>7, <1>8
     DEF CodesInv, VerifiersAreExact, CountsAreExact, SendersAreAlone
<1>12. UndeliveredCostsNothing'
  BY <1>1, <1>6, <1>7, <1>8 DEF CodesInv, UndeliveredCostsNothing, Stored
<1>13. InOrder' /\ ForgottenIsExpired' /\ CooldownKept'
  BY <1>1, <1>10 DEF CodesInv, InOrder, ForgottenIsExpired, CooldownKept, ExpiresAt
<1>14. CapKept'
  <2>1. \A from \in Nat : Counted(from)' \subseteq Counted(from)
    BY <1>1, <1>10 DEF Counted
  <2> QED
    BY <1>1, <2>1, CapShrinks, CodesAssumption DEF CodesInv
<1>15. \A i \in DOMAIN challenge :
        MayArrive(i) => challenge[i].createdAt + Cooldown <= clock
  <2> SUFFICES ASSUME NEW i \in DOMAIN challenge, MayArrive(i)
               PROVE  challenge[i].createdAt + Cooldown <= clock
    OBVIOUS
  <2>1. /\ clock \in Nat /\ challenge[i].createdAt \in Nat
        /\ Cooldown \in Nat /\ TTL \in Nat /\ Hour \in Nat
        /\ Cooldown <= TTL /\ TTL <= Hour
    BY <1>2, Positions, CodesAssumption
  <2>2. CASE ~challenge[i].stored
    BY <2>1, <2>2 DEF CodesInv, ForgottenIsExpired, ExpiresAt
  <2>3. CASE challenge[i].stored /\ i \notin Recent
    BY <2>1, <2>3 DEF Recent, Stored
  <2>4. CASE i \in Recent
    <3> DEFINE n == Newest(Recent)
    <3>1. Recent \subseteq 1..Len(challenge) /\ Len(challenge) \in Nat /\ Recent # {}
      BY <1>2, <2>4 DEF OtpTypeOK, Recent, Stored
    <3>2. n \in Recent /\ i <= n
      BY <2>4, <3>1, LastPosition
    <3>3. ~(clock - challenge[n].createdAt < Cooldown)
      BY <1>1, <3>1 DEF CoolingDown
    <3> HIDE DEF n
    <3>4. n \in DOMAIN challenge /\ challenge[n].createdAt \in Nat /\ i \in Nat /\ n \in Nat
      BY <1>2, <3>2, Positions DEF Recent, Stored
    <3>5. challenge[i].createdAt <= challenge[n].createdAt
      BY <2>1, <3>2, <3>4 DEF CodesInv, InOrder
    <3> QED
      BY <2>1, <3>3, <3>4, <3>5
  <2> QED
    BY <2>2, <2>3, <2>4
<1>16. AllowanceHolds'
  <2> SUFFICES ASSUME NEW p \in OtpRequests,
                      otpRequest'[p].pc = "allowed", ~otpRequest'[p].overlapped
               PROVE  /\ Requesting' = {p}
                      /\ Cardinality(Recent') < Cap
                      /\ \A i \in DOMAIN challenge' :
                          MayArrive(i)' => challenge'[i].createdAt + Cooldown <= clock'
    BY DEF AllowanceHolds
  <2>1. p = q
    BY <1>7, <1>8 DEF Requesting
  <2>2. Requesting = {}
    BY <1>6, <1>8, <2>1
  <2>3. Requesting' = {p}
    BY <1>6, <1>7, <1>8, <2>1, <2>2 DEF Requesting
  <2>4. Recent' = Recent
    BY <1>1 DEF Recent, Stored
  <2> QED
    BY <1>1, <1>10, <1>15, <2>3, <2>4
<1> QED
  BY <1>9, <1>11, <1>12, <1>13, <1>14, <1>16 DEF CodesInv

Delivering(r, i) == [r EXCEPT !.pc = "deliver", !.of = i]

LEMMA DeliveringRecord ==
  ASSUME NEW r \in OtpRequestRecords, NEW i \in Nat
  PROVE  /\ Delivering(r, i) \in OtpRequestRecords
         /\ Delivering(r, i).pc = "deliver" /\ Delivering(r, i).of = i
BY DEF Delivering, OtpRequestRecords

LEMMA ChallengeRecord ==
  ASSUME clock \in Nat, NEW b \in BOOLEAN
  PROVE  /\ Challenge(b) \in Challenges /\ Challenge(b).createdAt = clock
         /\ Challenge(b).stored = TRUE /\ Challenge(b).consumed = FALSE
         /\ Challenge(b).attempts = 0 /\ Challenge(b).guesses = 0
         /\ Challenge(b).tokens = 0 /\ Challenge(b).raced = b
         /\ Challenge(b).delivered = FALSE /\ Challenge(b).abandoned = FALSE
BY DEF Challenge, Challenges

\* A request that was let through on its own adds one to fewer than Cap: the
\* codes of a span that has not ended are unexpired, hence stored, hence recent.
LEMMA CreateStep ==
  ASSUME CodesInv, NEW q \in OtpRequests, CreateChallenge(q)
  PROVE  CodesInv'
<1> DEFINE i == Len(challenge) + 1
           b == otpRequest[q].overlapped
           c == Challenge(b)
           r == Delivering(otpRequest[q], i)
<1>1. /\ otpRequest[q].pc = "allowed" /\ clock' = clock
      /\ challenge' = Append(challenge, c)
      /\ otpRequest' = [otpRequest EXCEPT ![q] = r]
  BY DEF CreateChallenge, Delivering
<1>2. /\ OtpTypeOK /\ otpRequest[q] \in OtpRequestRecords /\ b \in BOOLEAN
      /\ clock \in Nat /\ i \in Nat /\ i \notin DOMAIN challenge
      /\ \A j \in DOMAIN challenge : j \in Nat /\ j < i /\ challenge[j].createdAt \in Nat
  <2>1. OtpTypeOK /\ otpRequest[q] \in OtpRequestRecords
    BY DEF CodesInv, OtpTypeOK
  <2>2. b \in BOOLEAN
    BY <2>1 DEF OtpRequestRecords
  <2> QED
    BY <2>1, <2>2, Positions
<1>3. /\ c \in Challenges /\ c.createdAt = clock /\ c.stored = TRUE /\ c.consumed = FALSE
      /\ c.attempts = 0 /\ c.guesses = 0 /\ c.tokens = 0 /\ c.raced = b
      /\ c.delivered = FALSE /\ c.abandoned = FALSE
  BY <1>2, ChallengeRecord
<1>4. r \in OtpRequestRecords /\ r.pc = "deliver" /\ r.of = i
  BY <1>2, DeliveringRecord
<1>5. /\ challenge' \in Seq(Challenges) /\ DOMAIN challenge' = DOMAIN challenge \cup {i}
      /\ challenge'[i] = c
      /\ \A j \in DOMAIN challenge : challenge'[j] = challenge[j]
  <2> HIDE DEF c
  <2> QED
    BY <1>1, <1>2, <1>3 DEF OtpTypeOK
<1> HIDE DEF c, r, i
<1>6. /\ otpRequest' \in [OtpRequests -> OtpRequestRecords] /\ otpRequest'[q] = r
      /\ \A p \in OtpRequests : p # q => otpRequest'[p] = otpRequest[p]
  BY <1>1, <1>2, <1>4 DEF OtpTypeOK
<1>7. OtpTypeOK'
  BY <1>1, <1>2, <1>4, <1>5, <1>6 DEF OtpTypeOK
<1>8. \A p \in OtpRequests : otpRequest[p].pc \in {"deliver", "undo", "matching"} =>
        p # q /\ otpRequest[p].of \in DOMAIN challenge /\ otpRequest[p].of # i
  BY <1>1, <1>2 DEF OtpTypeOK
<1>9. \A j \in DOMAIN challenge : MayArrive(j)' => MayArrive(j)
  BY <1>2, <1>4, <1>5, <1>6 DEF MayArrive
<1>10. InOrder'
  <2> SUFFICES ASSUME NEW j \in DOMAIN challenge', NEW k \in DOMAIN challenge'
               PROVE  /\ challenge'[j].createdAt <= clock
                      /\ j < k => challenge'[j].createdAt <= challenge'[k].createdAt
    BY <1>1 DEF InOrder
  <2>1. CASE j \in DOMAIN challenge /\ k \in DOMAIN challenge
    BY <1>5, <2>1 DEF CodesInv, InOrder
  <2>2. CASE j \in DOMAIN challenge /\ k = i
    BY <1>3, <1>5, <2>2 DEF CodesInv, InOrder
  <2>3. CASE j = i
    <3>1. ~(j < k)
      BY <1>2, <1>5, <2>3
    <3> QED
      BY <1>2, <1>3, <1>5, <2>3, <3>1
  <2> QED
    BY <1>5, <2>1, <2>2, <2>3
<1>11. VerifiersAreExact'
  <2>1. \A p \in OtpRequests : otpRequest'[p].pc = "matching" =>
          /\ p # q /\ otpRequest'[p] = otpRequest[p]
          /\ challenge'[otpRequest[p].of] = challenge[otpRequest[p].of]
    BY <1>4, <1>5, <1>6, <1>8
  <2> QED
    BY <1>4, <1>6, <2>1 DEF CodesInv, VerifiersAreExact
<1>12. CountsAreExact'
  BY <1>3, <1>5, CodesAssumption DEF CodesInv, CountsAreExact
<1>13. SendersAreAlone'
  <2> SUFFICES ASSUME NEW p \in OtpRequests, otpRequest'[p].pc \in {"deliver", "undo"}
               PROVE  /\ ~challenge'[otpRequest'[p].of].delivered
                      /\ \A o \in OtpRequests : o # p =>
                          otpRequest'[o].pc \notin {"deliver", "undo"} \/ otpRequest'[o].of # otpRequest'[p].of
    BY DEF SendersAreAlone
  <2>1. CASE p = q
    BY <1>3, <1>4, <1>5, <1>6, <1>8, <2>1
  <2>2. CASE p # q
    BY <1>4, <1>5, <1>6, <1>8, <2>2 DEF CodesInv, SendersAreAlone
  <2> QED
    BY <2>1, <2>2
<1>14. UndeliveredCostsNothing'
  <2> SUFFICES ASSUME NEW j \in DOMAIN challenge', challenge'[j].stored,
                      ~challenge'[j].delivered, ~challenge'[j].abandoned
               PROVE  \E p \in OtpRequests :
                        otpRequest'[p].pc \in {"deliver", "undo"} /\ otpRequest'[p].of = j
    BY DEF UndeliveredCostsNothing, Stored
  <2>1. CASE j = i
    BY <1>4, <1>6, <2>1
  <2>2. CASE j \in DOMAIN challenge
    <3>1. PICK p \in OtpRequests : otpRequest[p].pc \in {"deliver", "undo"} /\ otpRequest[p].of = j
      BY <1>5, <2>2 DEF CodesInv, UndeliveredCostsNothing, Stored
    <3> QED
      BY <1>6, <1>8, <3>1
  <2> QED
    BY <1>5, <2>1, <2>2
<1>15. ForgottenIsExpired'
  BY <1>1, <1>3, <1>5, <1>9 DEF CodesInv, ForgottenIsExpired, ExpiresAt
<1>16. AllowanceHolds'
  <2> SUFFICES ASSUME NEW p \in OtpRequests, otpRequest'[p].pc = "allowed",
                      ~otpRequest'[p].overlapped
               PROVE  FALSE
    BY DEF AllowanceHolds
  <2>1. p # q /\ otpRequest[p] = otpRequest'[p]
    BY <1>4, <1>6
  <2>2. Requesting = {p}
    BY <2>1 DEF CodesInv, AllowanceHolds
  <2> QED
    BY <1>1, <2>1, <2>2 DEF Requesting
<1>17. CooldownKept'
  <2> SUFFICES ASSUME NEW j \in DOMAIN challenge', NEW k \in DOMAIN challenge',
                      j < k, ~challenge'[k].raced, MayArrive(j)'
               PROVE  challenge'[j].createdAt + Cooldown <= challenge'[k].createdAt
    BY DEF CooldownKept
  <2>1. j \in DOMAIN challenge
    BY <1>2, <1>5
  <2>2. CASE k \in DOMAIN challenge
    BY <1>5, <1>9, <2>1, <2>2 DEF CodesInv, CooldownKept
  <2>3. CASE k = i
    BY <1>1, <1>3, <1>5, <1>9, <2>1, <2>3 DEF CodesInv, AllowanceHolds
  <2> QED
    BY <1>5, <2>2, <2>3
<1>18. CapKept'
  <2> SUFFICES ASSUME NEW from \in Nat PROVE Cardinality(Counted(from)') <= Cap
    BY DEF CapKept
  <2>1. Counted(from)' \subseteq Counted(from) \cup {i}
    BY <1>5, <1>9 DEF Counted
  <2>2. /\ IsFiniteSet(Counted(from)) /\ Cardinality(Counted(from)) \in Nat
        /\ Cardinality(Counted(from)) <= Cap /\ Cap \in Nat
    BY <1>2, PositionsAreFinite, CodesAssumption DEF Counted, CodesInv, CapKept
  <2>3. /\ IsFiniteSet(Counted(from)') /\ Cardinality(Counted(from)') \in Nat
    <3>1. IsFiniteSet(Counted(from) \cup {i})
      BY <2>2, FS_AddElement
    <3> QED
      BY <2>1, <3>1, FS_Subset, FS_CardinalityType
  <2>4. CASE i \notin Counted(from)'
    <3>1. Counted(from)' \subseteq Counted(from)
      BY <2>1, <2>4
    <3> QED
      BY <2>2, <2>3, <3>1, FS_Subset
  <2>5. CASE i \in Counted(from)'
    <3>1. ~b /\ clock \in from..(from + TTL - 1)
      BY <1>3, <1>5, <2>5 DEF Counted
    <3>2. Requesting = {q} /\ Cardinality(Recent) < Cap
      BY <1>1, <3>1 DEF CodesInv, AllowanceHolds
    <3>3. Recent \in SUBSET DOMAIN challenge
      BY DEF Recent, Stored
    <3>4. IsFiniteSet(Recent) /\ Cardinality(Recent) \in Nat
      BY <1>2, <3>3, PositionsAreFinite
    <3>5. Counted(from) \subseteq Recent
      <4> SUFFICES ASSUME NEW j \in Counted(from) PROVE j \in Recent
        OBVIOUS
      <4>1. /\ j \in DOMAIN challenge /\ challenge[j].createdAt \in from..(from + TTL - 1)
            /\ challenge[j].stored \/ MayArrive(j)
        BY DEF Counted
      <4>2. /\ challenge[j].createdAt \in Nat /\ TTL \in Nat /\ Hour \in Nat /\ TTL <= Hour
        BY <1>2, <4>1, CodesAssumption
      <4>3. ~(challenge[j].createdAt + TTL <= clock)
        BY <1>2, <3>1, <4>1, <4>2
      <4>4. challenge[j].stored
        BY <4>1, <4>3 DEF CodesInv, ForgottenIsExpired, ExpiresAt
      <4>5. challenge[j].createdAt >= clock - Hour
        BY <1>2, <4>2, <4>3
      <4> QED
        BY <4>1, <4>4, <4>5 DEF Recent, Stored
    <3>6. Cardinality(Counted(from)) <= Cardinality(Recent)
      BY <3>4, <3>5, FS_Subset
    <3>7. /\ IsFiniteSet(Counted(from) \cup {i})
          /\ Cardinality(Counted(from) \cup {i}) \in Nat
          /\ Cardinality(Counted(from) \cup {i}) <= Cardinality(Counted(from)) + 1
      <4> DEFINE S == Counted(from)
      <4>1. IsFiniteSet(S) /\ Cardinality(S) \in Nat
        BY <2>2
      <4> HIDE DEF S
      <4>2. /\ IsFiniteSet(S \cup {i})
            /\ Cardinality(S \cup {i}) = IF i \in S THEN Cardinality(S) ELSE Cardinality(S) + 1
        BY <4>1, FS_AddElement
      <4>3. /\ IsFiniteSet(S \cup {i}) /\ Cardinality(S \cup {i}) \in Nat
            /\ Cardinality(S \cup {i}) <= Cardinality(S) + 1
        BY <4>1, <4>2
      <4> QED
        BY <4>3 DEF S
    <3>8. Cardinality(Counted(from)') <= Cardinality(Counted(from) \cup {i})
      BY <2>1, <3>7, FS_Subset
    <3> QED
      BY <2>2, <2>3, <3>2, <3>4, <3>6, <3>7, <3>8
  <2> QED
    BY <2>4, <2>5
<1> QED
  BY <1>7, <1>10, <1>11, <1>12, <1>13, <1>14, <1>15, <1>16, <1>17, <1>18 DEF CodesInv

LEMMA CodesStutter == ASSUME CodesInv, UNCHANGED otpVars PROVE CodesInv'
<1>1. clock' = clock /\ challenge' = challenge /\ otpRequest' = otpRequest
  BY DEF otpVars
<1>2. /\ OtpTypeOK' /\ InOrder' /\ VerifiersAreExact' /\ CountsAreExact'
      /\ SendersAreAlone' /\ UndeliveredCostsNothing' /\ ForgottenIsExpired'
  BY <1>1 DEF CodesInv, OtpTypeOK, InOrder, VerifiersAreExact, CountsAreExact, SendersAreAlone,
              UndeliveredCostsNothing, ForgottenIsExpired, MayArrive, Stored, ExpiresAt
<1>3. AllowanceHolds'
  <2>1. Requesting' = Requesting /\ Recent' = Recent
    BY <1>1 DEF Requesting, Recent, Stored
  <2> QED
    BY <1>1, <2>1 DEF CodesInv, AllowanceHolds, MayArrive
<1>4. CooldownKept' /\ CapKept'
  <2>1. \A from \in Nat : Counted(from)' = Counted(from)
    BY <1>1 DEF Counted, MayArrive
  <2> QED
    BY <1>1, <2>1 DEF CodesInv, CooldownKept, CapKept, MayArrive
<1> QED
  BY <1>2, <1>3, <1>4 DEF CodesInv

LEMMA CodesStep == ASSUME CodesInv, [OtpNext]_otpVars PROVE CodesInv'
<1>1. CASE UNCHANGED otpVars
  BY <1>1, CodesStutter
<1>2. CASE ClockTicks
  BY <1>2, TickStep
<1>3. ASSUME NEW i \in DOMAIN challenge, PurgeChallenge(i) PROVE CodesInv'
  BY <1>3, PurgeStep
<1>4. ASSUME NEW q \in OtpRequests, OtpStep(q) PROVE CodesInv'
  BY <1>4, RequestReadsStep, CreateStep, DeliverStep, DeliverFailsStep, DeleteStep,
     VerifyReadsStep, CodeIsWrongStep, CodeIsRightStep, DieStep DEF OtpStep
<1> QED
  BY <1>1, <1>2, <1>3, <1>4 DEF OtpNext

-----------------------------------------------------------------------------
(* At every moment the codes are as requests that work on them alone would *)
(* leave them (customerAuth.service.js:83-214).                            *)
THEOREM CodesInvariant == OtpSpec => []CodesInv
<1>1. OtpInit => CodesInv
  BY CodesInit
<1>2. CodesInv /\ [OtpNext]_otpVars => CodesInv'
  BY CodesStep
<1> QED
  BY <1>1, <1>2, PTL DEF OtpSpec

(* A code verified by one request at a time yields one token, counts every *)
(* wrong guess and dies of MaxAttempts (customerAuth.service.js:193-214).  *)
THEOREM CodesAreSpentOnce == OtpSpec => []OneTokenPerCode
<1>1. CodesInv => OneTokenPerCode
  BY DEF CodesInv, CountsAreExact, OneTokenPerCode
<1> QED
  BY <1>1, CodesInvariant, PTL

(* A code nobody received is deleted by the request that made it, or left  *)
(* by a process that died (customerAuth.service.js:137-148).               *)
THEOREM UndeliveredIsDeleted == OtpSpec => []UndeliveredCostsNothing
<1>1. CodesInv => UndeliveredCostsNothing
  BY DEF CodesInv
<1> QED
  BY <1>1, CodesInvariant, PTL

(* Requests that did not overlap put at most Cap codes into the inbox in   *)
(* the life of a code, the cooldown apart (customerAuth.service.js:93-126). *)
THEOREM LimitsHoldAlone == OtpSpec => []InboxIsSpared
<1>1. ASSUME CodesInv PROVE InboxIsSpared
  <2> DEFINE calm == { i \in DOMAIN challenge : ~challenge[i].raced }
             sent(from) == calm \cap DeliveredIn(from, from + TTL - 1)
  <2>1. ASSUME NEW from \in 0..LastTick PROVE Cardinality(sent(from)) <= Cap
    <3>1. from \in Nat
      OBVIOUS
    <3>2. sent(from) \subseteq Counted(from) /\ Counted(from) \subseteq DOMAIN challenge
      BY DEF DeliveredIn, Counted, MayArrive
    <3>3. /\ IsFiniteSet(Counted(from)) /\ Cardinality(Counted(from)) \in Nat
          /\ Cardinality(sent(from)) \in Nat /\ Cardinality(Counted(from)) <= Cap
      BY <1>1, <3>1, <3>2, PositionsAreFinite DEF CodesInv, CapKept
    <3>4. Cardinality(sent(from)) <= Cardinality(Counted(from))
      BY <3>2, <3>3, FS_Subset
    <3> QED
      BY <1>1, <3>3, <3>4, CodesAssumption
  <2>2. ASSUME NEW i \in calm, NEW j \in calm,
               i < j, challenge[i].delivered, challenge[j].delivered
        PROVE  challenge[j].createdAt - challenge[i].createdAt >= Cooldown
    <3>1. challenge[i].createdAt + Cooldown <= challenge[j].createdAt
      BY <1>1, <2>2 DEF CodesInv, CooldownKept, MayArrive
    <3>2. /\ challenge[i].createdAt \in Nat /\ challenge[j].createdAt \in Nat
          /\ Cooldown \in Nat
      BY <1>1, Positions, CodesAssumption DEF CodesInv
    <3> QED
      BY <3>1, <3>2
  <2> QED
    BY <2>1, <2>2 DEF InboxIsSpared
<1> QED
  BY <1>1, CodesInvariant, PTL
=============================================================================
