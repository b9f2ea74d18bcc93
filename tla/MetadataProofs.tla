---------------------------- MODULE MetadataProofs ----------------------------
(***************************************************************************)
(* Proofs about MetadataEnrichment, for any NFTs, processes, callers and   *)
(* limits: its types, that what is completed is stored and served, and     *)
(* that the intervals' attempts on an NFT are bounded.                     *)
(***************************************************************************)
EXTENDS MetadataEnrichment, FiniteSetTheorems, TLAPS

\* The processes with an attempt on the NFT under way.
Flying(n) == {p \in Process : attempt[p][n].pc # "idle"}

\* What is stored.
Served(n) ==
  /\ entry[n].status = "completed" => nft[n].metadata
  /\ nft[n].imageUrl # NoValue => nft[n].imageUrl \in images[n]

\* What an attempt has stored and uploaded, by where it stands.
Sound(w, n) ==
  /\ attempt[w][n].pc \in {"findImage", "fetchImage", "putImage"} /\ ~ attempt[w][n].inner =>
       nft[n].metadata
  /\ attempt[w][n].pc \in {"storeImage", "storeImageError", "complete"} => nft[n].metadata
  /\ attempt[w][n].pc = "storeImage" /\ attempt[w][n].image # NoValue =>
       attempt[w][n].image \in images[n]
  /\ attempt[w][n].pc = "putImage" => attempt[w][n].image \in Extension

\* A process has attempts under way on the NFTs of its batch only.
Busy(p, n) == n \notin batch[p] => attempt[p][n].pc = "idle"

\* While nothing fails, the attempts on an NFT that may be tried again were
\* counted as retries, up to those under way.
Counted(n) ==
  dbFailures = 0 /\ crashes = 0 =>
    /\ started[n] < MaxRetries + Cardinality(Process)
    /\ entry[n].status = "pending" /\ entry[n].retries < MaxRetries =>
         started[n] <= entry[n].retries + Cardinality(Flying(n))

IInv ==
  /\ TypeOK
  /\ \A n \in Nft : Served(n) /\ Counted(n)
  /\ \A w \in Worker, n \in Nft : Sound(w, n)
  /\ \A p \in Process, n \in Nft : Busy(p, n)

-----------------------------------------------------------------------------
(* Lemmas about attempts.                                                  *)

\* The records attempts are made of.
LEMMA AttemptTyped ==
  /\ Idle \in Attempt /\ Idle.pc = "idle"
  /\ Begin \in Attempt /\ Begin.pc = "readCache"
  /\ \A step \in Step : /\ [Idle EXCEPT !.pc = step] \in Attempt
                        /\ [Idle EXCEPT !.pc = step].pc = step
                        /\ ~ [Idle EXCEPT !.pc = step].inner
                        /\ [Idle EXCEPT !.pc = step].image = NoValue
<1>1. Idle = [pc |-> "idle", asked |-> 0, inner |-> FALSE, image |-> NoValue]
  BY DEF Idle
<1>2. Idle \in Attempt /\ Idle.pc = "idle"
  BY <1>1, EnrichmentAssumption DEF Attempt, Step
<1>3. Idle.inner = FALSE /\ Idle.image = NoValue
  BY <1>1
<1>4. ASSUME NEW step \in Step
      PROVE  /\ [Idle EXCEPT !.pc = step] \in Attempt
             /\ [Idle EXCEPT !.pc = step].pc = step
             /\ [Idle EXCEPT !.pc = step].inner = Idle.inner
             /\ [Idle EXCEPT !.pc = step].image = Idle.image
  BY <1>2 DEF Attempt
<1>5. \A step \in Step : ~ [Idle EXCEPT !.pc = step].inner
                         /\ [Idle EXCEPT !.pc = step].image = NoValue
  BY <1>3, <1>4
<1>6. Begin \in Attempt /\ Begin.pc = "readCache"
  BY <1>4 DEF Begin, Step
<1> QED
  BY <1>2, <1>4, <1>5, <1>6

\* One attempt becomes another.
LEMMA Became ==
  ASSUME TypeOK, NEW w \in Worker, NEW n \in Nft, NEW a \in Attempt, Become(w, n, a)
  PROVE  /\ attempt' \in [Worker -> [Nft -> Attempt]]
         /\ attempt'[w][n] = a
         /\ \A v \in Worker, m \in Nft : v # w \/ m # n => attempt'[v][m] = attempt[v][m]
BY DEF TypeOK, Become

\* The sets of processes with attempts under way are finite.
LEMMA FlyingFinite ==
  ASSUME NEW n \in Nft
  PROVE  /\ IsFiniteSet(Flying(n)) /\ Cardinality(Flying(n)) \in Nat
         /\ Cardinality(Flying(n)) <= Cardinality(Process)
         /\ Cardinality(Process) \in Nat
<1>1. Flying(n) \in SUBSET Process
  BY DEF Flying
<1> QED
  BY <1>1, EnrichmentAssumption, FS_Subset, FS_CardinalityType

\* A step of an attempt that neither begins nor ends it, or that a caller
\* makes, and that leaves the entry alone unless the database fails, keeps the
\* count.
LEMMA CountKept ==
  ASSUME IInv, NEW w \in Worker, NEW n \in Nft, NEW a \in Attempt, Become(w, n, a),
         w \in Process => attempt[w][n].pc # "idle" /\ a.pc # "idle",
         UNCHANGED <<started, crashes>>,
         dbFailures' = 0 => dbFailures = 0 /\ entry' = entry
  PROVE  \A m \in Nft : Counted(m)'
<1> SUFFICES ASSUME NEW m \in Nft, dbFailures' = 0, crashes' = 0
             PROVE  /\ started'[m] < MaxRetries + Cardinality(Process)
                    /\ entry'[m].status = "pending" /\ entry'[m].retries < MaxRetries =>
                         started'[m] <= entry'[m].retries + Cardinality(Flying(m))'
  BY DEF Counted
<1>1. \A p \in Process : attempt'[p][m].pc # "idle" <=> attempt[p][m].pc # "idle"
  BY Became DEF IInv, Worker
<1>2. Flying(m)' = Flying(m)
  BY <1>1 DEF Flying
<1>3. Counted(m) /\ dbFailures = 0 /\ crashes = 0 /\ entry' = entry
  BY DEF IInv
<1>4. Cardinality(Flying(m))' = Cardinality(Flying(m))
  BY <1>2
<1> QED
  BY <1>3, <1>4 DEF Counted

\* What the step of an attempt owes to the invariant.
LEMMA StepKeeps ==
  ASSUME IInv, NEW w \in Worker, NEW n \in Nft, NEW a \in Attempt, Become(w, n, a),
         attempt[w][n].pc # "idle",
         UNCHANGED <<s3, source, batch, started, crashes>>,
         entry' \in [Nft -> Entry], nft' \in [Nft -> Row],
         cached' \subseteq Nft, images' \in [Nft -> SUBSET Extension],
         dbFailures' \in 0 .. MaxDbFailures,
         \A m \in Nft : nft[m].metadata => nft'[m].metadata,
         \A m \in Nft : images[m] \subseteq images'[m],
         \A m \in Nft : Served(m)', Sound(w, n)', \A m \in Nft : Counted(m)'
  PROVE  IInv'
<1>1. /\ attempt' \in [Worker -> [Nft -> Attempt]]
      /\ \A v \in Worker, m \in Nft : v # w \/ m # n => attempt'[v][m] = attempt[v][m]
  BY Became DEF IInv
<1>2. TypeOK'
  BY <1>1 DEF IInv, TypeOK
<1>3. \A v \in Worker, m \in Nft : Sound(v, m)'
  <2> SUFFICES ASSUME NEW v \in Worker, NEW m \in Nft PROVE Sound(v, m)'
    OBVIOUS
  <2>1. CASE v = w /\ m = n
    BY <2>1
  <2>2. CASE v # w \/ m # n
    BY <1>1, <2>2 DEF IInv, Sound
  <2> QED
    BY <2>1, <2>2
<1>4. \A p \in Process, m \in Nft : Busy(p, m)'
  <2> SUFFICES ASSUME NEW p \in Process, NEW m \in Nft PROVE Busy(p, m)'
    OBVIOUS
  <2>1. CASE p = w /\ m = n
    BY <2>1 DEF IInv, Busy
  <2>2. CASE p # w \/ m # n
    BY <1>1, <2>2 DEF IInv, Busy, Worker
  <2> QED
    BY <2>1, <2>2
<1> QED
  BY <1>2, <1>3, <1>4 DEF IInv

\* A step of an attempt that stores nothing in the tables.
LEMMA FetchStepKeeps ==
  ASSUME IInv, NEW w \in Worker, NEW n \in Nft, NEW a \in Attempt, Become(w, n, a),
         attempt[w][n].pc # "idle", a.pc # "idle",
         UNCHANGED <<given, batch, entry, nft, started, faults>>,
         cached' \subseteq Nft, images' \in [Nft -> SUBSET Extension],
         \A m \in Nft : images[m] \subseteq images'[m],
         Sound(w, n)'
  PROVE  IInv'
<1>1. /\ UNCHANGED <<s3, source, batch, started, crashes>>
      /\ dbFailures' = dbFailures /\ entry' = entry /\ nft' = nft
  BY DEF given, faults
<1>2. \A m \in Nft : Served(m)'
  BY <1>1 DEF IInv, Served
<1>3. \A m \in Nft : Counted(m)'
  BY <1>1, CountKept
<1>4. entry' \in [Nft -> Entry] /\ nft' \in [Nft -> Row] /\ dbFailures' \in 0 .. MaxDbFailures
  BY <1>1 DEF IInv, TypeOK
<1> QED
  BY <1>1, <1>2, <1>3, <1>4, StepKeeps

\* The attempt goes on at a step that needs nothing of what was fetched.
LEMMA GotoKeeps ==
  ASSUME IInv, NEW w \in Worker, NEW n \in Nft, NEW step \in {"storeMetadata", "askGateway",
         "storeError", "putMetadata"}, Goto(w, n, step),
         attempt[w][n].pc # "idle",
         UNCHANGED <<given, batch, entry, nft, images, started, faults>>,
         cached' \subseteq Nft
  PROVE  IInv'
<1> DEFINE a == [Idle EXCEPT !.pc = step]
<1>1. a \in Attempt /\ a.pc = step
  BY AttemptTyped DEF Step
<1>2. Become(w, n, a)
  BY DEF Goto
<1>3. attempt'[w][n].pc = step
  BY <1>1, <1>2, Became DEF IInv
<1>4. Sound(w, n)'
  BY <1>3 DEF Sound
<1>5. images' \in [Nft -> SUBSET Extension] /\ \A m \in Nft : images[m] \subseteq images'[m]
  BY DEF IInv, TypeOK
<1> HIDE DEF a
<1> QED
  BY <1>1, <1>2, <1>4, <1>5, FetchStepKeeps

-----------------------------------------------------------------------------
(* fetchNFTMetadata.                                                       *)

\* The number of places asked stays within the gateways.
LEMMA PlacesBounded ==
  ASSUME TypeOK, NEW n \in Nft
  PROVE  Places(n) \in 0 .. Gateways
BY EnrichmentAssumption DEF TypeOK, Source, Places

\* Reading the cache.
LEMMA ReadCacheKeeps ==
  ASSUME IInv, NEW w \in Worker, NEW n \in Nft, ReadCache(w, n)
  PROVE  IInv'
<1>1. PICK step \in {"storeMetadata", "askGateway", "storeError"} : Goto(w, n, step)
  BY DEF ReadCache, FetchFailed
<1>2. cached' = cached /\ cached \subseteq Nft
  BY DEF ReadCache, bucket, IInv, TypeOK
<1> QED
  BY <1>1, <1>2, GotoKeeps DEF ReadCache, bucket

\* A gateway answers.
LEMMA AskGatewayKeeps ==
  ASSUME IInv, NEW w \in Worker, NEW n \in Nft, AskGateway(w, n)
  PROVE  IInv'
<1> DEFINE a == attempt[w][n]
           b == [a EXCEPT !.asked = a.asked + 1]
<1>1. /\ a.pc = "askGateway" /\ cached' = cached /\ cached \subseteq Nft
      /\ UNCHANGED <<given, batch, entry, nft, images, started, faults>>
  BY DEF AskGateway, bucket, IInv, TypeOK
<1>2. CASE Goto(w, n, "putMetadata") \/ Goto(w, n, "storeError")
  <2>1. PICK step \in {"putMetadata", "storeError"} : Goto(w, n, step)
    BY <1>2
  <2> QED
    BY <1>1, <2>1, GotoKeeps
<1>3. CASE a.asked + 1 < Places(n) /\ Become(w, n, b)
  <2>1. a \in Attempt
    BY DEF IInv, TypeOK
  <2>2. b \in Attempt /\ b.pc = "askGateway"
    BY <1>1, <1>3, <2>1, PlacesBounded, EnrichmentAssumption DEF IInv, Attempt
  <2> HIDE DEF b
  <2>3. attempt'[w][n] = b
    BY <1>3, <2>2, Became DEF IInv
  <2>4. Sound(w, n)'
    BY <2>2, <2>3 DEF Sound
  <2>5. images' \in [Nft -> SUBSET Extension] /\ \A m \in Nft : images[m] \subseteq images'[m]
    BY <1>1 DEF IInv, TypeOK
  <2> QED
    BY <1>1, <1>3, <2>2, <2>4, <2>5, FetchStepKeeps
<1> QED
  BY <1>2, <1>3 DEF AskGateway, FetchFailed

\* The metadata are put into the bucket.
LEMMA PutMetadataKeeps ==
  ASSUME IInv, NEW w \in Worker, NEW n \in Nft, PutMetadata(w, n)
  PROVE  IInv'
<1> DEFINE a == [Idle EXCEPT !.pc = "findImage", !.inner = TRUE]
<1>1. /\ attempt[w][n].pc = "putMetadata" /\ cached' \subseteq Nft
      /\ UNCHANGED <<given, batch, entry, nft, images, started, faults>>
  BY DEF PutMetadata, IInv, TypeOK
<1>2. CASE Goto(w, n, "storeMetadata")
  BY <1>1, <1>2, GotoKeeps
<1>3. CASE Become(w, n, a)
  <2>1. a \in Attempt /\ a.pc = "findImage" /\ a.inner = TRUE
    BY AttemptTyped DEF Attempt, Step
  <2>2. a.inner
    BY <2>1
  <2> HIDE DEF a
  <2>3. attempt'[w][n] = a
    BY <1>3, <2>1, Became DEF IInv
  <2>4. Sound(w, n)'
    BY <2>1, <2>2, <2>3 DEF Sound
  <2>5. images' \in [Nft -> SUBSET Extension] /\ \A m \in Nft : images[m] \subseteq images'[m]
    BY <1>1 DEF IInv, TypeOK
  <2> QED
    BY <1>1, <1>3, <2>1, <2>4, <2>5, FetchStepKeeps
<1> QED
  BY <1>2, <1>3 DEF PutMetadata

-----------------------------------------------------------------------------
(* fetchAndCacheImage.                                                     *)

\* What comes after an image was looked for: the metadata are stored, or the
\* URL is, which is of an object in the bucket.
LEMMA ImageDoneKeeps ==
  ASSUME IInv, NEW w \in Worker, NEW n \in Nft, NEW url \in Extension \cup {NoValue},
         ImageDone(w, n, url), attempt[w][n].pc \in {"findImage", "fetchImage", "putImage"},
         UNCHANGED <<given, batch, entry, nft, cached, started, faults>>,
         images' \in [Nft -> SUBSET Extension],
         \A m \in Nft : images[m] \subseteq images'[m],
         url # NoValue => url \in images'[n]
  PROVE  IInv'
<1> DEFINE a == attempt[w][n]
           b == [a EXCEPT !.pc = "storeImage", !.image = url]
           c == [Idle EXCEPT !.pc = "storeMetadata"]
<1>1. a \in Attempt /\ cached' \subseteq Nft
  BY DEF IInv, TypeOK
<1>2. CASE a.inner /\ Become(w, n, c)
  <2>1. c \in Attempt /\ c.pc = "storeMetadata"
    BY AttemptTyped DEF Step
  <2> HIDE DEF c
  <2>2. attempt'[w][n] = c
    BY <1>2, <2>1, Became DEF IInv
  <2>3. Sound(w, n)'
    BY <2>1, <2>2 DEF Sound
  <2> QED
    BY <1>1, <1>2, <2>1, <2>3, FetchStepKeeps
<1>3. CASE ~ a.inner /\ Become(w, n, b)
  <2>1. b \in Attempt /\ b.pc = "storeImage" /\ b.image = url
    BY <1>1 DEF Attempt, Step
  <2> HIDE DEF b
  <2>2. attempt'[w][n] = b
    BY <1>3, <2>1, Became DEF IInv
  <2>3. nft[n].metadata
    BY <1>3 DEF IInv, Sound
  <2>4. nft'[n].metadata
    BY <2>3
  <2>5. Sound(w, n)'
    BY <2>1, <2>2, <2>4 DEF Sound
  <2> QED
    BY <1>1, <1>3, <2>1, <2>5, FetchStepKeeps
<1> QED
  BY <1>2, <1>3 DEF ImageDone, Goto

\* The attempt goes on within the image.
LEMMA ImageStepKeeps ==
  ASSUME IInv, NEW w \in Worker, NEW n \in Nft, NEW b \in Attempt, Become(w, n, b),
         attempt[w][n].pc \in {"findImage", "fetchImage"},
         b.pc \in {"fetchImage", "putImage"}, b.inner = attempt[w][n].inner,
         b.pc = "putImage" => b.image \in Extension,
         UNCHANGED <<given, batch, entry, nft, bucket, started, faults>>
  PROVE  IInv'
<1>1. attempt'[w][n] = b
  BY Became DEF IInv
<1>2. cached' \subseteq Nft /\ images' \in [Nft -> SUBSET Extension]
      /\ \A m \in Nft : images[m] \subseteq images'[m]
  BY DEF IInv, TypeOK, bucket
<1>3. Sound(w, n)
  BY DEF IInv
<1>4. Sound(w, n)'
  BY <1>1, <1>3 DEF Sound
<1> QED
  BY <1>2, <1>4, FetchStepKeeps

\* The bucket is asked for the image.
LEMMA FindImageKeeps ==
  ASSUME IInv, NEW w \in Worker, NEW n \in Nft, FindImage(w, n)
  PROVE  IInv'
<1> DEFINE b == [attempt[w][n] EXCEPT !.pc = "fetchImage"]
<1>1. /\ attempt[w][n].pc = "findImage" /\ attempt[w][n] \in Attempt
      /\ UNCHANGED <<given, batch, entry, nft, cached, images, started, faults>>
      /\ UNCHANGED bucket
      /\ images \in [Nft -> SUBSET Extension]
  BY DEF FindImage, IInv, TypeOK, bucket
<1>2. CASE ImageDone(w, n, NoValue)
  BY <1>1, <1>2, ImageDoneKeeps
<1>3. CASE images[n] # {} /\ ImageDone(w, n, CachedImage(images[n]))
  <2>1. CachedImage(images[n]) \in images[n] /\ CachedImage(images[n]) \in Extension
    BY <1>1, <1>3 DEF CachedImage, Extension
  <2> QED
    BY <1>1, <1>3, <2>1, ImageDoneKeeps
<1>4. CASE Become(w, n, b)
  <2>1. b \in Attempt /\ b.pc = "fetchImage" /\ b.inner = attempt[w][n].inner
    BY <1>1 DEF Attempt, Step
  <2> HIDE DEF b
  <2> QED
    BY <1>1, <1>4, <2>1, ImageStepKeeps
<1> QED
  BY <1>2, <1>3, <1>4 DEF FindImage

\* The image is fetched.
LEMMA FetchImageKeeps ==
  ASSUME IInv, NEW w \in Worker, NEW n \in Nft, FetchImage(w, n)
  PROVE  IInv'
<1>1. /\ attempt[w][n].pc = "fetchImage" /\ attempt[w][n] \in Attempt
      /\ UNCHANGED <<given, batch, entry, nft, cached, images, started, faults>>
      /\ UNCHANGED bucket
      /\ images \in [Nft -> SUBSET Extension]
  BY DEF FetchImage, IInv, TypeOK, bucket
<1>2. CASE ImageDone(w, n, NoValue)
  BY <1>1, <1>2, ImageDoneKeeps
<1>3. ASSUME NEW type \in ContentType,
             Become(w, n, [attempt[w][n] EXCEPT !.pc = "putImage",
                                                !.image = ImageExtension(NormalizeContentType(type))])
      PROVE  IInv'
  <2> DEFINE b == [attempt[w][n] EXCEPT !.pc = "putImage",
                                        !.image = ImageExtension(NormalizeContentType(type))]
  <2>1. ImageExtension(NormalizeContentType(type)) \in Extension
    BY DEF ImageExtension, Extension
  <2>2. /\ b \in Attempt /\ b.pc = "putImage" /\ b.inner = attempt[w][n].inner
        /\ b.image \in Extension
    BY <1>1, <2>1 DEF Attempt, Step
  <2> HIDE DEF b
  <2>3. Become(w, n, b)
    BY <1>3 DEF b
  <2> QED
    BY <1>1, <2>2, <2>3, ImageStepKeeps
<1> QED
  BY <1>2, <1>3 DEF FetchImage

\* The image is put into the bucket, and its URL is known only then.
LEMMA PutImageKeeps ==
  ASSUME IInv, NEW w \in Worker, NEW n \in Nft, PutImage(w, n)
  PROVE  IInv'
<1> DEFINE a == attempt[w][n]
<1>1. /\ a.pc = "putImage" /\ a.image \in Extension
      /\ UNCHANGED <<given, batch, entry, nft, cached, started, faults>>
      /\ images \in [Nft -> SUBSET Extension]
  BY DEF PutImage, IInv, TypeOK, Sound
<1>2. CASE images' = images /\ ImageDone(w, n, NoValue)
  BY <1>1, <1>2, ImageDoneKeeps
<1>3. CASE images' = [images EXCEPT ![n] = images[n] \cup {a.image}] /\ ImageDone(w, n, a.image)
  <2>1. /\ images' \in [Nft -> SUBSET Extension] /\ a.image \in images'[n]
        /\ \A m \in Nft : images[m] \subseteq images'[m]
    BY <1>1, <1>3
  <2> QED
    BY <1>1, <1>3, <2>1, ImageDoneKeeps
<1> QED
  BY <1>2, <1>3 DEF PutImage

-----------------------------------------------------------------------------
(* enrichNft.                                                              *)

\* An update of the row that is made, or reported as failed: the attempt goes
\* on, or where the error is caught.
LEMMA UpdateRowKeeps ==
  ASSUME IInv, NEW w \in Worker, NEW n \in Nft, NEW r \in Row,
         NEW next \in {"findImage", "complete", "updateForRetry"},
         NEW caught \in {"storeError", "idle", "storeImageError"},
         UpdateRow(w, n, r, next, caught), attempt[w][n].pc # "idle",
         r.metadata \in {nft[n].metadata, TRUE},
         r.imageUrl # NoValue => r.imageUrl \in images[n],
         next # "updateForRetry" => r.metadata = TRUE,
         caught = "storeImageError" => nft[n].metadata = TRUE
  PROVE  IInv'
<1>1. /\ UNCHANGED <<s3, source, batch, entry, cached, images, started, crashes>>
      /\ nft \in [Nft -> Row] /\ images \in [Nft -> SUBSET Extension]
      /\ cached \subseteq Nft /\ entry \in [Nft -> Entry]
      /\ dbFailures \in 0 .. MaxDbFailures /\ MaxDbFailures \in Nat
  BY EnrichmentAssumption DEF UpdateRow, DbFails, given, bucket, faults, IInv, TypeOK
<1>2. nft' \in {nft, [nft EXCEPT ![n] = r]}
  BY DEF UpdateRow
<1>3. /\ nft' \in [Nft -> Row]
      /\ \A m \in Nft : nft[m].metadata => nft'[m].metadata
      /\ \A m \in Nft : nft'[m].imageUrl # NoValue => nft'[m].imageUrl \in images[m]
  <2>1. CASE nft' = nft
    BY <1>1, <2>1 DEF IInv, Served
  <2>2. CASE nft' = [nft EXCEPT ![n] = r]
    <3>1. nft'[n] = r /\ \A m \in Nft : m # n => nft'[m] = nft[m]
      BY <1>1, <2>2
    <3>2. nft' \in [Nft -> Row]
      BY <1>1, <2>2
    <3>3. \A m \in Nft : nft[m].metadata => nft'[m].metadata
      BY <3>1
    <3>4. \A m \in Nft : nft'[m].imageUrl # NoValue => nft'[m].imageUrl \in images[m]
      BY <3>1 DEF IInv, Served
    <3> QED
      BY <3>2, <3>3, <3>4
  <2> QED
    BY <1>2, <2>1, <2>2
<1>4. \A m \in Nft : Served(m)'
  BY <1>1, <1>3 DEF IInv, Served
<1>5. ASSUME NEW step \in {next, caught}, Goto(w, n, step), dbFailures' \in 0 .. MaxDbFailures,
             step \in {"findImage", "complete"} => nft'[n].metadata,
             step = "storeImageError" => nft'[n].metadata,
             dbFailures' = 0 => dbFailures = 0 /\ step # "idle"
      PROVE  IInv'
  <2> DEFINE a == [Idle EXCEPT !.pc = step]
  <2>1. a \in Attempt /\ a.pc = step /\ Become(w, n, a)
    BY <1>5, AttemptTyped DEF Goto, Step
  <2> HIDE DEF a
  <2>2. attempt'[w][n].pc = step
    BY <2>1, Became DEF IInv
  <2>3. step \notin {"storeImage", "fetchImage", "putImage"}
    BY <1>5
  <2>4. Sound(w, n)'
    BY <1>5, <2>2, <2>3 DEF Sound
  <2>5. \A m \in Nft : Counted(m)'
    <3>1. CASE dbFailures' = 0
      BY <1>1, <1>5, <2>1, <3>1, CountKept
    <3>2. CASE dbFailures' # 0
      BY <3>2 DEF Counted
    <3> QED
      BY <3>1, <3>2
  <2> QED
    BY <1>1, <1>3, <1>4, <1>5, <2>1, <2>4, <2>5, StepKeeps
<1>6. CASE nft' = [nft EXCEPT ![n] = r] /\ Goto(w, n, next) /\ UNCHANGED faults
  <2>1. dbFailures' = dbFailures /\ nft'[n] = r
    BY <1>1, <1>6 DEF faults
  <2> QED
    BY <1>1, <1>5, <1>6, <2>1
<1>7. CASE Goto(w, n, caught) /\ DbFails
  <2>1. dbFailures' \in 0 .. MaxDbFailures /\ dbFailures' # 0
    BY <1>1, <1>7 DEF DbFails
  <2> QED
    BY <1>3, <1>5, <1>7, <2>1
<1> QED
  BY <1>6, <1>7 DEF UpdateRow

\* The metadata, the image's URL and the two errors.
LEMMA StoresKeep ==
  ASSUME IInv, NEW w \in Worker, NEW n \in Nft,
         StoreMetadata(w, n) \/ StoreImage(w, n) \/ StoreImageError(w, n) \/ StoreError(w, n)
  PROVE  IInv'
<1> DEFINE url == attempt[w][n].image
<1>1. /\ nft[n] \in Row /\ attempt[w][n] \in Attempt /\ Sound(w, n)
      /\ nft[n].imageUrl # NoValue => nft[n].imageUrl \in images[n]
  BY DEF IInv, TypeOK, Served
<1>2. CASE StoreMetadata(w, n)
  <2> DEFINE r == [nft[n] EXCEPT !.metadata = TRUE]
             next == IF source[n].image THEN "findImage" ELSE "complete"
  <2>1. r \in Row /\ r.metadata = TRUE /\ r.imageUrl = nft[n].imageUrl
    BY <1>1 DEF Row
  <2>2. next \in {"findImage", "complete"}
    OBVIOUS
  <2>3. attempt[w][n].pc = "storeMetadata" /\ UpdateRow(w, n, r, next, "storeError")
    BY <1>2 DEF StoreMetadata
  <2> HIDE DEF r, next
  <2> QED
    BY <1>1, <2>1, <2>2, <2>3, UpdateRowKeeps
<1>3. CASE StoreImage(w, n)
  <2> DEFINE r == IF url = NoValue THEN nft[n] ELSE [nft[n] EXCEPT !.imageUrl = url]
  <2>1. /\ r \in Row /\ r.metadata = nft[n].metadata
        /\ r.imageUrl \in {nft[n].imageUrl, url}
    BY <1>1 DEF Row, Attempt
  <2>2. /\ attempt[w][n].pc = "storeImage" /\ nft[n].metadata = TRUE
        /\ url # NoValue => url \in images[n]
        /\ UpdateRow(w, n, r, "complete", "storeImageError")
    BY <1>1, <1>3 DEF StoreImage, Sound, Row
  <2> HIDE DEF r
  <2> QED
    BY <1>1, <2>1, <2>2, UpdateRowKeeps
<1>4. CASE StoreImageError(w, n)
  <2>1. /\ attempt[w][n].pc = "storeImageError" /\ nft[n].metadata = TRUE
        /\ UpdateRow(w, n, nft[n], "complete", "storeError")
    BY <1>1, <1>4 DEF StoreImageError, Sound, Row
  <2> QED
    BY <1>1, <2>1, UpdateRowKeeps
<1>5. CASE StoreError(w, n)
  <2>1. /\ attempt[w][n].pc = "storeError"
        /\ UpdateRow(w, n, nft[n], "updateForRetry", "idle")
    BY <1>5 DEF StoreError
  <2> QED
    BY <1>1, <2>1, UpdateRowKeeps
<1> QED
  BY <1>2, <1>3, <1>4, <1>5

\* An attempt ends: while nothing fails, its entry is completed, out of
\* retries, or has one retry more.
LEMMA EndKeeps ==
  ASSUME IInv, NEW w \in Worker, NEW n \in Nft, Become(w, n, Idle), attempt[w][n].pc # "idle",
         UNCHANGED <<given, batch, nft, bucket, started, crashes>>,
         entry' \in [Nft -> Entry], \A m \in Nft : m # n => entry'[m] = entry[m],
         entry'[n].status = "completed" => nft[n].metadata,
         dbFailures' \in 0 .. MaxDbFailures,
         dbFailures' = 0 =>
           /\ dbFailures = 0
           /\ entry'[n].status = "pending" /\ entry'[n].retries < MaxRetries =>
                entry[n].status = "pending" /\ entry'[n].retries = entry[n].retries + 1
  PROVE  IInv'
<1>1. /\ UNCHANGED <<s3, source, batch, nft, cached, images, started, crashes>>
      /\ images \in [Nft -> SUBSET Extension] /\ nft \in [Nft -> Row] /\ cached \subseteq Nft
      /\ entry \in [Nft -> Entry] /\ started \in [Nft -> Nat]
  BY DEF given, bucket, IInv, TypeOK
<1>2. /\ attempt'[w][n].pc = "idle"
      /\ \A v \in Worker, m \in Nft : v # w \/ m # n => attempt'[v][m] = attempt[v][m]
  BY Became, AttemptTyped DEF IInv
<1>3. Sound(w, n)'
  BY <1>2 DEF Sound
<1>4. \A m \in Nft : Served(m)'
  BY <1>1 DEF IInv, Served
<1>5. \A m \in Nft : Counted(m)'
  <2> SUFFICES ASSUME NEW m \in Nft, dbFailures' = 0, crashes' = 0
               PROVE  /\ started'[m] < MaxRetries + Cardinality(Process)
                      /\ entry'[m].status = "pending" /\ entry'[m].retries < MaxRetries =>
                           started'[m] <= entry'[m].retries + Cardinality(Flying(m))'
    BY DEF Counted
  <2>1. Counted(m) /\ dbFailures = 0 /\ crashes = 0 /\ started' = started
    BY <1>1 DEF IInv
  <2>2. CASE m # n
    <3>1. Flying(m)' = Flying(m)
      BY <1>2, <2>2 DEF Flying, Worker
    <3>2. Cardinality(Flying(m))' = Cardinality(Flying(m))
      BY <3>1
    <3> QED
      BY <2>1, <2>2, <3>2 DEF Counted
  <2>3. CASE m = n
    <3>1. Flying(n)' = Flying(n) \ {w}
      BY <1>2 DEF Flying, Worker
    <3>2. Cardinality(Flying(n) \ {w}) >= Cardinality(Flying(n)) - 1
          /\ Cardinality(Flying(n) \ {w}) \in Nat
      BY FlyingFinite, FS_RemoveElement, FS_CardinalityType
    <3>3. Cardinality(Flying(n))' = Cardinality(Flying(n) \ {w})
      BY <3>1
    <3>4. /\ entry[n].retries \in Nat /\ started[n] \in Nat /\ Cardinality(Flying(n)) \in Nat
          /\ MaxRetries \in Nat
      BY <1>1, FlyingFinite, EnrichmentAssumption DEF Entry
    <3>5. started[n] < MaxRetries + Cardinality(Process)
      BY <2>1, <2>3 DEF Counted
    <3>6. ASSUME entry'[n].status = "pending", entry'[n].retries < MaxRetries
          PROVE  started[n] <= entry'[n].retries + Cardinality(Flying(n) \ {w})
      <4>1. entry[n].status = "pending" /\ entry'[n].retries = entry[n].retries + 1
        BY <3>6
      <4>2. entry[n].retries < MaxRetries
        BY <3>4, <3>6, <4>1
      <4>3. started[n] <= entry[n].retries + Cardinality(Flying(n))
        BY <2>1, <2>3, <4>1, <4>2 DEF Counted
      <4> QED
        BY <3>2, <3>4, <4>1, <4>3
    <3> QED
      BY <2>1, <2>3, <3>3, <3>5, <3>6
  <2> QED
    BY <2>2, <2>3
<1>6. Idle \in Attempt
  BY AttemptTyped
<1>7. \A m \in Nft : (nft[m].metadata => nft'[m].metadata) /\ images[m] \subseteq images'[m]
  BY <1>1
<1> QED
  BY <1>1, <1>3, <1>4, <1>5, <1>6, <1>7, StepKeeps

\* The entry is completed, or the update is reported as failed.
LEMMA CompleteKeeps ==
  ASSUME IInv, NEW w \in Worker, NEW n \in Nft, Complete(w, n)
  PROVE  IInv'
<1> DEFINE done == [entry EXCEPT ![n].status = "completed"]
           a == [Idle EXCEPT !.pc = "storeError"]
<1>1. /\ attempt[w][n].pc = "complete" /\ nft[n].metadata
      /\ UNCHANGED <<given, batch, nft, bucket, started>>
      /\ entry \in [Nft -> Entry] /\ dbFailures \in 0 .. MaxDbFailures /\ MaxDbFailures \in Nat
  BY EnrichmentAssumption DEF Complete, IInv, TypeOK, Sound
<1>2. /\ done \in [Nft -> Entry] /\ done[n].status = "completed"
      /\ \A m \in Nft : m # n => done[m] = entry[m]
  BY <1>1 DEF Entry
<1>3. CASE entry' = done /\ Become(w, n, Idle) /\ UNCHANGED faults
  <2>1. crashes' = crashes /\ dbFailures' = dbFailures
    BY <1>3 DEF faults
  <2> HIDE DEF done
  <2> QED
    BY <1>1, <1>2, <1>3, <2>1, EndKeeps
<1>4. CASE entry' \in {entry, done} /\ Become(w, n, a) /\ DbFails
  <2>1. a \in Attempt /\ a.pc = "storeError"
    BY AttemptTyped DEF Step
  <2>2. dbFailures' \in 0 .. MaxDbFailures /\ dbFailures' # 0 /\ crashes' = crashes
    BY <1>1, <1>4 DEF DbFails
  <2> HIDE DEF a, done
  <2>3. attempt'[w][n] = a
    BY <1>4, <2>1, Became DEF IInv
  <2>4. Sound(w, n)'
    BY <2>1, <2>3 DEF Sound
  <2>5. \A m \in Nft : Counted(m)'
    BY <2>2 DEF Counted
  <2>6. \A m \in Nft : Served(m)'
    BY <1>1, <1>2, <1>4 DEF IInv, Served, bucket
  <2>7. /\ UNCHANGED <<s3, source, batch, started, crashes>>
        /\ nft' \in [Nft -> Row] /\ cached' \subseteq Nft
        /\ images' \in [Nft -> SUBSET Extension] /\ entry' \in [Nft -> Entry]
        /\ \A m \in Nft : (nft[m].metadata => nft'[m].metadata) /\ images[m] \subseteq images'[m]
    BY <1>1, <1>2, <1>4, <2>2 DEF given, bucket, IInv, TypeOK
  <2> QED
    BY <1>1, <1>4, <2>1, <2>2, <2>4, <2>5, <2>6, <2>7, StepKeeps
<1> QED
  BY <1>3, <1>4 DEF Complete, Ended, Goto

\* A retry is counted, or the update is reported as failed.
LEMMA UpdateQueueForRetryKeeps ==
  ASSUME IInv, NEW w \in Worker, NEW n \in Nft, UpdateQueueForRetry(w, n)
  PROVE  IInv'
<1>1. /\ attempt[w][n].pc = "updateForRetry" /\ Become(w, n, Idle)
      /\ UNCHANGED <<given, batch, nft, bucket, started>> /\ crashes' = crashes
      /\ entry \in [Nft -> Entry] /\ dbFailures \in 0 .. MaxDbFailures /\ MaxDbFailures \in Nat
      /\ MaxRetries \in Nat
      /\ entry[n].status = "completed" => nft[n].metadata
  BY EnrichmentAssumption
  DEF UpdateQueueForRetry, Ended, DbFails, faults, IInv, TypeOK, Served
<1>2. /\ Retried(n) \in [Nft -> Entry] /\ Retried(n)[n].status = entry[n].status
      /\ \A m \in Nft : m # n => Retried(n)[m] = entry[m]
      /\ Retried(n)[n].retries < MaxRetries => Retried(n)[n].retries = entry[n].retries + 1
  <2> DEFINE e == [entry[n] EXCEPT !.retries = entry[n].retries + 1, !.due = FALSE]
  <2>1. CASE entry[n].retries < MaxRetries
    <3>1. e \in Entry /\ e.status = entry[n].status /\ e.retries = entry[n].retries + 1
      <4>1. \A g \in Entry, k \in 0 .. MaxRetries :
              LET f == [g EXCEPT !.retries = k, !.due = FALSE]
              IN f \in Entry /\ f.status = g.status /\ f.retries = k
        BY DEF Entry
      <4>2. entry[n] \in Entry /\ entry[n].retries + 1 \in 0 .. MaxRetries
        BY <1>1, <2>1 DEF Entry
      <4> QED
        BY <4>1, <4>2, Zenon
    <3>2. Retried(n) = [entry EXCEPT ![n] = e]
      BY <2>1 DEF Retried
    <3> HIDE DEF e
    <3> QED
      BY <1>1, <3>1, <3>2
  <2>2. CASE ~ (entry[n].retries < MaxRetries)
    BY <1>1, <2>2 DEF Retried
  <2> QED
    BY <2>1, <2>2
<1>3. CASE entry' = Retried(n) /\ UNCHANGED faults
  <2>1. dbFailures' = dbFailures
    BY <1>3 DEF faults
  <2> QED
    BY <1>1, <1>2, <1>3, <2>1, EndKeeps
<1>4. CASE entry' \in {entry, Retried(n)} /\ DbFails
  <2>1. dbFailures' \in 0 .. MaxDbFailures /\ dbFailures' # 0
    BY <1>1, <1>4 DEF DbFails
  <2>2. /\ entry' \in [Nft -> Entry] /\ \A m \in Nft : m # n => entry'[m] = entry[m]
        /\ entry'[n].status = entry[n].status
    BY <1>1, <1>2, <1>4
  <2> QED
    BY <1>1, <2>1, <2>2, EndKeeps
<1> QED
  BY <1>3, <1>4 DEF UpdateQueueForRetry

-----------------------------------------------------------------------------
(* The interval, the callers, time and crashes.                            *)

\* A batch begins: each of its NFTs has one attempt more under way and may
\* still be tried.
LEMMA ProcessEnrichmentQueueKeeps ==
  ASSUME IInv, NEW p \in Process, ProcessEnrichmentQueue(p)
  PROVE  IInv'
<1>1. PICK nfts \in SUBSET PendingNfts :
        /\ batch' = [batch EXCEPT ![p] = nfts]
        /\ attempt' = [attempt EXCEPT ![p] =
             [n \in Nft |-> IF n \in nfts THEN Begin ELSE attempt[p][n]]]
        /\ started' = [n \in Nft |-> IF n \in nfts THEN started[n] + 1 ELSE started[n]]
  BY DEF ProcessEnrichmentQueue
<1>2. /\ batch[p] = {} /\ p \in Worker /\ nfts \subseteq Nft
      /\ UNCHANGED <<s3, source, entry, nft, cached, images, dbFailures, crashes>>
  BY DEF ProcessEnrichmentQueue, Worker, PendingNfts, given, bucket, faults
<1>3. /\ \A m \in Nft : attempt'[p][m] = IF m \in nfts THEN Begin ELSE attempt[p][m]
      /\ \A v \in Worker, m \in Nft : v # p => attempt'[v][m] = attempt[v][m]
      /\ attempt' \in [Worker -> [Nft -> Attempt]]
  BY <1>1, <1>2, AttemptTyped DEF IInv, TypeOK
<1>4. TypeOK'
  BY <1>1, <1>2, <1>3 DEF IInv, TypeOK
<1>5. \A m \in Nft : Served(m)'
  BY <1>2 DEF IInv, Served
<1>6. \A w \in Worker, m \in Nft : Sound(w, m)'
  <2> SUFFICES ASSUME NEW w \in Worker, NEW m \in Nft PROVE Sound(w, m)'
    OBVIOUS
  <2>1. CASE w = p /\ m \in nfts
    <3>1. attempt'[w][m].pc = "readCache"
      BY <1>3, <2>1, AttemptTyped
    <3> QED
      BY <3>1 DEF Sound
  <2>2. CASE ~ (w = p /\ m \in nfts)
    <3>1. attempt'[w][m] = attempt[w][m]
      BY <1>3, <2>2
    <3> QED
      BY <1>2, <3>1 DEF IInv, Sound
  <2> QED
    BY <2>1, <2>2
<1>7. \A q \in Process, m \in Nft : Busy(q, m)'
  <2> SUFFICES ASSUME NEW q \in Process, NEW m \in Nft, m \notin batch'[q]
               PROVE  attempt'[q][m].pc = "idle"
    BY DEF Busy
  <2>1. q \in Worker
    BY DEF Worker
  <2>2. CASE q = p
    BY <1>1, <1>2, <1>3, <2>2 DEF IInv, TypeOK, Busy
  <2>3. CASE q # p
    BY <1>1, <1>3, <2>1, <2>3 DEF IInv, TypeOK, Busy
  <2> QED
    BY <2>2, <2>3
<1>8. \A m \in Nft : Counted(m)'
  <2> SUFFICES ASSUME NEW m \in Nft, dbFailures' = 0, crashes' = 0
               PROVE  /\ started'[m] < MaxRetries + Cardinality(Process)
                      /\ entry'[m].status = "pending" /\ entry'[m].retries < MaxRetries =>
                           started'[m] <= entry'[m].retries + Cardinality(Flying(m))'
    BY DEF Counted
  <2>1. Counted(m) /\ dbFailures = 0 /\ crashes = 0 /\ entry' = entry
    BY <1>2 DEF IInv
  <2>2. attempt[p][m].pc = "idle"
    BY <1>2 DEF IInv, Busy
  <2>3. CASE m \notin nfts
    <3>1. \A v \in Worker : attempt'[v][m] = attempt[v][m]
      BY <1>3, <2>3
    <3>2. Flying(m)' = Flying(m)
      BY <3>1 DEF Flying, Worker
    <3>3. Cardinality(Flying(m))' = Cardinality(Flying(m)) /\ started'[m] = started[m]
      BY <1>1, <2>3, <3>2
    <3> QED
      BY <2>1, <3>3 DEF Counted
  <2>4. CASE m \in nfts
    <3>1. attempt'[p][m].pc # "idle"
      BY <1>3, <2>4, AttemptTyped
    <3>2. Flying(m)' = Flying(m) \cup {p} /\ p \notin Flying(m)
      BY <1>3, <2>2, <3>1 DEF Flying, Worker
    <3>3. Cardinality(Flying(m) \cup {p}) = Cardinality(Flying(m)) + 1
      BY <3>2, FlyingFinite, FS_AddElement
    <3>4. Cardinality(Flying(m))' = Cardinality(Flying(m) \cup {p})
      BY <3>2
    <3>5. Flying(m) \cup {p} \in SUBSET Process
      BY DEF Flying
    <3>6. Cardinality(Flying(m) \cup {p}) <= Cardinality(Process)
      BY <3>5, FS_Subset, EnrichmentAssumption
    <3>7. /\ entry[m].status = "pending" /\ entry[m].retries < MaxRetries
          /\ entry[m].retries \in Nat /\ started[m] \in Nat /\ MaxRetries \in Nat
      BY <2>4, EnrichmentAssumption DEF PendingNfts, IInv, TypeOK, Entry
    <3>8. started[m] <= entry[m].retries + Cardinality(Flying(m))
      BY <2>1, <3>7 DEF Counted
    <3>9. started'[m] = started[m] + 1
      BY <1>1, <2>4
    <3> QED
      BY <2>1, <3>3, <3>4, <3>6, <3>7, <3>8, <3>9, FlyingFinite
  <2> QED
    BY <2>3, <2>4
<1> QED
  BY <1>4, <1>5, <1>6, <1>7, <1>8 DEF IInv

\* A batch is done when all its attempts are.
LEMMA BatchFinishedKeeps ==
  ASSUME IInv, NEW p \in Process, BatchFinished(p)
  PROVE  IInv'
<1>1. /\ \A n \in batch[p] : attempt[p][n].pc = "idle"
      /\ batch' = [batch EXCEPT ![p] = {}]
      /\ UNCHANGED <<s3, source, attempt, entry, nft, cached, images, started, dbFailures, crashes>>
  BY DEF BatchFinished, given, bucket, faults
<1>2. TypeOK'
  BY <1>1 DEF IInv, TypeOK
<1>3. \A n \in Nft : Served(n)' /\ Counted(n)'
  <2> SUFFICES ASSUME NEW n \in Nft PROVE Served(n)' /\ Counted(n)'
    OBVIOUS
  <2>1. Flying(n)' = Flying(n)
    BY <1>1 DEF Flying
  <2>2. Cardinality(Flying(n))' = Cardinality(Flying(n))
    BY <2>1
  <2> QED
    BY <1>1, <2>2 DEF IInv, Served, Counted
<1>4. \A w \in Worker, n \in Nft : Sound(w, n)'
  BY <1>1 DEF IInv, Sound
<1>5. \A q \in Process, n \in Nft : Busy(q, n)'
  BY <1>1 DEF IInv, TypeOK, Busy
<1> QED
  BY <1>2, <1>3, <1>4, <1>5 DEF IInv

\* A caller begins an attempt, which does not count.
LEMMA EnrichSpecificNftKeeps ==
  ASSUME IInv, NEW c \in Caller, NEW n \in Nft, EnrichSpecificNft(c, n)
  PROVE  IInv'
<1>1. /\ Become(c, n, Begin)
      /\ UNCHANGED <<s3, source, batch, entry, nft, cached, images, started, dbFailures, crashes>>
      /\ c \in Worker /\ c \notin Process
  BY EnrichmentAssumption DEF EnrichSpecificNft, Worker, given, bucket, faults
<1>2. /\ attempt' \in [Worker -> [Nft -> Attempt]] /\ attempt'[c][n].pc = "readCache"
      /\ \A v \in Worker, m \in Nft : v # c \/ m # n => attempt'[v][m] = attempt[v][m]
  BY <1>1, Became, AttemptTyped DEF IInv
<1>3. TypeOK'
  BY <1>1, <1>2 DEF IInv, TypeOK
<1>4. \A m \in Nft : Served(m)'
  BY <1>1 DEF IInv, Served
<1>5. \A m \in Nft : Counted(m)'
  BY <1>1, AttemptTyped, CountKept
<1>6. \A v \in Worker, m \in Nft : Sound(v, m)'
  <2> SUFFICES ASSUME NEW v \in Worker, NEW m \in Nft PROVE Sound(v, m)'
    OBVIOUS
  <2>1. CASE v = c /\ m = n
    BY <1>2, <2>1 DEF Sound
  <2>2. CASE v # c \/ m # n
    BY <1>1, <1>2, <2>2 DEF IInv, Sound
  <2> QED
    BY <2>1, <2>2
<1>7. \A p \in Process, m \in Nft : Busy(p, m)'
  BY <1>1, <1>2 DEF IInv, Busy, Worker
<1> QED
  BY <1>3, <1>4, <1>5, <1>6, <1>7 DEF IInv

\* Time passes for an entry.
LEMMA RetryDueKeeps ==
  ASSUME IInv, NEW n \in Nft, RetryDue(n)
  PROVE  IInv'
<1>1. /\ entry' = [entry EXCEPT ![n].due = TRUE] /\ entry \in [Nft -> Entry]
      /\ UNCHANGED <<s3, source, batch, attempt, nft, cached, images, started, dbFailures, crashes>>
  BY DEF RetryDue, given, bucket, faults, IInv, TypeOK
<1>2. /\ entry' \in [Nft -> Entry]
      /\ \A m \in Nft : entry'[m].status = entry[m].status /\ entry'[m].retries = entry[m].retries
  BY <1>1 DEF Entry
<1>3. TypeOK'
  BY <1>1, <1>2 DEF IInv, TypeOK
<1>4. \A m \in Nft : Served(m)' /\ Counted(m)'
  <2> SUFFICES ASSUME NEW m \in Nft PROVE Served(m)' /\ Counted(m)'
    OBVIOUS
  <2>1. Flying(m)' = Flying(m)
    BY <1>1 DEF Flying
  <2>2. Cardinality(Flying(m))' = Cardinality(Flying(m))
    BY <2>1
  <2> QED
    BY <1>1, <1>2, <2>2 DEF IInv, Served, Counted
<1>5. \A w \in Worker, m \in Nft : Sound(w, m)'
  BY <1>1 DEF IInv, Sound
<1>6. \A p \in Process, m \in Nft : Busy(p, m)'
  BY <1>1 DEF IInv, Busy
<1> QED
  BY <1>3, <1>4, <1>5, <1>6 DEF IInv

\* The processes end: nothing that was stored or uploaded goes.
LEMMA CrashKeeps ==
  ASSUME IInv, Crash
  PROVE  IInv'
<1>1. /\ crashes' = crashes + 1 /\ crashes < MaxCrashes
      /\ batch' = [p \in Process |-> {}]
      /\ attempt' = [w \in Worker |-> [n \in Nft |-> Idle]]
      /\ UNCHANGED <<s3, source, entry, nft, cached, images, started, dbFailures>>
      /\ crashes \in 0 .. MaxCrashes /\ MaxCrashes \in Nat
  BY EnrichmentAssumption DEF Crash, given, bucket, IInv, TypeOK
<1>2. \A w \in Worker, n \in Nft : attempt'[w][n].pc = "idle"
  BY <1>1, AttemptTyped
<1>3. TypeOK'
  BY <1>1, AttemptTyped DEF IInv, TypeOK
<1>4. \A n \in Nft : Served(n)' /\ Counted(n)'
  BY <1>1 DEF IInv, Served, Counted
<1>5. \A w \in Worker, n \in Nft : Sound(w, n)'
  BY <1>2 DEF Sound
<1>6. \A p \in Process, n \in Nft : Busy(p, n)'
  BY <1>2 DEF Busy, Worker
<1> QED
  BY <1>3, <1>4, <1>5, <1>6 DEF IInv

-----------------------------------------------------------------------------
(* The theorems.                                                           *)

LEMMA InitInvariant == Init => IInv
<1> SUFFICES ASSUME Init PROVE IInv
  OBVIOUS
<1>1. \A w \in Worker, n \in Nft : attempt[w][n] = Idle /\ attempt[w][n].pc = "idle"
  BY AttemptTyped DEF Init
<1>2. TypeOK
  BY AttemptTyped, EnrichmentAssumption DEF Init, TypeOK, Entry, Row
<1>3. \A n \in Nft : Served(n)
  BY DEF Init, Served
<1>4. \A n \in Nft : Counted(n)
  BY FlyingFinite, EnrichmentAssumption DEF Init, Counted
<1>5. \A w \in Worker, n \in Nft : Sound(w, n)
  BY <1>1 DEF Sound
<1>6. \A p \in Process, n \in Nft : Busy(p, n)
  BY <1>1 DEF Busy, Worker
<1> QED
  BY <1>2, <1>3, <1>4, <1>5, <1>6 DEF IInv

LEMMA NextInvariant == IInv /\ [Next]_vars => IInv'
<1> SUFFICES ASSUME IInv, [Next]_vars PROVE IInv'
  OBVIOUS
<1>1. CASE UNCHANGED vars
  <2>1. UNCHANGED <<s3, source, batch, attempt, entry, nft, cached, images, started,
                    dbFailures, crashes>>
    BY <1>1 DEF vars, given, bucket, faults
  <2>2. \A n \in Nft : Flying(n)' = Flying(n)
    BY <2>1 DEF Flying
  <2>3. \A n \in Nft : Served(n)' /\ Counted(n)'
    <3> SUFFICES ASSUME NEW n \in Nft PROVE Served(n)' /\ Counted(n)'
      OBVIOUS
    <3>1. Cardinality(Flying(n))' = Cardinality(Flying(n))
      BY <2>2
    <3> QED
      BY <2>1, <3>1 DEF IInv, Served, Counted
  <2>4. TypeOK' /\ \A w \in Worker, n \in Nft : Sound(w, n)'
    BY <2>1 DEF IInv, TypeOK, Sound
  <2>5. \A p \in Process, n \in Nft : Busy(p, n)'
    BY <2>1 DEF IInv, Busy
  <2> QED
    BY <2>3, <2>4, <2>5 DEF IInv
<1>2. ASSUME NEW p \in Process, ProcessEnrichmentQueue(p) \/ BatchFinished(p)
      PROVE  IInv'
  BY <1>2, ProcessEnrichmentQueueKeeps, BatchFinishedKeeps
<1>3. ASSUME NEW c \in Caller, NEW n \in Nft, EnrichSpecificNft(c, n)
      PROVE  IInv'
  BY <1>3, EnrichSpecificNftKeeps
<1>4. ASSUME NEW w \in Worker, NEW n \in Nft, EnrichNft(w, n)
      PROVE  IInv'
  BY <1>4, ReadCacheKeeps, AskGatewayKeeps, PutMetadataKeeps, FindImageKeeps, FetchImageKeeps,
     PutImageKeeps, StoresKeep, CompleteKeeps, UpdateQueueForRetryKeeps DEF EnrichNft
<1>5. ASSUME NEW n \in Nft, RetryDue(n)
      PROVE  IInv'
  BY <1>5, RetryDueKeeps
<1>6. CASE Crash
  BY <1>6, CrashKeeps
<1> QED
  BY <1>1, <1>2, <1>3, <1>4, <1>5, <1>6 DEF Next

\* The inductive invariant: what attempts have stored and uploaded where they
\* stand, and the attempts counted as retries.
THEOREM Invariance == Spec => []IInv
BY InitInvariant, NextInvariant, PTL DEF Spec

\* The variables stay in their types, retries within their limit.
THEOREM TypeCorrect == Spec => []TypeOK
<1>1. IInv => TypeOK
  BY DEF IInv
<1> QED
  BY <1>1, Invariance, PTL

\* What is completed has its metadata stored, and an image URL in a row is one
\* of an object in the bucket.
THEOREM CompletedServed == Spec => []CompletedIsServed
<1>1. IInv => CompletedIsServed
  BY DEF IInv, Served, CompletedIsServed
<1> QED
  BY <1>1, Invariance, PTL

\* While the database answers and no process ends, the intervals begin fewer
\* attempts on an NFT than the limit and the number of processes together.
THEOREM FewAttempts == Spec => []AttemptsBounded
<1>1. IInv => AttemptsBounded
  BY DEF IInv, Counted, AttemptsBounded
<1> QED
  BY <1>1, Invariance, PTL

=============================================================================
