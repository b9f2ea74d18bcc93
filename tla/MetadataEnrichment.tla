------------------------- MODULE MetadataEnrichment -------------------------
(***************************************************************************)
(* MetadataEnrichmentService with NFTMetadataFetcherService: the queue     *)
(* table of NFTs whose metadata are to be fetched, the interval that works *)
(* through it, and one attempt on one NFT, from the cache in S3 over the   *)
(* gateways to the row in nfts.                                            *)
(*                                                                         *)
(* Each process runs the interval; enrichSpecificNft is public and may be  *)
(* called besides.  Attempts on one NFT therefore can overlap.  S3 fails   *)
(* at will: the code treats its errors as a cache that is empty.           *)
(***************************************************************************)
EXTENDS Naturals, FiniteSets

CONSTANTS
  Nft,            \* NFTs with an entry in metadata_enrichment_queue
  Process,        \* processes, each with its interval
  Caller,         \* callers of enrichSpecificNft
  NoValue,        \* null
  Sources,        \* bound: the kinds of URI NFTs have
  Gateways,       \* length of ipfsGateways
  BatchSize,      \* this.BATCH_SIZE
  MaxRetries,     \* this.MAX_RETRIES
  MaxDbFailures,  \* bound: database calls reported as failed
  MaxCrashes      \* bound: ends of all processes at once

Source == [scheme : {"ipfs", "http", "other"}, image : BOOLEAN]

ASSUME EnrichmentAssumption ==
  /\ IsFiniteSet(Nft) /\ IsFiniteSet(Process)
  /\ Process \cap Caller = {}
  /\ Sources \subseteq Source
  /\ Gateways \in Nat \ {0}
  /\ BatchSize \in Nat \ {0}
  /\ MaxRetries \in Nat \ {0}
  /\ MaxDbFailures \in Nat
  /\ MaxCrashes \in Nat

VARIABLES
  s3,         \* whether S3 is configured
  source,     \* per NFT, the scheme of its URI and whether the metadata name an image
  batch,      \* per process, the NFTs of the batch it processes; {}: not isProcessing
  attempt,    \* per worker and NFT, where its enrichNft stands
  entry,      \* metadata_enrichment_queue
  nft,        \* nfts: whether metadata is set, and imageS3Url
  cached,     \* NFTs whose metadata object is in S3
  images,     \* per NFT, the extensions of its image objects in S3
  started,    \* history: attempts begun by an interval
  dbFailures, \* database calls reported as failed
  crashes

given  == <<s3, source>>
bucket == <<cached, images>>
faults == <<dbFailures, crashes>>
vars   == <<given, batch, attempt, entry, nft, bucket, started, faults>>

Worker == Process \cup Caller

-----------------------------------------------------------------------------
(* What is fetched.  Error texts and times in the row are left out.        *)

\* Answers to a request for metadata: an object, which is normalised and
\* taken; anything else, and attributes that make normalizeAttributes throw;
\* no answer.
MetadataAnswer == {"object", "unusable", "error"}

\* Content types of an image request, standing for the cases the code tells
\* apart: proper, proper but not in the table of extensions, bare names,
\* names inside something else, unknown or missing.
ContentType == {"image/png", "image/avif", "jpg", "application/png", "text/html", "missing"}

NormalizeContentType(type) ==
  CASE type \in {"image/png", "image/avif"}  -> type
    [] type = "jpg"                          -> "image/jpeg"
    [] type = "application/png"              -> "image/png"
    [] OTHER                                 -> NoValue

Extension == {".jpg", ".png"}

ImageExtension(normalized) == IF normalized = "image/png" THEN ".png" ELSE ".jpg"

\* The extensions in the order getCachedImageUrl tries them.
CachedImage(stored) ==
  IF ".jpg" \in stored THEN ".jpg" ELSE IF ".png" \in stored THEN ".png" ELSE NoValue

\* How many places are asked for the metadata of an NFT.
Places(n) == IF source[n].scheme = "ipfs" THEN Gateways ELSE IF source[n].scheme = "http" THEN 1 ELSE 0

-----------------------------------------------------------------------------
(* Attempts.                                                               *)

Step == {"idle", "readCache", "askGateway", "putMetadata", "findImage", "fetchImage",
         "putImage", "storeMetadata", "storeImage", "storeImageError", "complete",
         "storeError", "updateForRetry"}

\* asked: places asked so far; inner: whether the image is being cached by
\* fetchNFTMetadata, where nobody looks at the result; image: the extension to
\* upload, then of the URL to store.
Attempt ==
  [pc : Step, asked : 0 .. Gateways, inner : BOOLEAN, image : Extension \cup {NoValue}]

Idle == [pc |-> "idle", asked |-> 0, inner |-> FALSE, image |-> NoValue]

Begin == [Idle EXCEPT !.pc = "readCache"]

Become(w, n, a) == attempt' = [attempt EXCEPT ![w][n] = a]

\* Go to a step that needs nothing of what was fetched before.
Goto(w, n, step) == Become(w, n, [Idle EXCEPT !.pc = step])

\* A database call: made as it should, or reported as failed whether or not
\* it was made.
DbFails ==
  /\ dbFailures < MaxDbFailures
  /\ dbFailures' = dbFailures + 1
  /\ UNCHANGED crashes

Entry == [status : {"pending", "completed"}, retries : 0 .. MaxRetries, due : BOOLEAN]

Row == [metadata : BOOLEAN, imageUrl : Extension \cup {NoValue}]

Init ==
  /\ s3 \in BOOLEAN
  /\ source \in [Nft -> Sources]
  /\ batch = [p \in Process |-> {}]
  /\ attempt = [w \in Worker |-> [n \in Nft |-> Idle]]
  /\ entry = [n \in Nft |-> [status |-> "pending", retries |-> 0, due |-> TRUE]]
  /\ nft = [n \in Nft |-> [metadata |-> FALSE, imageUrl |-> NoValue]]
  /\ cached = {}
  /\ images = [n \in Nft |-> {}]
  /\ started = [n \in Nft |-> 0]
  /\ dbFailures = 0 /\ crashes = 0

PendingNfts ==
  {n \in Nft : entry[n].status = "pending" /\ entry[n].retries < MaxRetries /\ entry[n].due}

\* The interval: pending NFTs are read and an attempt on each begins.
ProcessEnrichmentQueue(p) ==
  /\ batch[p] = {}
  /\ \E nfts \in SUBSET PendingNfts \ {{}} :
       /\ \/ Cardinality(nfts) = BatchSize
          \/ nfts = PendingNfts /\ Cardinality(nfts) < BatchSize
       /\ batch' = [batch EXCEPT ![p] = nfts]
       /\ attempt' = [attempt EXCEPT ![p] = [n \in Nft |-> IF n \in nfts THEN Begin ELSE attempt[p][n]]]
       /\ started' = [n \in Nft |-> IF n \in nfts THEN started[n] + 1 ELSE started[n]]
  /\ UNCHANGED <<given, entry, nft, bucket, faults>>

BatchNotAwaited(p) ==
  /\ batch[p] # {}
  /\ batch' = [batch EXCEPT ![p] = {}]
  /\ UNCHANGED <<given, attempt, entry, nft, bucket, started, faults>>

\* Promise.allSettled and the finally behind it.
BatchFinished(p) ==
  /\ batch[p] # {}
  /\ \A n \in batch[p] : attempt[p][n].pc = "idle"
  /\ batch' = [batch EXCEPT ![p] = {}]
  /\ UNCHANGED <<given, attempt, entry, nft, bucket, started, faults>>

EnrichSpecificNft(c, n) ==
  /\ attempt[c][n].pc = "idle"
  /\ Become(c, n, Begin)
  /\ UNCHANGED <<given, batch, entry, nft, bucket, started, faults>>

-----------------------------------------------------------------------------
(* fetchNFTMetadata.                                                       *)

\* What follows a failed fetch: enrichNft throws.
FetchFailed(w, n) == Goto(w, n, "storeError")

\* getCachedMetadata: an object that is not there and an error of S3 end alike.
ReadCache(w, n) ==
  /\ attempt[w][n].pc = "readCache"
  /\ \/ s3 /\ n \in cached /\ Goto(w, n, "storeMetadata")
     \/ Places(n) > 0 /\ Goto(w, n, "askGateway")
     \/ Places(n) = 0 /\ FetchFailed(w, n)
  /\ UNCHANGED <<given, batch, entry, nft, bucket, started, faults>>

\* fetchFromIPFS and fetchFromHTTP: the next gateway on an error or on an
\* answer that cannot be used.
AskGateway(w, n) ==
  LET a == attempt[w][n]
  IN /\ a.pc = "askGateway"
     /\ \E answer \in MetadataAnswer :
          \/ answer = "object" /\ Goto(w, n, "putMetadata")
          \/ /\ answer # "object"
             /\ a.asked + 1 < Places(n)
             /\ Become(w, n, [a EXCEPT !.asked = a.asked + 1])
          \/ /\ answer # "object"
             /\ a.asked + 1 >= Places(n)
             /\ FetchFailed(w, n)
     /\ UNCHANGED <<given, batch, entry, nft, bucket, started, faults>>

\* cacheMetadata, then the image if there is one.
PutMetadata(w, n) ==
  /\ attempt[w][n].pc = "putMetadata"
  /\ \/ s3 /\ cached' = cached \cup {n}
     \/ UNCHANGED cached
  /\ IF source[n].image
     THEN Become(w, n, [Idle EXCEPT !.pc = "findImage", !.inner = TRUE])
     ELSE Goto(w, n, "storeMetadata")
  /\ UNCHANGED <<given, batch, entry, nft, images, started, faults>>

-----------------------------------------------------------------------------
(* fetchAndCacheImage, called by fetchNFTMetadata and again by enrichNft.  *)

ImageDone(w, n, url) ==
  LET a == attempt[w][n]
  IN IF a.inner THEN Goto(w, n, "storeMetadata")
     ELSE Become(w, n, [a EXCEPT !.pc = "storeImage", !.image = url])

FindImage(w, n) ==
  /\ attempt[w][n].pc = "findImage"
  /\ \/ ~s3 /\ ImageDone(w, n, NoValue)
     \/ s3 /\ images[n] # {} /\ ImageDone(w, n, CachedImage(images[n]))
     \/ s3 /\ Become(w, n, [attempt[w][n] EXCEPT !.pc = "fetchImage"])
  /\ UNCHANGED <<given, batch, entry, nft, bucket, started, faults>>

\* The first answer is taken, whatever its content type.
FetchImage(w, n) ==
  LET a == attempt[w][n]
  IN /\ a.pc = "fetchImage"
     /\ \/ ImageDone(w, n, NoValue)
        \/ \E type \in ContentType :
             LET normalized == NormalizeContentType(type)
             IN IF normalized = NoValue THEN ImageDone(w, n, NoValue)
                ELSE Become(w, n, [a EXCEPT !.pc = "putImage", !.image = ImageExtension(normalized)])
     /\ UNCHANGED <<given, batch, entry, nft, bucket, started, faults>>

PutImageUnchecked(w, n) ==
  LET a == attempt[w][n]
  IN /\ a.pc = "putImage"
     /\ \/ images' = [images EXCEPT ![n] = images[n] \cup {a.image}]
        \/ UNCHANGED images
     /\ ImageDone(w, n, a.image)
     /\ UNCHANGED <<given, batch, entry, nft, cached, started, faults>>

PutImage(w, n) ==
  LET a == attempt[w][n]
  IN /\ a.pc = "putImage"
     /\ \/ /\ images' = [images EXCEPT ![n] = images[n] \cup {a.image}]
           /\ ImageDone(w, n, a.image)
        \/ /\ UNCHANGED images
           /\ ImageDone(w, n, NoValue)
     /\ UNCHANGED <<given, batch, entry, nft, cached, started, faults>>

-----------------------------------------------------------------------------
(* enrichNft: what is stored.                                              *)

\* The update of an NFT's row succeeds and the attempt goes on, or it is
\* reported as failed and the attempt goes to where the error is caught.
UpdateRow(w, n, row, next, caught) ==
  /\ \/ nft' = [nft EXCEPT ![n] = row] /\ Goto(w, n, next) /\ UNCHANGED faults
     \/ nft' \in {nft, [nft EXCEPT ![n] = row]} /\ Goto(w, n, caught) /\ DbFails
  /\ UNCHANGED <<given, batch, entry, bucket, started>>

StoreMetadata(w, n) ==
  /\ attempt[w][n].pc = "storeMetadata"
  /\ UpdateRow(w, n, [nft[n] EXCEPT !.metadata = TRUE],
               IF source[n].image THEN "findImage" ELSE "complete", "storeError")

StoreImage(w, n) ==
  LET url == attempt[w][n].image
  IN /\ attempt[w][n].pc = "storeImage"
     /\ UpdateRow(w, n, IF url = NoValue THEN nft[n] ELSE [nft[n] EXCEPT !.imageUrl = url],
                  "complete", "storeImageError")

StoreImageError(w, n) ==
  /\ attempt[w][n].pc = "storeImageError"
  /\ UpdateRow(w, n, nft[n], "complete", "storeError")

Ended(w, n) == Become(w, n, Idle)

Complete(w, n) ==
  LET done == [entry EXCEPT ![n].status = "completed"]
  IN /\ attempt[w][n].pc = "complete"
     /\ \/ entry' = done /\ Ended(w, n) /\ UNCHANGED faults
        \/ entry' \in {entry, done} /\ Goto(w, n, "storeError") /\ DbFails
     /\ UNCHANGED <<given, batch, nft, bucket, started>>

\* A failure here ends the attempt before its retry is counted.
StoreError(w, n) ==
  /\ attempt[w][n].pc = "storeError"
  /\ UpdateRow(w, n, nft[n], "updateForRetry", "idle")

RetriedUnlimited(n) ==
  [entry EXCEPT ![n] = [entry[n] EXCEPT !.retries = entry[n].retries + 1, !.due = FALSE]]

RetriedUncounted(n) == [entry EXCEPT ![n].due = FALSE]

Retried(n) ==
  IF entry[n].retries < MaxRetries
  THEN [entry EXCEPT ![n] = [entry[n] EXCEPT !.retries = entry[n].retries + 1, !.due = FALSE]]
  ELSE entry

UpdateQueueForRetry(w, n) ==
  /\ attempt[w][n].pc = "updateForRetry"
  /\ Ended(w, n)
  /\ \/ entry' = Retried(n) /\ UNCHANGED faults
     \/ entry' \in {entry, Retried(n)} /\ DbFails
  /\ UNCHANGED <<given, batch, nft, bucket, started>>

\* next_retry_at has passed.
RetryDue(n) ==
  /\ ~entry[n].due
  /\ entry' = [entry EXCEPT ![n].due = TRUE]
  /\ UNCHANGED <<given, batch, attempt, nft, bucket, started, faults>>

\* The processes end and start again: attempts are gone, tables and S3 stay.
Crash ==
  /\ crashes < MaxCrashes
  /\ crashes' = crashes + 1
  /\ batch' = [p \in Process |-> {}]
  /\ attempt' = [w \in Worker |-> [n \in Nft |-> Idle]]
  /\ UNCHANGED <<given, entry, nft, bucket, started, dbFailures>>

EnrichNft(w, n) ==
  \/ ReadCache(w, n) \/ AskGateway(w, n) \/ PutMetadata(w, n)
  \/ FindImage(w, n) \/ FetchImage(w, n) \/ PutImage(w, n)
  \/ StoreMetadata(w, n) \/ StoreImage(w, n) \/ StoreImageError(w, n)
  \/ Complete(w, n) \/ StoreError(w, n) \/ UpdateQueueForRetry(w, n)

Next ==
  \/ \E p \in Process : ProcessEnrichmentQueue(p) \/ BatchFinished(p)
  \/ \E c \in Caller, n \in Nft : EnrichSpecificNft(c, n)
  \/ \E w \in Worker, n \in Nft : EnrichNft(w, n)
  \/ \E n \in Nft : RetryDue(n)
  \/ Crash

\* The interval ticks, every request is answered or times out, time passes.
Fairness ==
  /\ \A p \in Process : WF_vars(ProcessEnrichmentQueue(p)) /\ WF_vars(BatchFinished(p))
  /\ \A w \in Worker, n \in Nft : WF_vars(EnrichNft(w, n))
  /\ \A n \in Nft : WF_vars(RetryDue(n))

Spec == Init /\ [][Next]_vars /\ Fairness

-----------------------------------------------------------------------------
(* Properties.                                                             *)

TypeOK ==
  /\ s3 \in BOOLEAN
  /\ source \in [Nft -> Source]
  /\ batch \in [Process -> SUBSET Nft]
  /\ attempt \in [Worker -> [Nft -> Attempt]]
  /\ entry \in [Nft -> Entry]
  /\ nft \in [Nft -> Row]
  /\ cached \subseteq Nft
  /\ images \in [Nft -> SUBSET Extension]
  /\ started \in [Nft -> Nat]
  /\ dbFailures \in 0 .. MaxDbFailures
  /\ crashes \in 0 .. MaxCrashes

\* An entry is completed only when the NFT's row has its metadata, and an
\* image URL in the row is one S3 serves, however attempts on the NFT overlap,
\* fail half-way or are cut off (enrichNft stores before it completes, and
\* uploads before it stores).
CompletedIsServed ==
  \A n \in Nft :
    /\ entry[n].status = "completed" => nft[n].metadata
    /\ nft[n].imageUrl # NoValue => nft[n].imageUrl \in images[n]

\* While no database call fails and no process ends, the intervals of all
\* processes together begin no more attempts on an NFT than the limit and one
\* for each further process: every attempt that does not complete is counted
\* (updateQueueForRetry), and a batch waits for all its attempts.
AttemptsBounded ==
  dbFailures = 0 /\ crashes = 0 =>
    \A n \in Nft : started[n] < MaxRetries + Cardinality(Process)

\* Every queued NFT is at last completed or out of retries, and stays so:
\* no attempt is left hanging and no batch blocks the interval for ever
\* (processEnrichmentQueue resets isProcessing in a finally).
QueueSettles ==
  \A n \in Nft : <>[](entry[n].status = "completed" \/ entry[n].retries = MaxRetries)

=============================================================================
