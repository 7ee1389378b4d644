--------------------------- MODULE QuestionImages ----------------------------
(* Images of Questions.  An agent's client stages the pictures of a gallery   *)
(* one by one (PostboxClient.ts prepareImages): the server writes each file   *)
(* under its digest, keeps a row for it and a claim that lasts an hour        *)
(* (imageStore.ts).  The Question that is then asked or revised spends the    *)
(* claims in its own transaction; every later revision copies the gallery.  A *)
(* sweep deletes what no gallery and no claim refers to.  Files are not part  *)
(* of the transactions: a crash keeps what was written and unlinked and rolls *)
(* back the rows.  A picture is its digest.                                   *)
EXTENDS Naturals, Sequences, FiniteSets

CONSTANTS
  Pictures, ImageQuestions, ImageSessions,
  ClaimTime,                                      \* IMAGE_LIMITS.stagingMs
  MaxImageClock, MaxUploads, MaxImageLinks, MaxImageCrashes, MaxImageRevisions  \* bounds

ASSUME ImagesAssumption ==
  /\ ClaimTime \in Nat \ {0}
  /\ {MaxImageClock, MaxUploads, MaxImageLinks, MaxImageCrashes, MaxImageRevisions} \subseteq Nat

VARIABLES
  imageNow,
  imageFiles,   \* pictures whose file is in the directory, with its mtime
  blobs,        \* image_blobs: pictures with a row
  claims,       \* image_claims
  uploads,      \* upload ids given out
  galleries,    \* question_images: the gallery of each revision of a Question
  storeInstance,\* the instance of the running server
  uploadLink,   \* each session: the link whose upload token the server keeps
  client,       \* each session: the token it was given, and the gallery it prepares
  imageLinks, imageCrashes,
  spent,        \* history: <<upload, Question, revision>> of each commit
  meant         \* history: the gallery each revision was given or copied

storage == <<imageFiles, blobs, claims, uploads>>
imageQuestions == <<galleries, spent, meant>>
imageVars == <<imageNow, imageFiles, blobs, claims, uploads, galleries, storeInstance, uploadLink,
               client, imageLinks, imageCrashes, spent, meant>>

Claims == [upload : Nat, picture : Pictures, session : ImageSessions, instance : Nat,
           expires : Nat, committed : BOOLEAN]
\* A gallery under way: the pictures the agent chose, those still to be staged
\* and the uploads of the others, under the token it began with.
NoGallery == [phase |-> "none", wanted |-> {}, left |-> {}, uploads |-> {}, token |-> 0]

ImagesTypeOk ==
  /\ imageNow \in Nat /\ uploads \in Nat /\ storeInstance \in Nat
  /\ DOMAIN imageFiles \subseteq Pictures /\ imageFiles \in [DOMAIN imageFiles -> Nat]
  /\ blobs \subseteq Pictures /\ claims \subseteq Claims
  /\ galleries \in [ImageQuestions -> Seq(SUBSET Pictures)]
  /\ meant \in [ImageQuestions -> Seq(SUBSET Pictures)]
  /\ uploadLink \in [ImageSessions -> Nat]
  /\ client \in [ImageSessions ->
       [token : Nat,
        gallery : [phase : {"none", "staging"}, wanted : SUBSET Pictures,
                   left : SUBSET Pictures, uploads : SUBSET Nat, token : Nat]]]
  /\ imageLinks \in Nat /\ imageCrashes \in Nat
  /\ spent \subseteq Nat \X ImageQuestions \X Nat

Live(c) == c.expires > imageNow /\ ~c.committed
ClaimOf(u) == CHOOSE c \in claims : c.upload = u
InGallery(p) == \E q \in ImageQuestions : \E r \in DOMAIN galleries[q] : p \in galleries[q][r]
Created(q) == galleries[q] # <<>>

ImagesInit ==
  /\ imageNow = 0 /\ uploads = 0 /\ storeInstance = 1
  /\ imageFiles = <<>> /\ blobs = {} /\ claims = {}
  /\ galleries = [q \in ImageQuestions |-> <<>>] /\ meant = [q \in ImageQuestions |-> <<>>]
  /\ uploadLink = [s \in ImageSessions |-> 0]
  /\ client = [s \in ImageSessions |-> [token |-> 0, gallery |-> NoGallery]]
  /\ imageLinks = 0 /\ imageCrashes = 0 /\ spent = {}

-----------------------------------------------------------------------------
(* Staging.                                                                  *)

\* The files after a picture has been written and renamed into place.
Written(p) ==
  [x \in DOMAIN imageFiles \cup {p} |-> IF x = p THEN imageNow ELSE imageFiles[x]]

\* The server ends: the tokens are gone, the claims stay with their instance.
Ends ==
  /\ imageCrashes < MaxImageCrashes /\ imageCrashes' = imageCrashes + 1
  /\ storeInstance' = storeInstance + 1
  /\ uploadLink' = [s \in ImageSessions |-> 0]

\* A transaction is rolled back, by an error or because the server ends.
RollsBack == Ends \/ UNCHANGED <<storeInstance, uploadLink, imageCrashes>>

\* A session registers: the server keeps a new token for its connection.  The
\* client goes on with the token it has until `registered` arrives.
Connects(s) ==
  /\ imageLinks < MaxImageLinks /\ imageLinks' = imageLinks + 1
  /\ uploadLink' = [uploadLink EXCEPT ![s] = imageLinks']
  /\ UNCHANGED <<imageNow, storage, imageQuestions, storeInstance, client, imageCrashes>>
TokenArrives(s) ==
  /\ uploadLink[s] # 0 /\ client[s].token # uploadLink[s]
  /\ client' = [client EXCEPT ![s].token = uploadLink[s]]
  /\ UNCHANGED <<imageNow, storage, imageQuestions, storeInstance, uploadLink, imageLinks,
                 imageCrashes>>
ImageServerEnds ==
  /\ Ends
  /\ UNCHANGED <<imageNow, storage, imageQuestions, client, imageLinks>>

\* prepareImages: the agent chose a gallery.
Prepare(s, wanted) ==
  /\ client[s].gallery.phase = "none" /\ client[s].token # 0
  /\ client' = [client EXCEPT ![s].gallery =
                  [NoGallery EXCEPT !.phase = "staging", !.wanted = wanted, !.left = wanted,
                                    !.token = client[s].token]]
  /\ UNCHANGED <<imageNow, storage, imageQuestions, storeInstance, uploadLink, imageLinks,
                 imageCrashes>>

\* POST /api/images/stage and ImageStore.stage, with the answer or without it:
\* the client gives the gallery up when it misses one.
Admitted(s) == uploadLink[s] # 0 /\ client[s].gallery.token = uploadLink[s]
StageImage(s, p) ==
  LET g == client[s].gallery
  IN /\ g.phase = "staging" /\ p \in g.left /\ client[s].token = g.token
     /\ Admitted(s) /\ uploads < MaxUploads
     /\ imageFiles' = Written(p) /\ blobs' = blobs \cup {p}
     /\ uploads' = uploads + 1
     /\ claims' = claims \cup {[upload |-> uploads', picture |-> p, session |-> s,
                                instance |-> storeInstance, expires |-> imageNow + ClaimTime,
                                committed |-> FALSE]}
     /\ \/ client' = [client EXCEPT ![s].gallery =
                       [g EXCEPT !.left = g.left \ {p}, !.uploads = g.uploads \cup {uploads'}]]
        \/ client' = [client EXCEPT ![s].gallery = NoGallery]
     /\ UNCHANGED <<imageNow, imageQuestions, storeInstance, uploadLink, imageLinks, imageCrashes>>
\* The rows are refused, or the server ends, after the rename.
StageFails(s, p) ==
  /\ client[s].gallery.phase = "staging" /\ p \in client[s].gallery.left /\ Admitted(s)
  /\ imageFiles' = Written(p) /\ RollsBack
  /\ UNCHANGED <<imageNow, blobs, claims, uploads, imageQuestions, client, imageLinks>>
\* assertTarget, image_wrong_session, image_busy and the like.
GiveUp(s) ==
  /\ client[s].gallery.phase # "none"
  /\ client' = [client EXCEPT ![s].gallery = NoGallery]
  /\ UNCHANGED <<imageNow, storage, imageQuestions, storeInstance, uploadLink, imageLinks,
                 imageCrashes>>

-----------------------------------------------------------------------------
(* Asking and revising.  Nothing binds an upload to a Question before it is  *)
(* spent.                                                                    *)

\* assertImageTargets, which the client evaluates whenever it sends the ask,
\* the first time or again after a reconnect.
SameTarget(s) == client[s].gallery.token = client[s].token
Complete(g) == g.phase = "staging" /\ g.left = {}

\* ImageStore.commit: all the claims, or none and no Question.
Spendable(s, us) ==
  \A u \in us : \E c \in claims :
    c.upload = u /\ Live(c) /\ c.session = s /\ c.instance = storeInstance
Commits(s, q) ==
  LET g == client[s].gallery
      revision == Len(galleries[q]) + 1
  IN /\ Spendable(s, g.uploads)
     /\ galleries' = [galleries EXCEPT ![q] = Append(@, {ClaimOf(u).picture : u \in g.uploads})]
     /\ meant' = [meant EXCEPT ![q] = Append(@, g.wanted)]
     /\ spent' = spent \cup (g.uploads \X {q} \X {revision})
     /\ claims' = {IF c.upload \in g.uploads THEN [c EXCEPT !.committed = TRUE] ELSE c : c \in claims}

\* ask.create: a Question that exists is left alone, so that an ask sent again
\* after a reconnect changes nothing.  The client keeps what it sent.
AskWithImages(s, q) ==
  /\ Complete(client[s].gallery) /\ SameTarget(s) /\ uploadLink[s] # 0
  /\ ~Created(q) /\ Commits(s, q)
  /\ UNCHANGED <<imageNow, imageFiles, blobs, uploads, storeInstance, uploadLink, client, imageLinks,
                 imageCrashes>>
\* question.update revise with images.
ReviseImages(s, q) ==
  /\ Complete(client[s].gallery) /\ SameTarget(s) /\ uploadLink[s] # 0
  /\ Created(q) /\ Len(galleries[q]) < MaxImageRevisions /\ Commits(s, q)
  /\ client' = [client EXCEPT ![s].gallery = NoGallery]
  /\ UNCHANGED <<imageNow, imageFiles, blobs, uploads, storeInstance, uploadLink, imageLinks, imageCrashes>>
\* Every other revision: ImageStore.copy.
CopyGallery(q) ==
  /\ Created(q) /\ Len(galleries[q]) < MaxImageRevisions
  /\ galleries' = [galleries EXCEPT ![q] = Append(@, @[Len(@)])]
  /\ meant' = [meant EXCEPT ![q] = Append(@, @[Len(@)])]
  /\ UNCHANGED <<imageNow, storage, storeInstance, uploadLink, client, imageLinks, imageCrashes, spent>>

-----------------------------------------------------------------------------
(* The sweep.                                                                *)

KeptClaims == {c \in claims : Live(c)}
\* Definitions named Slip... are faulty variants of the one that follows, used
\* by no specification: a property has to notice each of them.

SlipOrphans == {p \in blobs : ~InGallery(p)}
Orphans == {p \in blobs : ~InGallery(p) /\ ~ \E c \in KeptClaims : c.picture = p}
\* Files without a row, an hour old.
Strays(rows) == {p \in DOMAIN imageFiles \ rows : imageFiles[p] + ClaimTime < imageNow}
WithoutFiles(P) == [p \in DOMAIN imageFiles \ P |-> imageFiles[p]]

\* prune.  A row whose file cannot be removed is kept.
Prune ==
  /\ claims' = KeptClaims
  /\ \E removed \in SUBSET Orphans :
       /\ blobs' = blobs \ removed
       /\ imageFiles' = WithoutFiles(removed \cup Strays(blobs'))
  /\ <<claims, blobs, imageFiles>>' # <<claims, blobs, imageFiles>>
  /\ UNCHANGED <<imageNow, uploads, imageQuestions, storeInstance, uploadLink, client, imageLinks,
                 imageCrashes>>
\* A file without a row cannot be removed, or the server ends before the
\* transaction has committed.
PruneFails ==
  /\ \E gone \in SUBSET (Orphans \cup Strays(blobs \ Orphans)) :
       gone \cap DOMAIN imageFiles # {} /\ imageFiles' = WithoutFiles(gone)
  /\ RollsBack
  /\ UNCHANGED <<imageNow, blobs, claims, uploads, imageQuestions, client, imageLinks>>
ImageTick ==
  /\ imageNow < MaxImageClock /\ imageNow' = imageNow + 1
  /\ UNCHANGED <<storage, imageQuestions, storeInstance, uploadLink, client, imageLinks, imageCrashes>>

ImagesNext ==
  \/ \E s \in ImageSessions :
       \/ Connects(s) \/ TokenArrives(s) \/ GiveUp(s)
       \/ \E wanted \in SUBSET Pictures : Prepare(s, wanted)
       \/ \E p \in Pictures : StageImage(s, p) \/ StageFails(s, p)
       \/ \E q \in ImageQuestions : AskWithImages(s, q) \/ ReviseImages(s, q)
  \/ \E q \in ImageQuestions : CopyGallery(q)
  \/ ImageServerEnds \/ Prune \/ PruneFails \/ ImageTick

ImagesSpec == ImagesInit /\ [][ImagesNext]_imageVars

-----------------------------------------------------------------------------

\* What a gallery of any revision shows, and what a claim that can still be
\* spent promises, has its row and its file (imageStore.ts:114).
Referenced(p) == InGallery(p) \/ \E c \in claims : Live(c) /\ c.picture = p
MediaKept == \A p \in Pictures : Referenced(p) => p \in blobs /\ p \in DOMAIN imageFiles
\* A staged upload is spent by one revision of one Question at most
\* (imageStore.ts:82).
SpentOnce == \A x, y \in spent : x[1] = y[1] => x = y
\* Every revision has the whole gallery its author chose, or that of the
\* revision before.
GalleryAsMeant == galleries = meant

GalleryIntact == MediaKept /\ SpentOnce /\ GalleryAsMeant
=============================================================================
