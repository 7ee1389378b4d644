---------------------------- MODULE DashboardProofs ----------------------------
(* What readers get to see, for any number of Questions, pictures, tabs,      *)
(* revisions and pages: the images of a Question, notifications on browser    *)
(* and phone, what the dashboard has on screen, and what is read page by page *)
(* (a listing names no Question twice and none too few, and a history is read *)
(* as it was when it was first asked for).                                    *)
EXTENDS QuestionImages, PushNotifications, DashboardStore, QuestionPages, HistoryPages,
        RecursionLemmas, FiniteSetTheorems, TLAPS

-----------------------------------------------------------------------------
(* The images.  An upload is what its claim says as long as there is one, and *)
(* a claim is spent while it is live or never.                                *)

ClaimsDistinct ==
  /\ \A c \in claims : c.upload \in 1..uploads
  /\ \A c, d \in claims : c.upload = d.upload => c = d

\* The uploads of a gallery are of the pictures that are staged.
Staged(g, held, n) ==
  /\ g.uploads \subseteq 1..n /\ g.left \subseteq g.wanted
  /\ \A c \in held : c.upload \in g.uploads => c.picture \in g.wanted \ g.left
  /\ \A p \in g.wanted \ g.left :
       \E u \in g.uploads : \A c \in held : c.upload = u => c.picture = p
AllStaged == \A s \in ImageSessions : Staged(client[s].gallery, claims, uploads)

SpentForGood ==
  \A x \in spent : x[1] \in 1..uploads /\ \A c \in claims : c.upload = x[1] => c.committed

ImagesInv ==
  /\ ImagesTypeOk /\ ClaimsDistinct /\ SpentForGood /\ GalleryIntact /\ AllStaged

Galleries == [phase : {"none", "staging"}, wanted : SUBSET Pictures, left : SUBSET Pictures,
              uploads : SUBSET Nat, token : Nat]
Clients == [ImageSessions -> [token : Nat, gallery : Galleries]]

LEMMA ImagesTypes ==
  ImagesTypeOk <=>
    /\ imageNow \in Nat /\ uploads \in Nat /\ storeInstance \in Nat
    /\ DOMAIN imageFiles \subseteq Pictures /\ imageFiles \in [DOMAIN imageFiles -> Nat]
    /\ blobs \subseteq Pictures /\ claims \subseteq Claims
    /\ galleries \in [ImageQuestions -> Seq(SUBSET Pictures)]
    /\ meant \in [ImageQuestions -> Seq(SUBSET Pictures)]
    /\ uploadLink \in [ImageSessions -> Nat]
    /\ client \in Clients
    /\ imageLinks \in Nat /\ imageCrashes \in Nat
    /\ spent \subseteq Nat \X ImageQuestions \X Nat
BY DEF ImagesTypeOk, Clients, Galleries

LEMMA ImagesStart == ImagesInit => ImagesInv
<1> SUFFICES ASSUME ImagesInit PROVE ImagesInv
  OBVIOUS
<1>1. NoGallery \in Galleries /\ NoGallery.wanted = {} /\ NoGallery.left = {} /\ NoGallery.uploads = {}
  BY DEF NoGallery, Galleries
<1>2. client \in Clients /\ \A s \in ImageSessions : client[s].gallery = NoGallery
  BY <1>1 DEF ImagesInit, Clients
<1>3. ImagesTypeOk
  BY <1>2, ImagesTypes DEF ImagesInit
<1>4. ClaimsDistinct /\ SpentForGood
  BY DEF ImagesInit, ClaimsDistinct, SpentForGood
<1>5. AllStaged
  BY <1>1, <1>2 DEF ImagesInit, Staged, AllStaged
<1>6. GalleryIntact
  <2>1. \A p \in Pictures : ~Referenced(p)
    BY DEF ImagesInit, Referenced, InGallery
  <2>2. QED
    BY <2>1 DEF ImagesInit, GalleryIntact, MediaKept, SpentOnce, GalleryAsMeant
<1>7. QED
  BY <1>3, <1>4, <1>5, <1>6 DEF ImagesInv

\* The connections, the client and the clock alone.
LEMMA ImagesAtRest ==
  ASSUME ImagesInv, UNCHANGED <<storage, imageQuestions>>,
         imageNow' \in Nat, imageNow' >= imageNow,
         uploadLink' \in [ImageSessions -> Nat], storeInstance' \in Nat,
         imageLinks' \in Nat, imageCrashes' \in Nat, client' \in Clients,
         \A s \in ImageSessions : Staged(client'[s].gallery, claims, uploads)
  PROVE  ImagesInv'
<1> USE DEF storage, imageQuestions
<1>1. ImagesTypeOk'
  BY ImagesTypes DEF ImagesInv, ImagesTypeOk, Clients, Galleries
<1>2. ClaimsDistinct' /\ SpentForGood'
  BY DEF ImagesInv, ClaimsDistinct, SpentForGood
<1>3. AllStaged'
  BY DEF AllStaged
<1>4. GalleryIntact'
  <2>1. \A c \in claims : Live(c)' => Live(c)
    BY DEF ImagesInv, ImagesTypeOk, Live, Claims
  <2>2. MediaKept'
    BY <2>1 DEF ImagesInv, GalleryIntact, MediaKept, Referenced, InGallery
  <2>3. QED
    BY <2>2 DEF ImagesInv, GalleryIntact, SpentOnce, GalleryAsMeant
<1>5. QED
  BY <1>1, <1>2, <1>3, <1>4 DEF ImagesInv

\* The client of one session goes on to another gallery.
LEMMA GalleryChanges ==
  ASSUME ImagesInv, NEW s \in ImageSessions, NEW g \in Galleries,
         client' = [client EXCEPT ![s].gallery = g]
  PROVE  client' \in Clients /\ client'[s].gallery = g
         /\ \A r \in ImageSessions : r # s => client'[r] = client[r]
BY ImagesTypes DEF ImagesInv, Clients

\* One more picture, with a claim of its own.
LEMMA PictureStaged ==
  ASSUME ImagesInv, NEW s \in ImageSessions, NEW p \in Pictures, StageImage(s, p)
  PROVE  ImagesInv'
<1> DEFINE g == client[s].gallery
           claim == [upload |-> uploads + 1, picture |-> p, session |-> s, instance |-> storeInstance,
                     expires |-> imageNow + ClaimTime, committed |-> FALSE]
           more == [g EXCEPT !.left = g.left \ {p}, !.uploads = g.uploads \cup {uploads + 1}]
<1>1. /\ imageFiles' = Written(p) /\ blobs' = blobs \cup {p} /\ uploads' = uploads + 1
      /\ claims' = claims \cup {claim} /\ p \in g.left
      /\ \/ client' = [client EXCEPT ![s].gallery =
                        [g EXCEPT !.left = g.left \ {p}, !.uploads = g.uploads \cup {uploads + 1}]]
         \/ client' = [client EXCEPT ![s].gallery = NoGallery]
      /\ UNCHANGED <<imageNow, galleries, spent, meant, storeInstance, uploadLink, imageLinks, imageCrashes>>
  BY DEF StageImage, imageQuestions
<1>2. /\ uploads \in Nat /\ imageNow \in Nat /\ storeInstance \in Nat /\ client \in Clients
      /\ claims \subseteq Claims /\ g \in Galleries
  BY ImagesTypes DEF ImagesInv, Clients
<1>3. claim \in Claims /\ claim.upload = uploads + 1 /\ claim.picture = p /\ ~claim.committed
  BY <1>2, ImagesAssumption DEF Claims
<1>4. /\ more \in Galleries /\ more.wanted = g.wanted /\ more.left = g.left \ {p}
      /\ more.uploads = g.uploads \cup {uploads + 1}
  <2> HIDE DEF g
  <2>1. g.left \ {p} \in SUBSET Pictures /\ g.uploads \cup {uploads + 1} \in SUBSET Nat
    BY <1>2 DEF Galleries
  <2>2. QED
    BY <1>2, <2>1 DEF Galleries
<1>5. NoGallery \in Galleries /\ NoGallery.wanted = {} /\ NoGallery.left = {} /\ NoGallery.uploads = {}
  BY DEF NoGallery, Galleries
<1>6. PICK h \in {more, NoGallery} : client' = [client EXCEPT ![s].gallery = h]
  BY <1>1
<1> HIDE DEF claim, more
<1>7. client' \in Clients /\ client'[s].gallery = h /\ \A r \in ImageSessions : r # s => client'[r] = client[r]
  BY <1>4, <1>5, <1>6, GalleryChanges
<1>8. DOMAIN imageFiles' = DOMAIN imageFiles \cup {p} /\ imageFiles' \in [DOMAIN imageFiles' -> Nat]
      /\ DOMAIN imageFiles' \subseteq Pictures
  BY <1>1, <1>2, ImagesTypes DEF ImagesInv, Written
<1>9. ImagesTypeOk'
  <2>1. /\ uploads' \in Nat /\ blobs' \subseteq Pictures /\ claims' \subseteq Claims
    BY <1>1, <1>2, <1>3, ImagesTypes DEF ImagesInv
  <2>2. QED
    BY <1>1, <1>7, <1>8, <2>1 DEF ImagesInv, ImagesTypeOk, Clients, Galleries
<1>10. ClaimsDistinct'
  <2>1. \A c \in claims : c.upload \in 1..uploads /\ c.upload # uploads + 1 /\ c.upload \in 1..(uploads + 1)
    BY <1>2 DEF ImagesInv, ClaimsDistinct
  <2>2. uploads + 1 \in 1..(uploads + 1)
    BY <1>2
  <2>3. QED
    BY <1>1, <1>3, <2>1, <2>2 DEF ImagesInv, ClaimsDistinct
<1>11. SpentForGood'
  <2>1. ASSUME NEW x \in spent PROVE x[1] \in 1..(uploads + 1) /\ x[1] # uploads + 1
    BY <1>2 DEF ImagesInv, SpentForGood
  <2>2. QED
    BY <1>1, <1>3, <2>1 DEF ImagesInv, SpentForGood
<1>12. AllStaged'
  <2>1. SUFFICES ASSUME NEW r \in ImageSessions PROVE Staged(client'[r].gallery, claims', uploads')
    BY DEF AllStaged
  <2>2. ASSUME NEW k, Staged(k, claims, uploads)
        PROVE  Staged(k, claims', uploads') /\ uploads + 1 \notin k.uploads
    <3>1. k.uploads \subseteq 1..(uploads + 1) /\ uploads + 1 \notin k.uploads
      BY <1>2, <2>2 DEF Staged
    <3>2. QED
      BY <1>1, <1>3, <2>2, <3>1 DEF Staged
  <2>3. CASE r # s
    BY <1>7, <2>2, <2>3 DEF ImagesInv, AllStaged
  <2>4. CASE r = s /\ h = NoGallery
    BY <1>5, <1>7, <2>4 DEF Staged
  <2>5. CASE r = s /\ h = more
    <3>1. client'[r].gallery = more
      BY <1>7, <2>5
    <3>2. uploads + 1 \notin g.uploads /\ Staged(g, claims', uploads') /\ g.left \subseteq g.wanted
      BY <2>2 DEF ImagesInv, AllStaged, Staged
    <3>3. uploads + 1 \in 1..(uploads + 1) /\ uploads' = uploads + 1
      BY <1>1, <1>2
    <3>4. \A c \in claims' : c.upload = uploads + 1 => c = claim
      BY <1>1, <1>2, <1>3 DEF ImagesInv, ClaimsDistinct
    <3>5. p \in g.wanted
      BY <1>1, <3>2
    <3> HIDE DEF g
    <3>6. \A c \in claims' : c.upload \in more.uploads => c.picture \in more.wanted \ more.left
      BY <1>3, <1>4, <3>2, <3>4, <3>5 DEF Staged
    <3>7. ASSUME NEW x \in more.wanted \ more.left
          PROVE  \E u \in more.uploads : \A c \in claims' : c.upload = u => c.picture = x
      <4>1. CASE x = p
        BY <1>3, <1>4, <3>4, <4>1
      <4>2. CASE x # p
        <5>1. x \in g.wanted \ g.left
          BY <1>4, <3>7, <4>2
        <5>2. QED
          BY <1>4, <3>2, <5>1 DEF Staged
      <4>3. QED
        BY <4>1, <4>2
    <3>8. Staged(more, claims', uploads')
      BY <1>4, <3>2, <3>3, <3>6, <3>7 DEF Staged
    <3>9. QED
      BY <3>1, <3>8
  <2>6. QED
    BY <1>6, <2>3, <2>4, <2>5
<1>13. GalleryIntact'
  <2>1. ASSUME NEW x \in Pictures, Referenced(x)' PROVE x \in blobs' /\ x \in DOMAIN imageFiles'
    <3>1. CASE x = p
      BY <1>1, <1>8, <3>1
    <3>2. CASE x # p
      <4>1. Referenced(x)
        BY <1>1, <1>3, <2>1, <3>2 DEF Referenced, InGallery, Live
      <4>2. QED
        BY <1>1, <1>8, <4>1 DEF ImagesInv, GalleryIntact, MediaKept
    <3>3. QED
      BY <3>1, <3>2
  <2>2. QED
    BY <1>1, <2>1 DEF ImagesInv, GalleryIntact, MediaKept, SpentOnce, GalleryAsMeant
<1>14. QED
  BY <1>9, <1>10, <1>11, <1>12, <1>13 DEF ImagesInv

\* The files and rows change, and what is referenced keeps both.
LEMMA FilesChange ==
  ASSUME ImagesInv,
         UNCHANGED <<imageNow, uploads, galleries, spent, meant, client, imageLinks>>,
         claims' \subseteq claims, \A c \in claims : Live(c) => c \in claims',
         blobs' \subseteq Pictures,
         DOMAIN imageFiles' \subseteq Pictures, imageFiles' \in [DOMAIN imageFiles' -> Nat],
         \A p \in Pictures : Referenced(p) /\ p \in blobs /\ p \in DOMAIN imageFiles =>
           p \in blobs' /\ p \in DOMAIN imageFiles',
         uploadLink' \in [ImageSessions -> Nat], storeInstance' \in Nat, imageCrashes' \in Nat
  PROVE  ImagesInv'
<1>1. ImagesTypeOk'
  BY DEF ImagesInv, ImagesTypeOk
<1>2. ClaimsDistinct' /\ SpentForGood'
  BY DEF ImagesInv, ClaimsDistinct, SpentForGood
<1>3. AllStaged'
  <2>1. ASSUME NEW g, Staged(g, claims, uploads) PROVE Staged(g, claims', uploads')
    BY <2>1 DEF Staged
  <2>2. QED
    BY <2>1 DEF ImagesInv, AllStaged
<1>4. GalleryIntact'
  <2>1. ASSUME NEW p \in Pictures, Referenced(p)' PROVE p \in blobs' /\ p \in DOMAIN imageFiles'
    <3>1. Referenced(p)
      BY <2>1 DEF Referenced, InGallery, Live
    <3>2. p \in blobs /\ p \in DOMAIN imageFiles
      BY <3>1 DEF ImagesInv, GalleryIntact, MediaKept
    <3>3. QED
      BY <3>1, <3>2
  <2>2. QED
    BY <2>1 DEF ImagesInv, GalleryIntact, MediaKept, SpentOnce, GalleryAsMeant
<1>5. QED
  BY <1>1, <1>2, <1>3, <1>4 DEF ImagesInv

LEMMA EndsTypes ==
  ASSUME ImagesInv, RollsBack
  PROVE  uploadLink' \in [ImageSessions -> Nat] /\ storeInstance' \in Nat /\ imageCrashes' \in Nat
<1>1. CASE Ends
  BY <1>1 DEF Ends, ImagesInv, ImagesTypeOk
<1>2. CASE UNCHANGED <<storeInstance, uploadLink, imageCrashes>>
  BY <1>2 DEF ImagesInv, ImagesTypeOk
<1>3. QED
  BY <1>1, <1>2 DEF RollsBack

LEMMA StagingFailed ==
  ASSUME ImagesInv, NEW s \in ImageSessions, NEW p \in Pictures, StageFails(s, p)
  PROVE  ImagesInv'
<1>1. /\ imageFiles' = Written(p) /\ RollsBack
      /\ UNCHANGED <<imageNow, blobs, claims, uploads, galleries, spent, meant, client, imageLinks>>
  BY DEF StageFails, imageQuestions
<1>2. /\ imageNow \in Nat /\ blobs \subseteq Pictures /\ DOMAIN imageFiles \subseteq Pictures
      /\ imageFiles \in [DOMAIN imageFiles -> Nat]
  BY DEF ImagesInv, ImagesTypeOk
<1>3. DOMAIN imageFiles' = DOMAIN imageFiles \cup {p} /\ imageFiles' \in [DOMAIN imageFiles' -> Nat]
  BY <1>1, <1>2 DEF Written
<1>4. uploadLink' \in [ImageSessions -> Nat] /\ storeInstance' \in Nat /\ imageCrashes' \in Nat
  BY <1>1, EndsTypes
<1>5. QED
  BY <1>1, <1>2, <1>3, <1>4, FilesChange

LEMMA WithoutFilesIs ==
  ASSUME ImagesInv, NEW P
  PROVE  /\ DOMAIN WithoutFiles(P) = DOMAIN imageFiles \ P
         /\ WithoutFiles(P) \in [DOMAIN imageFiles \ P -> Nat]
         /\ DOMAIN imageFiles \subseteq Pictures
BY DEF ImagesInv, ImagesTypeOk, WithoutFiles

\* An orphan, and a file without a row, are referenced by nothing.
LEMMA UnreferencedAre ==
  ASSUME ImagesInv, NEW p \in Pictures, Referenced(p), NEW rows
  PROVE  p \notin Orphans /\ (p \in rows => p \notin Strays(rows))
BY DEF Referenced, Orphans, KeptClaims, Strays

LEMMA Pruned ==
  ASSUME ImagesInv, Prune
  PROVE  ImagesInv'
<1>1. PICK removed \in SUBSET Orphans :
        blobs' = blobs \ removed /\ imageFiles' = WithoutFiles(removed \cup Strays(blobs'))
  BY DEF Prune
<1>2. /\ claims' = KeptClaims
      /\ UNCHANGED <<imageNow, uploads, galleries, spent, meant, storeInstance, uploadLink, client,
                     imageLinks, imageCrashes>>
  BY DEF Prune, imageQuestions
<1>3. claims' \subseteq claims /\ \A c \in claims : Live(c) => c \in claims'
  BY <1>2 DEF KeptClaims
<1>4. /\ DOMAIN imageFiles' = DOMAIN imageFiles \ (removed \cup Strays(blobs'))
      /\ imageFiles' \in [DOMAIN imageFiles' -> Nat] /\ DOMAIN imageFiles' \subseteq Pictures
  BY <1>1, WithoutFilesIs
<1>5. \A p \in Pictures : Referenced(p) /\ p \in blobs /\ p \in DOMAIN imageFiles =>
        p \in blobs' /\ p \in DOMAIN imageFiles'
  <2> SUFFICES ASSUME NEW p \in Pictures, Referenced(p), p \in blobs, p \in DOMAIN imageFiles
               PROVE  p \in blobs' /\ p \in DOMAIN imageFiles'
    OBVIOUS
  <2>1. p \notin Orphans /\ (p \in blobs' => p \notin Strays(blobs'))
    BY UnreferencedAre
  <2>2. QED
    BY <1>1, <1>4, <2>1
<1>6. /\ blobs' \subseteq Pictures /\ uploadLink' \in [ImageSessions -> Nat]
      /\ storeInstance' \in Nat /\ imageCrashes' \in Nat
  BY <1>1, <1>2 DEF ImagesInv, ImagesTypeOk
<1>7. QED
  BY <1>2, <1>3, <1>4, <1>5, <1>6, FilesChange

LEMMA PruningFailed ==
  ASSUME ImagesInv, PruneFails
  PROVE  ImagesInv'
<1>1. PICK gone \in SUBSET (Orphans \cup Strays(blobs \ Orphans)) : imageFiles' = WithoutFiles(gone)
  BY DEF PruneFails
<1>2. /\ RollsBack
      /\ UNCHANGED <<imageNow, blobs, claims, uploads, galleries, spent, meant, client, imageLinks>>
  BY DEF PruneFails, imageQuestions
<1>3. /\ DOMAIN imageFiles' = DOMAIN imageFiles \ gone
      /\ imageFiles' \in [DOMAIN imageFiles' -> Nat] /\ DOMAIN imageFiles' \subseteq Pictures
  BY <1>1, WithoutFilesIs
<1>4. \A p \in Pictures : Referenced(p) /\ p \in blobs /\ p \in DOMAIN imageFiles =>
        p \in blobs' /\ p \in DOMAIN imageFiles'
  <2> SUFFICES ASSUME NEW p \in Pictures, Referenced(p), p \in blobs, p \in DOMAIN imageFiles
               PROVE  p \in blobs' /\ p \in DOMAIN imageFiles'
    OBVIOUS
  <2>1. p \notin Orphans /\ (p \in blobs \ Orphans => p \notin Strays(blobs \ Orphans))
    BY UnreferencedAre
  <2>2. QED
    BY <1>1, <1>2, <1>3, <2>1
<1>5. /\ blobs' \subseteq Pictures /\ uploadLink' \in [ImageSessions -> Nat]
      /\ storeInstance' \in Nat /\ imageCrashes' \in Nat
  BY <1>2, EndsTypes DEF ImagesInv, ImagesTypeOk
<1>6. QED
  BY <1>2, <1>3, <1>4, <1>5, FilesChange

\* A revision shows pictures that were referenced before.
LEMMA GalleryGrows ==
  ASSUME ImagesInv, NEW q \in ImageQuestions, NEW G \in SUBSET Pictures,
         galleries' = [galleries EXCEPT ![q] = Append(@, G)], \A p \in G : Referenced(p)
  PROVE  /\ galleries' \in [ImageQuestions -> Seq(SUBSET Pictures)]
         /\ \A p \in Pictures : InGallery(p)' => Referenced(p)
<1>1. galleries \in [ImageQuestions -> Seq(SUBSET Pictures)]
  BY DEF ImagesInv, ImagesTypeOk
<1>2. galleries' \in [ImageQuestions -> Seq(SUBSET Pictures)]
  BY <1>1
<1>3. ASSUME NEW p \in Pictures, NEW x \in ImageQuestions, NEW r \in DOMAIN galleries'[x],
             p \in galleries'[x][r]
      PROVE  Referenced(p)
  <2>1. CASE x # q
    BY <1>1, <1>3, <2>1 DEF Referenced, InGallery
  <2>2. CASE x = q
    <3>1. galleries[q] \in Seq(SUBSET Pictures) /\ galleries'[q] = Append(galleries[q], G)
      BY <1>1
    <3> DEFINE old == galleries[q]
    <3>2. r \in DOMAIN Append(old, G) /\ galleries'[q] = Append(old, G) /\ old \in Seq(SUBSET Pictures)
      BY <1>3, <2>2, <3>1
    <3> HIDE DEF old
    <3>3. /\ r = Len(old) + 1 \/ r \in DOMAIN old
          /\ Append(old, G)[Len(old) + 1] = G /\ \A n \in DOMAIN old : Append(old, G)[n] = old[n]
      BY <3>2
    <3>4. galleries'[q][r] = G \/ (r \in DOMAIN old /\ galleries'[q][r] = old[r])
      BY <3>2, <3>3
    <3>5. QED
      BY <1>3, <2>2, <3>4 DEF Referenced, InGallery, old
  <2>3. QED
    BY <2>1, <2>2
<1>4. QED
  BY <1>2, <1>3 DEF InGallery

LEMMA GalleryCopied ==
  ASSUME ImagesInv, NEW q \in ImageQuestions, CopyGallery(q)
  PROVE  ImagesInv'
<1> DEFINE G == galleries[q][Len(galleries[q])]
<1>1. /\ galleries[q] # <<>> /\ galleries' = [galleries EXCEPT ![q] = Append(@, G)]
      /\ meant' = [meant EXCEPT ![q] = Append(@, @[Len(@)])]
      /\ UNCHANGED <<imageNow, imageFiles, blobs, claims, uploads, storeInstance, uploadLink, client,
                     imageLinks, imageCrashes, spent>>
  BY DEF CopyGallery, Created, storage, ImagesInv, ImagesTypeOk
<1>2. galleries[q] \in Seq(SUBSET Pictures) /\ galleries = meant
  BY DEF ImagesInv, ImagesTypeOk, GalleryIntact, GalleryAsMeant
<1>3. G \in SUBSET Pictures /\ \A p \in G : Referenced(p)
  <2>1. Len(galleries[q]) \in DOMAIN galleries[q]
    BY <1>1, <1>2
  <2>2. QED
    BY <1>2, <2>1 DEF Referenced, InGallery
<1>4. /\ galleries' \in [ImageQuestions -> Seq(SUBSET Pictures)]
      /\ \A p \in Pictures : InGallery(p)' => Referenced(p)
  BY <1>1, <1>3, GalleryGrows
<1>5. meant' = galleries'
  BY <1>1, <1>2
<1>6. ImagesTypeOk'
  BY <1>1, <1>4, <1>5 DEF ImagesInv, ImagesTypeOk
<1>7. ClaimsDistinct' /\ SpentForGood' /\ AllStaged'
  BY <1>1 DEF ImagesInv, ClaimsDistinct, SpentForGood, AllStaged
<1>8. GalleryIntact'
  <2>1. ASSUME NEW p \in Pictures, Referenced(p)' PROVE Referenced(p)
    BY <1>1, <1>4, <2>1 DEF Referenced, Live
  <2>2. QED
    BY <1>1, <1>5, <2>1 DEF ImagesInv, GalleryIntact, MediaKept, SpentOnce, GalleryAsMeant
<1>9. QED
  BY <1>6, <1>7, <1>8 DEF ImagesInv

LEMMA GalleryCommitted ==
  ASSUME ImagesInv, NEW s \in ImageSessions, NEW q \in ImageQuestions,
         Complete(client[s].gallery), Commits(s, q),
         UNCHANGED <<imageNow, imageFiles, blobs, uploads, storeInstance, uploadLink, imageLinks,
                     imageCrashes>>,
         client' = client \/ client' = [client EXCEPT ![s].gallery = NoGallery]
  PROVE  ImagesInv'
<1> DEFINE g == client[s].gallery
           G == {ClaimOf(u).picture : u \in g.uploads}
           revision == Len(galleries[q]) + 1
           of(c) == IF c.upload \in g.uploads THEN [c EXCEPT !.committed = TRUE] ELSE c
<1>1. /\ Spendable(s, g.uploads) /\ g.left = {}
      /\ galleries' = [galleries EXCEPT ![q] = Append(@, G)]
      /\ meant' = [meant EXCEPT ![q] = Append(@, g.wanted)]
      /\ spent' = spent \cup (g.uploads \X {q} \X {revision})
      /\ claims' = {of(c) : c \in claims}
  BY DEF Commits, Complete
<1>2. /\ client \in Clients /\ g \in Galleries /\ claims \subseteq Claims
      /\ galleries \in [ImageQuestions -> Seq(SUBSET Pictures)] /\ galleries = meant
      /\ Staged(g, claims, uploads) /\ g.wanted \in SUBSET Pictures /\ uploads \in Nat
  BY ImagesTypes DEF ImagesInv, AllStaged, GalleryIntact, GalleryAsMeant, Clients, Galleries
<1>3. NoGallery \in Galleries /\ NoGallery.wanted = {} /\ NoGallery.left = {} /\ NoGallery.uploads = {}
  BY DEF NoGallery, Galleries
<1>4. client' \in Clients /\ \A r \in ImageSessions :
        client'[r].gallery \in {client[r].gallery, NoGallery}
  BY <1>2, <1>3, GalleryChanges
<1> HIDE DEF g
<1>5. \A u \in g.uploads : ClaimOf(u) \in claims /\ ClaimOf(u).upload = u /\ Live(ClaimOf(u))
  <2>1. SUFFICES ASSUME NEW u \in g.uploads
                 PROVE  ClaimOf(u) \in claims /\ ClaimOf(u).upload = u /\ Live(ClaimOf(u))
    OBVIOUS
  <2>2. PICK c \in claims : c.upload = u /\ Live(c)
    BY <1>1, <2>1 DEF Spendable
  <2>3. ClaimOf(u) \in claims /\ ClaimOf(u).upload = u
    BY <2>2 DEF ClaimOf
  <2>4. ClaimOf(u) = c
    BY <2>2, <2>3 DEF ImagesInv, ClaimsDistinct
  <2>5. QED
    BY <2>2, <2>3, <2>4
<1>6. G = g.wanted
  <2>1. ASSUME NEW u \in g.uploads PROVE ClaimOf(u).picture \in g.wanted
    BY <1>2, <1>5, <2>1 DEF Staged
  <2>2. ASSUME NEW p \in g.wanted PROVE \E u \in g.uploads : ClaimOf(u).picture = p
    BY <1>1, <1>2, <1>5, <2>2 DEF Staged
  <2>3. QED
    BY <2>1, <2>2
<1>7. \A p \in G : Referenced(p)
  BY <1>5 DEF Referenced
<1> HIDE DEF G
<1>8. /\ galleries' \in [ImageQuestions -> Seq(SUBSET Pictures)]
      /\ \A p \in Pictures : InGallery(p)' => Referenced(p)
  BY <1>1, <1>2, <1>6, <1>7, GalleryGrows
<1>9. meant' = galleries'
  BY <1>1, <1>2, <1>6
<1>10. \A c \in claims : /\ of(c) \in Claims /\ of(c).upload = c.upload /\ of(c).picture = c.picture
                         /\ of(c).expires = c.expires
                         /\ (c.committed \/ c.upload \in g.uploads => of(c).committed)
  <2>1. SUFFICES ASSUME NEW c \in Claims
                 PROVE  /\ of(c) \in Claims /\ of(c).upload = c.upload /\ of(c).picture = c.picture
                        /\ of(c).expires = c.expires
                        /\ (c.committed \/ c.upload \in g.uploads => of(c).committed)
    BY <1>2
  <2>2. CASE c.upload \in g.uploads
    BY <2>2 DEF Claims
  <2>3. CASE c.upload \notin g.uploads
    BY <2>3 DEF Claims
  <2>4. QED
    BY <2>2, <2>3
<1> HIDE DEF of
<1>11. \A x \in g.uploads \X {q} \X {revision} : x = <<x[1], q, revision>> /\ x[1] \in g.uploads
  OBVIOUS
<1>12. ASSUME NEW x \in spent PROVE x[1] \notin g.uploads
  <2>1. \A u \in g.uploads : ~ClaimOf(u).committed /\ ClaimOf(u) \in claims /\ ClaimOf(u).upload = u
    BY <1>5 DEF Live
  <2>2. QED
    BY <2>1, <1>12 DEF ImagesInv, SpentForGood
<1>13. revision \in Nat /\ g.uploads \subseteq 1..uploads /\ g.uploads \subseteq Nat
  BY <1>2 DEF Staged, Galleries
<1> HIDE DEF revision
<1>14. ImagesTypeOk'
  <2>1. claims' \subseteq Claims
    BY <1>1, <1>10
  <2>2. spent' \subseteq Nat \X ImageQuestions \X Nat
    BY <1>1, <1>13 DEF ImagesInv, ImagesTypeOk
  <2>3. QED
    BY <1>4, <1>8, <1>9, <2>1, <2>2 DEF ImagesInv, ImagesTypeOk, Clients, Galleries
<1>15. ClaimsDistinct'
  BY <1>1, <1>10 DEF ImagesInv, ClaimsDistinct
<1>16. SpentForGood'
  <2>1. ASSUME NEW x \in spent' PROVE x[1] \in 1..uploads /\ \A c \in claims' : c.upload = x[1] => c.committed
    <3>1. ASSUME NEW c \in claims'
          PROVE  \E b \in claims : c.upload = b.upload /\ (b.committed \/ b.upload \in g.uploads => c.committed)
      BY <1>1, <1>10, <3>1
    <3>2. CASE x \in spent
      BY <3>1, <3>2 DEF ImagesInv, SpentForGood
    <3>3. CASE x[1] \in g.uploads
      BY <1>13, <3>1, <3>3
    <3>4. QED
      BY <1>1, <1>11, <2>1, <3>2, <3>3
  <2>2. QED
    BY <2>1 DEF SpentForGood
<1>17. AllStaged'
  <2>1. ASSUME NEW k, Staged(k, claims, uploads) PROVE Staged(k, claims', uploads)
    BY <1>1, <1>10, <2>1 DEF Staged
  <2>2. Staged(NoGallery, claims', uploads)
    BY <1>3 DEF Staged
  <2>3. QED
    BY <1>4, <2>1, <2>2 DEF ImagesInv, AllStaged
<1>18. GalleryIntact'
  <2>1. ASSUME NEW p \in Pictures, Referenced(p)' PROVE Referenced(p)
    <3>1. CASE InGallery(p)'
      BY <1>8, <3>1
    <3>2. ASSUME NEW c \in claims', Live(c)', c.picture = p PROVE Referenced(p)
      <4>1. PICK b \in claims : c = of(b)
        BY <1>1, <3>2
      <4>2. Live(b) /\ b.picture = p
        BY <1>10, <3>2, <4>1 DEF Live
      <4>3. QED
        BY <4>2 DEF Referenced
    <3>3. QED
      BY <2>1, <3>1, <3>2 DEF Referenced
  <2>2. SpentOnce'
    <3>1. SUFFICES ASSUME NEW x \in spent', NEW y \in spent', x[1] = y[1] PROVE x = y
      BY DEF SpentOnce
    <3>2. CASE x \in spent /\ y \in spent
      BY <3>1, <3>2 DEF ImagesInv, GalleryIntact, SpentOnce
    <3>3. CASE x \in g.uploads \X {q} \X {revision} /\ y \in g.uploads \X {q} \X {revision}
      BY <1>11, <3>1, <3>3
    <3>4. QED
      BY <1>1, <1>11, <1>12, <3>1, <3>2, <3>3
  <2>3. QED
    BY <1>9, <2>1, <2>2 DEF ImagesInv, GalleryIntact, MediaKept, GalleryAsMeant
<1>19. QED
  BY <1>14, <1>15, <1>16, <1>17, <1>18 DEF ImagesInv

LEMMA ImagesStep == ImagesInv /\ [ImagesNext]_imageVars => ImagesInv'
<1> SUFFICES ASSUME ImagesInv, [ImagesNext]_imageVars PROVE ImagesInv'
  OBVIOUS
<1>1. /\ imageNow \in Nat /\ uploadLink \in [ImageSessions -> Nat] /\ storeInstance \in Nat
      /\ imageLinks \in Nat /\ imageCrashes \in Nat /\ client \in Clients
      /\ \A s \in ImageSessions : Staged(client[s].gallery, claims, uploads)
  BY ImagesTypes DEF ImagesInv, AllStaged
<1>2. /\ NoGallery \in Galleries
      /\ \A W \in SUBSET Pictures : \A n \in Nat :
           LET g == [NoGallery EXCEPT !.phase = "staging", !.wanted = W, !.left = W, !.token = n]
           IN g \in Galleries /\ Staged(g, claims, uploads)
      /\ Staged(NoGallery, claims, uploads)
  BY DEF NoGallery, Galleries, Staged
<1>3. ASSUME NEW s \in ImageSessions, Connects(s) PROVE ImagesInv'
  <2>1. /\ uploadLink' \in [ImageSessions -> Nat] /\ imageLinks' \in Nat
        /\ UNCHANGED <<imageNow, storage, imageQuestions, storeInstance, client, imageCrashes>>
    BY <1>1, <1>3 DEF Connects
  <2>2. QED
    BY <1>1, <2>1, ImagesAtRest
<1>4. ASSUME NEW s \in ImageSessions, TokenArrives(s) PROVE ImagesInv'
  <2>1. /\ client' = [client EXCEPT ![s].token = uploadLink[s]]
        /\ UNCHANGED <<imageNow, storage, imageQuestions, storeInstance, uploadLink, imageLinks, imageCrashes>>
    BY <1>4 DEF TokenArrives
  <2>2. client' \in Clients /\ \A r \in ImageSessions : client'[r].gallery = client[r].gallery
    BY <1>1, <2>1 DEF Clients
  <2>3. QED
    BY <1>1, <2>1, <2>2, ImagesAtRest
<1>5. ASSUME NEW s \in ImageSessions, NEW g \in Galleries, Staged(g, claims, uploads),
             client' = [client EXCEPT ![s].gallery = g],
             UNCHANGED <<imageNow, storage, imageQuestions, storeInstance, uploadLink, imageLinks, imageCrashes>>
      PROVE  ImagesInv'
  <2>1. client' \in Clients /\ \A r \in ImageSessions : Staged(client'[r].gallery, claims, uploads)
    BY <1>1, <1>5, GalleryChanges
  <2>2. QED
    BY <1>1, <1>5, <2>1, ImagesAtRest
<1>6. ASSUME NEW s \in ImageSessions, GiveUp(s) PROVE ImagesInv'
  BY <1>2, <1>5, <1>6 DEF GiveUp
<1>7. ASSUME NEW s \in ImageSessions, NEW W \in SUBSET Pictures, Prepare(s, W) PROVE ImagesInv'
  <2>1. client[s].token \in Nat
    BY <1>1 DEF Clients
  <2>2. QED
    BY <1>2, <1>5, <1>7, <2>1 DEF Prepare
<1>8. ASSUME NEW s \in ImageSessions, NEW q \in ImageQuestions, AskWithImages(s, q) \/ ReviseImages(s, q)
      PROVE  ImagesInv'
  BY <1>8, GalleryCommitted DEF AskWithImages, ReviseImages
<1>9. CASE ImageServerEnds
  <2>1. /\ RollsBack
        /\ UNCHANGED <<imageNow, storage, imageQuestions, client, imageLinks>>
    BY <1>9 DEF ImageServerEnds, RollsBack
  <2>2. QED
    BY <1>1, <2>1, EndsTypes, ImagesAtRest
<1>10. CASE ImageTick
  BY <1>1, <1>10, ImagesAtRest DEF ImageTick
<1>11. CASE UNCHANGED imageVars
  BY <1>1, <1>11, ImagesAtRest DEF imageVars, storage, imageQuestions
<1>12. QED
  BY <1>3, <1>4, <1>6, <1>7, <1>8, <1>9, <1>10, <1>11, PictureStaged, StagingFailed, GalleryCopied,
     Pruned, PruningFailed DEF ImagesNext

\* Whatever clients stage, lose and spend again, wherever the server ends and
\* whatever the sweep removes, every picture of a gallery has its row and its
\* file, an upload is spent once, and a revision has the gallery its author
\* chose.
THEOREM GalleriesStayIntact == ImagesSpec => []GalleryIntact
<1>1. ImagesInv => GalleryIntact
  BY DEF ImagesInv
<1>2. QED
  BY <1>1, ImagesStart, ImagesStep, PTL DEF ImagesSpec

-----------------------------------------------------------------------------
(* The notifications.  An address is given out once, so that what is said of  *)
(* an old one never concerns the one a device has now.                        *)

Known(d, a) == <<d, a>> \in addresses

AddressesGiven ==
  /\ \A a \in addresses : a[2] \in 1..given
  /\ \A m \in pushes : m.to \in 1..given /\ asked[m.question] # "none"
  /\ \A d \in Devices : live[d] \in 0..given
  /\ \A t \in Tabs :
       /\ tab[t].stage # "idle" => tab[t].address \in 1..given
       /\ tab[t].stage = "deleting" => tab[t].address # live["browser"]
  /\ tokenUploads \subseteq 1..given /\ abandoned \subseteq (Devices \X (1..given))

\* What goes to the address a device has now goes to one the server knows, or to
\* one that its owner left or the service disowned.
Reached(d) == Known(d, live[d]) \/ Unserved(d)
TabHolds(a) == \E t \in Tabs : tab[t].stage \in {"saving", "rollback"} /\ tab[t].address = a
LiveKnown ==
  /\ live["browser"] = 0 \/ Reached("browser") \/ TabHolds(live["browser"])
  /\ live["phone"] \in tokenUploads \cup {0} \/ Reached("phone")
  /\ \A m \in pushes : m.to = live[m.device] => Reached(m.device)
  /\ \A d \in Devices : \A q \in onDevice[d] : <<d, q>> \in excused \/ Reached(d)

\* The message that closes a notification is on its way to the address.
Closing(d, q) ==
  \/ <<d, q>> \in excused
  \/ \E m \in pushes : m.kind = "resolved" /\ m.question = q /\ m.device = d /\ m.to = live[d]

\* A Question that has an end of which the devices are told is closed wherever
\* it is shown, or about to be shown.
Open == {"pending", "withdrawn"}
Closed ==
  /\ \A d \in Devices : \A q \in onDevice[d] : asked[q] \in Open \/ Closing(d, q)
  /\ \A m \in pushes :
       m.kind = "created" /\ m.to = live[m.device] =>
         asked[m.question] \in Open \/ Closing(m.device, m.question)

PushInv == PushTypeOk /\ AddressesGiven /\ LiveKnown /\ Closed

AskStates == {"none", "pending", "resolved", "withdrawn"}
TabStates == [stage : {"idle", "saving", "saved", "rollback", "deleting"}, address : Nat]
Controls == {"checking", "unavailable", "subscribed", "unsubscribed"}

LEMMA PushStarts == PushInit => PushInv
<1> SUFFICES ASSUME PushInit PROVE PushInv
  OBVIOUS
<1>1. PushTypeOk
  BY DEF PushInit, PushTypeOk, Idle, Devices
<1>2. AddressesGiven /\ LiveKnown /\ Closed
  BY DEF PushInit, AddressesGiven, LiveKnown, Closed, TabHolds, Idle, Devices, Reached, Known, Unserved
<1>3. QED
  BY <1>1, <1>2 DEF PushInv

LEMMA TabSet ==
  ASSUME PushTypeOk, NEW t \in Tabs, NEW h \in TabStates, tab' = [tab EXCEPT ![t] = h]
  PROVE  /\ tab' \in [Tabs -> TabStates] /\ tab'[t] = h
         /\ \A x \in Tabs : x # t => tab'[x] = tab[x]
BY DEF PushTypeOk, TabStates

LEMMA StageSet ==
  ASSUME PushTypeOk, NEW t \in Tabs, NEW stage \in {"saved", "rollback"}, tab' = [tab EXCEPT ![t].stage = stage]
  PROVE  /\ tab' \in [Tabs -> TabStates] /\ tab'[t].stage = stage /\ tab'[t].address = tab[t].address
         /\ \A x \in Tabs : x # t => tab'[x] = tab[x]
BY DEF PushTypeOk, TabStates

LEMMA TabTypes ==
  ASSUME PushInv
  PROVE  /\ tab \in [Tabs -> TabStates] /\ control \in [Tabs -> Controls] /\ pushFaults \in Nat
         /\ abandoned \subseteq (Devices \X (1..given)) /\ given \in Nat /\ live \in [Devices -> Nat]
         /\ Idle \in TabStates /\ Idle.stage = "idle" /\ fcmAccount \in {"unread", "read", "unusable"}
         /\ addresses \subseteq (Devices \X Nat) /\ tokenUploads \subseteq 1..given
         /\ Devices = {"browser", "phone"} /\ pushes \subseteq Messages
         /\ excused \subseteq (Devices \X PushQuestions)
         /\ onDevice \in [Devices -> SUBSET PushQuestions] /\ asked \in [PushQuestions -> AskStates]
BY DEF PushInv, PushTypeOk, TabStates, Controls, Idle, Devices, AddressesGiven, AskStates

LEMMA TabFacts ==
  ASSUME PushInv
  PROVE  /\ \A x \in Tabs :
              /\ tab[x].stage # "idle" => tab[x].address \in 1..given
              /\ tab[x].stage = "deleting" => tab[x].address # live["browser"]
         /\ live["browser"] = 0 \/ Reached("browser") \/ TabHolds(live["browser"])
         /\ live["phone"] \in tokenUploads \cup {0} \/ Reached("phone")
         /\ \A d \in Devices : live[d] \in 0..given
BY DEF PushInv, AddressesGiven, LiveKnown

\* The tabs and the phone move, and what the server knows and sends with them, as
\* long as the devices keep the addresses they have.
LEMMA TabsMove ==
  ASSUME PushInv, UNCHANGED <<live, given, asked, onDevice>>,
         excused \subseteq excused', excused' \subseteq (Devices \X PushQuestions),
         fcmAccount' \in {"unread", "read", "unusable"}, pushFaults' \in Nat,
         addresses' \subseteq addresses \cup (Devices \X (1..given)),
         tokenUploads' \subseteq 1..given, abandoned' \subseteq (Devices \X (1..given)),
         \A d \in Devices : Reached(d) => Reached(d)',
         pushes' \subseteq pushes,
         \A m \in pushes : m.to = live[m.device] /\ m.kind = "resolved" =>
           m \in pushes' \/ <<m.device, m.question>> \in excused',
         tab' \in [Tabs -> TabStates], control' \in [Tabs -> Controls],
         \A x \in Tabs :
           /\ tab'[x].stage # "idle" => tab'[x].address \in 1..given
           /\ tab'[x].stage = "deleting" => tab'[x].address # live["browser"],
         live["browser"] = 0 \/ Reached("browser")' \/ TabHolds(live["browser"])',
         live["phone"] \in tokenUploads' \cup {0} \/ Reached("phone")'
  PROVE  PushInv'
<1>1. /\ \A m \in pushes : m \in Messages /\ m.device \in Devices
      /\ addresses \subseteq (Devices \X Nat) /\ given \in Nat /\ live \in [Devices -> Nat]
  BY DEF PushInv, PushTypeOk, Messages
<1>2. PushTypeOk'
  <2>1. addresses' \subseteq (Devices \X Nat) /\ tokenUploads' \subseteq Nat /\ abandoned' \subseteq (Devices \X Nat)
    BY <1>1
  <2>2. QED
    BY <2>1 DEF PushInv, PushTypeOk, TabStates, Controls
<1>3. AddressesGiven'
  <2>1. \A x \in Tabs :
          /\ tab'[x].stage # "idle" => tab'[x].address \in 1..given'
          /\ tab'[x].stage = "deleting" => tab'[x].address # live'["browser"]
    OBVIOUS
  <2>2. ASSUME NEW a \in addresses' PROVE a[2] \in 1..given'
    BY <2>2 DEF PushInv, AddressesGiven
  <2>3. /\ \A m \in pushes' : m.to \in 1..given' /\ asked'[m.question] # "none"
        /\ \A d \in Devices : live'[d] \in 0..given'
    BY DEF PushInv, AddressesGiven
  <2>4. QED
    BY <2>1, <2>2, <2>3 DEF AddressesGiven
<1>4. LiveKnown'
  <2>1. \A m \in pushes' : m.to = live'[m.device] => Reached(m.device)'
    BY <1>1 DEF PushInv, LiveKnown
  <2>2. \A d \in Devices : \A q \in onDevice'[d] : <<d, q>> \in excused' \/ Reached(d)'
    BY DEF PushInv, LiveKnown
  <2>3. live'["browser"] = 0 \/ Reached("browser")' \/ TabHolds(live["browser"])'
    OBVIOUS
  <2>4. live'["phone"] \in tokenUploads' \cup {0} \/ Reached("phone")'
    OBVIOUS
  <2>5. QED
    BY <2>1, <2>2, <2>3, <2>4 DEF LiveKnown
<1>5. ASSUME NEW d, NEW q, Closing(d, q) PROVE Closing(d, q)'
  <2>1. CASE <<d, q>> \in excused
    BY <2>1 DEF Closing
  <2>2. CASE \E m \in pushes : m.kind = "resolved" /\ m.question = q /\ m.device = d /\ m.to = live[d]
    BY <2>2 DEF Closing
  <2>3. QED
    BY <1>5, <2>1, <2>2 DEF Closing
<1>6. Closed'
  BY <1>5 DEF PushInv, Closed
<1>7. QED
  BY <1>2, <1>3, <1>4, <1>6 DEF PushInv

\* A device loses its address, or is given a new one.
LEMMA AddressChanges ==
  ASSUME PushInv, NEW d \in Devices, NEW a \in Nat, live' = [live EXCEPT ![d] = a],
         (a = 0 /\ given' = given) \/ (a = given + 1 /\ given' = a),
         \/ excused' = excused \cup ({d} \X onDevice[d])
         \/ live[d] = 0 /\ UNCHANGED excused,
         UNCHANGED <<addresses, asked, pushes, onDevice, fcmAccount, pushFaults>>,
         abandoned \subseteq abandoned', abandoned' \subseteq (Devices \X (1..given')),
         tokenUploads' \subseteq 1..given',
         d = "browser" => UNCHANGED tokenUploads,
         d = "phone" => UNCHANGED tab /\ (a \in tokenUploads' \/ <<d, a>> \in abandoned'),
         tab' \in [Tabs -> TabStates], control' \in [Tabs -> Controls],
         \A x \in Tabs :
           /\ tab'[x].stage # "idle" => tab'[x].address \in 1..given'
           /\ tab'[x].stage = "deleting" => tab'[x].address \in 1..given,
         d = "browser" => \/ a = 0
                          \/ \E x \in Tabs : tab'[x].stage = "saving" /\ tab'[x].address = a
  PROVE  PushInv'
<1>1. /\ given \in Nat /\ given' \in Nat /\ live \in [Devices -> Nat]
      /\ \A e \in Devices : live[e] \in 0..given
      /\ \A m \in pushes : m.to \in 1..given /\ m.device \in Devices /\ m.question \in PushQuestions
      /\ \A x \in addresses : x[2] \in 1..given
      /\ \A x \in abandoned : x[2] \in 1..given
      /\ onDevice \in [Devices -> SUBSET PushQuestions]
      /\ Devices = {"browser", "phone"}
  BY DEF PushInv, PushTypeOk, AddressesGiven, Messages, Devices
<1>2. live' \in [Devices -> Nat] /\ live'[d] = a /\ \A e \in Devices : e # d => live'[e] = live[e]
  BY <1>1
<1>3. a \notin 1..given /\ a \in 0..given' /\ given <= given' /\ (a # 0 => a \in 1..given')
  BY <1>1
<1>4. excused \subseteq excused' /\ excused' \subseteq excused \cup ({d} \X onDevice[d])
  OBVIOUS
<1>5. ASSUME NEW e \in Devices, e # d, Reached(e) PROVE Reached(e)'
  BY <1>2, <1>5 DEF Reached, Known, Unserved
<1>6. PushTypeOk'
  <2>1. tokenUploads' \subseteq Nat /\ abandoned' \subseteq (Devices \X Nat)
    BY <1>1
  <2>2. excused' \subseteq (Devices \X PushQuestions)
    BY <1>1, <1>4 DEF PushInv, PushTypeOk
  <2>3. QED
    BY <1>1, <1>2, <2>1, <2>2 DEF PushInv, PushTypeOk, TabStates, Controls
<1>7. \A m \in pushes : m.to = live'[m.device] => m.device # d /\ m.to = live[m.device]
  BY <1>1, <1>2, <1>3
<1>8. \A q \in onDevice[d] : <<d, q>> \in excused'
  <2>1. SUFFICES ASSUME NEW q \in onDevice[d] PROVE <<d, q>> \in excused'
    OBVIOUS
  <2>2. CASE excused' = excused \cup ({d} \X onDevice[d])
    BY <2>1, <2>2
  <2>3. CASE live[d] = 0 /\ UNCHANGED excused
    <3>1. ~Reached(d)
      BY <1>1, <2>3 DEF Reached, Known, Unserved
    <3>2. QED
      BY <2>1, <2>3, <3>1 DEF PushInv, LiveKnown
  <2>4. QED
    BY <2>2, <2>3
<1>9. AddressesGiven'
  <2>1. \A x \in addresses' : x[2] \in 1..given'
    BY <1>1, <1>3
  <2>2. \A m \in pushes' : m.to \in 1..given' /\ asked'[m.question] # "none"
    BY <1>1, <1>3 DEF PushInv, AddressesGiven
  <2>3. \A e \in Devices : live'[e] \in 0..given'
    BY <1>1, <1>2, <1>3
  <2>4. ASSUME NEW x \in Tabs, tab'[x].stage = "deleting" PROVE tab'[x].address # live'["browser"]
    <3>1. CASE d = "browser"
      <4>1. tab'[x].address \in 1..given
        BY <2>4
      <4>2. live'["browser"] = a
        BY <1>2, <3>1
      <4>3. QED
        BY <1>3, <4>1, <4>2
    <3>2. CASE d = "phone"
      BY <1>2, <2>4, <3>2 DEF PushInv, AddressesGiven, Devices
    <3>3. QED
      BY <3>1, <3>2 DEF Devices
  <2>5. \A x \in Tabs : tab'[x].stage # "idle" => tab'[x].address \in 1..given'
    OBVIOUS
  <2>6. QED
    BY <2>1, <2>2, <2>3, <2>4, <2>5 DEF AddressesGiven
<1>10. LiveKnown'
  <2>1. live'["browser"] = 0 \/ Reached("browser")' \/ TabHolds(live["browser"])'
    <3>1. CASE d = "browser"
      BY <1>2, <3>1 DEF TabHolds
    <3>2. CASE d = "phone"
      <4>1. live'["browser"] = live["browser"] /\ UNCHANGED tab
        BY <1>1, <1>2, <3>2
      <4>2. QED
        BY <1>1, <1>5, <3>2, <4>1 DEF PushInv, LiveKnown, TabHolds
    <3>3. QED
      BY <3>1, <3>2 DEF Devices
  <2>2. live'["phone"] \in tokenUploads' \cup {0} \/ Reached("phone")'
    <3>1. CASE d = "browser"
      BY <1>1, <1>2, <1>5, <3>1 DEF PushInv, LiveKnown
    <3>2. CASE d = "phone"
      BY <1>2, <3>2 DEF Reached, Unserved
    <3>3. QED
      BY <3>1, <3>2 DEF Devices
  <2>3. \A m \in pushes' : m.to = live'[m.device] => Reached(m.device)'
    BY <1>1, <1>5, <1>7 DEF PushInv, LiveKnown
  <2>4. ASSUME NEW e \in Devices, NEW q \in onDevice'[e] PROVE <<e, q>> \in excused' \/ Reached(e)'
    <3>1. CASE e = d
      BY <1>8, <2>4, <3>1
    <3>2. CASE e # d
      BY <1>4, <1>5, <2>4, <3>2 DEF PushInv, LiveKnown
    <3>3. QED
      BY <3>1, <3>2
  <2>5. QED
    BY <2>1, <2>2, <2>3, <2>4 DEF LiveKnown
<1>11. ASSUME NEW e \in Devices, e # d, NEW q, Closing(e, q) PROVE Closing(e, q)'
  BY <1>2, <1>4, <1>11 DEF Closing
<1>12. Closed'
  <2>1. ASSUME NEW e \in Devices, NEW q \in onDevice'[e] PROVE asked'[q] \in Open \/ Closing(e, q)'
    <3>1. CASE e = d
      BY <1>8, <2>1, <3>1 DEF Closing
    <3>2. CASE e # d
      BY <1>11, <2>1, <3>2 DEF PushInv, Closed
    <3>3. QED
      BY <3>1, <3>2
  <2>2. ASSUME NEW m \in pushes', m.kind = "created", m.to = live'[m.device]
        PROVE  asked'[m.question] \in Open \/ Closing(m.device, m.question)'
    BY <1>1, <1>7, <1>11, <2>2 DEF PushInv, Closed
  <2>3. QED
    BY <2>1, <2>2 DEF Closed
<1>13. QED
  BY <1>6, <1>9, <1>10, <1>12 DEF PushInv

\* A device gets or loses a message, or a notification of it is clicked.
LEMMA DevicesMove ==
  ASSUME PushInv, UNCHANGED <<addresses, deviceState, asked, fcmAccount>>, pushFaults' \in Nat,
         pushes' \subseteq pushes, excused \subseteq excused', excused' \subseteq (Devices \X PushQuestions),
         onDevice' \in [Devices -> SUBSET PushQuestions],
         \A d \in Devices : \A q \in onDevice'[d] : <<d, q>> \in excused \/ Reached(d),
         \A d \in Devices : \A q \in onDevice'[d] : asked[q] \in Open \/ Closing(d, q)',
         \A m \in pushes' :
           m.kind = "created" /\ m.to = live[m.device] =>
             asked[m.question] \in Open \/ Closing(m.device, m.question)'
  PROVE  PushInv'
<1> USE DEF deviceState
<1>1. PushTypeOk'
  BY DEF PushInv, PushTypeOk
<1>2. AddressesGiven'
  BY DEF PushInv, AddressesGiven
<1>3. LiveKnown'
  BY DEF PushInv, LiveKnown, Reached, Known, Unserved, TabHolds
<1>4. Closed'
  BY DEF Closed
<1>5. QED
  BY <1>1, <1>2, <1>3, <1>4 DEF PushInv

LEMMA Asked ==
  ASSUME PushInv, NEW q \in PushQuestions, AskOne(q) \/ AskInBatch(q) \/ ResolveAsked(q) \/ WithdrawAsked(q)
  PROVE  PushInv'
<1> DEFINE Sent(kind) ==
      {[kind |-> kind, question |-> q, device |-> a[1], to |-> a[2]] : a \in addresses}
<1>1. /\ addresses \subseteq (Devices \X Nat) /\ pushes \subseteq Messages
      /\ asked \in [PushQuestions -> AskStates]
      /\ \A a \in addresses : a[2] \in 1..given
      /\ onDevice \in [Devices -> SUBSET PushQuestions]
      /\ excused \subseteq (Devices \X PushQuestions)
  BY DEF PushInv, PushTypeOk, AddressesGiven, AskStates
<1>2. PICK kind \in {"created", "resolved"}, status \in {"pending", "resolved", "withdrawn"} :
        /\ asked' = [asked EXCEPT ![q] = status]
        /\ pushes' = pushes \cup Sent(kind) \/ (status # "resolved" /\ UNCHANGED pushes)
        /\ \/ asked[q] = "none" /\ status = "pending" /\ UNCHANGED excused
           \/ asked[q] = "pending" /\ status = "withdrawn" /\ UNCHANGED excused
           \/ /\ asked[q] = "pending" /\ status = "resolved" /\ kind = "resolved"
              /\ excused' = excused \cup ({d \in Devices : Unserved(d)} \X {q})
        /\ UNCHANGED <<addresses, deviceState, onDevice, fcmAccount, pushFaults>>
  <2>1. CASE AskOne(q)
    BY <2>1 DEF AskOne, Fanout
  <2>2. CASE AskInBatch(q)
    BY <2>2 DEF AskInBatch
  <2>3. CASE ResolveAsked(q)
    BY <2>3 DEF ResolveAsked, Fanout
  <2>4. CASE WithdrawAsked(q)
    BY <2>4 DEF WithdrawAsked
  <2>5. QED
    BY <2>1, <2>2, <2>3, <2>4
<1>3. /\ UNCHANGED <<addresses, live, given, tab, control, tokenUploads, abandoned, onDevice, fcmAccount, pushFaults>>
      /\ excused \subseteq excused' /\ excused' \subseteq (Devices \X PushQuestions)
      /\ asked' \in [PushQuestions -> AskStates] /\ asked'[q] = status
      /\ \A x \in PushQuestions : x # q => asked'[x] = asked[x]
      /\ pushes \subseteq pushes' /\ pushes' \subseteq pushes \cup Sent(kind)
  BY <1>1, <1>2 DEF deviceState, AskStates
<1>4. ASSUME NEW m \in Sent(kind)
      PROVE  /\ m \in Messages /\ <<m.device, m.to>> \in addresses /\ m.to \in 1..given
             /\ m.question = q /\ m.kind = kind
  <2>1. PICK a \in addresses : m = [kind |-> kind, question |-> q, device |-> a[1], to |-> a[2]]
    OBVIOUS
  <2>2. a[1] \in Devices /\ a[2] \in Nat /\ a = <<a[1], a[2]>>
    BY <1>1
  <2>3. QED
    BY <1>1, <2>1, <2>2 DEF Messages
<1>5. PushTypeOk'
  BY <1>1, <1>3, <1>4 DEF PushInv, PushTypeOk, AskStates
<1>6. AddressesGiven'
  <2>1. ASSUME NEW m \in pushes' PROVE m.to \in 1..given' /\ asked'[m.question] # "none"
    <3>1. CASE m \in pushes
      <4>1. m.question \in PushQuestions /\ asked[m.question] # "none" /\ m.to \in 1..given
        BY <1>1, <3>1 DEF PushInv, AddressesGiven, Messages
      <4>2. QED
        BY <1>3, <4>1
    <3>2. CASE m \in Sent(kind)
      BY <1>3, <1>4, <3>2
    <3>3. QED
      BY <1>3, <2>1, <3>1, <3>2
  <2>2. QED
    BY <1>3, <2>1 DEF PushInv, AddressesGiven
<1>7. LiveKnown'
  <2>1. \A d \in Devices : Reached(d) => Reached(d)'
    BY <1>3 DEF Reached, Known, Unserved
  <2>2. ASSUME NEW m \in pushes', m.to = live'[m.device] PROVE Reached(m.device)'
    <3>1. CASE m \in pushes
      BY <1>1, <1>3, <2>1, <2>2, <3>1 DEF PushInv, LiveKnown, Messages
    <3>2. CASE m \in Sent(kind)
      BY <1>3, <1>4, <2>2, <3>2 DEF Reached, Known
    <3>3. QED
      BY <1>3, <2>2, <3>1, <3>2
  <2>3. live'["browser"] = 0 \/ Reached("browser")' \/ TabHolds(live["browser"])'
    BY <1>3, <2>1, TabFacts, TabTypes DEF TabHolds
  <2>4. live'["phone"] \in tokenUploads' \cup {0} \/ Reached("phone")'
    BY <1>3, <2>1, TabFacts, TabTypes
  <2>5. \A d \in Devices : \A x \in onDevice'[d] : <<d, x>> \in excused' \/ Reached(d)'
    BY <1>3, <2>1 DEF PushInv, LiveKnown
  <2>6. QED
    BY <2>2, <2>3, <2>4, <2>5 DEF LiveKnown
<1>8. ASSUME NEW d, NEW x, Closing(d, x) PROVE Closing(d, x)'
  BY <1>3, <1>8 DEF Closing
<1>9. ASSUME NEW d \in Devices, status = "resolved", Reached(d) PROVE Closing(d, q)'
  <2> SUFFICES ASSUME Known(d, live[d]) PROVE Closing(d, q)'
    BY <1>2, <1>3, <1>9 DEF Reached, Closing
  <2>1. [kind |-> "resolved", question |-> q, device |-> d, to |-> live[d]] \in Sent("resolved")
    BY <1>9 DEF Known
  <2>2. pushes' = pushes \cup Sent("resolved")
    BY <1>2, <1>9
  <2>3. PICK m \in pushes' : m = [kind |-> "resolved", question |-> q, device |-> d, to |-> live[d]]
    BY <2>1, <2>2
  <2>4. m.kind = "resolved" /\ m.question = q /\ m.device = d /\ m.to = live'[d]
    BY <1>3, <2>3
  <2>5. QED
    BY <2>4 DEF Closing
<1>10. Closed'
  <2>1. ASSUME NEW d \in Devices, NEW x \in onDevice'[d] PROVE asked'[x] \in Open \/ Closing(d, x)'
    <3>1. x \in onDevice[d] /\ x \in PushQuestions
      BY <1>1, <1>3, <2>1
    <3>2. CASE x # q \/ status # "resolved"
      BY <1>2, <1>3, <1>8, <3>1, <3>2 DEF PushInv, Closed, Open
    <3>3. CASE x = q /\ status = "resolved"
      <4>1. <<d, q>> \in excused \/ Reached(d)
        BY <3>1, <3>3 DEF PushInv, LiveKnown
      <4>2. QED
        BY <1>3, <1>9, <3>3, <4>1 DEF Closing
    <3>4. QED
      BY <3>2, <3>3
  <2>2. ASSUME NEW m \in pushes', m.kind = "created", m.to = live'[m.device]
        PROVE  asked'[m.question] \in Open \/ Closing(m.device, m.question)'
    <3>1. CASE m \in pushes
      <4>1. m.question \in PushQuestions /\ m.device \in Devices /\ m.to = live[m.device]
        BY <1>1, <1>3, <2>2, <3>1 DEF Messages
      <4>2. CASE m.question # q \/ status # "resolved"
        BY <1>2, <1>3, <1>8, <2>2, <3>1, <4>1, <4>2 DEF PushInv, Closed, Open
      <4>3. CASE m.question = q /\ status = "resolved"
        <5>1. Reached(m.device)
          BY <3>1, <4>1 DEF PushInv, LiveKnown
        <5>2. QED
          BY <1>9, <4>1, <4>3, <5>1
      <4>4. QED
        BY <4>2, <4>3
    <3>2. CASE m \in Sent(kind)
      BY <1>2, <1>3, <1>4, <2>2, <3>2 DEF Open
    <3>3. QED
      BY <1>3, <2>2, <3>1, <3>2
  <2>3. QED
    BY <2>1, <2>2 DEF Closed
<1>11. QED
  BY <1>5, <1>6, <1>7, <1>10 DEF PushInv

LEMMA MessageArrives ==
  ASSUME PushInv, NEW m \in pushes, Deliver(m) \/ SendFails(m)
  PROVE  PushInv'
<1>1. /\ m.device \in Devices /\ m.question \in PushQuestions /\ m.kind \in {"created", "resolved"}
      /\ \A x \in pushes : x.device \in Devices
      /\ excused \subseteq (Devices \X PushQuestions) /\ onDevice \in [Devices -> SUBSET PushQuestions]
      /\ pushFaults \in Nat
  BY DEF PushInv, PushTypeOk, Messages
<1>2. /\ UNCHANGED <<addresses, deviceState, asked, fcmAccount, live>> /\ pushes' = pushes \ {m}
      /\ pushFaults' \in Nat
      /\ excused' \in {excused, excused \cup {<<m.device, m.question>>}}
  BY <1>1 DEF Deliver, SendFails, Fault, deviceState
<1>3. CASE Deliver(m)
  <2>1. /\ m.to = live[m.device]
        /\ onDevice' = [onDevice EXCEPT ![m.device] = IF m.kind = "created" THEN @ \cup {m.question}
                                                      ELSE @ \ {m.question}]
        /\ Overtakes(m) => <<m.device, m.question>> \in excused'
    BY <1>3 DEF Deliver
  <2>2. /\ onDevice' \in [Devices -> SUBSET PushQuestions]
        /\ \A d \in Devices : \A q \in onDevice'[d] :
             \/ q \in onDevice[d] /\ ~(m.kind = "resolved" /\ d = m.device /\ q = m.question)
             \/ m.kind = "created" /\ d = m.device /\ q = m.question
    BY <1>1, <2>1
  <2>3. ASSUME NEW d \in Devices, NEW q, Closing(d, q),
               ~(m.kind = "resolved" /\ d = m.device /\ q = m.question)
        PROVE  Closing(d, q)'
    <3>1. CASE <<d, q>> \in excused
      BY <1>2, <3>1 DEF Closing
    <3>2. CASE \E x \in pushes : x.kind = "resolved" /\ x.question = q /\ x.device = d /\ x.to = live[d]
      <4>1. PICK x \in pushes : x.kind = "resolved" /\ x.question = q /\ x.device = d /\ x.to = live[d]
        BY <3>2
      <4>2. x \in pushes' /\ live' = live
        BY <1>2, <2>3, <4>1
      <4>3. QED
        BY <4>1, <4>2 DEF Closing
    <3>3. QED
      BY <2>3, <3>1, <3>2 DEF Closing
  <2>4. ASSUME NEW d \in Devices, NEW q \in onDevice'[d] PROVE <<d, q>> \in excused \/ Reached(d)
    <3>1. CASE q \in onDevice[d]
      BY <3>1 DEF PushInv, LiveKnown
    <3>2. CASE d = m.device
      <4>1. Reached(m.device)
        BY <2>1 DEF PushInv, LiveKnown
      <4>2. QED
        BY <2>1, <3>2, <4>1
    <3>3. QED
      BY <2>2, <2>4, <3>1, <3>2
  <2>5. ASSUME NEW d \in Devices, NEW q \in onDevice'[d] PROVE asked[q] \in Open \/ Closing(d, q)'
    <3>1. asked[q] \in Open \/ Closing(d, q)
      BY <2>1, <2>2, <2>5 DEF PushInv, Closed
    <3>2. ~(m.kind = "resolved" /\ d = m.device /\ q = m.question)
      BY <2>2, <2>5
    <3>3. QED
      BY <2>3, <3>1, <3>2
  <2>6. ASSUME NEW x \in pushes', x.kind = "created", x.to = live[x.device]
        PROVE  asked[x.question] \in Open \/ Closing(x.device, x.question)'
    <3>1. x \in pushes /\ x.device \in Devices
      BY <1>1, <1>2, <2>6
    <3>2. asked[x.question] \in Open \/ Closing(x.device, x.question)
      BY <2>6, <3>1 DEF PushInv, Closed
    <3>3. CASE m.kind = "resolved" /\ x.device = m.device /\ x.question = m.question
      <4>1. Overtakes(m)
        BY <2>1, <2>6, <3>1, <3>3 DEF Overtakes
      <4>2. QED
        BY <2>1, <3>3, <4>1 DEF Closing
    <3>4. QED
      BY <2>3, <3>1, <3>2, <3>3
  <2>7. QED
    BY <1>1, <1>2, <2>2, <2>4, <2>5, <2>6, DevicesMove
<1>4. CASE SendFails(m)
  <2>1. onDevice' = onDevice /\ (m.kind = "resolved" => <<m.device, m.question>> \in excused')
    BY <1>4 DEF SendFails
  <2>2. ASSUME NEW d \in Devices, NEW q, Closing(d, q) PROVE Closing(d, q)'
    <3>1. CASE <<d, q>> \in excused
      BY <1>2, <3>1 DEF Closing
    <3>2. CASE \E x \in pushes : x.kind = "resolved" /\ x.question = q /\ x.device = d /\ x.to = live[d]
      <4>1. PICK x \in pushes : x.kind = "resolved" /\ x.question = q /\ x.device = d /\ x.to = live[d]
        BY <3>2
      <4>2. CASE x = m
        BY <2>1, <4>1, <4>2 DEF Closing
      <4>3. CASE x # m
        BY <1>2, <4>1, <4>3 DEF Closing
      <4>4. QED
        BY <4>2, <4>3
    <3>3. QED
      BY <2>2, <3>1, <3>2 DEF Closing
  <2>3. \A d \in Devices : \A q \in onDevice'[d] : <<d, q>> \in excused \/ Reached(d)
    BY <2>1 DEF PushInv, LiveKnown
  <2>4. \A d \in Devices : \A q \in onDevice'[d] : asked[q] \in Open \/ Closing(d, q)'
    BY <2>1, <2>2 DEF PushInv, Closed
  <2>5. \A x \in pushes' :
          x.kind = "created" /\ x.to = live[x.device] =>
            asked[x.question] \in Open \/ Closing(x.device, x.question)'
    BY <1>1, <1>2, <2>2 DEF PushInv, Closed
  <2>6. QED
    BY <1>1, <1>2, <2>1, <2>3, <2>4, <2>5, DevicesMove
<1>5. QED
  BY <1>3, <1>4

LEMMA TabActs ==
  ASSUME PushInv, NEW t \in Tabs,
         \/ RefreshControl(t) \/ RefreshFails(t) \/ Save(t) \/ SaveReturns(t) \/ SaveFails(t)
         \/ TabEnds(t) \/ Delete(t) \/ DeleteFails(t)
  PROVE  PushInv'
<1> USE DEF messageState
<1>1. /\ tab \in [Tabs -> TabStates] /\ control \in [Tabs -> Controls] /\ pushFaults \in Nat
      /\ abandoned \subseteq (Devices \X (1..given)) /\ given \in Nat /\ live \in [Devices -> Nat]
      /\ Idle \in TabStates /\ Idle.stage = "idle" /\ fcmAccount \in {"unread", "read", "unusable"}
      /\ addresses \subseteq (Devices \X Nat) /\ tokenUploads \subseteq 1..given
      /\ Devices = {"browser", "phone"} /\ excused \subseteq (Devices \X PushQuestions)
  BY TabTypes
<1>2. \A x \in Tabs :
        /\ tab[x].stage # "idle" => tab[x].address \in 1..given
        /\ tab[x].stage = "deleting" => tab[x].address # live["browser"]
  BY TabFacts
<1>3. /\ live["browser"] = 0 \/ Reached("browser") \/ TabHolds(live["browser"])
      /\ live["phone"] \in tokenUploads \cup {0} \/ Reached("phone")
  BY TabFacts
<1>4. CASE RefreshControl(t) \/ RefreshFails(t)
  <2>1. /\ UNCHANGED <<addresses, live, given, tab, messageState, fcmAccount, abandoned>>
        /\ control' \in [Tabs -> Controls] /\ pushFaults' \in Nat /\ UNCHANGED tokenUploads
    BY <1>1, <1>4 DEF RefreshControl, RefreshFails, Fault, Controls
  <2>2. /\ \A d \in Devices : Reached(d) => Reached(d)'
        /\ live["phone"] \in tokenUploads' \cup {0} \/ Reached("phone")'
        /\ live["browser"] = 0 \/ Reached("browser")' \/ TabHolds(live["browser"])'
    BY <1>1, <1>3, <2>1 DEF Reached, Known, Unserved, TabHolds
  <2>3. QED
    BY <1>1, <1>2, <2>1, <2>2, TabsMove
<1>5. CASE Save(t)
  <2>1. /\ tab[t].stage = "saving"
        /\ addresses' = addresses \cup {<<"browser", tab[t].address>>}
        /\ abandoned' = abandoned \ {<<"browser", tab[t].address>>}
        /\ tab' = [tab EXCEPT ![t].stage = "saved"]
        /\ UNCHANGED <<live, given, control, messageState, fcmAccount, pushFaults, tokenUploads>>
    BY <1>5 DEF Save
  <2>2. /\ tab' \in [Tabs -> TabStates] /\ tab'[t].stage = "saved" /\ tab'[t].address = tab[t].address
        /\ \A x \in Tabs : x # t => tab'[x] = tab[x]
    BY <2>1, StageSet DEF PushInv
  <2>3. tab[t].address \in 1..given
    BY <1>2, <2>1
  <2>4. /\ addresses' \subseteq addresses \cup (Devices \X (1..given))
        /\ abandoned' \subseteq (Devices \X (1..given))
        /\ \A d \in Devices : Reached(d) => Reached(d)'
        /\ live["phone"] \in tokenUploads' \cup {0} \/ Reached("phone")'
    BY <1>1, <1>3, <2>1, <2>3 DEF Reached, Known, Unserved
  <2>5. \A x \in Tabs :
          /\ tab'[x].stage # "idle" => tab'[x].address \in 1..given
          /\ tab'[x].stage = "deleting" => tab'[x].address # live["browser"]
    BY <1>2, <2>2, <2>3
  <2>6. live["browser"] = 0 \/ Reached("browser")' \/ TabHolds(live["browser"])'
    <3>1. CASE live["browser"] = tab[t].address
      BY <2>1, <3>1 DEF Reached, Known
    <3>2. CASE live["browser"] # tab[t].address
      <4>1. TabHolds(live["browser"]) => TabHolds(live["browser"])'
        BY <2>1, <2>2, <3>2 DEF TabHolds
      <4>2. QED
        BY <1>1, <1>3, <2>4, <4>1
    <3>3. QED
      BY <3>1, <3>2
  <2>7. QED
    BY <1>1, <2>1, <2>2, <2>4, <2>5, <2>6, TabsMove
<1>6. CASE SaveReturns(t)
  <2>1. /\ tab[t].stage = "saved" /\ tab' = [tab EXCEPT ![t] = Idle]
        /\ control' = [control EXCEPT ![t] = "subscribed"]
        /\ UNCHANGED <<addresses, live, given, messageState, fcmAccount, pushFaults, abandoned, tokenUploads>>
    BY <1>6 DEF SaveReturns
  <2>2. /\ tab' \in [Tabs -> TabStates] /\ tab'[t] = Idle /\ \A x \in Tabs : x # t => tab'[x] = tab[x]
    BY <1>1, <2>1, TabSet DEF PushInv
  <2>3. control' \in [Tabs -> Controls]
    BY <1>1, <2>1 DEF Controls
  <2>4. /\ \A x \in Tabs :
             /\ tab'[x].stage # "idle" => tab'[x].address \in 1..given
             /\ tab'[x].stage = "deleting" => tab'[x].address # live["browser"]
        /\ live["browser"] = 0 \/ Reached("browser")' \/ TabHolds(live["browser"])'
        /\ live["phone"] \in tokenUploads' \cup {0} \/ Reached("phone")'
        /\ \A d \in Devices : Reached(d) => Reached(d)'
    <3>1. \A d \in Devices : Reached(d) => Reached(d)'
      BY <2>1 DEF Reached, Known, Unserved
    <3>2. TabHolds(live["browser"]) => Reached("browser")' \/ TabHolds(live["browser"])'
      BY <1>1, <2>1, <2>2 DEF TabHolds, Reached, Known, Unserved
    <3>3. QED
      BY <1>1, <1>2, <1>3, <2>1, <2>2, <3>1, <3>2
  <2>5. QED
    BY <1>1, <2>1, <2>2, <2>3, <2>4, TabsMove
<1>7. CASE SaveFails(t)
  <2>1. /\ tab[t].stage \in {"saving", "saved"} /\ tab' = [tab EXCEPT ![t].stage = "rollback"]
        /\ pushFaults' \in Nat
        /\ UNCHANGED <<addresses, live, given, control, messageState, fcmAccount, abandoned, tokenUploads>>
    BY <1>1, <1>7 DEF SaveFails, Fault
  <2>2. /\ tab' \in [Tabs -> TabStates] /\ tab'[t].stage = "rollback" /\ tab'[t].address = tab[t].address
        /\ \A x \in Tabs : x # t => tab'[x] = tab[x]
    BY <2>1, StageSet DEF PushInv
  <2>3. /\ \A x \in Tabs :
             /\ tab'[x].stage # "idle" => tab'[x].address \in 1..given
             /\ tab'[x].stage = "deleting" => tab'[x].address # live["browser"]
        /\ live["browser"] = 0 \/ Reached("browser")' \/ TabHolds(live["browser"])'
        /\ live["phone"] \in tokenUploads' \cup {0} \/ Reached("phone")'
        /\ \A d \in Devices : Reached(d) => Reached(d)'
    <3>1. \A d \in Devices : Reached(d) => Reached(d)'
      BY <2>1 DEF Reached, Known, Unserved
    <3>2. TabHolds(live["browser"]) => Reached("browser")' \/ TabHolds(live["browser"])'
      BY <1>1, <2>1, <2>2 DEF TabHolds, Reached, Known, Unserved
    <3>3. QED
      BY <1>1, <1>2, <1>3, <2>1, <2>2, <3>1, <3>2
  <2>4. QED
    BY <1>1, <2>1, <2>2, <2>3, TabsMove
<1>8. CASE TabEnds(t)
  <2>1. /\ tab[t].stage # "idle" /\ tab' = [tab EXCEPT ![t] = Idle]
        /\ abandoned' = abandoned \cup ({<<"browser", tab[t].address>>} \ addresses)
        /\ control' = [control EXCEPT ![t] = "checking"] /\ pushFaults' \in Nat
        /\ UNCHANGED <<addresses, live, given, messageState, fcmAccount, tokenUploads>>
    BY <1>1, <1>8 DEF TabEnds, Fault
  <2>2. /\ tab' \in [Tabs -> TabStates] /\ tab'[t] = Idle /\ \A x \in Tabs : x # t => tab'[x] = tab[x]
    BY <1>1, <2>1, TabSet DEF PushInv
  <2>3. control' \in [Tabs -> Controls] /\ abandoned' \subseteq (Devices \X (1..given))
    <3>1. tab[t].address \in 1..given
      BY <1>2, <2>1
    <3>2. QED
      BY <1>1, <2>1, <3>1 DEF Controls
  <2>4. /\ \A x \in Tabs :
             /\ tab'[x].stage # "idle" => tab'[x].address \in 1..given
             /\ tab'[x].stage = "deleting" => tab'[x].address # live["browser"]
        /\ live["browser"] = 0 \/ Reached("browser")' \/ TabHolds(live["browser"])'
        /\ live["phone"] \in tokenUploads' \cup {0} \/ Reached("phone")'
        /\ \A d \in Devices : Reached(d) => Reached(d)'
    <3>1. \A d \in Devices : Reached(d) => Reached(d)'
      BY <2>1 DEF Reached, Known, Unserved
    <3>2. TabHolds(live["browser"]) => Reached("browser")' \/ TabHolds(live["browser"])'
      BY <1>1, <2>1, <2>2 DEF TabHolds, Reached, Known, Unserved
    <3>3. QED
      BY <1>1, <1>2, <1>3, <2>1, <2>2, <3>1, <3>2
  <2>5. QED
    BY <1>1, <2>1, <2>2, <2>3, <2>4, TabsMove
<1>9. CASE Delete(t) \/ DeleteFails(t)
  <2>1. /\ tab[t].stage = "deleting" /\ tab' = [tab EXCEPT ![t] = Idle]
        /\ addresses' \in {addresses, addresses \ {<<"browser", tab[t].address>>}}
        /\ control' \in [Tabs -> Controls] /\ pushFaults' \in Nat
        /\ UNCHANGED <<live, given, messageState, fcmAccount, abandoned, tokenUploads>>
    BY <1>1, <1>9 DEF Delete, DeleteFails, Fault, Controls
  <2>2. /\ tab' \in [Tabs -> TabStates] /\ tab'[t] = Idle /\ \A x \in Tabs : x # t => tab'[x] = tab[x]
    BY <1>1, <2>1, TabSet DEF PushInv
  <2>3. /\ addresses' \subseteq addresses \cup (Devices \X (1..given))
        /\ \A d \in Devices : Reached(d) => Reached(d)'
    <3>1. tab[t].address # live["browser"]
      BY <1>2, <2>1
    <3>2. QED
      BY <1>1, <2>1, <3>1 DEF Reached, Known, Unserved
  <2>4. /\ \A x \in Tabs :
             /\ tab'[x].stage # "idle" => tab'[x].address \in 1..given
             /\ tab'[x].stage = "deleting" => tab'[x].address # live["browser"]
        /\ live["browser"] = 0 \/ Reached("browser")' \/ TabHolds(live["browser"])'
        /\ live["phone"] \in tokenUploads' \cup {0} \/ Reached("phone")'
    <3>1. TabHolds(live["browser"]) => TabHolds(live["browser"])'
      BY <1>1, <2>1, <2>2 DEF TabHolds
    <3>2. QED
      BY <1>1, <1>2, <1>3, <2>1, <2>2, <2>3, <3>1
  <2>5. QED
    BY <1>1, <2>1, <2>2, <2>3, <2>4, TabsMove
<1>10. QED
  BY <1>4, <1>5, <1>6, <1>7, <1>8, <1>9

LEMMA AddressActs ==
  ASSUME PushInv, NEW t \in Tabs, Enable(t) \/ RollBack(t) \/ Disable(t)
  PROVE  PushInv'
<1>1. /\ tab \in [Tabs -> TabStates] /\ control \in [Tabs -> Controls] /\ pushFaults \in Nat
      /\ abandoned \subseteq (Devices \X (1..given)) /\ given \in Nat /\ live \in [Devices -> Nat]
      /\ Idle \in TabStates /\ Idle.stage = "idle" /\ fcmAccount \in {"unread", "read", "unusable"}
      /\ addresses \subseteq (Devices \X Nat) /\ tokenUploads \subseteq 1..given
      /\ Devices = {"browser", "phone"} /\ excused \subseteq (Devices \X PushQuestions)
  BY TabTypes
<1>2. /\ \A x \in Tabs :
           /\ tab[x].stage # "idle" => tab[x].address \in 1..given
           /\ tab[x].stage = "deleting" => tab[x].address # live["browser"]
      /\ live["browser"] \in 0..given
  BY <1>1 DEF PushInv, AddressesGiven
<1>3. CASE Enable(t)
  <2>1. /\ tab[t] = Idle
        /\ tab' = [tab EXCEPT ![t] = [stage |-> "saving", address |-> live'["browser"]]]
        /\ UNCHANGED <<addresses, control, messageState, fcmAccount, pushFaults, abandoned, tokenUploads>>
    BY <1>3 DEF Enable
  <2>2. CASE live["browser"] # 0 /\ UNCHANGED <<live, given>>
    <3>1. [stage |-> "saving", address |-> live'["browser"]] \in TabStates
      BY <1>1, <2>2 DEF TabStates
    <3>2. /\ tab' \in [Tabs -> TabStates] /\ tab'[t] = [stage |-> "saving", address |-> live'["browser"]]
          /\ \A x \in Tabs : x # t => tab'[x] = tab[x]
      BY <2>1, <3>1, TabSet DEF PushInv
    <3>3. tab'[t].stage = "saving" /\ tab'[t].address = live["browser"] /\ live["browser"] \in 1..given
      BY <1>1, <1>2, <2>2, <3>2
    <3>4. /\ \A x \in Tabs :
               /\ tab'[x].stage # "idle" => tab'[x].address \in 1..given
               /\ tab'[x].stage = "deleting" => tab'[x].address # live["browser"]
          /\ TabHolds(live["browser"])'
      BY <1>2, <2>2, <3>2, <3>3 DEF TabHolds
    <3>5. /\ \A d \in Devices : Reached(d) => Reached(d)'
          /\ live["phone"] \in tokenUploads' \cup {0} \/ Reached("phone")'
      BY <1>1, <2>1, <2>2, TabFacts DEF Reached, Known, Unserved
    <3>6. QED
      BY <1>1, <2>1, <2>2, <3>2, <3>4, <3>5, TabsMove DEF messageState
  <2>3. CASE live["browser"] = 0 /\ given' = given + 1 /\ live' = [live EXCEPT !["browser"] = given']
    <3>1. live'["browser"] = given + 1 /\ given + 1 \in Nat
      BY <1>1, <2>3
    <3>2. [stage |-> "saving", address |-> given + 1] \in TabStates
      BY <3>1 DEF TabStates
    <3>3. /\ tab' \in [Tabs -> TabStates] /\ tab'[t] = [stage |-> "saving", address |-> given + 1]
          /\ \A x \in Tabs : x # t => tab'[x] = tab[x]
      BY <2>1, <3>1, <3>2, TabSet DEF PushInv
    <3>4. /\ \A x \in Tabs :
               /\ tab'[x].stage # "idle" => tab'[x].address \in 1..given'
               /\ tab'[x].stage = "deleting" => tab'[x].address \in 1..given
          /\ \E x \in Tabs : tab'[x].stage = "saving" /\ tab'[x].address = given + 1
      BY <1>1, <1>2, <2>3, <3>3
    <3>5. tokenUploads' \subseteq 1..given' /\ abandoned' \subseteq (Devices \X (1..given'))
      BY <1>1, <2>1, <2>3
    <3>6. QED
      BY <1>1, <2>1, <2>3, <3>1, <3>3, <3>4, <3>5, AddressChanges DEF messageState
  <2>4. QED
    BY <1>3, <2>2, <2>3 DEF Enable
<1>4. ASSUME NEW h \in TabStates, Unsubscribed, tab' = [tab EXCEPT ![t] = h] \/ UNCHANGED tab,
             h.stage # "idle" => h.address \in 1..given,
             control' \in [Tabs -> Controls],
             UNCHANGED <<addresses, given, asked, pushes, onDevice, fcmAccount, pushFaults, abandoned,
                         tokenUploads>>
      PROVE  PushInv'
  <2>1. /\ tab' \in [Tabs -> TabStates]
        /\ \A x \in Tabs :
             /\ tab'[x].stage # "idle" => tab'[x].address \in 1..given
             /\ tab'[x].stage = "deleting" => tab'[x].address \in 1..given
    <3>1. \A x \in Tabs : tab'[x] \in {tab[x], h}
      BY <1>1, <1>4
    <3>2. tab' \in [Tabs -> TabStates]
      BY <1>1, <1>4
    <3>3. QED
      BY <1>2, <1>4, <3>1, <3>2
  <2>2. QED
    BY <1>1, <1>4, <2>1, AddressChanges DEF Unsubscribed
<1>5. CASE RollBack(t)
  <2>1. control' \in [Tabs -> Controls]
    BY <1>1, <1>5 DEF RollBack, Controls
  <2>2. QED
    BY <1>1, <1>4, <1>5, <2>1 DEF RollBack
<1>6. CASE Disable(t)
  <2>1. control' \in [Tabs -> Controls]
    BY <1>1, <1>6 DEF Disable, Controls
  <2>2. CASE live["browser"] # 0 /\ tab' = [tab EXCEPT ![t] = [stage |-> "deleting", address |-> live["browser"]]]
    <3>1. [stage |-> "deleting", address |-> live["browser"]] \in TabStates /\ live["browser"] \in 1..given
      BY <1>1, <1>2, <2>2 DEF TabStates
    <3>2. QED
      BY <1>4, <1>6, <2>1, <2>2, <3>1 DEF Disable
  <2>3. CASE UNCHANGED tab
    BY <1>1, <1>4, <1>6, <2>1, <2>3 DEF Disable
  <2>4. QED
    BY <1>6, <2>2, <2>3 DEF Disable
<1>7. QED
  BY <1>3, <1>5, <1>6

\* The phone uploads its token, or the service disowns it, or an address is gone.
LEMMA PhoneActs ==
  ASSUME PushInv, \/ RegisterToken \/ \E a \in tokenUploads : SaveToken(a) \/ SaveTokenFails(a)
                  \/ \E m \in pushes : Gone(m) \/ Disown(m)
  PROVE  PushInv'
<1> USE DEF messageState
<1>1. /\ tab \in [Tabs -> TabStates] /\ control \in [Tabs -> Controls] /\ pushFaults \in Nat
      /\ abandoned \subseteq (Devices \X (1..given)) /\ given \in Nat /\ live \in [Devices -> Nat]
      /\ fcmAccount \in {"unread", "read", "unusable"} /\ pushes \subseteq Messages
      /\ tokenUploads \subseteq 1..given /\ Devices = {"browser", "phone"}
      /\ excused \subseteq (Devices \X PushQuestions)
  BY TabTypes
<1>2. /\ \A x \in Tabs :
           /\ tab[x].stage # "idle" => tab[x].address \in 1..given
           /\ tab[x].stage = "deleting" => tab[x].address # live["browser"]
      /\ \A m \in pushes : m.to \in 1..given
      /\ live["browser"] = 0 \/ Reached("browser") \/ TabHolds(live["browser"])
      /\ live["phone"] \in tokenUploads \cup {0} \/ Reached("phone")
      /\ live["phone"] \in 0..given
  BY <1>1, TabFacts DEF PushInv, AddressesGiven
<1>3. CASE RegisterToken
  <2>1. /\ tokenUploads' = tokenUploads \cup {live["phone"]} /\ live["phone"] # 0
        /\ UNCHANGED <<addresses, live, given, tab, control, messageState, fcmAccount, pushFaults, abandoned>>
    BY <1>3 DEF RegisterToken
  <2>2. /\ tokenUploads' \subseteq 1..given /\ \A d \in Devices : Reached(d) => Reached(d)'
        /\ live["browser"] = 0 \/ Reached("browser")' \/ TabHolds(live["browser"])'
        /\ live["phone"] \in tokenUploads' \cup {0}
    <3>1. live["phone"] \in 1..given
      BY <1>1, <1>2, <2>1
    <3>2. tokenUploads' \subseteq 1..given /\ live["phone"] \in tokenUploads' \cup {0}
      BY <1>1, <2>1, <3>1
    <3>3. \A d \in Devices : Reached(d) => Reached(d)'
      BY <2>1 DEF Reached, Known, Unserved
    <3>4. TabHolds(live["browser"]) => TabHolds(live["browser"])'
      BY <2>1 DEF TabHolds
    <3>5. QED
      BY <1>1, <1>2, <3>2, <3>3, <3>4
  <2>3. /\ UNCHANGED <<live, given, asked, onDevice, pushes, excused, fcmAccount, pushFaults, addresses, tab,
                       control, abandoned>>
        /\ addresses' \subseteq addresses \cup (Devices \X (1..given))
        /\ abandoned' \subseteq (Devices \X (1..given))
        /\ excused \subseteq excused' /\ excused' \subseteq (Devices \X PushQuestions)
        /\ pushes' \subseteq pushes /\ \A m \in pushes : m \in pushes'
        /\ tab' \in [Tabs -> TabStates] /\ control' \in [Tabs -> Controls] /\ pushFaults' \in Nat
        /\ fcmAccount' \in {"unread", "read", "unusable"}
    BY <1>1, <2>1
  <2>4. /\ \A x \in Tabs :
             /\ tab'[x].stage # "idle" => tab'[x].address \in 1..given
             /\ tab'[x].stage = "deleting" => tab'[x].address # live["browser"]
        /\ live["phone"] \in tokenUploads' \cup {0} \/ Reached("phone")'
    BY <1>2, <2>2, <2>3
  <2>5. QED
    BY <2>2, <2>3, <2>4, TabsMove
<1>4. ASSUME NEW a \in tokenUploads, SaveToken(a) \/ SaveTokenFails(a) PROVE PushInv'
  <2>1. /\ tokenUploads' = tokenUploads \ {a} /\ pushFaults' \in Nat /\ a \in 1..given
        /\ UNCHANGED <<live, given, tab, control, messageState, fcmAccount>>
        /\ addresses' \subseteq addresses \cup {<<"phone", a>>} /\ addresses \subseteq addresses'
        /\ abandoned' \subseteq abandoned \cup {<<"phone", a>>}
        /\ abandoned \subseteq abandoned' \cup {<<"phone", a>>}
        /\ <<"phone", a>> \in addresses' \cup abandoned'
    BY <1>1, <1>4 DEF SaveToken, SaveTokenFails, Fault
  <2>2. \A d \in Devices : Reached(d) => Reached(d)'
    BY <2>1 DEF Reached, Known, Unserved
  <2>3. live["browser"] = 0 \/ Reached("browser")' \/ TabHolds(live["browser"])'
    BY <1>1, <1>2, <2>1, <2>2 DEF TabHolds
  <2>4. live["phone"] \in tokenUploads' \cup {0} \/ Reached("phone")'
    BY <1>1, <1>2, <2>1, <2>2 DEF Reached, Known, Unserved
  <2>5. /\ tokenUploads' \subseteq 1..given /\ abandoned' \subseteq (Devices \X (1..given))
        /\ addresses' \subseteq addresses \cup (Devices \X (1..given))
    <3>1. {<<"phone", a>>} \subseteq (Devices \X (1..given))
      BY <1>1, <2>1
    <3>2. QED
      BY <1>1, <2>1, <3>1
  <2>6. QED
    BY <1>1, <1>2, <2>1, <2>2, <2>3, <2>4, <2>5, TabsMove
<1>5. ASSUME NEW m \in pushes, Gone(m) \/ Disown(m) PROVE PushInv'
  <2>1. /\ m.device \in Devices /\ m.question \in PushQuestions /\ m.to \in 1..given
        /\ pushes' = pushes \ {m} /\ addresses' = addresses \ {<<m.device, m.to>>} /\ pushFaults' \in Nat
        /\ UNCHANGED <<live, given, tab, control, tokenUploads, asked, onDevice, fcmAccount>>
        /\ abandoned \subseteq abandoned' /\ abandoned' \subseteq abandoned \cup {<<m.device, m.to>>}
        /\ excused \subseteq excused' /\ excused' \subseteq excused \cup {<<m.device, m.question>>}
        /\ m.to # live[m.device] \/ <<m.device, m.to>> \in abandoned'
        /\ m.to = live[m.device] /\ m.kind = "resolved" => <<m.device, m.question>> \in excused'
    BY <1>1, <1>2, <1>5 DEF Gone, Disown, Messages, Fault, deviceState
  <2>2. \A d \in Devices : Reached(d) => Reached(d)'
    BY <2>1 DEF Reached, Known, Unserved
  <2>3. /\ live["browser"] = 0 \/ Reached("browser")' \/ TabHolds(live["browser"])'
        /\ live["phone"] \in tokenUploads' \cup {0} \/ Reached("phone")'
    BY <1>1, <1>2, <2>1, <2>2 DEF TabHolds
  <2>4. /\ abandoned' \subseteq (Devices \X (1..given)) /\ excused' \subseteq (Devices \X PushQuestions)
        /\ addresses' \subseteq addresses \cup (Devices \X (1..given))
    BY <1>1, <2>1
  <2>5. QED
    BY <1>1, <1>2, <2>1, <2>2, <2>3, <2>4, TabsMove
<1>6. QED
  BY <1>3, <1>4, <1>5

LEMMA PushStep == PushInv /\ [PushNext]_pushVars => PushInv'
<1> SUFFICES ASSUME PushInv, [PushNext]_pushVars PROVE PushInv'
  OBVIOUS
<1>1. /\ tab \in [Tabs -> TabStates] /\ control \in [Tabs -> Controls] /\ pushFaults \in Nat
      /\ abandoned \subseteq (Devices \X (1..given)) /\ given \in Nat /\ live \in [Devices -> Nat]
      /\ fcmAccount \in {"unread", "read", "unusable"} /\ pushes \subseteq Messages
      /\ tokenUploads \subseteq 1..given /\ Devices = {"browser", "phone"}
      /\ excused \subseteq (Devices \X PushQuestions) /\ addresses \subseteq (Devices \X Nat)
  BY TabTypes
<1>2. /\ \A x \in Tabs :
           /\ tab[x].stage # "idle" => tab[x].address \in 1..given
           /\ tab[x].stage = "deleting" => tab[x].address # live["browser"]
      /\ live["browser"] = 0 \/ Reached("browser") \/ TabHolds(live["browser"])
      /\ live["phone"] \in tokenUploads \cup {0} \/ Reached("phone")
  BY <1>1, TabFacts
<1>4. ASSUME UNCHANGED <<addresses, deviceState, messageState>>,
             fcmAccount' \in {"unread", "read", "unusable"}, pushFaults' \in Nat
      PROVE  PushInv'
  <2>1. /\ \A d \in Devices : Reached(d) => Reached(d)'
        /\ live["browser"] = 0 \/ Reached("browser")' \/ TabHolds(live["browser"])'
        /\ live["phone"] \in tokenUploads' \cup {0} \/ Reached("phone")'
    BY <1>1, <1>2, <1>4 DEF deviceState, Reached, Known, Unserved, TabHolds
  <2>2. QED
    BY <1>1, <1>2, <1>4, <2>1, TabsMove DEF deviceState, messageState
<1>5. CASE NewToken
  <2>1. /\ given' = given + 1 /\ live' = [live EXCEPT !["phone"] = given']
        /\ abandoned \subseteq abandoned' /\ abandoned' \subseteq abandoned \cup {<<"phone", given + 1>>}
        /\ tokenUploads' \subseteq tokenUploads \cup {given + 1}
        /\ given + 1 \in tokenUploads' \/ <<"phone", given + 1>> \in abandoned'
        /\ excused' = excused \cup ({"phone"} \X onDevice["phone"])
        /\ UNCHANGED <<addresses, tab, control, asked, pushes, onDevice, fcmAccount, pushFaults>>
    BY <1>5 DEF NewToken
  <2>2. /\ given + 1 \in Nat /\ given + 1 # 0 /\ \A n \in 1..given : n \in 1..(given + 1)
        /\ given + 1 \in 1..(given + 1)
    BY <1>1
  <2>3. \A x \in Tabs :
          /\ tab'[x].stage # "idle" => tab'[x].address \in 1..given'
          /\ tab'[x].stage = "deleting" => tab'[x].address \in 1..given
    BY <1>2, <2>1, <2>2
  <2>4. abandoned' \subseteq (Devices \X (1..given')) /\ tokenUploads' \subseteq 1..given'
    BY <1>1, <2>1, <2>2
  <2>5. QED
    BY <1>1, <2>1, <2>2, <2>3, <2>4, AddressChanges
<1>6. CASE ReadAccount
  BY <1>1, <1>4, <1>6 DEF ReadAccount, Fault
<1>7. ASSUME NEW q \in PushQuestions, NEW d \in Devices, Click(d, q) PROVE PushInv'
  <2>1. /\ onDevice \in [Devices -> SUBSET PushQuestions] /\ excused \subseteq (Devices \X PushQuestions)
    BY DEF PushInv, PushTypeOk
  <2>2. /\ onDevice' \in [Devices -> SUBSET PushQuestions]
        /\ \A e \in Devices : onDevice'[e] \subseteq onDevice[e]
        /\ UNCHANGED <<addresses, deviceState, asked, pushes, fcmAccount, excused, pushFaults>>
    BY <1>7, <2>1 DEF Click
  <2>3. \A e, x : Closing(e, x) => Closing(e, x)'
    BY <2>2 DEF Closing, deviceState
  <2>4. /\ \A e \in Devices : \A x \in onDevice'[e] : <<e, x>> \in excused \/ Reached(e)
        /\ \A e \in Devices : \A x \in onDevice'[e] : asked[x] \in Open \/ Closing(e, x)'
        /\ \A m \in pushes' :
             m.kind = "created" /\ m.to = live[m.device] =>
               asked[m.question] \in Open \/ Closing(m.device, m.question)'
    BY <2>2, <2>3 DEF PushInv, LiveKnown, Closed
  <2>5. QED
    BY <1>1, <2>1, <2>2, <2>4, DevicesMove
<1>8. CASE UNCHANGED pushVars
  BY <1>1, <1>4, <1>8 DEF pushVars, deviceState, messageState
<1>9. QED
  BY <1>5, <1>6, <1>7, <1>8, PhoneActs, TabActs, AddressActs, Asked, MessageArrives DEF PushNext

\* Whatever tabs subscribe, save, roll back and close side by side, whatever is
\* lost and in whatever order the messages arrive, the server knows the address
\* a device has, and a notification of a Question that has ended is closed.
THEOREM NotificationsSettle == PushSpec => []PushSettles
<1>1. ASSUME PushInv PROVE PushSettles
  <2>1. LiveAddressKnown
    BY <1>1 DEF PushInv, LiveKnown, LiveAddressKnown, Busy, Reached, TabHolds, Known
  <2>2. DismissalFollows
    BY <1>1 DEF PushInv, Closed, Closing, Open, DismissalFollows
  <2>3. QED
    BY <2>1, <2>2 DEF PushSettles
<1>2. QED
  BY <1>1, PushStarts, PushStep, PTL DEF PushSpec

-----------------------------------------------------------------------------
(* The dashboard.  What waits for a snapshot goes on one after the other, so  *)
(* that what each continuation preserves, all of them preserve.               *)

WebTasks == [kind : {"refresh", "tap", "answered", "outdated"}, question : 0..MaxWebQuestions, id : Nat]
WebForms == [kind : {"sent", "taken", "stale", "refused", "answered", "outdated"},
             question : WebQuestions, id : Nat]
WebLoads == [stage : {"sent", "served"}, version : Nat]
WebStores == [transport : {"checking", "events", "polling", "unavailable"},
              status : {"loading", "ready", "error"}, version : Nat,
              selection : 0..MaxWebQuestions, retained : 0..MaxWebQuestions,
              resolving : SUBSET WebQuestions, syncing : BOOLEAN, attempt : Nat, form : Nat,
              newest : Nat, unread : 0..MaxWebQuestions]
WebEvents(n) == [open : BOOLEAN, frames : Seq(1..n)]
SharedFetches == [stage : {"none", "sent", "served"}, version : Nat, joined : Seq(WebTasks)]
WebCounts == [forms : Nat, taps : Nat, failures : Nat]

KnownStores == {s \in WebStores : s.status = "ready" => s.version \in 1..Latest}
DashboardTypeOk ==
  /\ pendingAt \in Seq(SUBSET WebQuestions) /\ Latest \in Nat /\ Latest >= 1
  /\ store \in KnownStores /\ eventSource \in WebEvents(Latest)
  /\ loads \subseteq WebLoads /\ shared \in SharedFetches
  /\ waiters \in Seq(WebTasks) /\ forms \subseteq WebForms /\ webBounds \in WebCounts
  /\ \A l \in loads : l.stage = "served" => l.version \in 1..Latest
  /\ shared.stage = "served" => shared.version \in 1..Latest

LEMMA ResumedIn ==
  ASSUME NEW S, NEW s \in S, NEW awaiting \in Seq(WebTasks), NEW arrived,
         \A t \in S, i \in 1..Len(awaiting) : Continued(t, awaiting[i], arrived) \in S
  PROVE  Resumed(s, awaiting, arrived) \in S
<1> DEFINE L == Len(awaiting)
           step == [nt \in (1..L) \X S |-> Continued(nt[2], awaiting[nt[1]], arrived)]
           Eq(h) == h = [n \in 0..L |-> IF n = 0 THEN s ELSE Continued(h[n - 1], awaiting[n], arrived)]
           c == CHOOSE h : Eq(h)
<1>1. L \in Nat
  OBVIOUS
<1>2. \A nt \in (1..L) \X S : nt[1] \in 1..L /\ nt[2] \in S
  OBVIOUS
<1>3. step \in [(1..L) \X S -> S]
  BY <1>2
<1>4. PICK g : Iteration(g, L, S, s, step)
  <2> HIDE DEF step, L
  <2>1. QED
    BY <1>1, <1>3, Iterates
<1>5. \A n \in 1..L : g[n] = Continued(g[n - 1], awaiting[n], arrived)
  <2> TAKE n \in 1..L
  <2>1. n - 1 \in 0..L
    BY <1>1
  <2>2. g[n - 1] \in S /\ g[n] = step[<<n, g[n - 1]>>] /\ <<n, g[n - 1]>> \in (1..L) \X S
    BY <1>4, <2>1 DEF Iteration
  <2>3. QED
    BY <2>2
<1>6. Eq(g)
  <2> DEFINE r == [n \in 0..L |-> IF n = 0 THEN s ELSE Continued(g[n - 1], awaiting[n], arrived)]
  <2>1. \A n \in 0..L : n # 0 => n \in 1..L
    BY <1>1
  <2>2. \A n \in 0..L : r[n] = g[n]
    BY <1>4, <1>5, <2>1 DEF Iteration
  <2>3. g = [n \in 0..L |-> g[n]]
    BY <1>4 DEF Iteration
  <2>4. r = [n \in 0..L |-> r[n]]
    OBVIOUS
  <2> HIDE DEF r
  <2>5. g = r
    BY <2>2, <2>3, <2>4
  <2>6. QED
    BY <2>5 DEF r
<1>7. Eq(c)
  <2> HIDE DEF Eq
  <2>1. QED
    BY <1>6
<1>8. \A n \in 0..L : c[n] = IF n = 0 THEN s ELSE Continued(c[n - 1], awaiting[n], arrived)
  <2> HIDE DEF c
  <2>1. QED
    BY <1>7
<1>9. c[L] \in S
  <2> DEFINE T == {n \in 0..L : c[n] \in S}
  <2> HIDE DEF c
  <2>1. 0 \in T
    BY <1>1, <1>8
  <2>2. ASSUME NEW n \in 1..L, n - 1 \in T PROVE n \in T
    <3>1. n \in 0..L /\ n # 0 /\ c[n - 1] \in S
      BY <1>1, <2>2
    <3>2. QED
      BY <1>8, <3>1
  <2>3. \A n \in 0..L : n \in T
    <3> HIDE DEF T, L
    <3>1. QED
      BY <1>1, <2>1, <2>2, StepByStep
  <2>4. QED
    BY <1>1, <2>3
<1>10. Resumed(s, awaiting, arrived) = c[L]
  BY DEF Resumed
<1>11. QED
  BY <1>9, <1>10

LEMMA OldestOpen ==
  ASSUME NEW S \in SUBSET WebQuestions, S # {}
  PROVE  Min(S) \in S
<1>1. S \in SUBSET Nat
  BY DashboardAssumption DEF WebQuestions
<1>2. \E n \in S : \A m \in S : n <= m
  BY <1>1, LeastNatural
<1>3. QED
  BY <1>2 DEF Min

\* A Question on screen is pending in the state the store has, or retained, or it
\* was there when the state could not be read.
Shown(s) == s.selection \in OpenRequests(s) \cup {Home, s.retained, s.unread}
ShownStores == {s \in KnownStores : Shown(s)}

LEMMA Opened ==
  ASSUME DashboardTypeOk, NEW s \in KnownStores
  PROVE  OpenRequests(s) \in SUBSET WebQuestions
BY DEF DashboardTypeOk, KnownStores, OpenRequests, Latest

LEMMA Selecting ==
  ASSUME NEW s \in KnownStores, NEW q \in 0..MaxWebQuestions
  PROVE  /\ SelectedRequest(s, q) \in KnownStores
         /\ SelectedRequest(s, q).status = s.status
         /\ SelectedRequest(s, q).selection = q
         /\ SelectedRequest(s, q).resolving = s.resolving
         /\ SelectedRequest(s, q).newest = s.newest
         /\ OpenRequests(SelectedRequest(s, q)) = OpenRequests(s)
<1> DEFINE n == SelectedRequest(s, q)
<1>1. Home \in 0..MaxWebQuestions /\ s \in WebStores
  BY DashboardAssumption DEF Home, KnownStores
<1>2. /\ n \in WebStores /\ n.selection = q
      /\ n.status = s.status /\ n.version = s.version /\ n.resolving = s.resolving
      /\ n.newest = s.newest
  BY <1>1 DEF WebStores, SelectedRequest
<1> HIDE DEF n
<1>3. n \in KnownStores /\ OpenRequests(n) = OpenRequests(s)
  BY <1>2 DEF KnownStores, OpenRequests
<1>4. QED
  BY <1>2, <1>3 DEF n

LEMMA Clearing ==
  ASSUME NEW s \in KnownStores
  PROVE  /\ Cleared(s) \in KnownStores /\ Cleared(s).status = s.status
         /\ Cleared(s).selection = Home /\ Cleared(s).resolving = s.resolving
         /\ Cleared(s).newest = s.newest /\ Shown(Cleared(s))
<1>1. Home \in 0..MaxWebQuestions
  BY DashboardAssumption DEF Home
<1>2. QED
  BY <1>1, Selecting DEF Cleared, Shown

LEMMA RoutesToOpen ==
  ASSUME DashboardTypeOk, NEW s \in KnownStores
  PROVE  /\ RouteAfterResolved(s) \in KnownStores
         /\ RouteAfterResolved(s).status = s.status
         /\ RouteAfterResolved(s).resolving = s.resolving
         /\ RouteAfterResolved(s).newest = s.newest
         /\ Shown(RouteAfterResolved(s))
<1>1. CASE OpenRequests(s) = {}
  BY <1>1, Clearing DEF RouteAfterResolved, Shown
<1>2. CASE OpenRequests(s) # {}
  <2>1. Min(OpenRequests(s)) \in OpenRequests(s) /\ Min(OpenRequests(s)) \in WebQuestions
    BY <1>2, Opened, OldestOpen
  <2>2. Min(OpenRequests(s)) \in 0..MaxWebQuestions
    BY <2>1, DashboardAssumption DEF WebQuestions
  <2>3. QED
    BY <1>2, <2>1, <2>2, Selecting DEF RouteAfterResolved, Shown
<1>3. QED
  BY <1>1, <1>2

LEMMA AppliedIsShown ==
  ASSUME DashboardTypeOk, NEW s \in KnownStores, NEW v \in 1..Latest
  PROVE  /\ StateApplied(s, v) \in KnownStores
         /\ StateApplied(s, v).resolving = s.resolving
         /\ StateApplied(s, v).status = "ready"
         /\ StateApplied(s, v).newest = IF v > s.newest THEN v ELSE s.newest
         /\ Shown(s) => Shown(StateApplied(s, v))
         /\ s.selection # Home /\ s.selection \in s.resolving =>
              StateApplied(s, v).selection = s.selection
<1> DEFINE known == s.selection \in OpenRequests(s) \cup {s.retained}
           top == IF v > s.newest THEN v ELSE s.newest
           next == [s EXCEPT !.version = v, !.status = "ready", !.syncing = FALSE, !.newest = top]
<1>1. /\ next \in KnownStores /\ next.status = "ready" /\ next.selection = s.selection
      /\ next.resolving = s.resolving /\ next.retained = s.retained
      /\ next.newest = top /\ next.unread = s.unread
      /\ OpenRequests(next) = pendingAt[v]
  <2>1. s \in WebStores /\ v \in Nat
    BY DEF KnownStores, DashboardTypeOk
  <2>2. top \in Nat
    BY <2>1 DEF WebStores
  <2> HIDE DEF top
  <2>3. /\ next \in WebStores /\ next.status = "ready" /\ next.selection = s.selection
        /\ next.resolving = s.resolving /\ next.retained = s.retained /\ next.version = v
        /\ next.newest = top /\ next.unread = s.unread
    BY <2>1, <2>2 DEF WebStores
  <2> HIDE DEF next
  <2>4. QED
    BY <2>3 DEF KnownStores, OpenRequests
<1>2. \A r \in {Home, s.selection} :
        LET n == [next EXCEPT !.retained = r] IN
        /\ n \in KnownStores /\ n.status = "ready" /\ n.selection = s.selection
        /\ n.resolving = s.resolving /\ n.retained = r /\ OpenRequests(n) = pendingAt[v]
        /\ n.newest = top /\ n.unread = s.unread
  <2> HIDE DEF next, top
  <2> TAKE r \in {Home, s.selection}
  <2> DEFINE n == [next EXCEPT !.retained = r]
  <2>1. r \in 0..MaxWebQuestions /\ next \in WebStores
    BY <1>1, DashboardAssumption DEF Home, KnownStores, WebStores
  <2>2. /\ n \in WebStores /\ n.status = next.status /\ n.selection = next.selection
        /\ n.resolving = next.resolving /\ n.retained = r /\ n.version = next.version
        /\ n.newest = next.newest /\ n.unread = next.unread
    BY <2>1 DEF WebStores
  <2> HIDE DEF n
  <2>3. n \in KnownStores /\ OpenRequests(n) = OpenRequests(next)
    BY <1>1, <2>2 DEF KnownStores, OpenRequests
  <2>4. QED
    BY <1>1, <2>2, <2>3 DEF n
<1> HIDE DEF next
<1>8. next.newest = IF v > s.newest THEN v ELSE s.newest
  BY <1>1
<1> HIDE DEF top
<1>3. CASE s.selection = Home
  <2>0. Home \notin pendingAt[v] /\ ~ResolvingHere(s)
    <3>1. Home \notin WebQuestions
      BY DashboardAssumption DEF Home, WebQuestions
    <3>2. pendingAt[v] \in SUBSET WebQuestions
      BY DEF DashboardTypeOk, Latest
    <3>3. s.resolving \in SUBSET WebQuestions
      BY DEF KnownStores, WebStores
    <3>4. QED
      BY <1>3, <3>1, <3>2, <3>3 DEF ResolvingHere
  <2>1. StateApplied(s, v) = next
    BY <1>3, <2>0 DEF StateApplied, next, top
  <2>2. QED
    BY <1>1, <1>3, <1>8, <2>1 DEF Shown
<1>4. CASE s.selection # Home /\ s.selection \in pendingAt[v]
  <2> DEFINE m == [next EXCEPT !.retained = Home, !.unread = Home]
  <2>1. StateApplied(s, v) = m
    BY <1>4 DEF StateApplied, next, top
  <2>2. Home \in 0..MaxWebQuestions /\ next \in WebStores
    BY <1>1, DashboardAssumption DEF Home, KnownStores
  <2>3. /\ m \in WebStores /\ m.status = next.status /\ m.selection = next.selection
        /\ m.resolving = next.resolving /\ m.version = next.version /\ m.newest = next.newest
    BY <2>2 DEF WebStores
  <2> HIDE DEF m
  <2>4. m \in KnownStores /\ OpenRequests(m) = OpenRequests(next)
    BY <1>1, <2>3 DEF KnownStores, OpenRequests
  <2>5. QED
    BY <1>1, <1>4, <1>8, <2>1, <2>3, <2>4 DEF Shown
<1>5. CASE s.selection # Home /\ s.selection \notin pendingAt[v] /\ ResolvingHere(s)
  <2>1. StateApplied(s, v) = [next EXCEPT !.retained = IF known THEN s.selection ELSE Home]
    BY <1>5 DEF StateApplied, next, top
  <2>2. Shown(s) => known \/ s.selection = s.unread
    BY <1>5 DEF Shown
  <2>3. QED
    BY <1>1, <1>2, <1>5, <1>8, <2>1, <2>2 DEF Shown
<1>6. CASE s.selection # Home /\ s.selection \notin pendingAt[v] /\ ~ResolvingHere(s)
  <2>1. StateApplied(s, v) = IF known THEN RouteAfterResolved(next) ELSE next
    BY <1>6 DEF StateApplied, next, top
  <2>2. Shown(s) => known \/ s.selection = s.unread
    BY <1>6 DEF Shown
  <2>3. QED
    BY <1>1, <1>6, <1>8, <2>1, <2>2, RoutesToOpen DEF ResolvingHere, Shown
<1>7. QED
  BY <1>3, <1>4, <1>5, <1>6

LEMMA FailedIsKnown ==
  ASSUME NEW s \in KnownStores
  PROVE  /\ Failed(s) \in KnownStores /\ Failed(s).resolving = s.resolving
         /\ Failed(s).selection = s.selection /\ Failed(s).newest = s.newest
         /\ Shown(Failed(s))
BY DEF KnownStores, WebStores, Failed, Shown

LEMMA EndedStays ==
  ASSUME NEW s \in KnownStores, NEW task \in WebTasks \cup WebForms
  PROVE  /\ Ended(s, task) \in KnownStores /\ Ended(s, task).selection = s.selection
         /\ Ended(s, task).status = s.status /\ Ended(s, task).retained = s.retained
         /\ Ended(s, task).newest = s.newest /\ Ended(s, task).unread = s.unread
         /\ OpenRequests(Ended(s, task)) = OpenRequests(s)
         /\ Ended(s, task).resolving = s.resolving \ {task.question}
BY DEF KnownStores, WebStores, WebTasks, WebForms, Ended, OpenRequests

LEMMA ContinuedIsKnown ==
  ASSUME DashboardTypeOk, NEW s \in KnownStores, NEW task \in WebTasks, NEW arrived \in BOOLEAN
  PROVE  /\ Continued(s, task, arrived) \in KnownStores
         /\ s \in ShownStores => Continued(s, task, arrived) \in ShownStores
         /\ Continued(s, task, arrived).newest = s.newest
         /\ task.kind \in {"tap", "refresh"} => Continued(s, task, arrived).resolving = s.resolving
         /\ task.kind = "refresh" => Continued(s, task, arrived).selection = s.selection
<1> DEFINE t == IF arrived THEN s ELSE Failed(s)
<1>1. /\ t \in KnownStores /\ t.resolving = s.resolving /\ t.selection = s.selection
      /\ t.newest = s.newest /\ (s \in ShownStores => Shown(t))
  BY FailedIsKnown DEF ShownStores
<1>2. task.kind \in {"refresh", "tap", "answered", "outdated"}
  BY DEF WebTasks
<1>3. CASE task.kind = "tap"
  <2>1. CASE task.id # s.attempt
    BY <1>3, <2>1 DEF Continued
  <2>2. CASE task.id = s.attempt /\ ~arrived
    BY <1>3, <2>2, FailedIsKnown, Clearing DEF Continued, ShownStores
  <2>3. CASE task.id = s.attempt /\ arrived /\ task.question \in OpenRequests(s)
    BY <1>3, <2>3, Selecting DEF Continued, WebTasks, ShownStores, Shown
  <2>4. CASE task.id = s.attempt /\ arrived /\ task.question \notin OpenRequests(s)
    BY <1>3, <2>4, Clearing DEF Continued, ShownStores
  <2>5. QED
    BY <2>1, <2>2, <2>3, <2>4
<1>4. CASE task.kind = "answered"
  <2>1. Continued(s, task, arrived) = Ended(RouteAfterResolved(t), task)
    BY <1>4 DEF Continued
  <2>2. RouteAfterResolved(t) \in KnownStores
    BY <1>1, RoutesToOpen
  <2>3. QED
    BY <1>1, <1>4, <2>1, <2>2, RoutesToOpen, EndedStays DEF ShownStores, Shown
<1>5. CASE task.kind = "outdated"
  <2>1. Continued(s, task, arrived) = Ended(t, task)
    BY <1>5 DEF Continued
  <2>2. QED
    BY <1>1, <1>5, <2>1, EndedStays DEF ShownStores, Shown
<1>6. CASE task.kind = "refresh"
  BY <1>1, <1>6 DEF Continued, ShownStores
<1>7. QED
  BY <1>2, <1>3, <1>4, <1>5, <1>6

LEMMA MountedStays ==
  ASSUME NEW s \in KnownStores
  PROVE  /\ Mounted(store, s) \in KnownStores /\ Mounted(store, s).status = s.status
         /\ Mounted(store, s).selection = s.selection /\ Mounted(store, s).resolving = s.resolving
         /\ Mounted(store, s).newest = s.newest
         /\ Shown(s) => Shown(Mounted(store, s))
<1> DEFINE n == [s EXCEPT !.form = 0]
<1>1. s \in WebStores
  BY DEF KnownStores
<1>2. /\ n \in WebStores /\ n.status = s.status /\ n.version = s.version
      /\ n.selection = s.selection /\ n.retained = s.retained /\ n.resolving = s.resolving
      /\ n.newest = s.newest /\ n.unread = s.unread
  BY <1>1 DEF WebStores
<1> HIDE DEF n
<1>3. n \in KnownStores /\ (Shown(s) => Shown(n))
  BY <1>2 DEF KnownStores, Shown, OpenRequests
<1>4. Mounted(store, s) \in {s, n}
  BY DEF Mounted, n
<1>5. QED
  BY <1>2, <1>3, <1>4

\* Tasks of these kinds leave the marks of this tab's own submissions alone.
Marking == {"answered", "outdated"}
Unmarked(awaiting) == \A i \in 1..Len(awaiting) : awaiting[i].kind \notin Marking
OnlyRefresh(awaiting) == \A i \in 1..Len(awaiting) : awaiting[i].kind = "refresh"

LEMMA ResumedIsKnown ==
  ASSUME DashboardTypeOk, NEW s \in KnownStores, NEW awaiting \in Seq(WebTasks), NEW arrived \in BOOLEAN
  PROVE  /\ Resumed(s, awaiting, arrived) \in KnownStores
         /\ s \in ShownStores => Resumed(s, awaiting, arrived) \in ShownStores
         /\ Resumed(s, awaiting, arrived).newest = s.newest
         /\ Unmarked(awaiting) => Resumed(s, awaiting, arrived).resolving = s.resolving
         /\ OnlyRefresh(awaiting) => Resumed(s, awaiting, arrived).selection = s.selection
<1>1. \A i \in 1..Len(awaiting) : awaiting[i] \in WebTasks
  OBVIOUS
<1>2. Resumed(s, awaiting, arrived) \in KnownStores
  BY <1>1, ContinuedIsKnown, ResumedIn
<1>3. ASSUME s \in ShownStores PROVE Resumed(s, awaiting, arrived) \in ShownStores
  <2>1. \A t \in ShownStores, i \in 1..Len(awaiting) : Continued(t, awaiting[i], arrived) \in ShownStores
    <3> TAKE t \in ShownStores, i \in 1..Len(awaiting)
    <3>1. t \in KnownStores
      BY DEF ShownStores
    <3>2. QED
      BY <1>1, <1>3, <3>1, ContinuedIsKnown
  <2>2. QED
    BY <1>3, <2>1, ResumedIn
<1>4. ASSUME Unmarked(awaiting) PROVE Resumed(s, awaiting, arrived).resolving = s.resolving
  <2> DEFINE S == {t \in KnownStores : t.resolving = s.resolving}
  <2>1. \A t \in S, i \in 1..Len(awaiting) : Continued(t, awaiting[i], arrived) \in S
    <3> TAKE t \in S, i \in 1..Len(awaiting)
    <3>1. awaiting[i].kind \in {"tap", "refresh"}
      BY <1>1, <1>4 DEF Unmarked, Marking, WebTasks
    <3>2. QED
      BY <1>1, <3>1, ContinuedIsKnown
  <2>2. s \in S
    OBVIOUS
  <2> HIDE DEF S
  <2>3. Resumed(s, awaiting, arrived) \in S
    BY <2>1, <2>2, ResumedIn
  <2>4. QED
    BY <2>3 DEF S
<1>5. ASSUME OnlyRefresh(awaiting) PROVE Resumed(s, awaiting, arrived).selection = s.selection
  <2> DEFINE S == {t \in KnownStores : t.selection = s.selection}
  <2>1. \A t \in S, i \in 1..Len(awaiting) : Continued(t, awaiting[i], arrived) \in S
    <3> TAKE t \in S, i \in 1..Len(awaiting)
    <3>1. awaiting[i].kind = "refresh"
      BY <1>5 DEF OnlyRefresh
    <3>2. QED
      BY <1>1, <3>1, ContinuedIsKnown
  <2>2. s \in S
    OBVIOUS
  <2> HIDE DEF S
  <2>3. Resumed(s, awaiting, arrived) \in S
    BY <2>1, <2>2, ResumedIn
  <2>4. QED
    BY <2>3 DEF S
<1>6. Resumed(s, awaiting, arrived).newest = s.newest
  <2> DEFINE S == {t \in KnownStores : t.newest = s.newest}
  <2>1. \A t \in S, i \in 1..Len(awaiting) : Continued(t, awaiting[i], arrived) \in S
    BY <1>1, ContinuedIsKnown
  <2>2. s \in S
    OBVIOUS
  <2> HIDE DEF S
  <2>3. Resumed(s, awaiting, arrived) \in S
    BY <2>1, <2>2, ResumedIn
  <2>4. QED
    BY <2>3 DEF S
<1>7. QED
  BY <1>2, <1>3, <1>4, <1>5, <1>6

\* What the store becomes when a snapshot arrives, and when it fails.
LEMMA ArrivalKeeps ==
  ASSUME DashboardTypeOk, NEW v \in 1..Latest, NEW joined \in Seq(WebTasks), Arrives(v, joined)
  PROVE  /\ store' \in KnownStores /\ waiters' = <<>>
         /\ Shown(store) => Shown(store')
         /\ store'.newest = IF v > store.newest THEN v ELSE store.newest
         /\ Unmarked(waiters) /\ Unmarked(joined) => store'.resolving = store.resolving
         /\ OnlyRefresh(waiters) /\ OnlyRefresh(joined)
              /\ store.selection # Home /\ store.selection \in store.resolving =>
              store'.selection = store.selection
<1> DEFINE a == StateApplied(store, v)
           b == Resumed(a, waiters, TRUE)
           c == Resumed(b, joined, TRUE)
<1>1. store \in KnownStores /\ waiters \in Seq(WebTasks) /\ TRUE \in BOOLEAN
  BY DEF DashboardTypeOk, KnownStores
<1>2. /\ a \in KnownStores /\ (Shown(store) => a \in ShownStores) /\ a.resolving = store.resolving
      /\ store.selection # Home /\ store.selection \in store.resolving => a.selection = store.selection
      /\ a.newest = IF v > store.newest THEN v ELSE store.newest
  BY <1>1, AppliedIsShown DEF ShownStores
<1> HIDE DEF a
<1>3. /\ b \in KnownStores /\ (Shown(store) => b \in ShownStores) /\ b.newest = a.newest
      /\ Unmarked(waiters) => b.resolving = a.resolving
      /\ OnlyRefresh(waiters) => b.selection = a.selection
  BY <1>1, <1>2, ResumedIsKnown
<1> HIDE DEF b
<1>4. /\ c \in KnownStores /\ (Shown(store) => c \in ShownStores) /\ c.newest = b.newest
      /\ Unmarked(joined) => c.resolving = b.resolving
      /\ OnlyRefresh(joined) => c.selection = b.selection
  BY <1>3, ResumedIsKnown
<1> HIDE DEF c
<1>5. store' = Mounted(store, c) /\ waiters' = <<>>
  BY DEF Arrives, a, b, c
<1>6. QED
  BY <1>2, <1>3, <1>4, <1>5, MountedStays DEF ShownStores

LEMMA FailureKeeps ==
  ASSUME DashboardTypeOk, NEW joined \in Seq(WebTasks), Fails(joined)
  PROVE  /\ store' \in KnownStores /\ waiters' = <<>>
         /\ Shown(store') /\ store'.newest = store.newest
         /\ Unmarked(waiters) /\ Unmarked(joined) => store'.resolving = store.resolving
         /\ OnlyRefresh(waiters) /\ OnlyRefresh(joined) => store'.selection = store.selection
<1> DEFINE a == Failed(store)
           b == Resumed(a, joined, FALSE)
           c == Resumed(b, waiters, FALSE)
<1>1. store \in KnownStores /\ waiters \in Seq(WebTasks) /\ FALSE \in BOOLEAN
  BY DEF DashboardTypeOk, KnownStores
<1>2. /\ a \in ShownStores /\ a \in KnownStores /\ a.resolving = store.resolving
      /\ a.selection = store.selection /\ a.newest = store.newest
  BY <1>1, FailedIsKnown DEF ShownStores
<1> HIDE DEF a
<1>3. /\ b \in KnownStores /\ b \in ShownStores /\ b.newest = a.newest
      /\ Unmarked(joined) => b.resolving = a.resolving
      /\ OnlyRefresh(joined) => b.selection = a.selection
  BY <1>1, <1>2, ResumedIsKnown
<1> HIDE DEF b
<1>4. /\ c \in KnownStores /\ c \in ShownStores /\ c.newest = b.newest
      /\ Unmarked(waiters) => c.resolving = b.resolving
      /\ OnlyRefresh(waiters) => c.selection = b.selection
  BY <1>1, <1>3, ResumedIsKnown
<1> HIDE DEF c
<1>5. store' = Mounted(store, c) /\ waiters' = <<>>
  BY DEF Fails, a, b, c
<1>6. QED
  BY <1>2, <1>3, <1>4, <1>5, MountedStays DEF ShownStores

-----------------------------------------------------------------------------
\* No state is newer than the server's, and with the stream open the newest is the
\* server's, or that one is the last event under way.
Fresh(stream, s) ==
  /\ s.newest \in 0..Latest
  /\ stream.open => IF stream.frames = <<>> THEN s.newest = Latest
                    ELSE stream.frames[Len(stream.frames)] = Latest
DashboardInv == DashboardTypeOk /\ Shown(store) /\ Fresh(eventSource, store)

LEMMA CountedOnce ==
  ASSUME webBounds \in WebCounts
  PROVE  /\ \A max : Counted("failures", max) =>
              /\ webBounds' \in WebCounts /\ webBounds'.failures # 0
              /\ webBounds'.forms = webBounds.forms /\ webBounds'.taps = webBounds.taps
         /\ \A max : Counted("taps", max) =>
              /\ webBounds' \in WebCounts /\ webBounds'.failures = webBounds.failures
              /\ webBounds'.forms = webBounds.forms /\ webBounds'.taps # webBounds.taps
         /\ \A max : Counted("forms", max) =>
              /\ webBounds' \in WebCounts /\ webBounds'.failures = webBounds.failures
              /\ webBounds'.forms = webBounds.forms + 1 /\ webBounds.forms < max
BY DEF WebCounts, Counted

LEMMA SharesTask ==
  ASSUME shared \in SharedFetches, NEW task \in WebTasks, SharesFetch(task)
  PROVE  /\ shared' \in SharedFetches
         /\ shared'.stage = "served" => shared.stage = "served" /\ shared'.version = shared.version
         /\ \A i \in 1..Len(shared'.joined) :
              \/ shared'.joined[i] = task
              \/ i \in 1..Len(shared.joined) /\ shared'.joined[i] = shared.joined[i]
<1>1. shared.joined \in Seq(WebTasks) /\ <<task>> \in Seq(WebTasks)
  BY DEF SharedFetches
<1>2. CASE shared.stage = "none"
  <2>1. shared' = [stage |-> "sent", version |-> 0, joined |-> <<task>>]
    BY <1>2 DEF SharesFetch, NoFetch
  <2>2. QED
    BY <1>1, <2>1 DEF SharedFetches
<1>3. CASE shared.stage # "none"
  <2> DEFINE j == Append(shared.joined, task)
  <2> DEFINE old == shared.joined
  <2>0. Len(j) = Len(old) + 1 /\ Len(old) \in Nat /\ j[Len(old) + 1] = task /\ j \in Seq(WebTasks)
    BY <1>1
  <2>1. \A i \in 1..Len(j) : j[i] = task \/ (i \in 1..Len(old) /\ j[i] = old[i])
    <3> TAKE i \in 1..Len(j)
    <3>1. i = Len(old) + 1 \/ i \in 1..Len(old)
      BY <2>0
    <3>2. i \in 1..Len(old) => j[i] = old[i]
      BY <1>1
    <3>3. QED
      BY <2>0, <3>1, <3>2
  <2>2. shared' = [stage |-> shared.stage, version |-> shared.version, joined |-> j]
    BY <1>3 DEF SharesFetch, SharedFetches
  <2> HIDE DEF j
  <2>3. QED
    BY <2>0, <2>1, <2>2 DEF SharedFetches
<1>4. QED
  BY <1>2, <1>3

\* The server's state changes: what the dashboard has is one of its states still.
LEMMA ToldKeeps ==
  ASSUME DashboardInv, NEW pending \in SUBSET WebQuestions, Told(pending),
         UNCHANGED <<store, loads, shared, waiters, webBounds>>, forms' \subseteq WebForms
  PROVE  DashboardInv'
<1>1. /\ pendingAt \in Seq(SUBSET WebQuestions) /\ Latest \in Nat /\ Latest >= 1
      /\ eventSource \in WebEvents(Latest) /\ pendingAt' = Append(pendingAt, pending)
      /\ \A l \in loads : l.stage = "served" => l.version \in 1..Latest
      /\ shared.stage = "served" => shared.version \in 1..Latest
  BY DEF DashboardInv, DashboardTypeOk, Told
<1>2. /\ pendingAt' \in Seq(SUBSET WebQuestions) /\ Latest' = Latest + 1
      /\ \A v \in 1..Latest : pendingAt'[v] = pendingAt[v]
  BY <1>1 DEF Latest
<1>3. \A v \in 1..Latest : v \in 1..Latest'
  BY <1>1, <1>2
<1>4. eventSource' \in WebEvents(Latest')
  <2>1. eventSource.frames \in Seq(1..Latest') /\ eventSource.open \in BOOLEAN /\ Latest' \in 1..Latest'
    BY <1>1, <1>2, <1>3 DEF WebEvents
  <2>2. eventSource = [open |-> eventSource.open, frames |-> eventSource.frames]
    BY <1>1 DEF WebEvents
  <2>3. Append(eventSource.frames, Latest') \in Seq(1..Latest')
    BY <2>1
  <2>4. \/ eventSource' = eventSource
        \/ eventSource' = [eventSource EXCEPT !.frames = Append(@, Latest')]
    BY DEF Told, Latest
  <2>5. CASE eventSource' = eventSource
    BY <2>1, <2>2, <2>5 DEF WebEvents
  <2>6. CASE eventSource' = [eventSource EXCEPT !.frames = Append(@, Latest')]
    <3>1. eventSource' = [open |-> eventSource.open, frames |-> Append(eventSource.frames, Latest')]
      BY <2>2, <2>6
    <3>2. QED
      BY <2>1, <2>3, <3>1 DEF WebEvents
  <2>7. QED
    BY <2>4, <2>5, <2>6
<1>5. store' = store /\ (store.status = "ready" => store.version \in 1..Latest) /\ store \in WebStores
  BY DEF DashboardInv, DashboardTypeOk, KnownStores
<1>6. store' \in KnownStores'
  BY <1>3, <1>5 DEF KnownStores
<1>7. DashboardTypeOk'
  BY <1>1, <1>2, <1>3, <1>4, <1>6 DEF DashboardInv, DashboardTypeOk
<1>8. OpenRequests(store') = OpenRequests(store)'
  BY <1>2, <1>5 DEF OpenRequests
<1>9. Shown(store)'
  BY <1>5, <1>8 DEF DashboardInv, Shown
<1>10. Fresh(eventSource, store)'
  <2>1. store'.newest \in 0..Latest' /\ (eventSource.open => eventSource'.frames # <<>>)
        /\ eventSource'.open = eventSource.open
        /\ (eventSource.open => eventSource'.frames[Len(eventSource'.frames)] = Latest')
    <3>1. store'.newest \in 0..Latest'
      BY <1>1, <1>2, <1>5 DEF DashboardInv, Fresh
    <3>2. CASE ~eventSource.open
      BY <3>1, <3>2 DEF Told
    <3>3. CASE eventSource.open
      <4>1. eventSource' = [eventSource EXCEPT !.frames = Append(@, Latest')]
        BY <3>3 DEF Told, Latest
      <4>2. eventSource'.frames = Append(eventSource.frames, Latest') /\ eventSource'.open
        BY <1>1, <3>3, <4>1 DEF WebEvents
      <4>3. eventSource.frames \in Seq(1..Latest)
        BY <1>1 DEF WebEvents
      <4>4. QED
        BY <3>1, <3>3, <4>2, <4>3
    <3>4. QED
      BY <3>2, <3>3
  <2>2. QED
    BY <2>1 DEF Fresh
<1>11. QED
  BY <1>7, <1>9, <1>10 DEF DashboardInv

\* The server's state stays, and the store becomes one that it may become.
LEMMA StoreMoves ==
  ASSUME DashboardInv, UNCHANGED pendingAt, store' \in KnownStores,
         Shown(store) => Shown(store'),
         \/ eventSource' = eventSource /\ store'.newest \in store.newest..Latest
         \/ Fresh(eventSource', store'),
         eventSource' \in WebEvents(Latest), loads' \subseteq WebLoads,
         shared' \in SharedFetches, waiters' \in Seq(WebTasks), forms' \subseteq WebForms,
         webBounds' \in WebCounts,
         \A l \in loads' : l.stage = "served" => l.version \in 1..Latest,
         shared'.stage = "served" => shared'.version \in 1..Latest
  PROVE  DashboardInv'
<1>1. Latest' = Latest /\ KnownStores' = KnownStores /\ Shown(store)' = Shown(store')
  BY DEF Latest, KnownStores, Shown, OpenRequests
<1>2. DashboardTypeOk'
  BY <1>1 DEF DashboardInv, DashboardTypeOk
<1>3. Latest \in Nat /\ Fresh(eventSource, store) /\ Fresh(eventSource, store)' = Fresh(eventSource', store')
  BY <1>1 DEF DashboardInv, DashboardTypeOk, Fresh
<1>4. Fresh(eventSource', store')
  BY <1>3 DEF Fresh
<1>5. QED
  BY <1>1, <1>2, <1>3, <1>4 DEF DashboardInv

\* n differs from s in nothing that says what is on screen.
AsOnScreen(s, n) ==
  /\ n \in WebStores /\ n.status = s.status /\ n.version = s.version
  /\ n.selection = s.selection /\ n.retained = s.retained
  /\ n.newest = s.newest /\ n.unread = s.unread

LEMMA StoreFields ==
  ASSUME NEW s \in WebStores
  PROVE  /\ \A t \in {"checking", "events", "polling", "unavailable"} :
              LET n == [s EXCEPT !.transport = t] IN AsOnScreen(s, n) /\ n.resolving = s.resolving
         /\ \A old \in BOOLEAN :
              LET n == [s EXCEPT !.syncing = @ \/ old] IN AsOnScreen(s, n) /\ n.resolving = s.resolving
         /\ LET n == [s EXCEPT !.attempt = @ + 1, !.syncing = TRUE] IN
              AsOnScreen(s, n) /\ n.resolving = s.resolving
         /\ \A q \in WebQuestions, id \in Nat :
              LET n == [s EXCEPT !.resolving = @ \cup {q}, !.form = id] IN
              AsOnScreen(s, n) /\ n.resolving = s.resolving \cup {q}
<1>1. ASSUME NEW t \in {"checking", "events", "polling", "unavailable"}
      PROVE  LET n == [s EXCEPT !.transport = t] IN AsOnScreen(s, n) /\ n.resolving = s.resolving
  BY DEF WebStores, AsOnScreen
<1>2. ASSUME NEW old \in BOOLEAN
      PROVE  LET n == [s EXCEPT !.syncing = @ \/ old] IN AsOnScreen(s, n) /\ n.resolving = s.resolving
  <2> DEFINE b == s.syncing \/ old
  <2>1. b \in BOOLEAN
    BY DEF WebStores
  <2> HIDE DEF b
  <2>2. LET n == [s EXCEPT !.syncing = b] IN AsOnScreen(s, n) /\ n.resolving = s.resolving
    BY <2>1 DEF WebStores, AsOnScreen
  <2>3. QED
    BY <2>2 DEF b
<1>3. LET n == [s EXCEPT !.attempt = @ + 1, !.syncing = TRUE] IN
        AsOnScreen(s, n) /\ n.resolving = s.resolving
  <2> DEFINE k == s.attempt + 1
  <2>1. k \in Nat
    BY DEF WebStores
  <2> HIDE DEF k
  <2>2. LET n == [s EXCEPT !.attempt = k, !.syncing = TRUE] IN
          AsOnScreen(s, n) /\ n.resolving = s.resolving
    BY <2>1 DEF WebStores, AsOnScreen
  <2>3. QED
    BY <2>2 DEF k
<1>4. ASSUME NEW q \in WebQuestions, NEW id \in Nat
      PROVE  LET n == [s EXCEPT !.resolving = @ \cup {q}, !.form = id] IN
             AsOnScreen(s, n) /\ n.resolving = s.resolving \cup {q}
  BY DEF WebStores, AsOnScreen
<1>5. QED
  BY <1>1, <1>2, <1>3, <1>4

LEMMA ScreenStays ==
  ASSUME NEW s \in KnownStores, NEW n, AsOnScreen(s, n)
  PROVE  n \in KnownStores /\ (Shown(s) => Shown(n)) /\ n.newest = s.newest
BY DEF KnownStores, Shown, OpenRequests, AsOnScreen

LEMMA DashboardKnown ==
  ASSUME DashboardInv
  PROVE  /\ DashboardTypeOk /\ store \in KnownStores /\ store \in WebStores /\ Latest \in 1..Latest
         /\ \A v \in 1..Latest : pendingAt[v] \in SUBSET WebQuestions
         /\ eventSource \in WebEvents(Latest) /\ loads \subseteq WebLoads /\ shared \in SharedFetches
         /\ waiters \in Seq(WebTasks) /\ forms \subseteq WebForms /\ webBounds \in WebCounts
         /\ \A l \in loads : l.stage = "served" => l.version \in 1..Latest
         /\ shared.stage = "served" => shared.version \in 1..Latest
         /\ <<>> \in Seq(WebTasks) /\ NoFetch \in SharedFetches /\ NoFetch.stage = "none"
         /\ Shown(store) /\ Fresh(eventSource, store) /\ store.newest \in store.newest..Latest
<1>1. DashboardTypeOk
  BY DEF DashboardInv
<1>2. store \in WebStores
  BY <1>1 DEF DashboardTypeOk, KnownStores
<1>3. Latest \in 1..Latest /\ \A v \in 1..Latest : pendingAt[v] \in SUBSET WebQuestions
  BY <1>1 DEF DashboardTypeOk, Latest
<1>4. NoFetch \in SharedFetches /\ NoFetch.stage = "none"
  BY DEF NoFetch, SharedFetches
<1>5. Shown(store) /\ Fresh(eventSource, store) /\ store.newest \in store.newest..Latest
  BY <1>1 DEF DashboardInv, DashboardTypeOk, Fresh
<1>6. QED
  BY <1>1, <1>2, <1>3, <1>4, <1>5 DEF DashboardInv, DashboardTypeOk

LEMMA WebQuestionsFinite ==
  /\ IsFiniteSet(WebQuestions)
  /\ \A S \in SUBSET WebQuestions : Cardinality(S) \in Nat
<1>1. MaxWebQuestions \in Nat
  BY DashboardAssumption
<1>2. IsFiniteSet(1..MaxWebQuestions)
  BY <1>1, FS_Interval
<1>3. \A S \in SUBSET WebQuestions : IsFiniteSet(S)
  BY <1>2, FS_Subset DEF WebQuestions
<1>4. QED
  BY <1>2, <1>3, FS_CardinalityType DEF WebQuestions

LEMMA ServerMoves ==
  ASSUME DashboardInv, ServerChanged
  PROVE  DashboardInv'
<1> DEFINE all == UNION {pendingAt[v] : v \in DOMAIN pendingAt}
<1>1. /\ \A v \in 1..Latest : pendingAt[v] \in SUBSET WebQuestions
      /\ Latest \in 1..Latest /\ DOMAIN pendingAt = 1..Latest /\ forms \subseteq WebForms
  BY DashboardKnown DEF DashboardTypeOk, Latest
<1>2. all \in SUBSET WebQuestions
  BY <1>1
<1> HIDE DEF all
<1>3. Cardinality(all) \in Nat
  BY <1>2, WebQuestionsFinite
<1>4. Cardinality(all) < MaxWebQuestions => Cardinality(all) + 1 \in WebQuestions
  BY <1>3, DashboardAssumption DEF WebQuestions
<1>5. UNCHANGED <<store, loads, shared, waiters, forms, webBounds>>
  BY DEF ServerChanged
<1>6. \/ Cardinality(all) < MaxWebQuestions /\ Told(pendingAt[Latest] \cup {Cardinality(all) + 1})
      \/ \E q \in pendingAt[Latest] : Told(pendingAt[Latest] \ {q})
  BY DEF ServerChanged, all
<1>7. PICK pending \in SUBSET WebQuestions : Told(pending)
  BY <1>1, <1>4, <1>6
<1>8. QED
  BY <1>1, <1>5, <1>7, ToldKeeps

LEMMA EventsMove ==
  ASSUME DashboardInv, HealthAnswers \/ EventsOpen \/ EventsBreak \/ StateArrives
  PROVE  DashboardInv'
<1> USE DashboardKnown
<1>1. CASE HealthAnswers
  <2>1. store' \in KnownStores /\ (Shown(store) => Shown(store')) /\ store'.newest = store.newest
    <3>1. PICK t \in {"events", "unavailable"} : store' = [store EXCEPT !.transport = t]
      BY <1>1 DEF HealthAnswers
    <3>2. AsOnScreen(store, store')
      BY <3>1, StoreFields
    <3>3. QED
      BY <3>2, ScreenStays
  <2>2. /\ UNCHANGED <<pendingAt, eventSource, loads, shared, waiters, forms>>
        /\ webBounds' \in WebCounts
    BY <1>1, CountedOnce DEF HealthAnswers
  <2>3. QED
    BY <2>1, <2>2, StoreMoves
<1>2. CASE EventsOpen
  <2>1. UNCHANGED <<pendingAt, store, loads, shared, waiters, forms, webBounds>>
    BY <1>2 DEF EventsOpen
  <2>2. eventSource' \in WebEvents(Latest)
    BY <1>2 DEF EventsOpen, WebEvents
  <2>3. Fresh(eventSource', store')
    <3>1. eventSource'.frames = <<Latest>> /\ store'.newest \in 0..Latest
      BY <1>2, <2>1 DEF EventsOpen, Fresh
    <3>2. QED
      BY <3>1 DEF Fresh
  <2>4. QED
    BY <2>1, <2>2, <2>3, StoreMoves
<1>3. CASE EventsBreak
  <2>1. store' \in KnownStores /\ (Shown(store) => Shown(store')) /\ store'.newest = store.newest
    <3>1. AsOnScreen(store, store')
      BY <1>3, StoreFields DEF EventsBreak
    <3>2. QED
      BY <3>1, ScreenStays
  <2>2. Load \in WebLoads /\ Load.stage = "sent"
    BY DEF Load, WebLoads
  <2>3. loads' \subseteq WebLoads /\ \A l \in loads' : l.stage = "served" => l.version \in 1..Latest
    BY <1>3, <2>2 DEF EventsBreak
  <2>4. eventSource' \in WebEvents(Latest)
    BY <1>3 DEF EventsBreak, WebEvents
  <2>5. /\ UNCHANGED <<pendingAt, shared, waiters, forms>>
        /\ webBounds' \in WebCounts
    BY <1>3, CountedOnce DEF EventsBreak
  <2>6. Fresh(eventSource', store')
    BY <1>3, <2>1 DEF EventsBreak, Fresh
  <2>7. QED
    BY <2>1, <2>3, <2>4, <2>5, <2>6, StoreMoves
<1>4. CASE StateArrives
  <2>1. /\ UNCHANGED <<pendingAt, loads, shared, forms, webBounds>>
        /\ Arrives(Head(eventSource.frames), <<>>) /\ eventSource.frames # <<>>
        /\ eventSource' = [eventSource EXCEPT !.frames = Tail(@)]
    BY <1>4 DEF StateArrives
  <2>2. /\ Head(eventSource.frames) \in 1..Latest /\ Tail(eventSource.frames) \in Seq(1..Latest)
    BY <2>1 DEF WebEvents
  <2>3. eventSource' \in WebEvents(Latest)
    BY <2>1, <2>2 DEF WebEvents
  <2> DEFINE v == Head(eventSource.frames)
  <2>4. /\ store' \in KnownStores /\ waiters' = <<>> /\ (Shown(store) => Shown(store'))
        /\ store'.newest = IF v > store.newest THEN v ELSE store.newest
    BY <2>1, <2>2, ArrivalKeeps
  <2>5. Fresh(eventSource', store')
    <3>1. /\ eventSource.frames \in Seq(1..Latest) /\ eventSource'.open = eventSource.open
          /\ eventSource'.frames = Tail(eventSource.frames) /\ store.newest \in 0..Latest
      BY <2>1 DEF WebEvents, Fresh
    <3>2. store'.newest \in 0..Latest /\ (v = Latest => store'.newest = Latest)
      BY <2>2, <2>4, <3>1
    <3>3. CASE ~eventSource.open
      BY <3>1, <3>2, <3>3 DEF Fresh
    <3>4. CASE eventSource.open
      <4>1. eventSource.frames[Len(eventSource.frames)] = Latest
        BY <2>1, <3>4 DEF Fresh
      <4>2. CASE Tail(eventSource.frames) = <<>>
        <5>1. Len(eventSource.frames) = 1
          <6> DEFINE frames == eventSource.frames
          <6>1. frames \in Seq(1..Latest) /\ frames # <<>> /\ Tail(frames) = <<>>
            BY <2>1, <3>1, <4>2
          <6> HIDE DEF frames
          <6>2. Len(frames) \in Nat /\ Len(frames) # 0
            BY <6>1
          <6>3. Len(Tail(frames)) = Len(frames) - 1
            BY <6>1, <6>2
          <6>4. Len(<<>>) = 0
            OBVIOUS
          <6>5. Len(Tail(frames)) = 0
            BY <6>1, <6>4, Zenon
          <6>6. QED
            BY <6>2, <6>3, <6>5 DEF frames
        <5>2. v = Latest
          BY <4>1, <5>1
        <5>3. QED
          BY <3>1, <3>2, <4>2, <5>2 DEF Fresh
      <4>3. CASE Tail(eventSource.frames) # <<>>
        <5>1. eventSource'.frames[Len(eventSource'.frames)] = Latest
          BY <2>1, <3>1, <4>1, <4>3
        <5>2. QED
          BY <3>1, <3>2, <4>3, <5>1 DEF Fresh
      <4>4. QED
        BY <4>2, <4>3
    <3>5. QED
      BY <3>3, <3>4
  <2> HIDE DEF v
  <2>6. QED
    BY <2>1, <2>3, <2>4, <2>5, StoreMoves
<1>5. QED
  BY <1>1, <1>2, <1>3, <1>4

LEMMA PollsMove ==
  ASSUME DashboardInv, \/ Poll
                       \/ \E l \in loads : PollServed(l) \/ PollReturns(l) \/ PollFails(l)
  PROVE  DashboardInv'
<1> USE DashboardKnown
<1>1. CASE Poll
  <2>1. UNCHANGED <<pendingAt, store, eventSource, shared, waiters, forms, webBounds>>
    BY <1>1 DEF Poll
  <2>2. Load \in WebLoads /\ Load.stage = "sent"
    BY DEF Load, WebLoads
  <2>3. loads' \subseteq WebLoads /\ \A l \in loads' : l.stage = "served" => l.version \in 1..Latest
    BY <1>1, <2>2 DEF Poll
  <2>4. QED
    BY <2>1, <2>3, StoreMoves
<1>2. ASSUME NEW l \in loads, PollServed(l) PROVE DashboardInv'
  <2> DEFINE answer == [stage |-> "served", version |-> Latest]
  <2>1. UNCHANGED <<pendingAt, store, eventSource, shared, waiters, forms, webBounds>>
    BY <1>2 DEF PollServed
  <2>2. answer \in WebLoads /\ answer.version \in 1..Latest
    BY DEF WebLoads
  <2>3. loads' = (loads \ {l}) \cup {answer}
    BY <1>2 DEF PollServed
  <2> HIDE DEF answer
  <2>4. loads' \subseteq WebLoads /\ \A k \in loads' : k.stage = "served" => k.version \in 1..Latest
    BY <2>2, <2>3
  <2>5. QED
    BY <2>1, <2>4, StoreMoves
<1>3. ASSUME NEW l \in loads, PollReturns(l) PROVE DashboardInv'
  <2>1. /\ UNCHANGED <<pendingAt, eventSource, shared, forms, webBounds>>
        /\ Arrives(l.version, <<>>) /\ l.version \in 1..Latest /\ loads' \subseteq loads
    BY <1>3 DEF PollReturns
  <2>2. /\ store' \in KnownStores /\ waiters' = <<>> /\ (Shown(store) => Shown(store'))
        /\ store'.newest = IF l.version > store.newest THEN l.version ELSE store.newest
    BY <2>1, ArrivalKeeps
  <2>3. store'.newest \in store.newest..Latest
    BY <2>1, <2>2
  <2>4. QED
    BY <2>1, <2>2, <2>3, StoreMoves
<1>4. ASSUME NEW l \in loads, PollFails(l) PROVE DashboardInv'
  <2>1. /\ UNCHANGED <<pendingAt, eventSource, shared, forms>>
        /\ Fails(<<>>) /\ loads' \subseteq loads
        /\ webBounds' \in WebCounts
    BY <1>4, CountedOnce DEF PollFails
  <2>2. store' \in KnownStores /\ waiters' = <<>> /\ Shown(store') /\ store'.newest = store.newest
    BY <2>1, FailureKeeps
  <2>3. QED
    BY <2>1, <2>2, StoreMoves
<1>5. QED
  BY <1>1, <1>2, <1>3, <1>4

LEMMA SharedMoves ==
  ASSUME DashboardInv, SharedServed \/ SharedReturns \/ SharedFails
  PROVE  DashboardInv'
<1> USE DashboardKnown
<1>1. CASE SharedServed
  <2>1. UNCHANGED <<pendingAt, store, eventSource, loads, waiters, forms, webBounds>>
    BY <1>1 DEF SharedServed
  <2>2. shared' = [shared EXCEPT !.stage = "served", !.version = Latest] /\ Latest \in Nat
    BY <1>1 DEF SharedServed, DashboardTypeOk
  <2>3. shared' \in SharedFetches /\ shared'.version = Latest
    BY <2>2 DEF SharedFetches
  <2>4. QED
    BY <2>1, <2>3, StoreMoves
<1>2. shared.joined \in Seq(WebTasks)
  BY DEF SharedFetches
<1>3. ASSUME Leave(shared.joined) PROVE forms' \subseteq WebForms
  BY <1>3 DEF Leave
<1>4. CASE SharedReturns
  <2>1. /\ UNCHANGED <<pendingAt, eventSource, loads, webBounds>> /\ Leave(shared.joined)
        /\ Arrives(shared.version, shared.joined) /\ shared.version \in 1..Latest /\ shared' = NoFetch
    BY <1>4 DEF SharedReturns
  <2> DEFINE v == shared.version
  <2>2. /\ store' \in KnownStores /\ waiters' = <<>> /\ (Shown(store) => Shown(store'))
        /\ store'.newest = IF v > store.newest THEN v ELSE store.newest
    BY <1>2, <2>1, ArrivalKeeps
  <2>3. store'.newest \in store.newest..Latest
    BY <2>1, <2>2
  <2>4. QED
    BY <1>3, <2>1, <2>2, <2>3, StoreMoves
<1>5. CASE SharedFails
  <2>1. /\ UNCHANGED <<pendingAt, eventSource, loads>> /\ Leave(shared.joined) /\ shared' = NoFetch
        /\ webBounds' \in WebCounts
        /\ UNCHANGED <<store, waiters>> \/ Fails(shared.joined)
    BY <1>5, CountedOnce DEF SharedFails
  <2>2. /\ store' \in KnownStores /\ waiters' \in Seq(WebTasks)
        /\ (Shown(store) => Shown(store')) /\ store'.newest = store.newest
    BY <1>2, <2>1, FailureKeeps
  <2>3. QED
    BY <1>3, <2>1, <2>2, StoreMoves
<1>6. QED
  BY <1>1, <1>4, <1>5

\* The human chooses, comes back or opens a notification.
LEMMA HumanMoves ==
  ASSUME DashboardInv,
         \/ SelectElsewhere \/ Returns
         \/ \E q \in WebQuestions : SelectRequest(q) \/ OpenFromNotification(q)
  PROVE  DashboardInv'
<1> USE DashboardKnown
<1>1. CASE SelectElsewhere
  <2>1. /\ UNCHANGED <<pendingAt, eventSource, loads, shared, waiters, forms, webBounds>>
        /\ store' = Mounted(store, Cleared(store))
    BY <1>1 DEF SelectElsewhere
  <2>2. /\ Cleared(store) \in KnownStores /\ Shown(Cleared(store))
        /\ Cleared(store).newest = store.newest
    BY Clearing
  <2>3. store' \in KnownStores /\ (Shown(store) => Shown(store')) /\ store'.newest = store.newest
    BY <2>1, <2>2, MountedStays
  <2>4. QED
    BY <2>1, <2>3, StoreMoves
<1>2. CASE Returns
  <2>1. PICK old \in BOOLEAN : store' = [store EXCEPT !.syncing = @ \/ old]
    BY <1>2 DEF Returns
  <2>2. AsOnScreen(store, store')
    BY <2>1, StoreFields
  <2>3. store' \in KnownStores /\ (Shown(store) => Shown(store')) /\ store'.newest = store.newest
    BY <2>2, ScreenStays
  <2>4. /\ UNCHANGED <<pendingAt, eventSource, loads, waiters, forms>> /\ SharesFetch(RefreshTask)
        /\ webBounds' \in WebCounts
    BY <1>2, CountedOnce DEF Returns
  <2>5. RefreshTask \in WebTasks
    BY DashboardAssumption DEF RefreshTask, WebTasks, Home
  <2>6. shared' \in SharedFetches /\ (shared'.stage = "served" => shared'.version \in 1..Latest)
    BY <2>4, <2>5, SharesTask
  <2>7. QED
    BY <2>3, <2>4, <2>6, StoreMoves
<1>3. ASSUME NEW q \in WebQuestions, SelectRequest(q) PROVE DashboardInv'
  <2>1. /\ UNCHANGED <<pendingAt, eventSource, loads, shared, waiters, forms, webBounds>>
        /\ store' = Mounted(store, SelectedRequest(store, q)) /\ q \in OpenRequests(store)
    BY <1>3 DEF SelectRequest
  <2>2. q \in 0..MaxWebQuestions /\ q # Home
    BY DashboardAssumption DEF WebQuestions, Home
  <2>3. OpenRequests(store) # {} => store.status = "ready"
    BY DEF OpenRequests
  <2>4. SelectedRequest(store, q) \in KnownStores /\ SelectedRequest(store, q).newest = store.newest
    BY <2>2, Selecting
  <2>5. Shown(SelectedRequest(store, q))
    BY <2>1, <2>2, <2>3, Selecting DEF Shown
  <2>6. store' \in KnownStores /\ Shown(store') /\ store'.newest = store.newest
    BY <2>1, <2>4, <2>5, MountedStays
  <2>7. QED
    BY <2>1, <2>6, StoreMoves
<1>4. ASSUME NEW q \in WebQuestions, OpenFromNotification(q) PROVE DashboardInv'
  <2> DEFINE task == TapTask(q, store.attempt + 1)
             n == [Cleared(store) EXCEPT !.attempt = @ + 1, !.syncing = TRUE]
  <2>1. q \in 0..MaxWebQuestions /\ store.attempt + 1 \in Nat
    BY DashboardAssumption DEF WebQuestions, WebStores
  <2>2. task \in WebTasks
    BY <2>1 DEF TapTask, WebTasks
  <2>3. /\ Cleared(store) \in KnownStores /\ Shown(Cleared(store))
        /\ Cleared(store).newest = store.newest
    BY Clearing
  <2>4. AsOnScreen(Cleared(store), n)
    BY <2>3, StoreFields DEF KnownStores
  <2>5. /\ UNCHANGED <<pendingAt, eventSource, loads, forms>> /\ store' = Mounted(store, n)
        /\ webBounds' \in WebCounts
        /\ \/ waiters' = Append(waiters, task) /\ UNCHANGED shared
           \/ SharesFetch(task) /\ UNCHANGED waiters
    BY <1>4, CountedOnce DEF OpenFromNotification
  <2> HIDE DEF task, n
  <2>6. n \in KnownStores /\ Shown(n) /\ n.newest = store.newest
    BY <2>3, <2>4, ScreenStays
  <2>7. store' \in KnownStores /\ (Shown(store) => Shown(store')) /\ store'.newest = store.newest
    BY <2>5, <2>6, MountedStays
  <2>8. waiters' \in Seq(WebTasks)
    BY <2>2, <2>5
  <2>9. shared' \in SharedFetches /\ (shared'.stage = "served" => shared'.version \in 1..Latest)
    BY <2>2, <2>5, SharesTask
  <2>10. QED
    BY <2>5, <2>7, <2>8, <2>9, StoreMoves
<1>5. QED
  BY <1>1, <1>2, <1>3, <1>4

\* The human's submissions.
LEMMA FormsMove ==
  ASSUME DashboardInv,
         Resolve \/ \E f \in forms : Taken(f) \/ Responded(f) \/ CallLost(f)
  PROVE  DashboardInv'
<1> USE DashboardKnown
<1>1. CASE Resolve
  <2> DEFINE q == store.selection
             id == webBounds.forms + 1
  <2>1. q \in WebQuestions /\ id \in Nat
    BY <1>1, DashboardAssumption DEF Resolve, WebStores, WebQuestions, Home, WebCounts
  <2>2. /\ UNCHANGED <<pendingAt, eventSource, loads, shared, waiters>>
        /\ store' = [store EXCEPT !.resolving = @ \cup {q}, !.form = id]
        /\ forms' = forms \cup {FormTask(q, id, "sent")}
        /\ webBounds' \in WebCounts
    BY <1>1, CountedOnce DEF Resolve
  <2> HIDE DEF q, id
  <2>3. AsOnScreen(store, store')
    BY <2>1, <2>2, StoreFields
  <2>4. store' \in KnownStores /\ (Shown(store) => Shown(store')) /\ store'.newest = store.newest
    BY <2>3, ScreenStays
  <2>5. forms' \subseteq WebForms
    BY <2>1, <2>2 DEF FormTask, WebForms
  <2>6. QED
    BY <2>2, <2>4, <2>5, StoreMoves
<1>2. ASSUME NEW f \in forms
      PROVE  \A k \in {"sent", "taken", "stale", "refused", "answered", "outdated"} :
               (forms \ {f}) \cup {[f EXCEPT !.kind = k]} \subseteq WebForms
  BY DEF WebForms
<1>3. ASSUME NEW f \in forms, Taken(f) PROVE DashboardInv'
  <2>1. UNCHANGED <<store, loads, shared, waiters, webBounds>> /\ forms' \subseteq WebForms
    BY <1>2, <1>3 DEF Taken
  <2>2. CASE Told(pendingAt[Latest] \ {f.question})
    <3>1. pendingAt[Latest] \ {f.question} \in SUBSET WebQuestions
      OBVIOUS
    <3>2. QED
      BY <2>1, <2>2, <3>1, ToldKeeps
  <2>3. CASE UNCHANGED <<pendingAt, eventSource>>
    BY <2>1, <2>3, StoreMoves
  <2>4. QED
    BY <1>3, <2>2, <2>3 DEF Taken
<1>4. ASSUME NEW f \in forms, UNCHANGED <<pendingAt, eventSource, loads, shared, waiters>>,
             store' = Ended(store, f), forms' = forms \ {f}, webBounds' \in WebCounts
      PROVE  DashboardInv'
  <2>1. f \in WebTasks \cup WebForms
    OBVIOUS
  <2>2. store' \in KnownStores /\ (Shown(store) => Shown(store')) /\ store'.newest = store.newest
    BY <1>4, <2>1, EndedStays DEF Shown
  <2>3. QED
    BY <1>4, <2>2, StoreMoves
<1>5. ASSUME NEW f \in forms, Responded(f) PROVE DashboardInv'
  <2>1. CASE f.kind = "refused"
    BY <1>4, <1>5, <2>1 DEF Responded
  <2>2. CASE f.kind # "refused"
    <3>1. PICK k \in {"answered", "outdated"} :
            /\ forms' = (forms \ {f}) \cup {[f EXCEPT !.kind = k]}
            /\ SharesFetch([f EXCEPT !.kind = k])
      BY <1>5, <2>2 DEF Responded
    <3>2. UNCHANGED <<pendingAt, store, eventSource, loads, waiters, webBounds>>
      BY <1>5, <2>2 DEF Responded
    <3>3. [f EXCEPT !.kind = k] \in WebTasks
      <4>1. f \in WebForms /\ \A q \in WebQuestions : q \in 0..MaxWebQuestions
        BY DashboardAssumption DEF WebQuestions
      <4>2. QED
        BY <4>1 DEF WebForms, WebTasks
    <3>4. shared' \in SharedFetches /\ (shared'.stage = "served" => shared'.version \in 1..Latest)
      BY <3>1, <3>3, SharesTask
    <3>5. forms' \subseteq WebForms
      BY <1>2, <3>1
    <3>6. QED
      BY <3>2, <3>4, <3>5, StoreMoves
  <2>3. QED
    BY <2>1, <2>2
<1>6. ASSUME NEW f \in forms, CallLost(f) PROVE DashboardInv'
  BY <1>4, <1>6, CountedOnce DEF CallLost
<1>7. QED
  BY <1>1, <1>3, <1>5, <1>6

LEMMA DashboardStarts == DashboardInit => DashboardInv
<1> SUFFICES ASSUME DashboardInit PROVE DashboardInv
  OBVIOUS
<1>1. pendingAt \in Seq(SUBSET WebQuestions) /\ Latest = 1
  BY DEF DashboardInit, Latest
<1>2. store \in WebStores /\ store.status = "loading" /\ store.selection = Home
  BY DashboardAssumption DEF DashboardInit, WebStores, Home
<1>3. eventSource \in WebEvents(Latest) /\ webBounds \in WebCounts
  BY DEF DashboardInit, WebEvents, WebCounts
<1>4. shared \in SharedFetches /\ shared.stage = "none" /\ waiters \in Seq(WebTasks)
  BY DEF DashboardInit, NoFetch, SharedFetches
<1>5. DashboardTypeOk
  BY <1>1, <1>2, <1>3, <1>4 DEF DashboardInit, DashboardTypeOk, KnownStores
<1>6. Fresh(eventSource, store)
  BY <1>1 DEF DashboardInit, Fresh
<1>7. QED
  BY <1>2, <1>5, <1>6 DEF DashboardInv, Shown

LEMMA DashboardStep == DashboardInv /\ [DashboardNext]_dashboardVars => DashboardInv'
<1> SUFFICES ASSUME DashboardInv, [DashboardNext]_dashboardVars PROVE DashboardInv'
  OBVIOUS
<1>1. CASE UNCHANGED dashboardVars
  BY <1>1, DashboardKnown, StoreMoves DEF dashboardVars
<1>2. CASE DashboardNext
  BY <1>2, ServerMoves, EventsMove, PollsMove, SharedMoves, HumanMoves, FormsMove DEF DashboardNext
<1>3. QED
  BY <1>1, <1>2

\* However events, polls, shared fetches, submissions and notifications
\* interleave, and whatever fails: the Question on screen is pending in the state
\* the store has, or this tab was resolving it when it ended, or it ended while the
\* state could not be read; and with its events read, unless an older fetch
\* overwrote a newer state, the store has the state of the server.
THEOREM NoDeadQuestionShown == DashboardSpec => []NothingDeadOnScreen
<1>1. ASSUME DashboardInv PROVE NothingDeadOnScreen
  <2>1. Shown(store) /\ Fresh(eventSource, store)
    BY <1>1, DashboardKnown
  <2>2. ASSUME store.status = "ready", UpToDate PROVE OpenRequests(store) = pendingAt[Latest]
    BY <2>1, <2>2 DEF Fresh, UpToDate, OpenRequests
  <2>3. QED
    BY <2>1, <2>2 DEF Shown, NothingDeadOnScreen
<1>2. QED
  BY <1>1, DashboardStarts, DashboardStep, PTL DEF DashboardSpec

-----------------------------------------------------------------------------
\* Submissions of this tab, one at a time: what is under way has its mark, and
\* what it has joined to a fetch is all that may route the screen.
OneForm ==
  /\ \A f, g \in forms : f = g
  /\ \A f \in forms : f.question \in store.resolving
  /\ \A i \in 1..Len(shared.joined) : shared.joined[i].kind \in Marking => shared.joined[i] \in forms
  /\ \A i \in 1..Len(waiters) : waiters[i].kind = "tap"
FormInv == DashboardInv /\ OneForm

\* A step that leaves the submissions, their marks and what they joined alone.
LEMMA FormStays ==
  ASSUME OneForm, UNCHANGED <<shared, forms>>,
         store'.resolving = store.resolving, waiters' = waiters \/ waiters' = <<>>
  PROVE  OneForm'
<1>1. \A i \in 1..Len(waiters') : waiters'[i].kind = "tap"
  <2>1. CASE waiters' = waiters
    BY <2>1 DEF OneForm
  <2>2. CASE waiters' = <<>>
    BY <2>2
  <2>3. QED
    BY <2>1, <2>2
<1>2. QED
  BY <1>1 DEF OneForm

LEMMA WaitersUnmarked ==
  ASSUME OneForm
  PROVE  Unmarked(waiters) /\ Unmarked(<<>>) /\ OnlyRefresh(<<>>)
BY DEF OneForm, Unmarked, OnlyRefresh, Marking

\* What the submissions do not wait for leaves them.
LEMMA Leaving ==
  ASSUME FormInv, Leave(shared.joined)
  PROVE  /\ forms' = {} \/ (forms' = forms /\ Unmarked(shared.joined))
         /\ forms' \subseteq forms
<1>1. /\ shared.joined \in Seq(WebTasks) /\ DOMAIN shared.joined = 1..Len(shared.joined)
      /\ forms \subseteq WebForms
  BY DashboardKnown DEF FormInv, SharedFetches
<1>2. CASE Unmarked(shared.joined)
  <2>1. \A f \in forms, i \in DOMAIN shared.joined : shared.joined[i].kind # f.kind
    <3> TAKE f \in forms, i \in DOMAIN shared.joined
    <3>1. shared.joined[i] \in WebTasks /\ shared.joined[i].kind \notin Marking
      BY <1>1, <1>2 DEF Unmarked
    <3>2. shared.joined[i].kind \in {"tap", "refresh"}
      BY <3>1 DEF WebTasks, Marking
    <3>3. f.kind \notin {"tap", "refresh"}
      BY <1>1 DEF WebForms
    <3>4. QED
      BY <3>2, <3>3
  <2>2. forms' = forms
    BY <2>1 DEF Leave
  <2>3. QED
    BY <1>2, <2>2
<1>3. CASE ~Unmarked(shared.joined)
  <2>1. PICK i \in 1..Len(shared.joined) : shared.joined[i].kind \in Marking
    BY <1>3 DEF Unmarked
  <2>2. forms = {shared.joined[i]}
    BY <2>1 DEF FormInv, OneForm
  <2>3. forms' = {}
    BY <1>1, <2>1, <2>2 DEF Leave
  <2>4. QED
    BY <2>3
<1>4. QED
  BY <1>2, <1>3

LEMMA SharedOver ==
  ASSUME FormInv, Leave(shared.joined), shared' = NoFetch,
         waiters' = waiters \/ waiters' = <<>>,
         Unmarked(shared.joined) => store'.resolving = store.resolving
  PROVE  OneForm'
<1>1. shared'.joined = <<>>
  BY DEF NoFetch
<1>2. \A i \in 1..Len(waiters') : waiters'[i].kind = "tap"
  <2>1. CASE waiters' = waiters
    BY <2>1 DEF FormInv, OneForm
  <2>2. CASE waiters' = <<>>
    BY <2>2
  <2>3. QED
    BY <2>1, <2>2
<1>3. (\A f, g \in forms' : f = g) /\ (\A f \in forms' : f.question \in store'.resolving)
  BY Leaving DEF FormInv, OneForm
<1>4. \A i \in 1..Len(shared'.joined) : FALSE
  BY <1>1
<1>5. QED
  BY <1>2, <1>3, <1>4 DEF OneForm

LEMMA ArrivalForms ==
  ASSUME FormInv, EventsOpen \/ EventsBreak \/ HealthAnswers \/ StateArrives \/ Poll \/ ServerChanged
                  \/ SharedServed \/ SelectElsewhere
                  \/ (\E l \in loads : PollServed(l) \/ PollReturns(l) \/ PollFails(l))
                  \/ (\E q \in WebQuestions : SelectRequest(q))
  PROVE  OneForm'
<1> USE DashboardKnown DEF FormInv
<1>1. CASE EventsOpen \/ Poll \/ ServerChanged \/ \E l \in loads : PollServed(l)
  BY <1>1, FormStays DEF EventsOpen, Poll, ServerChanged, PollServed
<1>2. CASE SharedServed
  <2>1. /\ shared' = [shared EXCEPT !.stage = "served", !.version = Latest]
        /\ UNCHANGED <<store, waiters, forms>>
    BY <1>2 DEF SharedServed
  <2>2. shared'.joined = shared.joined
    BY <2>1 DEF SharedFetches
  <2>3. QED
    BY <2>1, <2>2 DEF OneForm
<1>3. CASE HealthAnswers
  <2>1. PICK t \in {"events", "unavailable"} : store' = [store EXCEPT !.transport = t]
    BY <1>3 DEF HealthAnswers
  <2>2. store'.resolving = store.resolving
    BY <2>1, StoreFields
  <2>3. QED
    BY <1>3, <2>2, FormStays DEF HealthAnswers
<1>4. CASE EventsBreak
  <2>1. store'.resolving = store.resolving
    BY <1>4, StoreFields DEF EventsBreak
  <2>2. QED
    BY <1>4, <2>1, FormStays DEF EventsBreak
<1>5. ASSUME NEW v \in 1..Latest, Arrives(v, <<>>), UNCHANGED <<shared, forms>> PROVE OneForm'
  <2>1. store'.resolving = store.resolving /\ waiters' = <<>>
    BY <1>5, ArrivalKeeps, WaitersUnmarked
  <2>2. QED
    BY <1>5, <2>1, FormStays
<1>6. CASE StateArrives
  <2>1. Head(eventSource.frames) \in 1..Latest
    BY <1>6 DEF StateArrives, WebEvents
  <2>2. QED
    BY <1>5, <1>6, <2>1 DEF StateArrives
<1>7. ASSUME NEW l \in loads, PollReturns(l) PROVE OneForm'
  BY <1>5, <1>7 DEF PollReturns
<1>8. ASSUME NEW l \in loads, PollFails(l) PROVE OneForm'
  <2>1. store'.resolving = store.resolving /\ waiters' = <<>>
    BY <1>8, FailureKeeps, WaitersUnmarked DEF PollFails
  <2>2. QED
    BY <1>8, <2>1, FormStays DEF PollFails
<1>9. CASE SelectElsewhere
  <2>1. Cleared(store) \in KnownStores /\ Cleared(store).resolving = store.resolving
    BY Clearing
  <2>2. store'.resolving = store.resolving
    BY <1>9, <2>1, MountedStays DEF SelectElsewhere
  <2>3. QED
    BY <1>9, <2>2, FormStays DEF SelectElsewhere
<1>10. ASSUME NEW q \in WebQuestions, SelectRequest(q) PROVE OneForm'
  <2>1. q \in 0..MaxWebQuestions
    BY DashboardAssumption DEF WebQuestions
  <2>2. SelectedRequest(store, q) \in KnownStores /\ SelectedRequest(store, q).resolving = store.resolving
    BY <2>1, Selecting
  <2>3. store'.resolving = store.resolving
    BY <1>10, <2>2, MountedStays DEF SelectRequest
  <2>4. QED
    BY <1>10, <2>3, FormStays DEF SelectRequest
<1>11. QED
  BY <1>1, <1>2, <1>3, <1>4, <1>6, <1>7, <1>8, <1>9, <1>10

\* A task that joins the shared fetch and is no submission's.
LEMMA OthersJoin ==
  ASSUME FormInv, NEW task \in WebTasks, task.kind \notin Marking \/ task \in forms',
         SharesFetch(task), store'.resolving = store.resolving, UNCHANGED waiters,
         forms' = forms \/ (forms' = {task} /\ Unmarked(shared.joined) /\ task.question \in store.resolving)
  PROVE  OneForm'
<1>1. \A i \in 1..Len(shared'.joined) :
        \/ shared'.joined[i] = task
        \/ i \in 1..Len(shared.joined) /\ shared'.joined[i] = shared.joined[i]
  BY DashboardKnown, SharesTask DEF FormInv
<1>2. \A i \in 1..Len(shared'.joined) : shared'.joined[i].kind \in Marking => shared'.joined[i] \in forms'
  BY <1>1 DEF FormInv, OneForm, Unmarked
<1>3. QED
  BY <1>2 DEF FormInv, OneForm

LEMMA HumanForms ==
  ASSUME FormInv, Returns \/ \E q \in WebQuestions : OpenFromNotification(q)
  PROVE  OneForm'
<1> USE DashboardKnown DEF FormInv
<1>1. CASE Returns
  <2>1. PICK old \in BOOLEAN : store' = [store EXCEPT !.syncing = @ \/ old]
    BY <1>1 DEF Returns
  <2>2. store'.resolving = store.resolving
    BY <2>1, StoreFields
  <2>3. RefreshTask \in WebTasks /\ RefreshTask.kind \notin Marking
    BY DashboardAssumption DEF RefreshTask, WebTasks, Home, Marking
  <2>4. QED
    BY <1>1, <2>2, <2>3, OthersJoin DEF Returns
<1>2. ASSUME NEW q \in WebQuestions, OpenFromNotification(q) PROVE OneForm'
  <2> DEFINE task == TapTask(q, store.attempt + 1)
             n == [Cleared(store) EXCEPT !.attempt = @ + 1, !.syncing = TRUE]
  <2>1. q \in 0..MaxWebQuestions /\ store.attempt + 1 \in Nat
    BY DashboardAssumption DEF WebQuestions, WebStores
  <2>2. task \in WebTasks /\ task.kind = "tap"
    BY <2>1 DEF TapTask, WebTasks
  <2>3. Cleared(store) \in KnownStores /\ Cleared(store).resolving = store.resolving
    BY Clearing
  <2>4. AsOnScreen(Cleared(store), n) /\ n.resolving = store.resolving
    BY <2>3, StoreFields DEF KnownStores
  <2>5. /\ UNCHANGED forms /\ store' = Mounted(store, n)
        /\ \/ waiters' = Append(waiters, task) /\ UNCHANGED shared
           \/ SharesFetch(task) /\ UNCHANGED waiters
    BY <1>2 DEF OpenFromNotification
  <2> HIDE DEF task, n
  <2>6. n \in KnownStores
    BY <2>3, <2>4, ScreenStays
  <2>7. store'.resolving = store.resolving
    BY <2>4, <2>5, <2>6, MountedStays
  <2>8. CASE waiters' = Append(waiters, task) /\ UNCHANGED shared
    <3>1. \A i \in 1..Len(waiters') : waiters'[i].kind = "tap"
      BY <2>2, <2>8 DEF OneForm
    <3>2. QED
      BY <2>5, <2>7, <2>8, <3>1 DEF OneForm
  <2>9. CASE SharesFetch(task) /\ UNCHANGED waiters
    BY <2>2, <2>5, <2>7, <2>9, OthersJoin DEF Marking
  <2>10. QED
    BY <2>5, <2>8, <2>9
<1>3. QED
  BY <1>1, <1>2

LEMMA SubmissionForms ==
  ASSUME FormInv, Resolve => forms = {},
         Resolve \/ \E f \in forms : Taken(f) \/ Responded(f) \/ CallLost(f)
  PROVE  OneForm'
<1> USE DashboardKnown DEF FormInv
<1>1. CASE Resolve
  <2> DEFINE q == store.selection
             id == webBounds.forms + 1
  <2>1. q \in WebQuestions /\ id \in Nat
    BY <1>1, DashboardAssumption DEF Resolve, WebStores, WebQuestions, Home, WebCounts
  <2>2. /\ UNCHANGED <<shared, waiters>> /\ forms = {}
        /\ store' = [store EXCEPT !.resolving = @ \cup {q}, !.form = id]
        /\ forms' = {FormTask(q, id, "sent")}
    BY <1>1 DEF Resolve
  <2> HIDE DEF q, id
  <2>3. store'.resolving = store.resolving \cup {q}
    <3>1. [store EXCEPT !.resolving = @ \cup {q}, !.form = id].resolving = store.resolving \cup {q}
      BY DEF WebStores
    <3>2. QED
      BY <2>2, <3>1
  <2>4. FormTask(q, id, "sent").question = q
    BY DEF FormTask
  <2>5. QED
    BY <2>2, <2>3, <2>4 DEF OneForm
\* A submission that has not joined the fetch is the only one.
<1>2. ASSUME NEW f \in forms, f.kind \notin Marking
      PROVE  forms = {f} /\ Unmarked(shared.joined) /\ f.question \in store.resolving
  BY <1>2 DEF OneForm, Unmarked
<1>3. ASSUME NEW f \in forms, f.kind \notin Marking, forms' = forms \ {f},
             store' = Ended(store, f), UNCHANGED <<shared, waiters>>
      PROVE  OneForm'
  <2>1. forms' = {} /\ Unmarked(shared.joined)
    BY <1>2, <1>3
  <2>2. QED
    BY <1>3, <2>1 DEF OneForm, Unmarked
<1>4. ASSUME NEW f \in forms, Taken(f) PROVE OneForm'
  <2>1. f.kind \notin Marking /\ UNCHANGED <<store, shared, waiters>>
    BY <1>4 DEF Taken, Marking
  <2>2. PICK k \in {"taken", "stale", "refused"} : forms' = (forms \ {f}) \cup {[f EXCEPT !.kind = k]}
    BY <1>4 DEF Taken
  <2>3. [f EXCEPT !.kind = k].question = f.question
    BY DEF WebForms
  <2>4. forms' = {[f EXCEPT !.kind = k]}
    BY <1>2, <2>1, <2>2
  <2>5. QED
    BY <1>2, <2>1, <2>3, <2>4 DEF OneForm, Unmarked
<1>5. ASSUME NEW f \in forms, Responded(f) PROVE OneForm'
  <2>1. f.kind \notin Marking
    BY <1>5 DEF Responded, Marking
  <2>2. CASE f.kind = "refused"
    BY <1>3, <1>5, <2>1, <2>2 DEF Responded
  <2>3. CASE f.kind # "refused"
    <3>1. PICK k \in {"answered", "outdated"} :
            /\ forms' = (forms \ {f}) \cup {[f EXCEPT !.kind = k]}
            /\ SharesFetch([f EXCEPT !.kind = k])
      BY <1>5, <2>3 DEF Responded
    <3> DEFINE task == [f EXCEPT !.kind = k]
    <3>2. UNCHANGED <<store, waiters>>
      BY <1>5, <2>3 DEF Responded
    <3>3. task \in WebTasks /\ task.question = f.question
      <4>1. f \in WebForms /\ \A q \in WebQuestions : q \in 0..MaxWebQuestions
        BY DashboardAssumption DEF WebQuestions
      <4>2. task.question = f.question /\ task.id = f.id /\ task.kind = k
        BY <4>1 DEF WebForms
      <4>3. task \in WebTasks
        BY <4>1 DEF WebForms, WebTasks
      <4>4. QED
        BY <4>2, <4>3
    <3>4. forms' = {task}
      BY <1>2, <2>1, <3>1
    <3> HIDE DEF task
    <3>5. SharesFetch(task)
      BY <3>1 DEF task
    <3>6. QED
      BY <1>2, <2>1, <3>2, <3>3, <3>4, <3>5, OthersJoin
  <2>4. QED
    BY <2>2, <2>3
<1>6. ASSUME NEW f \in forms, CallLost(f) PROVE OneForm'
  BY <1>3, <1>6 DEF CallLost, Marking
<1>7. QED
  BY <1>1, <1>4, <1>5, <1>6

LEMMA SharedForms ==
  ASSUME FormInv, SharedReturns \/ SharedFails
  PROVE  OneForm'
<1> USE DashboardKnown DEF FormInv
<1>1. shared.joined \in Seq(WebTasks)
  BY DEF SharedFetches
<1>2. CASE SharedReturns
  <2>1. /\ Arrives(shared.version, shared.joined) /\ shared.version \in 1..Latest
        /\ Leave(shared.joined) /\ shared' = NoFetch
    BY <1>2 DEF SharedReturns
  <2>2. waiters' = <<>> /\ (Unmarked(shared.joined) => store'.resolving = store.resolving)
    BY <1>1, <2>1, ArrivalKeeps, WaitersUnmarked
  <2>3. QED
    BY <2>1, <2>2, SharedOver
<1>3. CASE SharedFails
  <2>1. /\ Leave(shared.joined) /\ shared' = NoFetch
        /\ UNCHANGED <<store, waiters>> \/ Fails(shared.joined)
    BY <1>3 DEF SharedFails
  <2>2. CASE UNCHANGED <<store, waiters>>
    BY <2>1, <2>2, SharedOver
  <2>3. CASE Fails(shared.joined)
    <3>1. waiters' = <<>> /\ (Unmarked(shared.joined) => store'.resolving = store.resolving)
      BY <1>1, <2>3, FailureKeeps, WaitersUnmarked
    <3>2. QED
      BY <2>1, <3>1, SharedOver
  <2>4. QED
    BY <2>1, <2>2, <2>3
<1>4. QED
  BY <1>2, <1>3

\* Before a human submits, what was submitted before is over.
FormsOneByOne == [][Resolve => forms = {}]_dashboardVars

LEMMA FormStep ==
  FormInv /\ [DashboardNext]_dashboardVars /\ [Resolve => forms = {}]_dashboardVars => FormInv'
<1> SUFFICES ASSUME FormInv, [DashboardNext]_dashboardVars, [Resolve => forms = {}]_dashboardVars
             PROVE  FormInv'
  OBVIOUS
<1>1. DashboardInv'
  BY DashboardStep DEF FormInv
<1>2. CASE UNCHANGED dashboardVars
  BY <1>1, <1>2, FormStays DEF FormInv, dashboardVars
<1>3. CASE DashboardNext /\ (Resolve => forms = {})
  <2>1. OneForm'
    BY <1>3, ArrivalForms, HumanForms, SubmissionForms, SharedForms DEF DashboardNext
  <2>2. QED
    BY <1>1, <2>1 DEF FormInv
<1>4. QED
  BY <1>2, <1>3

\* The submission stays under way, and what was joined to the fetch is over.
LEMMA StayingForm ==
  ASSUME FormInv, NEW f \in forms \cap forms', Leave(shared.joined), ~OpeningNotification
  PROVE  OnlyRefresh(shared.joined)
<1>1. Unmarked(shared.joined) /\ shared.joined \in Seq(WebTasks) /\ waiters \in Seq(WebTasks)
  BY Leaving, DashboardKnown DEF FormInv, SharedFetches
<1>2. \A i \in 1..Len(shared.joined) : shared.joined[i].kind # "tap"
  <2> SUFFICES ASSUME NEW i \in 1..Len(shared.joined), shared.joined[i].kind = "tap" PROVE FALSE
    OBVIOUS
  <2> DEFINE n == Len(waiters) + i
  <2>1. /\ n \in DOMAIN (waiters \o shared.joined)
        /\ (waiters \o shared.joined)[n] = shared.joined[i]
    BY <1>1
  <2>2. QED
    BY <2>1 DEF OpeningNotification
<1>3. \A i \in 1..Len(shared.joined) : shared.joined[i] \in WebTasks
  BY <1>1
<1>4. QED
  BY <1>1, <1>2, <1>3 DEF OnlyRefresh, Unmarked, Marking, WebTasks

LEMMA NoWaiters ==
  ASSUME FormInv, ~OpeningNotification
  PROVE  OnlyRefresh(waiters)
<1>1. shared.joined \in Seq(WebTasks) /\ waiters \in Seq(WebTasks)
  BY DashboardKnown DEF FormInv, SharedFetches
<1>2. \A i \in 1..Len(waiters) :
        /\ i \in DOMAIN (waiters \o shared.joined) /\ (waiters \o shared.joined)[i] = waiters[i]
  BY <1>1
<1>3. QED
  BY <1>2 DEF FormInv, OneForm, OpeningNotification, OnlyRefresh

\* As long as this tab submits one thing at a time, no event, poll or fetch
\* takes the Question off the screen that it is resolving.
THEOREM ResolvingIsLeftAlone == DashboardSpec /\ FormsOneByOne => ResolvingStaysOnScreen
<1> DEFINE Remains ==
      \A f \in forms \cap forms' :
        /\ <<eventSource, loads, shared>>' # <<eventSource, loads, shared>> /\ webBounds'.taps = webBounds.taps
        /\ f.question = store.selection /\ store'.selection # store.selection
        => OpeningNotification
<1>1. DashboardInit => FormInv
  BY DashboardStarts DEF DashboardInit, FormInv, OneForm, NoFetch
<1>2. ASSUME FormInv, [DashboardNext]_dashboardVars PROVE [Remains]_dashboardVars
  <2> SUFFICES ASSUME DashboardNext, NEW f \in forms \cap forms',
                      <<eventSource, loads, shared>>' # <<eventSource, loads, shared>>,
                      webBounds'.taps = webBounds.taps, f.question = store.selection,
                      store'.selection # store.selection, ~OpeningNotification
               PROVE  FALSE
    BY <1>2 DEF dashboardVars
  <2> USE <1>2, DashboardKnown DEF FormInv
  <2>1. f.question \in store.resolving /\ store.selection # Home
    BY DashboardAssumption DEF OneForm, WebForms, WebQuestions, Home
  <2>2. OnlyRefresh(waiters) /\ OnlyRefresh(<<>>)
    BY NoWaiters, WaitersUnmarked
  <2>3. ASSUME NEW v \in 1..Latest, NEW joined \in Seq(WebTasks), OnlyRefresh(joined),
               Arrives(v, joined) \/ Fails(joined)
        PROVE  FALSE
    BY <2>1, <2>2, <2>3, ArrivalKeeps, FailureKeeps
  <2>4. shared.joined \in Seq(WebTasks) /\ (Leave(shared.joined) => OnlyRefresh(shared.joined))
    BY StayingForm DEF SharedFetches
  <2>5. CASE StateArrives
    <3>1. Head(eventSource.frames) \in 1..Latest
      BY <2>5 DEF StateArrives, WebEvents
    <3>2. QED
      BY <2>2, <2>3, <2>5, <3>1 DEF StateArrives
  <2>6. ASSUME NEW l \in loads, PollReturns(l) \/ PollFails(l) PROVE FALSE
    BY <2>2, <2>3, <2>6 DEF PollReturns, PollFails
  <2>7. CASE SharedReturns \/ SharedFails
    BY <2>3, <2>4, <2>7 DEF SharedReturns, SharedFails
  <2>8. CASE Returns \/ \E q \in WebQuestions : OpenFromNotification(q)
    BY <2>8, CountedOnce DEF Returns, OpenFromNotification
  <2>9. CASE SelectElsewhere \/ Resolve \/ \E q \in WebQuestions : SelectRequest(q)
    <3>1. CASE Resolve
      BY <3>1, StoreFields DEF Resolve
    <3>2. QED
      BY <2>9, <3>1 DEF SelectElsewhere, SelectRequest
  <2>10. ASSUME NEW g \in forms, Taken(g) \/ Responded(g) \/ CallLost(g) PROVE FALSE
    <3>1. store'.selection = store.selection
      BY <2>10, EndedStays DEF Taken, Responded, CallLost
    <3>2. QED
      BY <3>1
  <2>11. CASE HealthAnswers \/ EventsBreak
    <3>1. \A t \in {"events", "polling", "unavailable"} :
            [store EXCEPT !.transport = t].selection = store.selection
      BY DEF WebStores
    <3>2. QED
      BY <2>11, <3>1 DEF HealthAnswers, EventsBreak
  <2>12. CASE \/ ServerChanged \/ EventsOpen \/ Poll \/ SharedServed
              \/ \E l \in loads : PollServed(l)
    BY <2>12 DEF ServerChanged, EventsOpen, Poll, SharedServed, PollServed
  <2>13. QED
    BY <2>5, <2>6, <2>7, <2>8, <2>9, <2>10, <2>11, <2>12 DEF DashboardNext
<1>3. QED
  BY <1>1, <1>2, FormStep, PTL DEF DashboardSpec, FormsOneByOne, ResolvingStaysOnScreen

-----------------------------------------------------------------------------
(* Listings and histories, page by page. *)
\* How far a listing has come.  What is listed lies before the cursor, and the
\* Questions that matched all the while are listed or lie behind it.
Progress ==
  /\ reading.phase = "idle" => steady = {} /\ \A q \in PageQuestions : listed[q] = 0
  /\ reading.phase = "reading" =>
       /\ ~reading.cursor.first
       /\ \A q \in PageQuestions : listed[q] = 1 => ~Behind(reading.cursor, q)
       /\ \A q \in steady : listed[q] = 1 \/ Behind(reading.cursor, q)
  /\ reading.phase = "done" => \A q \in steady : listed[q] = 1
PagesInv ==
  /\ PagesTypeOk
  /\ \A q \in PageQuestions : listed[q] \in {0, 1} /\ (listed[q] = 1 => row[q].status # "none")
  /\ \A q \in steady : Matches(row[q], reading.filter, reading.cursor.feature)
  /\ Progress

LEMMA PagesStart == PagesInit => PagesInv
BY PagesAssumption
DEF PagesInit, PagesInv, PagesTypeOk, Progress, Rows, Statuses, Boundaries, Beginning, PageFilters

\* A Question that matches a filter exists.
LEMMA MatchesExists ==
  ASSUME NEW r \in Rows, NEW filter \in PageFilters, NEW feature, Matches(r, filter, feature)
  PROVE  r.status # "none"
BY PagesAssumption DEF Matches, HasStatus, PageFilters, Wants, Rows

\* A step of the store: rows that exist keep their creation time.
LEMMA ChangeKeeps ==
  ASSUME PagesInv, NEW q \in PageQuestions, NEW r \in Rows, Changes(q, r),
         row[q].status # "none" => r.status # "none" /\ r.at = row[q].at
  PROVE  PagesInv'
<1>1. /\ row' \in [PageQuestions -> Rows] /\ steady' \subseteq steady
      /\ \A p \in PageQuestions : row[p].status # "none" =>
           row'[p].status # "none" /\ row'[p].at = row[p].at
      /\ UNCHANGED <<callerFeature, reading, listed>> /\ rowChanges' \in Nat
  BY DEF PagesInv, PagesTypeOk, Changes, Stays
<1>2. PagesTypeOk'
  BY <1>1 DEF PagesInv, PagesTypeOk
<1>3. \A p \in PageQuestions : listed'[p] \in {0, 1} /\ (listed'[p] = 1 => row'[p].status # "none")
  BY <1>1 DEF PagesInv
<1>4. \A p \in steady' : Matches(row'[p], reading'.filter, reading'.cursor.feature)
  BY <1>1 DEF Changes, Stays
<1>5. \A p \in PageQuestions : row[p].status # "none" =>
        (Behind(reading.cursor, p)' <=> Behind(reading.cursor, p))
  BY <1>1 DEF Behind
<1>6. \A p \in steady : row[p].status # "none"
  BY MatchesExists DEF PagesInv, PagesTypeOk
<1>7. steady \subseteq PageQuestions
  BY DEF PagesInv, PagesTypeOk
<1>8. Progress'
  BY <1>1, <1>5, <1>6, <1>7 DEF PagesInv, Progress
<1>9. QED
  BY <1>2, <1>3, <1>4, <1>8 DEF PagesInv

\* The order of the rows is total, and the rows behind a cursor are those after
\* the row it names.
LEMMA Ordered ==
  ASSUME PagesTypeOk, NEW p \in PageQuestions, NEW q \in PageQuestions
  PROVE  /\ p = q \/ Before(p, q) \/ Before(q, p)
         /\ Behind(CursorAt(p), q) <=> Before(p, q)
         /\ Before(p, q) => ~Before(q, p) /\ p # q
<1>1. p \in Nat /\ q \in Nat /\ row[p].at \in Nat /\ row[q].at \in Nat
  BY PagesAssumption DEF PagesTypeOk, Rows
<1>2. QED
  BY <1>1 DEF Before, Behind, CursorAt

\* What is not behind a cursor comes before all that is.
LEMMA FurtherBehind ==
  ASSUME PagesTypeOk, NEW c \in Boundaries, ~c.first,
         NEW p \in PageQuestions, NEW q \in PageQuestions, Behind(c, p), ~Behind(c, q)
  PROVE  ~Behind(CursorAt(p), q)
<1>1. /\ p \in Nat /\ q \in Nat /\ row[p].at \in Nat /\ row[q].at \in Nat
      /\ c.at \in Nat /\ c.id \in Nat
  BY PagesAssumption DEF PagesTypeOk, Rows, Boundaries
<1>2. QED
  BY <1>1 DEF Behind, CursorAt

\* A page: `rows` are those a reading with this filter has still to list.
LEMMA PageKeeps ==
  ASSUME PagesInv, NEW filter \in PageFilters, NEW rows \in SUBSET PageQuestions,
         Receives(filter, rows), UNCHANGED <<row, callerFeature, rowChanges>>,
         steady' \subseteq PageQuestions,
         \A q \in steady' : Matches(row[q], filter, callerFeature),
         \A q \in rows : listed[q] = 0 /\ row[q].status # "none",
         \A q \in steady' : listed[q] = 1 \/ q \in rows,
         \A p \in rows, q \in PageQuestions : listed[q] = 1 => ~Behind(CursorAt(p), q)
  PROVE  PagesInv'
<1>1. PICK P \in SUBSET rows : Adds(P)
  BY DEF Receives, UpTo
<1>2. /\ listed' \in [PageQuestions -> Nat]
      /\ \A q \in PageQuestions : listed'[q] = IF q \in P THEN 1 ELSE listed[q]
  BY <1>1 DEF Adds, PagesInv, PagesTypeOk
<1>3. \A q \in PageQuestions : listed'[q] \in {0, 1} /\ (listed'[q] = 1 => row'[q].status # "none")
  BY <1>2 DEF PagesInv
<1>4. PagesTypeOk
  BY DEF PagesInv
<1>5. CASE /\ Adds(rows)
           /\ reading' = [phase |-> "done", filter |-> filter,
                          cursor |-> [Beginning EXCEPT !.feature = callerFeature]]
  <2>1. PagesTypeOk'
    BY <1>2, <1>4, <1>5 DEF PagesTypeOk, Beginning, Boundaries
  <2>2. \A q \in steady' : Matches(row'[q], reading'.filter, reading'.cursor.feature)
    BY <1>5 DEF Beginning
  <2>3. \A q \in rows : listed'[q] = 1
    BY <1>4, <1>5 DEF Adds, PagesTypeOk
  <2>4. \A q \in steady' : listed'[q] = 1
    BY <1>2, <2>3
  <2>5. Progress'
    BY <1>5, <2>4 DEF Progress
  <2>6. QED
    BY <1>3, <2>1, <2>2, <2>5 DEF PagesInv
<1>6. CASE \E last \in rows :
             /\ Adds(UpTo(last, rows))
             /\ reading' = [phase |-> "reading", filter |-> filter, cursor |-> CursorAt(last)]
  <2>1. PICK last \in rows :
          /\ Adds(UpTo(last, rows))
          /\ reading' = [phase |-> "reading", filter |-> filter, cursor |-> CursorAt(last)]
    BY <1>6
  <2>2. PagesTypeOk'
    <3>1. CursorAt(last) \in Boundaries
      BY <1>4, PagesAssumption DEF CursorAt, Boundaries, PagesTypeOk, Rows
    <3>2. QED
      BY <1>2, <1>4, <2>1, <3>1 DEF PagesTypeOk
  <2>3. \A q \in steady' : Matches(row'[q], reading'.filter, reading'.cursor.feature)
    BY <2>1 DEF CursorAt
  <2>4. \A q \in PageQuestions : listed'[q] = IF q \in UpTo(last, rows) THEN 1 ELSE listed[q]
    BY <1>4, <2>1 DEF Adds, PagesTypeOk, UpTo
  <2>5. ~reading'.cursor.first
    BY <2>1 DEF CursorAt
  <2>6. \A q \in PageQuestions : Behind(reading.cursor, q)' <=> Behind(CursorAt(last), q)
    BY <2>1 DEF Behind, CursorAt
  <2>7. ASSUME NEW q \in PageQuestions, listed'[q] = 1
        PROVE  ~Behind(CursorAt(last), q)
    <3>1. CASE q \in UpTo(last, rows)
      BY <1>4, <3>1, Ordered DEF UpTo
    <3>2. CASE q \notin UpTo(last, rows)
      BY <2>4, <2>7, <3>2
    <3>3. QED
      BY <3>1, <3>2
  <2>8. ASSUME NEW q \in steady'
        PROVE  listed'[q] = 1 \/ Behind(CursorAt(last), q)
    <3>1. CASE q \in rows
      BY <1>4, <2>4, <3>1, Ordered DEF UpTo
    <3>2. CASE q \notin rows
      BY <2>4, <3>2
    <3>3. QED
      BY <3>1, <3>2
  <2>9. Progress'
    BY <2>1, <2>5, <2>6, <2>7, <2>8 DEF Progress
  <2>10. QED
    BY <1>3, <2>2, <2>3, <2>9 DEF PagesInv
<1>7. QED
  BY <1>5, <1>6 DEF Receives

LEMMA PagesStep == PagesInv /\ [PagesNext]_pageVars => PagesInv'
<1> SUFFICES ASSUME PagesInv, [PagesNext]_pageVars
             PROVE  PagesInv'
  OBVIOUS
<1>1. PagesTypeOk /\ reading.filter \in PageFilters /\ reading.cursor \in Boundaries
  BY DEF PagesInv, PagesTypeOk
<1>2. \A q \in PageQuestions : row[q] \in Rows
  BY <1>1 DEF PagesTypeOk
<1>3. ASSUME NEW q \in PageQuestions, CreateRow(q)
      PROVE  PagesInv'
  <2>1. PICK at \in 0..MaxCreatedAt, mine \in BOOLEAN, f \in PageFeatures :
          Changes(q, [status |-> "pending", mine |-> mine, feature |-> f, at |-> at])
    BY <1>3 DEF CreateRow
  <2>2. [status |-> "pending", mine |-> mine, feature |-> f, at |-> at] \in Rows
    BY PagesAssumption DEF Rows, Statuses
  <2>3. QED
    BY <1>3, <2>1, <2>2, ChangeKeeps DEF CreateRow
<1>4. ASSUME NEW q \in PageQuestions, AnswerRow(q) \/ CloseRow(q) \/ ReadRow(q) \/ HandOver(q)
      PROVE  PagesInv'
  <2>1. PICK r : /\ Changes(q, r)
                 /\ \/ \E st \in {"unread", "closed", "read"} : r = [row[q] EXCEPT !.status = st]
                    \/ row[q].status = "pending" /\ r = [row[q] EXCEPT !.mine = ~row[q].mine]
    BY <1>4 DEF AnswerRow, CloseRow, ReadRow, HandOver
  <2>2. r \in Rows /\ r.status # "none" /\ r.at = row[q].at
    BY <1>2, <2>1 DEF Rows, Statuses
  <2>3. QED
    BY <2>1, <2>2, ChangeKeeps
<1>5. ASSUME NEW f \in PageFeatures, SwitchFeature(f)
      PROVE  PagesInv'
  <2>1. /\ UNCHANGED <<row, reading, listed, steady>> /\ callerFeature' \in PageFeatures
        /\ rowChanges' \in Nat
    BY <1>5 DEF SwitchFeature, PagesInv, PagesTypeOk
  <2>2. \A q : Behind(reading.cursor, q)' <=> Behind(reading.cursor, q)
    BY <2>1 DEF Behind
  <2>3. QED
    BY <2>1, <2>2 DEF PagesInv, PagesTypeOk, Progress
<1>6. ASSUME NEW filter \in PageFilters, FirstPage(filter)
      PROVE  PagesInv'
  <2> DEFINE rows == Remaining(filter, Beginning)
  <2>1. \A q \in rows : q \in PageQuestions /\ Matches(row[q], filter, callerFeature)
    BY DEF Remaining
  <2>2. \A q \in PageQuestions : listed[q] = 0
    BY <1>6 DEF FirstPage, PagesInv, Progress
  <2>3. \A q \in rows : row[q].status # "none"
    BY <1>2, <2>1, MatchesExists
  <2> HIDE DEF rows
  <2>4. Receives(filter, rows) /\ steady' = rows /\ UNCHANGED <<row, callerFeature, rowChanges>>
    BY <1>6 DEF FirstPage, rows
  <2>5. QED
    BY <2>1, <2>2, <2>3, <2>4, PageKeeps
<1>7. ASSUME NextPage
      PROVE  PagesInv'
  <2> DEFINE rows == Remaining(reading.filter, reading.cursor)
  <2>1. \A q \in rows : /\ q \in PageQuestions /\ Matches(row[q], reading.filter, callerFeature)
                        /\ Behind(reading.cursor, q)
    BY DEF Remaining
  <2>2. \A q \in rows : row[q].status # "none"
    BY <1>1, <1>2, <2>1, MatchesExists
  <2>3. /\ reading.phase = "reading" /\ reading.cursor.feature = callerFeature
        /\ Progress
    BY <1>7 DEF NextPage, PagesInv
  <2>4. \A q \in rows : listed[q] = 0
    BY <2>1, <2>3 DEF Progress, PagesInv
  <2>5. \A q \in steady : q \in PageQuestions /\ Matches(row[q], reading.filter, callerFeature)
    BY <2>3 DEF PagesInv, PagesTypeOk
  <2>6. \A q \in steady : listed[q] = 1 \/ q \in rows
    BY <2>3, <2>5 DEF Progress, Remaining
  <2>7. \A p \in rows, q \in PageQuestions : listed[q] = 1 => ~Behind(CursorAt(p), q)
    BY <1>1, <2>1, <2>3, FurtherBehind DEF Progress
  <2> HIDE DEF rows
  <2>8. /\ Receives(reading.filter, rows) /\ steady' = steady
        /\ UNCHANGED <<row, callerFeature, rowChanges>>
    BY <1>7 DEF NextPage, rows
  <2>9. QED
    BY <1>1, <2>1, <2>2, <2>4, <2>5, <2>6, <2>7, <2>8, PageKeeps
<1>8. CASE Refused \/ ListAgain
  <2>1. /\ steady' = {} /\ listed' = [q \in PageQuestions |-> 0]
        /\ reading' = [reading EXCEPT !.phase = "idle", !.cursor = Beginning]
        /\ UNCHANGED <<row, callerFeature, rowChanges>>
    BY <1>8 DEF Refused, ListAgain
  <2>2. Beginning \in Boundaries
    BY DEF Beginning, Boundaries
  <2>3. reading'.phase = "idle" /\ PagesTypeOk'
    BY <1>1, <2>1, <2>2 DEF PagesTypeOk
  <2>4. QED
    BY <2>1, <2>3 DEF PagesInv, Progress
<1>9. CASE UNCHANGED pageVars
  <2>1. \A q : Behind(reading.cursor, q)' <=> Behind(reading.cursor, q)
    BY <1>9 DEF pageVars, Behind
  <2>2. QED
    BY <1>9, <2>1 DEF pageVars, PagesInv, PagesTypeOk, Progress
<1>10. QED
  BY <1>3, <1>4, <1>5, <1>6, <1>7, <1>8, <1>9 DEF PagesNext

\* Whatever is created, answered, read, closed and handed over between the
\* pages, no Question is listed twice, and none is missed that matched at every
\* moment.
THEOREM ListingIsComplete == PagesSpec => []ListingComplete
<1>1. PagesInv => ListingComplete
  BY DEF PagesInv, Progress, ListingComplete
<1>2. QED
  BY <1>1, PagesStart, PagesStep, PTL DEF PagesSpec

-----------------------------------------------------------------------------
(* The events of a history that the compact view picks out.                  *)

Picks(es, I, pick) ==
  /\ pick \in [0..Len(es) -> Seq(Events)] /\ pick[0] = <<>>
  /\ \A n \in 1..Len(es) :
       pick[n] = IF n \in I THEN Append(pick[n - 1], es[n]) ELSE pick[n - 1]

LEMMA PickedBy ==
  ASSUME NEW es \in Seq(Events), NEW I
  PROVE  \E pick : Picks(es, I, pick) /\ Picked(es, I) = pick[Len(es)]
<1> DEFINE L == Len(es)
           S == Seq(Events)
           step == [ib \in (1..L) \X S |->
                      IF ib[1] \in I THEN Append(ib[2], es[ib[1]]) ELSE ib[2]]
           Eq(h) == h = [n \in 0..L |-> IF n = 0 THEN <<>> ELSE
                           IF n \in I THEN Append(h[n - 1], es[n]) ELSE h[n - 1]]
           c == CHOOSE h : Eq(h)
<1>1. L \in Nat /\ 0 \in 0..L /\ L \in 0..L /\ <<>> \in S /\ \A n \in 1..L : es[n] \in Events
  OBVIOUS
<1>2. step \in [(1..L) \X S -> S]
  OBVIOUS
<1> HIDE DEF L
<1>3. PICK g : Iteration(g, L, S, <<>>, step)
  <2> HIDE DEF step, S
  <2>1. QED
    BY <1>1, <1>2, Iterates
<1>4. /\ g \in [0..L -> S] /\ g[0] = <<>>
      /\ \A n \in 1..L : g[n] = IF n \in I THEN Append(g[n - 1], es[n]) ELSE g[n - 1]
  <2>1. g \in [0..L -> S] /\ g[0] = <<>>
    BY <1>3 DEF Iteration
  <2>2. ASSUME NEW n \in 1..L
        PROVE  g[n] = IF n \in I THEN Append(g[n - 1], es[n]) ELSE g[n - 1]
    <3>1. n - 1 \in 0..L
      BY <1>1
    <3>2. g[n - 1] \in S /\ g[n] = step[<<n, g[n - 1]>>]
      BY <1>3, <3>1 DEF Iteration
    <3> HIDE DEF S
    <3>3. QED
      BY <3>2
  <2>3. QED
    BY <2>1, <2>2
<1>5. Eq(g)
  <2> DEFINE r == [n \in 0..L |-> IF n = 0 THEN <<>> ELSE
                     IF n \in I THEN Append(g[n - 1], es[n]) ELSE g[n - 1]]
  <2>1. \A n \in 0..L : n # 0 => n \in 1..L
    BY <1>1
  <2>2. \A n \in 0..L : r[n] = g[n]
    BY <1>4, <2>1
  <2>3. g = [n \in 0..L |-> g[n]]
    BY <1>4
  <2>4. r = [n \in 0..L |-> r[n]]
    OBVIOUS
  <2> HIDE DEF r
  <2>5. g = r
    BY <2>2, <2>3, <2>4
  <2>6. QED
    BY <2>5 DEF r
<1>6. Eq(c)
  <2> HIDE DEF Eq
  <2>1. QED
    BY <1>5
<1>7. \A n \in 0..L : c[n] = g[n]
  <2> DEFINE T == {n \in 0..L : c[n] = g[n]}
  <2> HIDE DEF c
  <2>1. 0 \in T
    BY <1>1, <1>4, <1>6
  <2>2. ASSUME NEW n \in 1..L, n - 1 \in T PROVE n \in T
    <3>1. n \in 0..L /\ n # 0
      BY <1>1
    <3>2. c[n - 1] = g[n - 1]
      BY <2>2
    <3>3. c[n] = IF n \in I THEN Append(c[n - 1], es[n]) ELSE c[n - 1]
      BY <1>6, <3>1
    <3>4. QED
      BY <1>4, <3>1, <3>2, <3>3
  <2> HIDE DEF T
  <2>3. \A n \in 0..L : n \in T
    BY <1>1, <2>1, <2>2, StepByStep
  <2>4. QED
    BY <2>3 DEF T
<1>8. Picked(es, I) = c[L]
  BY DEF Picked, L
<1>9. Picked(es, I) = g[L]
  <2> HIDE DEF c
  <2>1. QED
    BY <1>1, <1>7, <1>8
<1>10. QED
  BY <1>4, <1>9 DEF Picks, L

LEMMA PickedType ==
  ASSUME NEW es \in Seq(Events), NEW I
  PROVE  Picked(es, I) \in Seq(Events)
<1>1. PICK pick : Picks(es, I, pick) /\ Picked(es, I) = pick[Len(es)]
  BY PickedBy
<1>2. Len(es) \in 0..Len(es)
  OBVIOUS
<1>3. QED
  BY <1>1, <1>2 DEF Picks

\* An event more: it is picked or not, and the others as they were.
LEMMA PickedMore ==
  ASSUME NEW es \in Seq(Events), NEW e \in Events, NEW I, NEW J,
         \A n \in 1..Len(es) : n \in I <=> n \in J
  PROVE  Picked(Append(es, e), J) =
           IF Len(es) + 1 \in J THEN Append(Picked(es, I), e) ELSE Picked(es, I)
<1> DEFINE L == Len(es)
           more == Append(es, e)
<1>1. /\ L \in Nat /\ more \in Seq(Events) /\ Len(more) = L + 1 /\ more[L + 1] = e
      /\ \A n \in 1..L : more[n] = es[n]
  OBVIOUS
<1>2. PICK g : Picks(es, I, g) /\ Picked(es, I) = g[L]
  BY PickedBy
<1> HIDE DEF more
<1>3. PICK h : Picks(more, J, h) /\ Picked(more, J) = h[L + 1]
  BY <1>1, PickedBy
<1>4. \A n \in 1..L : g[n] = IF n \in I THEN Append(g[n - 1], es[n]) ELSE g[n - 1]
  BY <1>2 DEF Picks
<1>5. \A n \in 1..L + 1 : h[n] = IF n \in J THEN Append(h[n - 1], more[n]) ELSE h[n - 1]
  BY <1>1, <1>3 DEF Picks
<1>6. g[0] = <<>> /\ h[0] = <<>>
  BY <1>2, <1>3 DEF Picks
<1> HIDE DEF L
<1>7. \A n \in 0..L : h[n] = g[n]
  <2> DEFINE T == {n \in 0..L : h[n] = g[n]}
  <2>1. 0 \in T
    BY <1>1, <1>6
  <2>2. ASSUME NEW n \in 1..L, n - 1 \in T PROVE n \in T
    <3>1. n \in 1..L + 1 /\ n \in 0..L /\ h[n - 1] = g[n - 1] /\ more[n] = es[n]
      BY <1>1, <2>2
    <3>2. n \in I <=> n \in J
      BY DEF L
    <3>3. QED
      BY <1>4, <1>5, <3>1, <3>2
  <2> HIDE DEF T
  <2>3. \A n \in 0..L : n \in T
    BY <1>1, <2>1, <2>2, StepByStep
  <2>4. QED
    BY <2>3 DEF T
<1>8. h[L] = g[L] /\ L + 1 \in 1..L + 1 /\ (L + 1) - 1 = L
  BY <1>1, <1>7
<1>9. h[L + 1] = IF L + 1 \in J THEN Append(g[L], e) ELSE g[L]
  BY <1>1, <1>5, <1>8
<1>10. QED
  BY <1>2, <1>3, <1>9 DEF more, L

LEMMA ContentMore ==
  ASSUME NEW es \in Seq(Events), NEW e \in Events
  PROVE  ContentEvents(Append(es, e)) =
           IF IsContentEvent(e) THEN Append(ContentEvents(es), e) ELSE ContentEvents(es)
<1> DEFINE more == Append(es, e)
           I == {i \in DOMAIN es : IsContentEvent(es[i])}
           J == {i \in DOMAIN more : IsContentEvent(more[i])}
<1>1. /\ DOMAIN es = 1..Len(es) /\ DOMAIN more = 1..(Len(es) + 1) /\ Len(es) \in Nat
      /\ more[Len(es) + 1] = e /\ \A n \in 1..Len(es) : more[n] = es[n]
  OBVIOUS
<1> HIDE DEF more
<1>2. /\ \A n \in 1..Len(es) : n \in I <=> n \in J
      /\ Len(es) + 1 \in J <=> IsContentEvent(e)
  BY <1>1
<1> HIDE DEF I, J
<1>3. Picked(Append(es, e), J) =
        IF Len(es) + 1 \in J THEN Append(Picked(es, I), e) ELSE Picked(es, I)
  BY <1>2, PickedMore
<1>4. Picked(more, J) = ContentEvents(more) /\ Picked(es, I) = ContentEvents(es)
  BY DEF ContentEvents, I, J
<1>5. QED
  BY <1>2, <1>3, <1>4 DEF more

\* The members of a concatenation.
Parts2(E, S, A, B) ==
  /\ E \in Seq(S) /\ Len(E) = Len(A) + Len(B)
  /\ \A i \in 1..Len(A) : E[i] = A[i]
  /\ \A i \in 1..Len(B) : E[Len(A) + i] = B[i]
Parts3(E, S, A, B, C) ==
  /\ E \in Seq(S) /\ Len(E) = Len(A) + Len(B) + Len(C)
  /\ \A i \in 1..Len(A) : E[i] = A[i]
  /\ \A i \in 1..Len(B) : E[Len(A) + i] = B[i]
  /\ \A i \in 1..Len(C) : E[Len(A) + Len(B) + i] = C[i]

LEMMA TwoParts ==
  ASSUME NEW S, NEW A \in Seq(S), NEW B \in Seq(S)
  PROVE  Parts2(A \o B, S, A, B)
<1> DEFINE E == A \o B
<1>1. /\ E \in Seq(S) /\ Len(E) = Len(A) + Len(B)
      /\ \A i \in 1..Len(A) : E[i] = A[i]
      /\ \A i \in 1..Len(B) : E[Len(A) + i] = B[i]
  OBVIOUS
<1> HIDE DEF E
<1>2. Parts2(E, S, A, B)
  BY <1>1 DEF Parts2
<1>3. QED
  BY <1>2 DEF E

LEMMA ThreeParts ==
  ASSUME NEW S, NEW A \in Seq(S), NEW B \in Seq(S), NEW C \in Seq(S)
  PROVE  Parts3(A \o B \o C, S, A, B, C)
<1> DEFINE D == A \o B
           E == D \o C
<1>1. Parts2(D, S, A, B)
  BY TwoParts
<1>2. Len(A) \in Nat /\ Len(B) \in Nat /\ Len(C) \in Nat
  OBVIOUS
<1> HIDE DEF D
<1>3. Parts2(E, S, D, C)
  <2>1. D \in Seq(S)
    BY <1>1 DEF Parts2
  <2>2. QED
    BY <2>1, TwoParts
<1> HIDE DEF E
<1>4. /\ \A i \in 1..Len(A) : i \in 1..Len(D)
      /\ \A i \in 1..Len(B) : Len(A) + i \in 1..Len(D)
  BY <1>1, <1>2 DEF Parts2
<1>5. /\ \A i \in 1..Len(A) : E[i] = A[i]
      /\ \A i \in 1..Len(B) : E[Len(A) + i] = B[i]
  BY <1>1, <1>3, <1>4 DEF Parts2
<1>6. Parts3(E, S, A, B, C)
  BY <1>1, <1>3, <1>5 DEF Parts2, Parts3
<1>7. QED
  BY <1>6 DEF D, E

\* The records of the compact view.
CompactShape(records, content, ss) ==
  /\ records \in Seq(Records) /\ Len(content) \in Nat
  /\ Len(content) + 1 <= Len(records)
  /\ records[1].fields = Fields /\ records[1].content = ss[1]
  /\ \A i \in 1..Len(content) :
       /\ records[i + 1].fields = content[i].changes
       /\ records[i + 1].content = ss[content[i].revision]
  /\ \A i \in Len(content) + 2..Len(records) : records[i].fields = {}

LEMMA CompactIs ==
  ASSUME NEW ss \in Seq(Contents), ss # <<>>, NEW es \in Seq(Events),
         \A i \in 1..Len(ContentEvents(es)) : ContentEvents(es)[i].revision \in 1..Len(ss)
  PROVE  CompactShape(CompactRecords(ss, es), ContentEvents(es), ss)
<1> DEFINE content == ContentEvents(es)
           other == OtherEvents(es)
           A == <<Snapshot("initial", 1, ss[1])>>
           B == [i \in 1..Len(content) |-> ContentRevision(content[i], ss[content[i].revision])]
           C == [i \in 1..Len(other) |-> EventRecord(other[i])]
<1>1. content \in Seq(Events) /\ other \in Seq(Events)
  BY PickedType DEF ContentEvents, OtherEvents
<1> HIDE DEF content, other
<1>2. /\ Len(content) \in Nat /\ Len(other) \in Nat
      /\ \A i \in 1..Len(content) : content[i] \in Events
      /\ \A i \in 1..Len(other) : other[i] \in Events
  BY <1>1
<1>3. /\ ss[1] \in Contents
      /\ \A i \in 1..Len(content) : ss[content[i].revision] \in Contents
  BY DEF content
<1>4. A \in Seq(Records) /\ Len(A) = 1 /\ A[1].fields = Fields /\ A[1].content = ss[1]
  BY <1>3 DEF Snapshot, Records
<1>5. \A i \in 1..Len(content) : ContentRevision(content[i], ss[content[i].revision]) \in Records
  BY <1>2, <1>3 DEF ContentRevision, Records, Events
<1>6. NoContent \in Contents
  BY DEF NoContent, Contents
<1>7. \A i \in 1..Len(other) : EventRecord(other[i]) \in Records
  BY <1>2, <1>6 DEF EventRecord, Records, Events
<1>8. /\ B \in Seq(Records) /\ Len(B) = Len(content)
      /\ \A i \in 1..Len(content) :
           B[i].fields = content[i].changes /\ B[i].content = ss[content[i].revision]
  BY <1>2, <1>5 DEF ContentRevision
<1>9. /\ C \in Seq(Records) /\ Len(C) = Len(other)
      /\ \A i \in 1..Len(other) : C[i].fields = {}
  BY <1>2, <1>7 DEF EventRecord
<1>10. CompactRecords(ss, es) = A \o B \o C
  BY DEF CompactRecords, content, other
<1> HIDE DEF A, B, C
<1> DEFINE records == A \o B \o C
<1> HIDE DEF records
<1>11. /\ records \in Seq(Records) /\ Len(records) = Len(A) + Len(B) + Len(C)
       /\ \A i \in 1..Len(A) : records[i] = A[i]
       /\ \A i \in 1..Len(B) : records[Len(A) + i] = B[i]
       /\ \A i \in 1..Len(C) : records[Len(A) + Len(B) + i] = C[i]
  <2>1. Parts3(records, Records, A, B, C)
    BY <1>4, <1>8, <1>9, ThreeParts DEF records
  <2>2. QED
    BY <2>1 DEF Parts3
<1>12. records[1] = A[1] /\ Len(records) = 1 + Len(content) + Len(other)
  BY <1>4, <1>8, <1>9, <1>11
<1>13. \A i \in 1..Len(content) : records[i + 1] = B[i]
  BY <1>2, <1>4, <1>8, <1>11
<1>14. ASSUME NEW i \in Len(content) + 2..Len(records)
       PROVE  records[i].fields = {}
  <2>1. i - (1 + Len(content)) \in 1..Len(C) /\ i = Len(A) + Len(B) + (i - (1 + Len(content)))
    BY <1>2, <1>4, <1>8, <1>9, <1>12
  <2>2. records[i] = C[i - (1 + Len(content))]
    BY <1>11, <2>1
  <2>3. QED
    BY <1>9, <2>1, <2>2
<1>15. CompactShape(records, content, ss)
  BY <1>2, <1>4, <1>8, <1>11, <1>12, <1>13, <1>14 DEF CompactShape
<1>16. QED
  BY <1>10, <1>15 DEF records, content

LEMMA FullIs ==
  ASSUME NEW ss \in Seq(Contents), NEW es \in Seq(Events)
  PROVE  FullRecords(ss, es) \in Seq(Records)
<1> DEFINE A == [r \in 1..Len(ss) |-> Snapshot("revision", r, ss[r])]
           B == [e \in 1..Len(es) |-> EventRecord(es[e])]
<1>1. \A r \in 1..Len(ss) : Snapshot("revision", r, ss[r]) \in Records
  BY DEF Snapshot, Records
<1>2. NoContent \in Contents
  BY DEF NoContent, Contents
<1>3. \A e \in 1..Len(es) : EventRecord(es[e]) \in Records
  <2>1. \A e \in 1..Len(es) : es[e] \in Events
    OBVIOUS
  <2>2. QED
    BY <1>2, <2>1 DEF EventRecord, Records, Events
<1>4. A \in Seq(Records) /\ B \in Seq(Records)
  BY <1>1, <1>3
<1> HIDE DEF A, B
<1>5. A \o B \in Seq(Records)
  BY <1>4
<1>6. QED
  BY <1>5 DEF FullRecords, A, B

\* The last revision that changed a field left it as it is now.
LastChange(content, ss, f) ==
  \E j \in 0..Len(content) :
    /\ \A i \in j + 1..Len(content) : f \notin content[i].changes
    /\ IF j = 0 THEN ss[1][f] = ss[Len(ss)][f]
       ELSE f \in content[j].changes /\ ss[content[j].revision][f] = ss[Len(ss)][f]

LEMMA RebuiltIsNow ==
  ASSUME NEW ss \in Seq(Contents), ss # <<>>, NEW es \in Seq(Events),
         \A i \in 1..Len(ContentEvents(es)) : ContentEvents(es)[i].revision \in 1..Len(ss),
         NEW f \in Fields, LastChange(ContentEvents(es), ss, f)
  PROVE  Rebuilt(CompactRecords(ss, es), f) = ss[Len(ss)][f]
<1> DEFINE records == CompactRecords(ss, es)
           content == ContentEvents(es)
           carrying == {i \in 1..Len(records) : f \in records[i].fields}
           latest == CHOOSE i \in carrying : \A j \in carrying : j <= i
<1>1. /\ records \in Seq(Records) /\ Len(content) \in Nat
      /\ Len(content) + 1 <= Len(records)
      /\ records[1].fields = Fields /\ records[1].content = ss[1]
      /\ \A i \in 1..Len(content) :
           /\ records[i + 1].fields = content[i].changes
           /\ records[i + 1].content = ss[content[i].revision]
      /\ \A i \in Len(content) + 2..Len(records) : records[i].fields = {}
  <2> HIDE DEF records, content
  <2>1. CompactShape(records, content, ss)
    BY CompactIs DEF records, content
  <2>2. QED
    BY <2>1 DEF CompactShape
<1>2. PICK j \in 0..Len(content) :
        /\ \A i \in j + 1..Len(content) : f \notin content[i].changes
        /\ IF j = 0 THEN ss[1][f] = ss[Len(ss)][f]
           ELSE f \in content[j].changes /\ ss[content[j].revision][f] = ss[Len(ss)][f]
  BY DEF LastChange
<1>3. Rebuilt(CompactRecords(ss, es), f) = records[latest].content[f]
  BY DEF Rebuilt
<1> HIDE DEF records, content, latest
<1>4. Len(records) \in Nat
  BY <1>1
<1>5. j + 1 \in carrying /\ records[j + 1].content[f] = ss[Len(ss)][f]
  <2>1. CASE j = 0
    BY <1>1, <1>2, <1>4, <2>1
  <2>2. CASE j # 0
    BY <1>1, <1>2, <1>4, <2>2
  <2>3. QED
    BY <2>1, <2>2
<1>6. ASSUME NEW i \in carrying PROVE i <= j + 1
  <2>1. SUFFICES ASSUME ~(i <= j + 1) PROVE FALSE
    OBVIOUS
  <2>2. i \in 1..Len(records) /\ f \in records[i].fields
    OBVIOUS
  <2>3. i \notin Len(content) + 2..Len(records)
    BY <1>1, <2>2
  <2>4. i - 1 \in j + 1..Len(content) /\ i - 1 \in 1..Len(content) /\ (i - 1) + 1 = i
    BY <1>1, <1>4, <2>1, <2>2, <2>3
  <2>5. records[i].fields = content[i - 1].changes
    BY <1>1, <2>4
  <2>6. QED
    BY <1>2, <2>2, <2>4, <2>5
<1>7. latest \in carrying /\ \A i \in carrying : i <= latest
  BY <1>5, <1>6 DEF latest
<1>8. latest = j + 1
  BY <1>4, <1>5, <1>6, <1>7
<1>9. QED
  BY <1>3, <1>5, <1>8

-----------------------------------------------------------------------------
(* A history through the steps of the Question and of its reader.            *)

\* The log tells how each field came to be what it is.
LogTells(ss, es) ==
  LET content == ContentEvents(es)
  IN /\ ss \in Seq(Contents) /\ ss # <<>> /\ es \in Seq(Events)
     /\ \A i \in 1..Len(content) : content[i].revision \in 1..Len(ss)
     /\ \A f \in Fields : LastChange(content, ss, f)

\* The reader has the beginning of the history its cursor is about.
ReaderInv ==
  /\ pages.phase = "idle" => got = <<>>
  /\ pages.phase # "idle" =>
       /\ pages.maxRevision \in 1..Len(snapshots) /\ pages.maxEvent \in 0..Len(events)
       /\ promised = RecordsUpTo(pages.view, pages.maxRevision, pages.maxEvent)
       /\ pages.offset \in 0..Len(promised) /\ got = SubSeq(promised, 1, pages.offset)
       /\ pages.phase = "done" => pages.offset = Len(promised)
       /\ pages.view = "events" =>
            \A f \in Fields : Rebuilt(promised, f) = snapshots[pages.maxRevision][f]

HistoryInv == HistoryTypeOk /\ LogTells(snapshots, events) /\ ReaderInv

LEMMA EmptyLog == ContentEvents(<<>>) = <<>>
<1> DEFINE I == {i \in DOMAIN <<>> : IsContentEvent(<<>>[i])}
<1>1. <<>> \in Seq(Events) /\ Len(<<>>) = 0
  OBVIOUS
<1> HIDE DEF I
<1>2. PICK pick : Picks(<<>>, I, pick) /\ Picked(<<>>, I) = pick[0]
  BY <1>1, PickedBy
<1>3. Picked(<<>>, I) = <<>>
  BY <1>2 DEF Picks
<1>4. QED
  BY <1>3 DEF ContentEvents, I

LEMMA HistoryStart == HistoryInit => HistoryInv
<1> SUFFICES ASSUME HistoryInit PROVE HistoryInv
  OBVIOUS
<1>1. HistoryTypeOk
  BY DEF HistoryInit, HistoryTypeOk, NoContent, Contents, Unread, Views
<1>2. snapshots \in Seq(Contents) /\ snapshots # <<>> /\ Len(snapshots) = 1 /\ events = <<>>
  BY <1>1 DEF HistoryTypeOk, HistoryInit
<1>3. ContentEvents(events) = <<>>
  BY <1>2, EmptyLog
<1>4. \A f \in Fields : LastChange(<<>>, snapshots, f)
  BY <1>2 DEF LastChange
<1>5. LogTells(snapshots, events)
  BY <1>2, <1>3, <1>4 DEF LogTells
<1>6. QED
  BY <1>1, <1>5 DEF HistoryInv, ReaderInv, HistoryInit, Unread

\* A revision, with or without an event of what it changed.
LEMMA LogGrows ==
  ASSUME NEW ss, NEW es, LogTells(ss, es), NEW last \in Contents, NEW e \in Events,
         \/ /\ IsContentEvent(e) /\ e.revision = Len(ss) + 1
            /\ \A f \in Fields : f \notin e.changes => last[f] = ss[Len(ss)][f]
         \/ ~IsContentEvent(e) /\ last = ss[Len(ss)]
  PROVE  LogTells(Append(ss, last), Append(es, e))
<1> DEFINE content == ContentEvents(es)
           more == Append(ss, last)
           after == ContentEvents(Append(es, e))
           L == Len(ss)
           k == Len(content)
<1>1. /\ ss \in Seq(Contents) /\ ss # <<>> /\ es \in Seq(Events)
      /\ \A i \in 1..Len(content) : content[i].revision \in 1..L
      /\ \A f \in Fields : LastChange(content, ss, f)
  BY DEF LogTells
<1>2. content \in Seq(Events)
  BY <1>1, PickedType DEF ContentEvents
<1>3. L \in Nat /\ L >= 1 /\ k \in Nat
  BY <1>1, <1>2
<1>4. after = IF IsContentEvent(e) THEN Append(content, e) ELSE content
  BY <1>1, ContentMore
<1> HIDE DEF content
<1>5. /\ more \in Seq(Contents) /\ more # <<>> /\ Len(more) = L + 1 /\ more[L + 1] = last
      /\ \A i \in 1..L : more[i] = ss[i]
  BY <1>1
<1>6. Append(es, e) \in Seq(Events)
  BY <1>1
<1> HIDE DEF more, L
<1>7. more[1] = ss[1] /\ \A i \in 1..k : more[content[i].revision] = ss[content[i].revision]
  BY <1>1, <1>3, <1>5
<1>8. CASE ~IsContentEvent(e)
  <2>1. after = content /\ last = ss[L]
    BY <1>4, <1>8 DEF L
  <2>2. \A i \in 1..Len(content) : content[i].revision \in 1..Len(more)
    BY <1>1, <1>3, <1>5
  <2>3. ASSUME NEW f \in Fields PROVE LastChange(content, more, f)
    <3>1. PICK j \in 0..Len(content) :
            /\ \A i \in j + 1..Len(content) : f \notin content[i].changes
            /\ IF j = 0 THEN ss[1][f] = ss[L][f]
               ELSE f \in content[j].changes /\ ss[content[j].revision][f] = ss[L][f]
      BY <1>1 DEF LastChange, L
    <3>2. more[Len(more)] = ss[L]
      BY <1>5, <2>1
    <3>3. j # 0 => j \in 1..k
      BY <1>3
    <3>4. IF j = 0 THEN more[1][f] = more[Len(more)][f]
          ELSE f \in content[j].changes /\ more[content[j].revision][f] = more[Len(more)][f]
      BY <1>7, <3>1, <3>2, <3>3
    <3>5. QED
      BY <3>1, <3>4 DEF LastChange
  <2> HIDE DEF after
  <2>4. LogTells(more, Append(es, e))
    BY <1>5, <1>6, <2>1, <2>2, <2>3 DEF LogTells, after
  <2>5. QED
    BY <2>4 DEF more
<1>9. CASE IsContentEvent(e)
  <2>1. /\ after = Append(content, e) /\ e.revision = L + 1
        /\ \A f \in Fields : f \notin e.changes => last[f] = ss[L][f]
    BY <1>4, <1>9 DEF L
  <2> HIDE DEF after
  <2>2. /\ Len(after) = k + 1 /\ after[k + 1] = e /\ \A i \in 1..k : after[i] = content[i]
    BY <1>2, <2>1
  <2> HIDE DEF k
  <2>3. \A i \in 1..Len(after) : after[i].revision \in 1..Len(more)
    BY <1>1, <1>3, <1>5, <2>1, <2>2 DEF k
  <2>4. ASSUME NEW f \in Fields PROVE LastChange(after, more, f)
    <3>1. CASE f \in e.changes
      <4>1. k + 1 \in 0..Len(after) /\ k + 1 # 0 /\ \A i \in (k + 1) + 1..Len(after) : FALSE
        BY <1>3, <2>2
      <4>2. f \in after[k + 1].changes /\ more[after[k + 1].revision][f] = more[Len(more)][f]
        BY <1>5, <2>1, <2>2, <3>1
      <4>3. QED
        BY <4>1, <4>2 DEF LastChange
    <3>2. CASE f \notin e.changes
      <4>1. PICK j \in 0..k :
              /\ \A i \in j + 1..k : f \notin content[i].changes
              /\ IF j = 0 THEN ss[1][f] = ss[L][f]
                 ELSE f \in content[j].changes /\ ss[content[j].revision][f] = ss[L][f]
        BY <1>1 DEF LastChange, L, k
      <4>2. more[Len(more)][f] = ss[L][f]
        BY <1>5, <2>1, <3>2
      <4>3. (j # 0 => j \in 1..k) /\ j \in 0..Len(after)
        BY <1>3, <2>2
      <4>4. ASSUME NEW i \in j + 1..Len(after) PROVE f \notin after[i].changes
        <5>1. i \in j + 1..k \/ i = k + 1
          BY <1>3, <2>2
        <5>2. i \in j + 1..k => i \in 1..k
          BY <1>3
        <5>3. QED
          BY <2>2, <3>2, <4>1, <5>1, <5>2
      <4>5. IF j = 0 THEN more[1][f] = more[Len(more)][f]
            ELSE f \in after[j].changes /\ more[after[j].revision][f] = more[Len(more)][f]
        BY <1>7, <2>2, <4>1, <4>2, <4>3
      <4>6. QED
        BY <4>3, <4>4, <4>5 DEF LastChange
    <3>3. QED
      BY <3>1, <3>2
  <2>5. LogTells(more, Append(es, e))
    BY <1>5, <1>6, <2>3, <2>4 DEF LogTells, after
  <2>6. QED
    BY <2>5 DEF more
<1>10. QED
  BY <1>8, <1>9

LEMMA EventOnly ==
  ASSUME NEW ss, NEW es, LogTells(ss, es), NEW e \in Events, ~IsContentEvent(e)
  PROVE  LogTells(ss, Append(es, e))
<1>1. es \in Seq(Events)
  BY DEF LogTells
<1>2. ContentEvents(Append(es, e)) = ContentEvents(es) /\ Append(es, e) \in Seq(Events)
  BY <1>1, ContentMore
<1>3. QED
  BY <1>2 DEF LogTells

\* The beginning of what grows stays.
LEMMA Beginnings ==
  ASSUME NEW S, NEW s \in Seq(S), NEW x \in S, NEW n \in 0..Len(s)
  PROVE  SubSeq(Append(s, x), 1, n) = SubSeq(s, 1, n)
OBVIOUS

LEMMA ReaderUndisturbed ==
  ASSUME HistoryInv, UNCHANGED <<pages, got, promised>>,
         snapshots' = snapshots \/ \E c \in Contents : snapshots' = Append(snapshots, c),
         events' = events \/ \E e \in Events : events' = Append(events, e)
  PROVE  ReaderInv'
<1>1. /\ snapshots \in Seq(Contents) /\ events \in Seq(Events)
      /\ Len(snapshots) \in Nat /\ Len(events) \in Nat
  BY DEF HistoryInv, HistoryTypeOk
<1>2. SUFFICES ASSUME pages.phase # "idle" PROVE ReaderInv'
  BY DEF HistoryInv, ReaderInv
<1>3. /\ pages.maxRevision \in 1..Len(snapshots) /\ pages.maxEvent \in 0..Len(events)
      /\ promised = RecordsUpTo(pages.view, pages.maxRevision, pages.maxEvent)
      /\ pages.offset \in 0..Len(promised) /\ got = SubSeq(promised, 1, pages.offset)
      /\ pages.phase = "done" => pages.offset = Len(promised)
      /\ pages.view = "events" =>
           \A f \in Fields : Rebuilt(promised, f) = snapshots[pages.maxRevision][f]
  BY <1>2 DEF HistoryInv, ReaderInv
<1>4. /\ pages.maxRevision \in 1..Len(snapshots')
      /\ snapshots'[pages.maxRevision] = snapshots[pages.maxRevision]
      /\ SubSeq(snapshots', 1, pages.maxRevision) = SubSeq(snapshots, 1, pages.maxRevision)
  <2>1. CASE snapshots' = snapshots
    BY <1>3, <2>1
  <2>2. ASSUME NEW c \in Contents, snapshots' = Append(snapshots, c)
        PROVE  <1>4!1 /\ <1>4!2 /\ <1>4!3
    <3>1. Len(snapshots') = Len(snapshots) + 1 /\ \A i \in 1..Len(snapshots) : snapshots'[i] = snapshots[i]
      BY <1>1, <2>2
    <3>2. pages.maxRevision \in 0..Len(snapshots)
      BY <1>1, <1>3
    <3>3. SubSeq(snapshots', 1, pages.maxRevision) = SubSeq(snapshots, 1, pages.maxRevision)
      BY <1>1, <2>2, <3>2, Beginnings
    <3>4. QED
      BY <1>1, <1>3, <3>1, <3>3
  <2>3. QED
    BY <2>1, <2>2
<1>5. /\ pages.maxEvent \in 0..Len(events')
      /\ SubSeq(events', 1, pages.maxEvent) = SubSeq(events, 1, pages.maxEvent)
  <2>1. CASE events' = events
    BY <1>3, <2>1
  <2>2. ASSUME NEW e \in Events, events' = Append(events, e)
        PROVE  <1>5!1 /\ <1>5!2
    <3>1. Len(events') = Len(events) + 1
      BY <1>1, <2>2
    <3>2. SubSeq(events', 1, pages.maxEvent) = SubSeq(events, 1, pages.maxEvent)
      BY <1>1, <1>3, <2>2, Beginnings
    <3>3. QED
      BY <1>1, <1>3, <3>1, <3>2
  <2>3. QED
    BY <2>1, <2>2
<1>6. RecordsUpTo(pages.view, pages.maxRevision, pages.maxEvent)'
        = RecordsUpTo(pages.view, pages.maxRevision, pages.maxEvent)
  BY <1>4, <1>5 DEF RecordsUpTo
<1>7. /\ pages' = pages /\ got' = got /\ promised' = promised
      /\ pages.maxRevision \in 1..Len(snapshots')
      /\ promised' = RecordsUpTo(pages.view, pages.maxRevision, pages.maxEvent)'
      /\ pages.view = "events" =>
           \A f \in Fields : Rebuilt(promised', f) = snapshots'[pages.maxRevision][f]
  BY <1>3, <1>4, <1>6
<1>8. QED
  BY <1>2, <1>3, <1>5, <1>7 DEF ReaderInv

LEMMA PageRead ==
  ASSUME HistoryInv, UNCHANGED <<snapshots, events>>,
         NEW view \in Views, NEW maxRevision \in 1..Len(snapshots), NEW maxEvent \in 0..Len(events),
         NEW offset \in Nat, NEW size \in HistoryPageSizes,
         Reads(view, maxRevision, maxEvent, offset, size),
         promised' = RecordsUpTo(view, maxRevision, maxEvent), promised' \in Seq(Records),
         offset <= Len(promised'), got = SubSeq(promised', 1, offset),
         view = "events" => \A f \in Fields : Rebuilt(promised', f) = snapshots[maxRevision][f]
  PROVE  HistoryInv'
<1> DEFINE records == RecordsUpTo(view, maxRevision, maxEvent)
           last == IF offset + size < Len(records) THEN offset + size ELSE Len(records)
<1>1. records \in Seq(Records) /\ Len(records) \in Nat /\ size \in Nat
      /\ Len(snapshots) \in Nat /\ Len(events) \in Nat
  BY HistoryAssumption DEF HistoryInv, HistoryTypeOk
<1>2. /\ got' = got \o SubSeq(records, offset + 1, last)
      /\ pages' = [phase |-> IF last < Len(records) THEN "reading" ELSE "done", view |-> view,
                   maxRevision |-> maxRevision, maxEvent |-> maxEvent, offset |-> last]
  BY DEF Reads
<1>3. promised' = records
  OBVIOUS
<1> HIDE DEF records
<1>4. last \in 0..Len(records) /\ offset <= last
  BY <1>1, <1>3
<1>5. last < Len(records) \/ last = Len(records)
  BY <1>1, <1>4
<1> HIDE DEF last
<1>6. got' = SubSeq(records, 1, last) /\ got' \in Seq(Records)
  BY <1>1, <1>2, <1>3, <1>4
<1>7. HistoryTypeOk'
  BY <1>1, <1>2, <1>3, <1>4, <1>6 DEF HistoryInv, HistoryTypeOk
<1>8. RecordsUpTo(view, maxRevision, maxEvent)' = records
  BY DEF RecordsUpTo, records
<1>9. ReaderInv'
  BY <1>2, <1>3, <1>4, <1>5, <1>6, <1>8 DEF ReaderInv
<1>10. QED
  BY <1>7, <1>9 DEF HistoryInv

LEMMA HistoryStep == HistoryInv /\ [HistoryNext]_historyVars => HistoryInv'
<1> SUFFICES ASSUME HistoryInv, [HistoryNext]_historyVars PROVE HistoryInv'
  OBVIOUS
<1>1. /\ HistoryTypeOk /\ LogTells(snapshots, events) /\ ReaderInv
      /\ snapshots \in Seq(Contents) /\ events \in Seq(Events) /\ snapshots # <<>>
      /\ Len(snapshots) \in Nat /\ Len(snapshots) >= 1 /\ Len(events) \in Nat
      /\ snapshots[Len(snapshots)] \in Contents
  BY DEF HistoryInv, HistoryTypeOk
<1>2. ASSUME NEW changes \in Revisable, NewRevision(changes)
      PROVE  HistoryInv'
  <2> DEFINE last == snapshots[Len(snapshots)]
             now == [f \in Fields |-> last[f] + IF f \in changes THEN 1 ELSE 0]
             e == [type |-> "revision", revision |-> Len(snapshots) + 1, changes |-> changes]
  <2>1. snapshots' = Append(snapshots, now) /\ events' = Append(events, e)
        /\ UNCHANGED <<pages, got, promised>>
    BY <1>2 DEF NewRevision, Grows, Logged
  <2>2. now \in Contents /\ \A f \in Fields : f \notin changes => now[f] = last[f]
    BY <1>1 DEF Contents
  <2>3. e \in Events /\ IsContentEvent(e) /\ e.revision = Len(snapshots) + 1 /\ e.changes = changes
    BY <1>1 DEF Events, IsContentEvent, Revisable
  <2> HIDE DEF now, e
  <2>4. LogTells(snapshots', events')
    BY <1>1, <2>1, <2>2, <2>3, LogGrows
  <2>5. ReaderInv'
    BY <2>1, <2>2, <2>3, ReaderUndisturbed
  <2>6. HistoryTypeOk'
    BY <1>1, <2>1, <2>2, <2>3 DEF HistoryTypeOk
  <2>7. QED
    BY <2>4, <2>5, <2>6 DEF HistoryInv
<1>3. ASSUME BareRevision
      PROVE  HistoryInv'
  <2> DEFINE last == snapshots[Len(snapshots)]
             e == [type |-> "bare", revision |-> Len(snapshots) + 1, changes |-> {}]
  <2>1. snapshots' = Append(snapshots, last) /\ events' = Append(events, e)
        /\ UNCHANGED <<pages, got, promised>> /\ last \in Contents
    BY <1>1, <1>3 DEF BareRevision, Grows, Logged
  <2>2. e \in Events /\ ~IsContentEvent(e)
    BY <1>1 DEF Events, IsContentEvent
  <2> HIDE DEF e
  <2>3. LogTells(snapshots', events')
    BY <1>1, <2>1, <2>2, LogGrows
  <2>4. ReaderInv'
    BY <2>1, <2>2, ReaderUndisturbed
  <2>5. HistoryTypeOk'
    BY <1>1, <2>1, <2>2 DEF HistoryTypeOk
  <2>6. QED
    BY <2>3, <2>4, <2>5 DEF HistoryInv
<1>4. ASSUME OtherEvent
      PROVE  HistoryInv'
  <2> DEFINE e == [type |-> "other", revision |-> Len(snapshots), changes |-> {}]
  <2>1. snapshots' = snapshots /\ events' = Append(events, e) /\ UNCHANGED <<pages, got, promised>>
    BY <1>4 DEF OtherEvent, Grows, Logged
  <2>2. e \in Events /\ ~IsContentEvent(e)
    BY <1>1 DEF Events, IsContentEvent
  <2> HIDE DEF e
  <2>3. LogTells(snapshots', events')
    BY <1>1, <2>1, <2>2, EventOnly
  <2>4. ReaderInv'
    BY <2>1, <2>2, ReaderUndisturbed
  <2>5. HistoryTypeOk'
    BY <1>1, <2>1, <2>2 DEF HistoryTypeOk
  <2>6. QED
    BY <2>3, <2>4, <2>5 DEF HistoryInv
<1>5. ASSUME NEW view \in Views, NEW size \in HistoryPageSizes, FirstHistoryPage(view, size)
      PROVE  HistoryInv'
  <2> DEFINE records == RecordsUpTo(view, Len(snapshots), Len(events))
  <2>1. /\ Reads(view, Len(snapshots), Len(events), 0, size) /\ promised' = records
        /\ UNCHANGED <<snapshots, events>> /\ pages.phase = "idle"
    BY <1>5 DEF FirstHistoryPage
  <2>2. SubSeq(snapshots, 1, Len(snapshots)) = snapshots /\ SubSeq(events, 1, Len(events)) = events
    BY <1>1
  <2>3. records = IF view = "full" THEN FullRecords(snapshots, events)
                  ELSE CompactRecords(snapshots, events)
    BY <2>2 DEF RecordsUpTo
  <2>4. CompactShape(CompactRecords(snapshots, events), ContentEvents(events), snapshots)
    BY <1>1, CompactIs DEF LogTells
  <2>5. FullRecords(snapshots, events) \in Seq(Records)
    BY <1>1, FullIs
  <2>6. records \in Seq(Records)
    BY <2>3, <2>4, <2>5 DEF CompactShape
  <2>7. view = "events" => \A f \in Fields : Rebuilt(records, f) = snapshots[Len(snapshots)][f]
    BY <1>1, <2>3, RebuiltIsNow DEF LogTells
  <2> HIDE DEF records
  <2>8. 0 <= Len(records) /\ SubSeq(records, 1, 0) = <<>>
    BY <2>6
  <2>9. got = <<>> /\ 0 \in Nat /\ Len(snapshots) \in 1..Len(snapshots) /\ Len(events) \in 0..Len(events)
    BY <1>1, <2>1 DEF ReaderInv
  <2>10. promised' \in Seq(Records) /\ 0 <= Len(promised') /\ got = SubSeq(promised', 1, 0)
    BY <2>1, <2>6, <2>8, <2>9
  <2>11. /\ promised' = RecordsUpTo(view, Len(snapshots), Len(events))
         /\ view = "events" => \A f \in Fields : Rebuilt(promised', f) = snapshots[Len(snapshots)][f]
    BY <2>1, <2>7 DEF records
  <2>12. QED
    BY <2>1, <2>9, <2>10, <2>11, PageRead
<1>6. ASSUME NEW size \in HistoryPageSizes, NextHistoryPage(size)
      PROVE  HistoryInv'
  <2>1. /\ pages.phase = "reading" /\ UNCHANGED <<snapshots, events, promised>>
        /\ Reads(pages.view, pages.maxRevision, pages.maxEvent, pages.offset, size)
    BY <1>6 DEF NextHistoryPage
  <2>2. /\ pages.maxRevision \in 1..Len(snapshots) /\ pages.maxEvent \in 0..Len(events)
        /\ promised = RecordsUpTo(pages.view, pages.maxRevision, pages.maxEvent)
        /\ pages.offset \in 0..Len(promised) /\ got = SubSeq(promised, 1, pages.offset)
        /\ pages.view = "events" =>
             \A f \in Fields : Rebuilt(promised, f) = snapshots[pages.maxRevision][f]
    BY <1>1, <2>1 DEF ReaderInv
  <2>3. pages.view \in Views /\ pages.offset \in Nat /\ promised \in Seq(Records)
        /\ Len(promised) \in Nat
    BY <1>1 DEF HistoryTypeOk
  <2>4. pages.offset <= Len(promised')
    BY <2>1, <2>2, <2>3
  <2>5. QED
    BY <2>1, <2>2, <2>3, <2>4, PageRead
<1>7. CASE ReadAgain
  <2>1. HistoryTypeOk'
    BY <1>1, <1>7 DEF ReadAgain, HistoryTypeOk, Unread, Views
  <2>2. QED
    BY <1>1, <1>7, <2>1 DEF ReadAgain, HistoryInv, ReaderInv, Unread
<1>8. CASE UNCHANGED historyVars
  <2>1. HistoryTypeOk' /\ LogTells(snapshots', events')
    BY <1>1, <1>8 DEF historyVars, HistoryTypeOk
  <2>2. ReaderInv'
    BY <1>8, ReaderUndisturbed DEF historyVars
  <2>3. QED
    BY <2>1, <2>2 DEF HistoryInv
<1>9. QED
  BY <1>2, <1>3, <1>4, <1>5, <1>6, <1>7, <1>8 DEF HistoryNext

\* However a Question is revised, moved and answered between the pages, the
\* reader gets the history there was at its first request, whole and in order,
\* and can tell from the compact view what the Question was.
THEOREM HistoryIsReadable == HistorySpec => []HistoryReadable
<1>1. ASSUME HistoryInv PROVE HistoryReadable
  <2>1. CASE pages.phase = "idle"
    BY <2>1 DEF HistoryReadable, PagesExact, ContentRebuilt
  <2>2. CASE pages.phase # "idle"
    <3>1. /\ pages.offset \in 0..Len(promised) /\ got = SubSeq(promised, 1, pages.offset)
          /\ pages.phase = "done" => pages.offset = Len(promised)
          /\ pages.view = "events" =>
               \A f \in Fields : Rebuilt(promised, f) = snapshots[pages.maxRevision][f]
      BY <1>1, <2>2 DEF HistoryInv, ReaderInv
    <3>2. promised \in Seq(Records)
      BY <1>1 DEF HistoryInv, HistoryTypeOk
    <3>3. pages.offset <= Len(promised)
      BY <3>1, <3>2
    <3>4. pages.phase = "done" => got = promised
      BY <3>1, <3>2
    <3>5. QED
      BY <3>1, <3>3, <3>4 DEF HistoryReadable, PagesExact, ContentRebuilt
  <2>3. QED
    BY <2>1, <2>2
<1>2. QED
  BY <1>1, HistoryStart, HistoryStep, PTL DEF HistorySpec

=============================================================================
