---------------------------- MODULE ListingMedia ----------------------------
(***************************************************************************)
(* The creation of listings and the images and videos they show.  Files go *)
(* to the storage before a row names them and leave it after no row does;  *)
(* but a listing may also be given the URLs of files, which nobody looks   *)
(* at: they may be elsewhere, erased, or shown by another listing.         *)
(* None of it is a transaction: every statement and every call of the      *)
(* storage is a step, requests overlap, and a process may stop in between. *)
(***************************************************************************)
EXTENDS Naturals, FiniteSets

CONSTANTS
    Listings, Files, NoFile,
    MediaRequests,  \* requests that may be in progress at a time
    MediaLoads,     \* what an instance lets people do: the kinds of request, by which requests,
                    \* with which files
    MaxCode,        \* bound on listing codes
    MaxImages,      \* images a listing may have (20)
    MaxCrashes      \* bound on statements and processes that fail

\* "name": creations take URLs; "replace": updates do, in place of what is there.
MediaKinds == {"create", "addImage", "deleteImage", "addVideo", "deleteVideo", "name", "replace"}

ASSUME MediaAssumption ==
    /\ \A l \in MediaLoads :
          l.kinds \subseteq MediaKinds /\ l.requests \subseteq MediaRequests /\ l.files \subseteq Files
    /\ NoFile \notin Files
    /\ {MaxCode, MaxImages} \subseteq Nat \ {0} /\ MaxCrashes \in Nat

VARIABLES
    mediaLoad,  \* the one of MediaLoads that a behaviour is about
    entry,      \* listing -> its code and media, or NoListing
    stored,     \* files in the storage
    used,       \* files that were uploaded; names are never used twice
    named,      \* files whose URL came in the body of a request
    upload,     \* request -> where it is
    refused,    \* creations refused for a code that nobody had typed
    crashes

mediaVars == <<mediaLoad, entry, stored, used, named, upload, refused, crashes>>

-----------------------------------------------------------------------------
Codes == 1 .. MaxCode
NoCode == 0
NoListing == [code |-> NoCode, images |-> {}, video |-> NoFile]
Exists(l) == entry[l].code # NoCode

Phase == {"idle", "uploading", "clipped", "inserting", "imaging", "adding", "deleting",
          "erasing", "filming", "unfilming", "clearing", "naming"}
\* `code` is what was typed, `files` the images uploaded or named, `video` that of
\* a creation, `old` the file read and to be erased, `room` how many files are
\* still to come.
UploadState == [phase : Phase, listing : SUBSET Listings, typed : BOOLEAN, code : 0 .. MaxCode + 1,
            files : SUBSET Files, video : Files \cup {NoFile}, old : Files \cup {NoFile},
            room : 0 .. MaxImages]
NoUpload == [phase |-> "idle", listing |-> {}, typed |-> FALSE, code |-> NoCode,
         files |-> {}, video |-> NoFile, old |-> NoFile, room |-> 0]

Move(r, state) == upload' = [upload EXCEPT ![r] = state]
Done(r) == Move(r, NoUpload)
InPhase(r, phase) == [upload[r] EXCEPT !.phase = phase]
Of(r) == CHOOSE l \in upload[r].listing : TRUE
IsNew(f) == f \in mediaLoad.files \ (used \cup named)
\* What a body may name.
Nameable(kind) == IF kind \in mediaLoad.kinds THEN mediaLoad.files ELSE {}
Store(f) == stored' = stored \cup {f} /\ used' = used \cup {f}

-----------------------------------------------------------------------------
(* Creation, by a broker, a client or an administrator.                    *)

\* A typed code that is taken is refused at once to a broker or a client; an
\* administrator learns it from the key, after the upload.  The body may name
\* images and a video that are not uploaded.
BeginCreate(r, code, n, urls, clip) ==
    /\ "create" \in mediaLoad.kinds /\ upload[r].phase = "idle"
    /\ n + Cardinality(urls) \in 1 .. MaxImages
    /\ Move(r, [NoUpload EXCEPT !.phase = "uploading", !.typed = code # NoCode, !.code = code,
                              !.room = n, !.files = urls, !.video = clip])
    /\ named' = named \cup urls \cup ({clip} \ {NoFile})
    /\ UNCHANGED <<entry, stored, used, refused, crashes>>

\* One file of the request, for a creation or for a listing.
UploadFile(r, f) ==
    /\ upload[r].phase \in {"uploading", "adding", "filming"}
    /\ upload[r].room > 0 /\ IsNew(f) /\ Store(f)
    /\ Move(r, [upload[r] EXCEPT !.files = @ \cup {f}, !.room = @ - 1])
    /\ UNCHANGED <<entry, named, refused, crashes>>

\* After its images, the video of a creation; it goes before one that was named.
UploadClip(r, f) ==
    /\ upload[r].phase = "uploading" /\ upload[r].room = 0 /\ IsNew(f) /\ Store(f)
    /\ Move(r, [InPhase(r, "clipped") EXCEPT !.video = f])
    /\ UNCHANGED <<entry, named, refused, crashes>>

\* Faulty variant: the code counts the listings.
NextCodeByCount == Cardinality({l \in Listings : Exists(l)}) + 1

\* allocateNextPropertyCode: one more than the highest that is there.
NextCode == 1 + CHOOSE c \in 0 .. MaxCode :
    /\ c = 0 \/ \E l \in Listings : entry[l].code = c
    /\ \A l \in Listings : entry[l].code <= c

AllocateCode(r) ==
    /\ upload[r].phase \in {"uploading", "clipped"} /\ upload[r].room = 0
    /\ LET code == IF upload[r].typed THEN upload[r].code ELSE NextCode
       IN /\ code <= MaxCode
          /\ Move(r, [InPhase(r, "inserting") EXCEPT !.code = code])
    /\ UNCHANGED <<entry, stored, used, named, refused, crashes>>

\* The unique key of the code decides; what was uploaded stays in the storage.
InsertProperty(r, l) ==
    /\ upload[r].phase = "inserting" /\ ~Exists(l)
    /\ IF \E k \in Listings : entry[k].code = upload[r].code
       THEN /\ Done(r)
            /\ refused' = IF upload[r].typed THEN refused ELSE refused \cup {upload[r].code}
            /\ UNCHANGED entry
       ELSE /\ entry' = [entry EXCEPT ![l].code = upload[r].code, ![l].video = upload[r].video]
            /\ Move(r, [InPhase(r, "imaging") EXCEPT !.listing = {l}])
            /\ UNCHANGED refused
    /\ UNCHANGED <<stored, used, named, crashes>>

\* persistPropertyImages, a statement of its own.
PersistImages(r) ==
    /\ upload[r].phase = "imaging"
    /\ entry' = [entry EXCEPT ![Of(r)].images = upload[r].files]
    /\ Done(r)
    /\ UNCHANGED <<stored, used, named, refused, crashes>>

\* A statement or an upload fails, or the process stops: the rest of the
\* request does not happen.
Fail(r) ==
    /\ upload[r].phase # "idle" /\ crashes < MaxCrashes
    /\ crashes' = crashes + 1
    /\ Done(r)
    /\ UNCHANGED <<entry, stored, used, named, refused>>

-----------------------------------------------------------------------------
(* Images of a listing.                                                    *)

\* The room is counted before the upload.
BeginAddImage(r, l, n) ==
    /\ "addImage" \in mediaLoad.kinds /\ upload[r].phase = "idle" /\ Exists(l)
    /\ n \in 1 .. MaxImages /\ Cardinality(entry[l].images) + n <= MaxImages
    /\ Move(r, [NoUpload EXCEPT !.phase = "adding", !.listing = {l}, !.room = n])
    /\ UNCHANGED <<entry, stored, used, named, refused, crashes>>

AddImages(r) ==
    /\ upload[r].phase = "adding" /\ upload[r].room = 0
    /\ entry' = [entry EXCEPT ![Of(r)].images = @ \cup upload[r].files]
    /\ Done(r)
    /\ UNCHANGED <<stored, used, named, refused, crashes>>

\* A URL that was named may be in several rows.
HasSeveral(l) == Cardinality(entry[l].images) > 1 \/ entry[l].images \cap named # {}

\* Faulty variant: the file is erased before the row.
BeginDeleteImageErasing(r, l, f) ==
    /\ "deleteImage" \in mediaLoad.kinds /\ upload[r].phase = "idle"
    /\ f \in entry[l].images /\ HasSeveral(l)
    /\ Move(r, [NoUpload EXCEPT !.phase = "deleting", !.listing = {l}, !.old = f])
    /\ stored' = stored \ {f}
    /\ UNCHANGED <<entry, used, named, refused, crashes>>

\* The file of the row is read, and the images are counted.
BeginDeleteImage(r, l, f) ==
    /\ "deleteImage" \in mediaLoad.kinds /\ upload[r].phase = "idle"
    /\ f \in entry[l].images /\ HasSeveral(l)
    /\ Move(r, [NoUpload EXCEPT !.phase = "deleting", !.listing = {l}, !.old = f])
    /\ UNCHANGED <<entry, stored, used, named, refused, crashes>>

\* A row that is gone is not found, and its file is not erased again.  Of a URL
\* that was named there may be another row, which was there beside the one that
\* was read or has come in its place.
DeleteImage(r) ==
    LET f == upload[r].old
        shown == entry[Of(r)].images
    IN /\ upload[r].phase = "deleting"
       /\ \/ /\ f \in shown
             /\ entry' = [entry EXCEPT ![Of(r)].images = @ \ {f}]
             /\ Move(r, InPhase(r, "erasing"))
          \/ /\ f \notin shown \/ f \in named
             /\ UNCHANGED entry
             /\ Done(r)
          \/ /\ f \in shown \cap named
             /\ UNCHANGED entry
             /\ Move(r, InPhase(r, "erasing"))
       /\ UNCHANGED <<stored, used, named, refused, crashes>>

-----------------------------------------------------------------------------
(* The media of a listing as an update names them.                         *)

\* The video is a column of the UPDATE; the images are asked for or not, and are
\* passed over where the listing was approved when it was read.
BeginReplace(r, l, urls, clip, images) ==
    /\ "replace" \in mediaLoad.kinds /\ upload[r].phase = "idle" /\ Exists(l)
    /\ entry' = [entry EXCEPT ![l].video = clip]
    /\ named' = named \cup urls \cup ({clip} \ {NoFile, entry[l].video})
    /\ Move(r, IF images THEN [NoUpload EXCEPT !.phase = "clearing", !.listing = {l}, !.files = urls]
               ELSE NoUpload)
    /\ UNCHANGED <<stored, used, refused, crashes>>

\* All rows of the listing; the files stay in the storage.
ClearImages(r) ==
    /\ upload[r].phase = "clearing"
    /\ entry' = [entry EXCEPT ![Of(r)].images = {}]
    /\ Move(r, IF upload[r].files = {} THEN NoUpload ELSE InPhase(r, "naming"))
    /\ UNCHANGED <<stored, used, named, refused, crashes>>

NameImages(r) ==
    /\ upload[r].phase = "naming"
    /\ entry' = [entry EXCEPT ![Of(r)].images = @ \cup upload[r].files]
    /\ Done(r)
    /\ UNCHANGED <<stored, used, named, refused, crashes>>

-----------------------------------------------------------------------------
(* The video of a listing.                                                 *)

\* The video that is there is read before the new one is uploaded.
BeginAddVideo(r, l) ==
    /\ "addVideo" \in mediaLoad.kinds /\ upload[r].phase = "idle" /\ Exists(l)
    /\ Move(r, [NoUpload EXCEPT !.phase = "filming", !.listing = {l}, !.old = entry[l].video, !.room = 1])
    /\ UNCHANGED <<entry, stored, used, named, refused, crashes>>

AddVideo(r) ==
    /\ upload[r].phase = "filming" /\ upload[r].room = 0
    /\ \E f \in upload[r].files : entry' = [entry EXCEPT ![Of(r)].video = f]
    /\ Move(r, InPhase(r, "erasing"))
    /\ UNCHANGED <<stored, used, named, refused, crashes>>

BeginDeleteVideo(r, l) ==
    /\ "deleteVideo" \in mediaLoad.kinds /\ upload[r].phase = "idle" /\ Exists(l)
    /\ Move(r, [NoUpload EXCEPT !.phase = "unfilming", !.listing = {l}, !.old = entry[l].video])
    /\ UNCHANGED <<entry, stored, used, named, refused, crashes>>

DeleteVideo(r) ==
    /\ upload[r].phase = "unfilming"
    /\ entry' = [entry EXCEPT ![Of(r)].video = NoFile]
    /\ Move(r, InPhase(r, "erasing"))
    /\ UNCHANGED <<stored, used, named, refused, crashes>>

\* Faulty variant: what the listing shows now is erased.
EraseShown(r) ==
    /\ upload[r].phase = "erasing"
    /\ stored' = stored \ {entry[Of(r)].video}
    /\ Done(r)
    /\ UNCHANGED <<entry, used, named, refused, crashes>>

\* cleanupPropertyMediaAssets: the file that was read; a failure is only logged.
EraseAsset(r) ==
    /\ upload[r].phase = "erasing"
    /\ stored' \in {stored, stored \ {upload[r].old}}
    /\ Done(r)
    /\ UNCHANGED <<entry, used, named, refused, crashes>>

-----------------------------------------------------------------------------
\* Nothing is listed, or one listing with some images is.
MediaInit ==
    /\ mediaLoad \in MediaLoads
    /\ used \in SUBSET mediaLoad.files
    /\ entry \in {[l \in Listings |-> NoListing]} \cup
          {[l \in Listings |-> IF l = k THEN [code |-> 1, images |-> used, video |-> NoFile] ELSE NoListing] :
              k \in IF used = {} \/ Cardinality(used) > MaxImages THEN {} ELSE Listings}
    /\ stored = used /\ named = {} /\ (used = {} \/ \E l \in Listings : Exists(l))
    /\ upload = [r \in MediaRequests |-> NoUpload]
    /\ refused = {} /\ crashes = 0

CreateStep(r) ==
    \/ \E code \in Codes \cup {NoCode}, n \in 0 .. MaxImages,
          urls \in SUBSET Nameable("name"), clip \in Nameable("name") \cup {NoFile} :
          BeginCreate(r, code, n, urls, clip)
    \/ \E f \in Files : UploadClip(r, f)
    \/ AllocateCode(r)
    \/ \E l \in Listings : InsertProperty(r, l)
    \/ PersistImages(r)

MediaStep(r) ==
    \/ \E l \in Listings, n \in 1 .. MaxImages : BeginAddImage(r, l, n)
    \/ \E l \in Listings, f \in Files : BeginDeleteImage(r, l, f)
    \/ \E l \in Listings : BeginAddVideo(r, l) \/ BeginDeleteVideo(r, l)
    \/ \E l \in Listings, urls \in SUBSET Nameable("replace"), images \in BOOLEAN :
          \E clip \in Nameable("replace") \cup {NoFile, entry[l].video} :
              BeginReplace(r, l, urls, clip, images)
    \/ ClearImages(r) \/ NameImages(r)
    \/ AddImages(r) \/ DeleteImage(r) \/ AddVideo(r) \/ DeleteVideo(r) \/ EraseAsset(r)

MediaChange ==
    \E r \in mediaLoad.requests :
        CreateStep(r) \/ MediaStep(r) \/ Fail(r) \/ \E f \in Files : UploadFile(r, f)

MediaNext == MediaChange /\ UNCHANGED mediaLoad

MediaSpec == MediaInit /\ [][MediaNext]_mediaVars

-----------------------------------------------------------------------------
MediaTypes ==
    /\ mediaLoad \in MediaLoads
    /\ entry \in [Listings -> [code : Codes \cup {NoCode}, images : SUBSET Files,
                                 video : Files \cup {NoFile}]]
    /\ stored \subseteq used /\ used \cup named \subseteq Files
    /\ upload \in [MediaRequests -> UploadState]
    /\ refused \subseteq Codes /\ crashes \in 0 .. MaxCrashes

\* The images a listing shows are in the storage, whatever requests add, replace
\* and delete at the same time and wherever one of them stops, but for those a
\* body has named: of a URL nobody asks whether its file is there, nor, when it is
\* erased, who else shows it.
ImagesAreStored == \A l \in Listings : entry[l].images \subseteq stored \cup named

\* So is its video: two requests that replace it, or one that replaces and one
\* that deletes it, leave files behind but never erase the one that is shown.
VideoIsStored == \A l \in Listings : entry[l].video \in stored \cup named \cup {NoFile}

\* "Proximo codigo exibido do imovel": a creation that typed no code is never
\* refused for one.  One creation at a time keeps this; two read the same
\* maximum, and the second has uploaded its files for nothing.
GeneratedCodeIsFree == refused = {}

\* What was uploaded for a listing, and named in no body, is stored as long as it
\* shows, however requests overlap and stop; and a code that was generated is free
\* where they come one at a time.
MediaHold ==
    /\ MediaTypes /\ ImagesAreStored /\ VideoIsStored
    /\ (\A r, q \in mediaLoad.requests : r = q) => GeneratedCodeIsFree

-----------------------------------------------------------------------------
(* What the code says of itself.                                           *)

\* "Limite maximo de ... imagens por imovel atingido."
WithinImageLimit == \A l \in Listings : Cardinality(entry[l].images) <= MaxImages

\* "Envie pelo menos 1 imagem do imovel.": a creation that is over left no
\* listing without one; "O imovel precisa manter ao menos 1 imagem.": nor did a
\* request to delete one.
HasImage ==
    \A l \in Listings : Exists(l) /\ (\A r \in MediaRequests : l \notin upload[r].listing)
                            => entry[l].images # {}
=============================================================================
