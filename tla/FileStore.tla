----------------------------- MODULE FileStore -----------------------------
(***************************************************************************)
(* Files: uploads that share one stored object per content, the posts that *)
(* use them, and the collection of what is deleted or was never used       *)
(* (services/autumn, daemons/crond, models/files, models/file_hashes).     *)
(*                                                                         *)
(* `attachments` has a document per upload that names a document of        *)
(* `attachment_hashes`; that one has the nonce under which the object of   *)
(* the same name is encrypted in S3.  No two of the three are changed      *)
(* together: every database or S3 call is a step, and uploads, posts,      *)
(* reports and the two tasks of crond interleave between any two steps.    *)
(*                                                                         *)
(* A "post" is any object that uses a file (message, avatar, icon, ...).   *)
(* Not covered: the five-minute read cache (S3_CACHE), legacy files        *)
(* without a hash, and file types, limits and thumbnails.                  *)
(***************************************************************************)
EXTENDS FiniteSets, Naturals

CONSTANTS
    Uploads,     \* requests to upload; each stands for its file id and its nonce
    Contents,    \* hashes of contents
    Processed,   \* Processed[c]: the hash of c once its metadata is stripped
    Posts,       \* objects that use a file
    FileOf,      \* FileOf[p]: the file p names
    None,
    MaxFaults    \* bound on the crashes and failed calls of crond

ASSUME FileAssumption ==
    /\ IsFiniteSet(Uploads)
    /\ Processed \in [Contents -> Contents]
    /\ FileOf \in [Posts -> Uploads]
    /\ None \notin Uploads \cup Contents
    /\ "empty" \notin Uploads \cup {None}
    /\ MaxFaults \in Nat

VARIABLES
    hash,        \* hash[c]: None, "empty", or the upload whose nonce the document has
    object,      \* object[c]: None, or the upload that wrote the object
    pc,          \* pc[u]: the next step of upload u, or how it ended
    doc,         \* doc[u]: the hash of the bytes u sent, then the one its file names
    files,       \* uploads with a document in `attachments`
    used,        \* files with a used_for
    deleted,     \* files marked as deleted
    reported,    \* files marked as reported
    old,         \* unused files uploaded more than an hour ago
    post,        \* post[p]: the next step of post p, or how it ended
    crond,       \* whether crond runs
    gc,          \* the next step of file_deletion
    left,        \* files of its list it has still to take
    gcFile,      \* the file it is deleting
    gcDoc,       \* the hash document it fetched for that file
    pruning,     \* files prune_dangling_files is about to mark
    faults,      \* how many faults of crond there have been
    spoiled,     \* history: contents on which two actors overlapped
    misused,     \* history: files used twice, or marked as dangling and used
    late         \* history: files reported once file_deletion had listed them, and
                 \* files it left without their content when it was cut short

vars == <<hash, object, pc, doc, files, used, deleted, reported, old, post,
          crond, gc, left, gcFile, gcDoc, pruning, faults, spoiled, misused, late>>

InFlight == {"insertHash", "put", "setNonce", "insert"}

TypeOK ==
    /\ hash \in [Contents -> Uploads \cup {None, "empty"}]
    /\ object \in [Contents -> Uploads \cup {None}]
    /\ pc \in [Uploads -> InFlight \cup {"idle", "done", "failed"}]
    /\ doc \in [Uploads -> Contents]
    /\ files \in SUBSET Uploads
    /\ used \in SUBSET files
    /\ deleted \in SUBSET files
    /\ reported \in SUBSET Uploads
    /\ old \in SUBSET (files \ used)
    /\ post \in [Posts -> {"idle", "found", "live", "marked", "gone", "failed"}]
    /\ crond \in BOOLEAN
    /\ gc \in {"sleep", "take", "fetch", "deleteObject", "deleteHash", "deleteFile"}
    /\ left \in SUBSET Uploads
    /\ gcFile \in Uploads \cup {None}
    /\ gcDoc \in Contents \cup {None}
    /\ pruning \in SUBSET Uploads
    /\ faults \in 0 .. MaxFaults
    /\ spoiled \in SUBSET Contents
    /\ misused \in SUBSET Uploads
    /\ late \in SUBSET Uploads

Init ==
    /\ hash = [c \in Contents |-> None]
    /\ object = [c \in Contents |-> None]
    /\ pc = [u \in Uploads |-> "idle"]
    /\ doc \in [Uploads -> Contents]
    /\ files = {}
    /\ used = {}
    /\ deleted = {}
    /\ reported = {}
    /\ old = {}
    /\ post = [p \in Posts |-> "idle"]
    /\ crond = TRUE
    /\ gc = "sleep"
    /\ left = {}
    /\ gcFile = None
    /\ gcDoc = None
    /\ pruning = {}
    /\ faults = 0
    /\ spoiled = {}
    /\ misused = {}
    /\ late = {}

Storage == <<hash, object>>
Uploading == <<pc, doc>>
Collector == <<crond, gc, left, gcFile, gcDoc, pruning, faults>>
Marks == <<used, deleted, reported, old>>
History == <<spoiled, misused, late>>

\* The documents fetch_attachment_hash may return for c: it looks for c as an
\* _id or as a processed_hash, and find_one returns any of them.
DocsFor(c) == {d \in Contents : hash[d] # None /\ (d = c \/ Processed[d] = c)}

\* fetch_from_s3: the object is there and was encrypted with the nonce on record.
Good(c) == hash[c] \in Uploads /\ object[c] = hash[c]

\* file_deletion has deleted the object of c and not yet the document.
Hollow(c) == gc = "deleteHash" /\ gcDoc = c

-----------------------------------------------------------------------------
(* upload_file *)

\* An existing document with a nonce: nothing is stored again, the new file will
\* name that document.
LookupShares(u) ==
    /\ pc[u] = "idle"
    /\ \E d \in DocsFor(doc[u]) :
          /\ hash[d] # "empty"
          /\ doc' = [doc EXCEPT ![u] = d]
          /\ spoiled' = IF Hollow(d) THEN spoiled \cup {d} ELSE spoiled
    /\ pc' = [pc EXCEPT ![u] = "insert"]
    /\ UNCHANGED <<Storage, files, Marks, post, Collector, misused, late>>

\* A document without a nonce: an upload that did not finish, or not yet.
LookupRetries(u) ==
    /\ pc[u] = "idle"
    /\ \E d \in DocsFor(doc[u]) :
          /\ hash[d] = "empty"
          /\ spoiled' = spoiled \cup {c \in {d, doc[u]} : Hollow(c)}
    /\ pc' = [pc EXCEPT ![u] = "put"]
    /\ UNCHANGED <<Storage, doc, files, Marks, post, Collector, misused, late>>

LookupMisses(u) ==
    /\ pc[u] = "idle"
    /\ DocsFor(doc[u]) = {}
    /\ pc' = [pc EXCEPT ![u] = "insertHash"]
    /\ UNCHANGED <<Storage, doc, files, Marks, post, Collector, History>>

\* insert_attachment_hash: a second document with the same _id is an error.
InsertHash(u) ==
    /\ pc[u] = "insertHash"
    /\ IF hash[doc[u]] = None
       THEN /\ hash' = [hash EXCEPT ![doc[u]] = "empty"]
            /\ pc' = [pc EXCEPT ![u] = "put"]
       ELSE /\ pc' = [pc EXCEPT ![u] = "failed"]
            /\ UNCHANGED hash
    /\ UNCHANGED <<object, doc, files, Marks, post, Collector, History>>

\* upload_to_s3, with a nonce of its own.  It spoils the content when the document
\* is no longer the empty one that was looked up, or when another upload has
\* written its object and not yet its nonce.
Put(u) ==
    /\ pc[u] = "put"
    /\ object' = [object EXCEPT ![doc[u]] = u]
    /\ pc' = [pc EXCEPT ![u] = "setNonce"]
    /\ spoiled' = IF \/ hash[doc[u]] # "empty"
                     \/ \E v \in Uploads : pc[v] = "setNonce" /\ doc[v] = doc[u]
                  THEN spoiled \cup {doc[u]} ELSE spoiled
    /\ UNCHANGED <<hash, doc, files, Marks, post, Collector, misused, late>>

\* set_attachment_hash_nonce: without a document the update changes nothing.
SetNonce(u) ==
    /\ pc[u] = "setNonce"
    /\ hash' = IF hash[doc[u]] = None THEN hash ELSE [hash EXCEPT ![doc[u]] = u]
    /\ pc' = [pc EXCEPT ![u] = "insert"]
    /\ UNCHANGED <<object, doc, files, Marks, post, Collector, History>>

\* insert_attachment.  It spoils the content when file_deletion has counted the
\* files that name it and has not yet deleted its object.
InsertFile(u) ==
    /\ pc[u] = "insert"
    /\ files' = files \cup {u}
    /\ pc' = [pc EXCEPT ![u] = "done"]
    /\ spoiled' = IF gc \in {"fetch", "deleteObject"} /\ doc[gcFile] = doc[u]
                  THEN spoiled \cup {doc[u]} ELSE spoiled
    /\ UNCHANGED <<Storage, doc, Marks, post, Collector, misused, late>>

\* Malware, an error of S3 or the database, or the death of the process.
UploadFails(u) ==
    /\ pc[u] \in InFlight
    /\ pc' = [pc EXCEPT ![u] = "failed"]
    /\ UNCHANGED <<Storage, doc, files, Marks, post, Collector, History>>

\* The clock: an unused file has become older than an hour.
GrowOld(u) ==
    /\ u \in files \ (used \cup old)
    /\ old' = old \cup {u}
    /\ UNCHANGED <<Storage, Uploading, files, used, deleted, reported, post,
                   Collector, History>>

-----------------------------------------------------------------------------
(* Posts and reports *)

\* find_and_use_attachment, the query: the file exists and nothing uses it.
Find(p) ==
    /\ post[p] = "idle"
    /\ FileOf[p] \in files \ used
    /\ post' = [post EXCEPT ![p] = "found"]
    /\ UNCHANGED <<Storage, Uploading, files, Marks, Collector, History>>

\* Mutant: the file is looked up and its use is not recorded.
UseUnrecorded(p) ==
    /\ post[p] = "found"
    /\ \E outcome \in {"live", "failed"} : post' = [post EXCEPT ![p] = outcome]
    /\ UNCHANGED <<Storage, Uploading, files, Marks, Collector, History>>

\* find_and_use_attachment, the update, which has only the _id for a condition;
\* then the post itself is stored, or is not (a later attachment is missing).
Use(p) ==
    /\ post[p] = "found"
    /\ used' = used \cup ({FileOf[p]} \cap files)
    /\ old' = old \ {FileOf[p]}
    /\ misused' = IF FileOf[p] \in (used \cup deleted) \/ FileOf[p] \notin files
                  THEN misused \cup {FileOf[p]} ELSE misused
    /\ \E outcome \in {"live", "failed"} : post' = [post EXCEPT ![p] = outcome]
    /\ UNCHANGED <<Storage, Uploading, files, deleted, reported, Collector,
                   spoiled, late>>

\* Message::delete and the edits that replace a picture: the file is marked first.
MarkDeleted(p) ==
    /\ post[p] = "live"
    /\ deleted' = deleted \cup ({FileOf[p]} \cap files)
    /\ post' = [post EXCEPT ![p] = "marked"]
    /\ UNCHANGED <<Storage, Uploading, files, used, reported, old, Collector, History>>

DeletePost(p) ==
    /\ post[p] = "marked"
    /\ post' = [post EXCEPT ![p] = "gone"]
    /\ UNCHANGED <<Storage, Uploading, files, Marks, Collector, History>>

\* bulk_delete, and delete_bulk_messages of a deleted channel or server: it looks
\* for files by message_id, a field no file has had since used_for replaced it.
BulkDelete(p) ==
    /\ post[p] = "live"
    /\ post' = [post EXCEPT ![p] = "gone"]
    /\ UNCHANGED <<Storage, Uploading, files, Marks, Collector, History>>

\* report_content of a post that was fetched while it existed.
Report(p) ==
    /\ post[p] \in {"live", "marked"}
    /\ FileOf[p] \in files
    /\ reported' = reported \cup {FileOf[p]}
    /\ late' = IF FileOf[p] \in left \cup {gcFile} THEN late \cup {FileOf[p]} ELSE late
    /\ UNCHANGED <<Storage, Uploading, files, used, deleted, old, post, Collector,
                   spoiled, misused>>

-----------------------------------------------------------------------------
(* crond: file_deletion *)

Collect(step) == gc' = step

\* Mutant: the files under report are listed with the others.
ListReported ==
    /\ crond /\ gc = "sleep"
    /\ deleted # {}
    /\ left' = deleted
    /\ Collect("take")
    /\ UNCHANGED <<Storage, Uploading, files, Marks, post, crond, gcFile, gcDoc,
                   pruning, faults, History>>

\* fetch_deleted_attachments, once a minute.
ListDeleted ==
    /\ crond /\ gc = "sleep"
    /\ deleted \ reported # {}
    /\ left' = deleted \ reported
    /\ Collect("take")
    /\ UNCHANGED <<Storage, Uploading, files, Marks, post, crond, gcFile, gcDoc,
                   pruning, faults, History>>

\* Mutant: the file itself is counted twice.
TakeOffByOne ==
    /\ crond /\ gc = "take"
    /\ \E u \in left :
          /\ left' = left \ {u}
          /\ gcFile' = u
          /\ Collect(IF Cardinality({v \in files : doc[v] = doc[u]}) <= 2
                     THEN "fetch" ELSE "deleteFile")
    /\ UNCHANGED <<Storage, Uploading, files, Marks, post, crond, gcDoc, pruning,
                   faults, History>>

\* Mutant: a file whose content is shared is passed over.
TakeSkipsShared ==
    /\ crond /\ gc = "take"
    /\ \E u \in left :
          /\ left' = left \ {u}
          /\ IF Cardinality({v \in files : doc[v] = doc[u]}) <= 1
             THEN gcFile' = u /\ Collect("fetch")
             ELSE gcFile' = None /\ Collect(IF left' = {} THEN "sleep" ELSE "take")
    /\ UNCHANGED <<Storage, Uploading, files, Marks, post, crond, gcDoc, pruning,
                   faults, History>>

\* count_file_hash_references of the next file, this one included.
Take ==
    /\ crond /\ gc = "take"
    /\ \E u \in left :
          /\ left' = left \ {u}
          /\ gcFile' = u
          /\ Collect(IF Cardinality({v \in files : doc[v] = doc[u]}) <= 1
                     THEN "fetch" ELSE "deleteFile")
    /\ UNCHANGED <<Storage, Uploading, files, Marks, post, crond, gcDoc, pruning,
                   faults, History>>

\* fetch_attachment_hash.
Fetch ==
    /\ crond /\ gc = "fetch"
    /\ \E d \in DocsFor(doc[gcFile]) : gcDoc' = d
    /\ Collect("deleteObject")
    /\ UNCHANGED <<Storage, Uploading, files, Marks, post, crond, left, gcFile,
                   pruning, faults, History>>

\* Everything crond was doing is gone with the process.
CrondEnds ==
    /\ crond' = FALSE
    /\ gc' = "sleep"
    /\ left' = {}
    /\ gcFile' = None
    /\ gcDoc' = None
    /\ pruning' = {}

\* fetch_attachment_hash finds nothing: the task returns the error, try_join! drops
\* the other tasks and main returns.
FetchFails ==
    /\ crond /\ gc = "fetch"
    /\ DocsFor(doc[gcFile]) = {}
    /\ CrondEnds
    /\ UNCHANGED <<Storage, Uploading, files, Marks, post, faults, History>>

\* delete_from_s3.  It spoils the content when the document is not the one the file
\* names, or when an upload that has looked the document up is about to name it.
DeleteObject ==
    /\ crond /\ gc = "deleteObject"
    /\ object' = [object EXCEPT ![gcDoc] = None]
    /\ Collect("deleteHash")
    /\ spoiled' = IF \/ gcDoc # doc[gcFile]
                     \/ \E u \in Uploads : doc[u] = gcDoc /\ pc[u] \in InFlight
                  THEN spoiled \cup {gcDoc} ELSE spoiled
    /\ UNCHANGED <<hash, Uploading, files, Marks, post, crond, left, gcFile, gcDoc,
                   pruning, faults, misused, late>>

DeleteHash ==
    /\ crond /\ gc = "deleteHash"
    /\ hash' = [hash EXCEPT ![gcDoc] = None]
    /\ Collect("deleteFile")
    /\ UNCHANGED <<object, Uploading, files, Marks, post, crond, left, gcFile, gcDoc,
                   pruning, faults, History>>

\* delete_attachment, and on to the next file or to sleep.
DeleteFile ==
    /\ crond /\ gc = "deleteFile"
    /\ files' = files \ {gcFile}
    /\ used' = used \ {gcFile}
    /\ deleted' = deleted \ {gcFile}
    /\ old' = old \ {gcFile}
    /\ gcFile' = None
    /\ gcDoc' = None
    /\ Collect(IF left = {} THEN "sleep" ELSE "take")
    /\ UNCHANGED <<Storage, Uploading, reported, post, crond, left, pruning,
                   faults, History>>

-----------------------------------------------------------------------------
(* crond: prune_dangling_files, and its process *)

\* fetch_dangling_files, and the filter on their age.
ListDangling ==
    /\ crond /\ pruning = {}
    /\ pruning' = old \ deleted
    /\ pruning' # {}
    /\ UNCHANGED <<Storage, Uploading, files, Marks, post, crond, gc, left, gcFile,
                   gcDoc, faults, History>>

\* Mutant: the update inserts what it does not find.
PruneUpserts ==
    /\ crond /\ pruning # {}
    /\ deleted' = deleted \cup pruning
    /\ misused' = misused \cup (pruning \cap used)
    /\ pruning' = {}
    /\ UNCHANGED <<Storage, Uploading, files, used, reported, old, post, crond, gc,
                   left, gcFile, gcDoc, faults, spoiled, late>>

\* mark_attachments_as_deleted: whatever has become of them.
Prune ==
    /\ crond /\ pruning # {}
    /\ deleted' = deleted \cup (pruning \cap files)
    /\ misused' = misused \cup (pruning \cap used)
    /\ pruning' = {}
    /\ UNCHANGED <<Storage, Uploading, files, used, reported, old, post, crond, gc,
                   left, gcFile, gcDoc, faults, spoiled, late>>

\* The process dies, or a call fails and both tasks end with it.  An object that is
\* already deleted leaves its document, or its file, behind.
CrondFails ==
    /\ crond
    /\ faults < MaxFaults
    /\ faults' = faults + 1
    /\ CrondEnds
    /\ spoiled' = IF gc = "deleteHash" THEN spoiled \cup {gcDoc} ELSE spoiled
    /\ late' = IF gc = "deleteFile" THEN late \cup {gcFile} ELSE late
    /\ UNCHANGED <<Storage, Uploading, files, Marks, post, misused>>

CrondStarts ==
    /\ ~crond
    /\ crond' = TRUE
    /\ UNCHANGED <<Storage, Uploading, files, Marks, post, gc, left, gcFile, gcDoc,
                   pruning, faults, History>>

-----------------------------------------------------------------------------
Upload(u) ==
    \/ LookupShares(u) \/ LookupRetries(u) \/ LookupMisses(u)
    \/ InsertHash(u) \/ Put(u) \/ SetNonce(u) \/ InsertFile(u)
    \/ UploadFails(u) \/ GrowOld(u)

Handle(p) ==
    \/ Find(p) \/ Use(p) \/ MarkDeleted(p) \/ DeletePost(p) \/ BulkDelete(p) \/ Report(p)

FileDeletion ==
    \/ ListDeleted \/ Take \/ Fetch \/ FetchFails
    \/ DeleteObject \/ DeleteHash \/ DeleteFile

Next ==
    \/ \E u \in Uploads : Upload(u)
    \/ \E p \in Posts : Handle(p)
    \/ FileDeletion
    \/ ListDangling \/ Prune
    \/ CrondFails \/ CrondStarts

Spec == Init /\ [][Next]_vars

\* crond's loops go on, a supervisor starts it again, and time passes.  Nothing is
\* assumed of uploads and posts.
FairSpec ==
    /\ Spec
    /\ WF_vars(FileDeletion)
    /\ WF_vars(ListDangling)
    /\ WF_vars(Prune)
    /\ WF_vars(CrondStarts)
    /\ \A u \in Uploads : WF_vars(GrowOld(u))

-----------------------------------------------------------------------------
(* Properties *)

\* A file that is not deleted can be read: the document it names has the nonce
\* under which the object was encrypted.  The exceptions are the contents on which
\* two actors overlapped: two uploads between looking the content up and writing
\* its nonce; an upload and a file_deletion of the same content; a file_deletion
\* that fetched another document than the one counted (a processed_hash); and a
\* crash between the deletions of the object and of its document.
ContentKept ==
    \A u \in files \ deleted : doc[u] \in spoiled \/ Good(doc[u])

\* What a post shows is there and can be read, unless two posts took the file at
\* once or it was used while prune_dangling_files was marking it.
AttachmentServed ==
    \A p \in Posts :
        post[p] = "live" =>
            LET u == FileOf[p] IN
            \/ u \in misused
            \/ u \in files \ deleted /\ (doc[u] \in spoiled \/ Good(doc[u]))

\* A reported file is kept with its content, deleted or not, for those who look at
\* the report, unless file_deletion had already begun on it.
EvidenceKept ==
    \A u \in reported :
        \/ u \in late
        \/ u \in files /\ (doc[u] \in spoiled \/ Good(doc[u]))

\* A file whose content has no document: fetch_attachment_hash fails, crond ends, and
\* it ends again each time it is started and comes to this file.
Poisoned == \E u \in deleted \ reported : DocsFor(doc[u]) = {}

Garbage(u) == u \in files \ reported /\ (u \in deleted \/ u \notin used)

\* Every file that is deleted, or that nothing ever uses, is taken away in the end,
\* whatever crashes, unless a file without a document stops crond again and again.
Reclaimed == \A u \in Uploads : Garbage(u) ~> (~Garbage(u) \/ Poisoned)

-----------------------------------------------------------------------------
(* The inductive invariant *)

\* What file_deletion has in hand: deleted files, each taken once, and a document
\* that only it can remove.
InHand == left \cup ({gcFile} \ {None})

CollectorShape ==
    /\ (gc \in {"sleep", "take"}) <=> (gcFile = None)
    /\ InHand \subseteq deleted
    /\ gcFile \notin left
    /\ InHand \cap reported \subseteq late
    /\ late \cap files \subseteq deleted
    /\ gc \in {"deleteObject", "deleteHash"} => (gcDoc \in Contents /\ hash[gcDoc] # None)

UploadsShape ==
    /\ \A u \in files \cup reported \cup late : pc[u] = "done"
    /\ reported \ late \subseteq files

\* A nonce on record is the nonce of the object, until the object is deleted.
NonceMatches == \A c \in Contents \ spoiled : hash[c] \in Uploads => Good(c) \/ Hollow(c)

HollowIsEmpty == \A c \in Contents \ spoiled : Hollow(c) => object[c] = None

\* No upload is under way for a content whose object is deleted.
InFlightNotHollow ==
    \A u \in Uploads : pc[u] \in InFlight => doc[u] \in spoiled \/ ~Hollow(doc[u])

\* An upload that is about to write its nonce is the one that wrote the object.
OneWriter ==
    \A u \in Uploads :
        pc[u] = "setNonce" =>
            doc[u] \in spoiled \/ (hash[doc[u]] = "empty" /\ object[doc[u]] = u)

InsertsGood == \A u \in Uploads : pc[u] = "insert" => doc[u] \in spoiled \/ Good(doc[u])

\* file_deletion has counted the files that name the content of the one it deletes.
LastReference ==
    gc \in {"fetch", "deleteObject"} =>
        \A u \in files : doc[u] = doc[gcFile] => u = gcFile \/ doc[u] \in spoiled

\* The file whose object has just been deleted.
Emptied(u) == u = gcFile /\ gc \in {"deleteHash", "deleteFile"} /\ gcDoc = doc[u]

FilesGood ==
    \A u \in files : u \in late \/ doc[u] \in spoiled \/ Good(doc[u]) \/ Emptied(u)

\* A post has its file to itself.
OwnFile ==
    \A p \in Posts :
        post[p] = "live" =>
            \/ FileOf[p] \in misused
            \/ /\ FileOf[p] \in used \ deleted
               /\ \A q \in Posts : post[q] = "live" /\ FileOf[q] = FileOf[p] => q = p

IInv ==
    /\ TypeOK
    /\ CollectorShape
    /\ UploadsShape
    /\ NonceMatches
    /\ HollowIsEmpty
    /\ InFlightNotHollow
    /\ OneWriter
    /\ InsertsGood
    /\ LastReference
    /\ FilesGood
    /\ OwnFile

=============================================================================
