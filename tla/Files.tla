------------------------------- MODULE Files --------------------------------
(***************************************************************************)
(* The images and files of ideas (services/sqlstore/postgres/attachment.go,*)
(* handlers/files.go, pkg/validate/upload.go): a request stores its upload *)
(* as a blob and then attaches its key to the idea, in two stores that     *)
(* commit together (SQL) or not (S3).  The client may propose the key of   *)
(* an image; a file gets one of ours, and is served to those who may see   *)
(* the first idea it is attached to.                                       *)
(***************************************************************************)
EXTENDS Naturals, FiniteSets

CONSTANTS
  Uploaders,      \* the requests
  Folders,        \* the ideas (a comment's images are kept likewise)
  ImageKeys,      \* the keys a client may propose
  FreshKeys,      \* bound: the keys of random characters; each is made once
  MaxContents,    \* bound: what is uploaded, each time something else
  MaxUploads,     \* attachments an idea may have
  NoUpload, NoBlob, NoKey

BlobKeys == ImageKeys \cup FreshKeys
Contents == [number : 1..MaxContents, idea : Folders]   \* what was uploaded, and for which idea
Attachment == [idea : Folders, key : BlobKeys, content : Contents]
BlobRows == [content : Contents, isFile : BOOLEAN]
UploadRows == [idea : Folders, key : BlobKeys, content : Contents, isFile : BOOLEAN, at : {"validated", "stored"}]

ASSUME FilesAssumption ==
  /\ ImageKeys \cap FreshKeys = {} /\ NoKey \notin ImageKeys \cup FreshKeys
  /\ MaxContents \in Nat /\ MaxUploads \in Nat /\ NoBlob \notin BlobRows

VARIABLES
  storage,      \* "sql" or "s3"
  blobs,        \* blobs[k]: the content at the key k, and whether it is a file
  attachments,  \* rows of attachments, with the content that was uploaded for them
  uploads,      \* uploads[r]: how far the request r has got
  lastContent,  \* the contents uploaded so far
  access,       \* access[i]: "public", "private" or "deleted"
  overlooked    \* history: keys taken although somebody else had, or might have

fileVars == <<storage, blobs, attachments, uploads, lastContent, access, overlooked>>

FilesTypeOK ==
  /\ storage \in {"sql", "s3"}
  /\ blobs \in [BlobKeys -> BlobRows \cup {NoBlob}]
  /\ attachments \subseteq Attachment
  /\ uploads \in [Uploaders -> UploadRows \cup {NoUpload}]
  /\ lastContent \in 0..MaxContents
  /\ access \in [Folders -> {"public", "private", "deleted"}]
  /\ overlooked \subseteq ImageKeys

FilesInit ==
  /\ storage \in {"sql", "s3"}
  /\ blobs = [k \in BlobKeys |-> NoBlob] /\ attachments = {}
  /\ uploads = [r \in Uploaders |-> NoUpload] /\ lastContent = 0
  /\ access \in [Folders -> {"public", "private"}]
  /\ overlooked = {}

Uploading(r) == uploads[r] # NoUpload
Chosen(k) == \E r \in Uploaders : Uploading(r) /\ uploads[r].key = k
\* Two requests differ in what they store, so that a key one of them has
\* made for itself is not made again.
Fresh == {k \in FreshKeys : blobs[k] = NoBlob /\ ~Chosen(k) /\ \A a \in attachments : a.key # k}

\* What r reads: with SQL, what others have not committed is not there yet.
InStore(k) == k \in BlobKeys /\ blobs[k] # NoBlob
KeysOf(i) == {a.key : a \in {b \in attachments : b.idea = i}}

-----------------------------------------------------------------------------
(* uploading                                                               *)

\* MultiImageUpload, of one upload: by the attachments the idea has by now.
MayUpload(i) == access[i] # "deleted" /\ Cardinality(KeysOf(i)) < MaxUploads

KeepAnyway(k, isFile) == ~isFile /\ k # NoKey

\* The key of an image is kept when nothing is found there; S3 may also fail
\* to say, which counts as nothing.
Keep(k, isFile) == ~isFile /\ k # NoKey /\ (~InStore(k) \/ storage = "s3")
Replace(k, isFile) == isFile \/ k = NoKey \/ InStore(k)

UploadTo(r, i, k, isFile) ==
  /\ ~Uploading(r) /\ lastContent < MaxContents /\ MayUpload(i)
  /\ lastContent' = lastContent + 1
  /\ \E key \in BlobKeys :
       /\ \/ Keep(k, isFile) /\ key = k
          \/ Replace(k, isFile) /\ key \in Fresh
       /\ uploads' = [uploads EXCEPT ![r] = [idea |-> i, key |-> key, content |-> [number |-> lastContent', idea |-> i], isFile |-> isFile, at |-> "validated"]]
       /\ overlooked' = IF key \in ImageKeys /\ (Chosen(key) \/ (InStore(key) /\ storage = "s3"))
                          THEN overlooked \cup {key} ELSE overlooked
  /\ UNCHANGED <<storage, blobs, attachments, access>>

\* StoreBlob, over what is there.  With SQL the row is written with the commit
\* (CommitUpload), and another that writes it waits until then.
StoreBlob(r) ==
  LET u == uploads[r] IN
  /\ Uploading(r) /\ u.at = "validated"
  /\ uploads' = [uploads EXCEPT ![r].at = "stored"]
  /\ IF storage = "s3"
       THEN blobs' = [blobs EXCEPT ![u.key] = [content |-> u.content, isFile |-> u.isFile]]
       ELSE /\ \A q \in Uploaders \ {r} : Uploading(q) /\ uploads[q].key = u.key => uploads[q].at = "validated"
            /\ UNCHANGED blobs
  /\ UNCHANGED <<storage, attachments, lastContent, access, overlooked>>

\* SetAttachments, of an upload or of a key alone: the first is attached, once;
\* the other is one the idea has already, or is not attached.
SetAttachments(i, k, content) ==
  IF content = NoBlob \/ k \in KeysOf(i)
    THEN UNCHANGED attachments
    ELSE attachments' = attachments \cup {[idea |-> i, key |-> k, content |-> content]}

SetAnyAttachment(i, k, content) ==
  IF k \in KeysOf(i)
    THEN UNCHANGED attachments
    ELSE attachments' = attachments \cup {[idea |-> i, key |-> k, content |-> IF content = NoBlob THEN blobs[k].content ELSE content]}

\* The statements that follow the blob, up to the commit
CommitUpload(r) ==
  LET u == uploads[r] IN
  /\ Uploading(r) /\ u.at = "stored"
  /\ SetAttachments(u.idea, u.key, u.content)
  /\ blobs' = IF storage = "sql" THEN [blobs EXCEPT ![u.key] = [content |-> u.content, isFile |-> u.isFile]] ELSE blobs
  /\ uploads' = [uploads EXCEPT ![r] = NoUpload]
  /\ UNCHANGED <<storage, lastContent, access, overlooked>>

\* What S3 has been given stays.
RollbackUpload(r) ==
  /\ Uploading(r)
  /\ uploads' = [uploads EXCEPT ![r] = NoUpload]
  /\ UNCHANGED <<storage, blobs, attachments, lastContent, access, overlooked>>

\* An edit that names keys: of attachments to keep, or to remove.  No blob goes.
KeepAttachment(i, k) ==
  /\ access[i] # "deleted" /\ InStore(k)
  /\ SetAttachments(i, k, NoBlob)
  /\ UNCHANGED <<storage, blobs, uploads, lastContent, access, overlooked>>

RemoveAttachment(i, k) ==
  /\ access[i] # "deleted" /\ k \in KeysOf(i)
  /\ attachments' = {a \in attachments : a.idea # i \/ a.key # k}
  /\ UNCHANGED <<storage, blobs, uploads, lastContent, access, overlooked>>

ChangeAccess(i, to) ==
  /\ access[i] # "deleted" /\ access' = [access EXCEPT ![i] = to]
  /\ UNCHANGED <<storage, blobs, attachments, uploads, lastContent, overlooked>>

-----------------------------------------------------------------------------
(* ViewAttachmentFile, to somebody who may not see what is private         *)

\* GetPostIDByAttachment, GetPostByID: only keys of files/, by the idea each
\* is attached to
MayView(i, k) ==
  /\ k \in KeysOf(i) /\ access[i] = "public"
  /\ InStore(k) /\ blobs[k].isFile

FilesNext ==
  \/ \E r \in Uploaders : \/ StoreBlob(r) \/ CommitUpload(r) \/ RollbackUpload(r)
                          \/ \E i \in Folders, k \in ImageKeys \cup {NoKey}, isFile \in BOOLEAN : UploadTo(r, i, k, isFile)
  \/ \E i \in Folders, k \in BlobKeys : KeepAttachment(i, k) \/ RemoveAttachment(i, k)
  \/ \E i \in Folders, to \in {"public", "private", "deleted"} : ChangeAccess(i, to)

FilesSpec == FilesInit /\ [][FilesNext]_fileVars

-----------------------------------------------------------------------------
\* "Prevent overwriting" and "must never attach another idea's file": what is
\* at the key of an attachment is what was uploaded for it, whatever others
\* upload, roll back or attach, but for a key a client proposed that two
\* requests found free at the same time, or of which S3 failed to say that it
\* was taken.  And no visitor is shown a file that was uploaded for an idea
\* they may not see.
AttachmentsKeepTheirContent ==
  /\ \A a \in attachments : \/ a.key \in overlooked
                            \/ InStore(a.key) /\ blobs[a.key].content = a.content
  /\ \A i \in Folders, k \in BlobKeys : MayView(i, k) => access[blobs[k].content.idea] = "public"
=============================================================================
