------------------------------ MODULE Storage ------------------------------
(***************************************************************************)
(* Uploaded files: logos of carriers (CarriersService.uploadLogo and       *)
(* CarrierImageStorageService) and files to import (ImportsService.create  *)
(* and ImportFileStorageService). A file is written under a new random key *)
(* in the directory of its tenant; a row names it afterwards. No file is   *)
(* ever removed. Import jobs as such are in module Imports.                *)
(***************************************************************************)
EXTENDS Naturals

CONSTANTS
  Carriers,   \* carriers that get a logo
  Jobs,       \* ids of import jobs
  Tenant,     \* the tenant of a carrier or job
  Keys,       \* random UUIDs
  Uploads,    \* files as sent: size, mime type, extension and content
  Requests    \* HTTP requests in flight at one time

\* A key is a UUID, and the ids of carriers and jobs are those of two tables.
ASSUME PathsAssumption == Carriers \cap Jobs = {} /\ "none" \notin Keys

VARIABLES
  disk,     \* what is stored, by path
  named,    \* logoStorageKey of a carrier, storedFilename of a job
  request,  \* HTTP requests in flight
  accepted  \* history: the upload that a row was last written for

storageVars == <<disk, named, request, accepted>>

FileOwners == Carriers \cup Jobs

NoFile == [content |-> "none", extension |-> "none"]

NoUpload == [pc |-> "idle"]

\* safePath: a directory of the tenant, and in it for logos one of the carrier.
ImagePath(c, k) == <<"images", Tenant[c], c, k>>

ImportPath(j, k) == <<"imports", Tenant[j], k>>

PathOf(o, k) == IF o \in Carriers THEN ImagePath(o, k) ELSE ImportPath(o, k)

StorageInit ==
  /\ disk = [p \in {PathOf(o, k) : o \in FileOwners, k \in Keys} |-> NoFile]
  /\ named = [o \in FileOwners |-> "none"]
  /\ request = [q \in Requests |-> NoUpload]
  /\ accepted = [o \in FileOwners |-> NoFile]

-----------------------------------------------------------------------------
(* Logos; sizes in megabytes *)

ContentTypeFor(extension) ==
  CASE extension \in {"jpg", "jpeg"} -> "image/jpeg"
    [] extension = "png" -> "image/png"
    [] extension = "webp" -> "image/webp"
    [] OTHER -> "application/octet-stream"

SafeImageExtension(file) == file.extension \in {"jpg", "jpeg", "png", "webp"}

\* The mime type is what the client says; the extension is looked at in save.
ValidateLogo(file) ==
  /\ file.size > 0 /\ file.size <= 2
  /\ file.mimetype \in {"image/png", "image/jpeg", "image/webp"}

BeginUpload(q, o, file) ==
  /\ request[q] = NoUpload
  /\ request' = [request EXCEPT ![q] = [pc |-> "save", owner |-> o, file |-> file]]
  /\ UNCHANGED <<disk, named, accepted>>

UploadLogo(q, c, file) == c \in Carriers /\ ValidateLogo(file) /\ BeginUpload(q, c, file)

\* writeFile creates the file and fills it.
Write(q, path, k) ==
  LET file == request[q].file IN
  /\ request[q].pc = "save"
  /\ disk' = [disk EXCEPT ![path] = [content |-> "part", extension |-> file.extension]]
  /\ request' = [request EXCEPT ![q] = [pc |-> "fill", owner |-> request[q].owner, file |-> file, key |-> k]]
  /\ UNCHANGED <<named, accepted>>

\* Faulty variant: a logo replaces the file of the one before.
SaveImageInPlace(q, k) ==
  LET o == request[q].owner IN
  /\ request[q].pc = "save"
  /\ o \in Carriers /\ SafeImageExtension(request[q].file)
  /\ IF named[o] = "none" THEN disk[ImagePath(o, k)] = NoFile ELSE k = named[o]
  /\ Write(q, ImagePath(o, k), k)

\* save: flag wx refuses a path that exists.
SaveImage(q, k) ==
  LET o == request[q].owner IN
  /\ request[q].pc = "save"
  /\ o \in Carriers /\ SafeImageExtension(request[q].file)
  /\ disk[ImagePath(o, k)] = NoFile
  /\ Write(q, ImagePath(o, k), k)

\* The file is whole; both services compute its hash from the upload, not from here.
FileWritten(q) ==
  /\ request[q].pc = "fill"
  /\ disk' = [disk EXCEPT ![PathOf(request[q].owner, request[q].key)].content = request[q].file.content]
  /\ request' = [request EXCEPT ![q].pc = "name"]
  /\ UNCHANGED <<named, accepted>>

Name(q) ==
  /\ request[q].pc = "name"
  /\ named' = [named EXCEPT ![request[q].owner] = request[q].key]
  /\ accepted' = [accepted EXCEPT ![request[q].owner] =
       [content |-> request[q].file.content, extension |-> request[q].file.extension]]
  /\ request' = [request EXCEPT ![q] = NoUpload]
  /\ UNCHANGED disk

\* The update of the carrier; the file named before stays on the disk.
NameLogo(q) == request[q].pc = "name" /\ request[q].owner \in Carriers /\ Name(q)

\* What readLogo answers, of a carrier with a logo.
ReadLogo(c) ==
  LET stored == disk[ImagePath(c, named[c])]
  IN [buffer |-> stored.content, contentType |-> ContentTypeFor(stored.extension)]

-----------------------------------------------------------------------------
(* Files to import *)

SafeExtension(file) == file.extension \in {"csv", "xlsx"}

\* create, once the file was parsed: module Intake has the checks before.
UploadImport(q, j, file) ==
  j \in Jobs /\ named[j] = "none" /\ SafeExtension(file) /\ BeginUpload(q, j, file)

SaveImport(q, k) ==
  LET j == request[q].owner IN
  /\ request[q].pc = "save"
  /\ j \in Jobs /\ SafeExtension(request[q].file)
  /\ disk[ImportPath(j, k)] = NoFile
  /\ Write(q, ImportPath(j, k), k)

\* The insert of the job, whose id is new.
NameImport(q) ==
  /\ request[q].pc = "name"
  /\ request[q].owner \in Jobs /\ named[request[q].owner] = "none"
  /\ Name(q)

\* What the worker and the download read.
ReadImport(j) == disk[ImportPath(j, named[j])]

\* A check, a write or a query fails, or the process ends.
UploadFails(q) ==
  /\ request[q] # NoUpload
  /\ request' = [request EXCEPT ![q] = NoUpload]
  /\ UNCHANGED <<disk, named, accepted>>

StorageNext ==
  \E q \in Requests :
    \/ \E o \in FileOwners, file \in Uploads : UploadLogo(q, o, file) \/ UploadImport(q, o, file)
    \/ \E k \in Keys : SaveImage(q, k) \/ SaveImport(q, k)
    \/ FileWritten(q) \/ NameLogo(q) \/ NameImport(q) \/ UploadFails(q)

StorageSpec == StorageInit /\ [][StorageNext]_storageVars

-----------------------------------------------------------------------------
(* Properties *)

\* A row names a file that is whole and its own: whatever uploads overlap, fail or
\* are cut off, a job's file and a carrier's logo are what was sent with the request
\* that wrote the row last, and a logo is served as an image (uploadLogo, create,
\* save). The type it is served as is that of its extension, whatever type
\* validateLogo let in.
NamedFileIsWhole ==
  /\ \A o \in FileOwners : named[o] # "none" =>
       IF o \in Carriers
       THEN ReadLogo(o) = [buffer |-> accepted[o].content,
                           contentType |-> ContentTypeFor(accepted[o].extension)]
              /\ ReadLogo(o).contentType # "application/octet-stream"
       ELSE ReadImport(o) = accepted[o]
  /\ \A o, p \in FileOwners :
       (o # p /\ named[o] # "none") => PathOf(o, named[o]) # PathOf(p, named[p])
=============================================================================
