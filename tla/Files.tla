-------------------------------- MODULE Files -------------------------------
(* FilesService: rows of `files` in the database and objects in an S3      *)
(* store that no transaction covers.  A browser uploads straight to the    *)
(* store with a presigned URL.                                             *)
CONSTANTS
    FileIds,
    FileCalls       \* requests that may be in flight at once

ASSUME FilesAssumption == FileIds # {}

VARIABLES
    fileRow,        \* files: status, and whether deleted_at is set
    object,         \* the objects the store has
    uploadUrl,      \* the files whose presigned upload URL still works
    fileCall,       \* of a request: what it does next, and to which file
    erased,         \* ghost: files whose object a removal has deleted
    spared          \* ghost: files whose object a removal could not delete,
                    \* or that was written again after one

fileVars == <<fileRow, object, uploadUrl, fileCall, erased, spared>>

FileStatus == {"none", "pending", "available", "deleted"}
FileSteps == {"idle", "head", "activate", "erase", "flag"}
Idle == [step |-> "idle", f |-> CHOOSE f \in FileIds : TRUE]

(* Types; and the store has, or may be sent, no object without a row.      *)
FilesTypeOK ==
    /\ fileRow \in [FileIds -> [status : FileStatus, removed : BOOLEAN]]
    /\ object \subseteq FileIds
    /\ uploadUrl \subseteq FileIds
    /\ fileCall \in [FileCalls -> [step : FileSteps, f : FileIds]]
    /\ erased \subseteq FileIds
    /\ spared \subseteq FileIds
    /\ \A f \in object \cup uploadUrl : fileRow[f].status # "none"

FilesInit ==
    /\ fileRow = [f \in FileIds |-> [status |-> "none", removed |-> FALSE]]
    /\ object = {}
    /\ uploadUrl = {}
    /\ fileCall = [c \in FileCalls |-> Idle]
    /\ erased = {}
    /\ spared = {}

-----------------------------------------------------------------------------
(* createUploadUrl: the row is committed before the URL is signed, which   *)
(* fails while the store is not configured.                                *)
Pending(f) == [fileRow EXCEPT ![f].status = "pending"]
CreateUploadUrl(f) ==
    /\ fileRow[f].status = "none"
    /\ fileRow' = Pending(f)
    /\ uploadUrl' \in {uploadUrl, uploadUrl \cup {f}}
    /\ UNCHANGED <<object, fileCall, erased, spared>>

(* The browser writes the object, again if it likes, while the URL works.  *)
PutObject(f) ==
    /\ f \in uploadUrl
    /\ object' = object \cup {f}
    /\ spared' = IF f \in erased THEN spared \cup {f} ELSE spared
    /\ UNCHANGED <<fileRow, uploadUrl, fileCall, erased>>

UrlExpires(f) ==
    /\ f \in uploadUrl
    /\ uploadUrl' = uploadUrl \ {f}
    /\ UNCHANGED <<fileRow, object, fileCall, erased, spared>>

(* findFirst of completeUpload and remove: any row of the tenant, a        *)
(* deleted one included.                                                   *)
FileFind(c, f, step) ==
    /\ fileCall[c].step = "idle"
    /\ fileRow[f].status # "none"
    /\ fileCall' = [fileCall EXCEPT ![c] = [step |-> step, f |-> f]]
    /\ UNCHANGED <<fileRow, object, uploadUrl, erased, spared>>

(* head answers "missing" also when the store cannot be reached.           *)
Unseen(c) == TRUE
SeenBy(c) == fileCall[c].f \in object
CompleteHead(c) ==
    /\ fileCall[c].step = "head"
    /\ \/ SeenBy(c) /\ fileCall' = [fileCall EXCEPT ![c].step = "activate"]
       \/ fileCall' = [fileCall EXCEPT ![c] = Idle]
    /\ UNCHANGED <<fileRow, object, uploadUrl, erased, spared>>

CompleteUpdate(c) ==
    /\ fileCall[c].step = "activate"
    /\ fileRow' = [fileRow EXCEPT ![fileCall[c].f].status = "available"]
    /\ fileCall' = [fileCall EXCEPT ![c] = Idle]
    /\ UNCHANGED <<object, uploadUrl, erased, spared>>

(* remove: a failure of the store is ignored.                              *)
LeftOver(f) == object
Without(f) == object \ {f}
RemoveObject(c) ==
    /\ fileCall[c].step = "erase"
    /\ LET f == fileCall[c].f IN
       \/ object' = Without(f) /\ erased' = erased \cup {f} /\ spared' = spared \ {f}
       \/ object' = object /\ spared' = spared \cup {f} /\ UNCHANGED erased
    /\ fileCall' = [fileCall EXCEPT ![c].step = "flag"]
    /\ UNCHANGED <<fileRow, uploadUrl>>

RemoveUpdate(c) ==
    /\ fileCall[c].step = "flag"
    /\ fileRow' = [fileRow EXCEPT ![fileCall[c].f] = [status |-> "deleted", removed |-> TRUE]]
    /\ fileCall' = [fileCall EXCEPT ![c] = Idle]
    /\ UNCHANGED <<object, uploadUrl, erased, spared>>

(* The request dies, or its transaction runs out of time: the row stays as *)
(* it was, whatever has happened to the object.                            *)
FileCallDies(c) ==
    /\ fileCall[c].step # "idle"
    /\ fileCall' = [fileCall EXCEPT ![c] = Idle]
    /\ UNCHANGED <<fileRow, object, uploadUrl, erased, spared>>

(* What list shows and downloadUrl signs.                                  *)
Offered == {f \in FileIds : fileRow[f].status = "available"}

FilesNext ==
    \/ \E f \in FileIds : CreateUploadUrl(f) \/ PutObject(f) \/ UrlExpires(f)
    \/ \E c \in FileCalls :
          \/ \E f \in FileIds : FileFind(c, f, "head") \/ FileFind(c, f, "erase")
          \/ CompleteHead(c) \/ CompleteUpdate(c)
          \/ RemoveObject(c) \/ RemoveUpdate(c) \/ FileCallDies(c)

-----------------------------------------------------------------------------
(* Properties                                                              *)

(* A file that list and downloadUrl offer has its object, unless a removal *)
(* has deleted it: an upload that failed, a retried complete or an         *)
(* expired URL never makes an empty file available.                        *)
OfferedWasUploaded ==
    Offered \subseteq object \cup erased

(* A deleted file leaves no object behind that nobody will ever delete,    *)
(* except where the store refused or the browser wrote it after the        *)
(* removal, or a removal that will flag the row is still at work.          *)
NoOrphanWithoutCause ==
    \A f \in FileIds : fileRow[f].removed /\ f \in object => f \in spared
=============================================================================
