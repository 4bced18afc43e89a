----------------------------- MODULE BlobStore -----------------------------
(***************************************************************************)
(* put_blob of scripts/sclib_compute/store.py, one system call at a time:  *)
(* the object file, its directory entry and its row in SQLite.  The upload *)
(* routes call it on the event loop of the only server process, so one put *)
(* is under way at a time, inside one SQLite transaction.                  *)
(*                                                                         *)
(* The file system (external) promises what POSIX does: bytes survive a    *)
(* power loss once their file was fsynced, a directory entry once its      *)
(* directory was; what was not synced may survive or not.  A committed row *)
(* survives (journal_mode=WAL, synchronous=FULL).  A content is its hash,  *)
(* all contents have one size, and the directory holds nothing else.       *)
(***************************************************************************)
EXTENDS Naturals, FiniteSets

CONSTANTS
  Blob,
  Total,       \* total_artifact_bytes, in objects
  Disk,        \* room on the volume, in objects
  MinFree,     \* min_free_bytes, in objects
  MaxErrors    \* bound on errors, kills and power losses, for model checking

ASSUME BlobAssumption == IsFiniteSet(Blob) /\ {Total, Disk, MinFree, MaxErrors} \subseteq Nat

VARIABLES
  rows,       \* the blobs table
  object,     \* object[b]: the file named b, as a reader would find it
  durable,    \* the names whose directory entry is on disk
  pending,    \* number of pending-* files
  put,        \* the call under way
  adopted,    \* history: rows inserted for a file that was found, not written
  errors,
  crashes     \* history: how many of the errors were kills or power losses

svars == <<rows, object, durable, pending, put, adopted, errors, crashes>>

NoPut == [pc |-> "idle", blob |-> "none", bytes |-> "none"]
Named == {b \in Blob : object[b] # "none"}

SInit ==
  /\ rows = {} /\ object = [b \in Blob |-> "none"] /\ durable = {} /\ pending = 0
  /\ put = NoPut /\ adopted = {} /\ errors = 0 /\ crashes = 0

PutAt(label) == put.pc = label
-----------------------------------------------------------------------------
(* The checks that precede any write. *)

Free == Disk - Cardinality(Named) - pending
MayWrite == Free >= MinFree + 1 /\ Cardinality(rows) + 1 <= Total

\* read_blob: the file is there, with the bytes its name says.
Readable(b) == object[b] \in {"cached", "whole"}

\* A call refused for want of room or for an unreadable file, and one for a
\* row that exists, which is read again and acknowledged or refused.
AnswerOnly(b) ==
  /\ PutAt("idle") /\ (MayWrite => b \in rows \/ object[b] = "torn")
  /\ UNCHANGED svars

OpenFile(b) ==
  /\ PutAt("idle") /\ MayWrite /\ b \notin rows /\ object[b] = "none"
  /\ put' = [pc |-> "write", blob |-> b, bytes |-> "cached"]
  /\ pending' = pending + 1
  /\ UNCHANGED <<rows, object, durable, adopted, errors, crashes>>

\* Faulty: an object without a row is refused.
AdoptNever(b) == PutAt("idle") /\ b \notin rows /\ object[b] # "none" /\ UNCHANGED svars

\* The object exists without a row: it is verified and gets one.
Adopt(b) ==
  /\ PutAt("idle") /\ MayWrite /\ b \notin rows /\ Readable(b)
  /\ put' = [pc |-> "insert", blob |-> b, bytes |-> object[b]]
  /\ adopted' = adopted \cup {b}
  /\ UNCHANGED <<rows, object, durable, pending, errors, crashes>>

SyncFile ==
  /\ PutAt("write") /\ put' = [put EXCEPT !.pc = "rename", !.bytes = "whole"]
  /\ UNCHANGED <<rows, object, durable, pending, adopted, errors, crashes>>

Rename ==
  /\ PutAt("rename")
  /\ object' = [object EXCEPT ![put.blob] = put.bytes]
  /\ pending' = pending - 1
  /\ put' = [put EXCEPT !.pc = "syncdir"]
  /\ UNCHANGED <<rows, durable, adopted, errors, crashes>>

\* Faulty: the directory is not fsynced.
SyncDirectorySkipped ==
  /\ PutAt("syncdir") /\ put' = [put EXCEPT !.pc = "insert"]
  /\ UNCHANGED <<rows, object, durable, pending, adopted, errors, crashes>>

SyncDirectory ==
  /\ PutAt("syncdir")
  /\ durable' = Named
  /\ put' = [put EXCEPT !.pc = "insert"]
  /\ UNCHANGED <<rows, object, pending, adopted, errors, crashes>>

\* INSERT and COMMIT.
Insert ==
  /\ PutAt("insert")
  /\ rows' = rows \cup {put.blob}
  /\ put' = NoPut
  /\ UNCHANGED <<object, durable, pending, adopted, errors, crashes>>
-----------------------------------------------------------------------------
(* What goes wrong.  An adopted name without a row is adopted no more.     *)

Trouble == errors < MaxErrors /\ errors' = errors + 1
Gone == put' = NoPut /\ adopted' = adopted \cap rows /\ UNCHANGED rows

\* A call of the operating system or of SQLite fails: the pending file is
\* unlinked, the transaction rolled back; a renamed object stays.
RaiseError ==
  /\ ~PutAt("idle") /\ Trouble /\ Gone
  /\ pending' = pending - (IF put.pc \in {"write", "rename"} THEN 1 ELSE 0)
  /\ UNCHANGED <<object, durable, crashes>>

\* The service is killed; the operating system goes on.
Kill ==
  /\ ~PutAt("idle") /\ Trouble /\ Gone
  /\ crashes' = crashes + 1
  /\ UNCHANGED <<object, durable, pending>>

\* The machine loses power and starts again.
PowerLoss ==
  /\ Trouble /\ Gone
  /\ crashes' = crashes + 1
  /\ \E kept \in SUBSET Named :
       /\ durable \subseteq kept
       /\ durable' = kept
       /\ object' \in [Blob -> {"none", "torn", "whole"}]
       /\ \A b \in Blob : IF b \notin kept THEN object'[b] = "none"
                          ELSE IF object[b] = "cached" THEN object'[b] \in {"torn", "whole"}
                          ELSE object'[b] = object[b]
  /\ pending' \in 0..pending

SNext ==
  \/ \E b \in Blob : OpenFile(b) \/ Adopt(b) \/ AnswerOnly(b)
  \/ SyncFile \/ Rename \/ SyncDirectory \/ Insert
  \/ RaiseError \/ Kill \/ PowerLoss

SSpec == SInit /\ [][SNext]_svars
-----------------------------------------------------------------------------
(* Whatever stands under the name of a content is that content: a file is  *)
(* renamed only after its bytes are on disk, so no power loss leaves torn  *)
(* bytes that would make every later upload fail with artifact_corrupted.  *)
NamedIsWhole == \A b \in Blob : object[b] \in {"none", "whole"}

(* A row inserted by the call that wrote its object outlives every kill    *)
(* and power loss together with the object.  A row inserted for an object  *)
(* that was found may lose it: its directory entry was perhaps never       *)
(* synced, and Adopt does not sync it.                                     *)
WrittenIsDurable == \A b \in rows \ adopted : b \in durable /\ object[b] = "whole"

(* Only a kill or a power loss leaves a pending file behind, and one at    *)
(* most: a call that raises removes its own.                               *)
LeftByCrashOnly == pending <= crashes + (IF put.pc \in {"write", "rename"} THEN 1 ELSE 0)

(* What interrupted uploads leave: whole objects, rows that keep theirs,   *)
(* and no more litter than there were crashes.                             *)
ObjectsKept == NamedIsWhole /\ WrittenIsDurable /\ LeftByCrashOnly

(* A content that fits is stored in the end, whatever was interrupted: an  *)
(* object whose row was never committed does not stand in the way.         *)
UploadLands == \A b \in Blob : <>(b \in rows)
=============================================================================
