---------------------------- MODULE ResumeFiles -----------------------------
(***************************************************************************)
(* BencodeResumeDataStorage: two files for each torrent, its resume data   *)
(* and its metadata, and one file for the order of the queue, written by a *)
(* thread of its own.                                                      *)
(*                                                                         *)
(* QSaveFile replaces a file as a whole.  The calls of the session reach   *)
(* the thread in their order; those that are waiting when the thread is    *)
(* told to quit may be dropped.                                            *)
(***************************************************************************)
EXTENDS Integers, Sequences, FiniteSets, SequencesExt

CONSTANTS
  ID,          \* torrent IDs: numbers, as a folder lists files by name
  QueueID,     \* the IDs that loadQueue is checked with
  FileFaults,  \* kinds of disks: each is the set of operations that may fail on it
  MaxCalls     \* bound: calls waiting for the thread

VARIABLES
  files,         \* the program: "off", "running" or "closing"
  known,         \* the session's torrents: "none", "magnet" or "full" (with metadata)
  calls,         \* the calls posted to the thread
  writing,       \* the call the thread is performing, and the file it is at
  resumeFile,    \* what each .fastresume file was written from
  metadataFile,  \* the IDs that have a .torrent file
  queueFile,     \* the IDs in the queue file
  fileDisk       \* the operations that may fail

fileData == <<resumeFile, metadataFile, queueFile>>
fileVars == <<files, known, calls, writing, fileData, fileDisk>>

ASSUME FilesAssumption ==
  /\ ID \subseteq Nat /\ IsFiniteSet(ID) /\ QueueID \subseteq Nat /\ IsFiniteSet(QueueID)
  /\ \A faults \in FileFaults : faults \subseteq {"write", "remove"}

NoCall == [op |-> "none"]
Store(id, kind) == [op |-> "store", id |-> id, kind |-> kind]
RemoveCall(id) == [op |-> "remove", id |-> id]
StoreQueue(queue) == [op |-> "queue", queue |-> queue]

At(call, file) == [call |-> call, file |-> file]
Idle == At(NoCall, 0)

FilesInit ==
  /\ files = "off"
  /\ known = [id \in ID |-> "none"]
  /\ calls = <<>>
  /\ writing = Idle
  /\ resumeFile = [id \in ID |-> "none"]
  /\ metadataFile = {}
  /\ queueFile = <<>>
  /\ fileDisk \in FileFaults

-----------------------------------------------------------------------------
\* The .fastresume files in the order of their names.
Directory(registered) ==
  CHOOSE list \in SetToSeqs(registered) : \A i, j \in DOMAIN list : i < j => list[i] < list[j]

\* Mutant: the torrent that makes room keeps its index.
QueueLine_OldIndex(loading, id) ==
  LET pos == loading.index[id]
      moved == loading.list[loading.queuePos]
  IN IF pos = 0 THEN loading
     ELSE [list     |-> [loading.list EXCEPT ![pos] = moved, ![loading.queuePos] = id],
           index    |-> loading.index,
           queuePos |-> loading.queuePos + 1]

\* loadQueue: the torrent of each line changes places with the one that is at
\* the next position.
QueueLine(loading, id) ==
  LET pos == loading.index[id]
      moved == loading.list[loading.queuePos]
  IN IF pos = 0 THEN loading
     ELSE [list     |-> [loading.list EXCEPT ![pos] = moved, ![loading.queuePos] = id],
           index    |-> [loading.index EXCEPT ![moved] = pos],
           queuePos |-> loading.queuePos + 1]

LoadQueue(queue, list) ==
  LET index == [id \in QueueID |-> IF Contains(list, id)
                                   THEN CHOOSE i \in DOMAIN list : list[i] = id ELSE 0]
  IN FoldLeft(QueueLine, [list |-> list, index |-> index, queuePos |-> 1], queue).list

-----------------------------------------------------------------------------
\* The constructor and load: what has no metadata file comes back without.
StartFiles ==
  /\ files = "off"
  /\ files' = "running"
  /\ known' = [id \in ID |-> IF resumeFile[id] = "none" THEN "none"
                             ELSE IF id \in metadataFile THEN "full" ELSE "magnet"]
  /\ UNCHANGED <<calls, writing, fileData, fileDisk>>

Post(call) ==
  /\ files = "running"
  /\ Len(calls) < MaxCalls
  /\ calls' = Append(calls, call)
  /\ UNCHANGED <<files, writing, fileData, fileDisk>>

\* store, of a new torrent or of one that has changed: metadata is never lost.
StoreTorrent(id, kind) ==
  /\ known[id] = "full" => kind = "full"
  /\ Post(Store(id, kind))
  /\ known' = [known EXCEPT ![id] = kind]

RemoveResume(id) ==
  /\ known[id] # "none"
  /\ Post(RemoveCall(id))
  /\ known' = [known EXCEPT ![id] = "none"]

\* storeQueue, with the session's torrents in any order.
StoreOrder ==
  /\ \E queue \in SetToSeqs({id \in ID : known[id] # "none"}) : Post(StoreQueue(queue))
  /\ UNCHANGED known

CloseFiles ==
  /\ files = "running"
  /\ files' = "closing"
  /\ UNCHANGED <<known, calls, writing, fileData, fileDisk>>

FilesGone ==
  /\ files' = "off"
  /\ calls' = <<>>
  /\ writing' = Idle
  /\ known' = [id \in ID |-> "none"]
  /\ UNCHANGED <<fileData, fileDisk>>

\* The thread ends between two calls; the process may end anywhere.
ThreadEnds == files = "closing" /\ writing = Idle /\ FilesGone

FilesCrash == files # "off" /\ FilesGone

-----------------------------------------------------------------------------
unwritten == <<files, known, fileDisk>>

TakeCall ==
  /\ files # "off"
  /\ writing = Idle /\ calls # <<>>
  /\ writing' = At(Head(calls), 1)
  /\ calls' = Tail(calls)
  /\ UNCHANGED <<unwritten, fileData>>

FileDone == writing' = Idle
ResumeNext == writing' = [writing EXCEPT !.file = 2]

\* Mutant: a failure to write the metadata is not looked at.
WriteMetadata_GoOn ==
  /\ writing.call.op = "store" /\ writing.file = 1
  /\ \/ /\ writing.call.kind = "full"
        /\ \/ metadataFile' = metadataFile \cup {writing.call.id}
           \/ "write" \in fileDisk /\ UNCHANGED metadataFile
     \/ writing.call.kind = "magnet" /\ UNCHANGED metadataFile
  /\ ResumeNext
  /\ UNCHANGED <<unwritten, calls, resumeFile, queueFile>>

\* Worker::store: the metadata, if there is any; nothing more if that fails ...
WriteMetadata ==
  /\ writing.call.op = "store" /\ writing.file = 1
  /\ \/ /\ writing.call.kind = "full"
        /\ metadataFile' = metadataFile \cup {writing.call.id} /\ ResumeNext
     \/ writing.call.kind = "full" /\ "write" \in fileDisk /\ FileDone /\ UNCHANGED metadataFile
     \/ writing.call.kind = "magnet" /\ ResumeNext /\ UNCHANGED metadataFile
  /\ UNCHANGED <<unwritten, calls, resumeFile, queueFile>>

\* ... and then the resume data.
WriteResume ==
  /\ writing.call.op = "store" /\ writing.file = 2
  /\ \/ resumeFile' = [resumeFile EXCEPT ![writing.call.id] = writing.call.kind]
     \/ "write" \in fileDisk /\ UNCHANGED resumeFile
  /\ FileDone
  /\ UNCHANGED <<unwritten, calls, metadataFile, queueFile>>

\* Worker::remove: the other way round.
RemoveResumeFile ==
  /\ writing.call.op = "remove" /\ writing.file = 1
  /\ \/ resumeFile' = [resumeFile EXCEPT ![writing.call.id] = "none"]
     \/ "remove" \in fileDisk /\ UNCHANGED resumeFile
  /\ ResumeNext
  /\ UNCHANGED <<unwritten, calls, metadataFile, queueFile>>

RemoveMetadataFile ==
  /\ writing.call.op = "remove" /\ writing.file = 2
  /\ \/ metadataFile' = metadataFile \ {writing.call.id}
     \/ "remove" \in fileDisk /\ UNCHANGED metadataFile
  /\ FileDone
  /\ UNCHANGED <<unwritten, calls, resumeFile, queueFile>>

\* Worker::storeQueue
WriteQueue ==
  /\ writing.call.op = "queue"
  /\ \/ queueFile' = writing.call.queue
     \/ "write" \in fileDisk /\ UNCHANGED queueFile
  /\ FileDone
  /\ UNCHANGED <<unwritten, calls, resumeFile, metadataFile>>

FilesNext ==
  \/ StartFiles
  \/ \E id \in ID : \/ \E kind \in {"magnet", "full"} : StoreTorrent(id, kind)
                    \/ RemoveResume(id)
  \/ StoreOrder
  \/ CloseFiles \/ ThreadEnds \/ FilesCrash
  \/ TakeCall
  \/ WriteMetadata \/ WriteResume
  \/ RemoveResumeFile \/ RemoveMetadataFile
  \/ WriteQueue

FilesSpec == FilesInit /\ [][FilesNext]_fileVars

-----------------------------------------------------------------------------
(* Properties. *)

Call == [op: {"store"}, id: ID, kind: {"magnet", "full"}]
        \cup [op: {"remove"}, id: ID] \cup [op: {"queue"}, queue: Seq(ID)]

(* Types of the variables. *)
FilesTypeOK ==
  /\ files \in {"off", "running", "closing"}
  /\ known \in [ID -> {"none", "magnet", "full"}]
  /\ resumeFile \in [ID -> {"none", "magnet", "full"}]
  /\ metadataFile \subseteq ID
  /\ queueFile \in Seq(ID)
  /\ calls \in Seq(Call) /\ writing \in {Idle} \cup [call: Call, file: 1..2]
  /\ fileDisk \in FileFaults

(* "metadata is stored in separate .torrent file": wherever the process ends,
   and whatever cannot be written, resume data of a torrent with metadata never
   is without the metadata file; only a failure to remove a file may do that. *)
MetadataIsThere ==
  "remove" \notin fileDisk =>
    \A id \in ID : resumeFile[id] = "full" => id \in metadataFile

\* Of any folder and any queue file: no torrent is lost or doubled, and before
\* one of the queue file there are only those that come before it in the file.
LoadQueueIsExact ==
  \A registered \in SUBSET QueueID :
    \A queue \in UNION {SetToSeqs(S) : S \in SUBSET QueueID} :
      LET list == LoadQueue(queue, Directory(registered))
      IN /\ list \in SetToSeqs(registered)
         /\ \A i, j \in DOMAIN list : i < j /\ Contains(queue, list[j]) =>
              \E k, l \in DOMAIN queue : k < l /\ queue[k] = list[i] /\ queue[l] = list[j]

(* Whatever torrents the folder holds when the program starts, they come back in
   the order of the queue file, however many of its lines are of torrents that
   are gone, followed by those it does not have; none is lost or doubled by
   changing places. *)
QueueIsRestored == files = "off" => LoadQueueIsExact

=============================================================================
