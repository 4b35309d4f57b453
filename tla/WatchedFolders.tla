--------------------------- MODULE WatchedFolders ---------------------------
(***************************************************************************)
(* TorrentFilesWatcher: a thread takes the torrent files that appear in a  *)
(* watched folder, tries those that are still being copied again, and      *)
(* rejects them at last.                                                   *)
(*                                                                         *)
(* One folder of a local file system.  A recursive folder is looked at     *)
(* every WATCH_INTERVAL, another one when the file system reports a        *)
(* change; subfolders and the options of the torrents are left out.        *)
(* Assumed: files can be removed, and renamed if there is none of the new  *)
(* name; a magnet file that cannot be read stays so until it is deleted.   *)
(***************************************************************************)
EXTENDS Integers, Sequences

CONSTANTS
  File,           \* the files that may appear in the folder
  MagnetFile,     \* those with the extension .magnet; the others are .torrent files
  MaxRetries,     \* MAX_FAILED_RETRIES
  MaxScheduled,   \* bound: scheduled looks at the folder, more of them count as one
  MaxFolderCalls  \* bound: calls waiting for the thread

VARIABLES
  folder,        \* TorrentFilesWatcher: how the folder is watched
  folderCalls,   \* the calls posted to the thread
  watched,       \* Worker: how the folder is watched
  reported,      \* m_watcher has the folder
  scheduled,     \* timers of scheduleWatchedFolderProcessing
  failed,        \* m_failedTorrents: the retries of each file, -1 if it is not there
  retryTimer,    \* m_retryTorrentTimer is active
  file,          \* the files in the folder, and what has become of the others
  rejected       \* the files of which there is one with ".qbt_rejected" appended

workerState == <<watched, reported, scheduled, failed, retryTimer>>
folderVars == <<folder, folderCalls, workerState, file, rejected>>

ASSUME WatchedAssumption == MagnetFile \subseteq File /\ MaxRetries \in Nat /\ MaxScheduled \in Nat

Mode == {"none", "plain", "recursive"}
NoFailed == [f \in File |-> -1]

\* A file is being written or complete; or it cannot be opened or is too big,
\* which is told from the others of a magnet file only.
Arriving(f) == {"partial", "complete"} \cup {s \in {"unreadable"} : f \in MagnetFile}
InFolder == {"partial", "complete", "unreadable"}

WatchedInit ==
  /\ folder = "none" /\ folderCalls = <<>>
  /\ watched = "none" /\ reported = FALSE /\ scheduled = 0
  /\ failed = NoFailed /\ retryTimer = FALSE
  /\ file = [f \in File |-> "absent"] /\ rejected = {}

-----------------------------------------------------------------------------
\* setWatchedFolder, removeWatchedFolder
SetFolder(mode) ==
  /\ folder = "none" => mode # "none"
  /\ Len(folderCalls) < MaxFolderCalls
  /\ folder' = mode
  /\ folderCalls' = Append(folderCalls, mode)
  /\ UNCHANGED <<workerState, file, rejected>>

More(n) == IF n < MaxScheduled THEN n + 1 ELSE n

\* A file appears in the folder or leaves it: directoryChanged.
Changed == scheduled' = IF reported THEN More(scheduled) ELSE scheduled

Arrive(f, state) ==
  /\ file[f] \notin InFolder
  /\ file' = [file EXCEPT ![f] = state]
  /\ Changed
  /\ UNCHANGED <<folder, folderCalls, watched, reported, failed, retryTimer, rejected>>

\* The rest of a file is written: that is not reported.
Complete(f) ==
  /\ file[f] = "partial"
  /\ file' = [file EXCEPT ![f] = "complete"]
  /\ UNCHANGED <<folder, folderCalls, workerState, rejected>>

Delete(f) ==
  /\ file[f] \in InFolder
  /\ file' = [file EXCEPT ![f] = "absent"]
  /\ Changed
  /\ UNCHANGED <<folder, folderCalls, watched, reported, failed, retryTimer, rejected>>

DeleteRejected(f) ==
  /\ f \in rejected
  /\ rejected' = rejected \ {f}
  /\ Changed
  /\ UNCHANGED <<folder, folderCalls, watched, reported, failed, retryTimer, file>>

-----------------------------------------------------------------------------
\* Worker::setWatchedFolder, for a new folder or another mode; the timer of a
\* recursive folder is active as long as it is watched.
Watch(mode) ==
  /\ mode # "none"
  /\ watched' = mode
  /\ reported' = (mode = "plain")
  /\ scheduled' = IF mode = "plain" /\ watched # "plain" THEN More(scheduled) ELSE scheduled
  /\ UNCHANGED <<failed, retryTimer>>

\* Worker::removeWatchedFolder
Unwatch ==
  /\ watched' = "none"
  /\ reported' = FALSE
  /\ failed' = NoFailed
  /\ retryTimer' = FALSE
  /\ UNCHANGED scheduled

PerformCall ==
  /\ folderCalls # <<>>
  /\ \/ Watch(Head(folderCalls))
     \/ Head(folderCalls) = "none" /\ Unwatch
  /\ folderCalls' = Tail(folderCalls)
  /\ UNCHANGED <<folder, file, rejected>>

\* What becomes of a file that is loaded: of a magnet file what there is.
Loaded(f) == IF file[f] = "complete" THEN "taken" ELSE "cut"
Loadable(f) == file[f] = "complete" \/ (file[f] = "partial" /\ f \in MagnetFile)

\* processFolder: take the files that can be loaded, note the other .torrent
\* files; a magnet file that cannot be read is only logged.
ProcessFolder ==
  /\ file' = [f \in File |-> IF Loadable(f) THEN Loaded(f) ELSE file[f]]
  /\ failed' = [f \in File |-> IF file[f] = "partial" /\ f \notin MagnetFile /\ failed[f] = -1
                               THEN 0 ELSE failed[f]]
  /\ UNCHANGED rejected

\* Mutant: the timer is not started for files noted now.
StartRetry_Late == retryTimer' = retryTimer

StartRetry == retryTimer' = (retryTimer \/ failed' # NoFailed)

\* Files that are removed are reported as well.
Reported(pending) == IF reported /\ file' # file THEN More(pending) ELSE pending

\* processWatchedFolder, at the time scheduled ...
ProcessScheduled ==
  /\ scheduled > 0
  /\ ProcessFolder
  /\ StartRetry
  /\ scheduled' = Reported(scheduled - 1)
  /\ UNCHANGED <<folder, folderCalls, watched, reported>>

\* ... or by the timer.
WatchTimeout ==
  /\ watched = "recursive"
  /\ ProcessFolder
  /\ StartRetry
  /\ UNCHANGED <<folder, folderCalls, watched, reported, scheduled>>

\* renameFile does not replace a file, and its result is not looked at.
Overdue(f) == file[f] = "partial" /\ failed[f] >= MaxRetries
Rejectable(f) == Overdue(f) /\ f \notin rejected

\* processFailedTorrents: a file that is gone is forgotten, one that has been
\* completed is taken, and one that fails for too long is renamed, if it can be,
\* and forgotten.
RetryTimeout ==
  /\ retryTimer
  /\ file' = [f \in File |->
                IF failed[f] = -1 THEN file[f]
                ELSE IF file[f] = "complete" THEN "taken"
                ELSE IF Rejectable(f) THEN "rejected"
                ELSE file[f]]
  /\ rejected' = rejected \cup {f \in File : failed[f] # -1 /\ Rejectable(f)}
  /\ failed' = [f \in File |-> IF failed[f] # -1 /\ file[f] = "partial" /\ ~Overdue(f)
                               THEN failed[f] + 1 ELSE -1]
  /\ retryTimer' = (failed' # NoFailed)
  /\ scheduled' = Reported(scheduled)
  /\ UNCHANGED <<folder, folderCalls, watched, reported>>

WatchedNext ==
  \/ \E mode \in Mode : SetFolder(mode)
  \/ \E f \in File : \/ \E state \in Arriving(f) : Arrive(f, state)
                     \/ Complete(f)
                     \/ Delete(f) \/ DeleteRejected(f)
  \/ PerformCall
  \/ ProcessScheduled \/ WatchTimeout \/ RetryTimeout

\* The timers of the thread fire.
WatchedFairness ==
  /\ WF_folderVars(ProcessScheduled)
  /\ WF_folderVars(WatchTimeout)
  /\ WF_folderVars(RetryTimeout)

WatchedSpec == WatchedInit /\ [][WatchedNext]_folderVars
WatchedFairSpec == WatchedSpec /\ WatchedFairness

-----------------------------------------------------------------------------
(* Properties. *)

(* Types of the variables; each timer is active as long as it has work. *)
WatchedTypeOK ==
  /\ folder \in Mode /\ watched \in Mode
  /\ folderCalls \in Seq(Mode)
  /\ reported = (watched = "plain")
  /\ scheduled \in 0..MaxScheduled
  /\ failed \in [File -> -1..MaxRetries]
  /\ retryTimer = (failed # NoFailed)
  /\ file \in [File -> InFolder \cup {"absent", "taken", "cut", "rejected"}]
  /\ rejected \subseteq File

Untaken(f) == file[f] \in {"partial", "complete"}

(* "Check which torrents are still partial": a file in a watched folder, found
   while it was written or only afterwards, is taken or rejected in the end,
   unless it is deleted, the folder is no longer watched, or there is a rejected
   file of its name already. *)
FilesAreTaken ==
  \A f \in File :
    (Untaken(f) /\ watched # "none" /\ f \notin rejected) ~>
      (~Untaken(f) \/ watched = "none" \/ f \in rejected)

(* The same of all files: one that cannot be rejected is forgotten, and never
   taken in a plain folder, not even when it is complete; a magnet file that
   cannot be read is neither taken nor rejected. *)
NoFileIsLeft ==
  \A f \in File :
    (file[f] \in InFolder /\ watched # "none") ~> (file[f] \notin InFolder \/ watched = "none")

(* Files are taken from watched folders only. *)
TakenIsWatched ==
  [][ \A f \in File : file'[f] \in {"taken", "cut", "rejected"} /\ file'[f] # file[f]
        => watched # "none" ]_folderVars

(* A file is taken when it is complete. *)
TakenIsComplete == \A f \in File : file[f] # "cut"

=============================================================================
