---------------------------- MODULE SettingsFile ----------------------------
(***************************************************************************)
(* SettingsStorage: the settings in memory, saved some seconds after a     *)
(* change by writing a second file, removing the first and renaming the    *)
(* second, and read back when the program starts.                          *)
(*                                                                         *)
(* The write lock is held while settings are saved, so only the end of the *)
(* process comes between the steps.  A file without keys is treated as a   *)
(* missing one: both are NoKeys.                                           *)
(***************************************************************************)
EXTENDS Naturals

CONSTANTS
  Key,         \* the keys of the settings
  Value,       \* their values
  NoValue,     \* the key is not there
  DiskFaults,  \* the kinds of disks: each is the set of operations that may fail on it
  MaxFailures  \* bound: operations that fail before a save succeeds

VARIABLES
  settings,    \* m_data
  dirty,       \* m_dirty
  saveTimer,   \* m_timer is active
  storage,     \* what the SettingsStorage is doing
  closing,     \* it is being deleted
  mainFile,    \* the keys in qBittorrent.ini
  newFile,     \* the keys in qBittorrent_new.ini
  disk,        \* the operations that may fail, and whether the file may be written
  failures     \* the operations that have failed since the last save

settingsMemory == <<settings, dirty, saveTimer, storage, closing>>
settingsFiles == <<mainFile, newFile, disk, failures>>
settingsVars == <<settingsMemory, settingsFiles>>

ASSUME SettingsAssumption ==
  /\ NoValue \notin Value /\ MaxFailures \in Nat
  /\ Key # {} /\ Value # {}
  /\ \A faults \in DiskFaults : faults \subseteq {"sync", "remove", "rename"}

Contents == [Key -> Value \cup {NoValue}]
NoKeys == [k \in Key |-> NoValue]

\* What readNativeSettings would read.
Recoverable == IF newFile # NoKeys THEN newFile ELSE mainFile

\* QSettings adds to the keys that are in its file.
Merged(file, data) == [k \in Key |-> IF data[k] # NoValue THEN data[k] ELSE file[k]]

\* The operation fails.
Fail(operation) ==
  /\ operation \in disk.faults
  /\ failures < MaxFailures
  /\ failures' = failures + 1

\* It does not.
Work == UNCHANGED failures

-----------------------------------------------------------------------------
SettingsInit ==
  /\ settings = NoKeys
  /\ dirty = FALSE
  /\ saveTimer = FALSE
  /\ storage = "off"
  /\ closing = FALSE
  /\ mainFile \in Contents \ {NoKeys}
  /\ newFile = NoKeys
  /\ disk \in [faults: DiskFaults, writable: BOOLEAN]
  /\ failures = 0

\* readNativeSettings: a second file that was left behind is the newer one.
ReadSettings ==
  /\ storage = "off"
  /\ settings' = Recoverable
  /\ storage' = IF newFile # NoKeys THEN "restoring" ELSE "running"
  /\ UNCHANGED <<dirty, saveTimer, closing, settingsFiles>>

\* It takes the place of the first, if that can be removed.
RestoreRemove ==
  /\ storage = "restoring"
  /\ \/ mainFile' = NoKeys /\ storage' = "renaming" /\ Work
     \/ mainFile # NoKeys /\ Fail("remove") /\ storage' = "running" /\ UNCHANGED mainFile
  /\ UNCHANGED <<settings, dirty, saveTimer, closing, newFile, disk>>

RestoreRename ==
  /\ storage = "renaming"
  /\ \/ mainFile' = newFile /\ newFile' = NoKeys /\ Work
     \/ Fail("rename") /\ UNCHANGED <<mainFile, newFile>>
  /\ storage' = "running"
  /\ UNCHANGED <<settings, dirty, saveTimer, closing, disk>>

\* storeValueImpl, removeValue.  The program never removes its last setting.
ChangeValue(k, value) ==
  /\ storage = "running" /\ ~closing
  /\ settings[k] # value
  /\ settings' = [settings EXCEPT ![k] = value]
  /\ settings' # NoKeys
  /\ dirty' = TRUE
  /\ saveTimer' = TRUE
  /\ UNCHANGED <<storage, closing, settingsFiles>>

\* The timer's timeout, or ~SettingsStorage, calls save: nothing to do unless
\* settings have changed, and nothing is done, and it counts as done, if the
\* file may not be written.
StartSave ==
  \/ dirty /\ (disk.writable \/ mainFile = NoKeys) /\ storage' = "writing" /\ UNCHANGED dirty
  \/ dirty /\ ~disk.writable /\ mainFile # NoKeys /\ dirty' = FALSE /\ UNCHANGED storage
  \/ ~dirty /\ UNCHANGED <<dirty, storage>>

SaveTimeout ==
  /\ storage = "running" /\ ~closing /\ saveTimer
  /\ saveTimer' = FALSE
  /\ UNCHANGED closing
  /\ StartSave
  /\ UNCHANGED <<settings, settingsFiles>>

Close ==
  /\ storage = "running" /\ ~closing
  /\ closing' = TRUE
  /\ StartSave
  /\ UNCHANGED <<settings, saveTimer, settingsFiles>>

\* Mutant: after a failure the timer is not started again.
SaveFailed_NoRetry ==
  /\ UNCHANGED <<dirty, saveTimer>>
  /\ storage' = "running"

\* save returns: it has failed, and is tried again later ...
SaveFailed ==
  /\ saveTimer' = TRUE
  /\ storage' = "running"
  /\ UNCHANGED dirty

\* ... or it has not.
Saved ==
  /\ failures' = 0
  /\ dirty' = FALSE
  /\ storage' = "running"
  /\ UNCHANGED saveTimer

\* Mutant: the first file is written in place, key by key.
WriteNew_InPlace ==
  /\ storage = "writing"
  /\ \E part \in SUBSET Key :
       /\ mainFile' = [k \in Key |-> IF k \in part THEN settings[k] ELSE NoValue]
       /\ IF part = Key THEN Saved ELSE UNCHANGED <<storage, dirty, saveTimer, failures>>
  /\ UNCHANGED <<settings, closing, newFile, disk>>

\* sync writes the second file as a whole; without keys there is none.
WriteNew ==
  /\ storage = "writing"
  /\ newFile' = Merged(newFile, settings)
  /\ storage' = "written"
  /\ UNCHANGED <<settings, dirty, saveTimer, closing, mainFile, disk, failures>>

\* An error of sync: the second file is removed.
WriteFails ==
  /\ storage = "writing"
  /\ Fail("sync")
  /\ \/ newFile' = NoKeys
     \/ "remove" \in disk.faults /\ UNCHANGED newFile
  /\ SaveFailed
  /\ UNCHANGED <<settings, closing, mainFile, disk>>

\* Whether the first file could be removed is not looked at.
RemoveMain ==
  /\ storage = "written"
  /\ \/ mainFile' = NoKeys /\ Work
     \/ Fail("remove") /\ UNCHANGED mainFile
  /\ storage' = "removed"
  /\ UNCHANGED <<settings, dirty, saveTimer, closing, newFile, disk>>

\* rename does not replace a file that is there.
RenameNew ==
  /\ storage = "removed"
  /\ mainFile = NoKeys /\ newFile # NoKeys
  /\ mainFile' = newFile
  /\ newFile' = NoKeys
  /\ Saved
  /\ UNCHANGED <<settings, closing, disk>>

RenameFails ==
  /\ storage = "removed"
  /\ \/ Fail("rename")
     \/ (mainFile # NoKeys \/ newFile = NoKeys) /\ Work
  /\ SaveFailed
  /\ UNCHANGED <<settings, closing, mainFile, newFile, disk>>

SettingsGone ==
  /\ storage' = "off"
  /\ closing' = FALSE
  /\ dirty' = FALSE
  /\ saveTimer' = FALSE
  /\ settings' = NoKeys
  /\ UNCHANGED settingsFiles

\* The storage is deleted, saved or not.
Closed == storage = "running" /\ closing /\ SettingsGone

\* The process ends, at any point.
SettingsCrash == storage # "off" /\ SettingsGone

-----------------------------------------------------------------------------
SaveStep == WriteNew \/ WriteFails \/ RemoveMain \/ RenameNew \/ RenameFails \/ Closed

SettingsNext ==
  \/ ReadSettings
  \/ RestoreRemove
  \/ RestoreRename
  \/ \E k \in Key, value \in Value \cup {NoValue} : ChangeValue(k, value)
  \/ SaveTimeout
  \/ Close
  \/ SaveStep
  \/ SettingsCrash

\* The program runs on.
SettingsFairness ==
  /\ WF_settingsVars(RestoreRemove)
  /\ WF_settingsVars(RestoreRename)
  /\ WF_settingsVars(SaveTimeout)
  /\ WF_settingsVars(SaveStep)

SettingsSpec == SettingsInit /\ [][SettingsNext]_settingsVars
SettingsFairSpec == SettingsSpec /\ SettingsFairness

-----------------------------------------------------------------------------
(* Properties. *)

(* Types of the variables. *)
SettingsTypeOK ==
  /\ settings \in Contents /\ mainFile \in Contents /\ newFile \in Contents
  /\ dirty \in BOOLEAN /\ saveTimer \in BOOLEAN /\ closing \in BOOLEAN
  /\ storage \in {"off", "restoring", "renaming", "running", "writing", "written", "removed"}
  /\ disk \in [faults: DiskFaults, writable: BOOLEAN]
  /\ failures \in 0..MaxFailures

(* "If it succeeds replace": wherever the process ends, what the next start
   reads is what it would have read before, or the settings as a whole as they
   are in memory. *)
SettingsAtomic ==
  [][ "rename" \notin disk.faults /\ "remove" \notin disk.faults /\ storage # "off" =>
        Recoverable' \in {Recoverable, settings} ]_settingsVars

(* Under one kind of failure there is always a file to start from: the first
   is removed only when the second is complete, and the second is removed only
   while there is the first. *)
SettingsNotLost == ~({"sync", "rename"} \subseteq disk.faults) => Recoverable # NoKeys

(* A retry starts the timer again: changed settings are saved in the end,
   however often that has failed, unless the process ends first; and where
   m_dirty is cleared the file has all of them. *)
ChangesAreSaved ==
  (storage = "running" /\ dirty) ~>
    \/ storage = "off"
    \/ ~dirty /\ (disk.writable /\ disk.faults \subseteq {"sync"} => Recoverable = settings)

=============================================================================
