----------------------------- MODULE MCServices -----------------------------
(* The services around the core, checked in one run.  They share no state:   *)
(* each behaviour is one of one service, the others never start.             *)
EXTENDS SettingsFile, Downloads, SyncMaindata, SyncPeers, ResumeFiles, WatchedFolders, TLC

VARIABLE service   \* the one that runs

servicesVars == <<settingsVars, downloadVars, syncVars, peersVars, fileVars, folderVars, service>>

\* One initial state each for the services that do not run.
ServicesInit ==
  /\ service \in {"settings", "downloads", "maindata", "peers", "files", "folders"}
  /\ SettingsInit /\ DownloadInit /\ SyncInit /\ PeersInit /\ FilesInit /\ WatchedInit
  /\ service # "settings" =>
       /\ mainFile = [k \in Key |-> CHOOSE v \in Value : TRUE]
       /\ disk = [faults |-> CHOOSE faults \in DiskFaults : TRUE, writable |-> TRUE]
  /\ service # "downloads" => sequential = {}
  /\ service # "files" => fileDisk = CHOOSE faults \in FileFaults : TRUE

ServicesNext ==
  /\ UNCHANGED service
  /\ \/ /\ service = "settings" /\ SettingsNext
        /\ UNCHANGED <<downloadVars, syncVars, peersVars, fileVars, folderVars>>
     \/ /\ service = "downloads" /\ DownloadNext
        /\ UNCHANGED <<settingsVars, syncVars, peersVars, fileVars, folderVars>>
     \/ /\ service = "maindata" /\ SyncNext
        /\ UNCHANGED <<settingsVars, downloadVars, peersVars, fileVars, folderVars>>
     \/ /\ service = "peers" /\ PeersNext
        /\ UNCHANGED <<settingsVars, downloadVars, syncVars, fileVars, folderVars>>
     \/ /\ service = "files" /\ FilesNext
        /\ UNCHANGED <<settingsVars, downloadVars, syncVars, peersVars, folderVars>>
     \/ /\ service = "folders" /\ WatchedNext
        /\ UNCHANGED <<settingsVars, downloadVars, syncVars, peersVars, fileVars>>

ServicesSpec ==
  /\ ServicesInit /\ [][ServicesNext]_servicesVars
  /\ SettingsFairness /\ DownloadFairness /\ WatchedFairness

(* Types of the variables of all services. *)
ServicesTypeOK ==
  SettingsTypeOK /\ DownloadTypeOK /\ SyncTypeOK /\ PeersTypeOK /\ FilesTypeOK /\ WatchedTypeOK

\* None of these occurs in a liveness property or in a fairness condition.
ServicesSymmetry ==
  Permutations(Torrent) \cup Permutations(Fetch) \cup Permutations(Data) \cup Permutations(PeerData)

=============================================================================
