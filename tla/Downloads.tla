----------------------------- MODULE Downloads ------------------------------
(***************************************************************************)
(* DownloadManager and DownloadHandlerImpl: the downloads of a sequential  *)
(* service wait for each other, and the next one starts some time after    *)
(* the reply of the one before.                                            *)
(*                                                                         *)
(* A redirection is a download of its own that the first one waits for,    *)
(* forwarding cancel to it and its result to the user: both are one        *)
(* download here, that goes on at another service.  A download that is     *)
(* finished is forgotten once its user has been told.                      *)
(***************************************************************************)
EXTENDS Naturals, Sequences, SequencesExt

CONSTANTS
  Download,         \* the downloads
  Service,          \* host and port
  NoService,
  MaxRedirections,  \* MAX_REDIRECTIONS
  MaxTimers         \* bound: timers of a service when a download of it starts

VARIABLES
  download,     \* each download: what it is doing, where, after how many redirections
  sequential,   \* m_sequentialServices
  busy,         \* m_busyServices
  waitingJobs,  \* m_waitingJobs
  nextJob       \* the timers started by replies, for each service

downloadVars == <<download, sequential, busy, waitingJobs, nextJob>>
services == <<sequential, busy, waitingJobs, nextJob>>

ASSUME DownloadAssumption == NoService \notin Service /\ MaxRedirections \in Nat

NoDownload == [state |-> "none", service |-> NoService, redirections |-> 0]
Waiting(d) == download[d].state = "waiting"
Running(d) == download[d].state = "running"

DownloadInit ==
  /\ download = [d \in Download |-> NoDownload]
  /\ sequential \in SUBSET Service
  /\ busy = {}
  /\ waitingJobs = [s \in Service |-> <<>>]
  /\ nextJob = [s \in Service |-> 0]

-----------------------------------------------------------------------------
\* processRequest and assignNetworkReply
Request(d, s, redirections) ==
  [download EXCEPT ![d] = [state |-> "running", service |-> s, redirections |-> redirections]]

\* registerSequentialService: a feed is added, or gets another URL.
Register(s) ==
  /\ s \notin sequential
  /\ sequential' = sequential \cup {s}
  /\ UNCHANGED <<download, busy, waitingJobs, nextJob>>

\* download: wait if the service is busy.
Enqueue(d, s, redirections) ==
  LET waits == s \in sequential /\ s \in busy
  IN /\ download' = IF waits THEN [Request(d, s, redirections) EXCEPT ![d].state = "waiting"]
                    ELSE Request(d, s, redirections)
     /\ waitingJobs' = IF waits THEN [waitingJobs EXCEPT ![s] = Append(@, d)] ELSE waitingJobs
     /\ busy' = IF s \in sequential THEN busy \cup {s} ELSE busy
     /\ UNCHANGED sequential

\* Handlers are alike: a new one takes the first free place.
StartDownload(s) ==
  /\ \E d \in Download : download[d] = NoDownload
  /\ nextJob[s] <= MaxTimers
  /\ Enqueue(CHOOSE d \in Download : download[d] = NoDownload, s, 0)
  /\ UNCHANGED nextJob

\* Mutant: a reply that has failed starts no timer.
ReplyFinished_NotFailed(d, failed) ==
  nextJob' = IF failed THEN nextJob ELSE [nextJob EXCEPT ![download[d].service] = @ + 1]

\* A reply has finished, however: a timer is started for the next job.
ReplyFinished(d, failed) == nextJob' = [nextJob EXCEPT ![download[d].service] = @ + 1]

Finished(d) == download' = [download EXCEPT ![d] = NoDownload]

\* processFinishedDownload: with the data, with an error, by a transfer
\* timeout or with a redirection that is not followed.
Finish(d, failed) ==
  /\ Running(d)
  /\ ReplyFinished(d, failed)
  /\ Finished(d)
  /\ UNCHANGED <<sequential, busy, waitingJobs>>

\* handleRedirection: the download goes on under another URL.
Redirect(d, s) ==
  /\ Running(d)
  /\ download[d].redirections < MaxRedirections
  /\ nextJob[s] <= MaxTimers
  /\ ReplyFinished(d, FALSE)
  /\ Enqueue(d, s, download[d].redirections + 1)

\* Mutant: a waiting download that is cancelled stays in the queue.
Leave_Stays(d) == UNCHANGED waitingJobs

\* A handler without a reply is taken from the queue.
Leave(d) == waitingJobs' = [waitingJobs EXCEPT ![download[d].service] = RemoveFirst(@, d)]

\* cancel: abort finishes the reply at once.
Cancel(d) ==
  \/ Finish(d, TRUE)
  \/ /\ Waiting(d)
     /\ Leave(d)
     /\ Finished(d)
     /\ UNCHANGED <<sequential, busy, nextJob>>

\* processWaitingJobs, when the delay is over.
ProcessWaitingJobs(s) ==
  /\ nextJob[s] > 0
  /\ nextJob' = [nextJob EXCEPT ![s] = @ - 1]
  /\ \/ /\ waitingJobs[s] = <<>>
        /\ busy' = busy \ {s}
        /\ UNCHANGED <<download, waitingJobs>>
     \/ /\ waitingJobs[s] # <<>>
        /\ download' = [download EXCEPT ![Head(waitingJobs[s])].state = "running"]
        /\ waitingJobs' = [waitingJobs EXCEPT ![s] = Tail(@)]
        /\ UNCHANGED busy
  /\ UNCHANGED sequential

DownloadNext ==
  \/ \E s \in Service : Register(s) \/ StartDownload(s) \/ ProcessWaitingJobs(s)
  \/ \E d \in Download : \/ \E s \in Service : Redirect(d, s)
                         \/ \E failed \in BOOLEAN : Finish(d, failed)
                         \/ Cancel(d)

\* Replies finish, by a transfer timeout if by nothing else, and timers fire.
DownloadFairness ==
  /\ \A d \in Download : WF_downloadVars(Finish(d, TRUE))
  /\ \A s \in Service : WF_downloadVars(ProcessWaitingJobs(s))

DownloadSpec == DownloadInit /\ [][DownloadNext]_downloadVars
DownloadFairSpec == DownloadSpec /\ DownloadFairness

-----------------------------------------------------------------------------
(* Properties. *)

(* Types of the variables; the queues hold the downloads that wait. *)
DownloadTypeOK ==
  /\ download \in [Download -> [state: {"none", "waiting", "running"},
                                service: Service \cup {NoService},
                                redirections: 0..MaxRedirections]]
  /\ sequential \subseteq Service /\ busy \subseteq sequential
  /\ waitingJobs \in [Service -> Seq(Download)]
  /\ nextJob \in [Service -> Nat]
  /\ \A s \in Service :
       Range(waitingJobs[s]) = {d \in Download : Waiting(d) /\ download[d].service = s}

(* A download that waits is started, or cancelled: whatever happens to the ones
   before it, something will call processWaitingJobs. *)
WaitingIsStarted == \A d \in Download : Waiting(d) ~> ~Waiting(d)

(* The requests to a sequential service run one after the other. *)
OneAtATime ==
  \A s \in sequential : \A d, e \in Download :
    Running(d) /\ Running(e) /\ download[d].service = s /\ download[e].service = s => d = e

=============================================================================
