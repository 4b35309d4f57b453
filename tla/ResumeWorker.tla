---------------------------- MODULE ResumeWorker ----------------------------
(***************************************************************************)
(* The worker thread of DBResumeDataStorage, the main thread that queues   *)
(* jobs for it, and the thread that loads the resume data at startup.      *)
(*                                                                         *)
(* Main and worker share the queue under m_jobsMutex and m_waitCondition;  *)
(* worker and loader share the database file under m_dbLock.  The worker   *)
(* performs jobs in one transaction until it finds the queue empty.        *)
(***************************************************************************)
EXTENDS ResumeData

CONSTANT
  EarlyJobs    \* whether jobs may be queued before the worker waits for the first time

VARIABLES
  main,        \* where the main thread is
  worker,      \* where Worker::run is
  loader,      \* where doLoadAll is
  jobs,        \* m_jobs
  current,     \* the job being performed: a sequence of at most one
  interrupted, \* the thread's interruption request
  lock,        \* m_dbLock
  db,          \* the committed rows of the table "torrents"
  transacted,  \* what the open transaction has performed
  inTransaction,
  counted,     \* transactedJobsCount > 0
  announced,   \* the torrents passed to loadStarted
  delivered    \* the torrents passed to onResumeDataLoaded

loading == <<loader, announced, delivered>>
database == <<db, transacted, inTransaction, counted>>
vars == <<main, worker, loader, jobs, current, interrupted, lock,
          db, transacted, inTransaction, counted, announced, delivered>>

ASSUME EarlyJobsAssumption == EarlyJobs \in BOOLEAN

\* The requests that would be lost if the process ended now.
Pending == transacted \o current \o jobs

Store == INSTANCE ResumeStore WITH durable <- db, pending <- Pending

Rows == [Torrent -> Row \cup {NoRow}]
HasRow == {t \in Torrent : db[t] # NoRow}

Ended == {"closed", "crashed"}

\* Mutant: the queue is found empty, and the commit made, outside the mutex.
JobsLocked_Late == worker \in {"sleep", "begin", "pop"}

\* The worker holds m_jobsMutex.
JobsLocked == worker \in {"commit", "check", "sleep", "begin", "pop"}

-----------------------------------------------------------------------------
(* The process: DBResumeDataStorage is created and loaded, or created as   *)
(* the new storage of a migration and not loaded.                          *)

Init ==
  /\ main = "idle"
  /\ worker = "started"
  /\ loader \in {"begin", "unused"}
  /\ jobs = <<>>
  /\ current = <<>>
  /\ interrupted = FALSE
  /\ lock = "free"
  /\ db = [t \in Torrent |-> NoRow]
  /\ transacted = <<>>
  /\ inTransaction = FALSE
  /\ counted = FALSE
  /\ announced = {}
  /\ delivered = {}

\* The process ends: all but the database file is gone, and with it what an
\* open transaction has done.
Ends(how) ==
  /\ main' = how
  /\ worker' = "off"
  /\ loader' = "off"
  /\ jobs' = <<>>
  /\ current' = <<>>
  /\ interrupted' = FALSE
  /\ lock' = "free"
  /\ transacted' = <<>>
  /\ inTransaction' = FALSE
  /\ counted' = FALSE
  /\ announced' = {}
  /\ delivered' = {}
  /\ UNCHANGED db

Crash == main \notin Ended /\ Ends("crashed")

Restart ==
  /\ main \in Ended
  /\ main' = "idle"
  /\ worker' = "started"
  /\ loader' \in {"begin", "unused"}
  /\ UNCHANGED <<jobs, current, interrupted, lock, database, announced, delivered>>

-----------------------------------------------------------------------------
(* The main thread. *)

\* store, remove, storeQueue: addJob pushes under the mutex ...
Push(job) ==
  /\ main = "idle"
  /\ loader # "begin"    \* the session has nothing to store before loadStarted
  /\ EarlyJobs \/ worker # "started"
  /\ ~JobsLocked
  /\ Len(Pending) < MaxPending
  /\ jobs' = Append(jobs, job)
  /\ main' = "wake"
  /\ UNCHANGED <<worker, current, interrupted, lock, database, loading>>

\* Mutant: the condition is not signalled.
WokenWorker_Asleep == worker

WokenWorker == IF worker = "waiting" THEN "woken" ELSE worker

\* ... and wakes the worker after it has released it.
WakeForJob ==
  /\ main = "wake"
  /\ main' = "idle"
  /\ worker' = WokenWorker
  /\ UNCHANGED <<jobs, current, interrupted, lock, database, loading>>

\* ~DBResumeDataStorage; the session is not deleted while it still loads.
RequestInterruption ==
  /\ main = "idle"
  /\ loader \in {"done", "unused"}
  /\ interrupted' = TRUE
  /\ main' = "wakeToEnd"
  /\ UNCHANGED <<worker, jobs, current, lock, database, loading>>

WakeToEnd ==
  /\ main = "wakeToEnd"
  /\ main' = "joining"
  /\ worker' = WokenWorker
  /\ UNCHANGED <<jobs, current, interrupted, lock, database, loading>>

\* wait() returns, the storage is deleted and its remaining jobs with it.
Join ==
  /\ main = "joining"
  /\ worker = "finished"
  /\ Ends("closed")

-----------------------------------------------------------------------------
(* Worker::run. *)

\* The loop's head takes the mutex and looks at the queue.
TakeMutex ==
  /\ worker \in {"started", "loop"}
  /\ worker' = IF jobs = <<>> THEN "commit" ELSE "pop"
  /\ UNCHANGED <<main, jobs, current, interrupted, lock, database, loading>>

\* The queue is empty: what has been performed is committed, whatever commit()
\* returns, and m_dbLock released, whoever holds it.
Commit ==
  /\ worker = "commit"
  /\ worker' = "check"
  /\ counted' = FALSE
  /\ \/ /\ db' = Store!PerformAll(db, transacted)
        /\ transacted' = <<>>
        /\ inTransaction' = FALSE
     \/ /\ Failures /\ inTransaction      \* rolled back
        /\ transacted' = <<>>
        /\ inTransaction' = FALSE
        /\ UNCHANGED db
     \/ /\ Failures /\ inTransaction      \* still open
        /\ UNCHANGED <<db, transacted, inTransaction>>
  /\ lock' = "free"
  /\ UNCHANGED <<main, jobs, current, interrupted, loading>>

CommitNothing ==
  /\ worker = "commit"
  /\ worker' = "check"
  /\ UNCHANGED <<main, jobs, current, interrupted, lock, database, loading>>

CommitIfCounted == IF counted THEN Commit ELSE CommitNothing

\* The connection is closed, which rolls an open transaction back.
Quit ==
  /\ worker' = "finished"
  /\ transacted' = <<>>
  /\ inTransaction' = FALSE
  /\ UNCHANGED <<main, jobs, current, interrupted, db, counted, loading>>

CheckInterruption ==
  /\ worker = "check"
  /\ IF interrupted
     THEN Quit
     ELSE /\ worker' = "sleep"
          /\ UNCHANGED <<main, jobs, current, interrupted, database, loading>>
  /\ UNCHANGED lock

\* m_waitCondition.wait releases the mutex ...
Sleep ==
  /\ worker = "sleep"
  /\ worker' = "waiting"
  /\ UNCHANGED <<main, jobs, current, interrupted, lock, database, loading>>

\* ... and, once woken, takes it again.
WakeUp ==
  /\ worker = "woken"
  /\ IF interrupted
     THEN Quit
     ELSE /\ worker' = "begin"
          /\ UNCHANGED <<main, jobs, current, interrupted, database, loading>>
  /\ UNCHANGED lock

\* lockForWrite, and a transaction unless one is still open.
BeginTransaction ==
  /\ worker = "begin"
  /\ lock = "free"
  /\ ~inTransaction
  /\ lock' = "write"
  /\ inTransaction' = TRUE
  /\ worker' = "pop"
  /\ UNCHANGED <<main, jobs, current, interrupted, db, transacted, counted, loading>>

NoTransaction ==
  /\ worker = "begin"
  /\ lock = "free"
  /\ Failures
  /\ Quit
  /\ UNCHANGED lock

\* Mutant: the youngest job first.
NextJob_Last == Last(jobs)

NextJob == Head(jobs)

Pop ==
  /\ worker = "pop"
  /\ jobs # <<>>
  /\ current' = <<NextJob>>
  /\ jobs' = Tail(jobs)
  /\ worker' = "perform"
  /\ UNCHANGED <<main, interrupted, lock, database, loading>>

\* front() of an empty queue is undefined: the pointer read is null or garbage,
\* and calling perform through it ends the process.
PopEmpty ==
  /\ worker = "pop"
  /\ jobs = <<>>
  /\ Ends("crashed")

\* Without a transaction a statement is committed by itself.
PerformJob ==
  /\ worker = "perform"
  /\ IF inTransaction
     THEN transacted' = transacted \o current /\ UNCHANGED db
     ELSE db' = Store!PerformAll(db, current) /\ UNCHANGED transacted
  /\ current' = <<>>
  /\ counted' = TRUE
  /\ worker' = "loop"
  /\ UNCHANGED <<main, jobs, interrupted, lock, inTransaction, loading>>

\* Mutant: the failed job is performed again.
JobFails_Stays ==
  /\ worker = "perform"
  /\ Failures
  /\ current' \in Store!Remains(current[1])
  /\ counted' = (counted \/ current' = <<>>)
  /\ UNCHANGED <<main, worker, jobs, interrupted, lock, db, transacted, inTransaction, loading>>

\* A statement fails, which is logged; the job counts as performed.
JobFails ==
  /\ worker = "perform"
  /\ Failures
  /\ current' \in Store!Remains(current[1])
  /\ worker' = IF current' = <<>> THEN "loop" ELSE "perform"
  /\ counted' = (counted \/ current' = <<>>)
  /\ UNCHANGED <<main, jobs, interrupted, lock, db, transacted, inTransaction, loading>>

-----------------------------------------------------------------------------
(* doLoadAll, in a thread of its own. *)

\* Mutant: the torrents are listed before the lock is taken.
ListTorrents_Unlocked ==
  /\ loader = "begin"
  /\ announced' = HasRow
  /\ loader' = "listed"
  /\ UNCHANGED <<main, worker, jobs, current, interrupted, lock, database, delivered>>

ListTorrents ==
  /\ loader = "begin"
  /\ lock # "write"
  /\ lock' = "read"
  /\ announced' = HasRow
  /\ loader' = "listed"
  /\ UNCHANGED <<main, worker, jobs, current, interrupted, database, delivered>>

LoadRows ==
  /\ loader = "listed"
  /\ delivered' = HasRow
  /\ lock' = "free"
  /\ loader' = "done"
  /\ UNCHANGED <<main, worker, jobs, current, interrupted, database, announced>>

-----------------------------------------------------------------------------
WorkerStep ==
  \/ TakeMutex
  \/ CommitIfCounted
  \/ CheckInterruption
  \/ Sleep
  \/ WakeUp
  \/ BeginTransaction
  \/ NoTransaction
  \/ Pop
  \/ PopEmpty
  \/ PerformJob
  \/ JobFails

MainEnds == WakeForJob \/ WakeToEnd \/ Join

LoaderStep == ListTorrents \/ LoadRows

Next ==
  \/ \E job \in Jobs : Push(job)
  \/ RequestInterruption
  \/ MainEnds
  \/ WorkerStep
  \/ LoaderStep
  \/ Crash
  \/ Restart

\* The threads run; nobody has to make requests, exit or start the program.
Fairness ==
  /\ WF_vars(MainEnds)
  /\ WF_vars(WorkerStep)
  /\ WF_vars(LoaderStep)

Spec == Init /\ [][Next]_vars
FairSpec == Spec /\ Fairness

-----------------------------------------------------------------------------
(* Properties. *)

(* Types of the variables; at most one job is being performed, and only
   then, and what a transaction has performed is there only while it is open. *)
TypeOK ==
  /\ main \in {"idle", "wake", "wakeToEnd", "joining"} \cup Ended
  /\ worker \in {"off", "started", "loop", "commit", "check", "sleep", "waiting", "woken",
                 "begin", "pop", "perform", "finished"}
  /\ loader \in {"off", "unused", "begin", "listed", "done"}
  /\ jobs \in Seq(Job) /\ current \in Seq(Job) /\ transacted \in Seq(Job)
  /\ Len(current) = (IF worker = "perform" THEN 1 ELSE 0)
  /\ interrupted \in BOOLEAN /\ inTransaction \in BOOLEAN /\ counted \in BOOLEAN
  /\ lock \in {"free", "read", "write"}
  /\ db \in Rows
  /\ ~inTransaction => transacted = <<>>
  /\ announced \subseteq Torrent /\ delivered \subseteq Torrent

(* The worker thread keeps the promise of ResumeStore: requests take effect
   once, in the order in which they were made, a transaction at a time, and a
   process that ends between two steps loses only the youngest ones. *)
ImplementsStore == Store!Spec

(* addJob wakes the worker after it has released the mutex: the worker never
   waits on a queue with jobs unless that wake is still to come. *)
NoLostWakeup == worker = "waiting" /\ jobs # <<>> => main = "wake"

(* doLoadAll reads the table twice, first the IDs for loadStarted, then the
   rows: under m_dbLock the session gets one row for each ID it was told of. *)
LoadIsConsistent == loader = "done" => delivered = announced

(* As long as the session does not make requests without end, every request
   takes effect, unless the storage is being deleted or the process ends. *)
EventuallyDurable ==
  \/ []<><<\E job \in Jobs : Push(job)>>_vars
  \/ (Pending # <<>>) ~> (Pending = <<>> \/ main \notin {"idle", "wake"})

(* "Saving resume data completed.", logged when the storage has been deleted:
   every request made before has taken effect. *)
SavedOnExit == [][main = "joining" /\ main' = "closed" => Pending = <<>>]_vars

(* The same message is reached: the destructor's wait for the thread ends. *)
ExitEnds == main = "wakeToEnd" ~> main \in Ended

(* "Resume data changes are committed.", logged with the number of transacted
   jobs: what the transaction has performed is in the database. *)
CommittedAsLogged ==
  [][worker = "commit" /\ counted /\ worker' = "check" => db' = Store!PerformAll(db, transacted)]_vars

=============================================================================
