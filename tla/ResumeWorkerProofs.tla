------------------------- MODULE ResumeWorkerProofs -------------------------
(***************************************************************************)
(* Proofs about ResumeWorker, for any torrents, requests and bounds: the   *)
(* worker thread implements ResumeStore, the wake of addJob is not lost,   *)
(* the startup reads one state of the database, and all variables keep     *)
(* their types.                                                            *)
(***************************************************************************)
EXTENDS ResumeWorker, SequenceTheorems, WellFoundedInduction, TLAPS

-----------------------------------------------------------------------------
(* Sequences.                                                              *)

\* A request pushed to the queue is the youngest of all that are pending.
LEMMA PushedLast ==
    ASSUME NEW S, NEW s \in Seq(S), NEW t \in Seq(S), NEW e \in S
    PROVE  s \o Append(t, e) = Append(s \o t, e)
  <1>1. <<e>> \in Seq(S)
    OBVIOUS
  <1>2. s \o t \in Seq(S)
    BY ConcatProperties
  <1>3. Append(s \o t, e) = (s \o t) \o <<e>>
    BY <1>2, AppendIsConcat
  <1>4. Append(t, e) = t \o <<e>>
    BY AppendIsConcat
  <1> QED
    BY <1>1, <1>3, <1>4, ConcatAssociative

\* A concatenation is cut where it was joined.
LEMMA CutConcat ==
    ASSUME NEW S, NEW s \in Seq(S), NEW t \in Seq(S)
    PROVE  /\ Len(s) \in 0 .. Len(s \o t)
           /\ SubSeq(s \o t, 1, Len(s)) = s
           /\ SubSeq(s \o t, Len(s) + 1, Len(s \o t)) = t
  <1> DEFINE st == s \o t
  <1>1. /\ Len(s) \in Nat /\ Len(t) \in Nat
        /\ Len(st) = Len(s) + Len(t)
        /\ \A i \in 1 .. Len(s) + Len(t) : st[i] = IF i <= Len(s) THEN s[i] ELSE t[i - Len(s)]
    BY ConcatProperties, LenProperties
  <1>2. \A i \in 1 .. Len(s) : s[i] \in S
    BY ElementOfSeq
  <1>3. \A i \in 1 .. Len(t) : t[i] \in S
    BY ElementOfSeq
  <1> HIDE DEF st
  <1>4. SubSeq(st, 1, Len(s)) = s
    <2>1. \A i \in 1 .. Len(s) : st[i] = s[i]
      BY <1>1
    <2>2. /\ SubSeq(st, 1, Len(s)) \in Seq(S)
          /\ Len(SubSeq(st, 1, Len(s))) = Len(s)
          /\ \A i \in 1 .. Len(s) : SubSeq(st, 1, Len(s))[i] = st[i]
      BY <1>1, <1>2, <2>1, SubSeqProperties
    <2> QED
      BY <2>1, <2>2, SeqEqual
  <1>5. SubSeq(st, Len(s) + 1, Len(st)) = t
    <2>1. \A i \in 1 .. Len(t) : st[Len(s) + i] = t[i]
      BY <1>1
    <2>2. \A i \in Len(s) + 1 .. Len(st) : st[i] \in S
      BY <1>1, <1>3
    <2>3. /\ SubSeq(st, Len(s) + 1, Len(st)) \in Seq(S)
          /\ Len(SubSeq(st, Len(s) + 1, Len(st))) = Len(t)
          /\ \A i \in 1 .. Len(t) : SubSeq(st, Len(s) + 1, Len(st))[i] = st[Len(s) + i]
      BY <1>1, <2>2, SubSeqProperties
    <2> QED
      BY <2>1, <2>3, SeqEqual
  <1> QED
    BY <1>1, <1>4, <1>5 DEF st

\* One element is cut out of a concatenation.
LEMMA CutMiddle ==
    ASSUME NEW S, NEW s \in Seq(S), NEW e \in S, NEW t \in Seq(S)
    PROVE  LET st == (s \o <<e>>) \o t
               i == Len(s) + 1
           IN  /\ i \in DOMAIN st
               /\ st[i] = e
               /\ SubSeq(st, 1, i - 1) = s
               /\ SubSeq(st, i + 1, Len(st)) = t
  <1> DEFINE se == s \o <<e>>
  <1>1. <<e>> \in Seq(S) /\ Len(<<e>>) = 1 /\ <<e>>[1] = e
    OBVIOUS
  <1>2. /\ Len(s) \in Nat /\ Len(t) \in Nat
        /\ se \in Seq(S) /\ Len(se) = Len(s) + 1
        /\ se[Len(s) + 1] = e
    BY <1>1, ConcatProperties, LenProperties
  <1>3. /\ se \o t \in Seq(S) /\ Len(se \o t) = Len(s) + 1 + Len(t)
        /\ (se \o t)[Len(s) + 1] = e
        /\ DOMAIN (se \o t) = 1 .. Len(s) + 1 + Len(t)
    <2>1. /\ se \o t \in Seq(S) /\ Len(se \o t) = Len(se) + Len(t)
          /\ \A i \in 1 .. Len(se) + Len(t) : (se \o t)[i] = IF i <= Len(se) THEN se[i] ELSE t[i - Len(se)]
      BY <1>2, ConcatProperties
    <2>2. DOMAIN (se \o t) = 1 .. Len(se \o t)
      BY <2>1, LenProperties
    <2> HIDE DEF se
    <2> QED
      BY <1>2, <2>1, <2>2
  <1>4. SubSeq(se \o t, Len(s) + 2, Len(se \o t)) = t
    <2>1. SubSeq(se \o t, Len(se) + 1, Len(se \o t)) = t
      BY <1>2, CutConcat
    <2> QED
      BY <1>2, <2>1
  <1>5. SubSeq(se \o t, 1, Len(s)) = s
    <2>1. se \o t = s \o (<<e>> \o t)
      BY <1>1, ConcatAssociative
    <2>2. <<e>> \o t \in Seq(S)
      BY <1>1, ConcatProperties
    <2> QED
      BY <2>1, <2>2, CutConcat
  <1> QED
    BY <1>2, <1>3, <1>4, <1>5

\* The job being performed.
LEMMA SoleElement ==
    ASSUME NEW S, NEW s \in Seq(S), Len(s) = 1
    PROVE  s[1] \in S /\ s = <<s[1]>>
  <1>1. 1 \in 1 .. Len(s)
    OBVIOUS
  <1>2. s[1] \in S
    BY <1>1, ElementOfSeq
  <1> QED
    BY <1>2

\* What remains of a failed request is a request, or nothing.
LEMMA RemainsTyped ==
    ASSUME NEW job \in Job, NEW part \in Store!Remains(job)
    PROVE  part \in Seq(Job) /\ (part = <<>> \/ Len(part) = 1)
  <1>1. CASE part = <<>>
    BY <1>1
  <1>2. CASE part # <<>>
    <2>1. job.kind = "queue"
      BY <1>2 DEF Store!Remains
    <2>2. job \in StoreQueueJob
      BY <2>1 DEF Job, StoreJob, RemoveJob
    <2>3. PICK n \in 1 .. Len(job.queue) - 1 : part = <<[job EXCEPT !.queue = SubSeq(@, 1, n)]>>
      BY <1>2, <2>1 DEF Store!Remains
    <2>4. job.queue \in Seq(Torrent)
      BY <2>2 DEF StoreQueueJob
    <2>5. \A i \in 1 .. n : job.queue[i] \in Torrent
      BY <2>3, <2>4, ElementOfSeq, LenProperties
    <2>6. SubSeq(job.queue, 1, n) \in Seq(Torrent)
      BY <2>3, <2>5, SubSeqProperties
    <2>7. [job EXCEPT !.queue = SubSeq(@, 1, n)] \in StoreQueueJob
      BY <2>2, <2>6 DEF StoreQueueJob
    <2> QED
      BY <2>3, <2>7 DEF Job
  <1> QED
    BY <1>1, <1>2

-----------------------------------------------------------------------------
(* The jobs are where the worker expects them.                             *)

Queues ==
  /\ jobs \in Seq(Job)
  /\ current \in Seq(Job)
  /\ transacted \in Seq(Job)
  /\ inTransaction \in BOOLEAN
  /\ counted \in BOOLEAN

\* A job is being performed exactly while the worker is in Job::perform; only
\* an open transaction holds jobs; without failures, and once it has been
\* committed, none does.  A process that has ended has no worker.
Carried ==
  /\ worker = "perform" => Len(current) = 1
  /\ worker # "perform" => current = <<>>
  /\ ~inTransaction => transacted = <<>>
  /\ worker \in {"check", "sleep", "waiting", "woken", "begin"} => ~counted
  /\ ~Failures /\ ~counted => transacted = <<>>
  /\ main \in Ended => worker = "off"

JobsInv == Queues /\ Carried

LEMMA InitJobs == Init => JobsInv
  BY BoundAssumption, EmptySeq DEF Ended, Init, JobsInv, Queues, Carried

\* The end of the process, in order, by a crash, or by the worker's access to
\* an empty queue, leaves no jobs.
LEMMA EndsJobs ==
    ASSUME NEW how, Ends(how)
    PROVE  JobsInv'
  BY BoundAssumption, EmptySeq DEF Ends, JobsInv, Queues, Carried

LEMMA NextJobs == JobsInv /\ [Next]_vars => JobsInv'
  <1> SUFFICES ASSUME JobsInv, [Next]_vars PROVE JobsInv'
    OBVIOUS
  <1> USE JobsAssumption, BoundAssumption DEF JobsInv, Queues, Carried, Ended
  <1>1. CASE UNCHANGED vars
    BY <1>1 DEF vars
  <1>2. ASSUME NEW job \in Jobs, Push(job) PROVE JobsInv'
    <2>1. jobs' \in Seq(Job)
      BY <1>2, AppendProperties DEF Push
    <2> QED
      BY <1>2, <2>1 DEF Push, database, loading, JobsLocked
  <1>3. CASE RequestInterruption
    BY <1>3 DEF RequestInterruption, database, loading
  <1>4. CASE MainEnds
    <2>1. CASE WakeForJob
      BY <2>1 DEF WakeForJob, WokenWorker, database, loading
    <2>2. CASE WakeToEnd
      BY <2>2 DEF WakeToEnd, WokenWorker, database, loading
    <2>3. CASE Join
      BY <2>3, EndsJobs DEF Join
    <2> QED
      BY <1>4, <2>1, <2>2, <2>3 DEF MainEnds
  <1>5. CASE WorkerStep
    <2>1. CASE TakeMutex
      BY <2>1 DEF TakeMutex, database, loading
    <2>2. CASE CommitIfCounted
      <3>1. CASE counted /\ Commit
        <4>1. CASE transacted' = <<>> /\ inTransaction' = FALSE
          BY <3>1, <4>1, EmptySeq DEF Commit, loading
        <4>2. CASE Failures /\ inTransaction /\ UNCHANGED <<db, transacted, inTransaction>>
          BY <3>1, <4>2 DEF Commit, loading
        <4> QED
          BY <3>1, <4>1, <4>2 DEF Commit
      <3>2. CASE ~counted /\ CommitNothing
        BY <3>2 DEF CommitNothing, database, loading
      <3> QED
        BY <2>2, <3>1, <3>2 DEF CommitIfCounted
    <2>3. CASE CheckInterruption
      BY <2>3 DEF CheckInterruption, Quit, database, loading
    <2>4. CASE Sleep
      BY <2>4 DEF Sleep, database, loading
    <2>5. CASE WakeUp
      BY <2>5 DEF WakeUp, Quit, database, loading
    <2>6. CASE BeginTransaction
      BY <2>6 DEF BeginTransaction, loading
    <2>7. CASE NoTransaction
      BY <2>7 DEF NoTransaction, Quit, loading
    <2>8. CASE Pop
      <3>1. Head(jobs) \in Job /\ Tail(jobs) \in Seq(Job)
        BY <2>8, HeadTailProperties DEF Pop
      <3> QED
        BY <2>8, <3>1 DEF Pop, NextJob, database, loading
    <2>9. CASE PopEmpty
      BY <2>9, EndsJobs DEF PopEmpty
    <2>10. CASE PerformJob
      <3>1. transacted \o current \in Seq(Job)
        BY ConcatProperties
      <3> QED
        BY <2>10, <3>1, EmptySeq DEF PerformJob, loading
    <2>11. CASE JobFails
      <3>1. current[1] \in Job
        BY <2>11, SoleElement DEF JobFails
      <3>2. current' \in Seq(Job) /\ (current' = <<>> \/ Len(current') = 1)
        BY <2>11, <3>1, RemainsTyped DEF JobFails
      <3> QED
        BY <2>11, <3>2 DEF JobFails, loading
    <2> QED
      BY <1>5, <2>1, <2>2, <2>3, <2>4, <2>5, <2>6, <2>7, <2>8, <2>9, <2>10, <2>11 DEF WorkerStep
  <1>6. CASE LoaderStep
    BY <1>6 DEF LoaderStep, ListTorrents, LoadRows, database
  <1>7. CASE Crash
    BY <1>7, EndsJobs DEF Crash
  <1>8. CASE Restart
    BY <1>8 DEF Restart, database, Ended
  <1> QED
    BY <1>1, <1>2, <1>3, <1>4, <1>5, <1>6, <1>7, <1>8 DEF Next

-----------------------------------------------------------------------------
(* The worker implements ResumeStore.                                      *)

Abstraction == [Store!Next]_(Store!vars)

\* Most steps change neither the rows nor the requests that are pending.
LEMMA Stutter ==
    ASSUME UNCHANGED <<jobs, current, transacted, db>>
    PROVE  Abstraction
  BY DEF Abstraction, Store!vars, Pending

LEMMA EndsStore ==
    ASSUME NEW how, Ends(how)
    PROVE  Abstraction
  <1>1. Pending' = <<>> /\ db' = db
    BY ConcatEmptySeq, EmptySeq DEF Ends, Pending
  <1> QED
    BY <1>1 DEF Abstraction, Store!Next, Store!End

\* Closing the connection rolls back what the transaction has done.
LEMMA QuitStore ==
    ASSUME JobsInv, Quit, worker # "perform", Failures \/ transacted = <<>>
    PROVE  Abstraction
  <1>1. CASE transacted = <<>>
    BY <1>1, Stutter DEF Quit, loading
  <1>2. CASE Failures
    <2>1. current = <<>> /\ jobs \in Seq(Job) /\ transacted \in Seq(Job)
      BY DEF JobsInv, Queues, Carried
    <2>2. Pending = transacted \o jobs /\ Pending' = jobs
      BY <2>1, ConcatEmptySeq, EmptySeq DEF Pending, Quit
    <2>3. Store!RollBack(Len(transacted)) /\ Len(transacted) \in 0 .. Len(Pending)
      BY <1>2, <2>1, <2>2, CutConcat DEF Store!RollBack, Quit
    <2> QED
      BY <2>3 DEF Abstraction, Store!Next
  <1> QED
    BY <1>1, <1>2

LEMMA CommitStore ==
    ASSUME JobsInv, Commit
    PROVE  Abstraction
  <1>1. /\ current = <<>> /\ jobs \in Seq(Job) /\ transacted \in Seq(Job)
        /\ Pending = transacted \o jobs
    BY ConcatEmptySeq DEF JobsInv, Queues, Carried, Commit, Pending
  <1>2. /\ Len(transacted) \in 0 .. Len(Pending)
        /\ SubSeq(Pending, 1, Len(transacted)) = transacted
        /\ SubSeq(Pending, Len(transacted) + 1, Len(Pending)) = jobs
    BY <1>1, CutConcat
  <1>3. ASSUME transacted' = <<>> PROVE Pending' = jobs
    BY <1>1, <1>3, ConcatEmptySeq, EmptySeq DEF Pending, Commit
  <1>4. CASE db' = Store!PerformAll(db, transacted) /\ transacted' = <<>>
    <2>1. Store!Flush(Len(transacted))
      BY <1>2, <1>3, <1>4 DEF Store!Flush
    <2> QED
      BY <1>2, <2>1 DEF Abstraction, Store!Next
  <1>5. CASE Failures /\ transacted' = <<>> /\ UNCHANGED db
    <2>1. Store!RollBack(Len(transacted))
      BY <1>2, <1>3, <1>5 DEF Store!RollBack
    <2> QED
      BY <1>2, <2>1 DEF Abstraction, Store!Next
  <1>6. CASE UNCHANGED <<db, transacted>>
    BY <1>6, Stutter DEF Commit
  <1> QED
    BY <1>4, <1>5, <1>6 DEF Commit

LEMMA PushStore ==
    ASSUME JobsInv, NEW job \in Jobs, Push(job)
    PROVE  Abstraction
  <1>1. job \in Job /\ jobs \in Seq(Job) /\ transacted \o current \in Seq(Job)
    BY JobsAssumption, ConcatProperties DEF JobsInv, Queues
  <1>2. Pending' = Append(Pending, job)
    BY <1>1, PushedLast DEF Push, Pending, database
  <1>3. Store!Request(job)
    BY <1>2 DEF Push, Store!Request, database
  <1> QED
    BY <1>3 DEF Abstraction, Store!Next

\* The job moves from the queue to the worker.
LEMMA PopStore ==
    ASSUME JobsInv, Pop
    PROVE  Abstraction
  <1>1. /\ jobs \in Seq(Job) /\ jobs # <<>> /\ transacted \in Seq(Job)
        /\ current = <<>>
    BY DEF JobsInv, Queues, Carried, Pop
  <1>2. Head(jobs) \in Job /\ Tail(jobs) \in Seq(Job)
    BY <1>1, HeadTailProperties
  <1>3. <<Head(jobs)>> \in Seq(Job)
    BY <1>2
  <1>4. <<Head(jobs)>> \o Tail(jobs) = jobs
    BY <1>1
  <1>5. Pending = transacted \o jobs
    BY <1>1, ConcatEmptySeq DEF Pending
  <1>6. Pending' = transacted \o (<<Head(jobs)>> \o Tail(jobs))
    BY <1>1, <1>2, <1>3, ConcatAssociative DEF Pending, Pop, NextJob, database
  <1> QED
    BY <1>4, <1>5, <1>6 DEF Abstraction, Store!vars, Pop, database

LEMMA PerformStore ==
    ASSUME JobsInv, PerformJob
    PROVE  Abstraction
  <1>1. /\ jobs \in Seq(Job) /\ current \in Seq(Job) /\ transacted \in Seq(Job)
        /\ transacted \o current \in Seq(Job)
    BY ConcatProperties DEF JobsInv, Queues
  <1>2. CASE inTransaction
    <2>1. Pending' = ((transacted \o current) \o <<>>) \o jobs
      BY <1>2 DEF PerformJob, Pending
    <2>2. Pending' = Pending
      BY <1>1, <2>1, ConcatEmptySeq DEF Pending
    <2> QED
      BY <1>2, <2>2 DEF Abstraction, Store!vars, PerformJob
  <1>3. CASE ~inTransaction
    <2>1. Pending = current \o jobs
      BY <1>1, <1>3, ConcatEmptySeq DEF JobsInv, Carried, Pending
    <2>2. Pending' = jobs /\ db' = Store!PerformAll(db, current)
      BY <1>1, <1>3, ConcatEmptySeq, EmptySeq DEF JobsInv, Carried, Pending, PerformJob
    <2>3. /\ Len(current) \in 0 .. Len(current \o jobs)
          /\ SubSeq(current \o jobs, 1, Len(current)) = current
          /\ SubSeq(current \o jobs, Len(current) + 1, Len(current \o jobs)) = jobs
      BY ONLY <1>1, CutConcat
    <2>4. Store!Flush(Len(current))
      BY <2>1, <2>2, <2>3 DEF Store!Flush
    <2> QED
      BY <2>1, <2>3, <2>4 DEF Abstraction, Store!Next
  <1> QED
    BY <1>2, <1>3

LEMMA FailStore ==
    ASSUME JobsInv, JobFails
    PROVE  Abstraction
  <1>1. /\ jobs \in Seq(Job) /\ transacted \in Seq(Job)
        /\ current[1] \in Job /\ current = <<current[1]>>
    BY SoleElement DEF JobsInv, Queues, Carried, JobFails
  <1> DEFINE i == Len(transacted) + 1
  <1>2. /\ i \in DOMAIN Pending
        /\ Pending[i] = current[1]
        /\ SubSeq(Pending, 1, i - 1) = transacted
        /\ SubSeq(Pending, i + 1, Len(Pending)) = jobs
    <2> DEFINE e == current[1]
    <2>1. Pending = (transacted \o <<e>>) \o jobs
      BY <1>1 DEF Pending
    <2>2. e \in Job
      BY <1>1
    <2> HIDE DEF e
    <2>3. LET st == (transacted \o <<e>>) \o jobs
          IN  /\ i \in DOMAIN st
              /\ st[i] = e
              /\ SubSeq(st, 1, i - 1) = transacted
              /\ SubSeq(st, i + 1, Len(st)) = jobs
      BY ONLY <1>1, <2>2, CutMiddle
    <2>4. /\ i \in DOMAIN Pending
          /\ Pending[i] = e
          /\ SubSeq(Pending, 1, i - 1) = transacted
          /\ SubSeq(Pending, i + 1, Len(Pending)) = jobs
      <3> HIDE DEF i
      <3> QED
        BY <2>1, <2>3
    <2> QED
      BY <2>4 DEF e
  <1>3. Pending' = transacted \o current' \o jobs /\ current' \in Store!Remains(current[1])
    BY DEF Pending, JobFails
  <1>4. Store!Fail(i)
    <2>1. Pending' = SubSeq(Pending, 1, i - 1) \o current' \o SubSeq(Pending, i + 1, Len(Pending))
      BY <1>2, <1>3
    <2>2. current' \in Store!Remains(Pending[i])
      BY <1>2, <1>3
    <2> HIDE DEF i
    <2> QED
      BY <2>1, <2>2 DEF Store!Fail, JobFails
  <1> QED
    BY <1>2, <1>4 DEF Abstraction, Store!Next

LEMMA InitStore == Init => Store!Init
  BY ConcatEmptySeq, EmptySeq DEF Init, Store!Init, Pending

LEMMA NextStore == JobsInv /\ [Next]_vars => Abstraction
  <1> SUFFICES ASSUME JobsInv, [Next]_vars PROVE Abstraction
    OBVIOUS
  <1>1. CASE UNCHANGED vars
    BY <1>1, Stutter DEF vars
  <1>2. ASSUME NEW job \in Jobs, Push(job) PROVE Abstraction
    BY <1>2, PushStore
  <1>3. CASE RequestInterruption
    BY <1>3, Stutter DEF RequestInterruption, database
  <1>4. CASE MainEnds
    BY <1>4, Stutter, EndsStore DEF MainEnds, WakeForJob, WakeToEnd, Join, database
  <1>5. CASE WorkerStep
    <2>1. CASE TakeMutex
      BY <2>1, Stutter DEF TakeMutex, database
    <2>2. CASE CommitIfCounted
      BY <2>2, CommitStore, Stutter DEF CommitIfCounted, CommitNothing, database
    <2>3. CASE CheckInterruption
      <3>1. Failures \/ transacted = <<>>
        BY <2>3, BoundAssumption DEF JobsInv, Queues, Carried, CheckInterruption
      <3> QED
        BY <2>3, <3>1, QuitStore, Stutter DEF CheckInterruption, database
    <2>4. CASE Sleep
      BY <2>4, Stutter DEF Sleep, database
    <2>5. CASE WakeUp
      <3>1. Failures \/ transacted = <<>>
        BY <2>5, BoundAssumption DEF JobsInv, Queues, Carried, WakeUp
      <3> QED
        BY <2>5, <3>1, QuitStore, Stutter DEF WakeUp, database
    <2>6. CASE BeginTransaction
      BY <2>6, Stutter DEF BeginTransaction
    <2>7. CASE NoTransaction
      BY <2>7, QuitStore DEF NoTransaction
    <2>8. CASE Pop
      BY <2>8, PopStore
    <2>9. CASE PopEmpty
      BY <2>9, EndsStore DEF PopEmpty
    <2>10. CASE PerformJob
      BY <2>10, PerformStore
    <2>11. CASE JobFails
      BY <2>11, FailStore
    <2> QED
      BY <1>5, <2>1, <2>2, <2>3, <2>4, <2>5, <2>6, <2>7, <2>8, <2>9, <2>10, <2>11 DEF WorkerStep
  <1>6. CASE LoaderStep
    BY <1>6, Stutter DEF LoaderStep, ListTorrents, LoadRows, database
  <1>7. CASE Crash
    BY <1>7, EndsStore DEF Crash
  <1>8. CASE Restart
    BY <1>8, Stutter DEF Restart, database
  <1> QED
    BY <1>1, <1>2, <1>3, <1>4, <1>5, <1>6, <1>7, <1>8 DEF Next

\* The worker of DBResumeDataStorage keeps what ResumeStore promises, with any
\* failures, jobs queued before it runs, and the process ending at any point:
\* a job that Worker::run takes off m_jobs is neither lost before its commit,
\* nor done twice, nor overtaken.
THEOREM WorkerImplementsStore == Spec => ImplementsStore
  <1>1. Spec => []JobsInv
    BY InitJobs, NextJobs, PTL DEF Spec
  <1> QED
    BY <1>1, InitStore, NextStore, PTL DEF Spec, Store!Spec, Abstraction, ImplementsStore

-----------------------------------------------------------------------------
(* The wake of addJob.                                                     *)

\* Between the look at the queue and the wait nothing is pushed, and a push
\* while the worker waits is followed by a wake.
WakeInv ==
  /\ worker \in {"commit", "check", "sleep"} => jobs = <<>>
  /\ worker = "waiting" /\ jobs # <<>> => main = "wake"
  /\ main \in Ended => worker = "off"

LEMMA NextWake == WakeInv /\ [Next]_vars => WakeInv'
  <1> SUFFICES ASSUME WakeInv, [Next]_vars PROVE WakeInv'
    OBVIOUS
  <1> USE DEF WakeInv, Ended
  <1>1. CASE UNCHANGED vars
    BY <1>1 DEF vars
  <1>2. ASSUME NEW job \in Jobs, Push(job) PROVE WakeInv'
    BY <1>2 DEF Push, JobsLocked, loading
  <1>3. CASE RequestInterruption
    BY <1>3 DEF RequestInterruption
  <1>4. CASE MainEnds
    BY <1>4 DEF MainEnds, WakeForJob, WakeToEnd, WokenWorker, Join, Ends
  <1>5. CASE WorkerStep
    <2>1. CASE TakeMutex \/ Sleep \/ Pop \/ PopEmpty
      BY <2>1 DEF TakeMutex, Sleep, Pop, PopEmpty, Ends
    <2>2. CASE CommitIfCounted
      BY <2>2 DEF CommitIfCounted, Commit, CommitNothing
    <2>3. CASE CheckInterruption \/ WakeUp \/ NoTransaction
      BY <2>3 DEF CheckInterruption, WakeUp, NoTransaction, Quit
    <2>4. CASE BeginTransaction \/ PerformJob \/ JobFails
      BY <2>4 DEF BeginTransaction, PerformJob, JobFails
    <2> QED
      BY <1>5, <2>1, <2>2, <2>3, <2>4 DEF WorkerStep
  <1>6. CASE LoaderStep
    BY <1>6 DEF LoaderStep, ListTorrents, LoadRows
  <1>7. CASE Crash
    BY <1>7 DEF Crash, Ends
  <1>8. CASE Restart
    BY <1>8 DEF Restart
  <1> QED
    BY <1>1, <1>2, <1>3, <1>4, <1>5, <1>6, <1>7, <1>8 DEF Next

\* The wakeAll of addJob, after it has released m_jobsMutex, reaches a worker
\* that went to sleep without seeing the job.
THEOREM WakeupKept == Spec => []NoLostWakeup
  <1>1. Init => WakeInv
    BY DEF Init, WakeInv, Ended
  <1>2. WakeInv => NoLostWakeup
    BY DEF WakeInv, NoLostWakeup
  <1> QED
    BY <1>1, <1>2, NextWake, PTL DEF Spec

-----------------------------------------------------------------------------
(* The startup reads one state of the database.                            *)

\* The worker performs and commits jobs under the write lock, unless a job was
\* queued before its first look at the queue; the loader reads under the read
\* lock.
LockInv ==
  /\ worker = "started" => jobs = <<>> /\ ~counted
  /\ worker \in {"pop", "perform", "loop"} => inTransaction /\ lock = "write"
  /\ counted => lock = "write"
  /\ loader = "listed" => lock = "read" /\ announced = HasRow
  /\ loader = "done" => delivered = announced
  /\ main \in Ended => worker = "off" /\ jobs = <<>>
  /\ worker = "off" => ~counted
  /\ inTransaction \in BOOLEAN /\ counted \in BOOLEAN

LEMMA NextLock == ~EarlyJobs /\ LockInv /\ [Next]_vars => LockInv'
  <1> SUFFICES ASSUME ~EarlyJobs, LockInv, [Next]_vars PROVE LockInv'
    OBVIOUS
  <1> USE EarlyJobsAssumption DEF LockInv, Ended, HasRow
  <1>1. CASE UNCHANGED vars
    BY <1>1 DEF vars
  <1>2. ASSUME NEW job \in Jobs, Push(job) PROVE LockInv'
    BY <1>2 DEF Push, loading, database
  <1>3. CASE RequestInterruption
    BY <1>3 DEF RequestInterruption, loading, database
  <1>4. CASE MainEnds
    <2>1. CASE WakeForJob \/ WakeToEnd
      BY <2>1 DEF WakeForJob, WakeToEnd, WokenWorker, loading, database
    <2>2. CASE Join
      BY <2>2 DEF Join, Ends
    <2> QED
      BY <1>4, <2>1, <2>2 DEF MainEnds
  <1>5. CASE WorkerStep
    <2>1. CASE TakeMutex
      BY <2>1 DEF TakeMutex, loading, database
    <2>2. CASE CommitIfCounted
      <3>1. CASE counted /\ Commit
        BY <3>1 DEF Commit, loading
      <3>2. CASE ~counted /\ CommitNothing
        BY <3>2 DEF CommitNothing, loading, database
      <3> QED
        BY <2>2, <3>1, <3>2 DEF CommitIfCounted
    <2>3. CASE CheckInterruption \/ WakeUp \/ NoTransaction
      BY <2>3 DEF CheckInterruption, WakeUp, NoTransaction, Quit, loading, database
    <2>4. CASE Sleep \/ Pop
      BY <2>4 DEF Sleep, Pop, loading, database
    <2>8. CASE PopEmpty
      BY <2>8 DEF PopEmpty, Ends
    <2>5. CASE BeginTransaction
      BY <2>5 DEF BeginTransaction, loading
    <2>6. CASE PerformJob
      BY <2>6 DEF PerformJob, loading
    <2>7. CASE JobFails
      BY <2>7 DEF JobFails, loading
    <2> QED
      BY <1>5, <2>1, <2>2, <2>3, <2>4, <2>5, <2>6, <2>7, <2>8 DEF WorkerStep
  <1>6. CASE LoaderStep
    <2>1. CASE ListTorrents
      BY <2>1 DEF ListTorrents, database
    <2>2. CASE LoadRows
      BY <2>2 DEF LoadRows, database
    <2> QED
      BY <1>6, <2>1, <2>2 DEF LoaderStep
  <1>7. CASE Crash
    BY <1>7 DEF Crash, Ends
  <1>8. CASE Restart
    BY <1>8 DEF Restart, database
  <1> QED
    BY <1>1, <1>2, <1>3, <1>4, <1>5, <1>6, <1>7, <1>8 DEF Next

\* If the worker waits before the session stores anything, doLoadAll delivers
\* through onResumeDataLoaded exactly the torrents it has passed to loadStarted.
THEOREM LoadConsistent ==
    ASSUME ~EarlyJobs
    PROVE  Spec => []LoadIsConsistent
  <1>1. Init => LockInv
    BY DEF Init, LockInv, Ended
  <1>2. LockInv /\ [Next]_vars => LockInv'
    BY NextLock
  <1>3. LockInv => LoadIsConsistent
    BY DEF LockInv, LoadIsConsistent
  <1> QED
    BY <1>1, <1>2, <1>3, PTL DEF Spec

-----------------------------------------------------------------------------
(* Types of the variables: what a list of requests makes of the rows.      *)

\* Induction over the natural numbers, of a set.
LEMMA Induction ==
    ASSUME NEW T \in SUBSET Nat, 0 \in T, \A n \in T : n + 1 \in T
    PROVE  T = Nat
  <1> SUFFICES ASSUME Nat \ T # {} PROVE FALSE
    OBVIOUS
  <1> DEFINE R == OpToRel(<, Nat)
  <1>1. IsWellFoundedOn(R, Nat)
    BY NatLessThanWellFounded
  <1>2. \A m, n \in Nat : m < n => <<m, n>> \in R
    BY DEF OpToRel
  <1> HIDE DEF R
  <1>3. PICK x \in Nat \ T : \A y \in Nat \ T : ~(<<y, x>> \in R)
    BY <1>1, WFMin
  <1>4. x # 0 /\ x - 1 \in Nat /\ x - 1 < x
    BY <1>3
  <1>5. x - 1 \in T
    BY <1>2, <1>3, <1>4
  <1>6. (x - 1) + 1 = x
    BY <1>4
  <1> QED
    BY <1>3, <1>5, <1>6

\* A set of numbers that are not above k has a largest one.
LEMMA LargestExists ==
    ASSUME NEW k \in Nat, NEW T \in SUBSET (0 .. k), T # {}
    PROVE  \E x \in T : \A y \in T : x >= y
  <1> DEFINE M == {n \in Nat : \A S \in SUBSET (0 .. n) :
                                 S # {} => \E x \in S : \A y \in S : x >= y}
  <1>1. 0 \in M
    <2> SUFFICES ASSUME NEW S \in SUBSET (0 .. 0), S # {}
                 PROVE  \E x \in S : \A y \in S : x >= y
      OBVIOUS
    <2>1. \A y \in S : y = 0
      OBVIOUS
    <2>2. 0 \in S
      BY <2>1
    <2>3. \A y \in S : 0 >= y
      BY <2>1
    <2> QED
      BY <2>2, <2>3
  <1>2. ASSUME NEW n \in M PROVE n + 1 \in M
    <2> SUFFICES ASSUME NEW S \in SUBSET (0 .. n + 1), S # {}
                 PROVE  \E x \in S : \A y \in S : x >= y
      OBVIOUS
    <2>1. CASE n + 1 \in S
      BY <2>1
    <2>2. CASE n + 1 \notin S
      <3>1. S \in SUBSET (0 .. n)
        BY <2>2
      <3> QED
        BY <3>1
    <2> QED
      BY <2>1, <2>2
  <1>3. M = Nat
    BY <1>1, <1>2, Induction
  <1> QED
    BY <1>3

\* A list of requests is performed one after another.
LEMMA PerformSteps ==
    ASSUME NEW rows, NEW list \in Seq(Job)
    PROVE  \E it : /\ it[0] = rows
                   /\ \A k \in Nat : k < Len(list) =>
                        it[k + 1] = Store!Perform(it[k], list[k + 1])
                   /\ Store!PerformAll(rows, list) = it[Len(list)]
  <1> DEFINE n == Len(list)
             D == DOMAIN list
             Largest(T) == CHOOSE x \in T : \A y \in T : x >= y
             After(g, T) == IF T = {} THEN rows
                            ELSE Store!Perform(g[T \ {Largest(T)}], list[Largest(T)])
             Fold == CHOOSE g : g = [T \in SUBSET D |-> After(g, T)]
  <1>1. Store!PerformAll(rows, list) = Fold[D]
    BY DEF Store!PerformAll, Store!FoldLeft, Store!MapThenFoldSet, Store!Max
  <1>2. n \in Nat /\ D = 1 .. n
    BY LenProperties
  <1> DEFINE Upto(k) == SUBSET {i \in D : i <= k}
             K == {k \in Nat : \E g : /\ g = [T \in Upto(k) |-> g[T]]
                                      /\ \A T \in Upto(k) : g[T] = After(g, T)}
  <1>3. ASSUME NEW k \in Nat, NEW T \in Upto(k), T # {}
        PROVE  Largest(T) \in T /\ \A y \in T : Largest(T) >= y
    <2>1. T \in SUBSET (0 .. k)
      BY <1>2
    <2> HIDE DEF Upto
    <2> QED
      BY <1>3, <2>1, LargestExists
  <1>4. 0 \in K
    <2> DEFINE g == [T \in Upto(0) |-> rows]
    <2>1. \A T \in Upto(0) : T = {}
      BY <1>2
    <2>2. \A T \in Upto(0) : g[T] = After(g, T)
      BY <2>1
    <2>3. g = [T \in Upto(0) |-> g[T]]
      OBVIOUS
    <2> HIDE DEF g, After, Upto
    <2> QED
      BY <2>2, <2>3
  <1>5. ASSUME NEW k \in K PROVE k + 1 \in K
    <2>1. PICK g : g = [T \in Upto(k) |-> g[T]] /\ \A T \in Upto(k) : g[T] = After(g, T)
      OBVIOUS
    <2> DEFINE h == [T \in Upto(k + 1) |->
                       IF k + 1 \in T THEN Store!Perform(g[T \ {k + 1}], list[k + 1]) ELSE g[T]]
    <2>2. ASSUME NEW T \in Upto(k + 1) PROVE h[T] = After(h, T)
      <3>1. CASE k + 1 \in T
        <4>1. Largest(T) = k + 1
          <5>1. \A y \in T : y \in Nat /\ y <= k + 1
            BY <1>2
          <5>2. Largest(T) \in T /\ \A y \in T : Largest(T) >= y
            BY <1>3, <3>1
          <5> HIDE DEF Largest
          <5> QED
            BY <3>1, <5>1, <5>2
        <4>2. T \ {k + 1} \in Upto(k) /\ T \ {k + 1} \in Upto(k + 1) /\ k + 1 \notin T \ {k + 1}
          BY <1>2
        <4> HIDE DEF Largest, Upto
        <4>3. h[T] = Store!Perform(g[T \ {k + 1}], list[k + 1])
          BY <3>1
        <4>4. h[T \ {k + 1}] = g[T \ {k + 1}]
          BY <4>2
        <4> HIDE DEF h
        <4> QED
          BY <3>1, <4>1, <4>3, <4>4
      <3>2. CASE k + 1 \notin T /\ T # {}
        <4>1. T \in Upto(k)
          BY <1>2, <3>2
        <4>2. Largest(T) \in T
          <5>1. k \in Nat
            OBVIOUS
          <5> HIDE DEF Largest, Upto, K
          <5> QED
            BY <1>3, <3>2, <4>1, <5>1
        <4>3. T \ {Largest(T)} \in Upto(k) /\ T \ {Largest(T)} \in Upto(k + 1)
          BY <4>1
        <4> HIDE DEF Largest, Upto
        <4>4. h[T] = g[T] /\ h[T \ {Largest(T)}] = g[T \ {Largest(T)}]
          BY <3>2, <4>3
        <4>5. g[T] = After(g, T)
          BY <2>1, <4>1
        <4> HIDE DEF h
        <4> QED
          BY <3>2, <4>4, <4>5
      <3>3. CASE T = {}
        <4>1. T \in Upto(k)
          BY <3>3
        <4>2. g[T] = rows
          BY <2>1, <3>3, <4>1
        <4> QED
          BY <3>3, <4>2
      <3> QED
        BY <3>1, <3>2, <3>3
    <2>3. h = [T \in Upto(k + 1) |-> h[T]]
      OBVIOUS
    <2>4. k + 1 \in Nat
      OBVIOUS
    <2> HIDE DEF h, After, Upto
    <2> QED
      BY <2>2, <2>3, <2>4
  <1>6. \E g : g = [T \in SUBSET D |-> After(g, T)]
    <2>1. n \in K
      BY <1>2, <1>4, <1>5, Induction
    <2>2. Upto(n) = SUBSET D
      BY <1>2
    <2>3. PICK g : g = [T \in Upto(n) |-> g[T]] /\ \A T \in Upto(n) : g[T] = After(g, T)
      BY <2>1
    <2>4. g = [T \in Upto(n) |-> After(g, T)]
      <3> HIDE DEF After, Upto
      <3> QED BY <2>3
    <2> QED
      BY <2>2, <2>4
  <1>7. \A T \in SUBSET D : Fold[T] = After(Fold, T)
    <2>1. Fold = [T \in SUBSET D |-> After(Fold, T)]
      <3> HIDE DEF After
      <3> QED BY <1>6
    <2> HIDE DEF Fold, After
    <2> QED
      BY <2>1
  <1> HIDE DEF Fold
  <1> DEFINE it == [k \in Nat |-> Fold[{i \in D : i <= k}]]
  <1>8. it[0] = rows
    <2>1. {i \in D : i <= 0} = {}
      BY <1>2
    <2> QED
      BY <1>7, <2>1
  <1>9. ASSUME NEW k \in Nat, k < n PROVE it[k + 1] = Store!Perform(it[k], list[k + 1])
    <2> DEFINE T == {i \in D : i <= k + 1}
    <2>1. k + 1 \in T /\ T \in SUBSET D /\ \A i \in T : i <= k + 1 /\ i \in Nat
      BY <1>2, <1>9
    <2>2. Largest(T) = k + 1
      BY <2>1
    <2>3. T \ {k + 1} = {i \in D : i <= k}
      BY <1>2
    <2>4. Fold[T] = After(Fold, T)
      BY <1>7, <2>1
    <2>5. Fold[T] = Store!Perform(Fold[T \ {k + 1}], list[k + 1])
      BY <2>1, <2>2, <2>4
    <2>6. k + 1 \in Nat
      OBVIOUS
    <2> HIDE DEF T
    <2>7. it[k + 1] = Fold[T]
      BY <2>6 DEF T
    <2> QED
      BY <2>3, <2>5, <2>7
  <1>10. it[n] = Fold[D]
    <2>1. {i \in D : i <= n} = D
      BY <1>2
    <2> QED
      BY <1>2, <2>1
  <1> HIDE DEF it
  <1> QED
    BY <1>1, <1>8, <1>9, <1>10

\* A request makes rows of rows ...
LEMMA PerformTyped ==
    ASSUME NEW rows \in Rows, NEW job \in Job
    PROVE  Store!Perform(rows, job) \in Rows
  <1>1. CASE job \in StoreJob
    <2>1. Store!Stored(rows[job.torrent], job) \in Row
      BY <1>1 DEF StoreJob, Store!Stored, Rows, Row
    <2>2. Store!Perform(rows, job) = [rows EXCEPT ![job.torrent] = Store!Stored(@, job)]
      BY <1>1 DEF StoreJob, Store!Perform
    <2> QED
      BY <1>1, <2>1, <2>2 DEF StoreJob, Rows
  <1>2. CASE job \in RemoveJob
    BY <1>2 DEF RemoveJob, Store!Perform, Rows
  <1>3. CASE job \in StoreQueueJob
    <2>1. job.kind = "queue" /\ job.queue \in Seq(Torrent)
      BY <1>3 DEF StoreQueueJob
    <2>2. ASSUME NEW t \in Torrent, NEW position \in Int, rows[t] # NoRow
          PROVE  [rows[t] EXCEPT !.position = position] \in Row
      BY <2>2 DEF Rows, Row
    <2>3. \A t \in Torrent : (\E i \in DOMAIN job.queue : job.queue[i] = t) =>
            (CHOOSE i \in DOMAIN job.queue : job.queue[i] = t) - 1 \in Int
      BY <2>1, LenProperties
    <2>4. Store!Ordered(rows, job.queue) \in Rows
      BY <2>2, <2>3 DEF Store!Ordered, Rows
    <2> QED
      BY <2>1, <2>4 DEF Store!Perform
  <1> QED
    BY <1>1, <1>2, <1>3 DEF Job

\* ... and so does a list of them, of whatever length.
LEMMA PerformAllTyped ==
    ASSUME NEW rows \in Rows, NEW list \in Seq(Job)
    PROVE  Store!PerformAll(rows, list) \in Rows
  <1>1. PICK it : /\ it[0] = rows
                  /\ \A k \in Nat : k < Len(list) =>
                       it[k + 1] = Store!Perform(it[k], list[k + 1])
                  /\ Store!PerformAll(rows, list) = it[Len(list)]
    BY PerformSteps
  <1> DEFINE T == {k \in Nat : k <= Len(list) => it[k] \in Rows}
  <1>2. 0 \in T
    BY <1>1
  <1>3. ASSUME NEW k \in T PROVE k + 1 \in T
    <2> SUFFICES ASSUME k + 1 <= Len(list) PROVE it[k + 1] \in Rows
      OBVIOUS
    <2>1. Len(list) \in Nat /\ k + 1 \in 1 .. Len(list) /\ k < Len(list) /\ k <= Len(list)
      BY LenProperties
    <2>2. list[k + 1] \in Job
      BY <2>1, ElementOfSeq
    <2> QED
      BY <1>1, <2>1, <2>2, PerformTyped
  <1>4. Len(list) \in T
    BY <1>2, <1>3, Induction, LenProperties
  <1> QED
    BY <1>1, <1>4, LenProperties

\* Where the threads are, and what the loader has passed on.
Threads ==
  /\ main \in {"idle", "wake", "wakeToEnd", "joining"} \cup Ended
  /\ worker \in {"off", "started", "loop", "commit", "check", "sleep", "waiting", "woken",
                 "begin", "pop", "perform", "finished"}
  /\ loader \in {"off", "unused", "begin", "listed", "done"}
  /\ interrupted \in BOOLEAN
  /\ lock \in {"free", "read", "write"}
  /\ announced \subseteq Torrent /\ delivered \subseteq Torrent

LEMMA NextThreads == Threads /\ [Next]_vars => Threads'
  <1> SUFFICES ASSUME Threads, [Next]_vars PROVE Threads'
    OBVIOUS
  <1> USE DEF Threads, Ended
  <1>1. CASE UNCHANGED vars
    BY <1>1 DEF vars
  <1>2. ASSUME NEW job \in Jobs, Push(job) PROVE Threads'
    BY <1>2 DEF Push, loading
  <1>3. CASE RequestInterruption
    BY <1>3 DEF RequestInterruption, loading
  <1>4. CASE MainEnds
    BY <1>4 DEF MainEnds, WakeForJob, WakeToEnd, WokenWorker, Join, Ends, loading
  <1>5. CASE WorkerStep
    <2>1. CASE TakeMutex \/ Sleep \/ Pop \/ PopEmpty
      BY <2>1 DEF TakeMutex, Sleep, Pop, PopEmpty, Ends, loading
    <2>2. CASE CommitIfCounted
      BY <2>2 DEF CommitIfCounted, Commit, CommitNothing, loading
    <2>3. CASE CheckInterruption \/ WakeUp \/ NoTransaction
      BY <2>3 DEF CheckInterruption, WakeUp, NoTransaction, Quit, loading
    <2>4. CASE BeginTransaction \/ PerformJob \/ JobFails
      BY <2>4 DEF BeginTransaction, PerformJob, JobFails, loading
    <2> QED
      BY <1>5, <2>1, <2>2, <2>3, <2>4 DEF WorkerStep
  <1>6. CASE LoaderStep
    BY <1>6 DEF LoaderStep, ListTorrents, LoadRows, HasRow
  <1>7. CASE Crash
    BY <1>7 DEF Crash, Ends
  <1>8. CASE Restart
    BY <1>8 DEF Restart
  <1> QED
    BY <1>1, <1>2, <1>3, <1>4, <1>5, <1>6, <1>7, <1>8 DEF Next

\* Rows are written by a commit, and by a job performed without a transaction.
LEMMA NextRows == JobsInv /\ db \in Rows /\ [Next]_vars => (db \in Rows)'
  <1> SUFFICES ASSUME JobsInv, db \in Rows, [Next]_vars PROVE db' \in Rows
    OBVIOUS
  <1>1. CASE CommitIfCounted
    <2>1. Store!PerformAll(db, transacted) \in Rows
      BY PerformAllTyped DEF JobsInv, Queues
    <2> QED
      BY <1>1, <2>1 DEF CommitIfCounted, Commit, CommitNothing, database
  <1>2. CASE PerformJob
    <2>1. Store!PerformAll(db, current) \in Rows
      BY PerformAllTyped DEF JobsInv, Queues
    <2> QED
      BY <1>2, <2>1 DEF PerformJob
  <1>3. CASE UNCHANGED db
    BY <1>3
  <1>4. CASE WorkerStep
    BY <1>1, <1>2, <1>3, <1>4 DEF WorkerStep, TakeMutex, CheckInterruption, Sleep, WakeUp, Quit,
      BeginTransaction, NoTransaction, Pop, PopEmpty, Ends, JobFails, database
  <1>5. CASE \/ \E job \in Jobs : Push(job)
             \/ RequestInterruption \/ MainEnds \/ LoaderStep \/ Crash \/ Restart
    BY <1>3, <1>5 DEF Push, RequestInterruption, MainEnds, WakeForJob, WakeToEnd, Join, Ends,
      LoaderStep, ListTorrents, LoadRows, Crash, Restart, database
  <1> QED
    BY <1>3, <1>4, <1>5 DEF Next, vars

\* At every step of the threads, whatever fails and wherever the process ends:
\* one job at most is in Job::perform, and only while the worker is there; only
\* an open transaction holds jobs; and the table holds rows, whatever list of
\* jobs commit() makes durable at once.
THEOREM WorkerTypes == Spec => []TypeOK
  <1>1. Init => Threads /\ db \in Rows
    BY DEF Init, Threads, Ended, Rows
  <1>2. Threads /\ JobsInv /\ db \in Rows => TypeOK
    BY EmptySeq DEF TypeOK, Threads, JobsInv, Queues, Carried
  <1> QED
    BY <1>1, <1>2, InitJobs, NextJobs, NextThreads, NextRows, PTL DEF Spec
=============================================================================
