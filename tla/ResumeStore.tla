---------------------------- MODULE ResumeStore ----------------------------
(***************************************************************************)
(* What a ResumeDataStorage promises the session: requests to store or     *)
(* remove the resume data of a torrent, or to store the order of the       *)
(* queue, take effect later, in the order in which they were made.  What   *)
(* has taken effect survives the end of the process; what has not is lost. *)
(*                                                                         *)
(* ResumeWorker implements it with the thread of DBResumeDataStorage.      *)
(***************************************************************************)
EXTENDS ResumeData

VARIABLES
  durable,     \* the rows that survive a crash
  pending      \* the requests that have not taken effect, the oldest first

vars == <<durable, pending>>

-----------------------------------------------------------------------------
Init ==
  /\ durable = [t \in Torrent |-> NoRow]
  /\ pending = <<>>

Request(job) ==
  /\ Len(pending) < MaxPending
  /\ pending' = Append(pending, job)
  /\ UNCHANGED durable

\* The n oldest requests take effect at once.
Flush(n) ==
  /\ durable' = PerformAll(durable, SubSeq(pending, 1, n))
  /\ pending' = SubSeq(pending, n + 1, Len(pending))

\* The statement of a request fails, the others are not affected.
Fail(i) ==
  /\ Failures
  /\ \E part \in Remains(pending[i]) :
       pending' = SubSeq(pending, 1, i - 1) \o part \o SubSeq(pending, i + 1, Len(pending))
  /\ UNCHANGED durable

\* A transaction with the n oldest requests is rolled back.
RollBack(n) ==
  /\ Failures
  /\ pending' = SubSeq(pending, n + 1, Len(pending))
  /\ UNCHANGED durable

\* The process ends, in order or not.
End ==
  /\ pending' = <<>>
  /\ UNCHANGED durable

Next ==
  \/ \E job \in Jobs : Request(job)
  \/ \E n \in 0 .. Len(pending) : Flush(n) \/ RollBack(n)
  \/ \E i \in DOMAIN pending : Fail(i)
  \/ End

Spec == Init /\ [][Next]_vars
=============================================================================
