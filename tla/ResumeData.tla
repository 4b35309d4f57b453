---------------------------- MODULE ResumeData -----------------------------
(***************************************************************************)
(* The resume data of torrents as rows of a table, and the requests that   *)
(* change it, for the modules on resume data storages.                     *)
(***************************************************************************)
EXTENDS Integers, Sequences, SequencesExt

CONSTANTS
  Torrent,     \* torrent IDs
  Data,        \* resume data, and metadata, told apart by their version
  NoData,      \* resume data without metadata
  NoRow,       \* the torrent is not in the storage
  Jobs,        \* the requests the session makes
  Failures,    \* whether statements and transactions may fail
  MaxPending   \* bound on the requests that have not taken effect

\* A row of the table "torrents"; position -1 is the default of the column.
Row == [data: Data, metadata: Data \cup {NoData}, position: Int]

StoreJob == [kind: {"store"}, torrent: Torrent, data: Data, metadata: Data \cup {NoData}]
RemoveJob == [kind: {"remove"}, torrent: Torrent]
StoreQueueJob == [kind: {"queue"}, queue: Seq(Torrent)]
Job == StoreJob \cup RemoveJob \cup StoreQueueJob

ASSUME JobsAssumption ==
  /\ Jobs \subseteq Job
  /\ \A job \in Jobs : job.kind = "queue" => IsInjective(job.queue)
ASSUME NullAssumption == NoData \notin Data /\ NoRow \notin Row
ASSUME BoundAssumption == Failures \in BOOLEAN /\ MaxPending \in Nat

-----------------------------------------------------------------------------
(* What one request does to the rows. *)

\* INSERT ... ON CONFLICT DO UPDATE: the metadata column is only among the
\* columns if the data has metadata, the queue position never is.
Stored(old, job) ==
  [data |-> job.data,
   metadata |-> IF job.metadata # NoData \/ old = NoRow THEN job.metadata ELSE old.metadata,
   position |-> IF old = NoRow THEN -1 ELSE old.position]

\* One UPDATE per torrent of the list; a torrent without a row is passed over.
Ordered(rows, queue) ==
  [t \in Torrent |->
     IF rows[t] # NoRow /\ \E i \in DOMAIN queue : queue[i] = t
     THEN [rows[t] EXCEPT !.position = (CHOOSE i \in DOMAIN queue : queue[i] = t) - 1]
     ELSE rows[t]]

Perform(rows, job) ==
  CASE job.kind = "store"  -> [rows EXCEPT ![job.torrent] = Stored(@, job)]
    [] job.kind = "remove" -> [rows EXCEPT ![job.torrent] = NoRow]
    [] job.kind = "queue"  -> Ordered(rows, job.queue)

PerformAll(rows, list) == FoldLeft(Perform, rows, list)

\* What is left of a request whose statement fails: nothing, or the first
\* updates of a list.
Remains(job) ==
  {<<>>} \cup
  IF job.kind = "queue"
  THEN {<<[job EXCEPT !.queue = SubSeq(@, 1, n)]>> : n \in 1 .. Len(job.queue) - 1}
  ELSE {}
=============================================================================
