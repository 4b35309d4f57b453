--------------------------- MODULE MCResumeWorker ---------------------------
(* Small instances of ResumeWorker for TLC. *)
EXTENDS ResumeWorker

CONSTANTS t1, t2, v1, v2

Store1(meta) == [kind |-> "store", torrent |-> t1, data |-> v1, metadata |-> meta]
Store2 == [kind |-> "store", torrent |-> t2, data |-> v1, metadata |-> NoData]
Remove1 == [kind |-> "remove", torrent |-> t1]
Queue(list) == [kind |-> "queue", queue |-> list]

\* Requests whose order and number tell in the rows.
AllKinds == {Store1(v1), Store1(NoData), Remove1, Queue(<<t2, t1>>)}
\* Requests that change which torrents have rows.
RowsOnly == {Store1(v1), Store2, Remove1}
\* One request, for the runs on how the threads wait for each other.
OneStore == {Store1(v1)}
=============================================================================
