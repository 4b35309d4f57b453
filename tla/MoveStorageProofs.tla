------------------------- MODULE MoveStorageProofs -------------------------
(***************************************************************************)
(* Proofs about MoveStorage, for any torrents, handles, paths and bounds:  *)
(* type correctness, and that moves are executed one at a time, the one at *)
(* the head of the queue.  The two are inductive together: an alert for a  *)
(* move can only be handled because the queue is not empty then.           *)
(***************************************************************************)
EXTENDS MoveStorage, SequenceTheorems, FiniteSetTheorems, WellFoundedInduction, TLAPS

-----------------------------------------------------------------------------
(* Sequences.                                                              *)

\* RemoveAt, by which a cancelled job leaves m_moveStorageQueue, keeps the
\* first element when it removes another.
LEMMA RemoveAtKeepsHead ==
    ASSUME NEW S, NEW s \in Seq(S), NEW i \in 2..Len(s)
    PROVE  /\ RemoveAt(s, i) \in Seq(S)
           /\ RemoveAt(s, i) # <<>>
           /\ Head(RemoveAt(s, i)) = Head(s)
  <1> DEFINE front == SubSeq(s, 1, i-1)
             back == SubSeq(s, i+1, Len(s))
  <1>1. Len(s) \in Nat /\ \A j \in 1..Len(s) : s[j] \in S
    BY ElementOfSeq, LenProperties
  <1>2. /\ front \in Seq(S)
        /\ Len(front) = i-1
        /\ front[1] = s[1]
    BY <1>1, SubSeqProperties
  <1>3. back \in Seq(S) /\ Len(back) \in Nat
    BY <1>1, SubSeqProperties, LenProperties
  <1>4. /\ front \o back \in Seq(S)
        /\ Len(front \o back) = Len(front) + Len(back)
        /\ (front \o back)[1] = front[1]
    <2> HIDE DEF front, back
    <2>1. 1 <= Len(front) /\ 1 \in 1 .. Len(front) + Len(back)
      BY <1>2, <1>3
    <2>2. \A j \in 1 .. Len(front) + Len(back) :
              (front \o back)[j] = IF j <= Len(front) THEN front[j]
                                   ELSE back[j - Len(front)]
      BY <1>2, <1>3, ConcatProperties
    <2> QED
      BY <1>2, <1>3, <2>1, <2>2, ConcatProperties
  <1>5. front \o back # <<>>
    BY <1>1, <1>2, <1>3, <1>4, EmptySeq
  <1> QED
    BY <1>1, <1>2, <1>4, <1>5 DEF RemoveAt

\* The alerts waiting after others were posted are those and these, in order.
LEMMA ConcatElements ==
    ASSUME NEW S, NEW s \in Seq(S), NEW t \in Seq(S)
    PROVE  /\ s \o t \in Seq(S)
           /\ \A i \in DOMAIN (s \o t) :
                 \/ i \in DOMAIN s /\ (s \o t)[i] = s[i]
                 \/ i - Len(s) \in DOMAIN t /\ (s \o t)[i] = t[i - Len(s)]
  <1>1. Len(s) \in Nat /\ Len(t) \in Nat /\ DOMAIN s = 1..Len(s) /\ DOMAIN t = 1..Len(t)
    BY LenProperties
  <1>2. /\ s \o t \in Seq(S)
        /\ Len(s \o t) = Len(s) + Len(t)
        /\ \A i \in 1 .. Len(s) + Len(t) : (s \o t)[i] =
                     IF i <= Len(s) THEN s[i] ELSE t[i - Len(s)]
    BY ConcatProperties
  <1>3. DOMAIN (s \o t) = 1 .. Len(s) + Len(t)
    BY <1>2, LenProperties
  <1> QED
    BY <1>1, <1>2, <1>3

\* What remains after the oldest alert, or the finished job, was taken.
LEMMA TailElements ==
    ASSUME NEW S, NEW s \in Seq(S), s # <<>>
    PROVE  /\ Head(s) \in S /\ Head(s) = s[1]
           /\ Tail(s) \in Seq(S)
           /\ 1 \in DOMAIN s
           /\ \A i \in DOMAIN Tail(s) : /\ i+1 \in DOMAIN s /\ i+1 # 1
                                        /\ Tail(s)[i] = s[i+1]
  <1>1. Len(s) \in Nat /\ Len(s) # 0 /\ DOMAIN s = 1..Len(s)
    BY LenProperties, EmptySeq
  <1>2. /\ Head(s) \in S
        /\ Tail(s) \in Seq(S)
        /\ Len(Tail(s)) = Len(s) - 1
        /\ \A i \in 1 .. Len(Tail(s)) : Tail(s)[i] = s[i+1]
    BY HeadTailProperties
  <1>3. DOMAIN Tail(s) = 1 .. Len(s) - 1
    BY <1>2, LenProperties
  <1> QED
    BY <1>1, <1>2, <1>3

\* A nonempty set of positions has a smallest one: the first inactive job that
\* addMoveTorrentStorageJob looks for exists whenever there is one.
LEMMA SmallestExists ==
    ASSUME NEW T, T \subseteq Nat, T # {}
    PROVE  \E i \in T : \A j \in T : i <= j
  <1>1. PICK i \in T : \A j \in T : ~ (<<j, i>> \in OpToRel(<, Nat))
    BY WFMin, NatLessThanWellFounded, Zenon
  <1>2. \A j \in T : j \in Nat /\ i \in Nat /\ ~ (j < i)
    BY <1>1, Zenon DEF OpToRel
  <1> QED
    BY <1>2

-----------------------------------------------------------------------------
(* Handlers of a torrent.                                                  *)

\* handleMoveStorageJobFinished leaves a registered torrent with known paths.
LEMMA MoveRecordedType ==
    ASSUME NEW rec \in RegisteredRec, NEW path \in Path, NEW context,
           NEW outstanding \in BOOLEAN
    PROVE  /\ MoveRecorded(rec, path, context, outstanding) \in RegisteredRec
           /\ MoveRecorded(rec, path, context, outstanding).handle = rec.handle
  <1>1. /\ rec \in TorrentRec /\ rec.handle \in Handle
        /\ rec.savePath \in Path /\ rec.location \in Path /\ rec.paramsPath \in Path
    BY DEF RegisteredRec
  <1> DEFINE saved == [rec EXCEPT
            !.savePath = IF context = "ChangeSavePath" THEN path ELSE @,
            !.downloadPath = IF context = "ChangeDownloadPath" THEN path ELSE @,
            !.moving = outstanding,
            !.location = path,
            !.deferred = TRUE]
             promoted == [saved EXCEPT !.finishedStorage = @ \/ path = saved.savePath]
  <1>2. saved \in RegisteredRec /\ saved.handle = rec.handle
    <2>1. (IF context = "ChangeSavePath" THEN path ELSE rec.savePath) \in Path
      BY <1>1
    <2>2. (IF context = "ChangeDownloadPath" THEN path ELSE rec.downloadPath) \in MaybePath
      BY <1>1 DEF TorrentRec, MaybePath
    <2> QED
      BY <1>1, <2>1, <2>2 DEF RegisteredRec, TorrentRec, MaybePath
  <1>3. promoted \in RegisteredRec /\ promoted.handle = rec.handle
    <2> HIDE DEF saved
    <2>1. (saved.finishedStorage \/ path = saved.savePath) \in BOOLEAN
      OBVIOUS
    <2> QED
      BY <1>2, <2>1 DEF RegisteredRec, TorrentRec, MaybePath
  <1>4. [promoted EXCEPT !.missing = FALSE,
                         !.recovered = FALSE,
                         !.paramsPath = IF rec.missing THEN path ELSE @,
                         !.notify = FALSE] \in RegisteredRec
    <2> HIDE DEF promoted
    <2>1. (IF rec.missing THEN path ELSE promoted.paramsPath) \in Path
      BY <1>3 DEF RegisteredRec
    <2> QED
      BY <1>3, <2>1 DEF RegisteredRec, TorrentRec, MaybePath
  <1>5. [promoted EXCEPT !.missing = FALSE,
                         !.recovered = FALSE,
                         !.paramsPath = IF rec.missing THEN path ELSE @,
                         !.notify = FALSE].handle = rec.handle
    <2> HIDE DEF promoted
    <2> QED
      BY <1>3 DEF RegisteredRec, TorrentRec
  <1> HIDE DEF saved, promoted
  <1>6. MoveRecorded(rec, path, context, outstanding) =
            IF outstanding THEN promoted
            ELSE [promoted EXCEPT
                !.missing = FALSE,
                !.recovered = FALSE,
                !.paramsPath = IF rec.missing THEN path ELSE @,
                !.notify = FALSE]
    BY DEF MoveRecorded, saved, promoted
  <1> QED
    BY <1>3, <1>4, <1>5, <1>6

\* TorrentImpl::reload leaves a registered torrent with known paths.
LEMMA ReloadedType ==
    ASSUME NEW rec \in RegisteredRec, NEW f \in Handle
    PROVE  Reloaded(rec, f) \in RegisteredRec
  BY DEF RegisteredRec, TorrentRec, MaybePath, Reloaded

\* Native torrents that exist are somewhere.
NativeLocated(nat) ==
    /\ nat \in [Handle -> NativeRec]
    /\ \A h \in Handle : nat[h].state # "unused" => nat[h].location \in Path

\* lt::session::remove_torrent does not lose the location of a native torrent.
LEMMA ClosedType ==
    ASSUME NEW nat, NativeLocated(nat), NEW h \in Handle
    PROVE  NativeLocated(Closed(nat, h))
  BY DEF NativeLocated, NativeRec, Closed

\* A native torrent made from m_ltAddTorrentParams is somewhere.
LEMMA NativeReloadedType ==
    ASSUME NEW nat, NativeLocated(nat), NEW rec \in RegisteredRec, NEW f \in Handle
    PROVE  NativeLocated(NativeReloaded(nat, rec, f))
  <1>1. NativeLocated(Closed(nat, rec.handle))
    BY ClosedType DEF RegisteredRec
  <1>2. NewNative(nat[rec.handle].owner, rec.paramsPath, FALSE)
            \in {n \in NativeRec : n.location \in Path}
    BY DEF NewNative, NativeLocated, NativeRec, RegisteredRec, MaybePath
  <1> QED
    BY <1>1, <1>2 DEF NativeReloaded, NativeLocated

\* What handleFastResumeRejected makes of a torrent.
LEMMA RejectedType ==
    ASSUME NEW rec \in RegisteredRec, NEW f \in Handle
    PROVE  /\ Rejected(rec) \in RegisteredRec /\ Recovered(rec, f) \in RegisteredRec
           /\ Rejected(rec).handle = rec.handle /\ Recovered(rec, f).handle = f
  <1>1. Reloaded(rec, f) \in RegisteredRec /\ Reloaded(rec, f).handle = f
    BY ReloadedType DEF Reloaded, RegisteredRec, TorrentRec
  <1>2. Rejected(rec) \in RegisteredRec /\ Rejected(rec).handle = rec.handle
    BY DEF Rejected, RegisteredRec, TorrentRec
  <1>3. Recovered(rec, f) \in RegisteredRec /\ Recovered(rec, f).handle = f
    BY <1>1 DEF Recovered, RegisteredRec, TorrentRec
  <1> QED
    BY <1>2, <1>3

LEMMA NativeRecoveredType ==
    ASSUME NEW nat, NativeLocated(nat), NEW rec \in RegisteredRec, NEW f \in Handle
    PROVE  NativeLocated(NativeRecovered(nat, rec, f))
  <1> DEFINE reloaded == NativeReloaded(nat, rec, f)
             n == [reloaded[f] EXCEPT !.unchecked = FALSE]
  <1>1. NativeLocated(reloaded)
    BY NativeReloadedType
  <1>2. NativeRecovered(nat, rec, f) = [reloaded EXCEPT ![f] = n]
    BY DEF NativeRecovered
  <1> HIDE DEF reloaded
  <1>3. n \in NativeRec /\ n.state = reloaded[f].state /\ n.location = reloaded[f].location
    BY <1>1 DEF NativeLocated, NativeRec
  <1> HIDE DEF n
  <1> QED
    BY <1>1, <1>2, <1>3 DEF NativeLocated

-----------------------------------------------------------------------------
(* The queue, the moves being executed and the alerts about them.          *)

IsMoveAlert(a) == a.type \in {"moved", "move_failed"}

\* The part of TypeOK and OneMoveAtATime that is about a queue q, moves o being
\* executed and waiting alerts a.
Moves(q, o, a) ==
    /\ q \in Seq(MoveStorageJob)
    /\ o \subseteq [handle : Handle, path : Path]
    /\ a \in Seq(Alert)
    /\ \A i \in DOMAIN a : a[i].type \in {"moved", "status", "resume"} => a[i].path \in Path
    /\ \A m \in o : q # <<>> /\ Head(q).handle = m.handle /\ Head(q).path = m.path
    /\ \A i \in DOMAIN a : IsMoveAlert(a[i]) =>
            /\ q # <<>>
            /\ Head(q).handle = a[i].handle
            /\ a[i].type = "moved" => Head(q).path = a[i].path
    /\ o # {} => \A i \in DOMAIN a : ~IsMoveAlert(a[i])
    /\ \A i, j \in DOMAIN a : IsMoveAlert(a[i]) /\ IsMoveAlert(a[j]) => i = j

\* What starting the move of a job leads to: a disk move, a refusal or nothing.
Starts(job, o, a) ==
    \/ o = {} /\ a = <<>>
    \/ o = {[handle |-> job.handle, path |-> job.path]} /\ a = <<>>
    \/ o = {} /\ a = <<Posted("move_failed", job.handle, NoPath)>>

\* Changing the queue behind its first job, as cancelling, queueing and the exit
\* do, does not disturb the move being executed.
LEMMA MovesBehindHead ==
    ASSUME NEW q, NEW o, NEW a, Moves(q, o, a), NEW r \in Seq(MoveStorageJob),
           q # <<>> => r # <<>> /\ Head(r) = Head(q)
    PROVE  Moves(r, o, a)
  BY DEF Moves

\* An alert about something else does not disturb it either, ...
LEMMA MovesPost ==
    ASSUME NEW q, NEW o, NEW a, Moves(q, o, a), NEW x \in Alert, ~IsMoveAlert(x),
           x.type \in {"status", "resume"} => x.path \in Path
    PROVE  Moves(q, o, a \o <<x>>)
  <1>1. a \in Seq(Alert) /\ <<x>> \in Seq(Alert)
    BY DEF Moves
  <1>2. Len(<<x>>) = 1 /\ DOMAIN <<x>> = {1} /\ <<x>>[1] = x
    OBVIOUS
  <1> DEFINE b == a \o <<x>>
  <1>3. /\ b \in Seq(Alert)
        /\ \A i \in DOMAIN b : \/ i \in DOMAIN a /\ b[i] = a[i]
                               \/ b[i] = x
    BY <1>1, <1>2, ConcatElements
  <1>4. x.type # "moved" /\ x.type # "move_failed"
    BY DEF IsMoveAlert
  <1> HIDE DEF b
  <1> QED
    BY <1>3, <1>4 DEF Moves, IsMoveAlert, b

\* ... nor does handling one.
LEMMA MovesPop ==
    ASSUME NEW q, NEW o, NEW a, Moves(q, o, a), a # <<>>, ~IsMoveAlert(Head(a))
    PROVE  Moves(q, o, Tail(a))
  <1>1. a \in Seq(Alert)
    BY DEF Moves
  <1> DEFINE b == Tail(a)
  <1>2. /\ b \in Seq(Alert)
        /\ \A i \in DOMAIN b : i+1 \in DOMAIN a /\ b[i] = a[i+1]
    BY <1>1, TailElements
  <1>3. \A i, j \in DOMAIN b : IsMoveAlert(b[i]) /\ IsMoveAlert(b[j]) => i+1 = j+1
    BY <1>2 DEF Moves
  <1>4. DOMAIN b \subseteq Nat
    BY <1>2, LenProperties
  <1>5. \A i, j \in DOMAIN b : IsMoveAlert(b[i]) /\ IsMoveAlert(b[j]) => i = j
    BY <1>3, <1>4
  <1> HIDE DEF b
  <1> QED
    BY <1>2, <1>5 DEF Moves, b

\* When nothing is being executed or answered, the first job may be started.
LEMMA MovesStart ==
    ASSUME NEW q, NEW a, Moves(q, {}, a), \A i \in DOMAIN a : ~IsMoveAlert(a[i]),
           q # <<>>, NEW o, NEW s, Starts(Head(q), o, s)
    PROVE  Moves(q, o, a \o s)
  <1>1. a \in Seq(Alert) /\ q \in Seq(MoveStorageJob)
    BY DEF Moves
  <1>2. Head(q) \in MoveStorageJob
    BY <1>1, TailElements
  <1>3. CASE s = <<>>
    <2>1. a \o s = a
      BY <1>1, <1>3, ConcatEmptySeq
    <2>2. o \subseteq [handle : Handle, path : Path]
      BY <1>2 DEF Starts, MoveStorageJob
    <2>3. \A m \in o : Head(q).handle = m.handle /\ Head(q).path = m.path
      BY DEF Starts
    <2> QED
      BY <2>1, <2>2, <2>3 DEF Moves
  <1>4. CASE s = <<Posted("move_failed", Head(q).handle, NoPath)>> /\ o = {}
    <2> DEFINE x == Posted("move_failed", Head(q).handle, NoPath)
               b == a \o <<x>>
    <2>1. x \in Alert
      BY <1>2 DEF Posted, Alert, MoveStorageJob, MaybePath
    <2>2. x.type = "move_failed" /\ x.handle = Head(q).handle
      BY DEF Posted
    <2> HIDE DEF x
    <2>3. Len(<<x>>) = 1 /\ DOMAIN <<x>> = {1} /\ <<x>>[1] = x /\ <<x>> \in Seq(Alert)
      BY <2>1
    <2>4. /\ b \in Seq(Alert)
          /\ \A i \in DOMAIN b : \/ i \in DOMAIN a /\ b[i] = a[i]
                                 \/ i - Len(a) = 1 /\ b[i] = x
      BY <1>1, <2>3, ConcatElements
    <2>5. Len(a) \in Nat /\ DOMAIN b \subseteq Nat
      BY <1>1, <2>4, LenProperties
    <2> HIDE DEF b
    <2>6. \A i, j \in DOMAIN b : IsMoveAlert(b[i]) /\ IsMoveAlert(b[j]) => i = j
      BY <2>4, <2>5
    <2> QED
      BY <1>4, <2>2, <2>4, <2>6 DEF Moves, IsMoveAlert, b, x
  <1> QED
    BY <1>3, <1>4 DEF Starts

\* The end of a disk move is answered by one alert.
LEMMA MovesAnswer ==
    ASSUME NEW q, NEW o, NEW a, Moves(q, o, a), NEW m \in o, NEW x \in Alert,
           IsMoveAlert(x), x.handle = m.handle, x.type = "moved" => x.path = m.path
    PROVE  Moves(q, o \ {m}, a \o <<x>>)
  <1>1. a \in Seq(Alert) /\ <<x>> \in Seq(Alert) /\ m \in [handle : Handle, path : Path]
    BY DEF Moves
  <1>2. Len(<<x>>) = 1 /\ DOMAIN <<x>> = {1} /\ <<x>>[1] = x
    OBVIOUS
  <1> DEFINE b == a \o <<x>>
  <1>3. /\ b \in Seq(Alert)
        /\ \A i \in DOMAIN b : \/ i \in DOMAIN a /\ b[i] = a[i]
                               \/ i - Len(a) = 1 /\ b[i] = x
    BY <1>1, <1>2, ConcatElements
  <1>4. Len(a) \in Nat /\ DOMAIN b \subseteq Nat
    BY <1>1, <1>3, LenProperties
  <1>5. \A i \in DOMAIN a : ~IsMoveAlert(a[i])
    BY DEF Moves
  <1>6. o \ {m} = {}
    <2>1. \A n \in o : n = m
      BY DEF Moves
    <2> QED
      BY <2>1
  <1> HIDE DEF b
  <1>7. \A i, j \in DOMAIN b : IsMoveAlert(b[i]) /\ IsMoveAlert(b[j]) => i = j
    BY <1>3, <1>4, <1>5
  <1>8. \A i \in DOMAIN b : IsMoveAlert(b[i]) =>
            /\ q # <<>>
            /\ Head(q).handle = b[i].handle
            /\ b[i].type = "moved" => Head(q).path = b[i].path
    BY <1>3, <1>5 DEF Moves
  <1>9. \A i \in DOMAIN b : b[i].type \in {"moved", "status", "resume"} => b[i].path \in Path
    BY <1>1, <1>3 DEF Moves, IsMoveAlert
  <1> QED
    BY <1>3, <1>6, <1>7, <1>8, <1>9 DEF Moves, b

\* The answer is about the first job, and once it is taken nothing is being
\* executed or answered, whatever the queue.
LEMMA MovesFinish ==
    ASSUME NEW q, NEW o, NEW a, Moves(q, o, a), a # <<>>, IsMoveAlert(Head(a))
    PROVE  /\ q # <<>>
           /\ Head(a).type = "moved" => Head(a).path \in Path
           /\ o = {}
           /\ Tail(q) \in Seq(MoveStorageJob)
           /\ \A i \in DOMAIN Tail(a) : ~IsMoveAlert(Tail(a)[i])
           /\ \A r \in Seq(MoveStorageJob) : Moves(r, {}, Tail(a))
  <1>1. a \in Seq(Alert) /\ q \in Seq(MoveStorageJob)
    BY DEF Moves
  <1> DEFINE b == Tail(a)
  <1>2. /\ b \in Seq(Alert)
        /\ 1 \in DOMAIN a /\ Head(a) = a[1]
        /\ \A i \in DOMAIN b : i+1 \in DOMAIN a /\ i+1 # 1 /\ b[i] = a[i+1]
    BY <1>1, TailElements
  <1>3. q # <<>> /\ o = {} /\ (Head(a).type = "moved" => Head(a).path \in Path)
    BY <1>2 DEF Moves
  <1>4. \A i \in DOMAIN b : ~IsMoveAlert(b[i])
    BY <1>2 DEF Moves
  <1>5. Tail(q) \in Seq(MoveStorageJob)
    BY <1>1, <1>3, TailElements
  <1> HIDE DEF b
  <1>6. \A r \in Seq(MoveStorageJob) : Moves(r, {}, b)
    BY <1>2, <1>4 DEF Moves
  <1> QED
    BY <1>3, <1>4, <1>5, <1>6 DEF b

-----------------------------------------------------------------------------
(* The invariant, and what the requests for moves do to its parts.         *)

\* The part of TypeOK that is about the session's own variables.  Finitely many
\* torrents are registered, so the exit can count them.
Session ==
    /\ torrents \subseteq Torrent /\ IsFiniteSet(torrents)
    /\ tor \in [Torrent -> TorrentRec]
    /\ \A t \in torrents : tor[t] \in RegisteredRec
    /\ removing \in [Torrent -> RemovingRec]
    /\ pendingFinished \subseteq Torrent
    /\ numResume \in Int
    /\ stored \in [Torrent -> StoredRec]
    /\ phase \in {"running", "draining", "stopped"}

\* The inductive invariant.
Inv == Session /\ NativeLocated(native) /\ Moves(queue, ops, alerts)

\* Taking the inactive job of a torrent off m_moveStorageQueue keeps its first job.
LEMMA WithoutInactiveHead ==
    ASSUME queue \in Seq(MoveStorageJob), NEW h
    PROVE  /\ WithoutInactive(h) \in Seq(MoveStorageJob)
           /\ queue # <<>> => /\ WithoutInactive(h) # <<>>
                              /\ Head(WithoutInactive(h)) = Head(queue)
           /\ queue = <<>> => WithoutInactive(h) = <<>>
  <1>1. Len(queue) \in Nat
    BY LenProperties
  <1>2. CASE InactiveJobs(h) = {}
    BY <1>2 DEF WithoutInactive
  <1>3. CASE InactiveJobs(h) # {}
    <2>1. InactiveJobs(h) \subseteq 2..Len(queue)
      BY DEF InactiveJobs
    <2>2. InactiveJobs(h) \subseteq Nat
      BY <1>1, <2>1
    <2>3. \E i \in InactiveJobs(h) : \A j \in InactiveJobs(h) : i <= j
      BY <1>3, <2>2, SmallestExists
    <2>4. FirstInactive(h) \in InactiveJobs(h)
      BY <2>3, Zenon DEF FirstInactive
    <2>5. FirstInactive(h) \in 2..Len(queue)
      BY <2>1, <2>4
    <2>6. WithoutInactive(h) = RemoveAt(queue, FirstInactive(h))
      BY <1>3 DEF WithoutInactive
    <2>7. Len(queue) # 0
      BY <1>1, <2>5
    <2>8. queue # <<>>
      BY <2>7
    <2> QED
      BY <2>5, <2>6, <2>8, RemoveAtKeepsHead
  <1> QED
    BY <1>2, <1>3

\* A torrent stays one with known paths when its queued move is cancelled ...
LEMMA CancelledType ==
    ASSUME NEW rec \in RegisteredRec
    PROVE  Cancelled(rec) \in RegisteredRec /\ Cancelled(rec).handle = rec.handle
  <1>1. HasActiveJob(rec.handle) \in BOOLEAN
    BY DEF HasActiveJob
  <1>2. rec.location \in Path
    BY DEF RegisteredRec
  <1> QED
    BY <1>1, <1>2, MoveRecordedType DEF Cancelled

\* ... and when it is asked to move (TorrentImpl::moveStorage).
LEMMA MoveRequestedType ==
    ASSUME NEW rec \in RegisteredRec, NEW newPath, NEW f \in Handle
    PROVE  MoveRequested(rec, newPath, f) \in RegisteredRec
  <1> DEFINE kept == IF CancelReloads(rec) THEN Reloaded(Cancelled(rec), f) ELSE Cancelled(rec)
  <1>1. kept \in RegisteredRec
    BY CancelledType, ReloadedType
  <1> HIDE DEF kept
  <1>2. [kept EXCEPT !.moving = TRUE] \in RegisteredRec
    BY <1>1 DEF RegisteredRec, TorrentRec
  <1> QED
    BY <1>1, <1>2 DEF MoveRequested, kept

\* moveStorage either queues the job behind others or starts it.
LEMMA EnqueueMoveMoves ==
    ASSUME NativeLocated(native), Moves(queue, ops, alerts),
           NEW rec \in RegisteredRec, NEW newPath \in Path, NEW context \in Context,
           NEW f \in Handle, EnqueueMove(rec, newPath, context, f)
    PROVE  NativeLocated(native') /\ Moves(queue', ops', alerts')
  <1> DEFINE job == [handle |-> rec.handle, path |-> newPath, context |-> context]
             rest == WithoutInactive(rec.handle)
  <1>1. NativeLocated(native')
    BY CancelledType, NativeReloadedType DEF EnqueueMove
  <1>2. job \in MoveStorageJob
    BY DEF MoveStorageJob, RegisteredRec
  <1>3. /\ rest \in Seq(MoveStorageJob)
        /\ queue # <<>> => rest # <<>> /\ Head(rest) = Head(queue)
        /\ queue = <<>> => rest = <<>>
    BY WithoutInactiveHead DEF Moves
  <1>4. \/ queue' = rest /\ ops' = ops /\ alerts' = alerts
        \/ rest # <<>> /\ queue' = Append(rest, job) /\ ops' = ops /\ alerts' = alerts
        \/ /\ rest = <<>> /\ queue' = Append(rest, job)
           /\ ops' = ops \cup StartedOps(job) /\ alerts' = alerts \o StartAlerts(job)
    BY DEF EnqueueMove
  <1>5. Starts(job, StartedOps(job), StartAlerts(job))
    BY DEF Starts, StartedOps, StartAlerts, Posted
  <1> HIDE DEF job, rest
  <1>6. Append(rest, job) \in Seq(MoveStorageJob) /\ Append(rest, job) # <<>>
    BY <1>2, <1>3, AppendProperties
  <1>7. CASE queue' = rest /\ ops' = ops /\ alerts' = alerts
    BY <1>1, <1>3, <1>7, MovesBehindHead
  <1>8. CASE rest # <<>> /\ queue' = Append(rest, job) /\ ops' = ops /\ alerts' = alerts
    <2>1. Head(Append(rest, job)) = Head(rest)
      BY <1>2, <1>3, <1>8, HeadTailAppend
    <2> QED
      BY <1>1, <1>3, <1>6, <1>8, <2>1, MovesBehindHead
  <1>9. CASE /\ rest = <<>> /\ queue' = Append(rest, job)
             /\ ops' = ops \cup StartedOps(job) /\ alerts' = alerts \o StartAlerts(job)
    <2>1. queue = <<>>
      BY <1>3, <1>9
    <2>2. ops = {} /\ \A i \in DOMAIN alerts : ~IsMoveAlert(alerts[i])
      BY <2>1 DEF Moves
    <2>3. Head(Append(rest, job)) = job
      BY <1>2, <1>9, HeadTailAppend
    <2>4. Moves(Append(rest, job), {}, alerts)
      BY <1>6, <2>1, <2>2, MovesBehindHead
    <2>5. ops' = StartedOps(job)
      BY <1>9, <2>2
    <2> QED
      BY <1>1, <1>5, <1>6, <1>9, <2>2, <2>3, <2>4, <2>5, MovesStart
  <1> QED
    BY <1>1, <1>4, <1>7, <1>8, <1>9

\* A torrent whose storage location is adjusted has known paths before and after.
LEMMA AdjustedType ==
    ASSUME NEW rec \in RegisteredRec, NEW f \in Handle
    PROVE  /\ Promoted(rec) \in RegisteredRec
           /\ Adjusted(rec, f) \in RegisteredRec
           /\ AdjustTarget(rec) \in Path
  <1>1. Promoted(rec) \in RegisteredRec
    BY DEF Promoted, RegisteredRec, TorrentRec
  <1>2. Adjusted(rec, f) \in RegisteredRec
    BY MoveRequestedType DEF Adjusted
  <1>3. AdjustTarget(rec) \in Path
    BY DEF AdjustTarget, ShouldUseDownloadPath, RegisteredRec, TorrentRec, MaybePath
  <1> QED
    BY <1>1, <1>2, <1>3

\* adjustStorageLocation queues or starts at most one move.
LEMMA EnqueueAdjustMoves ==
    ASSUME NativeLocated(native), Moves(queue, ops, alerts),
           NEW rec \in RegisteredRec, NEW f \in Handle, EnqueueAdjust(rec, f)
    PROVE  NativeLocated(native') /\ Moves(queue', ops', alerts')
  <1>1. CASE NeedsAdjust(rec)
    <2>1. EnqueueMove(rec, AdjustTarget(rec), "AdjustCurrentLocation", f)
      BY <1>1 DEF EnqueueAdjust
    <2>2. AdjustTarget(rec) \in Path /\ "AdjustCurrentLocation" \in Context
      BY AdjustedType DEF Context
    <2> QED
      BY <2>1, <2>2, EnqueueMoveMoves
  <1>2. CASE ~NeedsAdjust(rec)
    BY <1>2 DEF EnqueueAdjust
  <1> QED
    BY <1>1, <1>2

\* The native object a handler ends up with is one of libtorrent's.
LEMMA HandlesForType ==
    ASSUME NEW rec \in RegisteredRec, NEW reloads
    PROVE  HandlesFor(rec, reloads) \subseteq Handle
  BY DEF HandlesFor, Unused, RegisteredRec

\* The end of the first job starts the next one, if there is one
\* (handleMoveTorrentStorageJobFinished).
LEMMA FinishHeadJobMoves ==
    ASSUME Moves(queue, ops, alerts), alerts # <<>>, IsMoveAlert(Head(alerts)),
           NEW newPath, FinishHeadJob(newPath)
    PROVE  Moves(queue', ops', alerts')
  <1> DEFINE rest == Tail(queue)
  <1>1. /\ queue # <<>> /\ ops = {} /\ rest \in Seq(MoveStorageJob)
        /\ \A i \in DOMAIN Tail(alerts) : ~IsMoveAlert(Tail(alerts)[i])
        /\ Moves(rest, {}, Tail(alerts))
    BY MovesFinish
  <1>2. Tail(alerts) \in Seq(Alert)
    BY <1>1 DEF Moves
  <1>3. CASE rest = <<>>
    <2>1. queue' = rest /\ ops' = ops /\ alerts' = Tail(alerts) \o <<>>
      BY <1>3 DEF FinishHeadJob
    <2>2. Tail(alerts) \o <<>> = Tail(alerts)
      BY <1>2, ConcatEmptySeq
    <2> QED
      BY <1>1, <2>1, <2>2
  <1>4. CASE rest # <<>>
    <2>1. /\ queue' = rest /\ ops' = ops \cup StartedOps(Head(rest))
          /\ alerts' = Tail(alerts) \o StartAlerts(Head(rest))
      BY <1>4 DEF FinishHeadJob
    <2>2. Starts(Head(rest), StartedOps(Head(rest)), StartAlerts(Head(rest)))
      BY DEF Starts, StartedOps, StartAlerts, Posted
    <2>3. ops' = StartedOps(Head(rest))
      BY <1>1, <2>1
    <2> HIDE DEF rest
    <2> QED
      BY <1>1, <1>4, <2>1, <2>2, <2>3, MovesStart
  <1> QED
    BY <1>3, <1>4

\* Recording the end of a move keeps the session and libtorrent's torrents typed.
LEMMA FinishHeadJobSession ==
    ASSUME Session, NativeLocated(native), queue \in Seq(MoveStorageJob), queue # <<>>,
           NEW newPath, OwnerOf(Head(queue).handle) \in torrents => newPath \in Path,
           FinishHeadJob(newPath), UNCHANGED <<torrents, numResume, stored, phase>>
    PROVE  Session' /\ NativeLocated(native')
  <1> DEFINE job == Head(queue)
             rest == Tail(queue)
             id == OwnerOf(job.handle)
             outstanding == HasOutstanding(rest, job.handle)
             registered == id \in torrents
             reloads == registered /\ ReloadsAfterMove(tor[id], outstanding)
             notifies == registered /\ NotifiesAfterMove(tor[id], outstanding)
             done == MoveRecorded(tor[id], newPath, job.context, outstanding)
  <1>1. job \in MoveStorageJob
    BY TailElements
  <1>2. id \in Torrent \cup {NoTorrent}
    BY <1>1 DEF OwnerOf, MoveStorageJob, NativeLocated, NativeRec
  <1>3. outstanding \in BOOLEAN
    BY DEF HasOutstanding
  <1>4. registered => done \in RegisteredRec
    BY <1>3, MoveRecordedType DEF Session
  <1>5. \/ UNCHANGED <<tor, native, removing>> /\ pendingFinished' = Announced({})
        \/ /\ pendingFinished' = Announced({u \in {id} : notifies})
           /\ registered
           /\ \E f \in HandlesFor(tor[id], reloads) :
                /\ tor' = [tor EXCEPT ![id] = IF reloads THEN Reloaded(done, f) ELSE done]
                /\ native' = IF reloads THEN NativeReloaded(native, done, f) ELSE native
           /\ UNCHANGED removing
        \/ /\ pendingFinished' = Announced({u \in {id} : notifies})
           /\ ~registered
           /\ UNCHANGED <<tor, native, removing>>
        \/ /\ pendingFinished' = Announced({u \in {id} : notifies})
           /\ ~registered /\ id # NoTorrent
           /\ UNCHANGED tor
           /\ removing' = [removing EXCEPT ![id] =
                  IF removing[id].option = "none"
                  THEN [NotRemoving EXCEPT !.option = "KeepContent"] ELSE removing[id]]
           /\ native' \in {native, Closed(native, job.handle)}
    BY DEF FinishHeadJob
  <1>6. pendingFinished' \subseteq Torrent
    <2>1. {u \in {id} : notifies} \subseteq Torrent
      BY DEF Session
    <2>2. \A new : new \subseteq Torrent => Announced(new) \subseteq Torrent
      BY DEF Announced, Session
    <2> HIDE DEF notifies, id
    <2> QED
      BY <1>5, <2>1, <2>2
  <1> HIDE DEF job, rest, id, outstanding, reloads, notifies, done
  <1>7. ASSUME UNCHANGED <<tor, native, removing>>
        PROVE  Session' /\ NativeLocated(native')
    BY <1>6, <1>7 DEF Session
  <1>8. ASSUME registered, UNCHANGED removing,
               NEW f \in HandlesFor(tor[id], reloads),
               tor' = [tor EXCEPT ![id] = IF reloads THEN Reloaded(done, f) ELSE done],
               native' = IF reloads THEN NativeReloaded(native, done, f) ELSE native
        PROVE  Session' /\ NativeLocated(native')
    <2>1. tor[id] \in RegisteredRec
      BY <1>8 DEF Session
    <2>2. f \in Handle
      BY <2>1, <1>8, HandlesForType
    <2>3. (IF reloads THEN Reloaded(done, f) ELSE done) \in RegisteredRec
      BY <1>4, <1>8, <2>2, ReloadedType
    <2>4. NativeLocated(native')
      BY <1>4, <1>8, <2>2, NativeReloadedType
    <2>5. RegisteredRec \subseteq TorrentRec
      BY DEF RegisteredRec
    <2> QED
      BY <1>6, <1>8, <2>3, <2>4, <2>5 DEF Session
  <1>9. ASSUME ~registered, id # NoTorrent, UNCHANGED tor,
               removing' = [removing EXCEPT ![id] =
                  IF removing[id].option = "none"
                  THEN [NotRemoving EXCEPT !.option = "KeepContent"] ELSE removing[id]],
               native' \in {native, Closed(native, job.handle)}
        PROVE  Session' /\ NativeLocated(native')
    <2>1. NativeLocated(native')
      BY <1>1, <1>9, ClosedType DEF MoveStorageJob
    <2>2. id \in Torrent
      BY <1>2, <1>9
    <2>3. [NotRemoving EXCEPT !.option = "KeepContent"] \in RemovingRec
      BY DEF NotRemoving, RemovingRec, MaybePath
    <2>4. removing' \in [Torrent -> RemovingRec]
      BY <1>9, <2>2, <2>3 DEF Session
    <2> QED
      BY <1>6, <1>9, <2>1, <2>4 DEF Session
  <1> QED
    BY <1>5, <1>7, <1>8, <1>9

-----------------------------------------------------------------------------
(* Every step keeps the invariant.                                         *)

\* The session starts with no torrents, nothing queued and nothing posted.
LEMMA InitInv == Init => Inv
  <1> SUFFICES ASSUME Init PROVE Inv
    OBVIOUS
  <1>1. Session
    <2>1. IsFiniteSet(torrents)
      BY FS_EmptySet DEF Init
    <2>2. Blank \in TorrentRec /\ NotRemoving \in RemovingRec /\ NotStored \in StoredRec
      BY DEF Blank, TorrentRec, NotRemoving, RemovingRec, NotStored, StoredRec, MaybePath
    <2> QED
      BY <2>1, <2>2 DEF Init, Session
  <1>2. NativeLocated(native)
    BY DEF Init, NativeLocated, NativeRec, MaybePath
  <1>3. Moves(queue, ops, alerts)
    BY DEF Init, Moves
  <1> QED
    BY <1>1, <1>2, <1>3 DEF Inv

\* What the user and the torrents themselves ask for (addTorrent, setSavePath,
\* setDownloadPath, adjustStorageLocation, start, removeTorrent) keeps it.
LEMMA RequestInv == Inv /\ Request => Inv'
  <1> SUFFICES ASSUME Inv, Request PROVE Inv'
    OBVIOUS
  <1> USE DEF Inv
  <1>1. ASSUME NEW t \in Torrent, NEW l \in Layouts, NEW restored \in BOOLEAN,
               NEW h \in Handle, AddTorrent(t, l, restored, h)
        PROVE  Inv'
    <2>1. /\ l.savePath \in Path /\ l.downloadPath \in MaybePath /\ l.location \in Path
          /\ h \in Handle
      BY ParameterAssumption DEF MaybePath
    <2> DEFINE rec == [Blank EXCEPT
                    !.handle = h, !.savePath = l.savePath,
                    !.downloadPath = l.downloadPath,
                    !.location = l.location, !.paramsPath = l.location,
                    !.finishedStorage = l.location = l.savePath]
               obj == [NewNative(t, l.location, ~restored) EXCEPT
                        !.requests = IF restored THEN 0 ELSE 1]
    <2>2. rec \in RegisteredRec
      BY <2>1 DEF Blank, RegisteredRec, TorrentRec, MaybePath
    <2>3. obj \in NativeRec /\ obj.location \in Path
      <3>1. NewNative(t, l.location, ~restored) \in NativeRec
        BY <2>1 DEF NewNative, NativeRec, MaybePath
      <3>2. NewNative(t, l.location, ~restored).location = l.location
        BY DEF NewNative
      <3> QED
        BY <2>1, <3>1, <3>2 DEF NativeRec
    <2>4. [savePath |-> l.savePath, location |-> l.location] \in StoredRec
      BY <2>1 DEF StoredRec, MaybePath
    <2> HIDE DEF rec, obj
    <2>5. IsFiniteSet(torrents')
      BY <1>1, FS_AddElement DEF AddTorrent, Session
    <2>6. tor' = [tor EXCEPT ![t] = rec] /\ native' = [native EXCEPT ![h] = obj]
      BY <1>1 DEF AddTorrent, rec, obj
    <2>7. NativeLocated(native')
      BY <2>3, <2>6 DEF NativeLocated
    <2>8. RegisteredRec \subseteq TorrentRec
      BY DEF RegisteredRec
    <2>9. tor' \in [Torrent -> TorrentRec] /\ \A u \in torrents' : tor'[u] \in RegisteredRec
      BY <1>1, <2>2, <2>6, <2>8 DEF AddTorrent, Session
    <2>10. Session'
      BY <1>1, <2>4, <2>5, <2>9 DEF AddTorrent, Session
    <2> QED
      BY <1>1, <2>7, <2>10 DEF AddTorrent
  <1>2. ASSUME NEW t \in Torrent, NEW path \in Path, SetSavePath(t, path)
        PROVE  Inv'
    <2>1. tor[t] \in RegisteredRec
      BY <1>2 DEF SetSavePath, Running, Session
    <2>2. CASE ShouldUseDownloadPath(tor[t])
      <3>1. [tor[t] EXCEPT !.savePath = path, !.deferred = TRUE] \in RegisteredRec
        BY <2>1 DEF RegisteredRec, TorrentRec, MaybePath
      <3>2. tor' = [tor EXCEPT ![t] = [tor[t] EXCEPT !.savePath = path, !.deferred = TRUE]]
        BY <1>2, <2>2 DEF SetSavePath
      <3>3. Session'
        BY <1>2, <2>2, <3>1, <3>2 DEF SetSavePath, Session, RegisteredRec
      <3> QED
        BY <1>2, <2>2, <3>3 DEF SetSavePath
    <2>3. CASE ~ShouldUseDownloadPath(tor[t])
      <3>1. PICK f \in HandlesFor(tor[t], CancelReloads(tor[t])) :
                /\ tor' = [tor EXCEPT ![t] = MoveRequested(tor[t], path, f)]
                /\ EnqueueMove(tor[t], path, "ChangeSavePath", f)
                /\ pendingFinished' = pendingFinished \cup {u \in {t} : CancelNotifies(tor[t])}
        BY <1>2, <2>3 DEF SetSavePath
      <3>2. f \in Handle
        BY <2>1, HandlesForType
      <3>3. MoveRequested(tor[t], path, f) \in RegisteredRec
        BY <2>1, <3>2, MoveRequestedType
      <3>4. NativeLocated(native') /\ Moves(queue', ops', alerts')
        BY <2>1, <3>1, <3>2, EnqueueMoveMoves DEF Context
      <3>5. Session'
        BY <1>2, <3>1, <3>3 DEF SetSavePath, Session, RegisteredRec
      <3> QED
        BY <3>4, <3>5
    <2> QED
      BY <2>2, <2>3
  <1>3. ASSUME NEW t \in Torrent, NEW path \in MaybePath, SetDownloadPath(t, path)
        PROVE  Inv'
    <2> DEFINE target == IF path = NoPath THEN tor[t].savePath ELSE path
    <2>1. tor[t] \in RegisteredRec
      BY <1>3 DEF SetDownloadPath, Running, Session
    <2>2. target \in Path
      BY <2>1 DEF MaybePath, RegisteredRec
    <2>3. CASE ~ShouldUseDownloadPath(tor[t])
      <3>1. [tor[t] EXCEPT !.downloadPath = path, !.deferred = TRUE] \in RegisteredRec
        BY <2>1 DEF RegisteredRec, TorrentRec, MaybePath
      <3>2. tor' = [tor EXCEPT ![t] =
                        [tor[t] EXCEPT !.downloadPath = path, !.deferred = TRUE]]
        BY <1>3, <2>3 DEF SetDownloadPath
      <3>3. Session'
        BY <1>3, <2>3, <3>1, <3>2 DEF SetDownloadPath, Session, RegisteredRec
      <3> QED
        BY <1>3, <2>3, <3>3 DEF SetDownloadPath
    <2>4. CASE ShouldUseDownloadPath(tor[t])
      <3>1. PICK f \in HandlesFor(tor[t], CancelReloads(tor[t])) :
                /\ tor' = [tor EXCEPT ![t] = MoveRequested(tor[t], target, f)]
                /\ EnqueueMove(tor[t], target, "ChangeDownloadPath", f)
                /\ pendingFinished' = pendingFinished \cup {u \in {t} : CancelNotifies(tor[t])}
        BY <1>3, <2>4 DEF SetDownloadPath
      <3>2. f \in Handle
        BY <2>1, HandlesForType
      <3> HIDE DEF target
      <3>3. MoveRequested(tor[t], target, f) \in RegisteredRec
        BY <2>1, <3>2, MoveRequestedType
      <3>4. NativeLocated(native') /\ Moves(queue', ops', alerts')
        BY <2>1, <2>2, <3>1, <3>2, EnqueueMoveMoves DEF Context
      <3>5. Session'
        BY <1>3, <3>1, <3>3 DEF SetDownloadPath, Session, RegisteredRec
      <3> QED
        BY <3>4, <3>5
    <2> QED
      BY <2>3, <2>4
  <1>4. ASSUME NEW t \in Torrent, TorrentFinished(t)
        PROVE  Inv'
    <2> DEFINE rec == Promoted([tor[t] EXCEPT !.missing = FALSE, !.recovered = FALSE, !.finished = TRUE])
    <2>1. tor[t] \in RegisteredRec
      BY <1>4 DEF TorrentFinished, Running, Session
    <2>2. [tor[t] EXCEPT !.missing = FALSE, !.recovered = FALSE, !.finished = TRUE] \in RegisteredRec
      BY <2>1 DEF RegisteredRec, TorrentRec
    <2>3. rec \in RegisteredRec
      BY <2>1, <2>2, AdjustedType, HandlesForType DEF RegisteredRec
    <2> DEFINE moved(f) == [Adjusted(rec, f) EXCEPT !.deferred = TRUE]
    <2>4. PICK f \in HandlesFor(rec, AdjustReloads(rec)) :
              /\ tor' = [tor EXCEPT ![t] = [moved(f) EXCEPT !.notify = moved(f).moving]]
              /\ EnqueueAdjust(rec, f)
      BY <1>4 DEF TorrentFinished
    <2> HIDE DEF rec
    <2>5. f \in Handle
      BY <2>3, HandlesForType
    <2>6. Adjusted(rec, f) \in RegisteredRec
      BY <2>3, <2>5, AdjustedType
    <2>7. [moved(f) EXCEPT !.notify = moved(f).moving] \in RegisteredRec
      BY <2>6 DEF RegisteredRec, TorrentRec
    <2>8. NativeLocated(native') /\ Moves(queue', ops', alerts')
      BY <2>3, <2>4, <2>5, EnqueueAdjustMoves
    <2> HIDE DEF moved
    <2>9. Session'
      BY <1>4, <2>4, <2>7 DEF TorrentFinished, Session, RegisteredRec
    <2> QED
      BY <2>8, <2>9
  <1>5. ASSUME NEW t \in Torrent, NEW complete \in BOOLEAN, TorrentChecked(t, complete)
        PROVE  Inv'
    <2> DEFINE rec == Promoted([tor[t] EXCEPT !.finished = complete])
               dirty == native[tor[t].handle].dirty
    <2>1. tor[t] \in RegisteredRec
      BY <1>5 DEF TorrentChecked, Running, Session
    <2>2. [tor[t] EXCEPT !.finished = complete] \in RegisteredRec
      BY <2>1 DEF RegisteredRec, TorrentRec
    <2>3. rec \in RegisteredRec
      BY <2>1, <2>2, AdjustedType, HandlesForType DEF RegisteredRec
    <2>4. CASE tor[t].missing
      <3> DEFINE new == [tor[t] EXCEPT !.deferred = @ \/ dirty]
      <3>1. tor' = [tor EXCEPT ![t] = new] /\ UNCHANGED <<queue, native, ops, alerts>>
        BY <1>5, <2>4 DEF TorrentChecked
      <3>2. new \in RegisteredRec
        <4>1. (tor[t].deferred \/ dirty) \in BOOLEAN
          OBVIOUS
        <4> QED
          BY <2>1, <4>1 DEF RegisteredRec, TorrentRec
      <3> HIDE DEF new
      <3>3. Session'
        BY <1>5, <3>1, <3>2 DEF TorrentChecked, Session, RegisteredRec
      <3> QED
        BY <3>1, <3>3
    <2>5. CASE ~tor[t].missing
      <3>1. PICK f \in HandlesFor(rec, AdjustReloads(rec)) :
                /\ tor' = [tor EXCEPT ![t] = [Adjusted(rec, f) EXCEPT !.deferred = @ \/ dirty]]
                /\ EnqueueAdjust(rec, f)
        BY <1>5, <2>5 DEF TorrentChecked
      <3> HIDE DEF rec
      <3>2. f \in Handle
        BY <2>3, HandlesForType
      <3>3. Adjusted(rec, f) \in RegisteredRec
        BY <2>3, <3>2, AdjustedType
      <3>4. [Adjusted(rec, f) EXCEPT !.deferred = @ \/ dirty] \in RegisteredRec
        <4>1. (Adjusted(rec, f).deferred \/ dirty) \in BOOLEAN
          OBVIOUS
        <4> QED
          BY <3>3, <4>1 DEF RegisteredRec, TorrentRec
      <3>5. NativeLocated(native') /\ Moves(queue', ops', alerts')
        BY <2>3, <3>1, <3>2, EnqueueAdjustMoves
      <3> HIDE DEF dirty
      <3>6. Session'
        BY <1>5, <3>1, <3>4 DEF TorrentChecked, Session, RegisteredRec
      <3> QED
        BY <3>5, <3>6
    <2> QED
      BY <2>4, <2>5
  <1>6. ASSUME NEW t \in Torrent, StartMissing(t)
        PROVE  Inv'
    <2> DEFINE rec == [tor[t] EXCEPT !.missing = FALSE, !.recovered = FALSE]
               recovered == tor[t].recovered
    <2>1. tor[t] \in RegisteredRec
      BY <1>6 DEF StartMissing, Running, Session
    <2>2. rec \in RegisteredRec
      BY <2>1 DEF RegisteredRec, TorrentRec
    <2>3. PICK f \in HandlesFor(rec, ~recovered) :
            IF recovered
            THEN /\ tor' = [tor EXCEPT ![t] = [rec EXCEPT !.deferred = TRUE]]
                 /\ UNCHANGED native
            ELSE /\ tor' = [tor EXCEPT ![t] = Reloaded(rec, f)]
                 /\ native' = NativeReloaded(native, rec, f)
      BY <1>6 DEF StartMissing
    <2> HIDE DEF rec, recovered
    <2>4. f \in Handle
      BY <2>2, HandlesForType
    <2>5. [rec EXCEPT !.deferred = TRUE] \in RegisteredRec /\ Reloaded(rec, f) \in RegisteredRec
      BY <2>2, <2>4, ReloadedType DEF RegisteredRec, TorrentRec
    <2>6. NativeLocated(native')
      BY <2>2, <2>3, <2>4, NativeReloadedType
    <2>7. Session'
      BY <1>6, <2>3, <2>5 DEF StartMissing, Session, RegisteredRec
    <2> QED
      BY <1>6, <2>6, <2>7 DEF StartMissing
  <1>7. ASSUME NEW t \in Torrent, NEW option \in RemoveOptions, RemoveTorrent(t, option)
        PROVE  Inv'
    <2>1. tor[t] \in RegisteredRec
      BY <1>7 DEF RemoveTorrent, Session
    <2>2. /\ [option |-> option, path |-> tor[t].location] \in RemovingRec
          /\ Blank \in TorrentRec /\ NotStored \in StoredRec
      BY <2>1, ParameterAssumption
         DEF RemovingRec, RegisteredRec, Blank, TorrentRec, NotStored, StoredRec, MaybePath
    <2>3. IsFiniteSet(torrents')
      BY <1>7, FS_Subset DEF RemoveTorrent, Session
    <2>4. Session'
      BY <1>7, <2>2, <2>3 DEF RemoveTorrent, Session
    <2>5. NativeLocated(native')
      BY <1>7, <2>1, ClosedType DEF RemoveTorrent, RegisteredRec
    <2>6. Moves(queue', ops', alerts')
      <3>1. queue' \in {queue, WithoutInactive(tor[t].handle)} /\ ops' = ops /\ alerts' = alerts
        BY <1>7 DEF RemoveTorrent
      <3>2. /\ queue' \in Seq(MoveStorageJob)
            /\ queue # <<>> => queue' # <<>> /\ Head(queue') = Head(queue)
        BY <3>1, WithoutInactiveHead DEF Moves
      <3> QED
        BY <3>1, <3>2, MovesBehindHead
    <2> QED
      BY <2>4, <2>5, <2>6
  <1> QED
    BY <1>1, <1>2, <1>3, <1>4, <1>5, <1>6, <1>7 DEF Request

\* A handler of another alert takes it and leaves queue and disk moves alone.
LEMMA HandledMoves ==
    ASSUME Moves(queue, ops, alerts), alerts # <<>>, ~IsMoveAlert(Head(alerts)),
           queue' = queue, ops' = ops, alerts' = Tail(alerts)
    PROVE  Moves(queue', ops', alerts')
  BY MovesPop

\* readAlerts forgets the torrents it has announced.
LEMMA AnnouncedType ==
    ASSUME Session, NEW new, new \subseteq Torrent
    PROVE  Announced(new) \subseteq Torrent
  BY DEF Announced, Session

\* What the session's alert handlers do keeps the invariant.
LEMMA HandleAlertInv == Inv /\ HandleAlert => Inv'
  <1> SUFFICES ASSUME Inv, HandleAlert PROVE Inv'
    OBVIOUS
  <1> USE DEF Inv
  <1>1. Announced({}) \subseteq Torrent
    BY AnnouncedType
  <1>2. alerts # <<>> => /\ Head(alerts) \in Alert
                         /\ Head(alerts).type \in {"moved", "status", "resume"}
                            => Head(alerts).path \in Path
    <2>1. ASSUME alerts # <<>>
          PROVE  Head(alerts) \in Alert /\ Head(alerts) = alerts[1] /\ 1 \in DOMAIN alerts
      BY <2>1, TailElements DEF Moves
    <2> QED
      BY <2>1 DEF Moves
  <1>3. ASSUME HandleMoved
        PROVE  Inv'
    <2>1. alerts # <<>> /\ Head(alerts).type = "moved" /\ FinishHeadJob(Head(alerts).path)
          /\ UNCHANGED <<torrents, numResume, stored, phase>>
      BY <1>3 DEF HandleMoved, NextAlert
    <2>2. Head(alerts).path \in Path /\ queue # <<>> /\ queue \in Seq(MoveStorageJob)
      BY <1>2, <2>1, MovesFinish DEF IsMoveAlert, Moves
    <2>3. Moves(queue', ops', alerts')
      BY <2>1, FinishHeadJobMoves DEF IsMoveAlert
    <2>4. Session' /\ NativeLocated(native')
      BY <2>1, <2>2, FinishHeadJobSession
    <2> QED
      BY <2>3, <2>4
  <1>4. ASSUME HandleMoveFailed
        PROVE  Inv'
    <2> DEFINE h == Head(queue).handle
    <2>1. /\ alerts # <<>> /\ Head(alerts).type = "move_failed"
          /\ UNCHANGED <<torrents, numResume, stored, phase>>
      BY <1>4 DEF HandleMoveFailed, NextAlert
    <2>2. queue # <<>> /\ queue \in Seq(MoveStorageJob)
      BY <2>1, MovesFinish DEF IsMoveAlert, Moves
    <2>3. CASE /\ alerts' = Tail(alerts) /\ pendingFinished' = Announced({})
               /\ UNCHANGED <<tor, queue, removing, native, ops>>
      <3>1. Moves(queue', ops', alerts')
        <4>1. ops = {} /\ \A r \in Seq(MoveStorageJob) : Moves(r, {}, Tail(alerts))
          BY <2>1, MovesFinish DEF IsMoveAlert
        <4> QED
          BY <2>2, <2>3, <4>1
      <3>2. Session' /\ NativeLocated(native')
        BY <1>1, <2>1, <2>3 DEF Session
      <3> QED
        BY <3>1, <3>2
    <2>4. CASE FinishHeadJob(FailedLocation(h))
      <3>1. OwnerOf(h) \in torrents => FailedLocation(h) \in Path
        BY DEF FailedLocation, Session, RegisteredRec
      <3>2. Session' /\ NativeLocated(native')
        BY <2>1, <2>2, <2>4, <3>1, FinishHeadJobSession
      <3>3. Moves(queue', ops', alerts')
        BY <2>1, <2>4, FinishHeadJobMoves DEF IsMoveAlert
      <3> QED
        BY <3>2, <3>3
    <2> QED
      BY <1>4, <2>3, <2>4 DEF HandleMoveFailed
  <1>5. ASSUME HandleDeleted
        PROVE  Inv'
    <2>1. alerts # <<>> /\ ~IsMoveAlert(Head(alerts))
      BY <1>5 DEF HandleDeleted, NextAlert, IsMoveAlert
    <2>2. Moves(queue', ops', alerts')
      BY <1>5, <2>1, HandledMoves DEF HandleDeleted
    <2>3. removing' \in [Torrent -> RemovingRec]
      <3>1. NotRemoving \in RemovingRec
        BY DEF NotRemoving, RemovingRec, MaybePath
      <3> QED
        BY <1>5, <3>1 DEF HandleDeleted, Session
    <2> QED
      BY <1>1, <1>5, <2>2, <2>3 DEF HandleDeleted, Session
  <1>6. ASSUME HandleFastResumeRejected
        PROVE  Inv'
    <2> DEFINE id == OwnerOf(Head(alerts).handle)
    <2>1. alerts # <<>> /\ ~IsMoveAlert(Head(alerts))
      BY <1>6 DEF HandleFastResumeRejected, NextAlert, IsMoveAlert
    <2>2. Moves(queue', ops', alerts')
      BY <1>6, <2>1, HandledMoves DEF HandleFastResumeRejected
    <2>3. \/ UNCHANGED <<tor, native>>
          \/ /\ id \in torrents /\ UNCHANGED native
             /\ tor' = [tor EXCEPT ![id] = Rejected(tor[id])]
          \/ /\ id \in torrents
             /\ \E f \in Unused : /\ tor' = [tor EXCEPT ![id] = Recovered(tor[id], f)]
                                 /\ native' = NativeRecovered(native, tor[id], f)
      BY <1>6 DEF HandleFastResumeRejected
    <2>4. /\ pendingFinished' = Announced({})
          /\ UNCHANGED <<torrents, queue, removing, numResume, stored, phase, ops>>
      BY <1>6 DEF HandleFastResumeRejected
    <2> HIDE DEF id
    <2>5. ASSUME NEW rec \in RegisteredRec, id \in torrents, tor' = [tor EXCEPT ![id] = rec]
          PROVE  Session'
      BY <1>1, <2>4, <2>5 DEF Session, RegisteredRec
    <2>6. id \in torrents => tor[id] \in RegisteredRec
      BY DEF Session
    <2>7. CASE UNCHANGED <<tor, native>>
      <3>1. Session'
        BY <1>1, <2>4, <2>7 DEF Session
      <3> QED
        BY <2>2, <2>7, <3>1
    <2>8. CASE /\ id \in torrents /\ UNCHANGED native
               /\ tor' = [tor EXCEPT ![id] = Rejected(tor[id])]
      <3>1. \E f : f \in Handle
        BY <2>6, <2>8 DEF RegisteredRec
      <3> QED
        BY <2>2, <2>5, <2>6, <2>8, <3>1, RejectedType
    <2>9. ASSUME id \in torrents, NEW f \in Unused,
                 tor' = [tor EXCEPT ![id] = Recovered(tor[id], f)],
                 native' = NativeRecovered(native, tor[id], f)
          PROVE  Inv'
      <3>1. f \in Handle
        BY DEF Unused
      <3> QED
        BY <2>2, <2>5, <2>6, <2>9, <3>1, RejectedType, NativeRecoveredType
    <2> QED
      BY <2>3, <2>7, <2>8, <2>9
  <1>7. ASSUME HandleStateUpdate
        PROVE  Inv'
    <2> DEFINE id == OwnerOf(Head(alerts).handle)
    <2>1. alerts # <<>> /\ ~IsMoveAlert(Head(alerts)) /\ Head(alerts).path \in Path
      BY <1>2, <1>7 DEF HandleStateUpdate, NextAlert, IsMoveAlert
    <2>2. Moves(queue', ops', alerts')
      BY <1>7, <2>1, HandledMoves DEF HandleStateUpdate
    <2>3. id \in torrents => [tor[id] EXCEPT !.location = Head(alerts).path] \in RegisteredRec
      BY <2>1 DEF Session, RegisteredRec, TorrentRec, MaybePath
    <2>4. \/ id \in torrents
             /\ tor' = [tor EXCEPT ![id] = [tor[id] EXCEPT !.location = Head(alerts).path]]
          \/ tor' = tor
      BY <1>7 DEF HandleStateUpdate
    <2> HIDE DEF id
    <2>5. Session'
      BY <1>1, <1>7, <2>3, <2>4 DEF HandleStateUpdate, Session, RegisteredRec
    <2> QED
      BY <1>7, <2>2, <2>5 DEF HandleStateUpdate
  <1>8. ASSUME HandleSaveResumeData
        PROVE  Inv'
    <2> DEFINE a == Head(alerts)
               id == OwnerOf(a.handle)
               ready == a.type = "resume" /\ id \in torrents
    <2>1. alerts # <<>> /\ ~IsMoveAlert(a) /\ (ready => a.path \in Path)
      BY <1>2, <1>8 DEF HandleSaveResumeData, NextAlert, IsMoveAlert
    <2>2. Moves(queue', ops', alerts')
      BY <1>8, <2>1, HandledMoves DEF HandleSaveResumeData
    <2>3. /\ numResume' \in Int
          /\ stored' = IF ready THEN [stored EXCEPT ![id] =
                             [savePath |-> tor[id].savePath, location |-> a.path]]
                       ELSE stored
          /\ tor' = IF ready THEN [tor EXCEPT ![id] = [tor[id] EXCEPT !.paramsPath = a.path]]
                    ELSE tor
      BY <1>8 DEF HandleSaveResumeData, NumResumeAfter, Session
    <2>4. ready => /\ id \in torrents
                   /\ [savePath |-> tor[id].savePath, location |-> a.path] \in StoredRec
                   /\ [tor[id] EXCEPT !.paramsPath = a.path] \in RegisteredRec
      BY <2>1 DEF Session, RegisteredRec, TorrentRec, StoredRec, MaybePath
    <2> HIDE DEF ready, id, a
    <2>5. Session'
      BY <1>1, <1>8, <2>3, <2>4 DEF HandleSaveResumeData, Session, RegisteredRec
    <2> QED
      BY <1>8, <2>2, <2>5 DEF HandleSaveResumeData
  <1> QED
    BY <1>3, <1>4, <1>5, <1>6, <1>7, <1>8 DEF HandleAlert

\* What libtorrent's threads do keeps it.
LEMMA LibraryInv == Inv /\ Library => Inv'
  <1> SUFFICES ASSUME Inv, Library PROVE Inv'
    OBVIOUS
  <1> USE DEF Inv
  <1>1. ASSUME NEW o \in ops, NEW success \in BOOLEAN, DiskMoveEnds(o, success)
        PROVE  Inv'
    <2>1. o.handle \in Handle /\ o.path \in Path
      BY DEF Moves
    <2> DEFINE x == IF success THEN Posted("moved", o.handle, o.path)
                    ELSE Posted("move_failed", o.handle, NoPath)
    <2>2. /\ x \in Alert /\ IsMoveAlert(x) /\ x.handle = o.handle
          /\ x.type = "moved" => x.path = o.path
      BY <2>1 DEF Posted, Alert, IsMoveAlert, MaybePath
    <2>3. queue' = queue /\ ops' = ops \ {o} /\ alerts' = alerts \o <<x>>
      BY <1>1 DEF DiskMoveEnds, Post, sessionVars
    <2> HIDE DEF x
    <2>4. Moves(queue', ops', alerts')
      BY <2>2, <2>3, MovesAnswer
    <2>5. NativeLocated(native')
      BY <1>1, <2>1 DEF DiskMoveEnds, NativeLocated, NativeRec, MaybePath
    <2>6. Session'
      BY <1>1 DEF DiskMoveEnds, sessionVars, Session
    <2> QED
      BY <2>4, <2>5, <2>6
  <1>2. ASSUME NEW x \in Alert, ~IsMoveAlert(x),
               x.type \in {"status", "resume"} => x.path \in Path,
               Post(<<x>>), NativeLocated(native'),
               UNCHANGED <<torrents, tor, queue, removing, pendingFinished, numResume,
                           stored, phase, ops>>
        PROVE  Inv'
    <2>1. Moves(queue', ops', alerts')
      BY <1>2, MovesPost DEF Post
    <2>2. Session'
      BY <1>2 DEF Session
    <2> QED
      BY <1>2, <2>1, <2>2
  <1>3. ASSUME NEW h \in Handle, RejectResumeData(h)
        PROVE  Inv'
    <2>1. Posted("rejected", h, NoPath) \in Alert /\ ~IsMoveAlert(Posted("rejected", h, NoPath))
      BY DEF Posted, Alert, IsMoveAlert, MaybePath
    <2>2. NativeLocated(native')
      BY <1>3 DEF RejectResumeData, NativeLocated, NativeRec
    <2> QED
      BY <1>2, <1>3, <2>1, <2>2 DEF RejectResumeData, Posted
  <1>4. ASSUME NEW h \in Handle, PostStateUpdate(h)
        PROVE  Inv'
    <2>1. native[h].location \in Path
      BY <1>4 DEF PostStateUpdate, NativeLocated
    <2>2. /\ Posted("status", h, native[h].location) \in Alert
          /\ ~IsMoveAlert(Posted("status", h, native[h].location))
      BY <2>1 DEF Posted, Alert, IsMoveAlert, MaybePath
    <2> QED
      BY <1>2, <1>4, <2>1, <2>2 DEF PostStateUpdate, Posted
  <1>5. ASSUME NEW h \in Handle, NEW success \in BOOLEAN, SaveResumeData(h, success)
        PROVE  Inv'
    <2> DEFINE flushing == native[h].requests = 0
               modified == ~flushing \/ native[h].dirty
               x == IF success /\ modified THEN Posted("resume", h, native[h].location)
                    ELSE Posted("resume_failed", h, NoPath)
    <2>1. native[h].location \in Path /\ native[h] \in NativeRec
      BY <1>5 DEF SaveResumeData, NativeLocated
    <2>2. /\ x \in Alert /\ ~IsMoveAlert(x)
          /\ x.type \in {"status", "resume"} => x.path \in Path
      BY <2>1 DEF Posted, Alert, IsMoveAlert, MaybePath
    <2>3. Post(<<x>>)
      BY <1>5 DEF SaveResumeData
    <2>4. [native[h] EXCEPT !.requests = IF flushing THEN 0 ELSE @ - 1,
                            !.flush = @ /\ ~flushing,
                            !.dirty = @ /\ ~success] \in NativeRec
      <3>1. (IF flushing THEN 0 ELSE native[h].requests - 1) \in Nat
        BY <2>1 DEF NativeRec
      <3>2. (native[h].flush /\ ~flushing) \in BOOLEAN /\ (native[h].dirty /\ ~success) \in BOOLEAN
        OBVIOUS
      <3> HIDE DEF flushing
      <3> QED
        BY <2>1, <3>1, <3>2 DEF NativeRec
    <2>5. NativeLocated(native')
      <3>1. native' = [native EXCEPT ![h] =
                [native[h] EXCEPT !.requests = IF flushing THEN 0 ELSE @ - 1,
                                  !.flush = @ /\ ~flushing,
                                  !.dirty = @ /\ ~success]]
        BY <1>5 DEF SaveResumeData, NativeLocated
      <3>2. [native[h] EXCEPT !.requests = IF flushing THEN 0 ELSE @ - 1,
                              !.flush = @ /\ ~flushing,
                              !.dirty = @ /\ ~success].location = native[h].location
        BY <2>1 DEF NativeRec
      <3> QED
        BY <2>1, <2>4, <3>1, <3>2 DEF NativeLocated
    <2> HIDE DEF x
    <2> QED
      BY <1>2, <1>5, <2>2, <2>3, <2>5 DEF SaveResumeData
  <1>6. ASSUME NEW h \in Handle, CloseNative(h)
        PROVE  Inv'
    <2>1. Posted("deleted", h, NoPath) \in Alert /\ ~IsMoveAlert(Posted("deleted", h, NoPath))
      BY DEF Posted, Alert, IsMoveAlert, MaybePath
    <2>2. NativeLocated(native')
      BY <1>6 DEF CloseNative, NativeLocated, NativeRec
    <2> QED
      BY <1>2, <1>6, <2>1, <2>2 DEF CloseNative, Posted
  <1> QED
    BY <1>1, <1>3, <1>4, <1>5, <1>6 DEF Library

\* Every step keeps the invariant: with the above, the deferred requests and the exit.
LEMMA NextInv == Inv /\ [Next]_vars => Inv'
  <1> SUFFICES ASSUME Inv, [Next]_vars PROVE Inv'
    OBVIOUS
  <1>1. CASE UNCHANGED vars
    BY <1>1 DEF vars, Inv, Session
  <1>2. CASE Request
    BY <1>2, RequestInv
  <1>3. ASSUME NEW t \in Torrent, RunDeferredRequest(t)
        PROVE  Inv'
    <2>1. tor[t] \in RegisteredRec
      BY <1>3 DEF RunDeferredRequest, Inv, Session
    <2>2. [tor[t] EXCEPT !.deferred = FALSE] \in RegisteredRec
      BY <2>1 DEF RegisteredRec, TorrentRec
    <2>3. tor' = [tor EXCEPT ![t] = [tor[t] EXCEPT !.deferred = FALSE]]
      BY <1>3 DEF RunDeferredRequest
    <2>4. Session'
      <3>1. tor' \in [Torrent -> TorrentRec] /\ \A u \in torrents : tor'[u] \in RegisteredRec
        BY <2>2, <2>3 DEF Inv, Session, RegisteredRec
      <3>2. numResume' \in Int
        BY <1>3 DEF RunDeferredRequest, Inv, Session
      <3> QED
        BY <1>3, <3>1, <3>2 DEF RunDeferredRequest, Inv, Session
    <2>5. NativeLocated(native')
      <3>1. tor[t].handle \in Handle /\ native[tor[t].handle] \in NativeRec
        BY <2>1 DEF RegisteredRec, Inv, NativeLocated
      <3>2. native[tor[t].handle].requests + 1 \in Nat
        BY <3>1 DEF NativeRec
      <3>3. native' = [native EXCEPT ![tor[t].handle] =
                          [native[tor[t].handle] EXCEPT !.requests = @ + 1]]
        BY <1>3, <3>1 DEF RunDeferredRequest, Inv, NativeLocated
      <3> QED
        BY <3>1, <3>2, <3>3 DEF Inv, NativeLocated, NativeRec
    <2> QED
      BY <1>3, <2>4, <2>5 DEF RunDeferredRequest, Inv
  <1>4. CASE HandleAlert
    BY <1>4, HandleAlertInv
  <1>5. CASE BeginShutdown
    <2> DEFINE asked == {t \in torrents : native[tor[t].handle].state # "dead"}
    <2>1. IsFiniteSet(asked)
      BY FS_Subset DEF Inv, Session
    <2>2. Cardinality(asked) \in Nat
      BY <2>1, FS_CardinalityType
    <2>3. Session'
      BY <1>5, <2>2 DEF BeginShutdown, Inv, Session
    <2>4. NativeLocated(native')
      <3>1. ASSUME NEW h \in Handle
            PROVE  native'[h] \in NativeRec /\ native'[h].state = native[h].state
                   /\ native'[h].location = native[h].location
        BY <1>5 DEF BeginShutdown, Inv, NativeLocated, NativeRec
      <3>2. native' = [h \in Handle |-> native'[h]]
        BY <1>5 DEF BeginShutdown
      <3> QED
        BY <3>1, <3>2 DEF Inv, NativeLocated
    <2>5. Moves(queue', ops', alerts')
      <3>1. queue # <<>> => Head(queue) \in MoveStorageJob
        BY TailElements DEF Inv, Moves
      <3>2. queue \in Seq(MoveStorageJob) /\ (Len(queue) > 1 => queue # <<>>)
        BY DEF Inv, Moves
      <3>3. /\ queue' = IF Len(queue) > 1 THEN <<Head(queue)>> ELSE queue
            /\ ops' = ops /\ alerts' = alerts
        BY <1>5 DEF BeginShutdown
      <3>4. /\ queue' \in Seq(MoveStorageJob)
            /\ queue # <<>> => queue' # <<>> /\ Head(queue') = Head(queue)
        BY <3>1, <3>2, <3>3
      <3> QED
        BY <3>3, <3>4, MovesBehindHead DEF Inv
    <2> QED
      BY <2>3, <2>4, <2>5 DEF Inv
  <1>6. CASE EndShutdown
    BY <1>6 DEF EndShutdown, Inv, Session
  <1>7. CASE Library
    BY <1>7, LibraryInv
  <1> QED
    BY <1>1, <1>2, <1>3, <1>4, <1>5, <1>6, <1>7 DEF Next, Stopped

\* The invariant is the two properties proved, and the finiteness of m_torrents.
LEMMA InvImplies == Inv => TypeOK /\ OneMoveAtATime
  <1> SUFFICES ASSUME Inv PROVE TypeOK /\ OneMoveAtATime
    OBVIOUS
  <1>1. TypeOK
    BY DEF Inv, Session, NativeLocated, Moves, TypeOK
  <1>2. OneMoveAtATime
    <2>1. MoveAlerts = {i \in DOMAIN alerts : IsMoveAlert(alerts[i])}
      BY DEF MoveAlerts, IsMoveAlert
    <2> QED
      BY <2>1 DEF Inv, Moves, OneMoveAtATime
  <1> QED
    BY <1>1, <1>2

-----------------------------------------------------------------------------

\* Whatever the user, the event loop and libtorrent do, the session's records
\* keep to their values: a registered torrent has a native handle and known
\* paths, and no handler takes a job from an empty m_moveStorageQueue.
THEOREM TypeCorrect == Spec => []TypeOK
  <1>1. Inv => TypeOK
    BY InvImplies
  <1> QED
    BY <1>1, InitInv, NextInv, PTL DEF Spec

\* SessionImpl hands libtorrent one move at a time: the assertions of
\* handleStorageMovedAlert and handleStorageMovedFailedAlert on the job at the
\* head of m_moveStorageQueue never fail.
THEOREM SerialMoves == Spec => []OneMoveAtATime
  <1>1. Inv => OneMoveAtATime
    BY InvImplies
  <1> QED
    BY <1>1, InitInv, NextInv, PTL DEF Spec
=============================================================================
