------------------------- MODULE MoveTorrentsProofs -------------------------
(***************************************************************************)
(* Proofs about the torrents of MoveStorage and its queue, resting on the  *)
(* invariant Inv of MoveStorageProofs.                                     *)
(*                                                                         *)
(* What torrents own and wait for: their native torrents, their finish     *)
(* notices, and the answers of libtorrent that the exit waits for.         *)
(*                                                                         *)
(* The queue: its head is always ongoing, torrents and queue agree on what *)
(* is moving, locations are known, and nothing is left behind in           *)
(* libtorrent - where files are neither missing nor removed (KeptFiles).   *)
(***************************************************************************)
EXTENDS MoveStorageProofs

-----------------------------------------------------------------------------
(* Answers that have been posted, and answers that are owed.               *)

IsResumeAlert(a) == a.type \in {"resume", "resume_failed"}
ResumeIn(a) == {i \in DOMAIN a : IsResumeAlert(a[i])}

\* The native torrent n owes the answers of this set to the session.
OwedBy(n) == {k \in 0..n.requests : k > 0 \/ n.flush}
OwedIn(nat) == {e \in Handle \X Nat : e[2] \in OwedBy(nat[e[1]])}

LEMMA ResumeFinite ==
    ASSUME NEW a \in Seq(Alert)
    PROVE  IsFiniteSet(ResumeIn(a)) /\ Cardinality(ResumeIn(a)) \in Nat
  <1>1. Len(a) \in Nat /\ DOMAIN a = 1..Len(a)
    BY LenProperties
  <1>2. IsFiniteSet(1..Len(a))
    BY <1>1, FS_Interval
  <1>3. IsFiniteSet(ResumeIn(a))
    BY <1>1, <1>2, FS_Subset DEF ResumeIn
  <1> QED
    BY <1>3, FS_CardinalityType

\* A posted alert is one answer more, if it is an answer.
LEMMA ResumePosted ==
    ASSUME NEW a \in Seq(Alert), NEW x \in Alert
    PROVE  Cardinality(ResumeIn(a \o <<x>>)) =
               Cardinality(ResumeIn(a)) + IF IsResumeAlert(x) THEN 1 ELSE 0
  <1> DEFINE b == a \o <<x>>
             n == Len(a)
  <1>1. n \in Nat /\ DOMAIN a = 1..n
    BY LenProperties
  <1>2. <<x>> \in Seq(Alert) /\ Len(<<x>>) = 1 /\ <<x>>[1] = x
    OBVIOUS
  <1>3. /\ b \in Seq(Alert) /\ Len(b) = n + 1
        /\ \A i \in 1 .. n + 1 : b[i] = IF i <= n THEN a[i] ELSE <<x>>[i - n]
    BY <1>2, ConcatProperties
  <1>4. DOMAIN b = 1 .. n + 1
    <2> HIDE DEF b
    <2> QED
      BY <1>3, LenProperties
  <1> HIDE DEF b, n
  <1>5. b[n + 1] = x /\ \A i \in 1..n : b[i] = a[i]
    <2>1. n + 1 \in 1 .. n + 1 /\ ~(n + 1 <= n) /\ (n + 1) - n = 1
      BY <1>1
    <2>2. \A i \in 1..n : i \in 1 .. n + 1 /\ i <= n
      BY <1>1
    <2> QED
      BY <1>2, <1>3, <2>1, <2>2
  <1>6. IsFiniteSet(ResumeIn(a)) /\ Cardinality(ResumeIn(a)) \in Nat /\ n + 1 \notin ResumeIn(a)
    <2>1. n + 1 \notin 1..n
      BY <1>1
    <2> QED
      BY <1>1, <2>1, ResumeFinite DEF ResumeIn
  <1>7. CASE IsResumeAlert(x)
    <2>1. ResumeIn(b) = ResumeIn(a) \cup {n + 1}
      BY <1>1, <1>4, <1>5, <1>7 DEF ResumeIn
    <2>2. Cardinality(ResumeIn(a) \cup {n + 1}) = Cardinality(ResumeIn(a)) + 1
      BY <1>6, FS_AddElement
    <2> QED
      BY <1>7, <2>1, <2>2 DEF b
  <1>8. CASE ~IsResumeAlert(x)
    <2>1. ResumeIn(b) = ResumeIn(a)
      BY <1>1, <1>4, <1>5, <1>8 DEF ResumeIn
    <2> QED
      BY <1>6, <1>8, <2>1 DEF b
  <1> QED
    BY <1>7, <1>8

\* A handled alert is one answer less, if it is an answer.
LEMMA ResumeHandled ==
    ASSUME NEW a \in Seq(Alert), a # <<>>
    PROVE  Cardinality(ResumeIn(Tail(a))) =
               Cardinality(ResumeIn(a)) - IF IsResumeAlert(Head(a)) THEN 1 ELSE 0
  <1> DEFINE b == Tail(a)
             rest == ResumeIn(a) \ {1}
             f == [i \in ResumeIn(b) |-> i + 1]
  <1>1. /\ Len(a) \in Nat /\ DOMAIN a = 1..Len(a) /\ Len(a) # 0
        /\ b \in Seq(Alert) /\ Len(b) = Len(a) - 1
        /\ \A i \in DOMAIN b : i + 1 \in DOMAIN a /\ b[i] = a[i + 1]
        /\ Head(a) = a[1]
    BY LenProperties, EmptySeq, HeadTailProperties, TailElements
  <1>2. DOMAIN b = 1 .. Len(a) - 1
    BY <1>1, LenProperties
  <1>3. /\ IsFiniteSet(ResumeIn(a)) /\ Cardinality(ResumeIn(a)) \in Nat
        /\ IsFiniteSet(ResumeIn(b)) /\ Cardinality(ResumeIn(b)) \in Nat
    BY <1>1, ResumeFinite
  <1> HIDE DEF b
  <1>4. ResumeIn(b) \subseteq Nat
    BY <1>1, <1>2 DEF ResumeIn
  <1>5. f \in [ResumeIn(b) -> rest]
    BY <1>1, <1>2, <1>4 DEF ResumeIn
  <1>6. \A i, j \in ResumeIn(b) : f[i] = f[j] => i = j
    BY <1>4
  <1>7. ASSUME NEW j \in rest
        PROVE  \E i \in ResumeIn(b) : f[i] = j
    <2>1. j \in 1..Len(a) /\ j # 1 /\ IsResumeAlert(a[j])
      BY <1>1, <1>7 DEF ResumeIn
    <2>2. j - 1 \in DOMAIN b /\ b[j - 1] = a[j]
      BY <1>1, <1>2, <2>1
    <2>3. j - 1 \in ResumeIn(b)
      BY <2>1, <2>2 DEF ResumeIn
    <2> QED
      BY <2>1, <2>3
  <1>8. f \in Bijection(ResumeIn(b), rest)
    <2> HIDE DEF f, rest
    <2> QED
      BY <1>5, <1>6, <1>7 DEF Bijection, Injection, Surjection, IsInjective
  <1>9. Cardinality(rest) = Cardinality(ResumeIn(b))
    BY <1>3, <1>8, FS_Bijection DEF ExistsBijection
  <1>10. Cardinality(rest) = IF 1 \in ResumeIn(a) THEN Cardinality(ResumeIn(a)) - 1
                             ELSE Cardinality(ResumeIn(a))
    BY <1>3, FS_RemoveElement
  <1>11. 1 \in ResumeIn(a) <=> IsResumeAlert(Head(a))
    BY <1>1 DEF ResumeIn
  <1> QED
    BY <1>3, <1>9, <1>10, <1>11 DEF b

LEMMA OwedIsOwed ==
    /\ ResumeAlerts = ResumeIn(alerts)
    /\ native \in [Handle -> NativeRec] => OwedAnswers = OwedIn(native)
  <1>1. ResumeAlerts = ResumeIn(alerts)
    BY DEF ResumeAlerts, ResumeIn, IsResumeAlert
  <1>2. ASSUME native \in [Handle -> NativeRec] PROVE OwedAnswers = OwedIn(native)
    <2>1. \A h \in Handle : native[h].requests \in Nat
      BY <1>2 DEF NativeRec
    <2>2. \A h \in Handle : OwedBy(native[h]) \subseteq Nat
      BY <2>1 DEF OwedBy
    <2>3. OwedAnswers = UNION {{h} \X OwedBy(native[h]) : h \in Handle}
      BY DEF OwedAnswers, OwedBy
    <2> QED
      BY <2>2, <2>3 DEF OwedIn
  <1> QED
    BY <1>1, <1>2

\* The answers owed do not depend on anything else of a native torrent.
LEMMA OwedSame ==
    ASSUME NEW nat, NEW new, 
           \A h \in Handle : new[h].requests = nat[h].requests /\ (new[h].flush <=> nat[h].flush)
    PROVE  OwedIn(new) = OwedIn(nat)
  <1>1. ASSUME NEW h \in Handle PROVE OwedBy(new[h]) = OwedBy(nat[h])
    BY DEF OwedBy
  <1>2. \A e \in Handle \X Nat : e[1] \in Handle
    OBVIOUS
  <1> QED
    BY <1>1, <1>2 DEF OwedIn

\* One request more, or one request or the one of the exit answered.
LEMMA OwedChanged ==
    ASSUME NEW nat \in [Handle -> NativeRec], NEW new \in [Handle -> NativeRec],
           NEW h \in Handle, \A g \in Handle \ {h} : new[g] = nat[g]
    PROVE  /\ new[h].requests = nat[h].requests + 1 /\ new[h].flush = nat[h].flush
              => /\ OwedIn(new) = OwedIn(nat) \cup {<<h, new[h].requests>>}
                 /\ <<h, new[h].requests>> \notin OwedIn(nat)
           /\ nat[h].requests > 0 /\ new[h].requests = nat[h].requests - 1 /\ new[h].flush = nat[h].flush
              => /\ OwedIn(new) = OwedIn(nat) \ {<<h, nat[h].requests>>}
                 /\ <<h, nat[h].requests>> \in OwedIn(nat)
           /\ nat[h].requests = 0 /\ new[h].requests = 0 /\ nat[h].flush /\ ~new[h].flush
              => /\ OwedIn(new) = OwedIn(nat) \ {<<h, 0>>}
                 /\ <<h, 0>> \in OwedIn(nat)
  <1>1. nat[h].requests \in Nat /\ new[h].requests \in Nat
    BY DEF NativeRec
  <1>2. \A g \in Handle \ {h} : OwedBy(new[g]) = OwedBy(nat[g])
    OBVIOUS
  <1>3. \A e \in Handle \X Nat : e[1] \in Handle /\ e[2] \in Nat /\ e = <<e[1], e[2]>>
    OBVIOUS
  <1>4. ASSUME NEW k \in Nat, OwedBy(new[h]) = OwedBy(nat[h]) \cup {k}, k \notin OwedBy(nat[h])
        PROVE  OwedIn(new) = OwedIn(nat) \cup {<<h, k>>} /\ <<h, k>> \notin OwedIn(nat)
    <2>1. <<h, k>> \in Handle \X Nat /\ <<h, k>>[1] = h /\ <<h, k>>[2] = k
      OBVIOUS
    <2>2. ASSUME NEW e \in Handle \X Nat
          PROVE  e[2] \in OwedBy(new[e[1]]) <=> e[2] \in OwedBy(nat[e[1]]) \/ e = <<h, k>>
      BY <1>2, <1>3, <1>4
    <2> QED
      BY <1>4, <2>1, <2>2 DEF OwedIn
  <1>5. ASSUME NEW k \in Nat, OwedBy(new[h]) = OwedBy(nat[h]) \ {k}, k \in OwedBy(nat[h])
        PROVE  OwedIn(new) = OwedIn(nat) \ {<<h, k>>} /\ <<h, k>> \in OwedIn(nat)
    <2>1. <<h, k>> \in Handle \X Nat /\ <<h, k>>[1] = h /\ <<h, k>>[2] = k
      OBVIOUS
    <2>2. ASSUME NEW e \in Handle \X Nat
          PROVE  e[2] \in OwedBy(new[e[1]]) <=> e[2] \in OwedBy(nat[e[1]]) /\ e # <<h, k>>
      BY <1>2, <1>3, <1>5
    <2> QED
      BY <1>5, <2>1, <2>2 DEF OwedIn
  <1>6. ASSUME new[h].requests = nat[h].requests + 1, new[h].flush = nat[h].flush
        PROVE  /\ OwedBy(new[h]) = OwedBy(nat[h]) \cup {new[h].requests}
               /\ new[h].requests \notin OwedBy(nat[h])
    BY <1>1, <1>6 DEF OwedBy
  <1>7. ASSUME nat[h].requests > 0, new[h].requests = nat[h].requests - 1, new[h].flush = nat[h].flush
        PROVE  /\ OwedBy(new[h]) = OwedBy(nat[h]) \ {nat[h].requests}
               /\ nat[h].requests \in OwedBy(nat[h])
    BY <1>1, <1>7 DEF OwedBy
  <1>8. ASSUME nat[h].requests = 0, new[h].requests = 0, nat[h].flush, ~new[h].flush
        PROVE  OwedBy(new[h]) = OwedBy(nat[h]) \ {0} /\ 0 \in OwedBy(nat[h])
    BY <1>8 DEF OwedBy
  <1> QED
    BY <1>1, <1>4, <1>5, <1>6, <1>7, <1>8

-----------------------------------------------------------------------------
(* What torrents own.                                                      *)

\* m_numResumeData is n while the alerts a are waiting.
Counted(n, a, nat) ==
    IsFiniteSet(OwedIn(nat)) /\ n = Cardinality(ResumeIn(a)) + Cardinality(OwedIn(nat))

\* Of a torrent that is waiting for its finish notice, a move is outstanding.
NoticeWaits(rec) == rec.notify => rec.moving

Owning ==
    /\ OwnsNative
    /\ \A t \in torrents : NoticeWaits(tor[t])
    /\ \A h \in Handle : native[h].state = "unused" => native[h].requests = 0
    /\ \A h \in Handle : native[h].flush => phase # "running" /\ native[h].state # "unused"
    /\ Counted(numResume, alerts, native)

\* A handler of the torrent t: it keeps its native torrent or has a new one, and
\* no answer is posted or handled.
TorrentStep(t) ==
    /\ t \in torrents
    /\ torrents' = torrents /\ phase' = phase /\ numResume' = numResume
    /\ \A u \in torrents \ {t} : tor'[u] = tor[u]
    /\ NoticeWaits(tor[t]) => NoticeWaits(tor'[t])
    /\ \/ native' = native /\ tor'[t].handle = tor[t].handle
       \/ \E rec \in RegisteredRec : /\ rec.handle = tor[t].handle
                                     /\ tor'[t].handle \in Unused
                                     /\ native' \in {NativeReloaded(native, rec, tor'[t].handle),
                                                    NativeRecovered(native, rec, tor'[t].handle)}
    /\ Cardinality(ResumeIn(alerts')) = Cardinality(ResumeIn(alerts))

\* What lt::session::remove_torrent leaves of a native torrent.
LEMMA ClosedFields ==
    ASSUME NEW nat \in [Handle -> NativeRec], NEW h \in Handle, NEW g \in Handle
    PROVE  /\ Closed(nat, h)[g].owner = nat[g].owner
           /\ Closed(nat, h)[g].location = nat[g].location
           /\ Closed(nat, h)[g].unchecked = nat[g].unchecked
           /\ Closed(nat, h)[g].requests = nat[g].requests
           /\ Closed(nat, h)[g].flush = nat[g].flush
           /\ g # h => Closed(nat, h)[g] = nat[g]
           /\ Closed(nat, h)[g].state = IF g = h /\ nat[h].state = "alive" THEN "closing"
                                        ELSE nat[g].state
           /\ DOMAIN Closed(nat, h) = Handle
  BY DEF Closed, NativeRec

\* A reload closes the torrent's native torrent and makes a new one.
LEMMA NativeReloadedFields ==
    ASSUME NEW nat \in [Handle -> NativeRec], NEW rec \in RegisteredRec, NEW f \in Handle,
           NEW g \in Handle
    PROVE  NativeReloaded(nat, rec, f)[g] =
               IF g = f THEN NewNative(nat[rec.handle].owner, rec.paramsPath, FALSE)
               ELSE Closed(nat, rec.handle)[g]
  <1>1. rec.handle \in Handle
    BY DEF RegisteredRec
  <1>2. DOMAIN Closed(nat, rec.handle) = Handle
    BY <1>1, ClosedFields
  <1> QED
    BY <1>2 DEF NativeReloaded

\* ... also when the files of the new one are not checked.
LEMMA NativeReplacedFields ==
    ASSUME NEW nat \in [Handle -> NativeRec], NEW rec \in RegisteredRec, NEW f \in Handle,
           NEW new \in {NativeReloaded(nat, rec, f), NativeRecovered(nat, rec, f)}
    PROVE  /\ new[f].state = "alive" /\ new[f].owner = nat[rec.handle].owner
           /\ new[f].requests = 0 /\ new[f].flush = FALSE
           /\ \A g \in Handle \ {f} : new[g] = Closed(nat, rec.handle)[g]
  <1> DEFINE reloaded == NativeReloaded(nat, rec, f)
             n == [reloaded[f] EXCEPT !.unchecked = FALSE]
  <1>1. rec.handle \in Handle
    BY DEF RegisteredRec
  <1>2. DOMAIN reloaded = Handle
    BY <1>1, ClosedFields DEF NativeReloaded
  <1>3. /\ reloaded[f] = NewNative(nat[rec.handle].owner, rec.paramsPath, FALSE)
        /\ \A g \in Handle \ {f} : reloaded[g] = Closed(nat, rec.handle)[g]
    BY NativeReloadedFields
  <1>4. new = reloaded \/ new = [reloaded EXCEPT ![f] = n]
    BY DEF NativeRecovered
  <1> HIDE DEF reloaded
  <1>5. /\ n.state = "alive" /\ n.owner = nat[rec.handle].owner
        /\ n.requests = 0 /\ n.flush = FALSE
    BY <1>3 DEF NewNative
  <1> HIDE DEF n
  <1>6. CASE new = reloaded
    BY <1>3, <1>6 DEF NewNative
  <1>7. CASE new = [reloaded EXCEPT ![f] = n]
    BY <1>2, <1>3, <1>5, <1>7
  <1> QED
    BY <1>4, <1>6, <1>7

LEMMA TorrentStepOwning ==
    ASSUME Inv, Owning, NEW t, TorrentStep(t)
    PROVE  Owning'
  <1>1. /\ native \in [Handle -> NativeRec] /\ torrents \subseteq Torrent
        /\ \A u \in torrents : tor[u] \in RegisteredRec /\ tor[u].handle \in Handle
    BY DEF Inv, Session, NativeLocated, RegisteredRec
  <1>2. /\ OwnsNative /\ t \in torrents /\ torrents' = torrents /\ phase' = phase
        /\ \A u \in torrents \ {t} : tor'[u] = tor[u]
    BY DEF Owning, TorrentStep
  <1>3. \A u \in torrents' : NoticeWaits(tor'[u])
    BY <1>2 DEF Owning, TorrentStep
  <1>4. CASE native' = native /\ tor'[t].handle = tor[t].handle
    <2>1. OwnsNative'
      BY <1>2, <1>4 DEF OwnsNative
    <2> QED
      BY <1>2, <1>3, <1>4, <2>1 DEF Owning, TorrentStep, Counted
  <1>5. ASSUME NEW rec \in RegisteredRec, rec.handle = tor[t].handle, tor'[t].handle \in Unused,
               native' \in {NativeReloaded(native, rec, tor'[t].handle),
                           NativeRecovered(native, rec, tor'[t].handle)}
        PROVE  Owning'
    <2> DEFINE f == tor'[t].handle
               h == tor[t].handle
    <2>1. f \in Handle /\ native[f].state = "unused" /\ h \in Handle
          /\ native[h].state = "alive" /\ native[h].owner = t
      BY <1>1, <1>2, <1>5 DEF Unused, OwnsNative
    <2>2. /\ native'[f].state = "alive" /\ native'[f].owner = t
          /\ native'[f].requests = 0 /\ native'[f].flush = FALSE
          /\ \A g \in Handle \ {f} : native'[g] = Closed(native, h)[g]
      <3>1. /\ native' \in {NativeReloaded(native, rec, f), NativeRecovered(native, rec, f)}
            /\ rec.handle = h
        BY <1>5
      <3> HIDE DEF f, h
      <3> QED
        BY <1>1, <2>1, <3>1, NativeReplacedFields
    <2> HIDE DEF f, h
    <2>3. ASSUME NEW u \in torrents PROVE /\ native'[tor'[u].handle].state = "alive"
                                          /\ native'[tor'[u].handle].owner = u
      <3>1. CASE u = t
        BY <2>1, <2>2, <3>1 DEF f
      <3>2. CASE u # t
        <4>1. /\ tor'[u].handle = tor[u].handle /\ tor[u].handle \in Handle
              /\ native[tor[u].handle].state = "alive" /\ native[tor[u].handle].owner = u
          BY <1>1, <1>2, <3>2 DEF OwnsNative
        <4>2. tor[u].handle # f /\ tor[u].handle # h
          BY <2>1, <3>2, <4>1
        <4>3. native'[tor[u].handle] = native[tor[u].handle]
          BY <1>1, <2>1, <2>2, <4>1, <4>2, ClosedFields
        <4> QED
          BY <4>1, <4>3
      <3> QED
        BY <3>1, <3>2
    <2>4. OwnsNative'
      BY <1>2, <2>3 DEF OwnsNative
    <2>5. ASSUME NEW g \in Handle
          PROVE  /\ native'[g].requests = native[g].requests
                 /\ native'[g].flush <=> native[g].flush
                 /\ native'[g].state = "unused" => native[g].state = "unused"
                 /\ native'[g].flush => native'[g].state # "unused"
      <3>1. CASE g = f
        <4>1. native[f].requests = 0 /\ ~native[f].flush
          BY <2>1 DEF Owning
        <4> QED
          BY <2>2, <3>1, <4>1
      <3>2. CASE g # f
        <4>1. native'[g] = Closed(native, h)[g]
          BY <2>2, <3>2
        <4>2. /\ native'[g].requests = native[g].requests /\ native'[g].flush = native[g].flush
              /\ native'[g].state = IF g = h /\ native[h].state = "alive" THEN "closing"
                                    ELSE native[g].state
          BY <1>1, <2>1, <4>1, ClosedFields
        <4>3. native[g].flush => native[g].state # "unused"
          BY DEF Owning
        <4> QED
          BY <4>2, <4>3
      <3> QED
        BY <3>1, <3>2
    <2>6. OwedIn(native') = OwedIn(native)
      BY <2>5, OwedSame
    <2>7. Counted(numResume', alerts', native')
      BY <2>6 DEF Owning, Counted, TorrentStep
    <2>8. \A g \in Handle : native'[g].state = "unused" => native'[g].requests = 0
      BY <2>5 DEF Owning
    <2>9. \A g \in Handle : native'[g].flush => phase' # "running" /\ native'[g].state # "unused"
      BY <1>2, <2>5 DEF Owning
    <2> QED
      BY <1>3, <2>4, <2>7, <2>8, <2>9 DEF Owning
  <1> QED
    BY <1>4, <1>5 DEF TorrentStep

-----------------------------------------------------------------------------
(* The handlers of a torrent.                                              *)

\* What the end of a move, or of a cancelled one, records.
LEMMA MoveRecordedFields ==
    ASSUME NEW rec \in RegisteredRec, NEW path \in Path, NEW context,
           NEW outstanding \in BOOLEAN
    PROVE  LET new == MoveRecorded(rec, path, context, outstanding)
           IN  /\ new.location = path
               /\ new.moving = outstanding
               /\ outstanding => new.missing = rec.missing /\ new.notify = rec.notify
               /\ ~outstanding => ~new.missing /\ ~new.notify
  <1>1. rec \in TorrentRec
    BY DEF RegisteredRec
  <1> DEFINE saved == [rec EXCEPT
            !.savePath = IF context = "ChangeSavePath" THEN path ELSE @,
            !.downloadPath = IF context = "ChangeDownloadPath" THEN path ELSE @,
            !.moving = outstanding,
            !.location = path,
            !.deferred = TRUE]
             promoted == [saved EXCEPT !.finishedStorage = @ \/ path = saved.savePath]
             ended == [promoted EXCEPT
                !.missing = FALSE,
                !.recovered = FALSE,
                !.paramsPath = IF rec.missing THEN path ELSE @,
                !.notify = FALSE]
             Fields(r) == /\ DOMAIN r = DOMAIN rec
                          /\ r.location = path /\ r.moving = outstanding
                          /\ r.missing = rec.missing /\ r.notify = rec.notify
  <1>2. Fields(saved)
    BY <1>1 DEF TorrentRec
  <1>3. Fields(promoted)
    <2> HIDE DEF saved
    <2> QED
      BY <1>1, <1>2 DEF TorrentRec
  <1>4. ended.location = path /\ ended.moving = outstanding /\ ~ended.missing /\ ~ended.notify
    <2> HIDE DEF promoted
    <2> QED
      BY <1>1, <1>3 DEF TorrentRec
  <1> HIDE DEF saved, promoted, ended
  <1>5. MoveRecorded(rec, path, context, outstanding) = IF outstanding THEN promoted ELSE ended
    BY DEF MoveRecorded, saved, promoted, ended
  <1> QED
    BY <1>3, <1>4, <1>5

\* Cancelling a queued move.
LEMMA CancelledFields ==
    ASSUME NEW rec \in RegisteredRec
    PROVE  LET new == Cancelled(rec)
           IN  /\ new.location = rec.location
               /\ new.missing => rec.missing
               /\ NoticeWaits(rec) => NoticeWaits(new)
               /\ new.moving = IF InactiveJobs(rec.handle) = {} THEN rec.moving
                               ELSE HasActiveJob(rec.handle)
  <1>1. HasActiveJob(rec.handle) \in BOOLEAN /\ rec.location \in Path
    BY DEF HasActiveJob, RegisteredRec
  <1>2. CASE InactiveJobs(rec.handle) = {}
    BY <1>2 DEF Cancelled
  <1>3. CASE InactiveJobs(rec.handle) # {}
    <2> DEFINE context == queue[FirstInactive(rec.handle)].context
               outstanding == HasActiveJob(rec.handle)
               new == MoveRecorded(rec, rec.location, context, outstanding)
    <2>1. Cancelled(rec) = new
      BY <1>3 DEF Cancelled
    <2>2. /\ new.location = rec.location /\ new.moving = outstanding
          /\ outstanding => new.missing = rec.missing /\ new.notify = rec.notify
          /\ ~outstanding => ~new.missing /\ ~new.notify
      BY <1>1, MoveRecordedFields
    <2> HIDE DEF new, outstanding
    <2>3. new.moving \in BOOLEAN
      BY <1>1, <2>2 DEF outstanding
    <2> QED
      BY <1>3, <2>1, <2>2, <2>3 DEF NoticeWaits, outstanding
  <1> QED
    BY <1>2, <1>3

\* TorrentImpl::moveStorage
LEMMA MoveRequestedFields ==
    ASSUME NEW rec \in RegisteredRec, NEW newPath, NEW f \in Handle
    PROVE  LET new == MoveRequested(rec, newPath, f)
           IN  /\ new.handle = IF CancelReloads(rec) THEN f ELSE rec.handle
               /\ ~CancelReloads(rec) => new.location = rec.location
               /\ new.missing => rec.missing
               /\ NoticeWaits(rec) => NoticeWaits(new)
               /\ new.moving = IF IsMeaningless(rec, newPath) THEN Cancelled(rec).moving ELSE TRUE
  <1>1. /\ Cancelled(rec) \in TorrentRec /\ Cancelled(rec).handle = rec.handle
        /\ Cancelled(rec).location = rec.location
        /\ Cancelled(rec).missing => rec.missing
        /\ NoticeWaits(rec) => NoticeWaits(Cancelled(rec))
    BY CancelledType, CancelledFields DEF RegisteredRec
  <1> DEFINE kept == IF CancelReloads(rec) THEN Reloaded(Cancelled(rec), f) ELSE Cancelled(rec)
  <1>2. /\ kept \in TorrentRec
        /\ kept.handle = IF CancelReloads(rec) THEN f ELSE rec.handle
        /\ ~CancelReloads(rec) => kept.location = rec.location
        /\ kept.missing = Cancelled(rec).missing
        /\ kept.notify = Cancelled(rec).notify /\ kept.moving = Cancelled(rec).moving
    <2>1. CASE CancelReloads(rec)
      BY <1>1, <2>1 DEF Reloaded, TorrentRec, MaybePath
    <2>2. CASE ~CancelReloads(rec)
      BY <1>1, <2>2
    <2> QED
      BY <2>1, <2>2
  <1> HIDE DEF kept
  <1>3. MoveRequested(rec, newPath, f) =
            IF IsMeaningless(rec, newPath) THEN kept ELSE [kept EXCEPT !.moving = TRUE]
    BY DEF MoveRequested, kept
  <1>4. CASE IsMeaningless(rec, newPath)
    BY <1>1, <1>2, <1>3, <1>4 DEF NoticeWaits
  <1>5. CASE ~IsMeaningless(rec, newPath)
    BY <1>1, <1>2, <1>3, <1>5 DEF NoticeWaits, TorrentRec
  <1> QED
    BY <1>4, <1>5

\* The start of a move posts no answer to a request for resume data.
LEMMA StartQuiet ==
    ASSUME NEW a \in Seq(Alert), NEW job \in MoveStorageJob
    PROVE  Cardinality(ResumeIn(a \o StartAlerts(job))) = Cardinality(ResumeIn(a))
  <1> DEFINE x == Posted("move_failed", job.handle, NoPath)
  <1>1. x \in Alert /\ ~IsResumeAlert(x)
    BY DEF Posted, Alert, MaybePath, MoveStorageJob, IsResumeAlert
  <1> HIDE DEF x
  <1>2. Cardinality(ResumeIn(a)) \in Nat
    BY ResumeFinite
  <1>3. Cardinality(ResumeIn(a \o <<x>>)) = Cardinality(ResumeIn(a))
    BY <1>1, <1>2, ResumePosted
  <1>4. a \o <<>> = a
    BY ConcatEmptySeq
  <1> QED
    BY <1>3, <1>4 DEF StartAlerts, x

\* A torrent is asked to move.
LEMMA MoveIsTorrentStep ==
    ASSUME Inv, NEW t \in torrents, UNCHANGED <<torrents, phase, numResume>>,
           NEW rec \in RegisteredRec, rec.handle = tor[t].handle,
           NoticeWaits(tor[t]) => NoticeWaits(rec),
           NEW newPath \in Path, NEW context \in Context,
           NEW f, f \in HandlesFor(rec, CancelReloads(rec)), EnqueueMove(rec, newPath, context, f),
           NEW new, tor' = [tor EXCEPT ![t] = new],
           new.handle = MoveRequested(rec, newPath, f).handle,
           NoticeWaits(MoveRequested(rec, newPath, f)) => NoticeWaits(new)
    PROVE  TorrentStep(t)
  <1>1. /\ tor \in [Torrent -> TorrentRec] /\ t \in Torrent /\ f \in Handle
        /\ alerts \in Seq(Alert)
    BY HandlesForType DEF Inv, Session, Moves
  <1>2. tor'[t] = new /\ \A u \in torrents \ {t} : tor'[u] = tor[u]
    BY <1>1
  <1>3. /\ new.handle = IF CancelReloads(rec) THEN f ELSE rec.handle
        /\ NoticeWaits(rec) => NoticeWaits(MoveRequested(rec, newPath, f))
    BY <1>1, MoveRequestedFields
  <1>4. native' = IF CancelReloads(rec) THEN NativeReloaded(native, Cancelled(rec), f) ELSE native
    BY DEF EnqueueMove
  <1>5. \/ native' = native /\ tor'[t].handle = tor[t].handle
        \/ \E r \in RegisteredRec : /\ r.handle = tor[t].handle
                                    /\ tor'[t].handle \in Unused
                                    /\ native' = NativeReloaded(native, r, tor'[t].handle)
    <2>1. CASE CancelReloads(rec)
      <3>1. f \in Unused
        BY <2>1 DEF HandlesFor
      <3>2. Cancelled(rec) \in RegisteredRec /\ Cancelled(rec).handle = tor[t].handle
        BY CancelledType
      <3> QED
        BY <1>2, <1>3, <1>4, <2>1, <3>1, <3>2
    <2>2. CASE ~CancelReloads(rec)
      BY <1>2, <1>3, <1>4, <2>2
    <2> QED
      BY <2>1, <2>2
  <1>6. Cardinality(ResumeIn(alerts')) = Cardinality(ResumeIn(alerts))
    <2> DEFINE job == [handle |-> rec.handle, path |-> newPath, context |-> context]
    <2>1. job \in MoveStorageJob
      BY DEF MoveStorageJob, RegisteredRec
    <2>2. alerts' = alerts \/ alerts' = alerts \o StartAlerts(job)
      BY DEF EnqueueMove
    <2> HIDE DEF job
    <2> QED
      BY <1>1, <2>1, <2>2, StartQuiet
  <1> QED
    BY <1>2, <1>3, <1>5, <1>6 DEF TorrentStep

-----------------------------------------------------------------------------
(* Requests.                                                               *)

LEMMA InitOwning == Init => Owning
  <1> SUFFICES ASSUME Init PROVE Owning
    OBVIOUS
  <1>1. OwedIn(native) = {} /\ ResumeIn(alerts) = {}
    BY DEF Init, OwedIn, OwedBy, ResumeIn
  <1>2. Counted(numResume, alerts, native)
    <2>1. numResume = 0
      BY DEF Init
    <2>2. IsFiniteSet({}) /\ Cardinality({}) = 0
      BY FS_EmptySet
    <2> QED
      BY <1>1, <2>1, <2>2 DEF Counted
  <1>3. \A h \in Handle : native[h].requests = 0 /\ native[h].flush = FALSE
    BY DEF Init
  <1>4. torrents = {}
    BY DEF Init
  <1>5. OwnsNative /\ \A t \in torrents : NoticeWaits(tor[t])
    BY <1>4 DEF OwnsNative
  <1> QED
    BY <1>2, <1>3, <1>5 DEF Owning

\* addTorrent, createTorrent: the first request of a new torrent is counted.
LEMMA AddTorrentOwning ==
    ASSUME Inv, Owning, NEW t \in Torrent, NEW l \in Layouts, NEW restored \in BOOLEAN,
           NEW h \in Handle, AddTorrent(t, l, restored, h)
    PROVE  Owning'
  <1> DEFINE fresh == NewNative(t, l.location, ~restored)
             new == [fresh EXCEPT !.requests = IF restored THEN 0 ELSE 1]
             rec == [Blank EXCEPT
                    !.handle = h, !.savePath = l.savePath,
                    !.downloadPath = l.downloadPath,
                    !.location = l.location, !.paramsPath = l.location,
                    !.finishedStorage = l.location = l.savePath]
  <1>1. /\ native \in [Handle -> NativeRec] /\ tor \in [Torrent -> TorrentRec]
        /\ \A u \in torrents : u \in Torrent /\ tor[u].handle \in Handle
        /\ numResume \in Int /\ alerts \in Seq(Alert)
    BY DEF Inv, Session, NativeLocated, Moves, RegisteredRec
  <1>2. /\ t \notin torrents /\ native[h].state = "unused"
        /\ torrents' = torrents \cup {t} /\ tor' = [tor EXCEPT ![t] = rec]
        /\ native' = [native EXCEPT ![h] = new]
        /\ numResume' = IF restored THEN numResume ELSE numResume + 1
        /\ phase' = phase /\ alerts' = alerts
    BY DEF AddTorrent, Unused
  <1>3. /\ new.state = "alive" /\ new.owner = t /\ new.flush = FALSE
        /\ new.requests = IF restored THEN 0 ELSE 1
    BY DEF NewNative
  <1>4. rec.handle = h /\ rec.notify = FALSE
    BY DEF Blank
  <1> HIDE DEF new, rec
  <1>5. /\ native'[h] = new /\ \A g \in Handle \ {h} : native'[g] = native[g]
        /\ tor'[t] = rec /\ \A u \in torrents : tor'[u] = tor[u]
    BY <1>1, <1>2
  <1>6. OwnsNative'
    <2>1. ASSUME NEW u \in torrents
          PROVE  native'[tor'[u].handle].state = "alive" /\ native'[tor'[u].handle].owner = u
      <3>1. native[tor[u].handle].state = "alive" /\ native[tor[u].handle].owner = u
        BY DEF Owning, OwnsNative
      <3> QED
        BY <1>1, <1>2, <1>5, <3>1
    <2>2. native'[tor'[t].handle].state = "alive" /\ native'[tor'[t].handle].owner = t
      BY <1>3, <1>4, <1>5
    <2> QED
      BY <1>2, <2>1, <2>2 DEF OwnsNative
  <1>7. \A u \in torrents' : NoticeWaits(tor'[u])
    BY <1>2, <1>4, <1>5 DEF NoticeWaits, Owning
  <1>8. native[h].requests = 0 /\ native[h].flush = FALSE
    <2>1. ~native[h].flush /\ native[h].requests = 0
      BY <1>2 DEF Owning
    <2>2. native[h].flush \in BOOLEAN
      BY <1>1 DEF NativeRec
    <2> QED
      BY <2>1, <2>2
  <1>9. Counted(numResume', alerts', native')
    <2>1. CASE restored
      <3>1. OwedIn(native') = OwedIn(native)
        BY <1>3, <1>5, <1>8, <2>1, OwedSame
      <3> QED
        BY <1>2, <2>1, <3>1 DEF Owning, Counted
    <2>2. CASE ~restored
      <3>1. \E x : OwedIn(native') = OwedIn(native) \cup {x} /\ x \notin OwedIn(native)
        <4>1. new \in NativeRec
          <5>1. NativeLocated(native')
            BY NextInv DEF Inv, Next, Request
          <5> QED
            BY <1>5, <5>1 DEF NativeLocated
        <4>2. native' \in [Handle -> NativeRec]
          BY <1>1, <1>2, <4>1
        <4>3. native'[h].requests = native[h].requests + 1
          BY <1>3, <1>5, <1>8, <2>2
        <4>4. native'[h].flush = native[h].flush
          BY <1>3, <1>5, <1>8
        <4> DEFINE nat == native'
        <4>5. /\ nat \in [Handle -> NativeRec] /\ \A g \in Handle \ {h} : nat[g] = native[g]
              /\ nat[h].requests = native[h].requests + 1 /\ nat[h].flush = native[h].flush
          BY <1>5, <4>2, <4>3, <4>4
        <4> HIDE DEF nat
        <4>6. /\ OwedIn(nat) = OwedIn(native) \cup {<<h, nat[h].requests>>}
              /\ <<h, nat[h].requests>> \notin OwedIn(native)
          BY <1>1, <4>5, OwedChanged
        <4> QED
          BY <4>6 DEF nat
      <3>2. PICK x : OwedIn(native') = OwedIn(native) \cup {x} /\ x \notin OwedIn(native)
        BY <3>1
      <3>3. IsFiniteSet(OwedIn(native)) /\ Cardinality(OwedIn(native)) \in Nat
        BY FS_CardinalityType DEF Owning, Counted
      <3>4. /\ IsFiniteSet(OwedIn(native'))
            /\ Cardinality(OwedIn(native')) = Cardinality(OwedIn(native)) + 1
        BY <3>2, <3>3, FS_AddElement
      <3>5. Cardinality(ResumeIn(alerts)) \in Nat
        BY <1>1, ResumeFinite
      <3> QED
        BY <1>2, <2>2, <3>3, <3>4, <3>5 DEF Owning, Counted
    <2> QED
      BY <2>1, <2>2
  <1>10. \A g \in Handle : /\ native'[g].state = "unused" => native'[g].requests = 0
                           /\ native'[g].flush => phase' # "running" /\ native'[g].state # "unused"
    BY <1>2, <1>3, <1>5 DEF Owning
  <1> QED
    BY <1>6, <1>7, <1>9, <1>10 DEF Owning

\* setSavePath, setDownloadPath and the requests of the torrents themselves.
LEMMA TorrentRequestStep ==
    ASSUME Inv, NEW t \in Torrent,
           \/ \E p \in Path : SetSavePath(t, p)
           \/ \E p \in MaybePath : SetDownloadPath(t, p)
           \/ TorrentFinished(t)
           \/ \E complete \in BOOLEAN : TorrentChecked(t, complete)
           \/ StartMissing(t)
    PROVE  TorrentStep(t)
  <1> DEFINE rec == tor[t]
  <1>1. /\ t \in torrents /\ UNCHANGED <<torrents, phase, numResume>>
        /\ rec \in RegisteredRec /\ rec \in TorrentRec
        /\ tor \in [Torrent -> TorrentRec] /\ alerts \in Seq(Alert)
    BY DEF SetSavePath, SetDownloadPath, TorrentFinished, TorrentChecked, StartMissing, Running,
           Inv, Session, Moves, RegisteredRec
  <1>2. ASSUME NEW new, tor' = [tor EXCEPT ![t] = new], new.handle = rec.handle,
               NoticeWaits(rec) => NoticeWaits(new), UNCHANGED <<native, alerts>>
        PROVE  TorrentStep(t)
    BY <1>1, <1>2 DEF TorrentStep
  <1>3. ASSUME NEW r \in RegisteredRec, r.handle = rec.handle, NoticeWaits(rec) => NoticeWaits(r),
               NEW f, f \in HandlesFor(r, AdjustReloads(r)), EnqueueAdjust(r, f),
               NEW new, tor' = [tor EXCEPT ![t] = new], new.handle = Adjusted(r, f).handle,
               NoticeWaits(Adjusted(r, f)) => NoticeWaits(new)
        PROVE  TorrentStep(t)
    <2>1. CASE NeedsAdjust(r)
      <3>1. AdjustTarget(r) \in Path /\ "AdjustCurrentLocation" \in Context
        BY <1>3, <2>1, AdjustedType, HandlesForType DEF Context
      <3>2. /\ EnqueueMove(r, AdjustTarget(r), "AdjustCurrentLocation", f)
            /\ Adjusted(r, f) = MoveRequested(r, AdjustTarget(r), f)
            /\ AdjustReloads(r) = CancelReloads(r)
        BY <1>3, <2>1 DEF EnqueueAdjust, Adjusted, AdjustReloads, CancelReloads
      <3> QED
        BY <1>1, <1>3, <3>1, <3>2, MoveIsTorrentStep
    <2>2. CASE ~NeedsAdjust(r)
      BY <1>1, <1>2, <1>3, <2>2 DEF EnqueueAdjust, Adjusted
    <2> QED
      BY <2>1, <2>2
  <1>4. ASSUME NEW p \in Path, SetSavePath(t, p)
        PROVE  TorrentStep(t)
    <2>1. CASE ShouldUseDownloadPath(rec)
      <3>1. tor' = [tor EXCEPT ![t] = [rec EXCEPT !.savePath = p, !.deferred = TRUE]]
            /\ UNCHANGED <<native, alerts>>
        BY <1>4, <2>1 DEF SetSavePath
      <3>2. /\ [rec EXCEPT !.savePath = p, !.deferred = TRUE].handle = rec.handle
            /\ NoticeWaits(rec) => NoticeWaits([rec EXCEPT !.savePath = p, !.deferred = TRUE])
        BY <1>1 DEF TorrentRec, NoticeWaits
      <3> QED
        BY <1>2, <3>1, <3>2
    <2>2. CASE ~ShouldUseDownloadPath(rec)
      <3>1. PICK f \in HandlesFor(rec, CancelReloads(rec)) :
                /\ tor' = [tor EXCEPT ![t] = MoveRequested(rec, p, f)]
                /\ EnqueueMove(rec, p, "ChangeSavePath", f)
        BY <1>4, <2>2 DEF SetSavePath
      <3> QED
        BY <1>1, <1>4, <3>1, MoveIsTorrentStep DEF Context
    <2> QED
      BY <2>1, <2>2
  <1>5. ASSUME NEW p \in MaybePath, SetDownloadPath(t, p)
        PROVE  TorrentStep(t)
    <2>1. CASE ~ShouldUseDownloadPath(rec)
      <3>1. tor' = [tor EXCEPT ![t] = [rec EXCEPT !.downloadPath = p, !.deferred = TRUE]]
            /\ UNCHANGED <<native, alerts>>
        BY <1>5, <2>1 DEF SetDownloadPath
      <3>2. /\ [rec EXCEPT !.downloadPath = p, !.deferred = TRUE].handle = rec.handle
            /\ NoticeWaits(rec) => NoticeWaits([rec EXCEPT !.downloadPath = p, !.deferred = TRUE])
        BY <1>1 DEF TorrentRec, NoticeWaits
      <3> QED
        BY <1>2, <3>1, <3>2
    <2>2. CASE ShouldUseDownloadPath(rec)
      <3> DEFINE target == IF p = NoPath THEN rec.savePath ELSE p
      <3>1. target \in Path
        BY <1>1, <1>5 DEF RegisteredRec, MaybePath
      <3>2. PICK f \in HandlesFor(rec, CancelReloads(rec)) :
                /\ tor' = [tor EXCEPT ![t] = MoveRequested(rec, target, f)]
                /\ EnqueueMove(rec, target, "ChangeDownloadPath", f)
        BY <1>5, <2>2 DEF SetDownloadPath
      <3> QED
        BY <1>1, <3>1, <3>2, MoveIsTorrentStep DEF Context
    <2> QED
      BY <2>1, <2>2
  <1>6. CASE TorrentFinished(t)
    <2> DEFINE r0 == [rec EXCEPT !.missing = FALSE, !.recovered = FALSE, !.finished = TRUE]
               r == Promoted(r0)
    <2>1. r0 \in RegisteredRec /\ r0.handle = rec.handle
          /\ r0.notify = rec.notify /\ r0.moving = rec.moving
      BY <1>1 DEF RegisteredRec, TorrentRec
    <2> HIDE DEF r0
    <2>2. r \in RegisteredRec /\ r.handle = rec.handle /\ (NoticeWaits(rec) => NoticeWaits(r))
      BY <2>1 DEF Promoted, RegisteredRec, TorrentRec, NoticeWaits
    <2> HIDE DEF r
    <2>3. PICK f \in HandlesFor(r, AdjustReloads(r)) :
              /\ tor' = [tor EXCEPT ![t] =
                           [[Adjusted(r, f) EXCEPT !.deferred = TRUE] EXCEPT
                               !.notify = [Adjusted(r, f) EXCEPT !.deferred = TRUE].moving]]
              /\ EnqueueAdjust(r, f)
      BY <1>6 DEF TorrentFinished, r, r0
    <2> DEFINE moved == [Adjusted(r, f) EXCEPT !.deferred = TRUE]
               new == [moved EXCEPT !.notify = moved.moving]
    <2>4. f \in Handle /\ Adjusted(r, f) \in RegisteredRec
      BY <2>2, <2>3, HandlesForType, AdjustedType
    <2>5. moved \in TorrentRec /\ moved.handle = Adjusted(r, f).handle
      BY <2>4 DEF RegisteredRec, TorrentRec
    <2> HIDE DEF moved
    <2>6. new.handle = Adjusted(r, f).handle /\ NoticeWaits(new)
      BY <2>5 DEF TorrentRec, NoticeWaits
    <2>7. tor' = [tor EXCEPT ![t] = new]
      BY <2>3 DEF moved
    <2> HIDE DEF new
    <2> QED
      BY <1>3, <2>2, <2>3, <2>6, <2>7
  <1>7. ASSUME NEW complete \in BOOLEAN, TorrentChecked(t, complete)
        PROVE  TorrentStep(t)
    <2> DEFINE r0 == [rec EXCEPT !.finished = complete]
               r == Promoted(r0)
    <2>1. r0 \in RegisteredRec /\ r0.handle = rec.handle
          /\ r0.notify = rec.notify /\ r0.moving = rec.moving
      BY <1>1 DEF RegisteredRec, TorrentRec
    <2> HIDE DEF r0
    <2>2. r \in RegisteredRec /\ r.handle = rec.handle /\ (NoticeWaits(rec) => NoticeWaits(r))
      BY <2>1 DEF Promoted, RegisteredRec, TorrentRec, NoticeWaits
    <2> HIDE DEF r
    <2> DEFINE dirty == native[rec.handle].dirty
    <2>8. CASE rec.missing
      <3> DEFINE new == [rec EXCEPT !.deferred = @ \/ dirty]
      <3>1. tor' = [tor EXCEPT ![t] = new] /\ UNCHANGED <<native, alerts>>
        BY <1>7, <2>8 DEF TorrentChecked
      <3>2. new.handle = rec.handle /\ (NoticeWaits(rec) => NoticeWaits(new))
        BY <1>1 DEF TorrentRec, NoticeWaits
      <3> HIDE DEF new
      <3> QED
        BY <1>2, <3>1, <3>2
    <2> SUFFICES ASSUME ~rec.missing PROVE TorrentStep(t)
      BY <2>8
    <2>3. PICK f \in HandlesFor(r, AdjustReloads(r)) :
              /\ tor' = [tor EXCEPT ![t] = [Adjusted(r, f) EXCEPT !.deferred = @ \/ dirty]]
              /\ EnqueueAdjust(r, f)
      BY <1>7 DEF TorrentChecked, r, r0
    <2> DEFINE new == [Adjusted(r, f) EXCEPT !.deferred = @ \/ dirty]
    <2>4. f \in Handle /\ Adjusted(r, f) \in RegisteredRec
      BY <2>2, <2>3, HandlesForType, AdjustedType
    <2>5. new.handle = Adjusted(r, f).handle /\ (NoticeWaits(Adjusted(r, f)) => NoticeWaits(new))
      BY <2>4 DEF RegisteredRec, TorrentRec, NoticeWaits
    <2>6. tor' = [tor EXCEPT ![t] = new]
      BY <2>3
    <2> HIDE DEF new
    <2> QED
      BY <1>3, <2>2, <2>3, <2>5, <2>6
  <1>8. CASE StartMissing(t)
    <2> DEFINE r == [rec EXCEPT !.missing = FALSE, !.recovered = FALSE]
               recovered == rec.recovered
    <2>1. /\ r \in RegisteredRec /\ r \in TorrentRec /\ r.handle = rec.handle
          /\ NoticeWaits(rec) => NoticeWaits(r)
      BY <1>1 DEF RegisteredRec, TorrentRec, NoticeWaits
    <2>2. CASE recovered
      <3>1. tor' = [tor EXCEPT ![t] = [r EXCEPT !.deferred = TRUE]] /\ UNCHANGED <<native, alerts>>
        BY <1>8, <2>2 DEF StartMissing
      <3> HIDE DEF r
      <3>2. /\ [r EXCEPT !.deferred = TRUE].handle = rec.handle
            /\ NoticeWaits(r) => NoticeWaits([r EXCEPT !.deferred = TRUE])
        BY <2>1 DEF TorrentRec, NoticeWaits
      <3> QED
        BY <1>2, <2>1, <3>1, <3>2
    <2>3. CASE ~recovered
      <3>1. PICK f \in Unused : /\ tor' = [tor EXCEPT ![t] = Reloaded(r, f)]
                               /\ native' = NativeReloaded(native, r, f)
                               /\ alerts' = alerts
        BY <1>8, <2>3 DEF StartMissing, HandlesFor
      <3> HIDE DEF r
      <3>2. Reloaded(r, f).handle = f /\ (NoticeWaits(r) => NoticeWaits(Reloaded(r, f)))
        BY <2>1 DEF Reloaded, TorrentRec, NoticeWaits
      <3>3. tor'[t] = Reloaded(r, f) /\ \A u \in torrents \ {t} : tor'[u] = tor[u]
        BY <1>1, <3>1 DEF Inv, Session
      <3> QED
        BY <1>1, <2>1, <3>1, <3>2, <3>3 DEF TorrentStep
    <2> QED
      BY <2>2, <2>3
  <1> QED
    BY <1>4, <1>5, <1>6, <1>7, <1>8

\* A step after which no native torrent that belongs to a torrent is gone, and that
\* counts the answers posted or handled.
LEMMA OthersOwning ==
    ASSUME Inv, Owning, torrents' \subseteq torrents,
           \A t \in torrents' : /\ tor'[t].handle = tor[t].handle
                                /\ NoticeWaits(tor[t]) => NoticeWaits(tor'[t]),
           phase' = phase \/ phase' # "running",
           \A h \in Handle :
                /\ native'[h].owner = native[h].owner
                /\ native'[h].requests = native[h].requests
                /\ native'[h].flush <=> native[h].flush
                /\ \/ native'[h].state = native[h].state
                   \/ /\ native'[h].state # "unused" /\ native[h].state # "unused"
                      /\ \A t \in torrents' : tor[t].handle # h,
           numResume' - numResume
               = Cardinality(ResumeIn(alerts')) - Cardinality(ResumeIn(alerts)),
           alerts' \in Seq(Alert), numResume' \in Int
    PROVE  Owning'
  <1>1. /\ numResume \in Int /\ alerts \in Seq(Alert)
        /\ \A t \in torrents : tor[t].handle \in Handle
    BY DEF Inv, Session, Moves, RegisteredRec
  <1>2. OwnsNative'
    <2>1. ASSUME NEW t \in torrents'
          PROVE  native'[tor'[t].handle].state = "alive" /\ native'[tor'[t].handle].owner = t
      <3>1. /\ native[tor[t].handle].state = "alive" /\ native[tor[t].handle].owner = t
            /\ tor[t].handle \in Handle
        BY <1>1 DEF Owning, OwnsNative
      <3> QED
        BY <3>1
    <2> QED
      BY <2>1 DEF OwnsNative
  <1>3. OwedIn(native') = OwedIn(native)
    BY OwedSame
  <1>4. IsFiniteSet(OwedIn(native)) /\ Cardinality(OwedIn(native)) \in Nat
    BY FS_CardinalityType DEF Owning, Counted
  <1>5. /\ Cardinality(ResumeIn(alerts)) \in Nat /\ Cardinality(ResumeIn(alerts')) \in Nat
    BY <1>1, ResumeFinite
  <1>6. Counted(numResume', alerts', native')
    BY <1>1, <1>3, <1>4, <1>5 DEF Owning, Counted
  <1>7. \A t \in torrents' : NoticeWaits(tor'[t])
    BY DEF Owning
  <1>8. \A h \in Handle : /\ native'[h].state = "unused" => native'[h].requests = 0
                          /\ native'[h].flush => phase' # "running" /\ native'[h].state # "unused"
    BY DEF Owning
  <1> QED
    BY <1>2, <1>6, <1>7, <1>8 DEF Owning

\* removeTorrent leaves the other torrents what they own.
LEMMA RemoveTorrentOwning ==
    ASSUME Inv, Owning, NEW t \in Torrent, NEW option \in RemoveOptions, RemoveTorrent(t, option)
    PROVE  Owning'
  <1> DEFINE h == tor[t].handle
  <1>1. /\ native \in [Handle -> NativeRec] /\ tor \in [Torrent -> TorrentRec]
        /\ numResume \in Int /\ alerts \in Seq(Alert) /\ torrents \subseteq Torrent
    BY DEF Inv, Session, NativeLocated, Moves
  <1>2. /\ t \in torrents /\ torrents' = torrents \ {t} /\ tor' = [tor EXCEPT ![t] = Blank]
        /\ (native' = native \/ native' = Closed(native, h))
        /\ numResume' = numResume /\ phase' = phase /\ alerts' = alerts
    BY DEF RemoveTorrent
  <1>3. \A u \in torrents : tor[u].handle \in Handle /\ native[tor[u].handle].owner = u
    BY DEF Inv, Session, RegisteredRec, Owning, OwnsNative
  <1>4. h \in Handle /\ \A u \in torrents' : tor[u].handle # h
    BY <1>2, <1>3
  <1>5. \A u \in torrents' : tor'[u] = tor[u]
    BY <1>1, <1>2
  <1> HIDE DEF h
  <1>6. ASSUME NEW g \in Handle
        PROVE  /\ native'[g].owner = native[g].owner
               /\ native'[g].requests = native[g].requests
               /\ native'[g].flush <=> native[g].flush
               /\ \/ native'[g].state = native[g].state
                  \/ /\ native'[g].state # "unused" /\ native[g].state # "unused"
                     /\ \A u \in torrents' : tor[u].handle # g
    <2>1. CASE native' = native
      BY <2>1
    <2>2. CASE native' = Closed(native, h)
      <3>1. /\ native'[g].owner = native[g].owner
            /\ native'[g].requests = native[g].requests
            /\ native'[g].flush = native[g].flush
            /\ native'[g].state = IF g = h /\ native[h].state = "alive" THEN "closing"
                                  ELSE native[g].state
        BY <1>1, <1>4, <2>2, ClosedFields
      <3> QED
        BY <1>4, <3>1
    <2> QED
      BY <1>2, <2>1, <2>2
  <1>7. /\ numResume' - numResume = 0 /\ Cardinality(ResumeIn(alerts)) \in Nat
        /\ alerts' \in Seq(Alert) /\ numResume' \in Int
    BY <1>1, <1>2, ResumeFinite
  <1>8. numResume' - numResume = Cardinality(ResumeIn(alerts')) - Cardinality(ResumeIn(alerts))
    BY <1>2, <1>7
  <1> QED
    BY <1>2, <1>5, <1>6, <1>7, <1>8, OthersOwning

-----------------------------------------------------------------------------
(* Alerts.                                                                 *)

\* handleMoveTorrentStorageJobFinished
LEMMA FinishHeadJobOwning ==
    ASSUME Inv, Owning, alerts # <<>>, IsMoveAlert(Head(alerts)),
           NEW newPath, OwnerOf(Head(queue).handle) \in torrents => newPath \in Path,
           FinishHeadJob(newPath), UNCHANGED <<torrents, numResume, phase>>
    PROVE  Owning'
  <1> DEFINE job == Head(queue)
             rest == Tail(queue)
             id == OwnerOf(job.handle)
             outstanding == HasOutstanding(rest, job.handle)
             registered == id \in torrents
             reloads == registered /\ ReloadsAfterMove(tor[id], outstanding)
             done == MoveRecorded(tor[id], newPath, job.context, outstanding)
  <1>1. /\ native \in [Handle -> NativeRec] /\ tor \in [Torrent -> TorrentRec]
        /\ numResume \in Int /\ alerts \in Seq(Alert) /\ torrents \subseteq Torrent
        /\ queue \in Seq(MoveStorageJob) /\ queue # <<>> /\ rest \in Seq(MoveStorageJob)
        /\ \A u \in torrents : /\ tor[u] \in RegisteredRec /\ tor[u].handle \in Handle
                               /\ native[tor[u].handle].owner = u
    BY MovesFinish DEF Inv, Session, NativeLocated, Moves, RegisteredRec, Owning, OwnsNative
  <1>2. job \in MoveStorageJob /\ job.handle \in Handle
    <2>1. job \in MoveStorageJob
      BY <1>1, TailElements
    <2> QED
      BY <2>1 DEF MoveStorageJob
  <1>3. /\ Cardinality(ResumeIn(alerts')) = Cardinality(ResumeIn(alerts))
        /\ alerts' \in Seq(Alert) /\ Cardinality(ResumeIn(alerts)) \in Nat
    <2>1. Tail(alerts) \in Seq(Alert) /\ Cardinality(ResumeIn(alerts)) \in Nat
      BY <1>1, ResumeFinite, HeadTailProperties
    <2>2. Cardinality(ResumeIn(Tail(alerts))) = Cardinality(ResumeIn(alerts))
      BY <1>1, <2>1, ResumeHandled DEF IsMoveAlert, IsResumeAlert
    <2>3. alerts' \in Seq(Alert)
      BY FinishHeadJobMoves DEF Inv, Moves
    <2>4. CASE rest = <<>>
      <3>1. alerts' = Tail(alerts) \o <<>>
        BY <2>4 DEF FinishHeadJob
      <3> QED
        BY <2>1, <2>2, <2>3, <3>1, ConcatEmptySeq
    <2>5. CASE rest # <<>>
      <3>1. alerts' = Tail(alerts) \o StartAlerts(Head(rest)) /\ Head(rest) \in MoveStorageJob
        BY <1>1, <2>5, HeadTailProperties DEF FinishHeadJob
      <3> QED
        BY <2>1, <2>2, <2>3, <3>1, StartQuiet
    <2> QED
      BY <2>4, <2>5
  <1>4. \/ UNCHANGED <<tor, native>>
        \/ /\ registered
           /\ \E f \in HandlesFor(tor[id], reloads) :
                /\ tor' = [tor EXCEPT ![id] = IF reloads THEN Reloaded(done, f) ELSE done]
                /\ native' = IF reloads THEN NativeReloaded(native, done, f) ELSE native
        \/ /\ ~registered /\ UNCHANGED tor
           /\ native' = Closed(native, job.handle)
    BY DEF FinishHeadJob
  <1>5. outstanding \in BOOLEAN
    BY DEF HasOutstanding
  <1>6. OwnerOf(job.handle) = IF native[job.handle].state \in {"alive", "closing"}
                              THEN native[job.handle].owner ELSE NoTorrent
    BY DEF OwnerOf
  <1>7. registered => newPath \in Path
    OBVIOUS
  <1>8. numResume' - numResume = Cardinality(ResumeIn(alerts')) - Cardinality(ResumeIn(alerts))
        /\ numResume' \in Int
    BY <1>1, <1>3
  <1> HIDE DEF rest, outstanding, job
  <1>9. CASE UNCHANGED <<tor, native>>
    BY <1>3, <1>8, <1>9, OthersOwning
  <1>10. ASSUME registered, NEW f \in HandlesFor(tor[id], reloads),
                tor' = [tor EXCEPT ![id] = IF reloads THEN Reloaded(done, f) ELSE done],
                native' = IF reloads THEN NativeReloaded(native, done, f) ELSE native
         PROVE  Owning'
    <2>1. /\ done \in RegisteredRec /\ done.handle = tor[id].handle
          /\ NoticeWaits(tor[id]) => NoticeWaits(done)
      <3>1. tor[id] \in RegisteredRec
        BY <1>1, <1>10
      <3>2. done \in RegisteredRec /\ done.handle = tor[id].handle
        BY <1>5, <1>7, <1>10, <3>1, MoveRecordedType
      <3>3. /\ done.moving = outstanding
            /\ outstanding => done.notify = tor[id].notify
            /\ ~outstanding => ~done.notify
        BY <1>5, <1>7, <1>10, <3>1, MoveRecordedFields
      <3> HIDE DEF done, id
      <3> QED
        BY <3>2, <3>3 DEF NoticeWaits
    <2> HIDE DEF done, id, reloads
    <2>2. CASE reloads
      <3>1. f \in Unused
        BY <1>10, <2>2 DEF HandlesFor
      <3>2. Reloaded(done, f).handle = f /\ (NoticeWaits(done) => NoticeWaits(Reloaded(done, f)))
        BY <2>1 DEF Reloaded, RegisteredRec, TorrentRec, NoticeWaits
      <3>3. tor'[id] = Reloaded(done, f) /\ \A u \in torrents \ {id} : tor'[u] = tor[u]
        BY <1>1, <1>10, <2>2
      <3>4. TorrentStep(id)
        BY <1>3, <1>10, <2>1, <2>2, <3>1, <3>2, <3>3 DEF TorrentStep
      <3> QED
        BY <3>4, TorrentStepOwning
    <2>3. CASE ~reloads
      <3>1. tor'[id] = done /\ \A u \in torrents \ {id} : tor'[u] = tor[u]
        BY <1>1, <1>10, <2>3
      <3>2. TorrentStep(id)
        BY <1>3, <1>10, <2>1, <2>3, <3>1 DEF TorrentStep
      <3> QED
        BY <3>2, TorrentStepOwning
    <2> QED
      BY <2>2, <2>3
  <1>11. ASSUME ~registered, UNCHANGED tor, native' = Closed(native, job.handle)
         PROVE  Owning'
    <2>1. ASSUME NEW g \in Handle
          PROVE  /\ native'[g].owner = native[g].owner
                 /\ native'[g].requests = native[g].requests
                 /\ native'[g].flush <=> native[g].flush
                 /\ \/ native'[g].state = native[g].state
                    \/ /\ native'[g].state # "unused" /\ native[g].state # "unused"
                       /\ \A u \in torrents' : tor[u].handle # g
      <3>1. /\ native'[g].owner = native[g].owner
            /\ native'[g].requests = native[g].requests
            /\ native'[g].flush = native[g].flush
            /\ native'[g].state = IF g = job.handle /\ native[job.handle].state = "alive"
                                  THEN "closing" ELSE native[g].state
        BY <1>1, <1>2, <1>11, ClosedFields
      <3>2. native[job.handle].state = "alive" => native[job.handle].owner \notin torrents
        BY <1>6, <1>11
      <3>3. native[job.handle].state = "alive" => \A u \in torrents : tor[u].handle # job.handle
        BY <1>1, <3>2
      <3> QED
        BY <3>1, <3>3
    <2> HIDE DEF registered
    <2> QED
      BY <1>3, <1>8, <1>11, <2>1, OthersOwning
  <1> QED
    BY <1>4, <1>9, <1>10, <1>11

LEMMA HandleAlertOwning == Inv /\ Owning /\ HandleAlert => Owning'
  <1> SUFFICES ASSUME Inv, Owning, HandleAlert PROVE Owning'
    OBVIOUS
  <1>1. /\ tor \in [Torrent -> TorrentRec] /\ torrents \subseteq Torrent
        /\ \A t \in torrents : tor[t] \in RegisteredRec /\ tor[t] \in TorrentRec
        /\ numResume \in Int /\ alerts \in Seq(Alert)
        /\ Cardinality(ResumeIn(alerts)) \in Nat
    BY ResumeFinite DEF Inv, Session, Moves, RegisteredRec
  <1>2. alerts # <<>> => /\ Head(alerts) \in Alert /\ Tail(alerts) \in Seq(Alert)
                         /\ Head(alerts).type = "moved" => Head(alerts).path \in Path
    <2>1. alerts # <<>> => /\ Head(alerts) = alerts[1] /\ 1 \in DOMAIN alerts
                           /\ Head(alerts) \in Alert /\ Tail(alerts) \in Seq(Alert)
      BY <1>1, TailElements
    <2> QED
      BY <2>1 DEF Inv, Moves
  <1>3. ASSUME alerts # <<>>, alerts' = Tail(alerts), torrents' = torrents, phase' = phase,
               \A t \in torrents : /\ tor'[t].handle = tor[t].handle
                                   /\ NoticeWaits(tor[t]) => NoticeWaits(tor'[t]),
               native' = native,
               numResume' = numResume - IF IsResumeAlert(Head(alerts)) THEN 1 ELSE 0
        PROVE  Owning'
    <2>1. Cardinality(ResumeIn(alerts')) =
              Cardinality(ResumeIn(alerts)) - IF IsResumeAlert(Head(alerts)) THEN 1 ELSE 0
      BY <1>1, <1>3, ResumeHandled
    <2>2. numResume' - numResume
              = Cardinality(ResumeIn(alerts')) - Cardinality(ResumeIn(alerts))
          /\ numResume' \in Int
      BY <1>1, <1>3, <2>1
    <2> QED
      BY <1>1, <1>2, <1>3, <2>2, OthersOwning
  <1>4. CASE HandleMoved
    <2>1. alerts # <<>> /\ Head(alerts).type = "moved" /\ FinishHeadJob(Head(alerts).path)
          /\ UNCHANGED <<torrents, numResume, stored, phase>>
      BY <1>4 DEF HandleMoved, NextAlert
    <2> QED
      BY <1>2, <2>1, FinishHeadJobOwning DEF IsMoveAlert
  <1>5. CASE HandleMoveFailed
    <2> DEFINE h == Head(queue).handle
    <2>1. /\ alerts # <<>> /\ Head(alerts).type = "move_failed"
          /\ UNCHANGED <<torrents, numResume, stored, phase>>
      BY <1>5 DEF HandleMoveFailed, NextAlert
    <2>2. \/ /\ alerts' = Tail(alerts) /\ UNCHANGED <<tor, queue, removing, native, ops>>
          \/ FinishHeadJob(FailedLocation(h))
      BY <1>5 DEF HandleMoveFailed
    <2>3. OwnerOf(h) \in torrents => FailedLocation(h) \in Path
      BY <1>1 DEF FailedLocation, RegisteredRec
    <2> HIDE DEF h
    <2>4. CASE alerts' = Tail(alerts) /\ UNCHANGED <<tor, queue, removing, native, ops>>
      <3>1. ~IsResumeAlert(Head(alerts))
        BY <2>1 DEF IsResumeAlert
      <3>2. numResume' = numResume - 0
        BY <1>1, <2>1
      <3> QED
        BY <1>3, <2>1, <2>4, <3>1, <3>2
    <2>5. CASE FinishHeadJob(FailedLocation(h))
      BY <2>1, <2>3, <2>5, FinishHeadJobOwning DEF IsMoveAlert, h
    <2> QED
      BY <2>2, <2>4, <2>5
  <1>6. ASSUME alerts # <<>>, Head(alerts).type \in {"deleted", "rejected", "status"},
               alerts' = Tail(alerts), UNCHANGED <<torrents, numResume, phase, native>>,
               \A t \in torrents : /\ tor'[t].handle = tor[t].handle
                                   /\ NoticeWaits(tor[t]) => NoticeWaits(tor'[t])
        PROVE  Owning'
    <2>1. ~IsResumeAlert(Head(alerts)) /\ numResume' = numResume - 0
      BY <1>1, <1>6 DEF IsResumeAlert
    <2> QED
      BY <1>3, <1>6, <2>1
  <1>7. CASE HandleDeleted
    BY <1>6, <1>7 DEF HandleDeleted, NextAlert
  <1>8. ASSUME NEW id, NEW rec, tor' = [tor EXCEPT ![id] = rec],
               id \in torrents => /\ rec.handle = tor[id].handle
                                  /\ rec.notify = tor[id].notify /\ rec.moving = tor[id].moving
        PROVE  \A t \in torrents : /\ tor'[t].handle = tor[t].handle
                                   /\ NoticeWaits(tor[t]) => NoticeWaits(tor'[t])
    <2> TAKE t \in torrents
    <2>1. CASE t = id
      <3>1. tor'[t] = rec
        BY <1>1, <1>8, <2>1
      <3> QED
        BY <1>8, <2>1, <3>1 DEF NoticeWaits
    <2>2. CASE t # id
      BY <1>1, <1>8, <2>2
    <2> QED
      BY <2>1, <2>2
  <1>9. CASE HandleFastResumeRejected
    <2> DEFINE id == OwnerOf(Head(alerts).handle)
    <2>1. /\ alerts # <<>> /\ Head(alerts).type = "rejected" /\ alerts' = Tail(alerts)
          /\ UNCHANGED <<torrents, numResume, phase>>
      BY <1>9 DEF HandleFastResumeRejected, NextAlert
    <2>2. \/ UNCHANGED <<tor, native>>
          \/ /\ id \in torrents /\ UNCHANGED native
             /\ tor' = [tor EXCEPT ![id] = Rejected(tor[id])]
          \/ /\ id \in torrents
             /\ \E f \in Unused : /\ tor' = [tor EXCEPT ![id] = Recovered(tor[id], f)]
                                 /\ native' = NativeRecovered(native, tor[id], f)
      BY <1>9 DEF HandleFastResumeRejected
    <2> HIDE DEF id
    <2>3. CASE UNCHANGED <<tor, native>>
      BY <1>6, <2>1, <2>3
    <2>4. CASE /\ id \in torrents /\ UNCHANGED native
               /\ tor' = [tor EXCEPT ![id] = Rejected(tor[id])]
      <3> DEFINE rec == Rejected(tor[id])
      <3>1. rec.handle = tor[id].handle /\ rec.notify = tor[id].notify /\ rec.moving = tor[id].moving
        BY <1>1, <2>4 DEF Rejected, TorrentRec
      <3> HIDE DEF rec
      <3>2. \A t \in torrents : /\ tor'[t].handle = tor[t].handle
                                /\ NoticeWaits(tor[t]) => NoticeWaits(tor'[t])
        BY <1>8, <2>4, <3>1 DEF rec
      <3> QED
        BY <1>6, <2>1, <2>4, <3>2
    <2>5. ASSUME id \in torrents, NEW f \in Unused,
                 tor' = [tor EXCEPT ![id] = Recovered(tor[id], f)],
                 native' = NativeRecovered(native, tor[id], f)
          PROVE  Owning'
      <3>1. tor[id] \in RegisteredRec /\ tor[id] \in TorrentRec /\ f \in Handle
        BY <1>1, <2>5 DEF Unused
      <3>2. /\ Recovered(tor[id], f).handle = f
            /\ NoticeWaits(tor[id]) => NoticeWaits(Recovered(tor[id], f))
        BY <3>1 DEF Recovered, Reloaded, TorrentRec, NoticeWaits
      <3>3. tor'[id] = Recovered(tor[id], f) /\ \A u \in torrents \ {id} : tor'[u] = tor[u]
        BY <1>1, <2>5
      <3>4. Cardinality(ResumeIn(alerts')) = Cardinality(ResumeIn(alerts))
        BY <1>1, <2>1, ResumeHandled DEF IsResumeAlert
      <3>5. TorrentStep(id)
        BY <2>1, <2>5, <3>1, <3>2, <3>3, <3>4 DEF TorrentStep
      <3> QED
        BY <3>5, TorrentStepOwning
    <2> QED
      BY <2>2, <2>3, <2>4, <2>5
  <1>10. CASE HandleStateUpdate
    <2> DEFINE id == OwnerOf(Head(alerts).handle)
               rec == [tor[id] EXCEPT !.location = Head(alerts).path]
    <2>1. tor' = tor \/ (id \in torrents /\ tor' = [tor EXCEPT ![id] = rec])
      BY <1>10 DEF HandleStateUpdate
    <2>2. id \in torrents => /\ rec.handle = tor[id].handle
                             /\ rec.notify = tor[id].notify /\ rec.moving = tor[id].moving
      BY <1>1 DEF TorrentRec
    <2> HIDE DEF id, rec
    <2>3. \A t \in torrents : /\ tor'[t].handle = tor[t].handle
                              /\ NoticeWaits(tor[t]) => NoticeWaits(tor'[t])
      BY <1>8, <2>1, <2>2
    <2> QED
      BY <1>6, <1>10, <2>3 DEF HandleStateUpdate, NextAlert
  <1>11. CASE HandleSaveResumeData
    <2> DEFINE id == OwnerOf(Head(alerts).handle)
               rec == [tor[id] EXCEPT !.paramsPath = Head(alerts).path]
    <2>1. tor' = tor \/ (id \in torrents /\ tor' = [tor EXCEPT ![id] = rec])
      BY <1>11 DEF HandleSaveResumeData
    <2>2. id \in torrents => /\ rec.handle = tor[id].handle
                             /\ rec.notify = tor[id].notify /\ rec.moving = tor[id].moving
      BY <1>1 DEF TorrentRec
    <2> HIDE DEF id, rec
    <2>3. \A t \in torrents : /\ tor'[t].handle = tor[t].handle
                              /\ NoticeWaits(tor[t]) => NoticeWaits(tor'[t])
      BY <1>8, <2>1, <2>2
    <2>4. alerts # <<>> /\ IsResumeAlert(Head(alerts)) /\ numResume' = numResume - 1
          /\ alerts' = Tail(alerts) /\ UNCHANGED <<torrents, phase, native>>
      BY <1>11 DEF HandleSaveResumeData, NextAlert, NumResumeAfter, IsResumeAlert
    <2> QED
      BY <1>3, <2>3, <2>4
  <1> QED
    BY <1>4, <1>5, <1>7, <1>9, <1>10, <1>11 DEF HandleAlert

-----------------------------------------------------------------------------
(* Requests for resume data, and libtorrent's threads.                     *)

\* A request for resume data of the native torrent h is made or answered.
LEMMA AnswerOwning ==
    ASSUME Inv, Owning, NEW h \in Handle, native[h].state # "unused",
           torrents' = torrents, phase' = phase,
           \A t \in torrents : /\ tor'[t].handle = tor[t].handle
                               /\ NoticeWaits(tor[t]) => NoticeWaits(tor'[t]),
           NEW nat \in [Handle -> NativeRec], native' = nat,
           \A g \in Handle \ {h} : nat[g] = native[g],
           nat[h].state = native[h].state, nat[h].owner = native[h].owner,
           nat[h].flush => native[h].flush,
           Counted(numResume', alerts', nat)
    PROVE  Owning'
  <1>1. \A t \in torrents : tor[t].handle \in Handle
    BY DEF Inv, Session, RegisteredRec
  <1>2. \A g \in Handle : nat[g].state = native[g].state /\ nat[g].owner = native[g].owner
                          /\ (nat[g].flush => native[g].flush)
    OBVIOUS
  <1>3. OwnsNative'
    BY <1>1, <1>2 DEF Owning, OwnsNative
  <1>4. \A t \in torrents' : NoticeWaits(tor'[t])
    BY DEF Owning
  <1>5. \A g \in Handle : /\ nat[g].state = "unused" => nat[g].requests = 0
                          /\ nat[g].flush => phase # "running" /\ nat[g].state # "unused"
    BY <1>2 DEF Owning
  <1> QED
    BY <1>3, <1>4, <1>5 DEF Owning

\* The event posted by deferredRequestResumeData
LEMMA DeferredRequestOwning ==
    ASSUME Inv, Owning, NEW t \in Torrent, RunDeferredRequest(t)
    PROVE  Owning'
  <1> DEFINE h == tor[t].handle
             rec == [tor[t] EXCEPT !.deferred = FALSE]
             nat == [native EXCEPT ![h].requests = @ + 1]
  <1>1. /\ native \in [Handle -> NativeRec] /\ tor \in [Torrent -> TorrentRec]
        /\ numResume \in Int /\ alerts \in Seq(Alert)
        /\ Cardinality(ResumeIn(alerts)) \in Nat
        /\ t \in torrents /\ torrents' = torrents /\ phase' = phase
        /\ tor' = [tor EXCEPT ![t] = rec]
        /\ native' = nat /\ numResume' = numResume + 1 /\ alerts' = alerts
    BY ResumeFinite DEF RunDeferredRequest, Inv, Session, NativeLocated, Moves
  <1>2. h \in Handle /\ native[h].state = "alive"
    BY <1>1 DEF Inv, Session, RegisteredRec, Owning, OwnsNative
  <1>3. \A u \in torrents : /\ tor'[u].handle = tor[u].handle
                            /\ NoticeWaits(tor[u]) => NoticeWaits(tor'[u])
    <2>1. rec.handle = tor[t].handle /\ rec.notify = tor[t].notify /\ rec.moving = tor[t].moving
      BY <1>1 DEF TorrentRec
    <2>2. \A u \in torrents : tor'[u] = IF u = t THEN rec ELSE tor[u]
      BY <1>1 DEF Inv, Session
    <2> HIDE DEF rec
    <2> QED
      BY <2>1, <2>2 DEF NoticeWaits
  <1> HIDE DEF rec, h
  <1>4. /\ nat \in [Handle -> NativeRec]
        /\ \A g \in Handle \ {h} : nat[g] = native[g]
        /\ nat[h].state = native[h].state /\ nat[h].owner = native[h].owner
        /\ nat[h].flush = native[h].flush /\ nat[h].requests = native[h].requests + 1
    <2> DEFINE n == native[h]
               m == [n EXCEPT !.requests = n.requests + 1]
    <2>1. nat = [native EXCEPT ![h] = m]
      OBVIOUS
    <2>2. n \in NativeRec
      BY <1>1, <1>2
    <2> HIDE DEF n
    <2>3. /\ m \in NativeRec /\ m.state = n.state /\ m.owner = n.owner /\ m.flush = n.flush
          /\ m.requests = n.requests + 1
      BY <2>2 DEF NativeRec
    <2> HIDE DEF m, nat
    <2> QED
      BY <1>1, <1>2, <2>1, <2>3 DEF n
  <1> HIDE DEF nat
  <1>5. /\ OwedIn(nat) = OwedIn(native) \cup {<<h, nat[h].requests>>}
        /\ <<h, nat[h].requests>> \notin OwedIn(native)
    BY <1>1, <1>2, <1>4, OwedChanged
  <1>6. IsFiniteSet(OwedIn(native)) /\ Cardinality(OwedIn(native)) \in Nat
    BY FS_CardinalityType DEF Owning, Counted
  <1>7. IsFiniteSet(OwedIn(nat)) /\ Cardinality(OwedIn(nat)) = Cardinality(OwedIn(native)) + 1
    BY <1>5, <1>6, FS_AddElement
  <1>8. Counted(numResume', alerts', nat)
    BY <1>1, <1>6, <1>7 DEF Owning, Counted
  <1> QED
    BY <1>1, <1>2, <1>3, <1>4, <1>8, AnswerOwning

\* libtorrent answers one request, or the one made at the exit.
LEMMA SaveResumeDataOwning ==
    ASSUME Inv, Owning, NEW h \in Handle, NEW success \in BOOLEAN, SaveResumeData(h, success)
    PROVE  Owning'
  <1> DEFINE flushing == native[h].requests = 0
             modified == ~flushing \/ native[h].dirty
             x == IF success /\ modified THEN Posted("resume", h, native[h].location)
                  ELSE Posted("resume_failed", h, NoPath)
             new == [native[h] EXCEPT
                    !.requests = IF flushing THEN 0 ELSE @ - 1,
                    !.flush = @ /\ ~flushing,
                    !.dirty = @ /\ ~success]
             nat == [native EXCEPT ![h] = new]
  <1>1. /\ native \in [Handle -> NativeRec] /\ native[h] \in NativeRec
        /\ native[h].location \in Path
        /\ numResume \in Int /\ alerts \in Seq(Alert)
        /\ Cardinality(ResumeIn(alerts)) \in Nat
    BY ResumeFinite DEF SaveResumeData, Inv, Session, NativeLocated, Moves
  <1>2. /\ native[h].state # "unused" /\ (native[h].requests > 0 \/ native[h].flush)
        /\ native' = nat /\ alerts' = alerts \o <<x>>
        /\ UNCHANGED <<torrents, tor, numResume, phase>>
    BY <1>1 DEF SaveResumeData, Post
  <1>3. x \in Alert /\ IsResumeAlert(x)
    BY <1>1 DEF Posted, Alert, MaybePath, IsResumeAlert
  <1>4. native[h].requests \in Nat /\ native[h].flush \in BOOLEAN /\ native[h].dirty \in BOOLEAN
    BY <1>1 DEF NativeRec
  <1>5. /\ new \in NativeRec
        /\ new.state = native[h].state /\ new.owner = native[h].owner
        /\ new.requests = (IF flushing THEN 0 ELSE native[h].requests - 1)
        /\ flushing => ~new.flush
        /\ ~flushing => new.flush = native[h].flush
    <2> DEFINE r == IF flushing THEN 0 ELSE native[h].requests - 1
               fl == native[h].flush /\ ~flushing
               di == native[h].dirty /\ ~success
    <2>1. r \in Nat /\ fl \in BOOLEAN /\ di \in BOOLEAN
      BY <1>4
    <2>2. new = [native[h] EXCEPT !.requests = r, !.flush = fl, !.dirty = di]
      OBVIOUS
    <2> HIDE DEF r, fl, di, new, flushing
    <2>3. new \in NativeRec /\ new.state = native[h].state /\ new.owner = native[h].owner
          /\ new.requests = r /\ new.flush = fl
      BY <1>1, <2>1, <2>2 DEF NativeRec
    <2>4. (flushing => fl = FALSE) /\ (~flushing => fl = native[h].flush)
      BY <1>4 DEF fl
    <2> QED
      BY <2>3, <2>4 DEF r
  <1> HIDE DEF x, new
  <1>6. /\ nat \in [Handle -> NativeRec] /\ nat[h] = new
        /\ \A g \in Handle \ {h} : nat[g] = native[g]
    BY <1>1, <1>5
  <1> HIDE DEF nat
  <1>7. \E e : OwedIn(nat) = OwedIn(native) \ {e} /\ e \in OwedIn(native)
    <2>1. CASE flushing
      <3>1. /\ native[h].requests = 0 /\ nat[h].requests = 0
            /\ native[h].flush /\ ~nat[h].flush
        BY <1>2, <1>5, <1>6, <2>1
      <3>2. OwedIn(nat) = OwedIn(native) \ {<<h, 0>>} /\ <<h, 0>> \in OwedIn(native)
        BY <1>1, <1>6, <3>1, OwedChanged
      <3> QED
        BY <3>2
    <2>2. CASE ~flushing
      <3>1. native[h].requests > 0 /\ nat[h].requests = native[h].requests - 1
        BY <1>4, <1>5, <1>6, <2>2
      <3>2. nat[h].flush = native[h].flush
        BY <1>4, <1>5, <1>6, <2>2
      <3>3. /\ OwedIn(nat) = OwedIn(native) \ {<<h, native[h].requests>>}
            /\ <<h, native[h].requests>> \in OwedIn(native)
        BY <1>1, <1>6, <3>1, <3>2, OwedChanged
      <3> QED
        BY <3>3
    <2> QED
      BY <2>1, <2>2
  <1>8. IsFiniteSet(OwedIn(native)) /\ Cardinality(OwedIn(native)) \in Nat
    BY FS_CardinalityType DEF Owning, Counted
  <1>9. IsFiniteSet(OwedIn(nat)) /\ Cardinality(OwedIn(nat)) = Cardinality(OwedIn(native)) - 1
    BY <1>7, <1>8, FS_RemoveElement
  <1>10. Cardinality(ResumeIn(alerts')) = Cardinality(ResumeIn(alerts)) + 1
    BY <1>1, <1>2, <1>3, ResumePosted
  <1>11. Counted(numResume', alerts', nat)
    BY <1>1, <1>2, <1>8, <1>9, <1>10 DEF Owning, Counted
  <1>12. nat[h].state = native[h].state /\ nat[h].owner = native[h].owner
         /\ (nat[h].flush => native[h].flush)
    BY <1>5, <1>6
  <1> QED
    BY <1>2, <1>6, <1>11, <1>12, AnswerOwning

\* The exit asks each torrent's native torrent once.
LEMMA BeginShutdownOwning ==
    ASSUME Inv, Owning, BeginShutdown
    PROVE  Owning'
  <1> DEFINE asked == {t \in torrents : native[tor[t].handle].state # "dead"}
             nat == [h \in Handle |-> [native[h] EXCEPT !.flush = \E t \in asked : tor[t].handle = h]]
             g == [t \in asked |-> <<tor[t].handle, 0>>]
             new == {<<tor[t].handle, 0>> : t \in asked}
  <1>1. /\ native \in [Handle -> NativeRec] /\ IsFiniteSet(torrents)
        /\ numResume \in Int /\ alerts \in Seq(Alert)
        /\ Cardinality(ResumeIn(alerts)) \in Nat
        /\ \A t \in torrents : tor[t].handle \in Handle
    BY ResumeFinite DEF Inv, Session, NativeLocated, Moves, RegisteredRec
  <1>2. /\ phase = "running" /\ phase' = "draining" /\ native' = nat
        /\ numResume' = numResume + Cardinality(asked)
        /\ UNCHANGED <<torrents, tor, alerts>>
    BY DEF BeginShutdown
  <1>3. OwnsNative
    BY DEF Owning
  <1>4. \A h \in Handle : ~native[h].flush
    BY <1>2 DEF Owning
  <1>5. ASSUME NEW h \in Handle
        PROVE  /\ nat[h].state = native[h].state /\ nat[h].owner = native[h].owner
               /\ nat[h].requests = native[h].requests
               /\ nat[h].flush <=> \E t \in asked : tor[t].handle = h
    <2> DEFINE fl == \E t \in asked : tor[t].handle = h
    <2>1. nat[h] = [native[h] EXCEPT !.flush = fl]
      OBVIOUS
    <2> HIDE DEF fl, nat
    <2>2. nat[h].flush = fl /\ nat[h].state = native[h].state /\ nat[h].owner = native[h].owner
          /\ nat[h].requests = native[h].requests
      BY <1>1, <2>1 DEF NativeRec
    <2> QED
      BY <2>2 DEF fl
  <1>6. asked \subseteq torrents
    OBVIOUS
  <1> HIDE DEF asked, nat, new, g
  <1>7. /\ IsFiniteSet(asked) /\ Cardinality(asked) \in Nat
        /\ \A t, u \in asked : tor[t].handle = tor[u].handle => t = u
    BY <1>1, <1>3, <1>6, FS_Subset, FS_CardinalityType DEF OwnsNative
  <1>8. IsFiniteSet(new) /\ Cardinality(new) = Cardinality(asked)
    <2>1. \A t, u \in asked : <<tor[t].handle, 0>> = <<tor[u].handle, 0>> => t = u
      BY <1>7
    <2>2. g \in [asked -> new]
      BY DEF g, new
    <2>3. \A t, u \in asked : g[t] = g[u] => t = u
      BY <2>1 DEF g
    <2>4. \A e \in new : \E t \in asked : g[t] = e
      BY DEF g, new
    <2>5. g \in Bijection(asked, new)
      BY <2>2, <2>3, <2>4 DEF Bijection, Injection, Surjection, IsInjective
    <2> QED
      BY <1>7, <2>5, FS_Bijection DEF ExistsBijection
  <1>9. \A h \in Handle : native[h].requests \in Nat
    BY <1>1 DEF NativeRec
  <1>10. ASSUME NEW h \in Handle
         PROVE  OwedBy(nat[h]) = OwedBy(native[h]) \cup {k \in {0} : \E t \in asked : tor[t].handle = h}
    BY <1>4, <1>5, <1>9 DEF OwedBy
  <1>11. OwedIn(nat) = OwedIn(native) \cup new
    <2>1. ASSUME NEW e \in Handle \X Nat
          PROVE  e[2] \in OwedBy(nat[e[1]]) <=> e[2] \in OwedBy(native[e[1]]) \/ e \in new
      <3>1. e[1] \in Handle /\ e[2] \in Nat /\ e = <<e[1], e[2]>>
        OBVIOUS
      <3>2. e \in new <=> (e[2] = 0 /\ \E t \in asked : tor[t].handle = e[1])
        BY <3>1 DEF new
      <3> QED
        BY <1>10, <3>1, <3>2
    <2>2. new \subseteq Handle \X Nat
      BY <1>1, <1>6 DEF new
    <2> QED
      BY <2>1, <2>2 DEF OwedIn
  <1>12. OwedIn(native) \cap new = {}
    <2>1. ASSUME NEW e \in OwedIn(native) PROVE e \notin new
      <3>1. e[1] \in Handle /\ e[2] \in OwedBy(native[e[1]])
        BY DEF OwedIn
      <3>2. e[2] > 0
        BY <1>4, <3>1 DEF OwedBy
      <3>3. \A t \in asked : <<tor[t].handle, 0>>[2] = 0
        OBVIOUS
      <3> QED
        BY <3>2, <3>3 DEF new
    <2> QED
      BY <2>1
  <1>13. IsFiniteSet(OwedIn(native)) /\ Cardinality(OwedIn(native)) \in Nat
    BY FS_CardinalityType DEF Owning, Counted
  <1>14. /\ IsFiniteSet(OwedIn(native) \cup new)
         /\ Cardinality(OwedIn(native) \cup new)
              = Cardinality(OwedIn(native)) + Cardinality(new)
    <2>1. Cardinality({}) = 0
      BY FS_EmptySet
    <2>2. /\ IsFiniteSet(OwedIn(native) \cup new)
          /\ Cardinality(OwedIn(native) \cup new)
              = Cardinality(OwedIn(native)) + Cardinality(new) - Cardinality(OwedIn(native) \cap new)
      BY <1>8, <1>13, FS_Union
    <2>3. Cardinality(OwedIn(native) \cap new) = 0
      BY <1>12, <2>1, Zenon
    <2> QED
      BY <1>7, <1>8, <1>13, <2>2, <2>3
  <1>15. Counted(numResume', alerts', nat)
    BY <1>1, <1>2, <1>7, <1>8, <1>11, <1>13, <1>14 DEF Owning, Counted
  <1>16. OwnsNative'
    BY <1>1, <1>2, <1>3, <1>5 DEF OwnsNative
  <1>17. \A t \in torrents' : NoticeWaits(tor'[t])
    BY <1>2 DEF Owning
  <1>18. \A h \in Handle : nat[h].state = "unused" => nat[h].requests = 0
    BY <1>5 DEF Owning
  <1>19. \A h \in Handle : nat[h].flush => nat[h].state # "unused"
    BY <1>3, <1>5, <1>6 DEF OwnsNative
  <1> QED
    BY <1>2, <1>15, <1>16, <1>17, <1>18, <1>19 DEF Owning

LEMMA LibraryOwning == Inv /\ Owning /\ Library => Owning'
  <1> SUFFICES ASSUME Inv, Owning, Library PROVE Owning'
    OBVIOUS
  <1>1. /\ native \in [Handle -> NativeRec]
        /\ numResume \in Int /\ alerts \in Seq(Alert)
        /\ Cardinality(ResumeIn(alerts)) \in Nat
    BY ResumeFinite DEF Inv, Session, NativeLocated, Moves
  <1>2. ASSUME NEW x, x \in Alert, ~IsResumeAlert(x), alerts' = alerts \o <<x>>,
               UNCHANGED <<torrents, tor, numResume, phase>>,
               \A h \in Handle :
                /\ native'[h].owner = native[h].owner
                /\ native'[h].requests = native[h].requests
                /\ native'[h].flush <=> native[h].flush
                /\ \/ native'[h].state = native[h].state
                   \/ /\ native'[h].state # "unused" /\ native[h].state # "unused"
                      /\ \A t \in torrents : tor[t].handle # h
        PROVE  Owning'
    <2>1. Cardinality(ResumeIn(alerts')) = Cardinality(ResumeIn(alerts)) + 0
      BY <1>1, <1>2, ResumePosted
    <2>2. alerts' \in Seq(Alert)
      BY <1>1, <1>2
    <2>3. numResume' - numResume
              = Cardinality(ResumeIn(alerts')) - Cardinality(ResumeIn(alerts))
          /\ numResume' \in Int
      BY <1>1, <1>2, <2>1
    <2> QED
      BY <1>2, <2>2, <2>3, OthersOwning
  <1>3. ASSUME NEW o \in ops, NEW success \in BOOLEAN, DiskMoveEnds(o, success)
        PROVE  Owning'
    <2>1. o.handle \in Handle /\ o.path \in Path
      BY DEF Inv, Moves
    <2> DEFINE x == IF success THEN Posted("moved", o.handle, o.path)
                    ELSE Posted("move_failed", o.handle, NoPath)
    <2>2. x \in Alert /\ ~IsResumeAlert(x)
      BY <2>1 DEF Posted, Alert, MaybePath, IsResumeAlert
    <2>3. /\ alerts' = alerts \o <<x>> /\ UNCHANGED <<torrents, tor, numResume, phase>>
          /\ native' = native \/ native' = [native EXCEPT ![o.handle] =
                                    [native[o.handle] EXCEPT !.location = o.path, !.dirty = TRUE]]
      BY <1>1, <1>3, <2>1 DEF DiskMoveEnds, Post, sessionVars
    <2> HIDE DEF x
    <2>4. \A h \in Handle :
                /\ native'[h].owner = native[h].owner
                /\ native'[h].requests = native[h].requests
                /\ native'[h].flush <=> native[h].flush
                /\ native'[h].state = native[h].state
      <3> DEFINE n == native[o.handle]
                 m == [n EXCEPT !.location = o.path, !.dirty = TRUE]
      <3>1. n \in NativeRec /\ (native' = native \/ native' = [native EXCEPT ![o.handle] = m])
        BY <1>1, <2>1, <2>3
      <3> HIDE DEF n
      <3>2. m.owner = n.owner /\ m.requests = n.requests /\ m.flush = n.flush /\ m.state = n.state
        BY <3>1 DEF NativeRec
      <3> HIDE DEF m
      <3> QED
        BY <1>1, <3>1, <3>2 DEF n
    <2> QED
      BY <1>2, <2>2, <2>3, <2>4
  <1>4. ASSUME NEW h \in Handle, RejectResumeData(h)
        PROVE  Owning'
    <2>1. Posted("rejected", h, NoPath) \in Alert /\ ~IsResumeAlert(Posted("rejected", h, NoPath))
      BY DEF Posted, Alert, MaybePath, IsResumeAlert
    <2>2. \A g \in Handle :
                /\ native'[g].owner = native[g].owner
                /\ native'[g].requests = native[g].requests
                /\ native'[g].flush <=> native[g].flush
                /\ native'[g].state = native[g].state
      BY <1>1, <1>4 DEF RejectResumeData, NativeRec
    <2> QED
      BY <1>2, <1>4, <2>1, <2>2 DEF RejectResumeData, Post
  <1>5. ASSUME NEW h \in Handle, PostStateUpdate(h)
        PROVE  Owning'
    <2>1. native[h].location \in Path
      BY <1>5 DEF PostStateUpdate, Inv, NativeLocated
    <2>2. /\ Posted("status", h, native[h].location) \in Alert
          /\ ~IsResumeAlert(Posted("status", h, native[h].location))
      BY <2>1 DEF Posted, Alert, MaybePath, IsResumeAlert
    <2> QED
      BY <1>2, <1>5, <2>2 DEF PostStateUpdate, Post
  <1>6. ASSUME NEW h \in Handle, CloseNative(h)
        PROVE  Owning'
    <2>1. Posted("deleted", h, NoPath) \in Alert /\ ~IsResumeAlert(Posted("deleted", h, NoPath))
      BY DEF Posted, Alert, MaybePath, IsResumeAlert
    <2>2. native[h].state = "closing" /\ \A t \in torrents : tor[t].handle # h
      BY <1>6 DEF CloseNative, Owning, OwnsNative
    <2>3. \A g \in Handle :
                /\ native'[g].owner = native[g].owner
                /\ native'[g].requests = native[g].requests
                /\ native'[g].flush <=> native[g].flush
                /\ native'[g].state = IF g = h THEN "dead" ELSE native[g].state
      BY <1>1, <1>6 DEF CloseNative, NativeRec
    <2>4. \A g \in Handle :
                \/ native'[g].state = native[g].state
                \/ /\ native'[g].state # "unused" /\ native[g].state # "unused"
                   /\ \A t \in torrents : tor[t].handle # g
      BY <2>2, <2>3
    <2> QED
      BY <1>2, <1>6, <2>1, <2>3, <2>4 DEF CloseNative, Post
  <1> QED
    BY <1>3, <1>4, <1>5, <1>6, SaveResumeDataOwning DEF Library

\* Every step keeps what torrents own.
LEMMA NextOwning == Inv /\ Owning /\ [Next]_vars => Owning'
  <1> SUFFICES ASSUME Inv, Owning, [Next]_vars PROVE Owning'
    OBVIOUS
  <1>1. ASSUME alerts' = alerts, UNCHANGED <<torrents, tor, numResume, native>>,
               phase' = phase \/ phase' # "running"
        PROVE  Owning'
    <2>1. /\ alerts' \in Seq(Alert) /\ numResume' \in Int /\ numResume' - numResume = 0
          /\ Cardinality(ResumeIn(alerts)) \in Nat
      BY <1>1, ResumeFinite DEF Inv, Session, Moves
    <2>2. numResume' - numResume = Cardinality(ResumeIn(alerts')) - Cardinality(ResumeIn(alerts))
      BY <1>1, <2>1
    <2> QED
      BY <1>1, <2>1, <2>2, OthersOwning
  <1>2. CASE Request
    <2>1. CASE \/ \E t \in Torrent, p \in Path : SetSavePath(t, p)
               \/ \E t \in Torrent, p \in MaybePath : SetDownloadPath(t, p)
               \/ \E t \in Torrent : TorrentFinished(t)
               \/ \E t \in Torrent, complete \in BOOLEAN : TorrentChecked(t, complete)
               \/ \E t \in Torrent : StartMissing(t)
      <3>1. \E t \in Torrent : TorrentStep(t)
        BY <2>1, TorrentRequestStep
      <3> QED
        BY <3>1, TorrentStepOwning
    <2> QED
      BY <1>2, <2>1, AddTorrentOwning, RemoveTorrentOwning DEF Request
  <1>3. CASE \E t \in Torrent : RunDeferredRequest(t)
    BY <1>3, DeferredRequestOwning
  <1>4. CASE HandleAlert
    BY <1>4, HandleAlertOwning
  <1>5. CASE BeginShutdown
    BY <1>5, BeginShutdownOwning
  <1>6. CASE EndShutdown
    BY <1>1, <1>6 DEF EndShutdown
  <1>7. CASE Stopped \/ UNCHANGED vars
    BY <1>1, <1>7 DEF Stopped, vars
  <1>8. CASE phase # "stopped" /\ Library
    BY <1>8, LibraryOwning
  <1> QED
    BY <1>2, <1>3, <1>4, <1>5, <1>6, <1>7, <1>8 DEF Next

LEMMA OwningInvariant == Spec => [](Inv /\ Owning)
  <1>1. Init => Inv /\ Owning
    BY InitInv, InitOwning
  <1>2. Inv /\ Owning /\ [Next]_vars => (Inv /\ Owning)'
    BY NextInv, NextOwning
  <1> QED
    BY <1>1, <1>2, PTL DEF Spec

\* Every torrent registered in m_torrents has a native torrent of its own in
\* libtorrent, which is not being removed: also while it is reloaded, moved or
\* removed and added again.
THEOREM NativeOwned == Spec => []OwnsNative
  <1>1. Inv /\ Owning => OwnsNative
    BY DEF Owning
  <1> QED
    BY <1>1, OwningInvariant, PTL

\* m_numResumeData is the number of answers that are waiting to be handled or that
\* libtorrent still owes: the exit loop neither ends early nor waits in vain for
\* resume data.
THEOREM AnswersCounted == Spec => []AnswersAreCounted
  <1>1. Inv /\ Owning => AnswersAreCounted
    BY OwedIsOwed DEF Inv, NativeLocated, Owning, Counted, AnswersAreCounted
  <1> QED
    BY <1>1, OwningInvariant, PTL

-----------------------------------------------------------------------------
(* The move queue, for torrents whose files are where their resume data says *)
(* and are kept when the torrent is removed: otherwise TLC shows how the     *)
(* properties below are violated.                                            *)

KeptFiles == MissingFiles = {} /\ RemoveOptions \subseteq {"KeepContent"}

-----------------------------------------------------------------------------
(* Queues.                                                                 *)

HasJobIn(q, h) == \E i \in DOMAIN q : q[i].handle = h

\* Behind the first job of a queue, a torrent has at most one.
OneInactive(q) ==
    \A i, j \in DOMAIN q : i > 1 /\ j > 1 /\ q[i].handle = q[j].handle => i = j

\* The elements of a sequence without one of them.
LEMMA RemoveAtElements ==
    ASSUME NEW S, NEW s \in Seq(S), NEW k \in 1..Len(s)
    PROVE  /\ RemoveAt(s, k) \in Seq(S)
           /\ Len(RemoveAt(s, k)) = Len(s) - 1
           /\ DOMAIN RemoveAt(s, k) = 1 .. Len(s) - 1
           /\ \A i \in 1 .. Len(s) - 1 :
                RemoveAt(s, k)[i] = IF i < k THEN s[i] ELSE s[i + 1]
  <1> DEFINE front == SubSeq(s, 1, k - 1)
             back == SubSeq(s, k + 1, Len(s))
             r == front \o back
  <1>1. Len(s) \in Nat /\ k \in Nat /\ 1 <= k /\ k <= Len(s)
        /\ \A j \in 1..Len(s) : s[j] \in S
    BY ElementOfSeq, LenProperties
  <1>2. /\ front \in Seq(S) /\ Len(front) = k - 1
        /\ \A i \in 1 .. k - 1 : front[i] = s[i]
    BY <1>1, SubSeqProperties
  <1>3. /\ back \in Seq(S) /\ Len(back) = Len(s) - k
        /\ \A i \in 1 .. Len(s) - k : back[i] = s[k + i]
    <2>1. \A i \in k + 1 .. Len(s) : i \in 1..Len(s) /\ s[i] \in S
      BY <1>1
    <2>2. CASE k + 1 <= Len(s)
      BY <1>1, <2>1, <2>2, SubSeqProperties
    <2>3. CASE ~(k + 1 <= Len(s))
      BY <1>1, <2>1, <2>3, SubSeqProperties
    <2> QED
      BY <2>2, <2>3
  <1> HIDE DEF front, back
  <1>4. /\ r \in Seq(S) /\ Len(r) = Len(front) + Len(back)
        /\ \A i \in 1 .. Len(front) + Len(back) :
              r[i] = IF i <= Len(front) THEN front[i] ELSE back[i - Len(front)]
    BY <1>2, <1>3, ConcatProperties
  <1>5. DOMAIN r = 1..Len(r)
    BY <1>4, LenProperties
  <1> HIDE DEF r
  <1>6. Len(r) = Len(s) - 1
    BY <1>1, <1>2, <1>3, <1>4
  <1>7. ASSUME NEW i \in 1 .. Len(s) - 1
        PROVE  r[i] = IF i < k THEN s[i] ELSE s[i + 1]
    <2>1. CASE i < k
      <3>1. i \in 1 .. k - 1 /\ i <= Len(front) /\ i \in 1 .. Len(front) + Len(back)
        BY <1>1, <1>2, <1>3, <2>1
      <3> QED
        BY <1>2, <1>4, <2>1, <3>1
    <2>2. CASE ~(i < k)
      <3>1. /\ ~(i <= Len(front)) /\ i \in 1 .. Len(front) + Len(back)
            /\ i - Len(front) \in 1 .. Len(s) - k /\ k + (i - Len(front)) = i + 1
        BY <1>1, <1>2, <1>3, <2>2
      <3> QED
        BY <1>3, <1>4, <2>2, <3>1
    <2> QED
      BY <2>1, <2>2
  <1> QED
    BY <1>4, <1>5, <1>6, <1>7 DEF RemoveAt, r, front, back

\* Taking the inactive job of the torrent off the queue.
LEMMA WithoutInactiveJobs ==
    ASSUME queue \in Seq(MoveStorageJob), OneInactive(queue), NEW h
    PROVE  LET rest == WithoutInactive(h)
           IN  /\ rest \in Seq(MoveStorageJob) /\ OneInactive(rest)
               /\ \A i \in DOMAIN rest : i > 1 => rest[i].handle # h
               /\ \A g : g # h => (HasJobIn(rest, g) <=> HasJobIn(queue, g))
               /\ HasJobIn(rest, h) <=> HasActiveJob(h)
               /\ \A i \in DOMAIN rest : HasJobIn(queue, rest[i].handle)
  <1>1. Len(queue) \in Nat /\ DOMAIN queue = 1..Len(queue)
    BY LenProperties
  <1>2. queue # <<>> <=> Len(queue) > 0
    BY <1>1, EmptySeq
  <1>3. queue # <<>> => Head(queue) = queue[1]
    BY HeadTailProperties
  <1>4. CASE InactiveJobs(h) = {}
    <2>1. WithoutInactive(h) = queue
      BY <1>4 DEF WithoutInactive
    <2>2. \A i \in DOMAIN queue : i > 1 => queue[i].handle # h
      BY <1>1, <1>4 DEF InactiveJobs
    <2>3. HasJobIn(queue, h) <=> HasActiveJob(h)
      BY <1>1, <1>2, <1>3, <2>2 DEF HasJobIn, HasActiveJob
    <2> QED
      BY <2>1, <2>2, <2>3 DEF HasJobIn
  <1>5. CASE InactiveJobs(h) # {}
    <2> DEFINE k == FirstInactive(h)
               rest == RemoveAt(queue, k)
    <2>1. InactiveJobs(h) \subseteq Nat
      BY <1>1 DEF InactiveJobs
    <2>2. \E i \in InactiveJobs(h) : \A j \in InactiveJobs(h) : i <= j
      BY <1>5, <2>1, SmallestExists
    <2>3. k \in InactiveJobs(h)
      BY <2>2, Zenon DEF FirstInactive
    <2>4. k \in 2..Len(queue) /\ k \in 1..Len(queue) /\ queue[k].handle = h
      BY <1>1, <2>3 DEF InactiveJobs
    <2>5. WithoutInactive(h) = rest
      BY <1>5 DEF WithoutInactive
    <2> HIDE DEF k
    <2>6. /\ rest \in Seq(MoveStorageJob)
          /\ DOMAIN rest = 1 .. Len(queue) - 1
          /\ \A i \in 1 .. Len(queue) - 1 : rest[i] = IF i < k THEN queue[i] ELSE queue[i + 1]
      BY <2>4, RemoveAtElements
    <2> HIDE DEF rest
    <2>7. \A i \in DOMAIN queue : i > 1 /\ queue[i].handle = h => i = k
      BY <1>1, <2>4 DEF OneInactive
    <2>8. ASSUME NEW i \in DOMAIN rest, i > 1 PROVE rest[i].handle # h
      <3>1. CASE i < k
        BY <1>1, <2>4, <2>6, <2>7, <2>8, <3>1
      <3>2. CASE i >= k
        <4>1. rest[i] = queue[i + 1] /\ i + 1 \in DOMAIN queue /\ i + 1 > 1 /\ i + 1 # k
          BY <1>1, <2>4, <2>6, <2>8, <3>2
        <4> QED
          BY <2>7, <4>1
      <3> QED
        BY <2>4, <2>6, <3>1, <3>2
    <2>9. ASSUME NEW i \in DOMAIN rest, NEW j \in DOMAIN rest, i > 1, j > 1,
                 rest[i].handle = rest[j].handle
          PROVE  i = j
      <3> DEFINE m == IF i < k THEN i ELSE i + 1
                 n == IF j < k THEN j ELSE j + 1
      <3>1. m \in DOMAIN queue /\ n \in DOMAIN queue /\ m > 1 /\ n > 1
        BY <1>1, <2>4, <2>6, <2>9
      <3>2. rest[i] = queue[m] /\ rest[j] = queue[n]
        BY <2>6
      <3>3. m = n
        BY <2>9, <3>1, <3>2 DEF OneInactive
      <3> QED
        BY <1>1, <2>4, <2>6, <3>3
    <2>10. ASSUME NEW g, g # h PROVE HasJobIn(rest, g) <=> HasJobIn(queue, g)
      <3>1. ASSUME NEW i \in DOMAIN queue, queue[i].handle = g
            PROVE  \E j \in DOMAIN rest : rest[j] = queue[i]
        <4>1. i # k
          BY <2>4, <2>10, <3>1
        <4>2. CASE i < k
          BY <1>1, <2>4, <2>6, <4>2
        <4>3. CASE i > k
          <5>1. i - 1 \in DOMAIN rest /\ ~(i - 1 < k) /\ (i - 1) + 1 = i
            BY <1>1, <2>4, <2>6, <4>3
          <5> QED
            BY <2>6, <5>1
        <4> QED
          BY <1>1, <2>4, <4>1, <4>2, <4>3
      <3>2. ASSUME NEW i \in DOMAIN rest
            PROVE  \E j \in DOMAIN queue : rest[i] = queue[j]
        BY <1>1, <2>4, <2>6
      <3> QED
        BY <3>1, <3>2 DEF HasJobIn
    <2>11. 1 \in DOMAIN rest /\ rest[1] = queue[1] /\ queue # <<>>
      BY <1>1, <1>2, <2>4, <2>6
    <2>12. HasJobIn(rest, h) <=> HasActiveJob(h)
      BY <1>3, <2>6, <2>8, <2>11 DEF HasJobIn, HasActiveJob
    <2>13. \A i \in DOMAIN rest : HasJobIn(queue, rest[i].handle)
      <3>1. ASSUME NEW i \in DOMAIN rest PROVE \E j \in DOMAIN queue : rest[i] = queue[j]
        <4>1. i \in DOMAIN queue /\ i + 1 \in DOMAIN queue
          BY <1>1, <2>6
        <4> QED
          BY <2>6, <4>1
      <3> QED
        BY <3>1 DEF HasJobIn
    <2>14. OneInactive(rest)
      BY <2>9 DEF OneInactive
    <2> QED
      BY <2>5, <2>6, <2>8, <2>10, <2>12, <2>13, <2>14
  <1> QED
    BY <1>4, <1>5

\* Queueing a job of a torrent that has none behind the first.
LEMMA AppendJobs ==
    ASSUME NEW q \in Seq(MoveStorageJob), OneInactive(q), NEW job \in MoveStorageJob,
           \A i \in DOMAIN q : i > 1 => q[i].handle # job.handle
    PROVE  /\ Append(q, job) \in Seq(MoveStorageJob) /\ OneInactive(Append(q, job))
           /\ Append(q, job) # <<>>
           /\ \A g : HasJobIn(Append(q, job), g) <=> HasJobIn(q, g) \/ g = job.handle
           /\ \A i \in DOMAIN Append(q, job) : \/ Append(q, job)[i] = job
                                               \/ i \in DOMAIN q /\ Append(q, job)[i] = q[i]
  <1> DEFINE r == Append(q, job)
  <1>1. Len(q) \in Nat /\ DOMAIN q = 1..Len(q)
    BY LenProperties
  <1>2. /\ r \in Seq(MoveStorageJob) /\ r # <<>> /\ Len(r) = Len(q) + 1
        /\ r[Len(q) + 1] = job
        /\ \A i \in 1..Len(q) : r[i] = q[i]
    BY <1>1, AppendProperties
  <1>3. DOMAIN r = 1 .. Len(q) + 1
    BY <1>2, LenProperties
  <1> HIDE DEF r
  <1>4. \A i \in DOMAIN r : \/ i = Len(q) + 1 /\ r[i] = job
                            \/ i \in DOMAIN q /\ r[i] = q[i]
    BY <1>1, <1>2, <1>3
  <1>5. OneInactive(r)
    BY <1>1, <1>4 DEF OneInactive
  <1>6. ASSUME NEW g PROVE HasJobIn(r, g) <=> HasJobIn(q, g) \/ g = job.handle
    BY <1>1, <1>2, <1>3, <1>4 DEF HasJobIn
  <1> QED
    BY <1>2, <1>4, <1>5, <1>6 DEF r

\* The jobs that remain when the first has ended.
LEMMA TailJobs ==
    ASSUME NEW q \in Seq(MoveStorageJob), q # <<>>, OneInactive(q)
    PROVE  /\ Tail(q) \in Seq(MoveStorageJob) /\ OneInactive(Tail(q))
           /\ \A g : g # Head(q).handle => (HasJobIn(Tail(q), g) <=> HasJobIn(q, g))
           /\ \A g : HasJobIn(Tail(q), g) => HasJobIn(q, g)
           /\ HasJobIn(q, Head(q).handle)
  <1> DEFINE r == Tail(q)
  <1>1. /\ Len(q) \in Nat /\ DOMAIN q = 1..Len(q) /\ Len(q) # 0
        /\ r \in Seq(MoveStorageJob) /\ Len(r) = Len(q) - 1
        /\ Head(q) = q[1]
        /\ \A i \in DOMAIN r : i + 1 \in DOMAIN q /\ i + 1 # 1 /\ r[i] = q[i + 1]
    BY LenProperties, EmptySeq, HeadTailProperties, TailElements
  <1>2. DOMAIN r = 1 .. Len(q) - 1
    BY <1>1, LenProperties
  <1> HIDE DEF r
  <1>3. ASSUME NEW i \in DOMAIN q, i # 1
        PROVE  i - 1 \in DOMAIN r /\ r[i - 1] = q[i]
    BY <1>1, <1>2, <1>3
  <1>4. OneInactive(r)
    <2>1. \A i, j \in DOMAIN r : i > 1 /\ j > 1 => i + 1 > 1 /\ j + 1 > 1 /\ (i + 1 = j + 1 => i = j)
      BY <1>2
    <2> QED
      BY <1>1, <2>1 DEF OneInactive
  <1>5. \A g : g # Head(q).handle => (HasJobIn(r, g) <=> HasJobIn(q, g))
    BY <1>1, <1>3 DEF HasJobIn
  <1>6. \A g : HasJobIn(r, g) => HasJobIn(q, g)
    BY <1>1 DEF HasJobIn
  <1>7. HasJobIn(q, Head(q).handle)
    BY <1>1 DEF HasJobIn
  <1> QED
    BY <1>1, <1>4, <1>5, <1>6, <1>7 DEF r

-----------------------------------------------------------------------------
(* Alerts.                                                                 *)

MovedWaits(a, h) == \E i \in DOMAIN a : a[i].type = "moved" /\ a[i].handle = h

\* The alerts a about the native torrents nat: the end of a move reports where
\* the files are, and so does a state update, but for moves reported after it.
Reported(a, nat) ==
    \A i \in DOMAIN a :
        /\ a[i].type # "rejected"
        /\ a[i].type \in {"moved", "status"} => nat[a[i].handle].state # "unused"
        /\ a[i].type = "moved" => a[i].path = nat[a[i].handle].location
        /\ a[i].type = "status" =>
              \/ a[i].path = nat[a[i].handle].location
              \/ \E j \in DOMAIN a : j > i /\ a[j].type = "moved" /\ a[j].handle = a[i].handle

\* The first job has been started, and its end is not handled yet.
Ongoing(q, o, a) == q # <<>> => o # {} \/ \E i \in DOMAIN a : IsMoveAlert(a[i])

LEMMA PostedElements ==
    ASSUME NEW a \in Seq(Alert), NEW x \in Alert
    PROVE  /\ a \o <<x>> \in Seq(Alert)
           /\ Len(a) \in Nat /\ DOMAIN a = 1..Len(a)
           /\ DOMAIN (a \o <<x>>) = 1 .. Len(a) + 1
           /\ \A i \in DOMAIN a : (a \o <<x>>)[i] = a[i]
           /\ (a \o <<x>>)[Len(a) + 1] = x
  <1> DEFINE b == a \o <<x>>
             n == Len(a)
  <1>1. n \in Nat /\ DOMAIN a = 1..n
    BY LenProperties
  <1>2. <<x>> \in Seq(Alert) /\ Len(<<x>>) = 1 /\ <<x>>[1] = x
    OBVIOUS
  <1>3. /\ b \in Seq(Alert) /\ Len(b) = n + 1
        /\ \A i \in 1 .. n + 1 : b[i] = IF i <= n THEN a[i] ELSE <<x>>[i - n]
    BY <1>2, ConcatProperties
  <1>4. DOMAIN b = 1 .. n + 1
    <2> HIDE DEF b
    <2> QED
      BY <1>3, LenProperties
  <1> HIDE DEF b, n
  <1>5. b[n + 1] = x /\ \A i \in 1..n : b[i] = a[i]
    <2>1. n + 1 \in 1 .. n + 1 /\ ~(n + 1 <= n) /\ (n + 1) - n = 1
      BY <1>1
    <2>2. \A i \in 1..n : i \in 1 .. n + 1 /\ i <= n
      BY <1>1
    <2> QED
      BY <1>2, <1>3, <2>1, <2>2
  <1> QED
    BY <1>1, <1>3, <1>4, <1>5 DEF b, n

\* An alert is posted.
LEMMA ReportedPost ==
    ASSUME NEW a \in Seq(Alert), NEW nat, NEW new, Reported(a, nat), NEW x \in Alert,
           \A h \in Handle : nat[h].state # "unused" => new[h].state # "unused",
           \A h \in Handle : nat[h].state # "unused" =>
                new[h].location = nat[h].location \/ (x.type = "moved" /\ x.handle = h),
           x.type # "rejected", x.type \in {"moved", "status"} => new[x.handle].state # "unused",
           x.type \in {"moved", "status"} => x.path = new[x.handle].location,
           x.type = "moved" => \A i \in DOMAIN a : a[i].type # "moved"
    PROVE  /\ Reported(a \o <<x>>, new)
           /\ \A h : MovedWaits(a \o <<x>>, h) <=>
                        MovedWaits(a, h) \/ (x.type = "moved" /\ x.handle = h)
  <1> DEFINE b == a \o <<x>>
             n == Len(a)
  <1>1. /\ b \in Seq(Alert) /\ n \in Nat /\ DOMAIN a = 1..n /\ DOMAIN b = 1 .. n + 1
        /\ \A i \in DOMAIN a : b[i] = a[i]
        /\ b[n + 1] = x
    BY PostedElements
  <1> HIDE DEF b, n
  <1>2. \A i \in DOMAIN a : a[i].handle \in Handle
    <2>1. \A i \in DOMAIN a : a[i] \in Alert
      BY <1>1, ElementOfSeq DEF n
    <2> QED
      BY <2>1 DEF Alert
  <1>3. \A i \in DOMAIN b : i \in DOMAIN a \/ i = n + 1
    BY <1>1
  <1>4. n + 1 \in DOMAIN b /\ \A i \in DOMAIN a : i \in DOMAIN b /\ n + 1 > i
    BY <1>1
  <1>5. ASSUME NEW i \in DOMAIN a
        PROVE  /\ b[i].type # "rejected"
               /\ b[i].type \in {"moved", "status"} => new[b[i].handle].state # "unused"
               /\ b[i].type = "moved" => b[i].path = new[b[i].handle].location
               /\ b[i].type = "status" =>
                   \/ b[i].path = new[b[i].handle].location
                   \/ \E j \in DOMAIN b : j > i /\ b[j].type = "moved" /\ b[j].handle = b[i].handle
    <2>1. /\ b[i] = a[i] /\ a[i].handle \in Handle /\ a[i].type # "rejected"
          /\ a[i].type \in {"moved", "status"} => nat[a[i].handle].state # "unused"
          /\ a[i].type = "moved" => a[i].path = nat[a[i].handle].location
          /\ a[i].type = "status" =>
              \/ a[i].path = nat[a[i].handle].location
              \/ \E j \in DOMAIN a : j > i /\ a[j].type = "moved" /\ a[j].handle = a[i].handle
      BY <1>1, <1>2 DEF Reported
    <2>2. a[i].type = "moved" => a[i].path = new[a[i].handle].location
      BY <2>1
    <2>3. a[i].type = "status" =>
              \/ a[i].path = new[a[i].handle].location
              \/ \E j \in DOMAIN b : j > i /\ b[j].type = "moved" /\ b[j].handle = a[i].handle
      BY <1>1, <1>4, <2>1
    <2> QED
      BY <2>1, <2>2, <2>3
  <1>6. Reported(b, new)
    BY <1>1, <1>3, <1>5 DEF Reported
  <1>7. ASSUME NEW h
        PROVE  MovedWaits(b, h) <=> MovedWaits(a, h) \/ (x.type = "moved" /\ x.handle = h)
    BY <1>1, <1>3, <1>4 DEF MovedWaits
  <1> QED
    BY <1>6, <1>7 DEF b

\* An alert is handled, in a step that starts no move.
LEMMA ReportedPop ==
    ASSUME NEW a \in Seq(Alert), a # <<>>, NEW nat, Reported(a, nat)
    PROVE  /\ Reported(Tail(a), nat)
           /\ \A h : MovedWaits(a, h) => \/ MovedWaits(Tail(a), h)
                                         \/ Head(a).type = "moved" /\ Head(a).handle = h
           /\ Head(a).type # "rejected"
           /\ Head(a).type = "moved" => Head(a).path = nat[Head(a).handle].location
           /\ Head(a).type = "status" => \/ Head(a).path = nat[Head(a).handle].location
                                         \/ MovedWaits(Tail(a), Head(a).handle)
  <1> DEFINE b == Tail(a)
  <1>1. /\ Len(a) \in Nat /\ DOMAIN a = 1..Len(a) /\ Len(a) # 0
        /\ b \in Seq(Alert) /\ Len(b) = Len(a) - 1
        /\ Head(a) = a[1]
        /\ \A i \in DOMAIN b : i + 1 \in DOMAIN a /\ i + 1 # 1 /\ b[i] = a[i + 1]
    BY LenProperties, EmptySeq, HeadTailProperties, TailElements
  <1>2. DOMAIN b = 1 .. Len(a) - 1
    BY <1>1, LenProperties
  <1> HIDE DEF b
  <1>3. ASSUME NEW i \in DOMAIN a, i # 1
        PROVE  i - 1 \in DOMAIN b /\ b[i - 1] = a[i]
    BY <1>1, <1>2, <1>3
  <1>4. \A i \in DOMAIN b, j \in DOMAIN a : j > i + 1 => j # 1 /\ j - 1 > i
    BY <1>1, <1>2
  <1>5. ASSUME NEW i \in DOMAIN b
        PROVE  /\ b[i].type # "rejected"
               /\ b[i].type \in {"moved", "status"} => nat[b[i].handle].state # "unused"
               /\ b[i].type = "moved" => b[i].path = nat[b[i].handle].location
               /\ b[i].type = "status" =>
                   \/ b[i].path = nat[b[i].handle].location
                   \/ \E j \in DOMAIN b : j > i /\ b[j].type = "moved" /\ b[j].handle = b[i].handle
    <2>1. i + 1 \in DOMAIN a /\ b[i] = a[i + 1]
      BY <1>1
    <2>2. ASSUME NEW j \in DOMAIN a, j > i + 1, a[j].type = "moved", a[j].handle = b[i].handle
          PROVE  \E k \in DOMAIN b : k > i /\ b[k].type = "moved" /\ b[k].handle = b[i].handle
      BY <1>3, <1>4, <2>2
    <2> QED
      BY <2>1, <2>2 DEF Reported
  <1>6. Reported(b, nat)
    BY <1>5 DEF Reported
  <1>7. ASSUME NEW h, MovedWaits(a, h)
        PROVE  MovedWaits(b, h) \/ (Head(a).type = "moved" /\ Head(a).handle = h)
    BY <1>1, <1>3, <1>7 DEF MovedWaits
  <1>8. 1 \in DOMAIN a
    BY <1>1
  <1>9. Head(a).type = "status" => \/ Head(a).path = nat[Head(a).handle].location
                                   \/ MovedWaits(b, Head(a).handle)
    <2>1. ASSUME NEW j \in DOMAIN a, j > 1, a[j].type = "moved"
          PROVE  MovedWaits(b, a[j].handle)
      <3>1. j # 1
        BY <1>1, <2>1
      <3>2. j - 1 \in DOMAIN b /\ b[j - 1] = a[j]
        BY <1>3, <3>1
      <3> QED
        BY <2>1, <3>2 DEF MovedWaits
    <2>2. a[1].type = "status" =>
            \/ a[1].path = nat[a[1].handle].location
            \/ \E j \in DOMAIN a : j > 1 /\ a[j].type = "moved" /\ a[j].handle = a[1].handle
      BY <1>8 DEF Reported
    <2>3. a[1].type = "status" => \/ a[1].path = nat[a[1].handle].location
                                  \/ MovedWaits(b, a[1].handle)
      BY <2>1, <2>2
    <2> QED
      BY <1>1, <2>3
  <1>10. /\ Head(a).type # "rejected"
         /\ Head(a).type = "moved" => Head(a).path = nat[Head(a).handle].location
    BY <1>1, <1>8 DEF Reported
  <1> QED
    BY <1>6, <1>7, <1>9, <1>10 DEF b

\* The alerts say the same of native torrents that are where they were.
LEMMA ReportedSame ==
    ASSUME NEW a \in Seq(Alert), NEW nat, NEW new, Reported(a, nat),
           \A h \in Handle : nat[h].state # "unused" =>
                new[h].state # "unused" /\ new[h].location = nat[h].location
    PROVE  Reported(a, new)
  <1>1. \A i \in DOMAIN a : a[i].handle \in Handle
    <2>1. \A i \in DOMAIN a : a[i] \in Alert
      BY LenProperties, ElementOfSeq
    <2> QED
      BY <2>1 DEF Alert
  <1> QED
    BY <1>1 DEF Reported

\* A job stays ongoing when other alerts are posted or handled.
LEMMA OngoingSame ==
    ASSUME NEW q, NEW o, NEW a \in Seq(Alert), Ongoing(q, o, a)
    PROVE  /\ \A x \in Alert : Ongoing(q, o, a \o <<x>>)
           /\ \A x \in Alert : IsMoveAlert(x) => Ongoing(q, {}, a \o <<x>>)
           /\ a # <<>> /\ ~IsMoveAlert(Head(a)) => Ongoing(q, o, Tail(a))
  <1>1. ASSUME NEW x \in Alert
        PROVE  Ongoing(q, o, a \o <<x>>) /\ (IsMoveAlert(x) => Ongoing(q, {}, a \o <<x>>))
    <2> DEFINE b == a \o <<x>>
               n == Len(a)
    <2>1. /\ n \in Nat /\ DOMAIN a = 1..n /\ DOMAIN b = 1 .. n + 1
          /\ \A i \in DOMAIN a : b[i] = a[i]
          /\ b[n + 1] = x
      BY PostedElements
    <2> HIDE DEF b, n
    <2>2. n + 1 \in DOMAIN b /\ \A i \in DOMAIN a : i \in DOMAIN b
      BY <2>1
    <2>3. Ongoing(q, o, b) /\ (IsMoveAlert(x) => Ongoing(q, {}, b))
      BY <2>1, <2>2 DEF Ongoing
    <2> QED
      BY <2>3 DEF b
  <1>2. ASSUME a # <<>>, ~IsMoveAlert(Head(a))
        PROVE  Ongoing(q, o, Tail(a))
    <2> DEFINE b == Tail(a)
    <2>1. /\ Len(a) \in Nat /\ DOMAIN a = 1..Len(a) /\ Len(a) # 0
          /\ b \in Seq(Alert) /\ Len(b) = Len(a) - 1
          /\ Head(a) = a[1]
          /\ \A i \in DOMAIN b : i + 1 \in DOMAIN a /\ b[i] = a[i + 1]
      BY <1>2, LenProperties, EmptySeq, HeadTailProperties, TailElements
    <2>2. DOMAIN b = 1 .. Len(a) - 1
      BY <2>1, LenProperties
    <2> HIDE DEF b
    <2>3. ASSUME NEW i \in DOMAIN a, IsMoveAlert(a[i])
          PROVE  i - 1 \in DOMAIN b /\ b[i - 1] = a[i]
      <3>1. i # 1
        BY <1>2, <2>1, <2>3
      <3> QED
        BY <2>1, <2>2, <3>1
    <2> QED
      BY <2>3 DEF Ongoing, b
  <1> QED
    BY <1>1, <1>2

-----------------------------------------------------------------------------
(* The invariant.                                                          *)

\* No files are missing, and none are to be removed.
FilesKept ==
    /\ \A t \in torrents : ~tor[t].missing
    /\ \A h \in Handle : ~native[h].unchecked
    /\ \A t \in Torrent : removing[t].option # "RemoveContent"

\* An ID has one live native torrent, which is that of the registered torrent.
Owners ==
    \A h \in Handle : native[h].state = "alive" =>
        /\ native[h].owner \in Torrent
        /\ native[h].owner \in torrents => tor[native[h].owner].handle = h

JobsAlive == \A i \in DOMAIN queue : native[queue[i].handle].state = "alive"

InQueue ==
    /\ \A t \in torrents : tor[t].moving <=> HasJobIn(queue, tor[t].handle)
    /\ \A h \in Handle : native[h].state = "alive" =>
            native[h].owner \in torrents \/ HasJobIn(queue, h)

\* A torrent knows where its files are, or is about to be told.
Located ==
    \A t \in torrents : \/ tor[t].location = native[tor[t].handle].location
                        \/ MovedWaits(alerts, tor[t].handle)

Settled ==
    /\ FilesKept
    /\ Owners
    /\ JobsAlive
    /\ OneInactive(queue)
    /\ Ongoing(queue, ops, alerts)
    /\ phase = "running" => InQueue
    /\ Reported(alerts, native)
    /\ Located

LEMMA InitSettled == Init => Settled
  <1> SUFFICES ASSUME Init PROVE Settled
    OBVIOUS
  <1>1. /\ torrents = {} /\ queue = <<>> /\ alerts = <<>>
        /\ \A h \in Handle : native[h].state = "unused" /\ native[h].unchecked = FALSE
        /\ \A t \in Torrent : removing[t].option = "none"
    BY DEF Init, NotRemoving
  <1>2. DOMAIN queue = {} /\ DOMAIN alerts = {}
    BY <1>1
  <1>3. FilesKept
    BY <1>1 DEF FilesKept
  <1>4. Owners /\ JobsAlive /\ OneInactive(queue) /\ Ongoing(queue, ops, alerts)
    BY <1>1, <1>2 DEF Owners, JobsAlive, OneInactive, Ongoing
  <1>5. InQueue /\ Reported(alerts, native) /\ Located
    BY <1>1, <1>2 DEF InQueue, Reported, Located
  <1> QED
    BY <1>3, <1>4, <1>5 DEF Settled

\* A step that moves and removes nothing.
LEMMA QuietSettled ==
    ASSUME Inv, Settled, torrents' = torrents, queue' = queue,
           phase' = phase \/ phase' # "running",
           \A t \in torrents : /\ tor'[t].handle = tor[t].handle
                               /\ tor'[t].moving = tor[t].moving
                               /\ tor'[t].missing => tor[t].missing,
           \A h \in Handle : /\ native'[h].state = "alive" <=> native[h].state = "alive"
                             /\ native'[h].owner = native[h].owner
                             /\ native'[h].unchecked => native[h].unchecked,
           \A t \in Torrent : removing'[t].option = removing[t].option
                              \/ removing'[t].option = "none",
           Ongoing(queue, ops', alerts'), Reported(alerts', native'), Located'
    PROVE  Settled'
  <1>1. FilesKept'
    BY DEF Settled, FilesKept
  <1>2. Owners'
    BY DEF Settled, Owners
  <1>3. \A i \in DOMAIN queue : queue[i].handle \in Handle
    <2>1. \A i \in DOMAIN queue : queue[i] \in MoveStorageJob
      BY LenProperties, ElementOfSeq DEF Inv, Moves
    <2> QED
      BY <2>1 DEF MoveStorageJob
  <1>4. JobsAlive'
    BY <1>3 DEF Settled, JobsAlive
  <1>5. phase' = "running" => InQueue'
    BY DEF Settled, InQueue
  <1> QED
    BY <1>1, <1>2, <1>4, <1>5 DEF Settled

\* A registered torrent is the one of its native torrent; the others have others.
LEMMA OwnHandles ==
    ASSUME Inv, Owning
    PROVE  /\ \A t \in torrents : /\ tor[t].handle \in Handle /\ tor[t] \in RegisteredRec
                                  /\ tor[t] \in TorrentRec
                                  /\ native[tor[t].handle].state = "alive"
                                  /\ native[tor[t].handle].owner = t
           /\ \A i \in DOMAIN queue : queue[i] \in MoveStorageJob /\ queue[i].handle \in Handle
           /\ \A i \in DOMAIN alerts : alerts[i] \in Alert /\ alerts[i].handle \in Handle
           /\ tor \in [Torrent -> TorrentRec] /\ torrents \subseteq Torrent
           /\ native \in [Handle -> NativeRec] /\ queue \in Seq(MoveStorageJob)
           /\ alerts \in Seq(Alert) /\ removing \in [Torrent -> RemovingRec]
  <1>1. \A t \in torrents : tor[t].handle \in Handle /\ tor[t] \in RegisteredRec
                            /\ tor[t] \in TorrentRec
    BY DEF Inv, Session, RegisteredRec
  <1>2. \A i \in DOMAIN queue : queue[i] \in MoveStorageJob
    BY LenProperties, ElementOfSeq DEF Inv, Moves
  <1>3. \A i \in DOMAIN alerts : alerts[i] \in Alert
    BY LenProperties, ElementOfSeq DEF Inv, Moves
  <1>4. \A i \in DOMAIN queue : queue[i].handle \in Handle
    BY <1>2 DEF MoveStorageJob
  <1>5. \A i \in DOMAIN alerts : alerts[i].handle \in Handle
    BY <1>3 DEF Alert
  <1> QED
    BY <1>1, <1>2, <1>3, <1>4, <1>5 DEF Inv, Session, NativeLocated, Moves, Owning, OwnsNative

-----------------------------------------------------------------------------
(* Requests.                                                               *)

\* A torrent is asked to move.
LEMMA MoveSettled ==
    ASSUME Inv, Owning, Settled, phase = "running",
           NEW t \in torrents, UNCHANGED <<torrents, removing, phase>>,
           NEW rec \in RegisteredRec, rec.handle = tor[t].handle,
           rec.moving = tor[t].moving, rec.location = tor[t].location, ~rec.missing,
           NEW newPath \in Path, NEW context \in Context,
           NEW f, f \in HandlesFor(rec, CancelReloads(rec)), EnqueueMove(rec, newPath, context, f),
           NEW new, tor' = [tor EXCEPT ![t] = new],
           new.handle = MoveRequested(rec, newPath, f).handle,
           new.moving = MoveRequested(rec, newPath, f).moving,
           new.location = MoveRequested(rec, newPath, f).location,
           new.missing => MoveRequested(rec, newPath, f).missing
    PROVE  Settled'
  <1> DEFINE h == rec.handle
             job == [handle |-> h, path |-> newPath, context |-> context]
             rest == WithoutInactive(h)
  <1>1. /\ tor \in [Torrent -> TorrentRec] /\ torrents \subseteq Torrent
        /\ queue \in Seq(MoveStorageJob) /\ alerts \in Seq(Alert)
        /\ h \in Handle /\ native[h].state = "alive" /\ native[h].owner = t
        /\ job \in MoveStorageJob
    BY OwnHandles DEF MoveStorageJob
  <1>2. tor'[t] = new /\ \A u \in torrents \ {t} : tor'[u] = tor[u]
    BY <1>1
  <1>3. ~CancelReloads(rec)
    BY DEF CancelReloads, ReloadsAfterMove
  <1>4. f \in Handle
    BY HandlesForType
  <1>5. /\ new.handle = h /\ new.location = tor[t].location /\ ~new.missing
        /\ new.moving = IF IsMeaningless(rec, newPath) THEN Cancelled(rec).moving ELSE TRUE
    <2> DEFINE m == MoveRequested(rec, newPath, f)
    <2>1. /\ m.handle = IF CancelReloads(rec) THEN f ELSE rec.handle
          /\ ~CancelReloads(rec) => m.location = rec.location
          /\ m.missing => rec.missing
          /\ m.moving = IF IsMeaningless(rec, newPath) THEN Cancelled(rec).moving ELSE TRUE
      BY <1>4, MoveRequestedFields
    <2>2. new.handle = m.handle /\ new.moving = m.moving /\ new.location = m.location
          /\ (new.missing => m.missing)
      OBVIOUS
    <2> HIDE DEF m
    <2>3. new.handle = h /\ new.location = tor[t].location /\ ~new.missing
      BY <1>3, <2>1, <2>2
    <2>4. new.moving = IF IsMeaningless(rec, newPath) THEN Cancelled(rec).moving ELSE TRUE
      BY <2>1, <2>2, Zenon
    <2> QED
      BY <2>3, <2>4
  <1>6. Cancelled(rec).moving = IF InactiveJobs(h) = {} THEN tor[t].moving ELSE HasActiveJob(h)
    BY CancelledFields
  <1>7. native' = native
    BY <1>3 DEF EnqueueMove
  <1>8. OneInactive(queue) /\ JobsAlive /\ Ongoing(queue, ops, alerts) /\ InQueue
    BY DEF Settled
  <1>9. /\ rest \in Seq(MoveStorageJob) /\ OneInactive(rest)
        /\ \A i \in DOMAIN rest : i > 1 => rest[i].handle # h
        /\ \A g : g # h => (HasJobIn(rest, g) <=> HasJobIn(queue, g))
        /\ HasJobIn(rest, h) <=> HasActiveJob(h)
        /\ \A i \in DOMAIN rest : HasJobIn(queue, rest[i].handle)
    BY <1>1, <1>8, WithoutInactiveJobs
  <1>10. /\ Append(rest, job) \in Seq(MoveStorageJob) /\ OneInactive(Append(rest, job))
         /\ Append(rest, job) # <<>>
         /\ \A g : HasJobIn(Append(rest, job), g) <=> HasJobIn(rest, g) \/ g = h
         /\ \A i \in DOMAIN Append(rest, job) :
                \/ Append(rest, job)[i] = job
                \/ i \in DOMAIN rest /\ Append(rest, job)[i] = rest[i]
    <2>1. \A i \in DOMAIN rest : i > 1 => rest[i].handle # job.handle
      BY <1>9
    <2> HIDE DEF rest
    <2> QED
      BY <1>1, <1>9, <2>1, AppendJobs
  <1>11. (queue # <<>> => rest # <<>>) /\ (queue = <<>> => rest = <<>>)
    BY <1>1, WithoutInactiveHead
  <1>12. StartAlerts(job) = <<>> /\ StartedOps(job) # {}
    BY <1>1 DEF StartAlerts, StartedOps
  <1>13. IF IsMeaningless(rec, newPath)
         THEN queue' = rest /\ UNCHANGED <<ops, alerts>>
         ELSE /\ queue' = Append(rest, job)
              /\ IF rest = <<>>
                 THEN ops' = ops \cup StartedOps(job) /\ alerts' = alerts \o StartAlerts(job)
                 ELSE UNCHANGED <<ops, alerts>>
    BY DEF EnqueueMove
  <1>14. alerts' = alerts
    <2>1. alerts \o <<>> = alerts
      BY <1>1, ConcatEmptySeq
    <2> QED
      BY <1>12, <1>13, <2>1
  <1>15. InactiveJobs(h) = {} => rest = queue
    BY DEF WithoutInactive
  <1>16. \A i \in DOMAIN rest : native[rest[i].handle].state = "alive"
    BY <1>8, <1>9 DEF JobsAlive, HasJobIn
  <1>17. Ongoing(queue', ops', alerts')
    BY <1>8, <1>11, <1>12, <1>13, <1>14 DEF Ongoing
  <1> HIDE DEF rest, job, h
  <1>18. JobsAlive' /\ OneInactive(queue')
    <2>1. job.handle = h
      BY DEF job
    <2>2. CASE queue' = rest
      BY <1>7, <1>9, <1>16, <2>2 DEF JobsAlive
    <2>3. CASE queue' = Append(rest, job)
      BY <1>1, <1>7, <1>10, <1>16, <2>1, <2>3 DEF JobsAlive
    <2> QED
      BY <1>13, <2>2, <2>3
  <1>19. \A g : g # h => (HasJobIn(queue', g) <=> HasJobIn(queue, g))
    BY <1>9, <1>10, <1>13
  <1>20. new.moving <=> HasJobIn(queue', h)
    <2>1. CASE ~IsMeaningless(rec, newPath)
      BY <1>5, <1>10, <1>13, <2>1
    <2>2. CASE IsMeaningless(rec, newPath) /\ InactiveJobs(h) = {}
      <3>1. tor[t].moving <=> HasJobIn(queue, h)
        BY <1>8 DEF InQueue, h
      <3> QED
        BY <1>5, <1>6, <1>13, <1>15, <2>2, <3>1
    <2>3. CASE IsMeaningless(rec, newPath) /\ InactiveJobs(h) # {}
      BY <1>5, <1>6, <1>9, <1>13, <2>3
    <2> QED
      BY <2>1, <2>2, <2>3
  <1>21. \A u \in torrents \ {t} : tor[u].handle # h
    BY <1>1, OwnHandles
  <1>22. InQueue'
    <2>1. ASSUME NEW u \in torrents
          PROVE  tor'[u].moving <=> HasJobIn(queue', tor'[u].handle)
      <3>1. CASE u = t
        BY <1>2, <1>5, <1>20, <3>1
      <3>2. CASE u # t
        <4>1. tor'[u] = tor[u] /\ tor[u].handle # h
          BY <1>2, <1>21, <3>2
        <4>2. tor[u].moving <=> HasJobIn(queue, tor[u].handle)
          BY <1>8 DEF InQueue
        <4> QED
          BY <1>19, <4>1, <4>2
      <3> QED
        BY <3>1, <3>2
    <2>2. \A g \in Handle : native'[g].state = "alive" =>
                native'[g].owner \in torrents' \/ HasJobIn(queue', g)
      BY <1>1, <1>7, <1>8, <1>19 DEF InQueue
    <2> QED
      BY <2>1, <2>2 DEF InQueue
  <1>23. FilesKept'
    BY <1>2, <1>5, <1>7 DEF Settled, FilesKept
  <1>24. \A u \in torrents : tor'[u].handle = tor[u].handle /\ tor'[u].location = tor[u].location
    BY <1>2, <1>5 DEF h
  <1>25. Owners' /\ Located'
    BY <1>7, <1>14, <1>24 DEF Settled, Owners, Located
  <1>26. Reported(alerts', native')
    BY <1>7, <1>14 DEF Settled
  <1> QED
    BY <1>17, <1>18, <1>22, <1>23, <1>25, <1>26 DEF Settled

\* Two descriptions of a torrent, by what the queue and its place are about.
SamePlace(new, old) ==
    /\ new.handle = old.handle /\ new.moving = old.moving /\ new.location = old.location
    /\ new.missing => old.missing

LEMMA RequestSettled ==
    ASSUME Inv, Owning, Settled, NEW t \in Torrent,
           \/ \E p \in Path : SetSavePath(t, p)
           \/ \E p \in MaybePath : SetDownloadPath(t, p)
           \/ TorrentFinished(t)
           \/ \E complete \in BOOLEAN : TorrentChecked(t, complete)
           \/ StartMissing(t)
    PROVE  Settled'
  <1> DEFINE rec == tor[t]
  <1>1. /\ t \in torrents /\ phase = "running" /\ UNCHANGED <<torrents, removing, phase>>
        /\ rec \in RegisteredRec /\ rec \in TorrentRec /\ ~rec.missing
        /\ tor \in [Torrent -> TorrentRec]
    BY OwnHandles DEF SetSavePath, SetDownloadPath, TorrentFinished, TorrentChecked,
                      StartMissing, Running, Settled, FilesKept
  <1>2. ASSUME NEW new, tor' = [tor EXCEPT ![t] = new], SamePlace(new, rec),
               UNCHANGED <<queue, ops, native, alerts>>
        PROVE  Settled'
    <2>1. \A u \in torrents : SamePlace(tor'[u], tor[u])
      BY <1>1, <1>2 DEF SamePlace
    <2>2. Located'
      BY <1>1, <1>2, <2>1 DEF SamePlace, Settled, Located
    <2> QED
      BY <1>1, <1>2, <2>1, <2>2, QuietSettled DEF SamePlace, Settled
  <1>3. ASSUME NEW r \in RegisteredRec, SamePlace(r, rec),
               NEW f, f \in HandlesFor(r, AdjustReloads(r)), EnqueueAdjust(r, f),
               NEW new, tor' = [tor EXCEPT ![t] = new], SamePlace(new, Adjusted(r, f))
        PROVE  Settled'
    <2>1. CASE NeedsAdjust(r)
      <3>1. AdjustTarget(r) \in Path /\ "AdjustCurrentLocation" \in Context
        BY <1>3, <2>1, AdjustedType, HandlesForType DEF Context
      <3>2. /\ EnqueueMove(r, AdjustTarget(r), "AdjustCurrentLocation", f)
            /\ Adjusted(r, f) = MoveRequested(r, AdjustTarget(r), f)
            /\ AdjustReloads(r) = CancelReloads(r)
        BY <1>3, <2>1 DEF EnqueueAdjust, Adjusted, AdjustReloads, CancelReloads
      <3> DEFINE target == AdjustTarget(r)
                 m == MoveRequested(r, target, f)
      <3>3. /\ r.handle = tor[t].handle /\ r.moving = tor[t].moving
            /\ r.location = tor[t].location /\ ~r.missing
        BY <1>1, <1>3 DEF SamePlace
      <3>4. /\ new.handle = m.handle /\ new.moving = m.moving /\ new.location = m.location
            /\ new.missing => m.missing
        BY <1>3, <3>2 DEF SamePlace
      <3>5. target \in Path /\ EnqueueMove(r, target, "AdjustCurrentLocation", f)
            /\ f \in HandlesFor(r, CancelReloads(r))
        BY <1>3, <3>1, <3>2
      <3> HIDE DEF target, rec
      <3> QED
        BY <1>1, <1>3, <3>1, <3>3, <3>4, <3>5, MoveSettled DEF rec
    <2>2. CASE ~NeedsAdjust(r)
      <3>1. SamePlace(new, rec) /\ UNCHANGED <<queue, native, ops, alerts>>
        BY <1>3, <2>2 DEF EnqueueAdjust, Adjusted, SamePlace
      <3> QED
        BY <1>2, <1>3, <3>1
    <2> QED
      BY <2>1, <2>2
  <1>4. ASSUME NEW p \in Path, SetSavePath(t, p)
        PROVE  Settled'
    <2>1. CASE ShouldUseDownloadPath(rec)
      <3>1. tor' = [tor EXCEPT ![t] = [rec EXCEPT !.savePath = p, !.deferred = TRUE]]
            /\ UNCHANGED <<queue, native, ops, alerts>>
        BY <1>4, <2>1 DEF SetSavePath
      <3>2. SamePlace([rec EXCEPT !.savePath = p, !.deferred = TRUE], rec)
        BY <1>1 DEF TorrentRec, SamePlace
      <3> QED
        BY <1>2, <3>1, <3>2
    <2>2. CASE ~ShouldUseDownloadPath(rec)
      <3>1. PICK f \in HandlesFor(rec, CancelReloads(rec)) :
                /\ tor' = [tor EXCEPT ![t] = MoveRequested(rec, p, f)]
                /\ EnqueueMove(rec, p, "ChangeSavePath", f)
        BY <1>4, <2>2 DEF SetSavePath
      <3> QED
        BY <1>1, <1>4, <3>1, MoveSettled DEF Context
    <2> QED
      BY <2>1, <2>2
  <1>5. ASSUME NEW p \in MaybePath, SetDownloadPath(t, p)
        PROVE  Settled'
    <2>1. CASE ~ShouldUseDownloadPath(rec)
      <3>1. tor' = [tor EXCEPT ![t] = [rec EXCEPT !.downloadPath = p, !.deferred = TRUE]]
            /\ UNCHANGED <<queue, native, ops, alerts>>
        BY <1>5, <2>1 DEF SetDownloadPath
      <3>2. SamePlace([rec EXCEPT !.downloadPath = p, !.deferred = TRUE], rec)
        BY <1>1 DEF TorrentRec, SamePlace
      <3> QED
        BY <1>2, <3>1, <3>2
    <2>2. CASE ShouldUseDownloadPath(rec)
      <3> DEFINE target == IF p = NoPath THEN rec.savePath ELSE p
      <3>1. target \in Path
        BY <1>1, <1>5 DEF RegisteredRec, MaybePath
      <3>2. PICK f \in HandlesFor(rec, CancelReloads(rec)) :
                /\ tor' = [tor EXCEPT ![t] = MoveRequested(rec, target, f)]
                /\ EnqueueMove(rec, target, "ChangeDownloadPath", f)
        BY <1>5, <2>2 DEF SetDownloadPath
      <3> QED
        BY <1>1, <3>1, <3>2, MoveSettled DEF Context
    <2> QED
      BY <2>1, <2>2
  <1>6. ASSUME NEW r0 \in RegisteredRec, SamePlace(r0, rec)
        PROVE  Promoted(r0) \in RegisteredRec /\ SamePlace(Promoted(r0), rec)
    BY <1>6 DEF Promoted, RegisteredRec, TorrentRec, SamePlace
  <1>7. CASE TorrentFinished(t)
    <2> DEFINE r0 == [rec EXCEPT !.missing = FALSE, !.recovered = FALSE, !.finished = TRUE]
               r == Promoted(r0)
    <2>1. r0 \in RegisteredRec /\ SamePlace(r0, rec)
      BY <1>1 DEF RegisteredRec, TorrentRec, SamePlace
    <2> HIDE DEF r0
    <2>2. r \in RegisteredRec /\ SamePlace(r, rec)
      BY <1>6, <2>1
    <2> HIDE DEF r
    <2>3. PICK f \in HandlesFor(r, AdjustReloads(r)) :
              /\ tor' = [tor EXCEPT ![t] =
                           [[Adjusted(r, f) EXCEPT !.deferred = TRUE] EXCEPT
                               !.notify = [Adjusted(r, f) EXCEPT !.deferred = TRUE].moving]]
              /\ EnqueueAdjust(r, f)
      BY <1>7 DEF TorrentFinished, r, r0
    <2> DEFINE moved == [Adjusted(r, f) EXCEPT !.deferred = TRUE]
               new == [moved EXCEPT !.notify = moved.moving]
    <2>4. f \in Handle /\ Adjusted(r, f) \in RegisteredRec
      BY <2>2, <2>3, HandlesForType, AdjustedType
    <2>5. moved \in TorrentRec /\ SamePlace(moved, Adjusted(r, f))
      BY <2>4 DEF RegisteredRec, TorrentRec, SamePlace
    <2> HIDE DEF moved
    <2>6. SamePlace(new, Adjusted(r, f))
      BY <2>5 DEF TorrentRec, SamePlace
    <2>7. tor' = [tor EXCEPT ![t] = new]
      BY <2>3 DEF moved
    <2> HIDE DEF new
    <2> QED
      BY <1>3, <2>2, <2>3, <2>6, <2>7
  <1>8. ASSUME NEW complete \in BOOLEAN, TorrentChecked(t, complete)
        PROVE  Settled'
    <2> DEFINE r0 == [rec EXCEPT !.finished = complete]
               r == Promoted(r0)
    <2>1. r0 \in RegisteredRec /\ SamePlace(r0, rec)
      BY <1>1 DEF RegisteredRec, TorrentRec, SamePlace
    <2> HIDE DEF r0
    <2>2. r \in RegisteredRec /\ SamePlace(r, rec)
      BY <1>6, <2>1
    <2> HIDE DEF r
    <2> DEFINE dirty == native[rec.handle].dirty
    <2>3. PICK f \in HandlesFor(r, AdjustReloads(r)) :
              /\ tor' = [tor EXCEPT ![t] = [Adjusted(r, f) EXCEPT !.deferred = @ \/ dirty]]
              /\ EnqueueAdjust(r, f)
      BY <1>1, <1>8 DEF TorrentChecked, r, r0
    <2> DEFINE new == [Adjusted(r, f) EXCEPT !.deferred = @ \/ dirty]
    <2>4. f \in Handle /\ Adjusted(r, f) \in RegisteredRec
      BY <2>2, <2>3, HandlesForType, AdjustedType
    <2>5. SamePlace(new, Adjusted(r, f))
      BY <2>4 DEF RegisteredRec, TorrentRec, SamePlace
    <2>6. tor' = [tor EXCEPT ![t] = new]
      BY <2>3
    <2> HIDE DEF new
    <2> QED
      BY <1>3, <2>2, <2>3, <2>5, <2>6
  <1>9. CASE StartMissing(t)
    BY <1>1, <1>9 DEF StartMissing
  <1> QED
    BY <1>4, <1>5, <1>7, <1>8, <1>9

LEMMA AddTorrentSettled ==
    ASSUME KeptFiles, Inv, Owning, Settled, NEW t \in Torrent, NEW l \in Layouts,
           NEW restored \in BOOLEAN, NEW h \in Handle, AddTorrent(t, l, restored, h)
    PROVE  Settled'
  <1> DEFINE fresh == NewNative(t, l.location, ~restored)
             new == [fresh EXCEPT !.requests = IF restored THEN 0 ELSE 1]
             rec == [Blank EXCEPT
                    !.handle = h, !.savePath = l.savePath,
                    !.downloadPath = l.downloadPath,
                    !.location = l.location, !.paramsPath = l.location,
                    !.finishedStorage = l.location = l.savePath]
  <1>1. /\ t \notin torrents /\ native[h].state = "unused"
        /\ \A g \in Handle : native[g].owner = t => native[g].state # "alive"
        /\ torrents' = torrents \cup {t} /\ tor' = [tor EXCEPT ![t] = rec]
        /\ native' = [native EXCEPT ![h] = new]
        /\ UNCHANGED <<queue, removing, phase, ops, alerts>>
    BY DEF AddTorrent, Unused
  <1>2. /\ new.state = "alive" /\ new.owner = t /\ ~new.unchecked /\ new.location = l.location
    BY DEF NewNative, KeptFiles
  <1>3. rec.handle = h /\ rec.location = l.location /\ rec.moving = FALSE /\ rec.missing = FALSE
    BY DEF Blank
  <1> HIDE DEF new, rec
  <1>4. /\ native'[h] = new /\ \A g \in Handle \ {h} : native'[g] = native[g]
        /\ tor'[t] = rec /\ \A u \in torrents : tor'[u] = tor[u]
    BY <1>1, OwnHandles
  <1>5. \A u \in torrents : tor[u].handle \in Handle \ {h}
    BY <1>1, OwnHandles
  <1>6. \A i \in DOMAIN queue : queue[i].handle \in Handle \ {h}
    BY <1>1, OwnHandles DEF Settled, JobsAlive
  <1>7. FilesKept'
    BY <1>1, <1>2, <1>3, <1>4 DEF Settled, FilesKept
  <1>8. Owners'
    BY <1>1, <1>2, <1>3, <1>4 DEF Settled, Owners
  <1>9. JobsAlive'
    BY <1>1, <1>4, <1>6 DEF Settled, JobsAlive
  <1>10. OneInactive(queue') /\ Ongoing(queue', ops', alerts')
    BY <1>1 DEF Settled
  <1>11. phase' = "running" => InQueue'
    <2> SUFFICES ASSUME phase = "running" PROVE InQueue'
      BY <1>1
    <2>1. InQueue
      BY DEF Settled
    <2>2. ~HasJobIn(queue, h)
      BY <1>6 DEF HasJobIn
    <2>3. \A u \in torrents' : tor'[u].moving <=> HasJobIn(queue, tor'[u].handle)
      BY <1>1, <1>3, <1>4, <2>1, <2>2 DEF InQueue
    <2>4. \A g \in Handle : native'[g].state = "alive" =>
                native'[g].owner \in torrents' \/ HasJobIn(queue, g)
      BY <1>1, <1>2, <1>4, <2>1 DEF InQueue
    <2> QED
      BY <1>1, <2>3, <2>4 DEF InQueue
  <1>12. Reported(alerts', native')
    <2> DEFINE nat == native'
    <2>1. \A g \in Handle : native[g].state # "unused" =>
                nat[g].state # "unused" /\ nat[g].location = native[g].location
      BY <1>1, <1>4
    <2>2. Reported(alerts, native) /\ alerts \in Seq(Alert)
      BY OwnHandles DEF Settled
    <2> HIDE DEF nat
    <2>3. Reported(alerts, nat)
      BY <2>1, <2>2, ReportedSame
    <2> QED
      BY <1>1, <2>3 DEF nat
  <1>13. Located'
    <2>1. ASSUME NEW u \in torrents
          PROVE  \/ tor'[u].location = native'[tor'[u].handle].location
                 \/ MovedWaits(alerts', tor'[u].handle)
      BY <1>1, <1>4, <1>5 DEF Settled, Located
    <2> QED
      BY <1>1, <1>2, <1>3, <1>4, <2>1 DEF Located
  <1> QED
    BY <1>7, <1>8, <1>9, <1>10, <1>11, <1>12, <1>13 DEF Settled

\* Native torrents that lt::session::remove_torrent was called for, or not.
LEMMA ClosedSettled ==
    ASSUME Inv, Owning, Settled, NEW h \in Handle,
           native' = native \/ native' = Closed(native, h)
    PROVE  /\ Reported(alerts, native')
           /\ \A g \in Handle : /\ native'[g].owner = native[g].owner
                                /\ native'[g].location = native[g].location
                                /\ native'[g].unchecked = native[g].unchecked
                                /\ g # h => native'[g] = native[g]
                                /\ native'[g].state = "alive" => native[g].state = "alive"
           /\ native' = Closed(native, h) => native'[h].state # "alive"
  <1> DEFINE nat == native'
  <1>1. native \in [Handle -> NativeRec] /\ alerts \in Seq(Alert) /\ Reported(alerts, native)
    BY OwnHandles DEF Settled
  <1>2. /\ \A g \in Handle : /\ nat[g].owner = native[g].owner
                             /\ nat[g].location = native[g].location
                             /\ nat[g].unchecked = native[g].unchecked
                             /\ g # h => nat[g] = native[g]
                             /\ nat[g].state = "alive" => native[g].state = "alive"
                             /\ native[g].state # "unused" => nat[g].state # "unused"
        /\ nat = Closed(native, h) => nat[h].state # "alive"
    <2>1. CASE native' = native /\ native' # Closed(native, h)
      BY <2>1
    <2>2. CASE native' = Closed(native, h)
      <3>1. \A g \in Handle :
                /\ Closed(native, h)[g].owner = native[g].owner
                /\ Closed(native, h)[g].location = native[g].location
                /\ Closed(native, h)[g].unchecked = native[g].unchecked
                /\ g # h => Closed(native, h)[g] = native[g]
                /\ Closed(native, h)[g].state =
                      IF g = h /\ native[h].state = "alive" THEN "closing" ELSE native[g].state
        BY <1>1, ClosedFields
      <3> QED
        BY <2>2, <3>1
    <2> QED
      BY <2>1, <2>2
  <1> HIDE DEF nat
  <1>3. Reported(alerts, nat)
    BY <1>1, <1>2, ReportedSame
  <1> QED
    BY <1>2, <1>3 DEF nat

LEMMA RemoveTorrentSettled ==
    ASSUME KeptFiles, Inv, Owning, Settled, NEW t \in Torrent, NEW option \in RemoveOptions,
           RemoveTorrent(t, option)
    PROVE  Settled'
  <1> DEFINE h == tor[t].handle
  <1>1. option = "KeepContent"
    BY DEF KeptFiles
  <1>2. /\ t \in torrents /\ torrents' = torrents \ {t} /\ tor' = [tor EXCEPT ![t] = Blank]
        /\ removing' = [removing EXCEPT ![t] = [option |-> option, path |-> tor[t].location]]
        /\ native' = IF HasJobIn(queue, h) THEN native ELSE Closed(native, h)
        /\ UNCHANGED <<queue, phase, ops, alerts>>
    BY <1>1 DEF RemoveTorrent, KeepsNative, HasJob, HasJobIn
  <1>3. h \in Handle /\ native[h].state = "alive" /\ native[h].owner = t
    BY <1>2, OwnHandles
  <1> HIDE DEF h
  <1>4. /\ Reported(alerts, native')
        /\ \A g \in Handle : /\ native'[g].owner = native[g].owner
                             /\ native'[g].location = native[g].location
                             /\ native'[g].unchecked = native[g].unchecked
                             /\ g # h => native'[g] = native[g]
                             /\ native'[g].state = "alive" => native[g].state = "alive"
    BY <1>2, <1>3, ClosedSettled
  <1>5. HasJobIn(queue, h) => native' = native
    BY <1>2
  <1>6. ~HasJobIn(queue, h) => native'[h].state # "alive"
    BY <1>2, <1>3, ClosedSettled
  <1>7. \A u \in torrents' : /\ tor'[u] = tor[u] /\ u \in torrents
                             /\ tor[u].handle \in Handle \ {h}
    BY <1>2, <1>3, OwnHandles
  <1>8. FilesKept'
    <2>1. \A u \in Torrent : removing'[u].option # "RemoveContent"
      BY <1>1, <1>2, OwnHandles DEF Settled, FilesKept
    <2> QED
      BY <1>4, <1>7, <2>1 DEF Settled, FilesKept
  <1>9. Owners'
    BY <1>2, <1>4, <1>7 DEF Settled, Owners
  <1>10. JobsAlive'
    <2>1. ASSUME NEW i \in DOMAIN queue PROVE native'[queue[i].handle].state = "alive"
      <3>1. queue[i].handle \in Handle /\ native[queue[i].handle].state = "alive"
            /\ HasJobIn(queue, queue[i].handle)
        BY OwnHandles DEF Settled, JobsAlive, HasJobIn
      <3> QED
        BY <1>4, <1>5, <3>1
    <2> QED
      BY <1>2, <2>1 DEF JobsAlive
  <1>11. phase' = "running" => InQueue'
    <2> SUFFICES ASSUME phase = "running" PROVE InQueue'
      BY <1>2
    <2>1. InQueue
      BY DEF Settled
    <2>2. \A u \in torrents' : tor'[u].moving <=> HasJobIn(queue, tor'[u].handle)
      BY <1>7, <2>1 DEF InQueue
    <2>3. ASSUME NEW g \in Handle, native'[g].state = "alive"
          PROVE  native'[g].owner \in torrents' \/ HasJobIn(queue, g)
      <3>1. native[g].state = "alive" /\ native'[g].owner = native[g].owner
        BY <1>4, <2>3
      <3>2. CASE g = h
        BY <1>6, <2>3, <3>2
      <3>3. CASE g # h
        <4>1. native[g].owner # t
          BY <1>2, <3>1, <3>3 DEF Settled, Owners, h
        <4> QED
          BY <1>2, <2>1, <3>1, <4>1 DEF InQueue
      <3> QED
        BY <3>2, <3>3
    <2> QED
      BY <1>2, <2>2, <2>3 DEF InQueue
  <1>12. OneInactive(queue') /\ Ongoing(queue', ops', alerts') /\ Reported(alerts', native')
    BY <1>2, <1>4 DEF Settled
  <1>13. Located'
    BY <1>2, <1>4, <1>7 DEF Settled, Located
  <1> QED
    BY <1>8, <1>9, <1>10, <1>11, <1>12, <1>13 DEF Settled

-----------------------------------------------------------------------------
(* Alerts.                                                                 *)

\* The end of the first job is recorded, and the next job starts.
LEMMA FinishHeadJobSettled ==
    ASSUME Inv, Owning, Settled, alerts # <<>>, IsMoveAlert(Head(alerts)),
           NEW newPath,
           OwnerOf(Head(queue).handle) \in torrents =>
                newPath \in Path /\ newPath = native[Head(queue).handle].location,
           FinishHeadJob(newPath), UNCHANGED <<torrents, phase>>
    PROVE  Settled'
  <1> DEFINE job == Head(queue)
             h == job.handle
             rest == Tail(queue)
             id == OwnerOf(h)
             outstanding == HasOutstanding(rest, h)
             done == MoveRecorded(tor[id], newPath, job.context, outstanding)
             entry == IF removing[id].option = "none"
                      THEN [NotRemoving EXCEPT !.option = "KeepContent"] ELSE removing[id]
  <1>1. /\ queue # <<>> /\ rest \in Seq(MoveStorageJob) /\ ops = {}
        /\ queue \in Seq(MoveStorageJob) /\ alerts \in Seq(Alert)
        /\ tor \in [Torrent -> TorrentRec] /\ torrents \subseteq Torrent
        /\ removing \in [Torrent -> RemovingRec]
    BY OwnHandles, MovesFinish DEF Inv
  <1>2. /\ OneInactive(rest) /\ HasJobIn(queue, h)
        /\ \A g : g # h => (HasJobIn(rest, g) <=> HasJobIn(queue, g))
        /\ \A g : HasJobIn(rest, g) => HasJobIn(queue, g)
    BY <1>1, TailJobs DEF Settled
  <1>3. \A g : HasJobIn(queue, g) => g \in Handle /\ native[g].state = "alive"
    BY OwnHandles DEF HasJobIn, Settled, JobsAlive
  <1>4. h \in Handle /\ native[h].state = "alive" /\ id = native[h].owner
    BY <1>2, <1>3 DEF OwnerOf
  <1>5. id \in Torrent /\ (id \in torrents => tor[id].handle = h)
    BY <1>4 DEF Settled, Owners
  <1>6. outstanding <=> HasJobIn(rest, h)
    BY DEF HasOutstanding, HasJobIn
  <1>7. rest # <<>> => HasJobIn(rest, Head(rest).handle)
    BY <1>1, TailElements DEF HasJobIn
  <1>8. rest # <<>> => /\ native[Head(rest).handle].state = "alive"
                       /\ ~StartThrows(Head(rest)) /\ StartAlerts(Head(rest)) = <<>>
                       /\ StartedOps(Head(rest)) # {}
    BY <1>2, <1>3, <1>7 DEF StartThrows, StartAlerts, StartedOps
  <1>9. /\ queue' = rest
        /\ rest # <<>> => ops' # {}
        /\ alerts' = Tail(alerts) \o <<>>
    BY <1>8 DEF FinishHeadJob
  <1>10. alerts' = Tail(alerts)
    <2>1. Tail(alerts) \in Seq(Alert)
      BY <1>1, HeadTailProperties
    <2> QED
      BY <1>9, <2>1, ConcatEmptySeq
  <1>11. Head(alerts).handle = h
    <2>1. Head(alerts) = alerts[1] /\ 1 \in DOMAIN alerts
      BY <1>1, TailElements
    <2> QED
      BY <2>1 DEF Inv, Moves
  <1>12. id \in torrents => ~tor[id].missing
    BY DEF Settled, FilesKept
  <1>13. \/ /\ id \in torrents /\ tor' = [tor EXCEPT ![id] = done]
            /\ native' = native /\ removing' = removing
         \/ /\ id \notin torrents /\ tor' = tor /\ outstanding
            /\ native' = native /\ removing' = removing
         \/ /\ id \notin torrents /\ tor' = tor /\ ~outstanding
            /\ removing' = [removing EXCEPT ![id] = entry]
            /\ native' = IF entry.option = "KeepContent" THEN Closed(native, h) ELSE native
    <2>1. id # NoTorrent
      BY <1>5, NullAssumption
    <2> QED
      BY <1>8, <1>12, <2>1 DEF FinishHeadJob, ReloadsAfterMove
  <1>14. entry.option = "KeepContent" /\ entry \in RemovingRec
    <2>1. removing[id] \in RemovingRec /\ removing[id].option # "RemoveContent"
      BY <1>1, <1>5 DEF Settled, FilesKept
    <2> QED
      BY <2>1 DEF NotRemoving, RemovingRec, MaybePath
  <1>15. \A u \in torrents : /\ tor[u].handle \in Handle
                             /\ native[tor[u].handle].owner = u
    BY OwnHandles
  <1> HIDE DEF rest, outstanding, job, h, id, done, entry
  <1>16. id \in torrents => /\ done.handle = h /\ done.location = native[h].location
                            /\ done.moving = outstanding /\ ~done.missing
    <2> SUFFICES ASSUME id \in torrents
                 PROVE  /\ done.handle = h /\ done.location = native[h].location
                        /\ done.moving = outstanding /\ ~done.missing
      OBVIOUS
    <2>1. tor[id] \in RegisteredRec /\ tor[id].handle = h /\ ~tor[id].missing
      BY <1>5, <1>12, OwnHandles
    <2>2. outstanding \in BOOLEAN
      BY DEF outstanding, HasOutstanding
    <2>3. newPath \in Path /\ newPath = native[h].location
      BY DEF id, h, job
    <2>4. done.handle = tor[id].handle
      BY <2>1, <2>2, <2>3, MoveRecordedType DEF done
    <2>5. /\ done.location = newPath /\ done.moving = outstanding
          /\ outstanding => done.missing = tor[id].missing
          /\ ~outstanding => ~done.missing
      BY <2>1, <2>2, <2>3, MoveRecordedFields DEF done
    <2> QED
      BY <2>1, <2>3, <2>4, <2>5
  <1>17. ASSUME id \in torrents, NEW u \in torrents, u # id
         PROVE  tor'[u] = tor[u] /\ tor[u].handle # h
    BY <1>1, <1>4, <1>13, <1>15, <1>17
  <1>18. ASSUME id \notin torrents, NEW u \in torrents
         PROVE  tor'[u] = tor[u] /\ tor[u].handle # h
    BY <1>4, <1>13, <1>15, <1>18
  <1>19. id \in torrents => tor'[id] = done
    BY <1>1, <1>5, <1>13
  \* libtorrent's torrents: at most that of the job is closed.
  <1>20. /\ Reported(alerts, native')
         /\ \A g \in Handle : /\ native'[g].owner = native[g].owner
                              /\ native'[g].location = native[g].location
                              /\ native'[g].unchecked = native[g].unchecked
                              /\ g # h => native'[g] = native[g]
                              /\ native'[g].state = "alive" => native[g].state = "alive"
         /\ native' = Closed(native, h) => native'[h].state # "alive"
    <2>1. native' = native \/ native' = Closed(native, h)
      BY <1>13
    <2> QED
      BY <1>4, <2>1, ClosedSettled
  <1>21. HasJobIn(rest, h) => native' = native
    BY <1>6, <1>13, <1>14
  <1>22. id \notin torrents /\ ~HasJobIn(rest, h) => native'[h].state # "alive"
    BY <1>6, <1>13, <1>14, <1>20
  <1>23. FilesKept'
    <2>1. \A u \in torrents : ~tor'[u].missing
      BY <1>16, <1>17, <1>18, <1>19 DEF Settled, FilesKept
    <2>2. \A u \in Torrent : removing'[u].option # "RemoveContent"
      BY <1>1, <1>5, <1>13, <1>14 DEF Settled, FilesKept
    <2> QED
      BY <1>20, <2>1, <2>2 DEF Settled, FilesKept
  <1>24. \A u \in torrents : tor'[u].handle = tor[u].handle
    BY <1>5, <1>16, <1>17, <1>18, <1>19
  <1>25. Owners'
    BY <1>20, <1>24 DEF Settled, Owners
  <1>26. JobsAlive'
    <2>1. ASSUME NEW i \in DOMAIN rest PROVE native'[rest[i].handle].state = "alive"
      <3>1. HasJobIn(rest, rest[i].handle)
        BY DEF HasJobIn
      <3>2. rest[i].handle \in Handle /\ native[rest[i].handle].state = "alive"
        BY <1>2, <1>3, <3>1
      <3> QED
        BY <1>20, <1>21, <3>1, <3>2
    <2> QED
      BY <1>9, <2>1 DEF JobsAlive
  <1>27. OneInactive(queue') /\ Ongoing(queue', ops', alerts')
    BY <1>2, <1>9 DEF Ongoing
  <1>28. phase' = "running" => InQueue'
    <2> SUFFICES ASSUME phase = "running" PROVE InQueue'
      OBVIOUS
    <2>1. InQueue
      BY DEF Settled
    <2>2. ASSUME NEW u \in torrents
          PROVE  tor'[u].moving <=> HasJobIn(rest, tor'[u].handle)
      <3>1. CASE u = id
        BY <1>6, <1>16, <1>19, <3>1
      <3>2. CASE u # id
        <4>1. tor'[u] = tor[u] /\ tor[u].handle # h
          BY <1>17, <1>18, <3>2
        <4>2. tor[u].moving <=> HasJobIn(queue, tor[u].handle)
          BY <2>1 DEF InQueue
        <4> QED
          BY <1>2, <4>1, <4>2
      <3> QED
        BY <3>1, <3>2
    <2>3. ASSUME NEW g \in Handle, native'[g].state = "alive"
          PROVE  native'[g].owner \in torrents \/ HasJobIn(rest, g)
      <3>1. native[g].state = "alive" /\ native'[g].owner = native[g].owner
        BY <1>20, <2>3
      <3>2. CASE g = h
        BY <1>4, <1>22, <2>3, <3>1, <3>2
      <3>3. CASE g # h
        BY <1>2, <2>1, <3>1, <3>3 DEF InQueue
      <3> QED
        BY <3>2, <3>3
    <2> QED
      BY <1>9, <2>2, <2>3 DEF InQueue
  <1>29. /\ Reported(Tail(alerts), native')
         /\ \A g : MovedWaits(alerts, g) => MovedWaits(Tail(alerts), g) \/ g = h
    <2> DEFINE nat == native'
    <2>1. Reported(alerts, nat)
      BY <1>20
    <2> HIDE DEF nat
    <2>2. /\ Reported(Tail(alerts), nat)
          /\ \A g : MovedWaits(alerts, g) => \/ MovedWaits(Tail(alerts), g)
                                             \/ Head(alerts).type = "moved" /\ Head(alerts).handle = g
      BY <1>1, <2>1, ReportedPop
    <2> QED
      BY <1>11, <2>2 DEF nat
  <1>30. Located'
    <2>1. ASSUME NEW u \in torrents
          PROVE  \/ tor'[u].location = native'[tor'[u].handle].location
                 \/ MovedWaits(Tail(alerts), tor'[u].handle)
      <3>1. CASE u = id
        BY <1>4, <1>16, <1>19, <1>20, <3>1
      <3>2. CASE u # id
        <4>1. tor'[u] = tor[u] /\ tor[u].handle # h
          BY <1>17, <1>18, <3>2
        <4> QED
          BY <1>15, <1>20, <1>29, <4>1 DEF Settled, Located
      <3> QED
        BY <3>1, <3>2
    <2> QED
      BY <1>10, <2>1 DEF Located
  <1>31. Reported(alerts', native')
    BY <1>10, <1>29
  <1> QED
    BY <1>23, <1>25, <1>26, <1>27, <1>28, <1>30, <1>31 DEF Settled

LEMMA HandleAlertSettled == Inv /\ Owning /\ Settled /\ HandleAlert => Settled'
  <1> SUFFICES ASSUME Inv, Owning, Settled, HandleAlert PROVE Settled'
    OBVIOUS
  <1>1. /\ tor \in [Torrent -> TorrentRec] /\ torrents \subseteq Torrent
        /\ removing \in [Torrent -> RemovingRec]
        /\ alerts \in Seq(Alert) /\ alerts # <<>> /\ Reported(alerts, native)
        /\ Head(alerts) = alerts[1] /\ 1 \in DOMAIN alerts
    <2>1. alerts # <<>>
      BY DEF HandleAlert, HandleMoved, HandleMoveFailed, HandleDeleted, HandleFastResumeRejected,
             HandleStateUpdate, HandleSaveResumeData, NextAlert
    <2> QED
      BY <2>1, OwnHandles, TailElements DEF Settled
  <1>2. /\ Reported(Tail(alerts), native)
        /\ \A h : MovedWaits(alerts, h) =>
              \/ MovedWaits(Tail(alerts), h)
              \/ Head(alerts).type = "moved" /\ Head(alerts).handle = h
        /\ Head(alerts).type # "rejected"
        /\ Head(alerts).type = "moved" => Head(alerts).path = native[Head(alerts).handle].location
        /\ Head(alerts).type = "status" =>
              \/ Head(alerts).path = native[Head(alerts).handle].location
              \/ MovedWaits(Tail(alerts), Head(alerts).handle)
    BY <1>1, ReportedPop
  <1>3. IsMoveAlert(Head(alerts)) =>
            /\ queue # <<>> /\ Head(queue).handle = Head(alerts).handle
            /\ native[Head(queue).handle].state = "alive"
            /\ Head(alerts).type = "moved" => Head(alerts).path \in Path
    <2>1. IsMoveAlert(Head(alerts)) => queue # <<>> /\ Head(queue).handle = Head(alerts).handle
      BY <1>1 DEF Inv, Moves
    <2>2. queue # <<>> => Head(queue) = queue[1] /\ 1 \in DOMAIN queue
      BY OwnHandles, TailElements
    <2>3. Head(alerts).type = "moved" => Head(alerts).path \in Path
      BY <1>1 DEF Inv, Moves
    <2> QED
      BY <2>1, <2>2, <2>3 DEF Settled, JobsAlive
  <1>4. CASE HandleMoved
    <2>1. IsMoveAlert(Head(alerts)) /\ Head(alerts).type = "moved"
          /\ FinishHeadJob(Head(alerts).path) /\ UNCHANGED <<torrents, phase>>
      BY <1>4 DEF HandleMoved, NextAlert, IsMoveAlert
    <2>2. Head(alerts).path \in Path /\ Head(alerts).path = native[Head(queue).handle].location
      BY <1>2, <1>3, <2>1
    <2> QED
      BY <1>1, <2>1, <2>2, FinishHeadJobSettled
  <1>5. CASE HandleMoveFailed
    <2> DEFINE h == Head(queue).handle
    <2>1. IsMoveAlert(Head(alerts)) /\ Head(alerts).type = "move_failed"
          /\ UNCHANGED <<torrents, phase>>
      BY <1>5 DEF HandleMoveFailed, NextAlert, IsMoveAlert
    <2>2. native[h].state = "alive" /\ Head(alerts).handle = h
      BY <1>3, <2>1
    <2>3. FinishHeadJob(FailedLocation(h))
      BY <1>5, <2>2 DEF HandleMoveFailed
    <2>4. ~MovedWaits(alerts, h)
      BY <1>1, <2>1 DEF Inv, Moves, MovedWaits, IsMoveAlert
    <2>5. h \in Handle
      <3>1. queue # <<>> /\ queue \in Seq(MoveStorageJob)
        BY <1>3, <2>1, OwnHandles
      <3>2. Head(queue) \in MoveStorageJob
        BY <3>1, TailElements
      <3> QED
        BY <3>2 DEF MoveStorageJob
    <2>6. OwnerOf(h) \in torrents =>
              FailedLocation(h) \in Path /\ FailedLocation(h) = native[h].location
      <3> SUFFICES ASSUME OwnerOf(h) \in torrents
                   PROVE  FailedLocation(h) \in Path /\ FailedLocation(h) = native[h].location
        OBVIOUS
      <3> DEFINE id == OwnerOf(h)
      <3>1. id = native[h].owner
        BY <2>2 DEF OwnerOf
      <3>2. tor[id].handle = h
        BY <2>2, <2>5, <3>1 DEF Settled, Owners
      <3>3. tor[id].location = native[h].location
        BY <2>4, <3>2 DEF Settled, Located
      <3>4. tor[id].location \in Path
        BY OwnHandles DEF RegisteredRec
      <3> QED
        BY <3>3, <3>4 DEF FailedLocation
    <2> QED
      BY <1>1, <2>1, <2>3, <2>6, FinishHeadJobSettled
  <1>6. ASSUME ~IsMoveAlert(Head(alerts)), alerts' = Tail(alerts),
               UNCHANGED <<torrents, queue, phase, native, ops>>,
               \A t \in torrents : /\ tor'[t].handle = tor[t].handle
                                   /\ tor'[t].moving = tor[t].moving
                                   /\ tor'[t].missing = tor[t].missing
                                   /\ \/ tor'[t].location = tor[t].location
                                      \/ tor'[t].location = native[tor[t].handle].location
                                      \/ MovedWaits(Tail(alerts), tor[t].handle),
               \A t \in Torrent : removing'[t].option = removing[t].option
                                  \/ removing'[t].option = "none"
        PROVE  Settled'
    <2>1. Ongoing(queue, ops, Tail(alerts))
      BY <1>1, <1>6, OngoingSame DEF Settled
    <2>2. Head(alerts).type # "moved"
      BY <1>6 DEF IsMoveAlert
    <2>3. Located'
      BY <1>2, <1>6, <2>2 DEF Settled, Located
    <2> QED
      BY <1>2, <1>6, <2>1, <2>3, QuietSettled
  <1>7. CASE HandleDeleted
    <2>1. \A t \in Torrent : removing'[t].option = removing[t].option
                             \/ removing'[t].option = "none"
      <3>1. NotRemoving.option = "none"
        BY DEF NotRemoving
      <3> QED
        BY <1>1, <1>7, <3>1 DEF HandleDeleted
    <2> QED
      BY <1>6, <1>7, <2>1 DEF HandleDeleted, NextAlert, IsMoveAlert
  <1>8. CASE HandleFastResumeRejected
    BY <1>2, <1>8 DEF HandleFastResumeRejected, NextAlert
  <1>9. CASE HandleStateUpdate
    <2> DEFINE h == Head(alerts).handle
               id == OwnerOf(h)
               rec == [tor[id] EXCEPT !.location = Head(alerts).path]
    <2>1. /\ ~IsMoveAlert(Head(alerts)) /\ Head(alerts).type = "status"
          /\ alerts' = Tail(alerts) /\ UNCHANGED <<torrents, queue, removing, phase, native, ops>>
          /\ \/ tor' = tor
             \/ id \in torrents /\ tor[id].handle = h /\ tor' = [tor EXCEPT ![id] = rec]
      BY <1>9 DEF HandleStateUpdate, NextAlert, IsMoveAlert
    <2>2. CASE tor' = tor
      BY <1>6, <2>1, <2>2
    <2>3. CASE id \in torrents /\ tor[id].handle = h /\ tor' = [tor EXCEPT ![id] = rec]
      <3>1. /\ rec.handle = tor[id].handle /\ rec.moving = tor[id].moving
            /\ rec.missing = tor[id].missing /\ rec.location = Head(alerts).path
        BY <2>3, OwnHandles DEF TorrentRec
      <3> HIDE DEF rec, id
      <3>2. tor'[id] = rec /\ \A t \in torrents \ {id} : tor'[t] = tor[t]
        BY <1>1, <2>3
      <3>3. \/ rec.location = native[h].location
            \/ MovedWaits(Tail(alerts), h)
        BY <1>2, <2>1, <3>1
      <3>4. \A t \in torrents : /\ tor'[t].handle = tor[t].handle
                                /\ tor'[t].moving = tor[t].moving
                                /\ tor'[t].missing = tor[t].missing
                                /\ \/ tor'[t].location = tor[t].location
                                   \/ tor'[t].location = native[tor[t].handle].location
                                   \/ MovedWaits(Tail(alerts), tor[t].handle)
        BY <2>3, <3>1, <3>2, <3>3
      <3> QED
        BY <1>6, <2>1, <3>4
    <2> QED
      BY <2>1, <2>2, <2>3
  <1>10. CASE HandleSaveResumeData
    <2> DEFINE id == OwnerOf(Head(alerts).handle)
               rec == [tor[id] EXCEPT !.paramsPath = Head(alerts).path]
    <2>1. /\ ~IsMoveAlert(Head(alerts))
          /\ alerts' = Tail(alerts) /\ UNCHANGED <<torrents, queue, removing, phase, native, ops>>
          /\ tor' = tor \/ (id \in torrents /\ tor' = [tor EXCEPT ![id] = rec])
      BY <1>10 DEF HandleSaveResumeData, NextAlert, IsMoveAlert
    <2>2. id \in torrents => /\ rec.handle = tor[id].handle /\ rec.moving = tor[id].moving
                             /\ rec.missing = tor[id].missing /\ rec.location = tor[id].location
      BY OwnHandles DEF TorrentRec
    <2> HIDE DEF rec, id
    <2>3. \A t \in torrents : tor'[t] = tor[t] \/ (t = id /\ tor'[t] = rec)
      BY <1>1, <2>1
    <2>4. \A t \in torrents : /\ tor'[t].handle = tor[t].handle
                              /\ tor'[t].moving = tor[t].moving
                              /\ tor'[t].missing = tor[t].missing
                              /\ tor'[t].location = tor[t].location
      BY <2>2, <2>3
    <2> QED
      BY <1>6, <2>1, <2>4
  <1> QED
    BY <1>4, <1>5, <1>7, <1>8, <1>9, <1>10 DEF HandleAlert

-----------------------------------------------------------------------------
(* libtorrent's threads, and the exit.                                     *)

LEMMA LibrarySettled == Inv /\ Owning /\ Settled /\ Library => Settled'
  <1> SUFFICES ASSUME Inv, Owning, Settled, Library PROVE Settled'
    OBVIOUS
  <1>1. /\ alerts \in Seq(Alert) /\ Reported(alerts, native) /\ Ongoing(queue, ops, alerts)
        /\ native \in [Handle -> NativeRec]
    BY OwnHandles DEF Settled
  <1>2. ASSUME NEW x \in Alert, NEW new, native' = new, alerts' = alerts \o <<x>>,
               ops' = ops \/ IsMoveAlert(x),
               UNCHANGED <<torrents, tor, queue, removing, phase>>,
               \A h \in Handle : /\ new[h].state = "alive" <=> native[h].state = "alive"
                                 /\ new[h].owner = native[h].owner
                                 /\ new[h].unchecked => native[h].unchecked,
               \A h \in Handle : native[h].state # "unused" => new[h].state # "unused",
               \A h \in Handle : new[h].location = native[h].location
                                 \/ (x.type = "moved" /\ x.handle = h),
               x.type # "rejected", x.type \in {"moved", "status"} => new[x.handle].state # "unused",
               x.type \in {"moved", "status"} => x.path = new[x.handle].location,
               x.type = "moved" => \A i \in DOMAIN alerts : alerts[i].type # "moved"
        PROVE  Settled'
    <2>1. /\ Reported(alerts \o <<x>>, new)
          /\ \A h : MovedWaits(alerts \o <<x>>, h) <=>
                        MovedWaits(alerts, h) \/ (x.type = "moved" /\ x.handle = h)
      <3>1. \A h \in Handle : native[h].state # "unused" => new[h].state # "unused"
        BY <1>2
      <3>2. \A h \in Handle : native[h].state # "unused" =>
                new[h].location = native[h].location \/ (x.type = "moved" /\ x.handle = h)
        BY <1>2
      <3>3. /\ x.type # "rejected" /\ (x.type \in {"moved", "status"} => new[x.handle].state # "unused")
            /\ x.type \in {"moved", "status"} => x.path = new[x.handle].location
            /\ x.type = "moved" => \A i \in DOMAIN alerts : alerts[i].type # "moved"
        BY <1>2
      <3>4. alerts \in Seq(Alert) /\ Reported(alerts, native)
        BY <1>1
      <3> QED
        BY <3>1, <3>2, <3>3, <3>4, ReportedPost
    <2>2. Ongoing(queue, ops', alerts')
      <3>1. Ongoing(queue, ops, alerts \o <<x>>)
            /\ (IsMoveAlert(x) => Ongoing(queue, {}, alerts \o <<x>>))
        BY <1>1, OngoingSame
      <3> QED
        BY <1>2, <3>1 DEF Ongoing
    <2>3. Located'
      <3>1. \A t \in torrents : \/ tor[t].location = new[tor[t].handle].location
                                \/ MovedWaits(alerts \o <<x>>, tor[t].handle)
        BY <1>2, <2>1, OwnHandles DEF Settled, Located
      <3> QED
        BY <1>2, <3>1 DEF Located
    <2>4. Reported(alerts', native')
      BY <1>2, <2>1
    <2> QED
      BY <1>2, <2>2, <2>3, <2>4, QuietSettled
  <1>3. ASSUME NEW o \in ops, NEW success \in BOOLEAN, DiskMoveEnds(o, success)
        PROVE  Settled'
    <2> DEFINE x == IF success THEN Posted("moved", o.handle, o.path)
                    ELSE Posted("move_failed", o.handle, NoPath)
               m == [native[o.handle] EXCEPT !.location = o.path, !.dirty = TRUE]
               new == IF success THEN [native EXCEPT ![o.handle] = m] ELSE native
    <2>1. /\ o.handle \in Handle /\ o.path \in Path
          /\ queue # <<>> /\ Head(queue).handle = o.handle
          /\ \A i \in DOMAIN alerts : ~IsMoveAlert(alerts[i])
      BY DEF Inv, Moves
    <2>2. native[o.handle].state = "alive"
      <3>1. Head(queue) = queue[1] /\ 1 \in DOMAIN queue
        BY <2>1, OwnHandles, TailElements
      <3> QED
        BY <2>1, <3>1 DEF Settled, JobsAlive
    <2>3. /\ x \in Alert /\ IsMoveAlert(x) /\ x.handle = o.handle /\ x.type \notin {"rejected", "status"}
          /\ x.type = "moved" <=> success
          /\ success => x.path = o.path
      BY <2>1 DEF Posted, Alert, MaybePath, IsMoveAlert
    <2>4. /\ alerts' = alerts \o <<x>> /\ native' = new
          /\ UNCHANGED <<torrents, tor, queue, removing, phase>>
      BY <1>1, <1>3, <2>1 DEF DiskMoveEnds, Post, sessionVars
    <2>5. /\ m.state = native[o.handle].state /\ m.owner = native[o.handle].owner
          /\ m.unchecked = native[o.handle].unchecked /\ m.location = o.path
      <3> DEFINE n == native[o.handle]
                 mm == [n EXCEPT !.location = o.path, !.dirty = TRUE]
      <3>1. n \in NativeRec
        BY <1>1, <2>1
      <3> HIDE DEF n
      <3>2. mm.state = n.state /\ mm.owner = n.owner /\ mm.unchecked = n.unchecked
            /\ mm.location = o.path
        BY <3>1 DEF NativeRec
      <3> QED
        BY <3>2 DEF n
    <2> HIDE DEF m, x
    <2>6. \A h \in Handle : /\ new[h].state = native[h].state
                            /\ new[h].owner = native[h].owner
                            /\ new[h].unchecked = native[h].unchecked
                            /\ new[h].location = IF success /\ h = o.handle THEN o.path
                                                 ELSE native[h].location
      BY <1>1, <2>1, <2>5
    <2> HIDE DEF new
    <2>7. \A h \in Handle : new[h].location = native[h].location
                            \/ (x.type = "moved" /\ x.handle = h)
      BY <2>3, <2>6
    <2>8. /\ x.type \in {"moved", "status"} => new[x.handle].state # "unused"
          /\ x.type \in {"moved", "status"} => x.path = new[x.handle].location
      BY <2>1, <2>2, <2>3, <2>6
    <2>9. \A i \in DOMAIN alerts : alerts[i].type # "moved"
      BY <2>1 DEF IsMoveAlert
    <2> QED
      BY <1>2, <2>3, <2>4, <2>6, <2>7, <2>8, <2>9
  <1>4. ASSUME NEW h \in Handle, RejectResumeData(h)
        PROVE  Settled'
    BY <1>4 DEF RejectResumeData, Settled, FilesKept
  <1>5. ASSUME NEW h \in Handle, PostStateUpdate(h)
        PROVE  Settled'
    <2> DEFINE x == Posted("status", h, native[h].location)
    <2>1. native[h].location \in Path /\ native[h].state = "alive"
      BY <1>5 DEF PostStateUpdate, Inv, NativeLocated
    <2>2. /\ x \in Alert /\ x.type = "status" /\ x.handle = h /\ x.path = native[h].location
      BY <2>1 DEF Posted, Alert, MaybePath
    <2>3. /\ alerts' = alerts \o <<x>> /\ native' = native /\ ops' = ops
          /\ UNCHANGED <<torrents, tor, queue, removing, phase>>
      BY <1>5 DEF PostStateUpdate, Post
    <2> HIDE DEF x
    <2> QED
      BY <1>2, <2>1, <2>2, <2>3
  <1>6. ASSUME NEW x \in Alert, x.type \in {"resume", "resume_failed", "deleted"},
               NEW new, native' = new, alerts' = alerts \o <<x>>, ops' = ops,
               UNCHANGED <<torrents, tor, queue, removing, phase>>,
               \A h \in Handle : /\ new[h].state = "alive" <=> native[h].state = "alive"
                                 /\ native[h].state # "unused" => new[h].state # "unused"
                                 /\ new[h].owner = native[h].owner
                                 /\ new[h].unchecked = native[h].unchecked
                                 /\ new[h].location = native[h].location
        PROVE  Settled'
    BY <1>2, <1>6
  <1>7. ASSUME NEW h \in Handle, NEW success \in BOOLEAN, SaveResumeData(h, success)
        PROVE  Settled'
    <2> DEFINE flushing == native[h].requests = 0
               modified == ~flushing \/ native[h].dirty
               x == IF success /\ modified THEN Posted("resume", h, native[h].location)
                    ELSE Posted("resume_failed", h, NoPath)
               r == IF flushing THEN 0 ELSE native[h].requests - 1
               fl == native[h].flush /\ ~flushing
               di == native[h].dirty /\ ~success
               m == [native[h] EXCEPT !.requests = r, !.flush = fl, !.dirty = di]
               new == [native EXCEPT ![h] = m]
    <2>1. native[h].location \in Path /\ native[h] \in NativeRec
      BY <1>1, <1>7 DEF SaveResumeData, Inv, NativeLocated
    <2>2. x \in Alert /\ x.type \in {"resume", "resume_failed", "deleted"}
      BY <2>1 DEF Posted, Alert, MaybePath
    <2>3. /\ alerts' = alerts \o <<x>> /\ native' = new
          /\ UNCHANGED <<torrents, tor, queue, removing, phase, ops>>
      BY <1>1, <1>7 DEF SaveResumeData, Post
    <2> HIDE DEF x, r, fl, di
    <2>4. /\ m.state = native[h].state /\ m.owner = native[h].owner
          /\ m.unchecked = native[h].unchecked /\ m.location = native[h].location
      BY <2>1 DEF NativeRec
    <2> HIDE DEF m
    <2>5. \A g \in Handle : /\ new[g].state = native[g].state
                            /\ new[g].owner = native[g].owner
                            /\ new[g].unchecked = native[g].unchecked
                            /\ new[g].location = native[g].location
      BY <1>1, <2>4
    <2> HIDE DEF new
    <2> QED
      BY <1>6, <2>2, <2>3, <2>5
  <1>8. ASSUME NEW h \in Handle, CloseNative(h)
        PROVE  Settled'
    <2> DEFINE x == Posted("deleted", h, NoPath)
               new == [native EXCEPT ![h].state = "dead"]
    <2>1. x \in Alert /\ x.type = "deleted"
      BY DEF Posted, Alert, MaybePath
    <2>2. /\ alerts' = alerts \o <<x>> /\ native' = new /\ native[h].state = "closing"
          /\ UNCHANGED <<torrents, tor, queue, removing, phase, ops>>
      BY <1>8 DEF CloseNative, Post
    <2>3. \A g \in Handle : /\ new[g].state = IF g = h THEN "dead" ELSE native[g].state
                            /\ new[g].owner = native[g].owner
                            /\ new[g].unchecked = native[g].unchecked
                            /\ new[g].location = native[g].location
      BY <1>1 DEF NativeRec
    <2> HIDE DEF new, x
    <2>4. \A g \in Handle : /\ new[g].state = "alive" <=> native[g].state = "alive"
                            /\ native[g].state # "unused" => new[g].state # "unused"
      BY <2>2, <2>3
    <2> QED
      BY <1>6, <2>1, <2>2, <2>3, <2>4
  <1> QED
    BY <1>3, <1>4, <1>5, <1>7, <1>8 DEF Library

\* What is owed to a torrent does not matter here.
LEMMA DeferredRequestSettled ==
    ASSUME Inv, Owning, Settled, NEW t \in Torrent, RunDeferredRequest(t)
    PROVE  Settled'
  <1> DEFINE h == tor[t].handle
             r == native[h].requests + 1
             m == [native[h] EXCEPT !.requests = r]
             rec == [tor[t] EXCEPT !.deferred = FALSE]
  <1>1. /\ t \in torrents /\ h \in Handle /\ tor \in [Torrent -> TorrentRec]
        /\ native \in [Handle -> NativeRec] /\ tor[t] \in TorrentRec
        /\ tor' = [tor EXCEPT ![t] = rec] /\ native' = [native EXCEPT ![h] = m]
        /\ UNCHANGED <<torrents, queue, removing, phase, ops, alerts>>
    BY OwnHandles DEF RunDeferredRequest
  <1>2. /\ rec.handle = tor[t].handle /\ rec.moving = tor[t].moving
        /\ rec.missing = tor[t].missing /\ rec.location = tor[t].location
    BY <1>1 DEF TorrentRec
  <1> HIDE DEF r
  <1>3. /\ m.state = native[h].state /\ m.owner = native[h].owner
        /\ m.unchecked = native[h].unchecked /\ m.location = native[h].location
    BY <1>1 DEF NativeRec
  <1> HIDE DEF m, rec, h
  <1>4. \A g \in Handle : /\ native'[g].state = native[g].state
                          /\ native'[g].owner = native[g].owner
                          /\ native'[g].unchecked = native[g].unchecked
                          /\ native'[g].location = native[g].location
    BY <1>1, <1>3
  <1>5. \A u \in torrents : /\ tor'[u].handle = tor[u].handle
                            /\ tor'[u].moving = tor[u].moving
                            /\ tor'[u].missing = tor[u].missing
                            /\ tor'[u].location = tor[u].location
    BY <1>1, <1>2
  <1>6. Located'
    <2>1. \A u \in torrents : tor[u].handle \in Handle
      BY OwnHandles
    <2>2. torrents' = torrents /\ alerts' = alerts
      BY <1>1
    <2>3. ASSUME NEW u \in torrents
          PROVE  tor'[u].location = native'[tor'[u].handle].location \/ MovedWaits(alerts, tor'[u].handle)
      <3>1. /\ tor'[u].location = tor[u].location /\ tor'[u].handle = tor[u].handle
            /\ native'[tor[u].handle].location = native[tor[u].handle].location
        BY <1>4, <1>5, <2>1
      <3> QED
        BY <3>1 DEF Settled, Located
    <2> QED
      BY <2>2, <2>3 DEF Located
  <1>7. Reported(alerts, native')
    <2> DEFINE new == native'
    <2>1. \A g \in Handle : native[g].state # "unused" =>
                new[g].state # "unused" /\ new[g].location = native[g].location
      BY <1>4
    <2>2. alerts \in Seq(Alert) /\ Reported(alerts, native)
      BY OwnHandles DEF Settled
    <2> HIDE DEF new
    <2>3. Reported(alerts, new)
      BY <2>1, <2>2, ReportedSame
    <2> QED
      BY <2>3 DEF new
  <1>8. Reported(alerts', native') /\ Ongoing(queue, ops', alerts')
    BY <1>1, <1>7 DEF Settled
  <1>9. UNCHANGED removing /\ phase' = phase
    BY <1>1
  <1> QED
    BY <1>1, <1>4, <1>5, <1>6, <1>8, <1>9, QuietSettled

\* The exit empties the queue "except the current ongoing one".
LEMMA BeginShutdownSettled == Inv /\ Owning /\ Settled /\ BeginShutdown => Settled'
  <1> SUFFICES ASSUME Inv, Owning, Settled, BeginShutdown PROVE Settled'
    OBVIOUS
  <1> DEFINE fl(h) == \E t \in {u \in torrents : native[tor[u].handle].state # "dead"} :
                            tor[t].handle = h
  <1>1. /\ native \in [Handle -> NativeRec] /\ queue \in Seq(MoveStorageJob)
        /\ alerts \in Seq(Alert)
        /\ native' = [h \in Handle |-> [native[h] EXCEPT !.flush = fl(h)]]
        /\ queue' = IF Len(queue) > 1 THEN <<Head(queue)>> ELSE queue
        /\ phase' = "draining"
        /\ UNCHANGED <<torrents, tor, removing, ops, alerts>>
    BY OwnHandles DEF BeginShutdown
  <1> HIDE DEF fl
  <1>2. \A g \in Handle : /\ native'[g].state = native[g].state
                          /\ native'[g].owner = native[g].owner
                          /\ native'[g].unchecked = native[g].unchecked
                          /\ native'[g].location = native[g].location
    BY <1>1 DEF NativeRec
  <1>3. /\ Len(queue) \in Nat /\ DOMAIN queue = 1..Len(queue)
        /\ Len(queue) # 0 <=> queue # <<>>
        /\ queue # <<>> => Head(queue) = queue[1]
        /\ \A i \in DOMAIN queue : queue[i].handle \in Handle
    <2>1. \A i \in DOMAIN queue : queue[i] \in MoveStorageJob
      BY <1>1, LenProperties, ElementOfSeq
    <2>2. \A i \in DOMAIN queue : queue[i].handle \in Handle
      BY <2>1 DEF MoveStorageJob
    <2> QED
      BY <1>1, <2>2, LenProperties, EmptySeq, HeadTailProperties
  <1>4. \/ queue' = queue
        \/ queue # <<>> /\ DOMAIN queue' = {1} /\ queue'[1] = queue[1] /\ queue' # <<>>
    BY <1>1, <1>3
  <1>5. /\ queue' # <<>> => queue # <<>>
        /\ \A i \in DOMAIN queue' : i \in DOMAIN queue /\ queue'[i] = queue[i]
    BY <1>3, <1>4
  <1>6. JobsAlive'
    BY <1>2, <1>3, <1>5 DEF Settled, JobsAlive
  <1>7. OneInactive(queue') /\ Ongoing(queue', ops', alerts')
    BY <1>1, <1>5 DEF Settled, OneInactive, Ongoing
  <1>8. FilesKept' /\ Owners'
    <2>1. \A g \in Handle : ~native'[g].unchecked
      BY <1>2 DEF Settled, FilesKept
    <2>2. FilesKept'
      BY <1>1, <2>1 DEF Settled, FilesKept
    <2>3. ASSUME NEW g \in Handle, native'[g].state = "alive"
          PROVE  /\ native'[g].owner \in Torrent
                 /\ native'[g].owner \in torrents => tor[native'[g].owner].handle = g
      <3>1. native[g].state = "alive" /\ native'[g].owner = native[g].owner
        BY <1>2, <2>3
      <3> QED
        BY <3>1 DEF Settled, Owners
    <2>4. Owners'
      BY <1>1, <2>3 DEF Owners
    <2> QED
      BY <2>2, <2>4
  <1>9. Located'
    BY <1>1, <1>2, OwnHandles DEF Settled, Located
  <1>10. Reported(alerts', native')
    <2> DEFINE new == native'
    <2>1. \A g \in Handle : native[g].state # "unused" =>
                new[g].state # "unused" /\ new[g].location = native[g].location
      BY <1>2
    <2>2. Reported(alerts, native)
      BY DEF Settled
    <2> HIDE DEF new
    <2>3. Reported(alerts, new)
      BY <1>1, <2>1, <2>2, ReportedSame
    <2> QED
      BY <1>1, <2>3 DEF new
  <1>11. phase' # "running"
    BY <1>1
  <1> QED
    BY <1>6, <1>7, <1>8, <1>9, <1>10, <1>11 DEF Settled

LEMMA NextSettled ==
    ASSUME KeptFiles PROVE Inv /\ Owning /\ Settled /\ [Next]_vars => Settled'
  <1> SUFFICES ASSUME Inv, Owning, Settled, [Next]_vars PROVE Settled'
    OBVIOUS
  <1>1. CASE Request
    BY <1>1, RequestSettled, AddTorrentSettled, RemoveTorrentSettled DEF Request
  <1>2. CASE \E t \in Torrent : RunDeferredRequest(t)
    BY <1>2, DeferredRequestSettled
  <1>3. CASE HandleAlert
    BY <1>3, HandleAlertSettled
  <1>4. CASE BeginShutdown
    BY <1>4, BeginShutdownSettled
  <1>5. CASE EndShutdown \/ Stopped \/ UNCHANGED vars
    <2>1. /\ UNCHANGED <<torrents, tor, queue, removing, native, ops, alerts>>
          /\ phase' = "running" => phase = "running"
      BY <1>5 DEF EndShutdown, Stopped, vars
    <2>2. FilesKept' /\ Owners' /\ JobsAlive' /\ OneInactive(queue')
      BY <2>1 DEF Settled, FilesKept, Owners, JobsAlive
    <2>3. Ongoing(queue', ops', alerts') /\ Reported(alerts', native') /\ Located'
      BY <2>1 DEF Settled, Located
    <2>4. phase' = "running" => InQueue'
      BY <2>1 DEF Settled, InQueue
    <2> QED
      BY <2>2, <2>3, <2>4 DEF Settled
  <1>6. CASE Library
    BY <1>6, LibrarySettled
  <1> QED
    BY <1>1, <1>2, <1>3, <1>4, <1>5, <1>6 DEF Next

LEMMA SettledInvariant ==
    ASSUME KeptFiles PROVE Spec => [](Inv /\ Owning /\ Settled)
  <1>1. Init => Inv /\ Owning /\ Settled
    BY InitInv, InitOwning, InitSettled
  <1>2. Inv /\ Owning /\ Settled /\ [Next]_vars => (Inv /\ Owning /\ Settled)'
    BY NextInv, NextOwning, NextSettled
  <1> QED
    BY <1>1, <1>2, PTL DEF Spec

-----------------------------------------------------------------------------

\* The first job of m_moveStorageQueue is never forgotten: libtorrent is
\* executing it, or has answered and the answer waits to be handled, so that the
\* jobs behind it get their turn and the exit loop ends.
THEOREM HeadIsOngoing ==
    ASSUME KeptFiles PROVE Spec => []HeadJobIsOngoing
  <1>1. Settled => HeadJobIsOngoing
    BY DEF Settled, Ongoing, HeadJobIsOngoing, MoveAlerts, IsMoveAlert
  <1> QED
    BY <1>1, SettledInvariant, PTL

\* TorrentImpl::m_storageIsMoving says exactly whether SessionImpl has a job of
\* the torrent in m_moveStorageQueue, also after jobs are cancelled or replaced.
THEOREM MovingAgrees ==
    ASSUME KeptFiles PROVE Spec => []MovingAgreesWithQueue
  <1>1. Settled => MovingAgreesWithQueue
    BY DEF Settled, InQueue, HasJobIn, MovingAgreesWithQueue, HasJob
  <1> QED
    BY <1>1, SettledInvariant, PTL

\* While the finish notice of a torrent waits in m_moveFinishedTriggers,
\* m_moveStorageQueue holds a job of its native torrent: the last of them to end
\* delivers it.
THEOREM NoticeDelivered ==
    ASSUME KeptFiles PROVE Spec => []NoticeWaitsForMove
  <1>1. Owning /\ Settled => NoticeWaitsForMove
    BY DEF Owning, NoticeWaits, Settled, InQueue, HasJobIn, NoticeWaitsForMove, HasJob
  <1> QED
    BY <1>1, SettledInvariant, PTL

\* A native torrent whose torrent was removed while it was moved is removed from
\* libtorrent with the last of its jobs: none outlives both its torrent and its jobs.
THEOREM NoneOrphaned ==
    ASSUME KeptFiles PROVE Spec => []NoOrphanedNative
  <1>1. Settled => NoOrphanedNative
    BY DEF Settled, InQueue, Owners, HasJobIn, NoOrphanedNative, HasJob
  <1> QED
    BY <1>1, SettledInvariant, PTL

\* A torrent none of whose moves is queued knows the location libtorrent has its
\* files at: no update of its state, however late, tells it an older one.
THEOREM LocationKnown ==
    ASSUME KeptFiles PROVE Spec => []LocationIsKnown
  <1>1. Inv /\ Owning /\ Settled => LocationIsKnown
    <2> SUFFICES ASSUME Inv, Owning, Settled, NEW t \in torrents, ~HasJob(tor[t].handle)
                 PROVE  tor[t].location = native[tor[t].handle].location
      BY DEF LocationIsKnown
    <2>1. ~MovedWaits(alerts, tor[t].handle)
      <3> SUFFICES ASSUME MovedWaits(alerts, tor[t].handle) PROVE FALSE
        OBVIOUS
      <3>1. queue # <<>> /\ Head(queue).handle = tor[t].handle
        BY DEF MovedWaits, Inv, Moves, IsMoveAlert
      <3>2. 1 \in DOMAIN queue /\ Head(queue) = queue[1]
        BY <3>1, TailElements DEF Inv, Moves
      <3> QED
        BY <3>1, <3>2 DEF HasJob
    <2> QED
      BY <2>1 DEF Settled, Located
  <1> QED
    BY <1>1, SettledInvariant, PTL
=============================================================================
