------------------------ MODULE StartupRestoreProofs ------------------------
(***************************************************************************)
(* Proofs about StartupRestore, for any torrents, storages' contents and   *)
(* limits: the counter that ends the startup counts what libtorrent has    *)
(* not answered, no call outlives its context, no torrent is restored      *)
(* twice, every torrent is restored, none is lost when it is migrated, and *)
(* each has a native torrent that is there.                                *)
(***************************************************************************)
EXTENDS StartupRestore, SequenceTheorems, FiniteSetTheorems, TLAPS

-----------------------------------------------------------------------------
(* Sequences.                                                              *)

\* What an addition to a queue, or to the jobs of the worker, leaves.
LEMMA AppendElements ==
    ASSUME NEW S, NEW s \in Seq(S), NEW x \in S
    PROVE  /\ Append(s, x) \in Seq(S)
           /\ Len(s) \in Nat /\ Len(Append(s, x)) = Len(s) + 1
           /\ DOMAIN s = 1..Len(s) /\ DOMAIN Append(s, x) = 1 .. Len(s) + 1
           /\ \A i \in DOMAIN s : Append(s, x)[i] = s[i]
           /\ Append(s, x)[Len(s) + 1] = x
  <1> DEFINE r == Append(s, x)
  <1>1. Len(s) \in Nat /\ DOMAIN s = 1..Len(s)
    BY LenProperties
  <1>2. /\ r \in Seq(S) /\ Len(r) = Len(s) + 1
        /\ r[Len(s) + 1] = x
        /\ \A i \in 1..Len(s) : r[i] = s[i]
    BY <1>1, AppendProperties
  <1> HIDE DEF r
  <1>3. DOMAIN r = 1 .. Len(s) + 1
    BY <1>2, LenProperties
  <1> QED
    BY <1>1, <1>2, <1>3 DEF r

\* What remains when the oldest event, alert, job or row was taken.
LEMMA TailElements ==
    ASSUME NEW S, NEW s \in Seq(S), s # <<>>
    PROVE  /\ Head(s) \in S /\ Head(s) = s[1] /\ 1 \in DOMAIN s
           /\ Tail(s) \in Seq(S)
           /\ Len(s) \in Nat /\ Len(s) > 0 /\ Len(Tail(s)) = Len(s) - 1
           /\ DOMAIN s = 1..Len(s) /\ DOMAIN Tail(s) = 1 .. Len(s) - 1
           /\ \A i \in DOMAIN Tail(s) : i + 1 \in DOMAIN s /\ Tail(s)[i] = s[i + 1]
           /\ \A i \in DOMAIN s : i # 1 => i - 1 \in DOMAIN Tail(s) /\ Tail(s)[i - 1] = s[i]
  <1> DEFINE r == Tail(s)
  <1>1. Len(s) \in Nat /\ Len(s) # 0 /\ DOMAIN s = 1..Len(s)
    BY LenProperties, EmptySeq
  <1>2. /\ Head(s) \in S /\ Head(s) = s[1]
        /\ r \in Seq(S)
        /\ Len(r) = Len(s) - 1
        /\ \A i \in 1 .. Len(r) : r[i] = s[i + 1]
    BY HeadTailProperties, <1>1, ElementOfSeq
  <1> HIDE DEF r
  <1>3. DOMAIN r = 1 .. Len(s) - 1
    BY <1>2, LenProperties
  <1>4. \A i \in DOMAIN r : i + 1 \in DOMAIN s /\ r[i] = s[i + 1]
    BY <1>1, <1>2, <1>3
  <1>5. ASSUME NEW i \in DOMAIN s, i # 1
        PROVE  i - 1 \in DOMAIN r /\ r[i - 1] = s[i]
    <2>1. i - 1 \in DOMAIN r /\ (i - 1) + 1 = i
      BY <1>1, <1>3, <1>5
    <2> QED
      BY <1>4, <2>1
  <1> QED
    BY <1>1, <1>2, <1>3, <1>4, <1>5 DEF r

\* Two queues, one behind the other.
LEMMA ConcatElements ==
    ASSUME NEW S, NEW s \in Seq(S), NEW t \in Seq(S)
    PROVE  /\ s \o t \in Seq(S)
           /\ Len(s) \in Nat /\ Len(t) \in Nat /\ Len(s \o t) = Len(s) + Len(t)
           /\ DOMAIN s = 1..Len(s) /\ DOMAIN t = 1..Len(t)
           /\ DOMAIN (s \o t) = 1 .. Len(s) + Len(t)
           /\ \A i \in DOMAIN s : (s \o t)[i] = s[i]
           /\ \A i \in DOMAIN t : (s \o t)[Len(s) + i] = t[i]
           /\ \A i \in DOMAIN (s \o t) :
                 \/ i \in DOMAIN s /\ (s \o t)[i] = s[i]
                 \/ i - Len(s) \in DOMAIN t /\ (s \o t)[i] = t[i - Len(s)]
  <1> DEFINE r == s \o t
  <1>1. Len(s) \in Nat /\ Len(t) \in Nat /\ DOMAIN s = 1..Len(s) /\ DOMAIN t = 1..Len(t)
    BY LenProperties
  <1>2. /\ r \in Seq(S)
        /\ Len(r) = Len(s) + Len(t)
        /\ \A i \in 1 .. Len(s) + Len(t) : r[i] =
                     IF i <= Len(s) THEN s[i] ELSE t[i - Len(s)]
    BY ConcatProperties
  <1> HIDE DEF r
  <1>3. DOMAIN r = 1 .. Len(s) + Len(t)
    BY <1>2, LenProperties
  <1>4. \A i \in DOMAIN s : r[i] = s[i]
    BY <1>1, <1>2
  <1>5. ASSUME NEW i \in DOMAIN t PROVE r[Len(s) + i] = t[i]
    <2>1. /\ Len(s) + i \in 1 .. Len(s) + Len(t) /\ ~(Len(s) + i <= Len(s))
          /\ (Len(s) + i) - Len(s) = i
      BY <1>1
    <2> QED
      BY <1>2, <2>1
  <1>6. \A i \in DOMAIN r : \/ i \in DOMAIN s /\ r[i] = s[i]
                            \/ i - Len(s) \in DOMAIN t /\ r[i] = t[i - Len(s)]
    BY <1>1, <1>2, <1>3
  <1> QED
    BY <1>1, <1>2, <1>3, <1>4, <1>5, <1>6 DEF r

-----------------------------------------------------------------------------
(* Hashes.                                                                 *)

\* What is known of a torrent: hashes of one content, which name it.
LEMMA HashesKnown ==
    ASSUME NEW hashes \in InfoHash
    PROVE  /\ ContentOf(hashes) \in Content /\ hashes # {} /\ hashes \subseteq ID
           /\ \A id \in hashes : id[1] = ContentOf(hashes)
                                 /\ id \in {V1(hashes), V2(hashes)}
           /\ ToTorrentID(hashes) \in hashes
           /\ IsHybrid(hashes) <=> V1(hashes) \in hashes /\ V2(hashes) \in hashes
           /\ IsHybrid(hashes) => hashes = AllHashes(ContentOf(hashes))
                                  /\ hashes = {V1(hashes), V2(hashes)}
           /\ ~IsHybrid(hashes) => \A i, j \in hashes : i = j
  <1> DEFINE c == ContentOf(hashes)
             a == V1(hashes)
             b == V2(hashes)
  <1>1. PICK d \in Content : hashes \subseteq AllHashes(d)
    BY DEF InfoHash
  <1>2. hashes # {} /\ hashes \subseteq ID /\ \A id \in hashes : id[1] = d
    BY <1>1 DEF InfoHash, AllHashes
  <1>3. (CHOOSE id \in hashes : TRUE) \in hashes
    BY <1>2
  <1>4. c = d
    BY <1>2, <1>3 DEF ContentOf
  <1>5. \A id \in ID : id = <<id[1], "v1">> \/ id = <<id[1], "v2">>
    BY DEF ID
  <1>6. a = <<c, "v1">> /\ b = <<c, "v2">> /\ a # b
    BY DEF V1, V2
  <1> HIDE DEF a, b, c
  <1>7. \A id \in hashes : id = a \/ id = b
    BY <1>2, <1>4, <1>5, <1>6
  <1>8. Cardinality({a}) = 1 /\ Cardinality({b}) = 1 /\ Cardinality({a, b}) = 2
    <2>1. Cardinality({a}) = 1 /\ Cardinality({b}) = 1 /\ IsFiniteSet({a})
      BY FS_Singleton
    <2>2. Cardinality({a} \cup {b}) = Cardinality({a}) + 1
      BY <1>6, <2>1, FS_AddElement
    <2>3. {a} \cup {b} = {a, b}
      OBVIOUS
    <2> QED
      BY <2>1, <2>2, <2>3
  <1>9. hashes = {a} \/ hashes = {b} \/ hashes = {a, b}
    BY <1>2, <1>7
  <1>10. IsHybrid(hashes) <=> hashes = {a, b}
    BY <1>6, <1>8, <1>9 DEF IsHybrid
  <1>11. hashes = {a, b} => hashes = AllHashes(c)
    <2>1. \A id \in AllHashes(c) : id = a \/ id = b
      BY <1>5, <1>6 DEF AllHashes
    <2> QED
      BY <1>1, <1>4, <2>1
  <1>12. ToTorrentID(hashes) \in hashes
    BY <1>9 DEF ToTorrentID, a, b
  <1>13. IsHybrid(hashes) <=> a \in hashes /\ b \in hashes
    BY <1>6, <1>9, <1>10
  <1>14. ~IsHybrid(hashes) => \A i, j \in hashes : i = j
    BY <1>9, <1>10
  <1> QED
    BY <1>2, <1>4, <1>7, <1>10, <1>11, <1>12, <1>13, <1>14 DEF a, b, c

\* All hashes of a content, and one of them.
LEMMA HashesOfContent ==
    /\ \A c \in Content : AllHashes(c) \in InfoHash /\ ContentOf(AllHashes(c)) = c
    /\ \A id \in ID : {id} \in InfoHash /\ id[1] \in Content /\ ContentOf({id}) = id[1]
  <1>1. ASSUME NEW c \in Content
        PROVE  AllHashes(c) \in InfoHash /\ ContentOf(AllHashes(c)) = c
    <2>1. <<c, "v1">> \in AllHashes(c)
      BY DEF AllHashes, ID
    <2>2. AllHashes(c) \in InfoHash
      BY <2>1 DEF InfoHash
    <2>3. (CHOOSE id \in AllHashes(c) : TRUE) \in AllHashes(c)
      BY <2>1
    <2> QED
      BY <2>2, <2>3 DEF AllHashes, ContentOf
  <1>2. ASSUME NEW id \in ID
        PROVE  {id} \in InfoHash /\ id[1] \in Content /\ ContentOf({id}) = id[1]
    <2>1. id[1] \in Content
      BY InfoHashAssumption DEF ID
    <2>2. {id} \in SUBSET AllHashes(id[1]) /\ {id} # {}
      BY DEF AllHashes
    <2>3. {id} \in InfoHash
      BY <2>1, <2>2 DEF InfoHash
    <2>4. (CHOOSE i \in {id} : TRUE) = id
      OBVIOUS
    <2> QED
      BY <2>1, <2>3, <2>4 DEF ContentOf
  <1> QED
    BY <1>1, <1>2

-----------------------------------------------------------------------------
(* Types.                                                                  *)

Rows == UNION {[ids -> Row] : ids \in SUBSET ID}
Loaded == [id : ID, row : Row]
Job == [op : {"store", "remove"}, id : ID, row : Row]
Loading == [state : {"start", "load", "done"}, todo : Seq(ID)]
Phase == {"off", "startup", "ending", "running", "undefined"}
SessionContext ==
    [alive : BOOLEAN, loaded : Seq(Loaded), processing : Int, finished : BOOLEAN,
     enqueued : BOOLEAN, indexed : SUBSET ID, skipped : SUBSET ID]
EventType == {"started", "finished", "handle", "alerts", "delete storage", "delete context"}
QueuedEvent == [type : EventType, ids : SUBSET ID]
Native == [row : Row, alive : BOOLEAN]
Alert == [type : {"added", "rejected", "reloaded"}, handle : Nat, row : Row]
Restored == [handle : Nat, row : Row]

\* The alerts and torrents in the sequence s are of native torrents of nat.
OfNatives(s, nat) == \A i \in DOMAIN s : s[i].handle \in DOMAIN nat

Types ==
    /\ stored \in [Storage -> Rows] /\ dbExists \in BOOLEAN
    /\ jobs \in Seq(Job)
    /\ storageType \in Storage /\ startupStorage \in Storage
    /\ incident \in Incidents
    /\ loading \in Loading /\ loadedData \in Seq(Loaded)
    /\ context \in SessionContext /\ phase \in Phase
    /\ events \in Seq(QueuedEvent)
    /\ handling \in {"none", "data", "alerts"}
    /\ natives \in Seq(Native) /\ adding \in Seq(Row)
    /\ posted \in Seq(Alert) /\ OfNatives(posted, natives)
    /\ batch \in Seq(Alert) /\ OfNatives(batch, natives)
    /\ restored \in Seq(Restored) /\ OfNatives(restored, natives)

\* A row that cannot be read is a row.
LEMMA UnreadableType ==
    \A id \in ID : /\ Unreadable(id) \in Row /\ id \in Unreadable(id).hashes
                   /\ Unreadable(id).readable = FALSE /\ Unreadable(id).hashes = {id}
  BY HashesOfContent DEF Unreadable, Row

\* What is loaded is a row.
LEMMA LoadType ==
    ASSUME stored \in [Storage -> Rows], startupStorage \in Storage
    PROVE  \A id \in ID : Load(id) \in Row
  <1> SUFFICES ASSUME NEW id \in ID PROVE Load(id) \in Row
    OBVIOUS
  <1>1. stored[startupStorage] \in Rows
    OBVIOUS
  <1>2. PICK ids \in SUBSET ID : stored[startupStorage] \in [ids -> Row]
    BY <1>1 DEF Rows
  <1> QED
    BY <1>2, UnreadableType DEF Load

\* Metadata found in another row of the torrent makes all its hashes known.
LEMMA WithMetadataType ==
    ASSUME NEW row \in Row, NEW other \in Row
    PROVE  /\ WithMetadata(row, other) \in Row
           /\ WithMetadata(row, other).readable = row.readable
           /\ ContentOf(WithMetadata(row, other).hashes) = ContentOf(row.hashes)
           /\ WithMetadata(row, other).hashes \in {row.hashes, AllHashes(ContentOf(row.hashes))}
           /\ WithMetadata(row, other).meta <=> row.meta \/ (other.readable /\ other.meta)
  <1> DEFINE all == AllHashes(ContentOf(row.hashes))
             new == [row EXCEPT !.meta = TRUE, !.hashes = all]
  <1>1. row.hashes \in InfoHash /\ row.meta \in BOOLEAN /\ row.readable \in BOOLEAN
        /\ row \in [hashes : InfoHash, meta : BOOLEAN, readable : BOOLEAN]
    BY DEF Row
  <1>2. all \in InfoHash /\ ContentOf(all) = ContentOf(row.hashes)
    BY <1>1, HashesKnown, HashesOfContent
  <1> HIDE DEF all
  <1>3. /\ new \in [hashes : InfoHash, meta : BOOLEAN, readable : BOOLEAN]
        /\ new.meta = TRUE /\ new.hashes = all /\ new.readable = row.readable
    BY <1>1, <1>2
  <1> HIDE DEF new
  <1>4. new \in Row
    BY <1>2, <1>3 DEF Row, all
  <1>5. WithMetadata(row, other) = IF other.readable /\ other.meta THEN new ELSE row
    BY DEF WithMetadata, new, all
  <1> QED
    BY <1>1, <1>2, <1>3, <1>4, <1>5 DEF all

\* The row that a torrent is restored from is one of the rows of the torrent.
LEMMA UsedType ==
    ASSUME stored \in [Storage -> Rows], startupStorage \in Storage,
           context \in SessionContext, NEW id \in ID, NEW row \in Row
    PROVE  /\ Used(id, row) \in Row
           /\ row.readable => Used(id, row).readable
           /\ HasAlternative(id, row) => V1(row.hashes) \in ID
           /\ HasPreferred(id, row) => V2(row.hashes) \in ID
           /\ Skips(id, row) \subseteq ID
           /\ ToTorrentID(row.hashes) \in ID /\ V1(row.hashes) \in ID
  <1>1. row.hashes \in InfoHash /\ context.indexed \subseteq ID
    BY DEF Row, SessionContext
  <1>2. ToTorrentID(row.hashes) \in ID
    BY <1>1, HashesKnown
  <1>3. V1(row.hashes) \in ID
    BY <1>1, HashesKnown DEF V1, ID
  <1>4. HasPreferred(id, row) => V2(row.hashes) \in ID
    BY <1>1 DEF HasPreferred
  <1>5. CASE HasAlternative(id, row)
    <2>1. Used(id, row) = WithMetadata(row, Load(V1(row.hashes)))
      BY <1>5 DEF Used
    <2>2. Skips(id, row) \subseteq ID
      BY <1>3, <1>5 DEF Skips
    <2> QED
      BY <1>2, <1>3, <1>4, <2>1, <2>2, LoadType, WithMetadataType
  <1>6. CASE HasPreferred(id, row) /\ ~HasAlternative(id, row)
    <2>1. Used(id, row) = IF Load(V2(row.hashes)).readable
                          THEN WithMetadata(Load(V2(row.hashes)), row) ELSE row
      BY <1>6 DEF Used
    <2>2. Skips(id, row) \subseteq ID
      BY <1>4, <1>6 DEF Skips
    <2> QED
      BY <1>2, <1>3, <1>4, <1>6, <2>1, <2>2, LoadType, WithMetadataType
  <1>7. CASE ~HasPreferred(id, row) /\ ~HasAlternative(id, row)
    BY <1>2, <1>3, <1>7 DEF Used, Skips
  <1> QED
    BY <1>5, <1>6, <1>7

LEMMA InitTypes == StartupInit => Types
  <1> SUFFICES ASSUME StartupInit PROVE Types
    OBVIOUS
  <1>1. stored \in [Storage -> Rows] /\ dbExists \in BOOLEAN
    <2>1. PICK rows \in InitialRows, source \in Storage :
            /\ stored = [s \in Storage |-> IF s = source THEN rows ELSE NoRows]
            /\ dbExists = (source = "db")
      BY DEF StartupInit
    <2>2. rows \in Rows
      BY DEF InitialRows, Rows
    <2>3. NoRows \in Rows
      <3>1. NoRows \in [{} -> Row] /\ {} \in SUBSET ID
        BY DEF NoRows
      <3> QED
        BY <3>1 DEF Rows
    <2> QED
      BY <2>1, <2>2, <2>3
  <1>2. NoContext \in SessionContext
    BY DEF NoContext, SessionContext
  <1>3. [state |-> "done", todo |-> <<>>] \in Loading
    BY DEF Loading
  <1> QED
    BY <1>1, <1>2, <1>3 DEF StartupInit, Types, Storage, OfNatives, Phase

-----------------------------------------------------------------------------
(* Steps keep the types.                                                   *)

\* The kinds of events.
LEMMA Kinds ==
    /\ "started" \in EventType /\ "finished" \in EventType /\ "handle" \in EventType
    /\ "alerts" \in EventType /\ "delete storage" \in EventType
    /\ "delete context" \in EventType
    /\ {} \in SUBSET ID
  BY DEF EventType

\* An event is queued for the main thread, and the next one is taken.
LEMMA EventsType ==
    ASSUME events \in Seq(QueuedEvent)
    PROVE  /\ \A type \in EventType, ids \in SUBSET ID :
                Append(events, Event(type, ids)) \in Seq(QueuedEvent)
           /\ \A type : CanHandle(type) =>
                /\ events # <<>> /\ Tail(events) \in Seq(QueuedEvent)
                /\ Head(events) \in QueuedEvent /\ Head(events).ids \subseteq ID
  <1>1. \A type \in EventType, ids \in SUBSET ID : Event(type, ids) \in QueuedEvent
    BY Kinds DEF Event, QueuedEvent
  <1>2. ASSUME NEW type, CanHandle(type)
        PROVE  /\ events # <<>> /\ Tail(events) \in Seq(QueuedEvent)
               /\ Head(events) \in QueuedEvent /\ Head(events).ids \subseteq ID
    <2>1. events # <<>>
      BY <1>2 DEF CanHandle
    <2>2. Tail(events) \in Seq(QueuedEvent) /\ Head(events) \in QueuedEvent
      BY <2>1, TailElements
    <2> QED
      BY <2>1, <2>2 DEF QueuedEvent
  <1> QED
    BY <1>1, <1>2, AppendElements

\* The storages keep to rows under IDs.
LEMMA JobType ==
    ASSUME NEW rows \in Rows, NEW id \in ID, NEW row \in Row
    PROVE  With(rows, id, row) \in Rows /\ Without(rows, id) \in Rows
  <1>1. PICK ids \in SUBSET ID : rows \in [ids -> Row]
    BY DEF Rows
  <1>2. With(rows, id, row) \in [ids \cup {id} -> Row] /\ ids \cup {id} \in SUBSET ID
    BY <1>1 DEF With
  <1>3. Without(rows, id) \in [ids \ {id} -> Row] /\ ids \ {id} \in SUBSET ID
    BY <1>1 DEF Without
  <1> QED
    BY <1>2, <1>3 DEF Rows

LEMMA PrepareTypes ==
    ASSUME Types, NEW type \in Storage, PrepareStartup(type)
    PROVE  Types'
  <1>1. dbExists' \in BOOLEAN /\ startupStorage' \in Storage /\ storageType' \in Storage
        /\ stored' = stored
    BY DEF PrepareStartup, Types, Storage
  <1>2. PICK ids \in SUBSET ID : stored[startupStorage'] \in [ids -> Row]
    BY <1>1 DEF Types, Rows
  <1>3. PICK order \in SetToSeqs(DOMAIN stored[startupStorage']) :
            loading' = [state |-> "start", todo |-> order]
    BY <1>1 DEF PrepareStartup
  <1>4. IsFiniteSet(ID)
    <2>1. IsFiniteSet(Content) /\ IsFiniteSet(Hybrid)
      BY FS_Subset, InfoHashAssumption, StartupAssumption
    <2>2. IsFiniteSet(Content \X {"v1"}) /\ IsFiniteSet(Hybrid \X {"v2"})
      BY <2>1, FS_Singleton, FS_Product
    <2> QED
      BY <2>2, FS_Union DEF ID
  <1>5. Cardinality(ids) \in Nat
    BY <1>4, FS_Subset, FS_CardinalityType
  <1>6. order \in Seq(ID)
    <2>1. order \in [1 .. Cardinality(ids) -> ids]
      BY <1>2, <1>3 DEF SetToSeqs
    <2> QED
      BY <1>5, <2>1, SeqDef
  <1>7. loading' \in Loading
    BY <1>3, <1>6 DEF Loading
  <1>8. context' \in SessionContext
    <2>1. NoContext \in SessionContext
      BY DEF NoContext, SessionContext
    <2>2. context' = [NoContext EXCEPT !.alive = TRUE]
      BY DEF PrepareStartup
    <2> QED
      BY <2>1, <2>2 DEF SessionContext
  <1> QED
    BY <1>1, <1>7, <1>8 DEF PrepareStartup, Types, Phase, diskVars, nativeVars, userVars

LEMMA LoaderTypes ==
    ASSUME Types, LoaderStep
    PROVE  Types'
  <1>1. CASE LoadStarted
    <2>1. ToSet(loading.todo) \subseteq ID
      <3>1. loading.todo \in Seq(ID)
        BY DEF Types, Loading
      <3>2. \A i \in DOMAIN loading.todo : loading.todo[i] \in ID
        BY <3>1, LenProperties, ElementOfSeq
      <3> QED
        BY <3>2 DEF ToSet
    <2>2. events' \in Seq(QueuedEvent)
      BY <1>1, <2>1, EventsType, Kinds DEF LoadStarted, Types
    <2>3. loading' \in Loading
      BY <1>1 DEF LoadStarted, Types, Loading
    <2> QED
      BY <1>1, <2>2, <2>3 DEF LoadStarted, Types, diskVars, startVars, nativeVars, userVars
  <1>2. CASE LoadNext
    <2> DEFINE todo == loading.todo
               x == [id |-> Head(todo), row |-> Load(Head(todo))]
    <2>1. todo \in Seq(ID) /\ todo # <<>>
      BY <1>2 DEF LoadNext, Types, Loading
    <2>2. Head(todo) \in ID /\ Tail(todo) \in Seq(ID)
      BY <2>1, TailElements
    <2>3. x \in Loaded
      BY <2>2, LoadType DEF Types, Loaded
    <2>4. loadedData' = Append(loadedData, x)
      BY <1>2 DEF LoadNext
    <2> HIDE DEF x
    <2>5. loadedData' \in Seq(Loaded)
      BY <2>3, <2>4, AppendElements DEF Types
    <2>6. loading' \in Loading
      BY <1>2, <2>2 DEF LoadNext, Types, Loading
    <2> QED
      BY <1>2, <2>5, <2>6 DEF LoadNext, Types, diskVars, startVars, nativeVars, userVars
  <1>3. CASE LoadFinished
    <2>1. events' \in Seq(QueuedEvent)
      BY <1>3, EventsType, Kinds DEF LoadFinished, Types
    <2>2. loading' \in Loading
      BY <1>3 DEF LoadFinished, Types, Loading
    <2> QED
      BY <1>3, <2>1, <2>2 DEF LoadFinished, Types, diskVars, startVars, nativeVars, userVars
  <1> QED
    BY <1>1, <1>2, <1>3 DEF LoaderStep

\* The rows that wait for the main thread, the one to be taken first.
LEMMA AvailableType ==
    ASSUME Types, Available # <<>>
    PROVE  /\ Head(Available) \in Loaded /\ Tail(Available) \in Seq(Loaded)
           /\ Head(Available).id \in ID /\ Head(Available).row \in Row
           /\ (IF context.loaded = <<>> THEN <<>> ELSE loadedData) \in Seq(Loaded)
  <1>1. Available \in Seq(Loaded)
    BY DEF Available, Types, SessionContext
  <1>2. Head(Available) \in Loaded /\ Tail(Available) \in Seq(Loaded)
    BY <1>1, TailElements
  <1> QED
    BY <1>2 DEF Loaded, Types

LEMMA StorageJobsType ==
    ASSUME Types, NEW id \in ID, NEW row \in Row
    PROVE  StorageJobs(id, row) \in Seq(Job)
  <1>1. /\ RemoveJob(V1(row.hashes)) \in Job
        /\ StoreJob(ToTorrentID(row.hashes), Used(id, row)) \in Job
    BY UsedType, UnreadableType DEF Types, RemoveJob, StoreJob, Job
  <1> DEFINE x == RemoveJob(V1(row.hashes))
             y == StoreJob(ToTorrentID(row.hashes), Used(id, row))
  <1>2. <<x>> \in Seq(Job) /\ <<y>> \in Seq(Job) /\ <<>> \in Seq(Job)
    BY <1>1
  <1> HIDE DEF x, y
  <1>3. \A s, t \in Seq(Job) : s \o t \in Seq(Job)
    BY ConcatElements
  <1> QED
    BY <1>2, <1>3 DEF StorageJobs, x, y

\* The main thread's part of the types: what its steps leave of the others is said
\* by the variables they do not change.
LEMMA MainTypes ==
    ASSUME Types, MainStep
    PROVE  Types'
  <1> USE DEF diskVars, startVars, loadVars, nativeVars, userVars
  <1>1. context \in SessionContext /\ events \in Seq(QueuedEvent)
    BY DEF Types
  <1>2. CASE BeginHandling
    <2>1. events' = Tail(events) /\ (CanHandle("started") \/ CanHandle("handle"))
          /\ handling' = "data"
      BY <1>2 DEF BeginHandling
    <2>2. Tail(events) \in Seq(QueuedEvent) /\ Head(events).ids \subseteq ID
      BY <1>1, <2>1, EventsType
    <2>3. context' \in SessionContext
      <3> DEFINE ids == Head(events).ids
      <3>1. \/ context' = [context EXCEPT !.enqueued = FALSE, !.indexed = ids]
            \/ context' = [context EXCEPT !.enqueued = FALSE]
        BY <1>2 DEF BeginHandling
      <3> HIDE DEF ids
      <3>2. ids \in SUBSET ID
        BY <2>2 DEF ids
      <3> QED
        BY <1>1, <3>1, <3>2 DEF SessionContext
    <2> QED
      BY <1>2, <2>1, <2>2, <2>3 DEF BeginHandling, Types
  <1>3. CASE HandleWithoutContext
    <2>1. Tail(events) \in Seq(QueuedEvent)
      BY <1>1, <1>3, EventsType, Kinds DEF HandleWithoutContext
    <2> QED
      BY <1>3, <2>1 DEF HandleWithoutContext, Types, Phase
  <1>4. CASE NoteLoadFinished
    <2>1. Tail(events) \in Seq(QueuedEvent)
      BY <1>1, <1>4, EventsType, Kinds DEF NoteLoadFinished
    <2>2. context' \in SessionContext
      BY <1>1, <1>4 DEF NoteLoadFinished, SessionContext
    <2> QED
      BY <1>4, <2>1, <2>2 DEF NoteLoadFinished, Types
  <1>5. CASE SkipNext
    <2> DEFINE rest == Tail(Available)
               data == IF context.loaded = <<>> THEN <<>> ELSE loadedData
    <2>1. rest \in Seq(Loaded) /\ data \in Seq(Loaded)
      BY <1>5, AvailableType DEF SkipNext
    <2>2. context' = [context EXCEPT !.loaded = rest] /\ loadedData' = data
      BY <1>5 DEF SkipNext
    <2> HIDE DEF rest, data
    <2>3. context' \in SessionContext
      BY <1>1, <2>1, <2>2 DEF SessionContext
    <2> QED
      BY <1>5, <2>1, <2>2, <2>3 DEF SkipNext, Types
  <1>6. CASE ProcessNext
    <2> DEFINE rest == Tail(Available)
               data == IF context.loaded = <<>> THEN <<>> ELSE loadedData
               id == Head(Available).id
               row == Head(Available).row
               n == context.processing + 1
               sk == context.skipped \cup Skips(id, row)
    <2>1. rest \in Seq(Loaded) /\ data \in Seq(Loaded) /\ id \in ID /\ row \in Row
      BY <1>6, AvailableType DEF ProcessNext
    <2>2. /\ context' = [context EXCEPT !.loaded = rest, !.processing = n, !.skipped = sk]
          /\ loadedData' = data
          /\ jobs' = jobs \o StorageJobs(id, row)
          /\ adding' = Append(adding, Used(id, row))
      BY <1>6 DEF ProcessNext
    <2>3. Used(id, row) \in Row /\ Skips(id, row) \subseteq ID
      BY <2>1, UsedType DEF Types
    <2>4. StorageJobs(id, row) \in Seq(Job)
      BY <2>1, StorageJobsType
    <2>5. n \in Int /\ sk \in SUBSET ID
      BY <1>1, <2>3 DEF SessionContext
    <2> HIDE DEF rest, data, id, row, n, sk
    <2>6. context' \in SessionContext
      BY <1>1, <2>1, <2>2, <2>5 DEF SessionContext
    <2>7. jobs' \in Seq(Job) /\ adding' \in Seq(Row)
      BY <2>2, <2>3, <2>4, ConcatElements, AppendElements DEF Types
    <2> QED
      BY <1>6, <2>1, <2>2, <2>6, <2>7 DEF ProcessNext, Types
  <1>7. CASE PauseHandling \/ AwaitAlerts
    BY <1>7 DEF PauseHandling, AwaitAlerts, Types
  <1>8. CASE AwaitData
    <2>1. events' \in Seq(QueuedEvent)
      BY <1>1, <1>8, EventsType, Kinds DEF AwaitData, EventsWithHandling
    <2>2. context' \in SessionContext
      BY <1>1, <1>8 DEF AwaitData, Enqueued, SessionContext
    <2> QED
      BY <1>8, <2>1, <2>2 DEF AwaitData, Types
  <1>9. CASE EndStartup
    <2> DEFINE x == Event("delete context", {})
    <2>1. x \in QueuedEvent
      BY Kinds DEF Event, QueuedEvent
    <2>2. \A s \in Seq(QueuedEvent) : s \o <<x>> \in Seq(QueuedEvent)
      <3> HIDE DEF x
      <3>1. <<x>> \in Seq(QueuedEvent)
        BY <2>1
      <3> QED
        BY <3>1, ConcatElements
    <2>3. events' \in Seq(QueuedEvent)
      BY <1>1, <1>9, <2>2, EventsType, Kinds DEF EndStartup
    <2> QED
      BY <1>9, <2>3 DEF EndStartup, Types, Phase
  <1>10. CASE DeleteStorage
    <2>1. Tail(events) \in Seq(QueuedEvent)
      BY <1>1, <1>10, EventsType, Kinds DEF DeleteStorage
    <2>2. NoRows \in Rows
      <3>1. NoRows \in [{} -> Row] /\ {} \in SUBSET ID
        BY DEF NoRows
      <3> QED
        BY <3>1 DEF Rows
    <2>3. stored' \in [Storage -> Rows] /\ dbExists' \in BOOLEAN
      BY <1>10, <2>2 DEF DeleteStorage, Types
    <2> QED
      BY <1>10, <2>1, <2>3 DEF DeleteStorage, Types
  <1>11. CASE DeleteContext
    <2>1. Tail(events) \in Seq(QueuedEvent)
      BY <1>1, <1>11, EventsType, Kinds DEF DeleteContext
    <2>2. NoContext \in SessionContext
      BY DEF NoContext, SessionContext
    <2> QED
      BY <1>11, <2>1, <2>2 DEF DeleteContext, Types, Phase
  <1>12. CASE FetchAlerts
    <2>1. Tail(events) \in Seq(QueuedEvent)
      BY <1>1, <1>12, EventsType, Kinds DEF FetchAlerts
    <2> QED
      BY <1>12, <2>1 DEF FetchAlerts, Types, OfNatives
  <1>13. CASE AlertsRead
    BY <1>13 DEF AlertsRead, Types
  <1> QED
    BY <1>2, <1>3, <1>4, <1>5, <1>6, <1>7, <1>8, <1>9, <1>10, <1>11, <1>12, <1>13 DEF MainStep

\* libtorrent posts alerts, and readAlerts is to be called.
LEMMA PostType ==
    ASSUME Types, NEW a \in Seq(Alert), Post(a)
    PROVE  posted' \in Seq(Alert) /\ posted' = posted \o a /\ events' \in Seq(QueuedEvent)
  <1>1. posted \o a \in Seq(Alert)
    BY ConcatElements DEF Types
  <1> QED
    BY <1>1, EventsType, Kinds DEF Types, Post

\* Native torrents are added, and remain.
LEMMA AddedNatives ==
    ASSUME NEW nat \in Seq(Native), NEW x \in Native
    PROVE  /\ Append(nat, x) \in Seq(Native)
           /\ DOMAIN nat \subseteq DOMAIN Append(nat, x)
           /\ Len(nat) + 1 \in DOMAIN Append(nat, x) /\ Len(nat) + 1 \in Nat
           /\ Len(nat) + 1 \notin DOMAIN nat
           /\ DOMAIN Append(nat, x) = DOMAIN nat \cup {Len(nat) + 1}
           /\ DOMAIN nat \subseteq Nat
           /\ \A h \in DOMAIN nat : nat[h] \in Native
  <1>1. \A h \in DOMAIN nat : nat[h] \in Native
    BY LenProperties, ElementOfSeq
  <1> QED
    BY <1>1, AppendElements

LEMMA AddNativeTypes ==
    ASSUME Types, AddNative
    PROVE  Types'
  <1> USE DEF diskVars, startVars, loadVars, userVars
  <1> DEFINE row == Head(adding)
             owners == Owners(row.hashes)
             handle == IF owners = {} THEN Len(natives) + 1 ELSE CHOOSE h \in owners : TRUE
             x == NativeAlert("added", handle, row)
             y == NativeAlert("rejected", handle, row)
             n == [row |-> row, alive |-> TRUE]
  <1>1. row \in Row /\ Tail(adding) \in Seq(Row)
    BY TailElements DEF AddNative, Types
  <1>2. n \in Native /\ natives \in Seq(Native)
    BY <1>1 DEF Native, Types
  <1>3. \/ owners = {} /\ natives' = Append(natives, n) /\ handle = Len(natives) + 1
           /\ (Post(<<x>> \o <<y>>) \/ Post(<<x>> \o <<>>))
        \/ owners # {} /\ natives' = natives /\ Post(<<x>>)
    BY DEF AddNative
  <1>4. owners \subseteq DOMAIN natives /\ (owners # {} => handle \in owners)
    BY DEF Owners
  <1>5. /\ natives' \in Seq(Native) /\ DOMAIN natives \subseteq DOMAIN natives'
        /\ handle \in DOMAIN natives' /\ handle \in Nat
    <2> HIDE DEF owners, n, x, y
    <2>1. /\ DOMAIN natives \subseteq Nat
          /\ Append(natives, n) \in Seq(Native)
          /\ DOMAIN natives \subseteq DOMAIN Append(natives, n)
          /\ Len(natives) + 1 \in DOMAIN Append(natives, n) /\ Len(natives) + 1 \in Nat
      BY <1>2, AddedNatives
    <2> QED
      BY <1>2, <1>3, <1>4, <2>1
  <1> HIDE DEF handle, owners, n
  <1>6. x \in Alert /\ y \in Alert /\ x.handle = handle /\ y.handle = handle
    BY <1>1, <1>5 DEF NativeAlert, Alert
  <1> HIDE DEF x, y
  <1>7. /\ <<x>> \in Seq(Alert) /\ <<x>> \o <<y>> \in Seq(Alert) /\ <<x>> \o <<>> \in Seq(Alert)
        /\ OfNatives(<<x>>, natives') /\ OfNatives(<<x>> \o <<y>>, natives')
        /\ OfNatives(<<x>> \o <<>>, natives')
    BY <1>5, <1>6 DEF OfNatives
  <1>8. PICK a \in Seq(Alert) : Post(a) /\ OfNatives(a, natives')
    BY <1>3, <1>7
  <1>9. /\ posted' \in Seq(Alert) /\ posted' = posted \o a /\ events' \in Seq(QueuedEvent)
    BY <1>8, PostType
  <1>10. OfNatives(posted', natives')
    <2>1. posted \in Seq(Alert) /\ OfNatives(posted, natives)
      BY DEF Types
    <2>2. \A i \in DOMAIN (posted \o a) : \/ i \in DOMAIN posted /\ (posted \o a)[i] = posted[i]
                                          \/ i - Len(posted) \in DOMAIN a
                                             /\ (posted \o a)[i] = a[i - Len(posted)]
      BY <2>1, ConcatElements
    <2> QED
      BY <1>5, <1>8, <1>9, <2>1, <2>2 DEF OfNatives
  <1>11. OfNatives(batch, natives') /\ OfNatives(restored, natives')
    BY <1>5 DEF OfNatives, Types
  <1>12. /\ adding' = Tail(adding)
         /\ UNCHANGED <<diskVars, jobs, startVars, phase, loadVars, context, handling, batch, userVars>>
    BY DEF AddNative
  <1> QED
    BY <1>1, <1>5, <1>9, <1>10, <1>11, <1>12 DEF Types

\* An alert is taken from the batch.
LEMMA BatchType ==
    ASSUME Types, batch # <<>>
    PROVE  /\ Head(batch) \in Alert /\ Head(batch) = batch[1]
           /\ Head(batch).handle \in DOMAIN natives
           /\ Head(batch).handle \in Nat /\ Head(batch).row \in Row
           /\ Tail(batch) \in Seq(Alert) /\ OfNatives(Tail(batch), natives)
  <1>1. batch \in Seq(Alert) /\ OfNatives(batch, natives)
    BY DEF Types
  <1>2. /\ Head(batch) \in Alert /\ Head(batch) = batch[1] /\ 1 \in DOMAIN batch
        /\ Tail(batch) \in Seq(Alert)
        /\ \A i \in DOMAIN Tail(batch) : i + 1 \in DOMAIN batch /\ Tail(batch)[i] = batch[i + 1]
    BY <1>1, TailElements
  <1> QED
    BY <1>1, <1>2 DEF OfNatives, Alert

LEMMA AlertReceivedTypes ==
    ASSUME Types, AlertReceived
    PROVE  context' \in SessionContext /\ events' \in Seq(QueuedEvent)
  <1>1. context \in SessionContext /\ events \in Seq(QueuedEvent)
    BY DEF Types
  <1>2. events' \in Seq(QueuedEvent)
    BY <1>1, EventsType, Kinds DEF AlertReceived, EventsWithHandling
  <1>3. context' \in SessionContext
    <2> DEFINE n == context.processing - 1
               ctx == [context EXCEPT !.processing = n]
    <2>1. n \in Int
      BY <1>1 DEF SessionContext
    <2> HIDE DEF n
    <2>2. ctx \in SessionContext
      BY <1>1, <2>1 DEF SessionContext
    <2>3. context' = IF context.alive THEN [ctx EXCEPT !.enqueued = TRUE] ELSE context
      BY DEF AlertReceived, Enqueued, n
    <2> HIDE DEF ctx
    <2> QED
      BY <1>1, <2>2, <2>3 DEF SessionContext
  <1> QED
    BY <1>2, <1>3

LEMMA AlertTypes ==
    ASSUME Types, AlertStep
    PROVE  Types'
  <1> USE DEF diskVars, startVars, loadVars, nativeVars, userVars
  <1> DEFINE a == Head(batch)
             r == [handle |-> a.handle, row |-> a.row]
  <1>1. batch # <<>>
    BY DEF AlertStep, TorrentRestored, ReloadRestored, IgnoreReloaded, CanReadAlert
  <1>2. /\ a.handle \in DOMAIN natives /\ a.handle \in Nat /\ a.row \in Row
        /\ Tail(batch) \in Seq(Alert) /\ OfNatives(Tail(batch), natives)
    BY <1>1, BatchType
  <1>3. CASE TorrentRestored
    <2>1. r \in Restored /\ r.handle \in DOMAIN natives
      BY <1>2 DEF Restored
    <2>2. restored' = Append(restored, r)
      BY <1>3 DEF TorrentRestored
    <2> HIDE DEF r
    <2>3. restored' \in Seq(Restored) /\ OfNatives(restored', natives)
      <3>1. restored \in Seq(Restored) /\ OfNatives(restored, natives)
        BY DEF Types
      <3>2. /\ Append(restored, r) \in Seq(Restored)
            /\ \A i \in DOMAIN Append(restored, r) :
                  \/ i \in DOMAIN restored /\ Append(restored, r)[i] = restored[i]
                  \/ Append(restored, r)[i] = r
        BY <2>1, <3>1, AppendElements
      <3> QED
        BY <2>1, <2>2, <3>1, <3>2 DEF OfNatives
    <2>4. context' \in SessionContext /\ events' \in Seq(QueuedEvent)
      BY <1>3, AlertReceivedTypes DEF TorrentRestored
    <2> QED
      BY <1>2, <1>3, <2>3, <2>4 DEF TorrentRestored, Types
  <1>4. CASE ReloadRestored
    <2> DEFINE old == a.handle
               handle == Len(natives) + 1
               gone == [natives EXCEPT ![old].alive = FALSE]
               n == natives[old]
               x == NativeAlert("reloaded", handle, n.row)
    <2>1. natives \in Seq(Native) /\ n \in Native /\ n.row \in Row
      <3>1. natives \in Seq(Native)
        BY DEF Types
      <3>2. n \in Native
        BY <1>2, <3>1, LenProperties, ElementOfSeq
      <3> QED
        BY <3>1, <3>2 DEF Native
    <2>2. gone \in Seq(Native) /\ Len(gone) = Len(natives) /\ DOMAIN gone = DOMAIN natives
      <3> DEFINE m == [natives[old] EXCEPT !.alive = FALSE]
      <3>1. gone = [natives EXCEPT ![old] = m]
        OBVIOUS
      <3>2. m \in Native
        BY <2>1 DEF Native
      <3> HIDE DEF m
      <3>3. Len(natives) \in Nat /\ natives \in [1..Len(natives) -> Native]
        BY <2>1, LenProperties
      <3>4. gone \in [1..Len(natives) -> Native]
        BY <3>1, <3>2, <3>3
      <3> QED
        BY <3>3, <3>4, LenProperties, SeqDef
    <2>3. /\ natives' = Append(gone, n)
          /\ restored' = [i \in DOMAIN restored |->
                IF restored[i].handle = old THEN [restored[i] EXCEPT !.handle = handle]
                ELSE restored[i]]
          /\ Post(<<x>>)
      BY <1>4 DEF ReloadRestored
    <2> HIDE DEF gone, n
    <2>4. /\ natives' \in Seq(Native) /\ DOMAIN natives' = DOMAIN natives \cup {handle}
          /\ handle \in Nat
      BY <2>1, <2>2, <2>3, AddedNatives
    <2>5. <<x>> \in Seq(Alert) /\ OfNatives(<<x>>, natives')
      BY <2>1, <2>4 DEF NativeAlert, Alert, OfNatives
    <2> HIDE DEF x, handle
    <2>6. posted' \in Seq(Alert) /\ posted' = posted \o <<x>> /\ events' \in Seq(QueuedEvent)
      BY <2>3, <2>5, PostType
    <2>7. OfNatives(posted', natives')
      <3>1. posted \in Seq(Alert) /\ OfNatives(posted, natives)
        BY DEF Types
      <3>2. \A i \in DOMAIN (posted \o <<x>>) :
                \/ i \in DOMAIN posted /\ (posted \o <<x>>)[i] = posted[i]
                \/ i - Len(posted) \in DOMAIN <<x>>
                   /\ (posted \o <<x>>)[i] = <<x>>[i - Len(posted)]
        BY <2>5, <3>1, ConcatElements
      <3> QED
        BY <2>4, <2>5, <2>6, <3>1, <3>2 DEF OfNatives
    <2>8. restored' \in Seq(Restored) /\ OfNatives(restored', natives')
      <3>1. /\ restored \in Seq(Restored) /\ OfNatives(restored, natives)
            /\ Len(restored) \in Nat /\ DOMAIN restored = 1..Len(restored)
            /\ \A i \in DOMAIN restored : restored[i] \in Restored
        BY LenProperties, ElementOfSeq DEF Types
      <3>2. \A i \in DOMAIN restored : restored'[i] \in Restored
                                       /\ restored'[i].handle \in DOMAIN natives'
        BY <2>3, <2>4, <3>1 DEF Restored, OfNatives
      <3>3. restored' \in [1..Len(restored) -> Restored]
        BY <2>3, <3>1, <3>2
      <3>4. restored' \in Seq(Restored) /\ DOMAIN restored' = DOMAIN restored
        BY <3>1, <3>3, SeqDef
      <3> QED
        BY <3>2, <3>4 DEF OfNatives
    <2>9. OfNatives(Tail(batch), natives')
      BY <1>2, <2>4 DEF OfNatives
    <2> QED
      BY <1>2, <1>4, <2>4, <2>6, <2>7, <2>8, <2>9 DEF ReloadRestored, Types
  <1>5. CASE IgnoreReloaded
    <2>1. context' \in SessionContext /\ events' \in Seq(QueuedEvent)
      BY <1>5, AlertReceivedTypes DEF IgnoreReloaded
    <2> QED
      BY <1>2, <1>5, <2>1 DEF IgnoreReloaded, Types
  <1> QED
    BY <1>3, <1>4, <1>5 DEF AlertStep

\* The torrents that remain when one is removed.
LEMMA RemoveAtElements ==
    ASSUME NEW S, NEW s \in Seq(S), NEW k \in DOMAIN s
    PROVE  /\ RemoveAt(s, k) \in Seq(S)
           /\ \A i \in DOMAIN RemoveAt(s, k) :
                LET j == IF i < k THEN i ELSE i + 1
                IN  i \in Nat /\ j \in DOMAIN s \ {k} /\ RemoveAt(s, k)[i] = s[j]
           /\ \A j \in DOMAIN s \ {k} : \E i \in DOMAIN RemoveAt(s, k) : RemoveAt(s, k)[i] = s[j]
  <1> DEFINE front == SubSeq(s, 1, k - 1)
             back == SubSeq(s, k + 1, Len(s))
             r == front \o back
  <1>1. /\ Len(s) \in Nat /\ DOMAIN s = 1..Len(s) /\ k \in Nat /\ 1 <= k /\ k <= Len(s)
        /\ \A j \in 1..Len(s) : s[j] \in S
    BY ElementOfSeq, LenProperties
  <1>2. /\ front \in Seq(S) /\ Len(front) = k - 1
        /\ \A i \in 1 .. k - 1 : front[i] = s[i]
    BY <1>1, SubSeqProperties
  <1>3. /\ back \in Seq(S) /\ Len(back) = Len(s) - k
        /\ \A i \in 1 .. Len(s) - k : back[i] = s[k + i]
    <2>1. \A i \in k + 1 .. Len(s) : i \in 1..Len(s) /\ s[i] \in S
      BY <1>1
    <2>2. CASE k + 1 <= Len(s)
      BY <1>1, <2>1, <2>2, SubSeqProperties
    <2>3. CASE ~(k + 1 <= Len(s))
      BY <1>1, <2>1, <2>3, SubSeqProperties
    <2> QED
      BY <2>2, <2>3
  <1> HIDE DEF front, back
  <1>4. /\ r \in Seq(S) /\ DOMAIN r = 1 .. Len(s) - 1
        /\ DOMAIN front = 1 .. k - 1 /\ DOMAIN back = 1 .. Len(s) - k
        /\ \A i \in DOMAIN front : r[i] = front[i]
        /\ \A i \in DOMAIN back : r[Len(front) + i] = back[i]
    <2>1. (k - 1) + (Len(s) - k) = Len(s) - 1
      BY <1>1
    <2>2. front \in Seq(S) /\ back \in Seq(S)
      BY <1>2, <1>3
    <2>3. /\ r \in Seq(S) /\ DOMAIN r = 1 .. Len(front) + Len(back)
          /\ DOMAIN front = 1 .. Len(front) /\ DOMAIN back = 1 .. Len(back)
          /\ \A i \in DOMAIN front : r[i] = front[i]
          /\ \A i \in DOMAIN back : r[Len(front) + i] = back[i]
      BY ONLY <2>2, ConcatElements DEF r
    <2> QED
      BY <1>2, <1>3, <2>1, <2>3
  <1> HIDE DEF r
  <1>5. ASSUME NEW j \in DOMAIN s
        PROVE  /\ j < k => j \in DOMAIN r /\ r[j] = s[j]
               /\ j > k => j - 1 \in DOMAIN r /\ r[j - 1] = s[j]
    <2>1. CASE j < k
      <3>1. j \in 1 .. k - 1 /\ j \in 1 .. Len(s) - 1 /\ ~(j > k)
        BY <1>1, <2>1
      <3> QED
        BY <1>2, <1>4, <2>1, <3>1
    <2>2. CASE j > k
      <3> DEFINE i == j - k
      <3>1. i \in 1 .. Len(s) - k /\ (k - 1) + i = j - 1 /\ k + i = j
            /\ j - 1 \in 1 .. Len(s) - 1 /\ ~(j < k)
        BY <1>1, <2>2
      <3> HIDE DEF i
      <3>2. r[(k - 1) + i] = s[k + i]
        BY <1>2, <1>3, <1>4, <3>1
      <3> QED
        BY <1>4, <2>2, <3>1, <3>2
    <2> QED
      BY <1>1, <2>1, <2>2
  <1>6. ASSUME NEW i \in DOMAIN r
        PROVE  LET j == IF i < k THEN i ELSE i + 1
               IN  i \in Nat /\ j \in DOMAIN s \ {k} /\ r[i] = s[j]
    <2>1. CASE i < k
      BY <1>1, <1>4, <1>5, <2>1
    <2>2. CASE ~(i < k)
      <3>1. i + 1 \in DOMAIN s /\ i + 1 > k /\ (i + 1) - 1 = i /\ i \in Nat
        BY <1>1, <1>4, <2>2
      <3> QED
        BY <1>1, <1>5, <2>2, <3>1
    <2> QED
      BY <2>1, <2>2
  <1>7. \A j \in DOMAIN s \ {k} : \E i \in DOMAIN r : r[i] = s[j]
    BY <1>1, <1>5
  <1> QED
    BY <1>4, <1>6, <1>7 DEF RemoveAt, r, front, back

LEMMA RestTypes ==
    ASSUME Types, PerformStorageJob \/ (\E i \in DOMAIN restored : RemoveRestored(i))
                  \/ ProgramExit \/ ProgramCrash
    PROVE  Types'
  <1> USE DEF diskVars, startVars, loadVars, nativeVars, userVars
  <1>1. CASE PerformStorageJob
    <2> DEFINE job == Head(jobs)
               rows == stored[storageType]
               new == IF job.op = "store" THEN With(rows, job.id, job.row) ELSE Without(rows, job.id)
    <2>1. jobs \in Seq(Job) /\ jobs # <<>> /\ rows \in Rows
      BY <1>1 DEF PerformStorageJob, Types
    <2>2. job \in Job /\ Tail(jobs) \in Seq(Job)
      BY <2>1, TailElements
    <2>3. job.id \in ID /\ job.row \in Row
      BY <2>2 DEF Job
    <2>4. new \in Rows
      BY <2>1, <2>3, JobType
    <2>5. stored' = [stored EXCEPT ![storageType] = new] /\ jobs' = Tail(jobs)
      BY <1>1 DEF PerformStorageJob
    <2> HIDE DEF new, job
    <2>6. stored' \in [Storage -> Rows]
      BY <2>4, <2>5 DEF Types
    <2> QED
      BY <1>1, <2>2, <2>5, <2>6 DEF PerformStorageJob, Types
  <1>2. ASSUME NEW k \in DOMAIN restored, RemoveRestored(k)
        PROVE  Types'
    <2> DEFINE t == restored[k]
               old == t.handle
               n == [natives[old] EXCEPT !.alive = FALSE]
               job == RemoveJob(ToTorrentID(t.row.hashes))
    <2>1. /\ restored \in Seq(Restored) /\ OfNatives(restored, natives)
          /\ natives \in Seq(Native) /\ jobs \in Seq(Job)
      BY DEF Types
    <2>2. t \in Restored /\ old \in DOMAIN natives
      BY <2>1, LenProperties, ElementOfSeq DEF OfNatives
    <2>3. t.row \in Row /\ t.row.hashes \in InfoHash
      BY <2>2 DEF Restored, Row
    <2>4. job \in Job
      BY <2>3, HashesKnown, UnreadableType DEF RemoveJob, Job
    <2>5. natives[old] \in Native
      BY <2>1, <2>2, LenProperties, ElementOfSeq
    <2>6. n \in Native
      BY <2>5 DEF Native
    <2>7. natives' = [natives EXCEPT ![old] = n] /\ jobs' = Append(jobs, job)
          /\ restored' = RemoveAt(restored, k)
      BY <1>2 DEF RemoveRestored
    <2> HIDE DEF n, job, old
    <2>8. jobs' \in Seq(Job)
      BY <2>1, <2>4, <2>7, AppendElements
    <2>9. natives' \in Seq(Native) /\ DOMAIN natives' = DOMAIN natives
      <3>1. Len(natives) \in Nat /\ natives \in [1..Len(natives) -> Native]
        BY <2>1, LenProperties
      <3>2. natives' \in [1..Len(natives) -> Native] /\ DOMAIN natives' = DOMAIN natives
        BY <2>6, <2>7, <3>1
      <3> QED
        BY <3>1, <3>2, SeqDef
    <2>10. restored' \in Seq(Restored) /\ OfNatives(restored', natives)
      <3>1. /\ RemoveAt(restored, k) \in Seq(Restored)
            /\ \A i \in DOMAIN RemoveAt(restored, k) :
                 \E j \in DOMAIN restored : RemoveAt(restored, k)[i] = restored[j]
        BY <2>1, RemoveAtElements
      <3> QED
        BY <2>1, <2>7, <3>1 DEF OfNatives
    <2> QED
      BY <1>2, <2>8, <2>9, <2>10 DEF RemoveRestored, Types, OfNatives
  <1>3. CASE ProgramExit \/ ProgramCrash
    <2>1. NoContext \in SessionContext /\ [state |-> "done", todo |-> <<>>] \in Loading
      BY DEF NoContext, SessionContext, Loading
    <2>2. ProcessEnds
      BY <1>3 DEF ProgramExit, ProgramCrash
    <2>3. /\ jobs' = <<>> /\ loadedData' = <<>> /\ events' = <<>> /\ natives' = <<>>
          /\ adding' = <<>> /\ posted' = <<>> /\ batch' = <<>> /\ restored' = <<>>
          /\ handling' = "none" /\ context' \in SessionContext /\ loading' \in Loading
      BY <2>1, <2>2 DEF ProcessEnds
    <2>4. OfNatives(posted', natives') /\ OfNatives(batch', natives') /\ OfNatives(restored', natives')
      BY <2>3 DEF OfNatives
    <2>5. /\ stored' \in [Storage -> Rows] /\ dbExists' \in BOOLEAN
          /\ storageType' \in Storage /\ startupStorage' \in Storage /\ incident' \in Incidents
          /\ phase' \in Phase
      BY <2>2 DEF ProcessEnds, Types, Phase
    <2> QED
      BY <2>3, <2>4, <2>5 DEF Types
  <1> QED
    BY <1>1, <1>2, <1>3

LEMMA NextTypes ==
    ASSUME Types, [StartupNext]_startupVars
    PROVE  Types'
  <1>1. CASE UNCHANGED startupVars
    BY <1>1 DEF startupVars, diskVars, startVars, loadVars, nativeVars, userVars, Types, OfNatives
  <1>2. CASE StartupNext
    BY <1>2, PrepareTypes, LoaderTypes, MainTypes, AddNativeTypes, AlertTypes, RestTypes
       DEF StartupNext
  <1> QED
    BY <1>1, <1>2

-----------------------------------------------------------------------------
(* The course of a start.                                                  *)

Has(queue, type) == \E i \in DOMAIN queue : queue[i].type = type
Single(queue, type) ==
    \A i, j \in DOMAIN queue : queue[i].type = type /\ queue[j].type = type => i = j
AllAdded(alerts) == \A i \in DOMAIN alerts : alerts[i].type = "added"

\* The loading thread has not said yet which torrents there are.
Unstarted == loading.state = "start" \/ Has(events, "started")
NotLoading == loading = [state |-> "done", todo |-> <<>>]

AtRest ==
    phase = "off" =>
        /\ events = <<>> /\ handling = "none" /\ NotLoading /\ loadedData = <<>>
        /\ context = NoContext /\ restored = <<>> /\ jobs = <<>>
        /\ natives = <<>> /\ adding = <<>> /\ posted = <<>> /\ batch = <<>>

Beginning ==
    Unstarted =>
        /\ phase = "startup" /\ handling = "none"
        /\ \A type : Has(events, type) => type \in {"started", "finished"}
        /\ ~context.enqueued /\ context.processing = 0 /\ context.loaded = <<>>
        /\ context.skipped = {}
        /\ natives = <<>> /\ adding = <<>> /\ posted = <<>> /\ batch = <<>>

\* What holds at every start, torrents that are reloaded included.
Control ==
    /\ AtRest
    /\ Beginning
    /\ handling # "alerts" => batch = <<>>
    /\ context.alive <=> phase \in {"startup", "ending"}
    /\ handling = "data" => context.alive
    /\ loading.state = "start" => events = <<>> /\ loadedData = <<>>
    /\ Single(events, "started")
    /\ context.finished \/ Has(events, "finished") => NotLoading

\* When no torrent is reloaded, every alert answers one call, one queued call at
\* most enters the loop, and the startup ends when nothing is outstanding.
Calm ==
    incident # "reject" =>
        /\ phase # "undefined"
        /\ AllAdded(posted) /\ AllAdded(batch)
        /\ context.alive => context.processing = Len(adding) + Len(posted) + Len(batch)
        /\ context.processing <= MaxProcessing
        /\ ~context.enqueued => ~Has(events, "handle")
        /\ Single(events, "handle")
        /\ handling = "data" => phase = "startup" /\ ~context.enqueued
        /\ phase = "startup" => ~Has(events, "delete context") /\ ~Has(events, "delete storage")
        /\ phase \in {"ending", "running"} =>
             /\ adding = <<>> /\ posted = <<>> /\ batch = <<>> /\ ~context.enqueued
             /\ NotLoading /\ context.loaded = <<>> /\ loadedData = <<>>

\* An event behind the others.
LEMMA AppendedElement ==
    ASSUME NEW S, NEW s \in Seq(S), NEW e \in S
    PROVE  /\ \A t : Has(Append(s, e), t) <=> Has(s, t) \/ t = e.type
           /\ \A t : Single(s, t) /\ (t = e.type => ~Has(s, t)) => Single(Append(s, e), t)
           /\ \A i \in DOMAIN Append(s, e) : (i \in DOMAIN s /\ Append(s, e)[i] = s[i])
                                             \/ Append(s, e)[i] = e
           /\ Append(s, e) # <<>>
  <1> DEFINE r == Append(s, e)
             n == Len(s) + 1
  <1>1. /\ r \in Seq(S) /\ Len(r) = n
        /\ Len(s) \in Nat /\ DOMAIN s = 1..Len(s) /\ DOMAIN r = 1..n
        /\ \A i \in DOMAIN s : r[i] = s[i]
        /\ r[n] = e
    BY AppendElements
  <1> HIDE DEF r
  <1>2. r # <<>>
    BY <1>1, EmptySeq
  <1>3. n \in DOMAIN r /\ n \notin DOMAIN s /\ DOMAIN s \subseteq DOMAIN r
    BY <1>1
  <1>4. \A i \in DOMAIN r : \/ i \in DOMAIN s /\ r[i] = s[i]
                            \/ i = n /\ r[i] = e
    BY <1>1
  <1> HIDE DEF n
  <1>5. \A t : Has(r, t) <=> Has(s, t) \/ t = e.type
    BY <1>1, <1>3, <1>4 DEF Has
  <1>6. ASSUME NEW t, Single(s, t), t = e.type => ~Has(s, t)
        PROVE  Single(r, t)
    <2> SUFFICES ASSUME NEW i \in DOMAIN r, NEW j \in DOMAIN r, r[i].type = t, r[j].type = t
                 PROVE  i = j
      BY DEF Single
    <2> QED
      BY <1>1, <1>4, <1>6 DEF Single, Has
  <1> QED
    BY <1>2, <1>4, <1>5, <1>6 DEF r

\* The queue r is the queue s with one event more.
Behind(r, s, type, ids) ==
    /\ \A t : Has(r, t) <=> Has(s, t) \/ t = type
    /\ \A t : Single(s, t) /\ (t = type => ~Has(s, t)) => Single(r, t)
    /\ \A i \in DOMAIN r : (i \in DOMAIN s /\ r[i] = s[i]) \/ r[i] = Event(type, ids)
    /\ r # <<>> /\ r \in Seq(QueuedEvent)

LEMMA AppendedEvent ==
    ASSUME NEW s \in Seq(QueuedEvent), NEW type \in EventType, NEW ids \in SUBSET ID
    PROVE  Behind(Append(s, Event(type, ids)), s, type, ids)
  <1> DEFINE e == Event(type, ids)
             r == Append(s, e)
  <1>1. e \in QueuedEvent /\ e.type = type /\ e.ids = ids
    BY DEF Event, QueuedEvent
  <1> HIDE DEF e
  <1>2. /\ \A t : Has(r, t) <=> Has(s, t) \/ t = e.type
        /\ \A t : Single(s, t) /\ (t = e.type => ~Has(s, t)) => Single(r, t)
        /\ \A i \in DOMAIN r : (i \in DOMAIN s /\ r[i] = s[i]) \/ r[i] = e
        /\ r # <<>>
    BY <1>1, AppendedElement
  <1>3. r \in Seq(QueuedEvent)
    BY <1>1, AppendElements
  <1> HIDE DEF r
  <1>4. Behind(r, s, type, ids)
    <2>1. \A t : Has(r, t) <=> Has(s, t) \/ t = type
      BY <1>1, <1>2
    <2>2. \A t : Single(s, t) /\ (t = type => ~Has(s, t)) => Single(r, t)
      BY <1>1, <1>2
    <2>3. \A i \in DOMAIN r : (i \in DOMAIN s /\ r[i] = s[i]) \/ r[i] = Event(type, ids)
      BY <1>2 DEF e
    <2> QED
      BY <1>2, <1>3, <2>1, <2>2, <2>3 DEF Behind
  <1> QED
    BY <1>4 DEF r, e

\* The event that is handled.
LEMMA TakenEvent ==
    ASSUME NEW s \in Seq(QueuedEvent), s # <<>>
    PROVE  /\ \A t : Has(Tail(s), t) => Has(s, t)
           /\ \A t : Has(s, t) /\ t # Head(s).type => Has(Tail(s), t)
           /\ \A t : Single(s, t) => Single(Tail(s), t)
                                     /\ (t = Head(s).type => ~Has(Tail(s), t))
           /\ Has(s, Head(s).type)
           /\ \A i \in DOMAIN Tail(s) : \E j \in DOMAIN s : Tail(s)[i] = s[j]
           /\ \E j \in DOMAIN s : Head(s) = s[j]
  <1> DEFINE r == Tail(s)
  <1>1. /\ Head(s) = s[1] /\ 1 \in DOMAIN s
        /\ Len(s) \in Nat /\ DOMAIN s = 1..Len(s) /\ DOMAIN r = 1 .. Len(s) - 1
        /\ \A i \in DOMAIN r : i + 1 \in DOMAIN s /\ r[i] = s[i + 1]
        /\ \A i \in DOMAIN s : i # 1 => i - 1 \in DOMAIN r /\ r[i - 1] = s[i]
    BY TailElements
  <1> HIDE DEF r
  <1>2. \A t : Has(r, t) => Has(s, t)
    BY <1>1 DEF Has
  <1>3. \A t : Has(s, t) /\ t # Head(s).type => Has(r, t)
    BY <1>1 DEF Has
  <1>4. ASSUME NEW t, Single(s, t)
        PROVE  Single(r, t) /\ (t = Head(s).type => ~Has(r, t))
    <2>1. Single(r, t)
      <3> SUFFICES ASSUME NEW i \in DOMAIN r, NEW j \in DOMAIN r, r[i].type = t, r[j].type = t
                   PROVE  i = j
        BY DEF Single
      <3>1. i + 1 = j + 1
        BY <1>1, <1>4 DEF Single
      <3> QED
        BY <1>1, <3>1
    <2>2. ASSUME t = Head(s).type, NEW i \in DOMAIN r, r[i].type = t
          PROVE  FALSE
      <3>1. i + 1 = 1
        BY <1>1, <1>4, <2>2 DEF Single
      <3> QED
        BY <1>1, <3>1
    <2> QED
      BY <2>1, <2>2 DEF Has
  <1> QED
    BY <1>1, <1>2, <1>3, <1>4 DEF r, Has

\* What is handled was queued, and no other event of its kind remains if it was alone.
LEMMA Handled ==
    ASSUME Types
    PROVE  \A type : CanHandle(type) =>
             /\ phase # "undefined" /\ handling = "none" /\ Has(events, type) /\ events # <<>>
             /\ \A t : Has(Tail(events), t) => Has(events, t)
             /\ \A t : Has(events, t) /\ t # type => Has(Tail(events), t)
             /\ \A t : Single(events, t) => Single(Tail(events), t)
             /\ Single(events, type) => ~Has(Tail(events), type)
  <1> SUFFICES ASSUME NEW type, CanHandle(type)
               PROVE  /\ phase # "undefined" /\ handling = "none" /\ Has(events, type) /\ events # <<>>
                      /\ \A t : Has(Tail(events), t) => Has(events, t)
                      /\ \A t : Has(events, t) /\ t # type => Has(Tail(events), t)
                      /\ \A t : Single(events, t) => Single(Tail(events), t)
                      /\ Single(events, type) => ~Has(Tail(events), type)
    OBVIOUS
  <1>1. events \in Seq(QueuedEvent) /\ events # <<>> /\ Head(events).type = type
        /\ phase # "undefined" /\ handling = "none"
    BY DEF CanHandle, Types
  <1> QED
    BY <1>1, TakenEvent

\* What is queued is there besides the others.
LEMMA Queued ==
    ASSUME Types
    PROVE  \A type \in EventType, ids \in SUBSET ID :
             Behind(Append(events, Event(type, ids)), events, type, ids)
  <1>1. events \in Seq(QueuedEvent)
    BY DEF Types
  <1> QED
    BY <1>1, AppendedEvent

\* When the loading thread begins and ends.
LEMMA LoaderControl ==
    ASSUME Types, Control, LoaderStep
    PROVE  Control'
  <1> USE DEF diskVars, startVars, loadVars, nativeVars, userVars
  <1>1. CASE LoadStarted
    <2>1. ToSet(loading.todo) \in SUBSET ID
      <3>1. loading.todo \in Seq(ID)
        BY DEF Types, Loading
      <3>2. \A i \in DOMAIN loading.todo : loading.todo[i] \in ID
        BY <3>1, LenProperties, ElementOfSeq
      <3> QED
        BY <3>2 DEF ToSet
    <2>2. /\ \A t : Has(events', t) <=> Has(events, t) \/ t = "started"
          /\ \A t : Single(events, t) /\ (t = "started" => ~Has(events, t)) => Single(events', t)
      BY <1>1, <2>1, Queued, Kinds DEF LoadStarted, Behind
    <2>3. loading.state = "start" /\ loading'.state = "load" /\ events = <<>> /\ ~Has(events, "started")
          /\ ~Has(events, "finished")
      BY <1>1 DEF LoadStarted, Types, Loading, Control, Has
    <2> QED
      BY <1>1, <2>2, <2>3 DEF LoadStarted, Control, AtRest, Beginning, Unstarted, NotLoading
  <1>2. CASE LoadNext
    <2>1. loading'.state = loading.state /\ loading.state = "load"
      BY <1>2 DEF LoadNext, Types, Loading
    <2>2. ~NotLoading
      BY <2>1 DEF NotLoading
    <2> QED
      BY <1>2, <2>1, <2>2 DEF LoadNext, Control, AtRest, Beginning, Unstarted
  <1>3. CASE LoadFinished
    <2>1. /\ \A t : Has(events', t) <=> Has(events, t) \/ t = "finished"
          /\ \A t : Single(events, t) /\ (t = "finished" => ~Has(events, t)) => Single(events', t)
      BY <1>3, Queued, Kinds DEF LoadFinished, Behind
    <2>2. loading.state = "load" /\ NotLoading' /\ loading'.state = "done"
      BY <1>3 DEF LoadFinished, Types, Loading, NotLoading
    <2>3. ~NotLoading
      BY <2>2 DEF NotLoading
    <2> QED
      BY <1>3, <2>1, <2>2, <2>3 DEF LoadFinished, Control, AtRest, Beginning, Unstarted
  <1> QED
    BY <1>1, <1>2, <1>3 DEF LoaderStep

LEMMA MainControl ==
    ASSUME Types, Control, MainStep
    PROVE  Control'
  <1> USE DEF diskVars, startVars, loadVars, nativeVars, userVars
  <1> USE DEF Control, AtRest, Beginning, Unstarted, NotLoading
  <1>1. context \in SessionContext
    BY DEF Types
  <1>2. CASE BeginHandling
    <2>1. events' = Tail(events) /\ (CanHandle("started") \/ CanHandle("handle"))
      BY <1>2 DEF BeginHandling
    <2>2. ~Unstarted'
      <3>1. loading' = loading
        BY <1>2 DEF BeginHandling
      <3>2. CASE CanHandle("started")
        <4>1. Has(events, "started") /\ events # <<>> /\ ~Has(events', "started")
          BY <2>1, <3>2, Handled
        <4> QED
          BY <3>1, <4>1
      <3>3. CASE CanHandle("handle")
        <4>1. Has(events, "handle") /\ (Has(events', "started") => Has(events, "started"))
          BY <2>1, <3>3, Handled
        <4> QED
          BY <3>1, <4>1
      <3> QED
        BY <2>1, <3>2, <3>3
    <2>3. context.alive /\ context'.alive /\ context'.finished = context.finished
          /\ handling = "none"
      BY <1>1, <1>2, Handled DEF BeginHandling, SessionContext
    <2>4. /\ phase # "undefined"
          /\ \A t : Has(events', t) => Has(events, t)
          /\ \A t : Single(events, t) => Single(events', t)
      BY <2>1, Handled
    <2>5. Single(events', "started")
      BY <2>4
    <2>6. handling' = "data" /\ phase' = phase /\ loading' = loading /\ loadedData' = loadedData
          /\ batch' = batch
      BY <1>2 DEF BeginHandling
    <2> QED
      BY <2>2, <2>3, <2>4, <2>5, <2>6
  <1>3. CASE HandleWithoutContext
    BY <1>3, Handled DEF HandleWithoutContext
  <1>4. CASE NoteLoadFinished
    <2>1. context' = [context EXCEPT !.finished = TRUE]
      BY <1>4 DEF NoteLoadFinished
    <2>2. /\ context'.alive = context.alive /\ context'.enqueued = context.enqueued
          /\ context'.processing = context.processing /\ context'.loaded = context.loaded
          /\ context'.skipped = context.skipped
      BY <1>1, <2>1 DEF SessionContext
    <2>h. CanHandle("finished") /\ events' = Tail(events)
      BY <1>4 DEF NoteLoadFinished
    <2>i. /\ phase # "undefined" /\ handling = "none" /\ Has(events, "finished") /\ events # <<>>
          /\ \A t : Has(events', t) => Has(events, t)
          /\ \A t : Has(events, t) /\ t # "finished" => Has(events', t)
          /\ \A t : Single(events, t) => Single(events', t)
      BY <2>h, Handled
    <2> QED
      BY <1>4, <2>2, <2>i DEF NoteLoadFinished
  <1>5. CASE SkipNext
    <2>1. context' = [context EXCEPT !.loaded = Tail(Available)]
      BY <1>5 DEF SkipNext
    <2>2. context'.alive = context.alive /\ context'.finished = context.finished
      BY <1>1, <2>1 DEF SessionContext
    <2> QED
      BY <1>5, <2>2 DEF SkipNext, CanProcess
  <1>6. CASE ProcessNext
    <2>1. context'.alive = context.alive /\ context'.finished = context.finished
      BY <1>1, <1>6 DEF ProcessNext, SessionContext
    <2> QED
      BY <1>6, <2>1 DEF ProcessNext, CanProcess
  <1>7. CASE PauseHandling \/ AwaitAlerts
    BY <1>7 DEF PauseHandling, AwaitAlerts, Exhausted, CanProcess
  <1>8. CASE AwaitData
    <2>1. context'.alive = context.alive /\ context'.finished = context.finished
      BY <1>1, <1>8 DEF AwaitData, Enqueued, SessionContext
    <2>2. /\ \A t : t # "handle" => (Has(events', t) <=> Has(events, t))
          /\ Single(events', "started")
      <3>1. events' = events \/ events' = Append(events, Event("handle", {}))
        BY <1>8 DEF AwaitData, EventsWithHandling
      <3>2. Behind(Append(events, Event("handle", {})), events, "handle", {})
        BY Queued, Kinds
      <3> QED
        BY <3>1, <3>2 DEF Behind
    <2> QED
      BY <1>8, <2>1, <2>2 DEF AwaitData, Exhausted, CanProcess
  <1>9. CASE EndStartup
    <2>1. /\ \A t : t \notin {"delete storage", "delete context"} =>
               (Has(events', t) <=> Has(events, t))
          /\ Single(events', "started")
      <3> DEFINE x == Event("delete context", {})
                 s == IF Migrating THEN Append(events, Event("delete storage", {})) ELSE events
      <3>1. s \in Seq(QueuedEvent) /\ events' = s \o <<x>>
        BY <1>9, EventsType, Kinds DEF EndStartup, Types
      <3>2. /\ \A t : t # "delete storage" => (Has(s, t) <=> Has(events, t))
            /\ Single(s, "started")
        <4>1. Behind(Append(events, Event("delete storage", {})), events, "delete storage", {})
          BY Queued, Kinds
        <4> QED
          BY <4>1 DEF Behind
      <3> HIDE DEF s
      <3>3. events' = Append(s, x)
        <4>1. x \in QueuedEvent
          BY Kinds DEF Event, QueuedEvent
        <4> HIDE DEF x
        <4> QED
          BY <3>1, <4>1, AppendIsConcat
      <3> QED
        <4>1. Behind(Append(s, x), s, "delete context", {})
          BY <3>1, AppendedEvent, Kinds
        <4> QED
          BY <3>2, <3>3, <4>1 DEF Behind
    <2> QED
      BY <1>9, <2>1 DEF EndStartup, Exhausted, CanProcess
  <1>10. CASE DeleteStorage
    <2>h. CanHandle("delete storage") /\ events' = Tail(events)
      BY <1>10 DEF DeleteStorage
    <2>i. /\ phase # "undefined" /\ handling = "none" /\ Has(events, "delete storage") /\ events # <<>>
          /\ \A t : Has(events', t) => Has(events, t)
          /\ \A t : Has(events, t) /\ t # "delete storage" => Has(events', t)
          /\ \A t : Single(events, t) => Single(events', t)
      BY <2>h, Handled
    <2> QED
      BY <1>10, <2>i DEF DeleteStorage
  <1>11. CASE DeleteContext
    <2>1. context' = NoContext /\ ~NoContext.alive /\ ~NoContext.finished
      BY <1>11 DEF DeleteContext, NoContext
    <2>h. CanHandle("delete context") /\ events' = Tail(events)
      BY <1>11 DEF DeleteContext
    <2>i. /\ phase # "undefined" /\ handling = "none" /\ Has(events, "delete context") /\ events # <<>>
          /\ \A t : Has(events', t) => Has(events, t)
          /\ \A t : Has(events, t) /\ t # "delete context" => Has(events', t)
          /\ \A t : Single(events, t) => Single(events', t)
      BY <2>h, Handled
    <2> QED
      BY <1>11, <2>1, <2>i DEF DeleteContext
  <1>12. CASE FetchAlerts
    <2>h. CanHandle("alerts") /\ events' = Tail(events)
      BY <1>12 DEF FetchAlerts
    <2>i. /\ phase # "undefined" /\ handling = "none" /\ Has(events, "alerts") /\ events # <<>>
          /\ \A t : Has(events', t) => Has(events, t)
          /\ \A t : Has(events, t) /\ t # "alerts" => Has(events', t)
          /\ \A t : Single(events, t) => Single(events', t)
      BY <2>h, Handled
    <2> QED
      BY <1>12, <2>i DEF FetchAlerts
  <1>13. CASE AlertsRead
    BY <1>13 DEF AlertsRead
  <1> QED
    BY <1>2, <1>3, <1>4, <1>5, <1>6, <1>7, <1>8, <1>9, <1>10, <1>11, <1>12, <1>13 DEF MainStep

\* What libtorrent posts.
LEMMA PostEvents ==
    ASSUME Types, NEW a \in Seq(Alert), Post(a)
    PROVE  /\ \A t : Has(events, t) => Has(events', t)
           /\ \A t : Has(events', t) /\ t # "alerts" => Has(events, t)
           /\ \A t : t # "alerts" /\ Single(events, t) => Single(events', t)
           /\ events # <<>> => events' # <<>>
           /\ events' \in Seq(QueuedEvent)
           /\ events' = events \/ events' = Append(events, Event("alerts", {}))
  <1>1. events' = events \/ events' = Append(events, Event("alerts", {}))
    BY DEF Post
  <1>2. Behind(Append(events, Event("alerts", {})), events, "alerts", {})
    BY Queued, Kinds
  <1> QED
    BY <1>1, <1>2 DEF Behind, Types

\* What addTorrentAlertsReceived leaves.
LEMMA ReceivedContext ==
    ASSUME Types, AlertReceived
    PROVE  /\ context'.alive = context.alive /\ context'.finished = context.finished
           /\ context'.loaded = context.loaded /\ context'.skipped = context.skipped
           /\ context'.indexed = context.indexed
           /\ context.alive => /\ context'.processing = context.processing - 1
                               /\ context'.enqueued
           /\ ~context.alive => context' = context /\ events' = events
           /\ context.enqueued => events' = events
           /\ \A t : Has(events, t) => Has(events', t)
           /\ \A t : Has(events', t) /\ t # "handle" => Has(events, t)
           /\ \A t : t # "handle" /\ Single(events, t) => Single(events', t)
           /\ Single(events, "handle") /\ ~Has(events, "handle") => Single(events', "handle")
           /\ events # <<>> => events' # <<>>
           /\ events' = events \/ events' = Append(events, Event("handle", {}))
  <1>1. context \in SessionContext
    BY DEF Types
  <1>2. Behind(Append(events, Event("handle", {})), events, "handle", {})
    BY Queued, Kinds
  <1> DEFINE n == context.processing - 1
             ctx == [context EXCEPT !.processing = n]
  <1>3. /\ ctx \in [alive : BOOLEAN, loaded : Seq(Loaded), processing : {n}, finished : BOOLEAN,
                    enqueued : BOOLEAN, indexed : SUBSET ID, skipped : SUBSET ID]
        /\ ctx.alive = context.alive /\ ctx.finished = context.finished
        /\ ctx.loaded = context.loaded /\ ctx.skipped = context.skipped
        /\ ctx.indexed = context.indexed /\ ctx.processing = n /\ ctx.enqueued = context.enqueued
    <2> HIDE DEF n
    <2> QED
      BY <1>1 DEF SessionContext
  <1>4. IF context.alive
        THEN /\ context' = [ctx EXCEPT !.enqueued = TRUE]
             /\ events' = IF ctx.enqueued THEN events ELSE Append(events, Event("handle", {}))
        ELSE context' = context /\ events' = events
    BY <1>3 DEF AlertReceived, Enqueued, EventsWithHandling
  <1> HIDE DEF ctx
  <1>5. CASE context.alive
    <2>1. /\ context'.alive = context.alive /\ context'.finished = context.finished
          /\ context'.loaded = context.loaded /\ context'.skipped = context.skipped
          /\ context'.indexed = context.indexed /\ context'.processing = n /\ context'.enqueued
      <3> HIDE DEF n
      <3> QED
        BY <1>3, <1>4, <1>5
    <2>2. events' = IF context.enqueued THEN events ELSE Append(events, Event("handle", {}))
      BY <1>3, <1>4, <1>5
    <2> QED
      BY <1>2, <1>5, <2>1, <2>2 DEF Behind
  <1>6. CASE ~context.alive
    BY <1>4, <1>6
  <1> QED
    BY <1>5, <1>6

LEMMA AddNativeControl ==
    ASSUME Types, Control, AddNative
    PROVE  Control'
  <1> USE DEF diskVars, startVars, loadVars, userVars
  <1>1. PICK a \in Seq(Alert) : Post(a)
    <2> DEFINE row == Head(adding)
               owners == Owners(row.hashes)
               handle == IF owners = {} THEN Len(natives) + 1 ELSE CHOOSE h \in owners : TRUE
               x == NativeAlert("added", handle, row)
               y == NativeAlert("rejected", handle, row)
    <2>1. row \in Row
      BY TailElements DEF AddNative, Types
    <2>2. handle \in Nat
      <3>1. owners \subseteq DOMAIN natives /\ (owners # {} => handle \in owners)
        BY DEF Owners
      <3>2. Len(natives) \in Nat /\ DOMAIN natives = 1..Len(natives)
        BY LenProperties DEF Types
      <3> QED
        BY <3>1, <3>2
    <2>3. Post(<<x>> \o <<y>>) \/ Post(<<x>> \o <<>>) \/ Post(<<x>>)
      BY DEF AddNative
    <2> HIDE DEF handle, row
    <2>4. x \in Alert /\ y \in Alert
      BY <2>1, <2>2 DEF NativeAlert, Alert
    <2> HIDE DEF x, y
    <2>5. <<x>> \in Seq(Alert) /\ <<x>> \o <<y>> \in Seq(Alert) /\ <<x>> \o <<>> \in Seq(Alert)
      BY <2>4
    <2> QED
      BY <2>3, <2>5
  <1>2. /\ adding # <<>>
        /\ UNCHANGED <<diskVars, jobs, startVars, phase, loadVars, context, handling, batch, userVars>>
    BY DEF AddNative
  <1>3. phase # "off" /\ ~Unstarted
    BY <1>2 DEF Control, AtRest, Beginning
  <1>4. ~Unstarted'
    BY <1>1, <1>2, <1>3, PostEvents DEF Unstarted
  <1> QED
    BY <1>1, <1>2, <1>3, <1>4, PostEvents DEF Control, AtRest, Beginning, Unstarted, NotLoading

LEMMA AlertControl ==
    ASSUME Types, Control, AlertStep
    PROVE  Control'
  <1> USE DEF diskVars, startVars, loadVars, nativeVars, userVars
  <1>1. batch # <<>> /\ handling = "alerts"
    BY DEF AlertStep, TorrentRestored, ReloadRestored, IgnoreReloaded, CanReadAlert
  <1>2. phase # "off" /\ ~Unstarted
    BY <1>1 DEF Control, AtRest, Beginning
  <1>3. handling' = handling /\ phase' = phase /\ loading' = loading /\ loadedData' = loadedData
    BY DEF AlertStep, TorrentRestored, ReloadRestored, IgnoreReloaded
  <1>4. CASE AlertReceived
    <2>1. ~Unstarted'
      BY <1>2, <1>3, <1>4, ReceivedContext DEF Unstarted
    <2> QED
      BY <1>1, <1>2, <1>3, <1>4, <2>1, ReceivedContext
         DEF Control, AtRest, Beginning, Unstarted, NotLoading
  <1>5. CASE ReloadRestored
    <2> DEFINE old == Head(batch).handle
               handle == Len(natives) + 1
               x == NativeAlert("reloaded", handle, natives[old].row)
    <2>1. Post(<<x>>) /\ context' = context
      BY <1>5 DEF ReloadRestored
    <2>2. <<x>> \in Seq(Alert)
      <3>1. old \in DOMAIN natives /\ natives \in Seq(Native)
        BY <1>1, BatchType DEF Types
      <3>2. natives[old] \in Native /\ handle \in Nat
        BY <3>1, LenProperties, ElementOfSeq
      <3>3. x \in Alert
        BY <3>2 DEF NativeAlert, Alert, Native
      <3> HIDE DEF x
      <3> QED
        BY <3>3
    <2>3. ~Unstarted'
      BY <1>2, <1>3, <2>1, <2>2, PostEvents DEF Unstarted
    <2> QED
      BY <1>1, <1>2, <1>3, <2>1, <2>2, <2>3, PostEvents
         DEF Control, AtRest, Beginning, Unstarted, NotLoading
  <1> QED
    BY <1>4, <1>5 DEF AlertStep, TorrentRestored, IgnoreReloaded

LEMMA RestControl ==
    ASSUME Types, Control,
           \/ PerformStorageJob \/ (\E i \in DOMAIN restored : RemoveRestored(i))
           \/ ProgramExit \/ ProgramCrash \/ (\E type \in Storage : PrepareStartup(type))
    PROVE  Control'
  <1> USE DEF diskVars, startVars, loadVars, nativeVars, userVars
  <1>1. CASE PerformStorageJob
    BY <1>1 DEF PerformStorageJob, Control, AtRest, Beginning, Unstarted, NotLoading
  <1>2. CASE \E i \in DOMAIN restored : RemoveRestored(i)
    BY <1>2 DEF RemoveRestored, Control, AtRest, Beginning, Unstarted, NotLoading
  <1>3. CASE ProgramExit \/ ProgramCrash
    <2>1. ProcessEnds
      BY <1>3 DEF ProgramExit, ProgramCrash
    <2>2. /\ ~NoContext.alive /\ ~NoContext.finished
          /\ \A t : ~Has(<<>>, t) /\ Single(<<>>, t)
      BY DEF NoContext, Has, Single
    <2> QED
      BY <2>1, <2>2 DEF ProcessEnds, Control, AtRest, Beginning, Unstarted, NotLoading
  <1>4. ASSUME NEW type \in Storage, PrepareStartup(type)
        PROVE  Control'
    <2>1. /\ phase = "off" /\ phase' = "startup"
          /\ context' = [NoContext EXCEPT !.alive = TRUE]
          /\ UNCHANGED <<stored, jobs, loadedData, events, handling, nativeVars, incident, userVars>>
          /\ loading'.state = "start"
      BY <1>4 DEF PrepareStartup
    <2>2. \A t : ~Has(<<>>, t) /\ Single(<<>>, t)
      BY DEF Has, Single
    <2>3. /\ context'.alive /\ ~context'.finished /\ ~context'.enqueued /\ context'.processing = 0
          /\ context'.loaded = <<>> /\ context'.skipped = {}
      BY <2>1 DEF NoContext
    <2> QED
      BY <2>1, <2>2, <2>3 DEF Control, AtRest, Beginning, Unstarted, NotLoading
  <1> QED
    BY <1>1, <1>2, <1>3, <1>4

LEMMA NextControl ==
    ASSUME Types, Control, [StartupNext]_startupVars
    PROVE  Control'
  <1>1. CASE UNCHANGED startupVars
    BY <1>1 DEF startupVars, diskVars, startVars, loadVars, nativeVars, userVars,
                Control, AtRest, Beginning, Unstarted, NotLoading
  <1>2. CASE StartupNext
    BY <1>2, LoaderControl, MainControl, AddNativeControl, AlertControl, RestControl
       DEF StartupNext
  <1> QED
    BY <1>1, <1>2

LEMMA InitControl == StartupInit => Control /\ Calm
  <1> SUFFICES ASSUME StartupInit PROVE Control /\ Calm
    OBVIOUS
  <1>1. \A t : ~Has(<<>>, t) /\ Single(<<>>, t)
    BY DEF Has, Single
  <1>2. /\ ~NoContext.alive /\ ~NoContext.finished /\ ~NoContext.enqueued
        /\ NoContext.processing = 0
    BY DEF NoContext
  <1>3. Control
    BY <1>1, <1>2 DEF StartupInit, Control, AtRest, Beginning, Unstarted, NotLoading
  <1>4. Calm
    BY <1>1, <1>2, StartupAssumption DEF StartupInit, Calm, AllAdded, NotLoading
  <1> QED
    BY <1>3, <1>4

-----------------------------------------------------------------------------
(* When no torrent is reloaded.                                            *)

\* The end of the startup.
LEMMA EndingEvents ==
    ASSUME Types, EndStartup
    PROVE  /\ \A t : t \notin {"delete storage", "delete context"} =>
                /\ Has(events', t) <=> Has(events, t)
                /\ Single(events, t) => Single(events', t)
           /\ Has(events', "delete storage") <=> Migrating \/ Has(events, "delete storage")
  <1> DEFINE x == Event("delete context", {})
             s == IF Migrating THEN Append(events, Event("delete storage", {})) ELSE events
  <1>1. s \in Seq(QueuedEvent) /\ events' = s \o <<x>>
    BY EventsType, Kinds DEF EndStartup, Types
  <1>2. /\ \A t : t # "delete storage" =>
             (Has(s, t) <=> Has(events, t)) /\ (Single(events, t) => Single(s, t))
        /\ Has(s, "delete storage") <=> Migrating \/ Has(events, "delete storage")
    <2>1. Behind(Append(events, Event("delete storage", {})), events, "delete storage", {})
      BY Queued, Kinds
    <2> QED
      BY <2>1 DEF Behind
  <1> HIDE DEF s
  <1>3. events' = Append(s, x)
    <2>1. x \in QueuedEvent
      BY Kinds DEF Event, QueuedEvent
    <2> HIDE DEF x
    <2> QED
      BY <1>1, <2>1, AppendIsConcat
  <1>4. Behind(Append(s, x), s, "delete context", {})
    BY <1>1, AppendedEvent, Kinds
  <1> QED
    BY <1>2, <1>3, <1>4 DEF Behind

LEMMA LoaderCalm ==
    ASSUME Types, Control, Calm, LoaderStep
    PROVE  Calm'
  <1> USE DEF diskVars, startVars, loadVars, nativeVars, userVars
  <1>1. loading.state # "done" /\ ~NotLoading
    BY DEF LoaderStep, LoadStarted, LoadNext, LoadFinished, NotLoading
  <1>2. /\ \A t : t \notin {"started", "finished"} =>
             /\ Has(events', t) <=> Has(events, t)
             /\ Single(events, t) => Single(events', t)
    <2>1. CASE LoadStarted
      <3>1. ToSet(loading.todo) \in SUBSET ID
        <4>1. loading.todo \in Seq(ID)
          BY DEF Types, Loading
        <4>2. \A i \in DOMAIN loading.todo : loading.todo[i] \in ID
          BY <4>1, LenProperties, ElementOfSeq
        <4> QED
          BY <4>2 DEF ToSet
      <3>2. Behind(events', events, "started", ToSet(loading.todo))
        BY <2>1, <3>1, Queued, Kinds DEF LoadStarted
      <3> QED
        BY <3>2 DEF Behind
    <2>2. CASE LoadNext
      BY <2>2 DEF LoadNext
    <2>3. CASE LoadFinished
      <3>1. Behind(events', events, "finished", {})
        BY <2>3, Queued, Kinds DEF LoadFinished
      <3> QED
        BY <3>1 DEF Behind
    <2> QED
      BY <2>1, <2>2, <2>3 DEF LoaderStep
  <1>3. UNCHANGED <<phase, context, handling, nativeVars, incident>>
    BY DEF LoaderStep, LoadStarted, LoadNext, LoadFinished
  <1> QED
    BY <1>1, <1>2, <1>3 DEF Calm, NotLoading

LEMMA MainCalm ==
    ASSUME Types, Control, Calm, MainStep
    PROVE  Calm'
  <1> USE DEF diskVars, startVars, loadVars, nativeVars, userVars
  <1> SUFFICES ASSUME incident # "reject" PROVE Calm'
    BY DEF Calm, MainStep, BeginHandling, HandleWithoutContext, NoteLoadFinished, SkipNext,
           ProcessNext, PauseHandling, AwaitAlerts, AwaitData, EndStartup, DeleteStorage,
           DeleteContext, FetchAlerts, AlertsRead
  <1>1. context \in SessionContext
    BY DEF Types
  <1>2. CASE BeginHandling
    <2>1. /\ events' = Tail(events) /\ handling' = "data" /\ ~context'.enqueued
          /\ context'.alive = context.alive /\ context'.processing = context.processing
          /\ context'.loaded = context.loaded
          /\ UNCHANGED <<loadVars, phase, nativeVars, incident>>
      BY <1>1, <1>2 DEF BeginHandling, SessionContext
    <2>2. CASE CanHandle("started")
      <3>1. /\ Has(events, "started")
            /\ \A t : Has(events', t) => Has(events, t)
            /\ \A t : Single(events, t) => Single(events', t)
        BY <2>1, <2>2, Handled
      <3>2. phase = "startup" /\ ~Has(events, "handle")
        BY <3>1 DEF Control, Beginning, Unstarted
      <3> QED
        BY <2>1, <3>1, <3>2 DEF Calm, NotLoading
    <2>3. CASE CanHandle("handle") /\ context.alive
      <3>1. /\ Has(events, "handle") /\ (Single(events, "handle") => ~Has(events', "handle"))
            /\ \A t : Has(events', t) => Has(events, t)
            /\ \A t : Single(events, t) => Single(events', t)
        BY <2>1, <2>3, Handled
      <3>2. phase = "startup" /\ ~Has(events', "handle")
        BY <2>3, <3>1 DEF Calm, Control
      <3> QED
        BY <2>1, <3>1, <3>2 DEF Calm, NotLoading
    <2> QED
      BY <1>2, <2>2, <2>3 DEF BeginHandling
  <1>3. CASE HandleWithoutContext
    <2>1. CanHandle("handle") /\ ~context.alive
      BY <1>3 DEF HandleWithoutContext
    <2>2. Has(events, "handle") /\ events # <<>>
      BY <2>1, Handled
    <2>3. phase \in Phase
      BY DEF Types
    <2> QED
      BY <2>1, <2>2, <2>3 DEF Calm, Control, AtRest, Phase
  <1>4. CASE NoteLoadFinished
    <2>1. /\ CanHandle("finished") /\ events' = Tail(events)
          /\ context' = [context EXCEPT !.finished = TRUE]
      BY <1>4 DEF NoteLoadFinished
    <2>2. /\ \A t : Has(events', t) => Has(events, t)
          /\ \A t : Single(events, t) => Single(events', t)
      BY <2>1, Handled
    <2>3. /\ context'.alive = context.alive /\ context'.enqueued = context.enqueued
          /\ context'.processing = context.processing /\ context'.loaded = context.loaded
      BY <1>1, <2>1 DEF SessionContext
    <2> QED
      BY <1>4, <2>2, <2>3 DEF NoteLoadFinished, Calm, NotLoading
  <1>5. CASE SkipNext
    <2>1. context' = [context EXCEPT !.loaded = Tail(Available)] /\ handling = "data"
      BY <1>5 DEF SkipNext, CanProcess
    <2>2. /\ context'.alive = context.alive /\ context'.enqueued = context.enqueued
          /\ context'.processing = context.processing
      BY <1>1, <2>1 DEF SessionContext
    <2>3. phase = "startup"
      BY <2>1 DEF Calm
    <2>4. UNCHANGED <<loading, events, phase, handling, nativeVars, incident>>
      BY <1>5 DEF SkipNext
    <2> QED
      BY <2>2, <2>3, <2>4 DEF Calm
  <1>6. CASE ProcessNext
    <2> DEFINE x == Used(Head(Available).id, Head(Available).row)
    <2>1. /\ context'.alive = context.alive /\ context'.enqueued = context.enqueued
          /\ context'.processing = context.processing + 1 /\ handling = "data"
          /\ context.processing < MaxProcessing
      BY <1>1, <1>6 DEF ProcessNext, SessionContext, CanProcess
    <2>2. x \in Row /\ adding \in Seq(Row) /\ adding' = Append(adding, x)
      <3>1. Head(Available).id \in ID /\ Head(Available).row \in Row
        BY <1>6, AvailableType DEF ProcessNext
      <3> QED
        BY <1>6, <3>1, UsedType DEF ProcessNext, Types
    <2> HIDE DEF x
    <2>3. Len(adding') = Len(adding) + 1 /\ Len(adding) \in Nat
      BY <2>2, AppendElements
    <2>4. phase = "startup"
      BY <2>1 DEF Calm
    <2>5. UNCHANGED <<loading, events, phase, handling, posted, batch, incident>>
      BY <1>6 DEF ProcessNext
    <2>6. /\ context.processing \in Int /\ Len(posted) \in Nat /\ Len(batch) \in Nat
          /\ MaxProcessing \in Nat
      BY LenProperties, StartupAssumption DEF Types, SessionContext
    <2>7. context'.processing <= MaxProcessing
      BY <2>1, <2>6
    <2>8. context.alive => context'.processing = Len(adding') + Len(posted) + Len(batch)
      <3>1. context.alive => context.processing = Len(adding) + Len(posted) + Len(batch)
        BY DEF Calm
      <3> QED
        BY <2>1, <2>3, <2>6, <3>1
    <2> QED
      BY <2>1, <2>4, <2>5, <2>7, <2>8 DEF Calm
  <1>7. CASE PauseHandling \/ AwaitAlerts
    BY <1>7 DEF PauseHandling, AwaitAlerts, Exhausted, CanProcess, Calm, NotLoading
  <1>8. CASE AwaitData
    <2>1. /\ context'.alive = context.alive /\ context'.enqueued
          /\ context'.processing = context.processing /\ context'.loaded = context.loaded
          /\ handling = "data"
      BY <1>1, <1>8 DEF AwaitData, Enqueued, SessionContext, Exhausted, CanProcess
    <2>2. phase = "startup" /\ ~context.enqueued /\ ~Has(events, "handle")
      BY <2>1 DEF Calm
    <2>3. Behind(events', events, "handle", {})
      BY <1>8, <2>2, Queued, Kinds DEF AwaitData, EventsWithHandling
    <2>4. /\ \A t : t # "handle" => (Has(events', t) <=> Has(events, t))
          /\ Single(events', "handle")
      BY <2>2, <2>3 DEF Behind, Calm
    <2>5. UNCHANGED <<loading, loadedData, phase, nativeVars, incident>> /\ handling' = "none"
      BY <1>8 DEF AwaitData
    <2> QED
      BY <2>1, <2>2, <2>4, <2>5 DEF Calm
  <1>9. CASE EndStartup
    <2>1. /\ (Has(events', "handle") <=> Has(events, "handle"))
          /\ (Single(events, "handle") => Single(events', "handle"))
      BY <1>9, EndingEvents
    <2>2. /\ handling = "data" /\ Available = <<>> /\ context.processing = 0 /\ context.finished
          /\ phase' = "ending" /\ handling' = "none"
          /\ UNCHANGED <<loadVars, context, nativeVars, incident>>
      BY <1>9 DEF EndStartup, Exhausted, CanProcess
    <2>3. context.loaded = <<>> /\ loadedData = <<>>
      BY <2>2 DEF Available
    <2>4. NotLoading /\ context.alive /\ ~context.enqueued
      BY <2>2 DEF Control, Calm
    <2>5. adding = <<>> /\ posted = <<>> /\ batch = <<>>
      <3>1. 0 = Len(adding) + Len(posted) + Len(batch)
        BY <2>2, <2>4 DEF Calm
      <3>2. Len(adding) \in Nat /\ Len(posted) \in Nat /\ Len(batch) \in Nat
        BY LenProperties DEF Types
      <3>3. Len(adding) = 0 /\ Len(posted) = 0 /\ Len(batch) = 0
        BY <3>1, <3>2
      <3> QED
        BY <3>3, EmptySeq DEF Types
    <2> QED
      BY <2>1, <2>2, <2>3, <2>4, <2>5 DEF Calm, NotLoading
  <1>10. CASE DeleteStorage
    <2>1. /\ CanHandle("delete storage") /\ events' = Tail(events)
          /\ UNCHANGED <<incident, phase, loadVars, context, handling, nativeVars>>
      BY <1>10 DEF DeleteStorage
    <2>2. /\ \A t : Has(events', t) => Has(events, t)
          /\ \A t : Single(events, t) => Single(events', t)
      BY <2>1, Handled
    <2> QED
      BY <2>1, <2>2 DEF Calm, NotLoading
  <1>11. CASE DeleteContext
    <2>1. /\ CanHandle("delete context") /\ events' = Tail(events)
          /\ context' = NoContext /\ phase' = "running"
          /\ UNCHANGED <<incident, loadVars, handling, nativeVars>>
      BY <1>11 DEF DeleteContext
    <2>2. /\ \A t : Has(events', t) => Has(events, t)
          /\ \A t : Single(events, t) => Single(events', t)
          /\ Has(events, "delete context") /\ events # <<>> /\ handling = "none"
      BY <2>1, Handled
    <2>3. /\ ~NoContext.alive /\ ~NoContext.enqueued /\ NoContext.processing = 0
          /\ NoContext.loaded = <<>>
      BY DEF NoContext
    <2>4. phase \in {"ending", "running"}
      BY <2>2 DEF Calm, Control, AtRest, Types, Phase
    <2>5. 0 <= MaxProcessing
      BY StartupAssumption
    <2> QED
      BY <2>1, <2>2, <2>3, <2>4, <2>5 DEF Calm, NotLoading
  <1>12. CASE FetchAlerts
    <2>1. /\ CanHandle("alerts") /\ events' = Tail(events) /\ batch' = posted /\ posted' = <<>>
          /\ handling' = "alerts"
          /\ UNCHANGED <<incident, phase, loadVars, context, adding>>
      BY <1>12 DEF FetchAlerts
    <2>2. /\ \A t : Has(events', t) => Has(events, t)
          /\ \A t : Single(events, t) => Single(events', t)
          /\ handling = "none"
      BY <2>1, Handled
    <2>3. batch = <<>> /\ Len(batch) = 0 /\ Len(posted') = 0 /\ AllAdded(posted')
      BY <2>1, <2>2, EmptySeq DEF Control, AllAdded
    <2>4. Len(posted) \in Nat /\ Len(adding) \in Nat /\ Len(batch') = Len(posted)
      BY <2>1, LenProperties DEF Types
    <2>5. context.alive => context.processing = Len(adding) + Len(posted') + Len(batch')
      <3>1. context.alive => context.processing = Len(adding) + Len(posted) + Len(batch)
        BY DEF Calm
      <3> QED
        BY <2>1, <2>3, <2>4, <3>1
    <2>6. AllAdded(batch')
      BY <2>1 DEF Calm
    <2> QED
      BY <2>1, <2>2, <2>3, <2>5, <2>6 DEF Calm, NotLoading
  <1>13. CASE AlertsRead
    BY <1>13 DEF AlertsRead, Calm, NotLoading
  <1> QED
    BY <1>2, <1>3, <1>4, <1>5, <1>6, <1>7, <1>8, <1>9, <1>10, <1>11, <1>12, <1>13 DEF MainStep

\* libtorrent answers one call with one alert.
LEMMA AddNativeCalm ==
    ASSUME Types, Control, Calm, AddNative
    PROVE  Calm'
  <1> USE DEF diskVars, startVars, loadVars, userVars
  <1> SUFFICES ASSUME incident # "reject" PROVE Calm'
    BY DEF Calm, AddNative
  <1>1. PICK x \in Alert : x.type = "added" /\ Post(<<x>>)
    <2> DEFINE row == Head(adding)
               owners == Owners(row.hashes)
               handle == IF owners = {} THEN Len(natives) + 1 ELSE CHOOSE h \in owners : TRUE
               x == NativeAlert("added", handle, row)
    <2>1. row \in Row
      BY TailElements DEF AddNative, Types
    <2>2. handle \in Nat
      <3>1. owners \subseteq DOMAIN natives /\ (owners # {} => handle \in owners)
        BY DEF Owners
      <3>2. Len(natives) \in Nat /\ DOMAIN natives = 1..Len(natives)
        BY LenProperties DEF Types
      <3> QED
        BY <3>1, <3>2
    <2>3. Post(<<x>> \o <<>>) \/ Post(<<x>>)
      BY DEF AddNative
    <2> HIDE DEF handle, row
    <2>4. x \in Alert /\ x.type = "added"
      BY <2>1, <2>2 DEF NativeAlert, Alert
    <2> HIDE DEF x
    <2>5. <<x>> \o <<>> = <<x>>
      BY <2>4
    <2> QED
      BY <2>3, <2>4, <2>5
  <1>2. <<x>> \in Seq(Alert) /\ Len(<<x>>) = 1
    OBVIOUS
  <1>3. /\ adding # <<>> /\ adding' = Tail(adding)
        /\ UNCHANGED <<diskVars, jobs, startVars, phase, loadVars, context, handling, batch, userVars>>
    BY DEF AddNative
  <1>4. posted' = posted \o <<x>> /\ posted' = Append(posted, x) /\ posted \in Seq(Alert)
    BY <1>1, AppendIsConcat DEF Post, Types
  <1>5. Len(posted') = Len(posted) + 1 /\ Len(posted) \in Nat
    BY <1>4, AppendElements
  <1>6. Len(adding') = Len(adding) - 1 /\ Len(adding) \in Nat /\ Len(batch) \in Nat
    BY <1>3, TailElements, LenProperties DEF Types
  <1>7. AllAdded(posted')
    <2>1. /\ DOMAIN posted' = 1 .. Len(posted) + 1 /\ DOMAIN posted = 1 .. Len(posted)
          /\ \A i \in DOMAIN posted : posted'[i] = posted[i]
          /\ posted'[Len(posted) + 1] = x
      BY <1>4, AppendElements
    <2>2. \A i \in DOMAIN posted' : i \in DOMAIN posted \/ i = Len(posted) + 1
      BY <1>5, <2>1
    <2> QED
      BY <1>1, <2>1, <2>2 DEF AllAdded, Calm
  <1>8. context.alive => context.processing = Len(adding') + Len(posted') + Len(batch)
    <2>1. context.alive => context.processing = Len(adding) + Len(posted) + Len(batch)
      BY DEF Calm
    <2> QED
      BY <1>5, <1>6, <2>1
  <1>9. /\ \A t : Has(events', t) /\ t # "alerts" => Has(events, t)
        /\ \A t : t # "alerts" /\ Single(events, t) => Single(events', t)
    BY <1>1, <1>2, PostEvents
  <1>10. phase \notin {"ending", "running"}
    BY <1>3 DEF Calm
  <1> QED
    BY <1>3, <1>7, <1>8, <1>9, <1>10 DEF Calm

\* An alert counts one call down, while the context is there.
LEMMA AlertCalm ==
    ASSUME Types, Control, Calm, AlertStep
    PROVE  Calm'
  <1> USE DEF diskVars, startVars, loadVars, nativeVars, userVars
  <1>1. UNCHANGED <<loadVars, phase, handling, incident, adding>>
    BY DEF AlertStep, TorrentRestored, ReloadRestored, IgnoreReloaded
  <1> SUFFICES ASSUME incident # "reject" PROVE Calm'
    BY <1>1 DEF Calm
  <1>2. batch # <<>> /\ handling = "alerts" /\ batch' = Tail(batch)
    BY DEF AlertStep, TorrentRestored, ReloadRestored, IgnoreReloaded, CanReadAlert
  <1>3. Head(batch).type = "added"
    <2>1. Head(batch) = batch[1] /\ 1 \in DOMAIN batch
      BY <1>2, TailElements DEF Types
    <2> QED
      BY <2>1 DEF Calm, AllAdded
  <1>4. AlertReceived /\ posted' = posted
    BY <1>3 DEF AlertStep, TorrentRestored, ReloadRestored, IgnoreReloaded, CanReadAlert
  <1>5. Len(batch') = Len(batch) - 1 /\ Len(batch) \in Nat /\ Len(batch) > 0
        /\ Len(adding) \in Nat /\ Len(posted) \in Nat
    BY <1>2, TailElements, LenProperties DEF Types
  <1>6. AllAdded(batch')
    <2>1. \A i \in DOMAIN batch' : i + 1 \in DOMAIN batch /\ batch'[i] = batch[i + 1]
      BY <1>2, TailElements DEF Types
    <2> QED
      BY <2>1 DEF AllAdded, Calm
  <1>7. phase = "startup" /\ context.alive
    <2>1. phase \notin {"off", "ending", "running", "undefined"}
      BY <1>2 DEF Calm, Control, AtRest
    <2> QED
      BY <2>1 DEF Types, Phase, Control
  <1>8. context.processing = Len(adding) + Len(posted) + Len(batch)
        /\ context.processing <= MaxProcessing /\ context.processing \in Int
        /\ MaxProcessing \in Nat
    BY <1>7, StartupAssumption DEF Calm, Types, SessionContext
  <1>9. /\ context'.alive /\ context'.enqueued /\ context'.loaded = context.loaded
        /\ context'.processing = context.processing - 1
    BY <1>4, <1>7, ReceivedContext
  <1>10. /\ context'.processing = Len(adding') + Len(posted') + Len(batch')
         /\ context'.processing <= MaxProcessing
    <2>1. Len(adding') = Len(adding) /\ Len(posted') = Len(posted)
      BY <1>1, <1>4
    <2> QED
      BY <1>5, <1>8, <1>9, <2>1
  <1>11. Single(events', "handle")
    <2>1. context.enqueued => events' = events
      BY <1>4, ReceivedContext
    <2>2. ~context.enqueued => ~Has(events, "handle")
      BY DEF Calm
    <2>3. Single(events, "handle")
      BY DEF Calm
    <2> QED
      BY <1>4, <2>1, <2>2, <2>3, ReceivedContext
  <1>12. \A t : Has(events', t) /\ t # "handle" => Has(events, t)
    BY <1>4, ReceivedContext
  <1> QED
    BY <1>1, <1>2, <1>4, <1>6, <1>7, <1>9, <1>10, <1>11, <1>12 DEF Calm

LEMMA RestCalm ==
    ASSUME Types, Control, Calm,
           \/ PerformStorageJob \/ (\E i \in DOMAIN restored : RemoveRestored(i))
           \/ ProgramExit \/ ProgramCrash \/ (\E type \in Storage : PrepareStartup(type))
    PROVE  Calm'
  <1> USE DEF diskVars, startVars, loadVars, nativeVars, userVars
  <1>0. \A t : ~Has(<<>>, t) /\ Single(<<>>, t)
    BY DEF Has, Single
  <1>1. CASE PerformStorageJob
    BY <1>1 DEF PerformStorageJob, Calm, NotLoading
  <1>2. CASE \E i \in DOMAIN restored : RemoveRestored(i)
    BY <1>2 DEF RemoveRestored, Calm, NotLoading
  <1>3. CASE ProgramExit \/ ProgramCrash
    <2>1. ProcessEnds
      BY <1>3 DEF ProgramExit, ProgramCrash
    <2>2. ~NoContext.alive /\ NoContext.processing = 0 /\ 0 <= MaxProcessing
      BY StartupAssumption DEF NoContext
    <2>3. AllAdded(posted') /\ AllAdded(batch')
      BY <2>1 DEF ProcessEnds, AllAdded
    <2> QED
      BY <1>0, <2>1, <2>2, <2>3 DEF ProcessEnds, Calm
  <1>4. ASSUME NEW type \in Storage, PrepareStartup(type)
        PROVE  Calm'
    <2>1. /\ phase = "off" /\ phase' = "startup"
          /\ context' = [NoContext EXCEPT !.alive = TRUE]
          /\ UNCHANGED <<stored, jobs, loadedData, events, handling, nativeVars, incident, userVars>>
      BY <1>4 DEF PrepareStartup
    <2>2. context'.processing = 0 /\ 0 <= MaxProcessing
      BY <2>1, StartupAssumption DEF NoContext
    <2>3. /\ events' = <<>> /\ handling' = "none" /\ adding' = <<>> /\ posted' = <<>> /\ batch' = <<>>
      BY <2>1 DEF Control, AtRest
    <2>4. /\ Len(adding') = 0 /\ Len(posted') = 0 /\ Len(batch') = 0
          /\ AllAdded(posted') /\ AllAdded(batch')
      BY <2>3 DEF AllAdded
    <2>5. /\ context'.processing = Len(adding') + Len(posted') + Len(batch')
          /\ context'.processing <= MaxProcessing
      BY <2>2, <2>4
    <2>6. ~Has(events', "handle") /\ Single(events', "handle")
          /\ ~Has(events', "delete context") /\ ~Has(events', "delete storage")
      BY <1>0, <2>3
    <2> QED
      BY <2>1, <2>3, <2>4, <2>5, <2>6 DEF Calm
  <1> QED
    BY <1>1, <1>2, <1>3, <1>4

LEMMA NextCalm ==
    ASSUME Types, Control, Calm, [StartupNext]_startupVars
    PROVE  Calm'
  <1>1. CASE UNCHANGED startupVars
    BY <1>1 DEF startupVars, diskVars, startVars, loadVars, nativeVars, userVars, Calm, NotLoading
  <1>2. CASE StartupNext
    BY <1>2, LoaderCalm, MainCalm, AddNativeCalm, AlertCalm, RestCalm DEF StartupNext
  <1> QED
    BY <1>1, <1>2

\* The number of add_torrent alerts in a sequence of them is its length.
LEMMA AnswersOfAdded ==
    ASSUME NEW alerts \in Seq(Alert), AllAdded(alerts)
    PROVE  Cardinality(Answers(alerts)) = Len(alerts)
  <1>1. Len(alerts) \in Nat /\ DOMAIN alerts = 1..Len(alerts)
    BY LenProperties
  <1>2. Answers(alerts) = 1..Len(alerts)
    BY <1>1 DEF Answers, AllAdded
  <1>3. Cardinality(1..Len(alerts)) = Len(alerts)
    BY <1>1, FS_Interval
  <1> QED
    BY <1>2, <1>3

StartInv == Types /\ Control /\ Calm

\* Types, and the course of every start.
THEOREM StartupInvariant == StartupSpec => []StartInv
  <1>1. StartupInit => StartInv
    BY InitTypes, InitControl DEF StartInv
  <1>2. StartInv /\ [StartupNext]_startupVars => StartInv'
    BY NextTypes, NextControl, NextCalm DEF StartInv
  <1> QED
    BY <1>1, <1>2, PTL DEF StartupSpec

\* handleLoadedResumeData ends the startup when processingResumeDataCount is zero
\* and nothing is left to load.  The count is that of the torrents libtorrent has
\* been given and readAlerts has not answered for, at any time, and within
\* MAX_PROCESSING_RESUMEDATA_COUNT, as long as no torrent is reloaded.
THEOREM OutstandingCounted == StartupSpec => []ProcessingIsOutstanding
  <1>1. StartInv => ProcessingIsOutstanding
    BY AnswersOfAdded DEF StartInv, Types, Calm, ProcessingIsOutstanding
  <1> QED
    BY <1>1, StartupInvariant, PTL

\* The queued calls of handleLoadedResumeData use the context by a plain pointer:
\* EndStartup queues its deletion only when no call is queued, and none is queued
\* after that, as long as no torrent is reloaded.
THEOREM NoCallAfterContext == StartupSpec => []ContextOutlivesCalls
  <1>1. StartInv => ContextOutlivesCalls
    BY DEF StartInv, Calm, ContextOutlivesCalls
  <1> QED
    BY <1>1, StartupInvariant, PTL

-----------------------------------------------------------------------------
(* The rows of a hybrid torrent are known to be of it, and make one torrent. *)

Waiting == context.loaded \o loadedData

StoredHashes(st) ==
    {h \in InfoHash : \E s \in Storage : \E id \in DOMAIN st[s] :
                        st[s][id].readable /\ st[s][id].hashes = h}
JobHashes(js) == {h \in InfoHash : \E i \in DOMAIN js : js[i].op = "store" /\ js[i].row.hashes = h}
LoadedHashes(w) == {h \in InfoHash : \E i \in DOMAIN w : w[i].row.readable /\ w[i].row.hashes = h}
RowHashes(rows) == {h \in InfoHash : \E i \in DOMAIN rows : rows[i].hashes = h}
NativeHashes(nat) == {h \in InfoHash : \E i \in DOMAIN nat : nat[i].row.hashes = h}

UsedHashes == RowHashes(adding) \cup NativeHashes(natives)
KnownHashes ==
    StoredHashes(stored) \cup JobHashes(jobs) \cup LoadedHashes(Waiting) \cup UsedHashes

KeyedRows(st) == \A s \in Storage : \A id \in DOMAIN st[s] : id \in st[s][id].hashes
KeyedJobs(js) == \A i \in DOMAIN js : js[i].op = "store" => js[i].id \in js[i].row.hashes
KeyedLoaded(w) == \A i \in DOMAIN w : w[i].id \in w[i].row.hashes

\* All rows of one content know both of its hashes, or none does, and every row
\* is stored under one of its hashes.
Alike ==
    /\ \A a, b \in KnownHashes : ContentOf(a) = ContentOf(b) => (IsHybrid(a) <=> IsHybrid(b))
    /\ KeyedRows(stored) /\ KeyedJobs(jobs) /\ KeyedLoaded(Waiting)

PendingIDs(todo, w) ==
    {id \in ID : (\E i \in DOMAIN todo : todo[i] = id) \/ (\E i \in DOMAIN w : w[i].id = id)}
Distinct(todo, w) ==
    /\ \A i, j \in DOMAIN todo : todo[i] = todo[j] => i = j
    /\ \A i, j \in DOMAIN w : w[i].id = w[j].id => i = j
    /\ \A i \in DOMAIN todo, j \in DOMAIN w : todo[i] # w[j].id
Pending == PendingIDs(loading.todo, Waiting)

\* An ID that waits was loaded once; when it is not to be passed over, no torrent
\* with this hash was added; and the startup knows that it is stored.
Unused ==
    /\ Distinct(loading.todo, Waiting)
    /\ context.alive =>
        /\ \A id \in Pending \ context.skipped, u \in UsedHashes : id \notin u
        /\ ~Unstarted => Pending \subseteq context.indexed
        /\ \A i \in DOMAIN events : events[i].type = "started" => Pending \subseteq events[i].ids

\* No two torrents that are added have a hash in common.
ApartRows(ad, nat) ==
    /\ \A i \in DOMAIN ad, h \in DOMAIN nat : ad[i].hashes \cap nat[h].row.hashes = {}
    /\ \A i, j \in DOMAIN ad : i # j => ad[i].hashes \cap ad[j].hashes = {}

\* The handles of the torrents, and of those that are to be made.
DistinctHandles(p, b, r) ==
    /\ \A i, j \in Answers(p) : p[i].handle = p[j].handle => i = j
    /\ \A i, j \in Answers(b) : b[i].handle = b[j].handle => i = j
    /\ \A i, j \in DOMAIN r : r[i].handle = r[j].handle => i = j
    /\ \A i \in Answers(p), j \in Answers(b) : p[i].handle # b[j].handle
    /\ \A i \in Answers(p), j \in DOMAIN r : p[i].handle # r[j].handle
    /\ \A i \in Answers(b), j \in DOMAIN r : b[i].handle # r[j].handle

Handles == DistinctHandles(posted, batch, restored)

OneTorrent ==
    Alike /\ Unused /\ ApartRows(adding, natives) /\ Handles

\* What waits for the main thread.
LEMMA WaitingType == Types => Waiting \in Seq(Loaded) /\ loading.todo \in Seq(ID)
  BY ConcatProperties DEF Waiting, Types, SessionContext, Loading

LEMMA TakeWaiting ==
    ASSUME Types, Available # <<>>, context'.loaded = Tail(Available),
           loadedData' = IF context.loaded = <<>> THEN <<>> ELSE loadedData
    PROVE  /\ Waiting # <<>> /\ Head(Waiting) = Head(Available) /\ Waiting' = Tail(Waiting)
  <1> DEFINE a == context.loaded
             b == loadedData
  <1>1. a \in Seq(Loaded) /\ b \in Seq(Loaded)
    BY DEF Types, SessionContext
  <1>2. Waiting = a \o b /\ Waiting' = context'.loaded \o loadedData'
    BY DEF Waiting
  <1>3. CASE a = <<>>
    <2>1. Available = b /\ loadedData' = <<>>
      BY <1>3 DEF Available
    <2>2. Waiting = b
      BY <1>1, <1>2, <1>3, ConcatEmptySeq
    <2>3. Tail(b) \in Seq(Loaded)
      BY <1>1, <2>1, TailElements
    <2>4. Waiting' = Tail(b)
      BY <1>2, <2>1, <2>3, ConcatEmptySeq
    <2> QED
      BY <2>1, <2>2, <2>4
  <1>4. CASE a # <<>>
    <2> DEFINE w == a \o b
    <2>1. Available = a /\ loadedData' = b
      BY <1>4 DEF Available
    <2>2. /\ Head(a) = a[1] /\ 1 \in DOMAIN a /\ Tail(a) \in Seq(Loaded)
          /\ Len(a) \in Nat /\ Len(a) > 0 /\ Len(Tail(a)) = Len(a) - 1
          /\ DOMAIN a = 1..Len(a)
          /\ \A i \in 1 .. Len(a) - 1 : Tail(a)[i] = a[i + 1]
      BY <1>1, <1>4, TailElements
    <2>3. /\ w \in Seq(Loaded) /\ Len(b) \in Nat /\ Len(w) = Len(a) + Len(b)
          /\ \A i \in 1 .. Len(a) + Len(b) : w[i] = IF i <= Len(a) THEN a[i] ELSE b[i - Len(a)]
      BY <1>1, <2>2, ConcatProperties, LenProperties
    <2>4. w # <<>> /\ w[1] = a[1] /\ Head(w) = w[1] /\ Tail(w) \in Seq(Loaded)
          /\ Len(Tail(w)) = Len(a) + Len(b) - 1
          /\ \A i \in 1 .. Len(a) + Len(b) - 1 : Tail(w)[i] = w[i + 1]
      <3> HIDE DEF w
      <3>1. w # <<>>
        BY <2>2, <2>3, EmptySeq
      <3>2. Head(w) = w[1] /\ Tail(w) \in Seq(Loaded) /\ Len(Tail(w)) = Len(w) - 1
            /\ DOMAIN Tail(w) = 1 .. Len(w) - 1
            /\ \A i \in DOMAIN Tail(w) : Tail(w)[i] = w[i + 1]
        BY <2>3, <3>1, TailElements
      <3> QED
        BY <2>2, <2>3, <3>1, <3>2
    <2> DEFINE t == Tail(a)
               v == Tail(w)
               x == t \o b
    <2>5. /\ x \in Seq(Loaded) /\ Len(x) = Len(a) - 1 + Len(b)
          /\ \A i \in 1 .. Len(a) - 1 + Len(b) :
                x[i] = IF i <= Len(a) - 1 THEN t[i] ELSE b[i - (Len(a) - 1)]
      <3> HIDE DEF t
      <3>1. t \in Seq(Loaded) /\ Len(t) = Len(a) - 1
        BY <2>2 DEF t
      <3> QED
        <4>1. /\ x \in Seq(Loaded) /\ Len(x) = Len(t) + Len(b)
              /\ \A i \in 1 .. Len(t) + Len(b) :
                    x[i] = IF i <= Len(t) THEN t[i] ELSE b[i - Len(t)]
          <5> HIDE DEF b
          <5>1. b \in Seq(Loaded)
            BY <1>1
          <5> QED
            BY <3>1, <5>1, ConcatProperties
        <4> HIDE DEF x
        <4> QED
          BY <3>1, <4>1
    <2> HIDE DEF w, v, x, t
    <2>6. \A i \in 1 .. Len(a) - 1 + Len(b) : x[i] = v[i]
      <3> SUFFICES ASSUME NEW i \in 1 .. Len(a) - 1 + Len(b) PROVE x[i] = v[i]
        OBVIOUS
      <3>1. i + 1 \in 1 .. Len(a) + Len(b) /\ i \in 1 .. Len(a) + Len(b) - 1
        BY <2>2, <2>3
      <3>2. v[i] = IF i + 1 <= Len(a) THEN a[i + 1] ELSE b[(i + 1) - Len(a)]
        BY <2>3, <2>4, <3>1 DEF v
      <3>3. CASE i + 1 <= Len(a)
        <4>1. i \in 1 .. Len(a) - 1 /\ i <= Len(a) - 1
          BY <2>2, <2>3, <3>3
        <4> QED
          BY <2>2, <2>5, <3>2, <3>3, <4>1 DEF t
      <3>4. CASE ~(i + 1 <= Len(a))
        <4>1. ~(i <= Len(a) - 1) /\ i - (Len(a) - 1) = (i + 1) - Len(a)
          BY <2>2, <2>3, <3>4
        <4> QED
          BY <2>5, <3>2, <3>4, <4>1
      <3> QED
        BY <3>3, <3>4
    <2>7. x = v
      <3>1. v \in Seq(Loaded) /\ Len(v) = Len(a) + Len(b) - 1
            /\ Len(a) + Len(b) - 1 = Len(a) - 1 + Len(b)
        BY <2>2, <2>3, <2>4 DEF v
      <3> QED
        BY <2>5, <2>6, <3>1, SeqEqual
    <2> QED
      BY <1>2, <2>1, <2>2, <2>4, <2>7 DEF w, v, x, t
  <1> QED
    BY <1>3, <1>4

LEMMA LoadWaiting ==
    ASSUME Types, NEW x \in Loaded, loadedData' = Append(loadedData, x),
           context'.loaded = context.loaded
    PROVE  Waiting' = Append(Waiting, x)
  <1> DEFINE a == context.loaded
             b == loadedData
  <1>1. a \in Seq(Loaded) /\ b \in Seq(Loaded) /\ <<x>> \in Seq(Loaded)
    BY DEF Types, SessionContext
  <1>2. Append(b, x) = b \o <<x>> /\ a \o b \in Seq(Loaded)
    BY <1>1, AppendIsConcat, ConcatProperties
  <1>3. Append(a \o b, x) = (a \o b) \o <<x>>
    BY <1>2, AppendIsConcat
  <1>4. (a \o b) \o <<x>> = a \o (b \o <<x>>)
    <2> DEFINE y == <<x>>
    <2>1. y \in Seq(Loaded)
      BY <1>1
    <2> HIDE DEF y, a, b
    <2>2. (a \o b) \o y = a \o (b \o y)
      BY <1>1, <2>1, ConcatAssociative
    <2> QED
      BY <2>2 DEF y
  <1> QED
    BY <1>2, <1>3, <1>4 DEF Waiting

\* What was taken is not known besides, and what was not is known still.
LEMMA TakenLoaded ==
    ASSUME NEW w \in Seq(Loaded), w # <<>>
    PROVE  /\ LoadedHashes(Tail(w)) \subseteq LoadedHashes(w)
           /\ KeyedLoaded(w) => KeyedLoaded(Tail(w)) /\ Head(w).id \in Head(w).row.hashes
           /\ Head(w).row.readable => Head(w).row.hashes \in LoadedHashes(w)
           /\ \A todo : /\ PendingIDs(todo, Tail(w)) \subseteq PendingIDs(todo, w)
                        /\ Head(w).id \in PendingIDs(todo, w)
                        /\ Distinct(todo, w) => /\ Distinct(todo, Tail(w))
                                                /\ Head(w).id \notin PendingIDs(todo, Tail(w))
  <1>1. /\ Head(w) \in Loaded /\ Head(w) = w[1] /\ 1 \in DOMAIN w
        /\ Len(w) \in Nat /\ DOMAIN w = 1..Len(w) /\ DOMAIN Tail(w) = 1 .. Len(w) - 1
        /\ \A i \in DOMAIN Tail(w) : i + 1 \in DOMAIN w /\ Tail(w)[i] = w[i + 1]
    BY TailElements
  <1> DEFINE t == Tail(w)
  <1> HIDE DEF t
  <1>2. \A i \in DOMAIN t : i \in Nat /\ i + 1 \in DOMAIN w /\ t[i] = w[i + 1] /\ i + 1 # 1
    BY <1>1 DEF t
  <1>3. LoadedHashes(t) \subseteq LoadedHashes(w)
    BY <1>2 DEF LoadedHashes
  <1>4. KeyedLoaded(w) => KeyedLoaded(t) /\ Head(w).id \in Head(w).row.hashes
    BY <1>1, <1>2 DEF KeyedLoaded
  <1>5. Head(w).row.readable => Head(w).row.hashes \in LoadedHashes(w)
    BY <1>1 DEF LoadedHashes, Loaded, Row
  <1>6. ASSUME NEW todo
        PROVE  /\ PendingIDs(todo, t) \subseteq PendingIDs(todo, w)
               /\ Head(w).id \in PendingIDs(todo, w)
               /\ Distinct(todo, w) => /\ Distinct(todo, t)
                                       /\ Head(w).id \notin PendingIDs(todo, t)
    <2>1. PendingIDs(todo, t) \subseteq PendingIDs(todo, w)
      BY <1>2 DEF PendingIDs
    <2>2. Head(w).id \in PendingIDs(todo, w)
      BY <1>1 DEF PendingIDs, Loaded
    <2>3. ASSUME Distinct(todo, w) PROVE Distinct(todo, t)
      <3>1. \A i, j \in DOMAIN t : t[i].id = t[j].id => i = j
        <4> SUFFICES ASSUME NEW i \in DOMAIN t, NEW j \in DOMAIN t, t[i].id = t[j].id
                     PROVE  i = j
          OBVIOUS
        <4>1. i + 1 = j + 1
          BY <1>2, <2>3 DEF Distinct
        <4> QED
          BY <1>2, <4>1
      <3> QED
        BY <1>2, <2>3, <3>1 DEF Distinct
    <2>4. ASSUME Distinct(todo, w) PROVE Head(w).id \notin PendingIDs(todo, t)
      BY <1>1, <1>2, <2>4 DEF Distinct, PendingIDs
    <2> QED
      BY <2>1, <2>2, <2>3, <2>4
  <1> QED
    BY <1>3, <1>4, <1>5, <1>6 DEF t

\* The next row is loaded.
LEMMA AddedLoaded ==
    ASSUME NEW w \in Seq(Loaded), NEW todo \in Seq(ID), todo # <<>>,
           NEW x \in Loaded, x.id = Head(todo)
    PROVE  /\ PendingIDs(Tail(todo), Append(w, x)) = PendingIDs(todo, w)
           /\ Distinct(todo, w) => Distinct(Tail(todo), Append(w, x))
           /\ LoadedHashes(Append(w, x)) \subseteq
                 LoadedHashes(w) \cup (IF x.row.readable THEN {x.row.hashes} ELSE {})
           /\ KeyedLoaded(w) /\ x.id \in x.row.hashes => KeyedLoaded(Append(w, x))
  <1> DEFINE t == Tail(todo)
             a == Append(w, x)
             n == Len(w) + 1
  <1>1. /\ DOMAIN w \subseteq DOMAIN a /\ n \in DOMAIN a /\ n \notin DOMAIN w
        /\ \A i \in DOMAIN w : a[i] = w[i]
        /\ a[n] = x
        /\ \A i \in DOMAIN a : i \in DOMAIN w \/ i = n
    <2>1. /\ Len(w) \in Nat /\ DOMAIN w = 1..Len(w) /\ DOMAIN a = 1..n
          /\ \A i \in DOMAIN w : a[i] = w[i]
          /\ a[n] = x
      BY AppendElements
    <2> HIDE DEF a
    <2> QED
      BY <2>1
  <1>2. /\ Head(todo) = todo[1] /\ 1 \in DOMAIN todo /\ Head(todo) \in ID
        /\ \A i \in DOMAIN t : i \in Nat /\ i + 1 \in DOMAIN todo /\ t[i] = todo[i + 1] /\ i + 1 # 1
        /\ \A i \in DOMAIN todo : i # 1 => i - 1 \in DOMAIN t /\ t[i - 1] = todo[i]
    <2>1. /\ Head(todo) = todo[1] /\ 1 \in DOMAIN todo /\ Head(todo) \in ID
          /\ Len(todo) \in Nat /\ DOMAIN t = 1 .. Len(todo) - 1
          /\ \A i \in DOMAIN t : i + 1 \in DOMAIN todo /\ t[i] = todo[i + 1]
          /\ \A i \in DOMAIN todo : i # 1 => i - 1 \in DOMAIN t /\ t[i - 1] = todo[i]
      BY TailElements
    <2> HIDE DEF t
    <2> QED
      BY <2>1
  <1> HIDE DEF t, a, n
  <1>3. PendingIDs(t, a) \subseteq PendingIDs(todo, w)
    <2> SUFFICES ASSUME NEW id \in PendingIDs(t, a) PROVE id \in PendingIDs(todo, w)
      OBVIOUS
    <2>1. CASE \E i \in DOMAIN t : t[i] = id
      BY <1>2, <2>1 DEF PendingIDs
    <2>2. CASE \E i \in DOMAIN a : a[i].id = id
      BY <1>1, <1>2, <2>2 DEF PendingIDs
    <2> QED
      BY <2>1, <2>2 DEF PendingIDs
  <1>4. PendingIDs(todo, w) \subseteq PendingIDs(t, a)
    <2> SUFFICES ASSUME NEW id \in PendingIDs(todo, w) PROVE id \in PendingIDs(t, a)
      OBVIOUS
    <2>1. ASSUME NEW i \in DOMAIN todo, todo[i] = id PROVE id \in PendingIDs(t, a)
      <3>1. CASE i = 1
        BY <1>1, <1>2, <2>1, <3>1 DEF PendingIDs
      <3>2. CASE i # 1
        BY <1>2, <2>1, <3>2 DEF PendingIDs
      <3> QED
        BY <3>1, <3>2
    <2>2. CASE \E i \in DOMAIN w : w[i].id = id
      BY <1>1, <2>2 DEF PendingIDs
    <2> QED
      BY <2>1, <2>2 DEF PendingIDs
  <1>5. ASSUME Distinct(todo, w) PROVE Distinct(t, a)
    <2>1. \A i, j \in DOMAIN t : t[i] = t[j] => i = j
      <3> SUFFICES ASSUME NEW i \in DOMAIN t, NEW j \in DOMAIN t, t[i] = t[j]
                   PROVE  i = j
        OBVIOUS
      <3>1. i + 1 = j + 1
        BY <1>2, <1>5 DEF Distinct
      <3> QED
        BY <1>2, <3>1
    <2>2. \A i, j \in DOMAIN a : a[i].id = a[j].id => i = j
      <3>1. \A i \in DOMAIN w : w[i].id # x.id
        BY <1>2, <1>5 DEF Distinct
      <3> QED
        BY <1>1, <1>5, <3>1 DEF Distinct
    <2>3. \A i \in DOMAIN t, j \in DOMAIN a : t[i] # a[j].id
      <3> SUFFICES ASSUME NEW i \in DOMAIN t, NEW j \in DOMAIN a, t[i] = a[j].id PROVE FALSE
        OBVIOUS
      <3>1. CASE j \in DOMAIN w
        BY <1>1, <1>2, <1>5, <3>1 DEF Distinct
      <3>2. CASE j = n
        <4>1. todo[i + 1] = todo[1] /\ i + 1 \in DOMAIN todo /\ i + 1 # 1
          BY <1>1, <1>2, <3>2
        <4> QED
          BY <1>2, <1>5, <4>1 DEF Distinct
      <3> QED
        BY <1>1, <3>1, <3>2
    <2> QED
      BY <2>1, <2>2, <2>3 DEF Distinct
  <1>6. LoadedHashes(a) \subseteq
            LoadedHashes(w) \cup (IF x.row.readable THEN {x.row.hashes} ELSE {})
    BY <1>1 DEF LoadedHashes
  <1>7. KeyedLoaded(w) /\ x.id \in x.row.hashes => KeyedLoaded(a)
    BY <1>1 DEF KeyedLoaded
  <1> QED
    BY <1>3, <1>4, <1>5, <1>6, <1>7 DEF t, a

\* The torrents that libtorrent is to add.
LEMMA AddingHashes ==
    ASSUME NEW ad \in Seq(Row)
    PROVE  /\ ad # <<>> => /\ RowHashes(Tail(ad)) \subseteq RowHashes(ad)
                           /\ Head(ad).hashes \in RowHashes(ad)
           /\ \A x \in Row : RowHashes(Append(ad, x)) \subseteq RowHashes(ad) \cup {x.hashes}
           /\ \A nat : ApartRows(ad, nat) =>
                /\ ad # <<>> => ApartRows(Tail(ad), nat)
                /\ \A x \in Row :
                     (\A u \in RowHashes(ad) \cup NativeHashes(nat) : x.hashes \cap u = {})
                     /\ (\A h \in DOMAIN nat : nat[h].row.hashes \in NativeHashes(nat))
                       => ApartRows(Append(ad, x), nat)
  <1>1. \A i \in DOMAIN ad : ad[i] \in Row /\ ad[i].hashes \in RowHashes(ad)
    <2>1. \A i \in DOMAIN ad : ad[i] \in Row
      BY LenProperties, ElementOfSeq
    <2> QED
      BY <2>1 DEF RowHashes, Row
  <1>2. ASSUME ad # <<>>
        PROVE  /\ RowHashes(Tail(ad)) \subseteq RowHashes(ad) /\ Head(ad).hashes \in RowHashes(ad)
               /\ \A nat : ApartRows(ad, nat) => ApartRows(Tail(ad), nat)
    <2> DEFINE t == Tail(ad)
    <2>1. /\ Head(ad) = ad[1] /\ 1 \in DOMAIN ad
          /\ \A i \in DOMAIN t : i \in Nat /\ i + 1 \in DOMAIN ad /\ t[i] = ad[i + 1]
      BY <1>2, TailElements
    <2> HIDE DEF t
    <2>2. RowHashes(t) \subseteq RowHashes(ad)
      BY <2>1 DEF RowHashes
    <2>3. ASSUME NEW nat, ApartRows(ad, nat) PROVE ApartRows(t, nat)
      <3>1. \A i \in DOMAIN t, h \in DOMAIN nat : t[i].hashes \cap nat[h].row.hashes = {}
        BY <2>1, <2>3 DEF ApartRows
      <3>2. ASSUME NEW i \in DOMAIN t, NEW j \in DOMAIN t, i # j
            PROVE  t[i].hashes \cap t[j].hashes = {}
        <4>1. i + 1 # j + 1
          BY <2>1, <3>2
        <4> QED
          BY <2>1, <2>3, <4>1 DEF ApartRows
      <3> QED
        BY <3>1, <3>2 DEF ApartRows
    <2> QED
      BY <1>1, <2>1, <2>2, <2>3 DEF t
  <1>3. ASSUME NEW x \in Row
        PROVE  /\ RowHashes(Append(ad, x)) \subseteq RowHashes(ad) \cup {x.hashes}
               /\ \A nat : /\ ApartRows(ad, nat)
                           /\ \A u \in RowHashes(ad) \cup NativeHashes(nat) : x.hashes \cap u = {}
                           /\ \A h \in DOMAIN nat : nat[h].row.hashes \in NativeHashes(nat)
                           => ApartRows(Append(ad, x), nat)
    <2> DEFINE a == Append(ad, x)
               n == Len(ad) + 1
    <2>1. /\ \A i \in DOMAIN ad : a[i] = ad[i]
          /\ a[n] = x
          /\ \A i \in DOMAIN a : i \in DOMAIN ad \/ i = n
      <3>1. /\ Len(ad) \in Nat /\ DOMAIN ad = 1..Len(ad) /\ DOMAIN a = 1..n
            /\ \A i \in DOMAIN ad : a[i] = ad[i]
            /\ a[n] = x
        BY AppendElements
      <3> HIDE DEF a
      <3> QED
        BY <3>1
    <2> HIDE DEF a, n
    <2>2. RowHashes(a) \subseteq RowHashes(ad) \cup {x.hashes}
      BY <2>1 DEF RowHashes
    <2>3. ASSUME NEW nat, ApartRows(ad, nat),
                 \A u \in RowHashes(ad) \cup NativeHashes(nat) : x.hashes \cap u = {},
                 \A h \in DOMAIN nat : nat[h].row.hashes \in NativeHashes(nat)
          PROVE  ApartRows(a, nat)
      <3>1. ASSUME NEW i \in DOMAIN a, NEW h \in DOMAIN nat
            PROVE  a[i].hashes \cap nat[h].row.hashes = {}
        BY <2>1, <2>3 DEF ApartRows
      <3>2. ASSUME NEW i \in DOMAIN a, NEW j \in DOMAIN a, i # j
            PROVE  a[i].hashes \cap a[j].hashes = {}
        <4>1. CASE i \in DOMAIN ad /\ j \in DOMAIN ad
          BY <2>1, <2>3, <3>2, <4>1 DEF ApartRows
        <4>2. CASE i \in DOMAIN ad /\ j = n
          BY <1>1, <2>1, <2>3, <4>2
        <4>3. CASE i = n /\ j \in DOMAIN ad
          BY <1>1, <2>1, <2>3, <4>3
        <4> QED
          BY <2>1, <3>2, <4>1, <4>2, <4>3
      <3> QED
        BY <3>1, <3>2 DEF ApartRows
    <2> QED
      BY <2>2, <2>3 DEF a
  <1> QED
    BY <1>2, <1>3

\* A row that can be loaded is stored, under one of its hashes.
LEMMA LoadStored ==
    ASSUME Types, KeyedRows(stored), NEW id \in ID
    PROVE  /\ Load(id) \in Row /\ id \in Load(id).hashes /\ ContentOf(Load(id).hashes) = id[1]
           /\ Load(id).readable => Load(id).hashes \in StoredHashes(stored)
  <1>1. Load(id) \in Row
    BY LoadType DEF Types
  <1>2. CASE id \in DOMAIN stored[startupStorage]
    <2>1. Load(id) = stored[startupStorage][id] /\ startupStorage \in Storage
      BY <1>2 DEF Load, Types
    <2>2. id \in Load(id).hashes
      BY <1>2, <2>1 DEF KeyedRows
    <2>3. Load(id).hashes \in InfoHash
      BY <1>1 DEF Row
    <2>4. Load(id).readable => Load(id).hashes \in StoredHashes(stored)
      BY <1>2, <2>1, <2>3 DEF StoredHashes
    <2> QED
      BY <1>1, <2>2, <2>3, <2>4, HashesKnown
  <1>3. CASE id \notin DOMAIN stored[startupStorage]
    <2>1. Load(id) = Unreadable(id)
      BY <1>3 DEF Load
    <2>2. id \in Load(id).hashes /\ Load(id).readable = FALSE
      BY <2>1, UnreadableType
    <2>3. Load(id).hashes \in InfoHash
      BY <1>1 DEF Row
    <2> QED
      BY <1>1, <2>2, <2>3, HashesKnown
  <1> QED
    BY <1>2, <1>3

\* Whichever row a hybrid torrent is restored from, it has the hashes of the one
\* that is processed, and the other row is passed over.
LEMMA SameHashes ==
    ASSUME Types, Alike, NEW id \in ID, NEW row \in Row, row.readable, id \in row.hashes,
           row.hashes \in KnownHashes
    PROVE  /\ Used(id, row) \in Row /\ Used(id, row).hashes = row.hashes
           /\ \A other \in row.hashes :
                other # id /\ other \in context.indexed => other \in Skips(id, row)
           /\ Skips(id, row) \subseteq row.hashes
           /\ ToTorrentID(row.hashes) \in row.hashes
           /\ Old(id, row) => V1(row.hashes) \in row.hashes
  <1> DEFINE h == row.hashes
             a == V1(h)
             b == V2(h)
  <1>1. /\ h \in InfoHash /\ h \subseteq ID
        /\ ToTorrentID(h) \in h
        /\ IsHybrid(h) <=> a \in h /\ b \in h
        /\ IsHybrid(h) => h = AllHashes(ContentOf(h)) /\ h = {a, b}
        /\ ~IsHybrid(h) => \A i, j \in h : i = j
        /\ \A i \in h : i[1] = ContentOf(h)
    <2>1. h \in InfoHash
      BY DEF Row
    <2> HIDE DEF h
    <2> QED
      BY <2>1, HashesKnown
  <1>2. IsHybrid(h) => ToTorrentID(h) = b
    BY <1>1 DEF ToTorrentID
  <1>3. a # b
    BY DEF V1, V2
  <1>4. Used(id, row) \in Row
    BY UsedType DEF Types
  <1>5. Old(id, row) => IsHybrid(h) /\ id = a
    BY <1>1, <1>2 DEF Old
  <1>6. ~Old(id, row) => id = ToTorrentID(h)
    BY DEF Old
  <1>7. HasAlternative(id, row) => IsHybrid(h)
    BY DEF HasAlternative
  <1> HIDE DEF a, b, h
  <1>8. Used(id, row).hashes = h
    <2>1. CASE HasAlternative(id, row)
      <3>1. a \in ID
        BY <1>1, <1>7, <2>1
      <3>2. Used(id, row) = WithMetadata(row, Load(a)) /\ Load(a) \in Row
        BY <2>1, <3>1, LoadType DEF Used, Types, a, h
      <3>3. Used(id, row).hashes \in {h, AllHashes(ContentOf(h))}
        BY <3>2, WithMetadataType DEF h
      <3> QED
        BY <1>1, <1>7, <2>1, <3>3
    <2>2. CASE HasPreferred(id, row) /\ Load(b).readable /\ ~HasAlternative(id, row)
      <3>1. IsHybrid(h) /\ b \in ID /\ b \in h
        BY <1>1, <1>5, <2>2 DEF HasPreferred
      <3> DEFINE r == Load(b)
      <3>2. /\ r \in Row /\ ContentOf(r.hashes) = b[1] /\ r.hashes \in StoredHashes(stored)
        BY <2>2, <3>1, LoadStored DEF Alike
      <3>3. Used(id, row) = WithMetadata(r, row)
        BY <2>2 DEF Used, b, h
      <3>4. b[1] = ContentOf(h)
        BY <1>1, <3>1
      <3> HIDE DEF r
      <3>5. r.hashes \in KnownHashes /\ h \in KnownHashes
        BY <3>2 DEF KnownHashes, h
      <3>6. IsHybrid(r.hashes) /\ r.hashes \in InfoHash
        BY <3>1, <3>2, <3>4, <3>5 DEF Alike, Row
      <3>7. r.hashes = AllHashes(ContentOf(h))
        BY <3>2, <3>4, <3>6, HashesKnown
      <3>8. Used(id, row).hashes \in {r.hashes, AllHashes(ContentOf(r.hashes))}
        BY <3>2, <3>3, WithMetadataType
      <3> QED
        BY <1>1, <3>1, <3>2, <3>4, <3>7, <3>8
    <2>3. CASE ~HasAlternative(id, row) /\ ~(HasPreferred(id, row) /\ Load(b).readable)
      BY <2>3 DEF Used, b, h
    <2> QED
      BY <2>1, <2>2, <2>3
  <1>9. ASSUME NEW other \in h, other # id, other \in context.indexed
        PROVE  other \in Skips(id, row)
    <2>1. id \in h
      BY DEF h
    <2>2. IsHybrid(h) /\ h = {a, b}
      BY <1>1, <1>9, <2>1
    <2>3. CASE Old(id, row)
      <3>1. other = b /\ HasPreferred(id, row) /\ ~HasAlternative(id, row)
        BY <1>5, <1>9, <2>2, <2>3 DEF HasPreferred, HasAlternative, b, h
      <3> QED
        BY <3>1 DEF Skips, b, h
    <2>4. CASE ~Old(id, row)
      <3>1. other = a /\ id = b
        BY <1>2, <1>6, <1>9, <2>2, <2>4
      <3>2. HasAlternative(id, row)
        BY <1>9, <2>2, <2>4, <3>1 DEF HasAlternative, a, h
      <3> QED
        BY <3>1, <3>2 DEF Skips, a, h
    <2> QED
      BY <2>3, <2>4
  <1>10. Skips(id, row) \subseteq h
    <2>1. Skips(id, row) = IF HasAlternative(id, row) THEN {a}
                           ELSE IF HasPreferred(id, row) THEN {b} ELSE {}
      BY DEF Skips, a, b, h
    <2>2. HasPreferred(id, row) => IsHybrid(h)
      BY <1>5 DEF HasPreferred
    <2> QED
      BY <1>1, <1>7, <2>1, <2>2
  <1> QED
    BY <1>1, <1>4, <1>5, <1>8, <1>9, <1>10 DEF h, a

\* A row one of whose hashes was not used has none of the hashes that were.
LEMMA FreshHashes ==
    ASSUME Alike, Types, NEW id \in ID, NEW h \in KnownHashes, id \in h,
           \A u \in UsedHashes : id \notin u
    PROVE  \A u \in UsedHashes : h \cap u = {}
  <1> SUFFICES ASSUME NEW u \in UsedHashes, NEW x \in h, x \in u PROVE FALSE
    OBVIOUS
  <1>1. h \in InfoHash /\ u \in InfoHash /\ u \in KnownHashes
    BY DEF KnownHashes, UsedHashes, StoredHashes, JobHashes, LoadedHashes, RowHashes, NativeHashes
  <1>2. ContentOf(h) = ContentOf(u)
    BY <1>1, HashesKnown
  <1>3. IsHybrid(h) <=> IsHybrid(u)
    BY <1>1, <1>2 DEF Alike
  <1>4. IsHybrid(h) => h = u
    BY <1>1, <1>2, <1>3, HashesKnown
  <1>5. ~IsHybrid(h) => x = id
    BY <1>1, HashesKnown
  <1> QED
    BY <1>4, <1>5

\* The jobs of the worker.
LEMMA JobsKnown ==
    ASSUME NEW js \in Seq(Job), KeyedJobs(js)
    PROVE  /\ \A t \in Seq(Job) :
                 /\ JobHashes(js \o t) \subseteq JobHashes(js) \cup JobHashes(t)
                 /\ KeyedJobs(t) => KeyedJobs(js \o t)
           /\ \A x \in Job : x.op = "remove" =>
                 JobHashes(Append(js, x)) \subseteq JobHashes(js) /\ KeyedJobs(Append(js, x))
           /\ js # <<>> =>
                 /\ JobHashes(Tail(js)) \subseteq JobHashes(js) /\ KeyedJobs(Tail(js))
                 /\ Head(js).op = "store" => /\ Head(js).row.hashes \in JobHashes(js)
                                             /\ Head(js).id \in Head(js).row.hashes
  <1>1. ASSUME NEW t \in Seq(Job)
        PROVE  /\ JobHashes(js \o t) \subseteq JobHashes(js) \cup JobHashes(t)
               /\ KeyedJobs(t) => KeyedJobs(js \o t)
    <2> DEFINE r == js \o t
    <2>1. \A i \in DOMAIN r : \/ i \in DOMAIN js /\ r[i] = js[i]
                              \/ i - Len(js) \in DOMAIN t /\ r[i] = t[i - Len(js)]
      BY ConcatElements
    <2> HIDE DEF r
    <2>2. \A i \in DOMAIN r : (\E j \in DOMAIN js : r[i] = js[j]) \/ (\E j \in DOMAIN t : r[i] = t[j])
      BY <2>1
    <2>3. JobHashes(r) \subseteq JobHashes(js) \cup JobHashes(t)
      BY <2>2 DEF JobHashes
    <2>4. KeyedJobs(t) => KeyedJobs(r)
      BY <2>2 DEF KeyedJobs
    <2> QED
      BY <2>3, <2>4 DEF r
  <1>2. ASSUME NEW x \in Job, x.op = "remove"
        PROVE  JobHashes(Append(js, x)) \subseteq JobHashes(js) /\ KeyedJobs(Append(js, x))
    <2> DEFINE r == Append(js, x)
    <2>1. \A i \in DOMAIN r : (i \in DOMAIN js /\ r[i] = js[i]) \/ r[i] = x
      BY AppendedElement
    <2> HIDE DEF r
    <2>2. "remove" # "store"
      OBVIOUS
    <2>3. JobHashes(r) \subseteq JobHashes(js)
      BY <1>2, <2>1, <2>2 DEF JobHashes
    <2>4. KeyedJobs(r)
      BY <1>2, <2>1, <2>2 DEF KeyedJobs
    <2> QED
      BY <2>3, <2>4 DEF r
  <1>3. ASSUME js # <<>>
        PROVE  /\ JobHashes(Tail(js)) \subseteq JobHashes(js) /\ KeyedJobs(Tail(js))
               /\ Head(js).op = "store" => /\ Head(js).row.hashes \in JobHashes(js)
                                           /\ Head(js).id \in Head(js).row.hashes
    <2> DEFINE t == Tail(js)
    <2>1. /\ Head(js) = js[1] /\ 1 \in DOMAIN js /\ Head(js) \in Job
          /\ \A i \in DOMAIN t : i + 1 \in DOMAIN js /\ t[i] = js[i + 1]
      BY <1>3, TailElements
    <2>2. Head(js).row.hashes \in InfoHash
      BY <2>1 DEF Job, Row
    <2> HIDE DEF t
    <2>3. \A i \in DOMAIN t : \E j \in DOMAIN js : t[i] = js[j]
      BY <2>1
    <2>4. JobHashes(t) \subseteq JobHashes(js)
      BY <2>3 DEF JobHashes
    <2>5. KeyedJobs(t)
      BY <2>3 DEF KeyedJobs
    <2> QED
      BY <2>1, <2>2, <2>4, <2>5 DEF t, JobHashes, KeyedJobs
  <1> QED
    BY <1>1, <1>2, <1>3

\* What processNextResumeData stores has the hashes of the row it processes.
LEMMA StorageJobsKnown ==
    ASSUME Types, NEW id \in ID, NEW row \in Row, Used(id, row).hashes = row.hashes
    PROVE  /\ JobHashes(StorageJobs(id, row)) \subseteq {row.hashes}
           /\ KeyedJobs(StorageJobs(id, row))
  <1> DEFINE x == RemoveJob(V1(row.hashes))
             y == StoreJob(ToTorrentID(row.hashes), Used(id, row))
  <1>1. x \in Job /\ y \in Job
    BY UsedType, UnreadableType DEF Types, RemoveJob, StoreJob, Job
  <1>2. x.op = "remove" /\ y.id = ToTorrentID(row.hashes) /\ y.row.hashes = row.hashes
    BY DEF RemoveJob, StoreJob
  <1>3. y.id \in y.row.hashes
    <2>1. row.hashes \in InfoHash
      BY DEF Row
    <2> QED
      BY <1>2, <2>1, HashesKnown
  <1> HIDE DEF x, y
  <1> DEFINE p == IF HasAlternative(id, row) \/ Old(id, row) THEN <<x>> ELSE <<>>
             q == IF Old(id, row) \/ Migrating THEN <<y>> ELSE <<>>
  <1>4. /\ p \in Seq(Job) /\ q \in Seq(Job)
        /\ \A i \in DOMAIN p : p[i] = x
        /\ \A i \in DOMAIN q : q[i] = y
    <2>1. /\ <<x>> \in Seq(Job) /\ <<y>> \in Seq(Job) /\ <<>> \in Seq(Job)
      BY <1>1
    <2>4. DOMAIN <<x>> = {1} /\ DOMAIN <<y>> = {1}
      OBVIOUS
    <2>5. <<x>>[1] = x /\ <<y>>[1] = y
      OBVIOUS
    <2>3. DOMAIN <<>> = {}
      OBVIOUS
    <2>2. (p = <<x>> \/ p = <<>>) /\ (q = <<y>> \/ q = <<>>)
      OBVIOUS
    <2> HIDE DEF p, q
    <2> QED
      BY <2>1, <2>2, <2>3, <2>4, <2>5
  <1>5. StorageJobs(id, row) = p \o q
    BY DEF StorageJobs, x, y
  <1> HIDE DEF p, q
  <1>6. JobHashes(p) = {} /\ KeyedJobs(p)
    BY <1>2, <1>4 DEF JobHashes, KeyedJobs
  <1>7. JobHashes(q) \subseteq {row.hashes} /\ KeyedJobs(q)
    BY <1>2, <1>3, <1>4 DEF JobHashes, KeyedJobs
  <1> QED
    BY <1>4, <1>5, <1>6, <1>7, JobsKnown

\* What the worker stores was known.
Performed(rows, job) == IF job.op = "store" THEN With(rows, job.id, job.row) ELSE Without(rows, job.id)
Written(job) == IF job.op = "store" THEN {job.row.hashes} ELSE {}
Keyed(job) == job.op = "store" => job.id \in job.row.hashes

LEMMA StoredKnown ==
    ASSUME NEW st \in [Storage -> Rows], NEW type \in Storage, KeyedRows(st),
           NEW job \in Job, Keyed(job),
           NEW new, \A s \in Storage : new[s] = IF s = type THEN Performed(st[type], job) ELSE st[s]
    PROVE  StoredHashes(new) \subseteq StoredHashes(st) \cup Written(job) /\ KeyedRows(new)
  <1> DEFINE old == st[type]
             rows == Performed(old, job)
  <1>1. \A s \in Storage : new[s] = IF s = type THEN rows ELSE st[s]
    OBVIOUS
  <1>2. \A id \in DOMAIN rows : \/ id \in DOMAIN old /\ rows[id] = old[id]
                                \/ job.op = "store" /\ id = job.id /\ rows[id] = job.row
    <2>1. CASE job.op = "store"
      BY <2>1 DEF With, Performed
    <2>2. CASE job.op # "store"
      BY <2>2 DEF Without, Performed
    <2> QED
      BY <2>1, <2>2
  <1> HIDE DEF rows, old
  <1>3. \A s \in Storage : \A id \in DOMAIN new[s] :
             \/ id \in DOMAIN st[s] /\ new[s][id] = st[s][id]
             \/ job.op = "store" /\ id = job.id /\ new[s][id] = job.row
    BY <1>1, <1>2 DEF old
  <1>4. KeyedRows(new)
    BY <1>3 DEF KeyedRows, Keyed
  <1>5. StoredHashes(new) \subseteq StoredHashes(st) \cup Written(job)
    BY <1>3 DEF StoredHashes, Written
  <1> QED
    BY <1>4, <1>5

RowsPart == Alike /\ Unused /\ ApartRows(adding, natives)

\* A step that leaves the rows alone, and whose events name no torrents.
LEMMA RowsKept ==
    ASSUME RowsPart, UNCHANGED <<stored, jobs, adding, natives>>,
           loading'.todo = loading.todo, Waiting' = Waiting,
           context'.alive => /\ context.alive /\ context'.skipped = context.skipped
                             /\ context'.indexed = context.indexed,
           Unstarted => Unstarted',
           \A i \in DOMAIN events' : events'[i].type = "started" =>
             \E j \in DOMAIN events : events'[i] = events[j]
    PROVE  RowsPart'
  <1>1. KnownHashes' = KnownHashes /\ UsedHashes' = UsedHashes
    BY DEF KnownHashes, UsedHashes
  <1>2. Alike'
    BY <1>1 DEF RowsPart, Alike
  <1>3. Pending' = Pending
    BY DEF Pending
  <1>4. Unused'
    <2>1. Distinct(loading.todo, Waiting)'
      BY DEF RowsPart, Unused
    <2>2. ASSUME context'.alive
          PROVE  /\ \A id \in Pending' \ context'.skipped, u \in UsedHashes' : id \notin u
                 /\ ~Unstarted' => Pending' \subseteq context'.indexed
      BY <1>1, <1>3, <2>2 DEF RowsPart, Unused
    <2>3. ASSUME context'.alive, NEW i \in DOMAIN events', events'[i].type = "started"
          PROVE  Pending' \subseteq events'[i].ids
      BY <1>3, <2>3 DEF RowsPart, Unused
    <2> QED
      BY <2>1, <2>2, <2>3 DEF Unused
  <1>5. ApartRows(adding, natives)'
    BY DEF RowsPart
  <1> QED
    BY <1>2, <1>4, <1>5 DEF RowsPart

\* No torrents are named by the other events.
NoNewStart ==
    /\ \A i \in DOMAIN events' : events'[i].type = "started" =>
         \E j \in DOMAIN events : events'[i] = events[j]
    /\ Has(events, "started") => Has(events', "started")

LEMMA QueuedStarts ==
    ASSUME Types,
           \/ events' = events
           \/ events' = Append(events, Event("finished", {}))
           \/ events' = Append(events, Event("handle", {}))
           \/ events' = Append(events, Event("alerts", {}))
           \/ EndStartup
    PROVE  NoNewStart
  <1>1. ASSUME NEW s \in Seq(QueuedEvent), NEW type \in EventType, type # "started"
        PROVE  LET r == Append(s, Event(type, {}))
               IN  /\ \A i \in DOMAIN r : r[i].type = "started" => \E j \in DOMAIN s : r[i] = s[j]
                   /\ Has(s, "started") => Has(r, "started")
                   /\ r \in Seq(QueuedEvent)
    <2> DEFINE r == Append(s, Event(type, {}))
    <2>1. Behind(r, s, type, {})
      BY <1>1, AppendedEvent, Kinds
    <2>2. Event(type, {}).type # "started"
      BY <1>1 DEF Event
    <2> HIDE DEF r
    <2>3. /\ \A i \in DOMAIN r : r[i].type = "started" => \E j \in DOMAIN s : r[i] = s[j]
          /\ Has(s, "started") => Has(r, "started")
          /\ r \in Seq(QueuedEvent)
      BY <2>1, <2>2 DEF Behind
    <2> QED
      BY <2>3 DEF r
  <1>2. events \in Seq(QueuedEvent)
    BY DEF Types
  <1>3. CASE events' = events
    BY <1>3 DEF NoNewStart
  <1>4. CASE events' = Append(events, Event("finished", {}))
    BY <1>1, <1>2, <1>4, Kinds DEF NoNewStart
  <1>5. CASE events' = Append(events, Event("handle", {}))
    BY <1>1, <1>2, <1>5, Kinds DEF NoNewStart
  <1>6. CASE events' = Append(events, Event("alerts", {}))
    BY <1>1, <1>2, <1>6, Kinds DEF NoNewStart
  <1>7. CASE EndStartup
    <2> DEFINE x == Event("delete context", {})
               s == IF Migrating THEN Append(events, Event("delete storage", {})) ELSE events
    <2>1. s \in Seq(QueuedEvent) /\ events' = s \o <<x>>
      BY <1>7, EventsType, Kinds DEF EndStartup, Types
    <2>2. /\ \A i \in DOMAIN s : s[i].type = "started" => \E j \in DOMAIN events : s[i] = events[j]
          /\ Has(events, "started") => Has(s, "started")
      BY <1>1, <1>2, Kinds
    <2> HIDE DEF s
    <2>3. events' = Append(s, x)
      <3>1. x \in QueuedEvent
        BY Kinds DEF Event, QueuedEvent
      <3> HIDE DEF x
      <3> QED
        BY <2>1, <3>1, AppendIsConcat
    <2>4. /\ \A i \in DOMAIN events' : events'[i].type = "started" => \E j \in DOMAIN s : events'[i] = s[j]
          /\ Has(s, "started") => Has(events', "started")
      <3>1. Behind(events', s, "delete context", {})
        BY <2>1, <2>3, AppendedEvent, Kinds
      <3>2. Event("delete context", {}).type # "started"
        BY DEF Event
      <3> QED
        BY <3>1, <3>2 DEF Behind
    <2> QED
      BY <2>2, <2>4 DEF NoNewStart
  <1> QED
    BY <1>3, <1>4, <1>5, <1>6, <1>7

LEMMA HandledStarts ==
    ASSUME Types, NEW type, type # "started", CanHandle(type), events' = Tail(events)
    PROVE  NoNewStart
  <1>1. events \in Seq(QueuedEvent) /\ events # <<>> /\ Head(events).type = type
    BY DEF CanHandle, Types
  <1>2. /\ \A t : Has(events, t) /\ t # Head(events).type => Has(Tail(events), t)
        /\ \A i \in DOMAIN Tail(events) : \E j \in DOMAIN events : Tail(events)[i] = events[j]
    BY <1>1, TakenEvent
  <1> QED
    BY <1>1, <1>2 DEF NoNewStart

LEMMA LoaderRows ==
    ASSUME Types, Control, RowsPart, LoaderStep
    PROVE  RowsPart'
  <1> USE DEF diskVars, startVars, loadVars, nativeVars, userVars
  <1>0. Waiting \in Seq(Loaded) /\ loading.todo \in Seq(ID)
    BY WaitingType
  <1>1. CASE LoadStarted
    <2> DEFINE ids == ToSet(loading.todo)
    <2>1. /\ loading.state = "start" /\ loading'.todo = loading.todo
          /\ UNCHANGED <<stored, jobs, adding, natives, context, loadedData>>
          /\ events' = Append(events, Event("started", ids))
      BY <1>1 DEF LoadStarted, Types, Loading
    <2>2. events = <<>> /\ loadedData = <<>> /\ context.loaded = <<>>
      BY <2>1 DEF Control, Beginning, Unstarted
    <2>3. Waiting' = Waiting /\ Waiting = <<>>
      BY <2>1, <2>2, ConcatEmptySeq DEF Waiting
    <2>4. Pending \subseteq ids
      <3>1. \A i \in DOMAIN Waiting : FALSE
        BY <1>0, <2>3, EmptySeq, LenProperties
      <3> QED
        BY <3>1 DEF Pending, PendingIDs, ToSet
    <2>5. ids \in SUBSET ID
      <3>1. \A i \in DOMAIN loading.todo : loading.todo[i] \in ID
        BY <1>0, LenProperties, ElementOfSeq
      <3> QED
        BY <3>1 DEF ToSet
    <2> HIDE DEF ids
    <2>6. Behind(events', events, "started", ids)
      BY <2>1, <2>5, Queued, Kinds
    <2>7. /\ Unstarted'
          /\ \A i \in DOMAIN events' : events'[i] = Event("started", ids)
      <3>1. \A i \in DOMAIN events : FALSE
        BY <2>2
      <3> QED
        BY <2>6, <3>1 DEF Behind, Unstarted
    <2>8. \A i \in DOMAIN events' : Pending \subseteq events'[i].ids
      BY <2>4, <2>7 DEF Event
    <2>9. Pending' = Pending /\ UsedHashes' = UsedHashes /\ KnownHashes' = KnownHashes
      BY <2>1, <2>3 DEF Pending, UsedHashes, KnownHashes
    <2>10. Unused'
      <3>1. Distinct(loading.todo, Waiting)'
        BY <2>1, <2>3 DEF RowsPart, Unused
      <3>2. context'.alive => \A id \in Pending' \ context'.skipped, u \in UsedHashes' : id \notin u
        BY <2>1, <2>9 DEF RowsPart, Unused
      <3>3. \A i \in DOMAIN events' : Pending' \subseteq events'[i].ids
        BY <2>8, <2>9
      <3> QED
        BY <2>7, <3>1, <3>2, <3>3 DEF Unused
    <2>11. Alike'
      BY <2>1, <2>3, <2>9 DEF RowsPart, Alike
    <2> QED
      BY <2>1, <2>10, <2>11 DEF RowsPart
  <1>2. CASE LoadNext
    <2> DEFINE todo == loading.todo
               x == [id |-> Head(todo), row |-> Load(Head(todo))]
    <2>1. /\ todo # <<>> /\ loading'.todo = Tail(todo) /\ loading'.state = loading.state
          /\ loadedData' = Append(loadedData, x) /\ context' = context
          /\ UNCHANGED <<stored, jobs, adding, natives, context, events>>
      BY <1>2 DEF LoadNext, Types, Loading
    <2>2. Head(todo) \in ID
      BY <1>0, <2>1, TailElements
    <2>3. x \in Loaded /\ x.id = Head(todo) /\ x.row = Load(x.id)
      BY <2>2, LoadType DEF Types, Loaded
    <2>4. x.id \in x.row.hashes /\ (x.row.readable => x.row.hashes \in StoredHashes(stored))
      BY <2>2, <2>3, LoadStored DEF RowsPart, Alike
    <2> HIDE DEF x
    <2>5. Waiting' = Append(Waiting, x)
      BY <2>1, <2>3, LoadWaiting
    <2>6. /\ Pending' = Pending
          /\ Distinct(loading'.todo, Waiting')
          /\ LoadedHashes(Waiting') \subseteq
                LoadedHashes(Waiting) \cup (IF x.row.readable THEN {x.row.hashes} ELSE {})
          /\ KeyedLoaded(Waiting')
      <3>1. Distinct(todo, Waiting) /\ KeyedLoaded(Waiting)
        BY DEF RowsPart, Unused, Alike
      <3>2. /\ PendingIDs(Tail(todo), Append(Waiting, x)) = PendingIDs(todo, Waiting)
            /\ Distinct(Tail(todo), Append(Waiting, x))
            /\ LoadedHashes(Append(Waiting, x)) \subseteq
                  LoadedHashes(Waiting) \cup (IF x.row.readable THEN {x.row.hashes} ELSE {})
            /\ KeyedLoaded(Append(Waiting, x))
        BY <1>0, <2>1, <2>3, <2>4, <3>1, AddedLoaded
      <3> QED
        BY <2>1, <2>5, <3>2 DEF Pending
    <2>7. KnownHashes' \subseteq KnownHashes /\ UsedHashes' = UsedHashes
      BY <2>1, <2>4, <2>6 DEF KnownHashes, UsedHashes
    <2>8. Alike'
      BY <2>1, <2>6, <2>7 DEF RowsPart, Alike
    <2>9. Unused'
      BY <2>1, <2>6, <2>7 DEF RowsPart, Unused, Unstarted
    <2> QED
      BY <2>1, <2>8, <2>9 DEF RowsPart
  <1>3. CASE LoadFinished
    <2>1. /\ loading'.todo = loading.todo /\ loading.state = "load"
          /\ UNCHANGED <<stored, jobs, adding, natives, context, loadedData>>
          /\ events' = Append(events, Event("finished", {}))
      BY <1>3 DEF LoadFinished, Types, Loading
    <2>2. NoNewStart
      BY <2>1, QueuedStarts
    <2>3. Waiting' = Waiting /\ (Unstarted => Unstarted')
      BY <2>1, <2>2 DEF Waiting, Unstarted, NoNewStart
    <2> QED
      BY <2>1, <2>2, <2>3, RowsKept DEF NoNewStart
  <1> QED
    BY <1>1, <1>2, <1>3 DEF LoaderStep

\* The deletion of the context leaves what the loading thread has loaded.
LEMMA LoadedRemains ==
    ASSUME Types
    PROVE  /\ LoadedHashes(loadedData) \subseteq LoadedHashes(Waiting)
           /\ KeyedLoaded(Waiting) => KeyedLoaded(loadedData)
           /\ \A todo : Distinct(todo, Waiting) => Distinct(todo, loadedData)
  <1> DEFINE a == context.loaded
             b == loadedData
             w == a \o b
             n == Len(a)
  <1>1. /\ n \in Nat /\ DOMAIN b \subseteq Nat
        /\ \A i \in DOMAIN b : n + i \in DOMAIN w /\ w[n + i] = b[i]
    <2>1. a \in Seq(Loaded) /\ b \in Seq(Loaded)
      BY DEF Types, SessionContext
    <2>2. /\ Len(a) \in Nat /\ Len(b) \in Nat /\ DOMAIN b = 1..Len(b)
          /\ DOMAIN w = 1 .. Len(a) + Len(b)
          /\ \A i \in DOMAIN b : w[Len(a) + i] = b[i]
      <3> HIDE DEF a, b
      <3> QED
        BY <2>1, ConcatElements
    <2> HIDE DEF w, a, b
    <2> QED
      BY <2>2 DEF n
  <1>2. Waiting = w
    BY DEF Waiting
  <1> HIDE DEF a, b, w, n
  <1>3. LoadedHashes(b) \subseteq LoadedHashes(w)
    BY <1>1 DEF LoadedHashes
  <1>4. KeyedLoaded(w) => KeyedLoaded(b)
    BY <1>1 DEF KeyedLoaded
  <1>5. ASSUME NEW todo, Distinct(todo, w) PROVE Distinct(todo, b)
    <2>1. ASSUME NEW i \in DOMAIN b, NEW j \in DOMAIN b, b[i].id = b[j].id
          PROVE  i = j
      <3>1. n + i = n + j
        BY <1>1, <1>5, <2>1 DEF Distinct
      <3> QED
        BY <1>1, <3>1
    <2> QED
      BY <1>1, <1>5, <2>1 DEF Distinct
  <1> QED
    BY <1>2, <1>3, <1>4, <1>5 DEF b

LEMMA MainRows ==
    ASSUME Types, Control, RowsPart, MainStep
    PROVE  RowsPart'
  <1> USE DEF diskVars, startVars, loadVars, nativeVars, userVars
  <1>0. context \in SessionContext /\ Waiting \in Seq(Loaded)
    BY WaitingType DEF Types
  <1>1. CASE BeginHandling
    <2>1. /\ events' = Tail(events) /\ context'.loaded = context.loaded
          /\ context'.skipped = context.skipped
          /\ UNCHANGED <<stored, jobs, adding, natives, loading, loadedData>>
      BY <1>0, <1>1 DEF BeginHandling, SessionContext
    <2>2. Waiting' = Waiting
      BY <2>1 DEF Waiting
    <2>3. CASE CanHandle("started") /\ context' = [context EXCEPT !.enqueued = FALSE, !.indexed = Head(events).ids]
      <3>1. /\ events \in Seq(QueuedEvent) /\ events # <<>> /\ Head(events).type = "started"
        BY <2>3 DEF CanHandle, Types
      <3>2. \E j \in DOMAIN events : Head(events) = events[j]
        BY <3>1, TakenEvent
      <3>3. context.alive
        <4>1. Has(events, "started")
          BY <2>3, Handled
        <4> QED
          BY <4>1 DEF Control, Beginning, Unstarted
      <3>4. Pending \subseteq Head(events).ids
        BY <3>1, <3>2, <3>3 DEF RowsPart, Unused
      <3>5. context'.indexed = Head(events).ids
        BY <1>0, <2>3 DEF SessionContext
      <3>6. \A i \in DOMAIN events' : events'[i].type # "started"
        <4>1. ~Has(events', "started")
          BY <2>1, <2>3, Handled DEF Control
        <4> QED
          BY <4>1 DEF Has
      <3>7. Pending' = Pending /\ UsedHashes' = UsedHashes /\ KnownHashes' = KnownHashes
        BY <2>1, <2>2 DEF Pending, UsedHashes, KnownHashes
      <3>8. Unused'
        <4>1. Distinct(loading.todo, Waiting)'
          BY <2>1, <2>2 DEF RowsPart, Unused
        <4>2. \A id \in Pending' \ context'.skipped, u \in UsedHashes' : id \notin u
          BY <2>1, <3>3, <3>7 DEF RowsPart, Unused
        <4>3. Pending' \subseteq context'.indexed
          BY <3>4, <3>5, <3>7
        <4> QED
          BY <3>6, <4>1, <4>2, <4>3 DEF Unused
      <3>9. Alike'
        BY <2>1, <2>2, <3>7 DEF RowsPart, Alike
      <3> QED
        BY <2>1, <3>8, <3>9 DEF RowsPart
    <2>4. CASE CanHandle("handle") /\ context.alive /\ context' = [context EXCEPT !.enqueued = FALSE]
      <3>1. NoNewStart
        BY <2>1, <2>4, HandledStarts
      <3>2. Unstarted => Unstarted'
        BY <2>1, <3>1 DEF Unstarted, NoNewStart
      <3>3. context'.alive = context.alive /\ context'.indexed = context.indexed
        BY <1>0, <2>4 DEF SessionContext
      <3> QED
        BY <2>1, <2>2, <2>4, <3>1, <3>2, <3>3, RowsKept DEF NoNewStart
    <2> QED
      BY <1>1, <2>3, <2>4 DEF BeginHandling
  <1>2. CASE HandleWithoutContext \/ NoteLoadFinished \/ DeleteStorage \/ FetchAlerts
    <2>1. \E type : type # "started" /\ CanHandle(type) /\ events' = Tail(events)
      BY <1>2 DEF HandleWithoutContext, NoteLoadFinished, DeleteStorage, FetchAlerts
    <2>2. NoNewStart
      BY <2>1, HandledStarts
    <2>3. /\ context'.alive = context.alive /\ context'.indexed = context.indexed
          /\ context'.loaded = context.loaded /\ context'.skipped = context.skipped
      BY <1>0, <1>2
         DEF HandleWithoutContext, NoteLoadFinished, DeleteStorage, FetchAlerts, SessionContext
    <2>4. UNCHANGED <<jobs, adding, natives, loading, loadedData>>
      BY <1>2 DEF HandleWithoutContext, NoteLoadFinished, DeleteStorage, FetchAlerts
    <2>5. Waiting' = Waiting /\ (Unstarted => Unstarted')
      BY <2>2, <2>3, <2>4 DEF Waiting, Unstarted, NoNewStart
    <2>6. CASE stored' = stored
      BY <2>2, <2>3, <2>4, <2>5, <2>6, RowsKept DEF NoNewStart
    <2>7. CASE stored' = [stored EXCEPT !["db"] = NoRows]
      <3>1. \A s \in Storage : \A id \in DOMAIN stored'[s] :
              id \in DOMAIN stored[s] /\ stored'[s][id] = stored[s][id]
        BY <2>7 DEF Types, NoRows
      <3>2. StoredHashes(stored') \subseteq StoredHashes(stored)
        BY <3>1 DEF StoredHashes
      <3>3. KeyedRows(stored')
        BY <3>1 DEF KeyedRows, RowsPart, Alike
      <3>4. KnownHashes' \subseteq KnownHashes /\ UsedHashes' = UsedHashes /\ Pending' = Pending
        BY <2>4, <2>5, <3>2 DEF KnownHashes, UsedHashes, Pending
      <3>5. Alike'
        BY <2>4, <2>5, <3>3, <3>4 DEF RowsPart, Alike
      <3>6. Unused'
        <4>1. Distinct(loading.todo, Waiting)'
          BY <2>4, <2>5 DEF RowsPart, Unused
        <4>2. context.alive => \A i \in DOMAIN events' : events'[i].type = "started" => Pending' \subseteq events'[i].ids
          BY <2>2, <3>4 DEF RowsPart, Unused, NoNewStart
        <4> QED
          BY <2>3, <2>5, <3>4, <4>1, <4>2 DEF RowsPart, Unused
      <3> QED
        BY <2>4, <3>5, <3>6 DEF RowsPart
    <2> QED
      BY <1>2, <2>6, <2>7 DEF HandleWithoutContext, NoteLoadFinished, DeleteStorage, FetchAlerts
  <1>3. CASE PauseHandling \/ AwaitAlerts \/ AwaitData \/ EndStartup \/ AlertsRead
    <2>1. /\ context'.alive = context.alive /\ context'.indexed = context.indexed
          /\ context'.loaded = context.loaded /\ context'.skipped = context.skipped
      BY <1>0, <1>3
         DEF PauseHandling, AwaitAlerts, AwaitData, EndStartup, AlertsRead, Enqueued, SessionContext
    <2>2. UNCHANGED <<stored, jobs, adding, natives, loading, loadedData>>
      BY <1>3 DEF PauseHandling, AwaitAlerts, AwaitData, EndStartup, AlertsRead
    <2>3. NoNewStart
      BY <1>3, QueuedStarts
         DEF PauseHandling, AwaitAlerts, AwaitData, AlertsRead, EventsWithHandling
    <2>4. Waiting' = Waiting /\ (Unstarted => Unstarted')
      BY <2>1, <2>2, <2>3 DEF Waiting, Unstarted, NoNewStart
    <2> QED
      BY <2>1, <2>2, <2>3, <2>4, RowsKept DEF NoNewStart
  <1>4. CASE DeleteContext
    <2>1. /\ context' = NoContext
          /\ UNCHANGED <<stored, jobs, adding, natives, loading, loadedData>>
      BY <1>4 DEF DeleteContext
    <2>2. ~context'.alive /\ context'.loaded = <<>>
      BY <2>1 DEF NoContext
    <2>3. Waiting' = loadedData
      BY <2>1, <2>2, ConcatEmptySeq DEF Waiting, Types
    <2>4. KnownHashes' \subseteq KnownHashes
      BY <2>1, <2>3, LoadedRemains DEF KnownHashes, UsedHashes
    <2>5. Alike'
      BY <2>1, <2>3, <2>4, LoadedRemains DEF RowsPart, Alike
    <2>6. Unused'
      BY <2>1, <2>2, <2>3, LoadedRemains DEF RowsPart, Unused
    <2> QED
      BY <2>1, <2>5, <2>6 DEF RowsPart
  <1>5. CASE SkipNext
    <2>1. /\ handling = "data" /\ Available # <<>> /\ context'.loaded = Tail(Available)
          /\ loadedData' = IF context.loaded = <<>> THEN <<>> ELSE loadedData
          /\ UNCHANGED <<stored, jobs, adding, natives, loading, events>>
          /\ context'.alive = context.alive /\ context'.indexed = context.indexed
          /\ context'.skipped = context.skipped
      BY <1>0, <1>5 DEF SkipNext, CanProcess, SessionContext
    <2>2. Waiting # <<>> /\ Waiting' = Tail(Waiting)
      BY <2>1, TakeWaiting
    <2>3. /\ Pending' \subseteq Pending /\ Distinct(loading'.todo, Waiting')
          /\ LoadedHashes(Waiting') \subseteq LoadedHashes(Waiting) /\ KeyedLoaded(Waiting')
      <3>1. Distinct(loading.todo, Waiting) /\ KeyedLoaded(Waiting)
        BY DEF RowsPart, Alike, Unused
      <3> QED
        BY <1>0, <2>1, <2>2, <3>1, TakenLoaded DEF Pending
    <2>4. KnownHashes' \subseteq KnownHashes /\ UsedHashes' = UsedHashes
      BY <2>1, <2>3 DEF KnownHashes, UsedHashes
    <2>5. Alike'
      BY <2>1, <2>3, <2>4 DEF RowsPart, Alike
    <2>6. Unused'
      BY <2>1, <2>3, <2>4 DEF RowsPart, Unused, Unstarted
    <2> QED
      BY <2>1, <2>5, <2>6 DEF RowsPart
  <1>6. CASE ProcessNext
    <2> DEFINE id == Head(Available).id
               row == Head(Available).row
               x == Used(id, row)
    <2>1. /\ handling = "data" /\ Available # <<>> /\ context'.loaded = Tail(Available)
          /\ loadedData' = IF context.loaded = <<>> THEN <<>> ELSE loadedData
          /\ UNCHANGED <<stored, natives, loading, events>>
          /\ context'.alive = context.alive /\ context'.indexed = context.indexed
          /\ context'.skipped = context.skipped \cup Skips(id, row)
          /\ id \notin context.skipped /\ row.readable
          /\ jobs' = jobs \o StorageJobs(id, row) /\ adding' = Append(adding, x)
      BY <1>0, <1>6 DEF ProcessNext, CanProcess, SessionContext
    <2>2. Waiting # <<>> /\ Waiting' = Tail(Waiting) /\ Head(Waiting) = Head(Available)
      BY <2>1, TakeWaiting
    <2>3. id \in ID /\ row \in Row
      BY <2>1, AvailableType
    <2>4. /\ Pending' \subseteq Pending /\ Distinct(loading'.todo, Waiting')
          /\ id \in Pending /\ id \notin Pending' /\ id \in row.hashes
          /\ row.hashes \in LoadedHashes(Waiting)
          /\ LoadedHashes(Waiting') \subseteq LoadedHashes(Waiting) /\ KeyedLoaded(Waiting')
      <3>1. Distinct(loading.todo, Waiting) /\ KeyedLoaded(Waiting)
        BY DEF RowsPart, Alike, Unused
      <3> QED
        BY <1>0, <2>1, <2>2, <3>1, TakenLoaded DEF Pending
    <2>5. row.hashes \in KnownHashes /\ Alike
      BY <2>4 DEF KnownHashes, RowsPart
    <2>6. /\ x \in Row /\ x.hashes = row.hashes
          /\ \A other \in row.hashes :
               other # id /\ other \in context.indexed => other \in Skips(id, row)
      BY <2>1, <2>3, <2>4, <2>5, SameHashes
    <2>7. context.alive /\ ~Unstarted
      BY <2>1 DEF Control, Beginning
    <2>8. id \notin context.skipped /\ \A u \in UsedHashes : id \notin u
      BY <2>1, <2>4, <2>7 DEF RowsPart, Unused
    <2>9. \A u \in UsedHashes : row.hashes \cap u = {}
      BY <2>3, <2>4, <2>5, <2>8, FreshHashes
    <2>10. JobHashes(jobs') \subseteq JobHashes(jobs) \cup {row.hashes} /\ KeyedJobs(jobs')
      <3>1. StorageJobs(id, row) \in Seq(Job) /\ jobs \in Seq(Job) /\ KeyedJobs(jobs)
        BY <2>3, StorageJobsType DEF RowsPart, Alike, Types
      <3>2. /\ JobHashes(StorageJobs(id, row)) \subseteq {row.hashes}
            /\ KeyedJobs(StorageJobs(id, row))
        BY <2>3, <2>6, StorageJobsKnown
      <3> QED
        BY <2>1, <3>1, <3>2, JobsKnown
    <2> HIDE DEF x, id, row
    <2>11. RowHashes(adding') \subseteq RowHashes(adding) \cup {row.hashes}
      BY <2>1, <2>6, AddingHashes DEF Types
    <2>12. ApartRows(adding', natives')
      <3>1. \A h \in DOMAIN natives : natives[h].row.hashes \in NativeHashes(natives)
        <4>1. \A h \in DOMAIN natives : natives[h] \in Native
          BY LenProperties, ElementOfSeq DEF Types
        <4> QED
          BY <4>1 DEF NativeHashes, Native, Row
      <3>2. \A u \in RowHashes(adding) \cup NativeHashes(natives) : x.hashes \cap u = {}
        BY <2>6, <2>9 DEF UsedHashes
      <3>3. adding \in Seq(Row) /\ ApartRows(adding, natives)
        BY DEF Types, RowsPart
      <3>4. ApartRows(Append(adding, x), natives)
        BY <2>6, <3>1, <3>2, <3>3, AddingHashes
      <3> QED
        BY <2>1, <3>4
    <2>13. /\ UsedHashes' \subseteq UsedHashes \cup {row.hashes}
           /\ KnownHashes' \subseteq KnownHashes
      BY <2>1, <2>4, <2>5, <2>10, <2>11 DEF KnownHashes, UsedHashes
    <2>14. Alike'
      BY <2>1, <2>4, <2>10, <2>13 DEF RowsPart, Alike
    <2>15. Unused'
      <3>1. ASSUME NEW other \in Pending' \ context'.skipped, NEW u \in UsedHashes'
            PROVE  other \notin u
        <4>1. CASE u \in UsedHashes
          BY <2>1, <2>4, <2>7, <3>1, <4>1 DEF RowsPart, Unused
        <4>2. CASE u = row.hashes
          <5>1. other # id /\ other \in context.indexed /\ other \notin Skips(id, row)
            BY <2>1, <2>4, <2>7, <3>1 DEF RowsPart, Unused
          <5> QED
            BY <2>6, <4>2, <5>1
        <4> QED
          BY <2>13, <4>1, <4>2
      <3>2. Pending' \subseteq context'.indexed
        BY <2>1, <2>4, <2>7 DEF RowsPart, Unused
      <3>3. \A i \in DOMAIN events' : events'[i].type = "started" => Pending' \subseteq events'[i].ids
        BY <2>1, <2>4, <2>7 DEF RowsPart, Unused
      <3> QED
        BY <2>4, <3>1, <3>2, <3>3 DEF Unused
    <2> QED
      BY <2>12, <2>14, <2>15 DEF RowsPart
  <1> QED
    BY <1>1, <1>2, <1>3, <1>4, <1>5, <1>6 DEF MainStep

\* Native torrents that are as they were, but for being removed or reloaded.
LEMMA RowsOfNatives ==
    ASSUME Types, RowsPart, Types', UNCHANGED <<stored, adding, loading, loadedData>>,
           \A h \in DOMAIN natives' : \E g \in DOMAIN natives : natives'[h].row = natives[g].row,
           JobHashes(jobs') \subseteq JobHashes(jobs), KeyedJobs(jobs'),
           context' = context, NoNewStart
    PROVE  RowsPart'
  <1>1. NativeHashes(natives') \subseteq NativeHashes(natives)
    BY DEF NativeHashes
  <1>2. Waiting' = Waiting
    BY DEF Waiting
  <1>3. KnownHashes' \subseteq KnownHashes /\ UsedHashes' \subseteq UsedHashes /\ Pending' = Pending
    BY <1>1, <1>2 DEF KnownHashes, UsedHashes, Pending
  <1>4. Alike'
    BY <1>2, <1>3 DEF RowsPart, Alike
  <1>5. Unused'
    <2>1. Distinct(loading.todo, Waiting)'
      BY <1>2 DEF RowsPart, Unused
    <2>2. context.alive => \A i \in DOMAIN events' :
              events'[i].type = "started" => Pending' \subseteq events'[i].ids
      BY <1>3 DEF RowsPart, Unused, NoNewStart
    <2> QED
      BY <1>3, <2>1, <2>2 DEF RowsPart, Unused, Unstarted, NoNewStart
  <1>6. ApartRows(adding, natives)'
    BY DEF RowsPart, ApartRows
  <1> QED
    BY <1>4, <1>5, <1>6 DEF RowsPart

\* async_add_torrent never finds the torrent there: it makes a new one.
LEMMA NewNative ==
    ASSUME Types, RowsPart, AddNative
    PROVE  /\ Head(adding) \in Row
           /\ natives' = Append(natives, [row |-> Head(adding), alive |-> TRUE])
           /\ LET x == NativeAlert("added", Len(natives) + 1, Head(adding))
                  y == NativeAlert("rejected", Len(natives) + 1, Head(adding))
              IN  Post(<<x>> \o <<y>>) \/ Post(<<x>> \o <<>>)
  <1>1. Head(adding) = adding[1] /\ 1 \in DOMAIN adding /\ Head(adding) \in Row
    BY TailElements DEF AddNative, Types
  <1>2. Owners(Head(adding).hashes) = {}
    BY <1>1 DEF Owners, RowsPart, ApartRows
  <1> QED
    BY <1>1, <1>2 DEF AddNative

LEMMA AddNativeRows ==
    ASSUME Types, Control, RowsPart, AddNative
    PROVE  RowsPart'
  <1> USE DEF diskVars, startVars, loadVars, userVars
  <1> DEFINE row == Head(adding)
             n == [row |-> row, alive |-> TRUE]
             k == Len(natives) + 1
  <1>1. /\ row \in Row /\ natives' = Append(natives, n) /\ adding' = Tail(adding) /\ adding # <<>>
        /\ UNCHANGED <<stored, jobs, loading, loadedData, context>>
    BY NewNative DEF AddNative
  <1>2. n \in Native /\ n.row = row
    BY <1>1 DEF Native
  <1> HIDE DEF n
  <1>3. /\ \A h \in DOMAIN natives : natives'[h] = natives[h]
        /\ \A h \in DOMAIN natives' : h \in DOMAIN natives \/ h = k
        /\ natives'[k] = n
    <2>1. /\ Len(natives) \in Nat /\ DOMAIN natives = 1..Len(natives) /\ DOMAIN natives' = 1..k
          /\ \A i \in DOMAIN natives : natives'[i] = natives[i]
          /\ natives'[k] = n
      <3>1. natives \in Seq(Native)
        BY DEF Types
      <3>2. /\ Len(natives) \in Nat /\ DOMAIN natives = 1..Len(natives)
            /\ DOMAIN Append(natives, n) = 1..k
            /\ \A i \in DOMAIN natives : Append(natives, n)[i] = natives[i]
            /\ Append(natives, n)[k] = n
        BY <1>2, <3>1, AppendElements
      <3> QED
        BY <1>1, <3>2
    <2> QED
      BY <2>1
  <1> HIDE DEF k
  <1>4. /\ RowHashes(adding') \subseteq RowHashes(adding) /\ row.hashes \in RowHashes(adding)
        /\ ApartRows(Tail(adding), natives)
    BY <1>1, AddingHashes DEF Types, RowsPart
  <1>5. NativeHashes(natives') \subseteq NativeHashes(natives) \cup {row.hashes}
    BY <1>2, <1>3 DEF NativeHashes
  <1>6. Waiting' = Waiting
    BY <1>1 DEF Waiting
  <1>7. KnownHashes' \subseteq KnownHashes /\ UsedHashes' \subseteq UsedHashes /\ Pending' = Pending
    BY <1>1, <1>4, <1>5, <1>6 DEF KnownHashes, UsedHashes, Pending
  <1>8. Alike'
    BY <1>1, <1>6, <1>7 DEF RowsPart, Alike
  <1>9. NoNewStart
    <2>1. events' = events \/ events' = Append(events, Event("alerts", {}))
      BY NewNative DEF Post
    <2> QED
      BY <2>1, QueuedStarts
  <1>10. Unused'
    <2>1. Distinct(loading.todo, Waiting)'
      BY <1>1, <1>6 DEF RowsPart, Unused
    <2>2. context.alive => \A i \in DOMAIN events' :
              events'[i].type = "started" => Pending' \subseteq events'[i].ids
      BY <1>7, <1>9 DEF RowsPart, Unused, NoNewStart
    <2> QED
      BY <1>1, <1>7, <1>9, <2>1, <2>2 DEF RowsPart, Unused, Unstarted, NoNewStart
  <1>11. ApartRows(adding', natives')
    <2> DEFINE t == Tail(adding)
    <2>1. /\ row = adding[1] /\ 1 \in DOMAIN adding
          /\ \A i \in DOMAIN t : i \in Nat /\ i + 1 \in DOMAIN adding /\ i + 1 # 1 /\ t[i] = adding[i + 1]
      BY <1>1, TailElements DEF Types
    <2> HIDE DEF t, row
    <2>2. ASSUME NEW i \in DOMAIN t PROVE t[i].hashes \cap row.hashes = {}
      BY <2>1 DEF RowsPart, ApartRows
    <2>3. ApartRows(t, natives)
      BY <1>4 DEF t
    <2>4. ASSUME NEW i \in DOMAIN t, NEW h \in DOMAIN natives'
          PROVE  t[i].hashes \cap natives'[h].row.hashes = {}
      BY <1>2, <1>3, <2>2, <2>3 DEF ApartRows
    <2>5. ApartRows(t, natives')
      BY <2>3, <2>4 DEF ApartRows
    <2> QED
      BY <1>1, <2>5 DEF t
  <1> QED
    BY <1>8, <1>10, <1>11 DEF RowsPart

\* A reloaded torrent is the same one again.
LEMMA ReloadedNatives ==
    ASSUME Types, ReloadRestored
    PROVE  LET old == Head(batch).handle
               k == Len(natives) + 1
           IN  /\ old \in DOMAIN natives /\ k \notin DOMAIN natives
               /\ natives[old] \in Native
               /\ \A h \in DOMAIN natives' : h \in DOMAIN natives \/ h = k
               /\ \A h \in DOMAIN natives : natives'[h].row = natives[h].row
               /\ natives'[k] = natives[old]
               /\ NativeAlert("reloaded", k, natives[old].row) \in Alert
  <1> DEFINE old == Head(batch).handle
             k == Len(natives) + 1
             gone == [natives EXCEPT ![old].alive = FALSE]
             n == natives[old]
  <1>1. natives \in Seq(Native) /\ old \in DOMAIN natives
    BY BatchType DEF ReloadRestored, CanReadAlert, Types
  <1>2. /\ Len(natives) \in Nat /\ DOMAIN natives = 1..Len(natives)
        /\ \A h \in DOMAIN natives : natives[h] \in Native
        /\ natives \in [1..Len(natives) -> Native]
    BY <1>1, LenProperties, ElementOfSeq
  <1>3. n \in Native
    BY <1>1, <1>2
  <1>4. /\ gone \in [1..Len(natives) -> Native]
        /\ \A h \in DOMAIN natives : gone[h].row = natives[h].row
    <2> DEFINE m == [natives[old] EXCEPT !.alive = FALSE]
    <2>1. gone = [natives EXCEPT ![old] = m]
      OBVIOUS
    <2>2. m \in Native /\ m.row = natives[old].row
      BY <1>3 DEF Native
    <2> HIDE DEF m
    <2> QED
      BY <1>1, <1>2, <2>1, <2>2
  <1>5. gone \in Seq(Native) /\ Len(gone) = Len(natives)
    <2> HIDE DEF gone
    <2> QED
      BY <1>2, <1>4, SeqDef, LenProperties
  <1>6. natives' = Append(gone, n)
    BY DEF ReloadRestored
  <1> HIDE DEF gone, n
  <1>7. /\ DOMAIN natives' = 1..k /\ natives'[k] = n
        /\ \A h \in DOMAIN natives : natives'[h] = gone[h]
    <2>1. /\ DOMAIN gone = 1..Len(gone) /\ DOMAIN Append(gone, n) = 1 .. Len(gone) + 1
          /\ \A i \in DOMAIN gone : Append(gone, n)[i] = gone[i]
          /\ Append(gone, n)[Len(gone) + 1] = n
      BY <1>3, <1>5, AppendElements
    <2> QED
      BY <1>2, <1>5, <1>6, <2>1
  <1>8. NativeAlert("reloaded", k, n.row) \in Alert
    BY <1>2, <1>3 DEF NativeAlert, Alert, Native
  <1>9. k \notin DOMAIN natives /\ \A h \in DOMAIN natives' : h \in DOMAIN natives \/ h = k
    BY <1>2, <1>7
  <1> QED
    BY <1>1, <1>3, <1>4, <1>7, <1>8, <1>9 DEF n

LEMMA AlertRows ==
    ASSUME Types, Control, RowsPart, AlertStep
    PROVE  RowsPart'
  <1> USE DEF diskVars, startVars, loadVars, nativeVars, userVars
  <1>0. Types'
    BY AlertTypes
  <1>1. CASE AlertReceived /\ natives' = natives /\ adding' = adding
    <2>1. /\ context'.alive = context.alive /\ context'.indexed = context.indexed
          /\ context'.loaded = context.loaded /\ context'.skipped = context.skipped
          /\ (events' = events \/ events' = Append(events, Event("handle", {})))
      BY <1>1, ReceivedContext
    <2>2. UNCHANGED <<stored, jobs, loading, loadedData>>
      BY DEF AlertStep, TorrentRestored, ReloadRestored, IgnoreReloaded
    <2>3. NoNewStart
      BY <2>1, QueuedStarts
    <2>4. Waiting' = Waiting /\ (Unstarted => Unstarted')
      BY <2>1, <2>2, <2>3 DEF Waiting, Unstarted, NoNewStart
    <2> QED
      BY <1>1, <2>1, <2>2, <2>3, <2>4, RowsKept DEF NoNewStart
  <1>2. CASE ReloadRestored
    <2>1. /\ UNCHANGED <<stored, jobs, adding, loading, loadedData, context>>
          /\ (events' = events \/ events' = Append(events, Event("alerts", {})))
      BY <1>2 DEF ReloadRestored, Post
    <2>2. NoNewStart
      BY <2>1, QueuedStarts
    <2>3. \A h \in DOMAIN natives' : \E g \in DOMAIN natives : natives'[h].row = natives[g].row
      BY <1>2, ReloadedNatives
    <2>4. JobHashes(jobs') \subseteq JobHashes(jobs) /\ KeyedJobs(jobs')
      BY <2>1 DEF RowsPart, Alike
    <2> QED
      BY <1>0, <2>1, <2>2, <2>3, <2>4, RowsOfNatives
  <1> QED
    BY <1>1, <1>2 DEF AlertStep, TorrentRestored, IgnoreReloaded

LEMMA RestRows ==
    ASSUME Types, Control, RowsPart,
           \/ PerformStorageJob \/ (\E i \in DOMAIN restored : RemoveRestored(i))
           \/ ProgramExit \/ ProgramCrash
    PROVE  RowsPart'
  <1> USE DEF diskVars, startVars, loadVars, nativeVars, userVars
  <1>0. Types'
    BY RestTypes
  <1>1. CASE PerformStorageJob
    <2> DEFINE job == Head(jobs)
    <2>1. /\ jobs # <<>> /\ jobs' = Tail(jobs)
          /\ UNCHANGED <<adding, natives, loading, loadedData, context, events>>
          /\ stored' = [stored EXCEPT ![storageType] =
                          IF job.op = "store" THEN With(@, job.id, job.row) ELSE Without(@, job.id)]
      BY <1>1 DEF PerformStorageJob
    <2>2. job \in Job /\ jobs \in Seq(Job) /\ storageType \in Storage /\ stored \in [Storage -> Rows]
      BY <2>1, TailElements DEF Types
    <2>3. KeyedJobs(jobs) /\ KeyedRows(stored)
      BY DEF RowsPart, Alike
    <2>4. /\ JobHashes(jobs') \subseteq JobHashes(jobs) /\ KeyedJobs(jobs')
          /\ job.op = "store" => job.row.hashes \in JobHashes(jobs) /\ job.id \in job.row.hashes
      BY <2>1, <2>2, <2>3, JobsKnown
    <2> HIDE DEF job
    <2>5. StoredHashes(stored') \subseteq StoredHashes(stored) \cup Written(job) /\ KeyedRows(stored')
      <3> DEFINE new == stored'
      <3>1. \A s \in Storage :
              new[s] = IF s = storageType THEN Performed(stored[storageType], job) ELSE stored[s]
        BY <2>1, <2>2 DEF Performed
      <3>2. Keyed(job)
        BY <2>4 DEF Keyed
      <3> HIDE DEF new
      <3>3. StoredHashes(new) \subseteq StoredHashes(stored) \cup Written(job) /\ KeyedRows(new)
        BY <2>2, <2>3, <3>1, <3>2, StoredKnown
      <3> QED
        BY <3>3 DEF new
    <2>6. Waiting' = Waiting
      BY <2>1 DEF Waiting
    <2>7. KnownHashes' \subseteq KnownHashes /\ UsedHashes' = UsedHashes /\ Pending' = Pending
      BY <2>1, <2>4, <2>5, <2>6 DEF KnownHashes, UsedHashes, Pending, Written
    <2>8. Alike'
      BY <2>4, <2>5, <2>6, <2>7 DEF RowsPart, Alike
    <2>9. Unused'
      BY <2>1, <2>6, <2>7 DEF RowsPart, Unused, Unstarted
    <2> QED
      BY <2>1, <2>8, <2>9 DEF RowsPart
  <1>2. ASSUME NEW i \in DOMAIN restored, RemoveRestored(i)
        PROVE  RowsPart'
    <2> DEFINE t == restored[i]
               job == RemoveJob(ToTorrentID(t.row.hashes))
    <2>1. /\ UNCHANGED <<stored, adding, loading, loadedData, context, events>>
          /\ jobs' = Append(jobs, job)
          /\ natives' = [natives EXCEPT ![t.handle].alive = FALSE]
      BY <1>2 DEF RemoveRestored
    <2>2. t \in Restored
      BY LenProperties, ElementOfSeq DEF Types
    <2>3. job \in Job /\ job.op = "remove"
      <3>1. t.row \in Row /\ t.row.hashes \in InfoHash
        BY <2>2 DEF Restored, Row
      <3> QED
        BY <3>1, HashesKnown, UnreadableType DEF RemoveJob, Job
    <2> HIDE DEF job, t
    <2>4. JobHashes(jobs') \subseteq JobHashes(jobs) /\ KeyedJobs(jobs')
      <3>1. jobs \in Seq(Job) /\ KeyedJobs(jobs)
        BY DEF Types, RowsPart, Alike
      <3>2. JobHashes(Append(jobs, job)) \subseteq JobHashes(jobs) /\ KeyedJobs(Append(jobs, job))
        BY <2>3, <3>1, JobsKnown
      <3> QED
        BY <2>1, <3>2
    <2>5. \A h \in DOMAIN natives' : \E g \in DOMAIN natives : natives'[h].row = natives[g].row
      <3>1. \A h \in DOMAIN natives : natives[h] \in Native
        BY LenProperties, ElementOfSeq DEF Types
      <3> QED
        BY <2>1, <3>1 DEF Native
    <2>6. NoNewStart
      BY <2>1 DEF NoNewStart
    <2> QED
      BY <1>0, <2>1, <2>4, <2>5, <2>6, RowsOfNatives
  <1>3. CASE ProgramExit \/ ProgramCrash
    <2>1. ProcessEnds
      BY <1>3 DEF ProgramExit, ProgramCrash
    <2>2. /\ jobs' = <<>> /\ loading'.todo = <<>> /\ loadedData' = <<>> /\ context' = NoContext
          /\ natives' = <<>> /\ adding' = <<>> /\ stored' = stored
      BY <2>1 DEF ProcessEnds
    <2>3. ~context'.alive /\ context'.loaded = <<>>
      BY <2>2 DEF NoContext
    <2>4. Waiting' = <<>>
      BY <2>2, <2>3 DEF Waiting
    <2>5. DOMAIN <<>> = {}
      OBVIOUS
    <2>6. KnownHashes' \subseteq KnownHashes
      BY <2>2, <2>4, <2>5
         DEF KnownHashes, UsedHashes, JobHashes, LoadedHashes, RowHashes, NativeHashes
    <2>7. Alike'
      BY <2>2, <2>4, <2>5, <2>6 DEF RowsPart, Alike, KeyedJobs, KeyedLoaded
    <2>8. Unused'
      BY <2>2, <2>3, <2>4, <2>5 DEF Unused, Distinct
    <2>9. ApartRows(adding, natives)'
      BY <2>2, <2>5 DEF ApartRows
    <2> QED
      BY <2>7, <2>8, <2>9 DEF RowsPart
  <1> QED
    BY <1>1, <1>2, <1>3

LEMMA PrepareRows ==
    ASSUME Types, Control, RowsPart, NEW type \in Storage, PrepareStartup(type)
    PROVE  RowsPart' /\ Handles'
  <1> USE DEF diskVars, startVars, loadVars, nativeVars, userVars
  <1> DEFINE none == <<>>
  <1>1. /\ natives = none /\ adding = none /\ posted = none /\ batch = none /\ restored = none
        /\ jobs = none /\ loadedData = none /\ events = none
        /\ UNCHANGED <<stored, natives, adding, posted, batch, restored, jobs, loadedData, events>>
    BY DEF PrepareStartup, Control, AtRest
  <1>2. /\ context'.loaded = none /\ context'.skipped = {} /\ loading'.state = "start"
        /\ context.loaded = none
    BY DEF PrepareStartup, NoContext, Control, AtRest
  <1>3. Waiting = none /\ Waiting' = none /\ DOMAIN none = {}
    BY <1>1, <1>2 DEF Waiting
  <1> HIDE DEF none
  <1>4. KnownHashes' = KnownHashes /\ UsedHashes' = {}
    BY <1>1, <1>3 DEF KnownHashes, UsedHashes, RowHashes, NativeHashes
  <1>5. Alike'
    BY <1>1, <1>3, <1>4 DEF RowsPart, Alike
  <1>6. \A i, j \in DOMAIN loading'.todo : loading'.todo[i] = loading'.todo[j] => i = j
    <2>1. stored' = stored
      BY <1>1
    <2>2. PICK order \in SetToSeqs(DOMAIN stored[startupStorage']) :
              loading' = [state |-> "start", todo |-> order]
      BY <2>1 DEF PrepareStartup
    <2>3. loading'.todo = order
      BY <2>2
    <2> DEFINE n == Cardinality(DOMAIN stored[startupStorage'])
    <2>4. /\ order \in [1..n -> DOMAIN stored[startupStorage']]
          /\ \A i, j \in 1..n : i # j => order[i] # order[j]
      BY <2>2 DEF SetToSeqs
    <2> HIDE DEF n
    <2> QED
      BY <2>3, <2>4
  <1>7. Distinct(loading'.todo, Waiting')
    BY <1>3, <1>6 DEF Distinct
  <1>8. Unused'
    BY <1>1, <1>2, <1>3, <1>4, <1>7 DEF Unused, Unstarted
  <1>9. ApartRows(adding, natives)'
    BY <1>1, <1>3 DEF ApartRows
  <1>10. Handles'
    BY <1>1, <1>3 DEF Handles, DistinctHandles, Answers
  <1> QED
    BY <1>5, <1>8, <1>9, <1>10 DEF RowsPart

\* The rows of one hybrid torrent are alike unless the last exit left an old one.
LEMMA InitRows ==
    ASSUME StartupInit, incident # "leftover"
    PROVE  OneTorrent
  <1> DEFINE none == <<>>
  <1>1. /\ natives = none /\ adding = none /\ posted = none /\ batch = none /\ restored = none
        /\ jobs = none /\ loadedData = none /\ events = none
        /\ context.loaded = none /\ ~context.alive /\ loading.todo = none
    BY DEF StartupInit, NoContext
  <1>2. Waiting = none /\ DOMAIN none = {}
    BY <1>1 DEF Waiting
  <1> HIDE DEF none
  <1>3. PICK rows \in InitialRows, source \in Storage :
          /\ stored = [s \in Storage |-> IF s = source THEN rows ELSE NoRows]
          /\ SameHybrid(rows)
    BY DEF StartupInit
  <1>4. DOMAIN NoRows = {}
    BY DEF NoRows
  <1>5. \A s \in Storage : \A id \in DOMAIN stored[s] : id \in DOMAIN rows /\ stored[s][id] = rows[id]
    BY <1>3, <1>4
  <1>6. PICK ids \in SUBSET ID : rows \in [ids -> Row] /\ \A id \in ids : rows[id] \in RowsUnder(id)
    BY <1>3 DEF InitialRows
  <1>7. \A id \in DOMAIN rows : id \in ID /\ id \in rows[id].hashes
    <2>1. ASSUME NEW id \in DOMAIN rows PROVE id \in ID /\ id \in rows[id].hashes
      <3>1. id \in ID /\ rows[id] \in RowsUnder(id)
        BY <1>6
      <3> QED
        BY <3>1, UnreadableType DEF RowsUnder
    <2> QED
      BY <2>1
  <1>8. KeyedRows(stored)
    BY <1>5, <1>7 DEF KeyedRows
  <1>9. KnownHashes = StoredHashes(stored)
    BY <1>1, <1>2 DEF KnownHashes, UsedHashes, JobHashes, LoadedHashes, RowHashes, NativeHashes
  <1>10. ASSUME NEW a \in KnownHashes, NEW b \in KnownHashes, ContentOf(a) = ContentOf(b)
         PROVE  IsHybrid(a) <=> IsHybrid(b)
    <2>1. PICK i \in DOMAIN rows : rows[i].readable /\ rows[i].hashes = a
      BY <1>5, <1>9 DEF StoredHashes
    <2>2. PICK j \in DOMAIN rows : rows[j].readable /\ rows[j].hashes = b
      BY <1>5, <1>9 DEF StoredHashes
    <2>3. a \in InfoHash /\ b \in InfoHash
      BY <1>9 DEF StoredHashes
    <2>4. i[1] = ContentOf(a) /\ j[1] = ContentOf(b)
      BY <1>7, <2>1, <2>2, <2>3, HashesKnown
    <2>5. IsHybrid(rows[i].hashes) = IsHybrid(rows[j].hashes)
      BY <1>3, <1>10, <2>1, <2>2, <2>4 DEF SameHybrid
    <2> QED
      BY <2>1, <2>2, <2>5
  <1>11. Alike
    BY <1>1, <1>2, <1>8, <1>10 DEF Alike, KeyedJobs, KeyedLoaded
  <1>12. Unused
    BY <1>1, <1>2 DEF Unused, Distinct
  <1>13. ApartRows(adding, natives) /\ Handles
    BY <1>1, <1>2 DEF ApartRows, Handles, DistinctHandles, Answers
  <1> QED
    BY <1>11, <1>12, <1>13 DEF OneTorrent

-----------------------------------------------------------------------------
(* The handles.                                                            *)

\* A new native torrent is announced once, with its own handle.
LEMMA AddNativeHandles ==
    ASSUME Types, RowsPart, Handles, AddNative
    PROVE  Handles'
  <1> USE DEF userVars
  <1> DEFINE k == Len(natives) + 1
             x == NativeAlert("added", k, Head(adding))
             y == NativeAlert("rejected", k, Head(adding))
  <1>1. natives \in Seq(Native) /\ posted \in Seq(Alert)
    BY DEF Types
  <1>2. k \in Nat /\ k \notin DOMAIN natives
    BY <1>1, LenProperties
  <1>3. x \in Alert /\ y \in Alert
    BY <1>2, NewNative DEF NativeAlert, Alert
  <1>4. x.handle = k /\ x.type = "added" /\ y.type # "added"
    BY DEF NativeAlert
  <1>5. UNCHANGED <<batch, restored>> /\ (Post(<<x>> \o <<y>>) \/ Post(<<x>> \o <<>>))
    BY NewNative DEF AddNative
  <1>6. posted' = posted \o (<<x>> \o <<y>>) \/ posted' = posted \o (<<x>> \o <<>>)
    BY <1>5 DEF Post
  <1> HIDE DEF x, y
  <1>7. PICK a \in Seq(Alert) : /\ posted' = posted \o a
                                /\ \A i \in DOMAIN a : i = 1 \/ a[i].type # "added"
                                /\ 1 \in DOMAIN a /\ a[1] = x
    <2> DEFINE u == <<x>>
               v == <<y>>
               none == <<>>
    <2>1. /\ u \in Seq(Alert) /\ v \in Seq(Alert) /\ none \in Seq(Alert)
          /\ DOMAIN none = {}
      BY <1>3
    <2>2. /\ DOMAIN u = {1} /\ DOMAIN v = {1} /\ u[1] = x /\ v[1] = y
          /\ Len(u) = 1
      OBVIOUS
    <2> HIDE DEF u, v, none
    <2>3. ASSUME NEW w \in {v, none}, posted' = posted \o (u \o w)
          PROVE  \E a \in Seq(Alert) : /\ posted' = posted \o a
                                       /\ \A i \in DOMAIN a : i = 1 \/ a[i].type # "added"
                                       /\ 1 \in DOMAIN a /\ a[1] = x
      <3> DEFINE r == u \o w
      <3>1. w \in Seq(Alert)
        BY <2>1
      <3>2. /\ r \in Seq(Alert) /\ Len(w) \in Nat /\ DOMAIN r = 1 .. Len(u) + Len(w)
            /\ r[1] = u[1]
            /\ \A i \in DOMAIN r : i \in DOMAIN u \/ (i - Len(u) \in DOMAIN w /\ r[i] = w[i - Len(u)])
        BY <2>1, <2>2, <3>1, ConcatElements
      <3> HIDE DEF r
      <3>3. ASSUME NEW i \in DOMAIN r, i # 1
            PROVE  r[i].type # "added"
        <4>1. i - Len(u) \in DOMAIN w /\ r[i] = w[i - Len(u)]
          BY <2>2, <3>2, <3>3
        <4>3. w = v \/ w = none
          BY <2>3
        <4>4. w = v
          BY <2>1, <4>1, <4>3
        <4>2. w = v /\ i - Len(u) = 1
          BY <2>2, <4>1, <4>4
        <4> QED
          BY <1>4, <2>2, <4>1, <4>2
      <3>4. 1 \in DOMAIN r
        BY <2>2, <3>2
      <3>5. posted' = posted \o r
        BY <2>3 DEF r
      <3> QED
        BY <2>2, <3>2, <3>3, <3>4, <3>5
    <2>4. posted' = posted \o (u \o v) \/ posted' = posted \o (u \o none)
      BY <1>6 DEF u, v, none
    <2> QED
      BY <2>3, <2>4
  <1> DEFINE p == posted \o a
             new == Len(posted) + 1
  <1>8. /\ \A i \in Answers(p) : (i = new /\ p[i] = x) \/ (i \in Answers(posted) /\ p[i] = posted[i])
        /\ \A i \in Answers(posted) : posted[i].handle \in DOMAIN natives
    <2>1. /\ Len(posted) \in Nat
          /\ \A i \in DOMAIN p : \/ i \in DOMAIN posted /\ p[i] = posted[i]
                                 \/ i - Len(posted) \in DOMAIN a /\ p[i] = a[i - Len(posted)]
          /\ DOMAIN p = 1 .. Len(posted) + Len(a) /\ Len(a) \in Nat
      BY <1>1, <1>7, ConcatElements
    <2>2. OfNatives(posted, natives)
      BY DEF Types
    <2> HIDE DEF p
    <2>3. ASSUME NEW i \in Answers(p)
          PROVE  (i = new /\ p[i] = x) \/ (i \in Answers(posted) /\ p[i] = posted[i])
      <3>1. i \in DOMAIN p /\ p[i].type = "added" /\ i \in Int
        BY <2>1, <2>3 DEF Answers
      <3>2. CASE i \in DOMAIN posted /\ p[i] = posted[i]
        BY <3>1, <3>2 DEF Answers
      <3>3. CASE i - Len(posted) \in DOMAIN a /\ p[i] = a[i - Len(posted)]
        <4>1. i - Len(posted) = 1
          BY <1>7, <3>1, <3>3
        <4>2. p[i] = x
          BY <1>7, <3>3, <4>1
        <4>3. i = new
          BY <2>1, <3>1, <4>1
        <4> QED
          BY <4>2, <4>3
      <3> QED
        BY <2>1, <3>1, <3>2, <3>3
    <2> QED
      BY <2>2, <2>3 DEF OfNatives, Answers
  <1>9. /\ \A i \in DOMAIN restored : restored[i].handle \in DOMAIN natives
        /\ \A i \in Answers(batch) : batch[i].handle \in DOMAIN natives
    BY DEF Types, OfNatives, Answers
  <1> HIDE DEF p, new, k
  <1>10. DistinctHandles(p, batch, restored)
    BY <1>2, <1>4, <1>8, <1>9 DEF Handles, DistinctHandles
  <1> QED
    BY <1>5, <1>7, <1>10 DEF p, Handles

\* The main thread fetches the alerts when it has read those before.
LEMMA MainHandles ==
    ASSUME Types, Control, Handles, MainStep
    PROVE  Handles'
  <1> USE DEF diskVars, startVars, loadVars, nativeVars, userVars
  <1>1. CASE FetchAlerts
    <2>1. posted' = <<>> /\ batch' = posted /\ restored' = restored
      BY <1>1 DEF FetchAlerts
    <2>2. DOMAIN <<>> = {}
      OBVIOUS
    <2>3. Answers(posted') = {}
      BY <2>1, <2>2 DEF Answers
    <2> QED
      BY <2>1, <2>3 DEF Handles, DistinctHandles
  <1>2. CASE ~FetchAlerts
    <2>1. UNCHANGED <<posted, batch, restored>>
      BY <1>2
         DEF MainStep, BeginHandling, HandleWithoutContext, NoteLoadFinished, SkipNext, ProcessNext,
             PauseHandling, AwaitAlerts, AwaitData, EndStartup, DeleteStorage, DeleteContext, AlertsRead
    <2> QED
      BY <2>1 DEF Handles
  <1> QED
    BY <1>1, <1>2

\* The alerts of the batch are read one by one: an "added" makes a torrent.
LEMMA ReadAnswers ==
    ASSUME Types, batch # <<>>
    PROVE  /\ \A i \in Answers(Tail(batch)) :
                 i \in Int /\ i + 1 \in Answers(batch) /\ i + 1 # 1 /\ Tail(batch)[i] = batch[i + 1]
           /\ Head(batch) = batch[1]
           /\ Head(batch).type = "added" => 1 \in Answers(batch)
  <1> DEFINE t == Tail(batch)
  <1>1. /\ Head(batch) = batch[1] /\ 1 \in DOMAIN batch
        /\ \A i \in DOMAIN t : i + 1 \in DOMAIN batch /\ t[i] = batch[i + 1]
        /\ Len(batch) \in Nat /\ DOMAIN t = 1 .. Len(batch) - 1
    BY TailElements DEF Types
  <1> HIDE DEF t
  <1>2. ASSUME NEW i \in Answers(t)
        PROVE  i \in Int /\ i + 1 \in Answers(batch) /\ i + 1 # 1 /\ t[i] = batch[i + 1]
    <2>1. i \in DOMAIN t /\ t[i].type = "added"
      BY DEF Answers
    <2> QED
      BY <1>1, <2>1 DEF Answers
  <1> QED
    BY <1>1, <1>2 DEF t, Answers

LEMMA RestoredHandles ==
    ASSUME Types, Handles, TorrentRestored
    PROVE  Handles'
  <1> DEFINE a == Head(batch)
             t == Tail(batch)
             x == [handle |-> a.handle, row |-> a.row]
             r == Append(restored, x)
             k == Len(restored) + 1
  <1>1. /\ batch # <<>> /\ a.type = "added" /\ posted' = posted /\ batch' = t /\ restored' = r
    BY DEF TorrentRestored, CanReadAlert
  <1>2. /\ \A i \in Answers(t) : i \in Int /\ i + 1 \in Answers(batch) /\ i + 1 # 1 /\ t[i] = batch[i + 1]
        /\ a = batch[1] /\ 1 \in Answers(batch)
    BY <1>1, ReadAnswers
  <1>3. x \in Restored /\ x.handle = a.handle
    BY <1>1, BatchType DEF Restored
  <1> HIDE DEF x
  <1>4. \A i \in DOMAIN r : (i \in DOMAIN restored /\ r[i] = restored[i]) \/ (i = k /\ r[i] = x)
    BY <1>3, AppendElements DEF Types
  <1> HIDE DEF t, r, k
  <1>5. \A i \in Answers(posted) : posted[i].handle # a.handle
    BY <1>2 DEF Handles, DistinctHandles
  <1>6. \A i \in Answers(t) : t[i].handle # a.handle
    BY <1>2 DEF Handles, DistinctHandles
  <1>7. \A i \in DOMAIN restored : restored[i].handle # a.handle
    BY <1>2 DEF Handles, DistinctHandles
  <1>8. ASSUME NEW i \in Answers(t), NEW j \in Answers(t), t[i].handle = t[j].handle
        PROVE  i = j
    <2>1. i + 1 = j + 1
      BY <1>2, <1>8 DEF Handles, DistinctHandles
    <2> QED
      BY <1>2, <2>1
  <1>9. \A i, j \in DOMAIN r : r[i].handle = r[j].handle => i = j
    BY <1>3, <1>4, <1>7 DEF Handles, DistinctHandles
  <1>10. /\ \A i \in Answers(posted), j \in Answers(t) : posted[i].handle # t[j].handle
         /\ \A i \in Answers(posted), j \in DOMAIN r : posted[i].handle # r[j].handle
    BY <1>2, <1>3, <1>4, <1>5 DEF Handles, DistinctHandles
  <1>11. \A i \in Answers(t), j \in DOMAIN r : t[i].handle # r[j].handle
    BY <1>2, <1>3, <1>4, <1>6 DEF Handles, DistinctHandles
  <1> QED
    BY <1>1, <1>8, <1>9, <1>10, <1>11 DEF Handles, DistinctHandles

\* The batch without its first alert.
LEMMA FewerAnswers ==
    ASSUME Types, batch # <<>>, Handles
    PROVE  DistinctHandles(posted, Tail(batch), restored)
  <1> DEFINE t == Tail(batch)
  <1>1. \A i \in Answers(t) : i \in Int /\ i + 1 \in Answers(batch) /\ t[i] = batch[i + 1]
    BY ReadAnswers
  <1> HIDE DEF t
  <1>2. ASSUME NEW i \in Answers(t), NEW j \in Answers(t), t[i].handle = t[j].handle
        PROVE  i = j
    <2>1. i + 1 = j + 1
      BY <1>1, <1>2 DEF Handles, DistinctHandles
    <2> QED
      BY <1>1, <2>1
  <1>3. DistinctHandles(posted, t, restored)
    BY <1>1, <1>2 DEF Handles, DistinctHandles
  <1> QED
    BY <1>3 DEF t

\* A reloaded torrent has the handle of the native torrent that replaces the old
\* one, and is not made again.
LEMMA ReloadHandles ==
    ASSUME Types, Handles, ReloadRestored
    PROVE  Handles'
  <1> DEFINE t == Tail(batch)
             old == Head(batch).handle
             k == Len(natives) + 1
             x == NativeAlert("reloaded", k, natives[old].row)
             p == posted \o <<x>>
  <1>1. /\ batch # <<>> /\ batch' = t /\ Post(<<x>>)
        /\ restored' = [i \in DOMAIN restored |->
             IF restored[i].handle = old THEN [restored[i] EXCEPT !.handle = k] ELSE restored[i]]
    BY DEF ReloadRestored, CanReadAlert
  <1>2. x \in Alert /\ x.type # "added" /\ k \notin DOMAIN natives
    BY ReloadedNatives DEF NativeAlert
  <1>3. DistinctHandles(posted, t, restored)
    BY <1>1, FewerAnswers
  <1>4. /\ OfNatives(posted, natives) /\ OfNatives(t, natives) /\ OfNatives(restored, natives)
        /\ \A i \in DOMAIN restored : restored[i] \in Restored
    BY <1>1, BatchType, LenProperties, ElementOfSeq DEF Types
  <1>5. posted' = p
    BY <1>1 DEF Post
  <1> HIDE DEF x, t
  <1>6. \A i \in Answers(p) : i \in Answers(posted) /\ p[i] = posted[i]
    <2> DEFINE s == <<x>>
    <2>1. s \in Seq(Alert) /\ DOMAIN s = {1} /\ s[1] = x
      BY <1>2
    <2>2. p = posted \o s
      OBVIOUS
    <2> HIDE DEF s, p
    <2>3. \A i \in DOMAIN p : \/ i \in DOMAIN posted /\ p[i] = posted[i]
                              \/ i - Len(posted) \in DOMAIN s /\ p[i] = s[i - Len(posted)]
      BY <2>1, <2>2, ConcatElements DEF Types
    <2>4. \A i \in DOMAIN p : (i \in DOMAIN posted /\ p[i] = posted[i]) \/ p[i] = x
      BY <2>1, <2>3
    <2> QED
      BY <1>2, <2>4 DEF Answers
  <1> HIDE DEF p, k, old
  <1>7. /\ DOMAIN restored' = DOMAIN restored
        /\ \A i \in DOMAIN restored :
             \/ restored[i].handle = old /\ restored'[i].handle = k
             \/ restored[i].handle # old /\ restored'[i].handle = restored[i].handle
    BY <1>1, <1>4 DEF Restored
  <1>8. \A i, j \in DOMAIN restored' : restored'[i].handle = restored'[j].handle => i = j
    BY <1>2, <1>3, <1>4, <1>7 DEF Handles, DistinctHandles, OfNatives
  <1>9. /\ \A i \in Answers(p) : p[i].handle \in DOMAIN natives
        /\ \A i \in Answers(t) : t[i].handle \in DOMAIN natives
    BY <1>4, <1>6 DEF OfNatives, Answers
  <1>10. /\ \A i \in Answers(p), j \in DOMAIN restored' : p[i].handle # restored'[j].handle
         /\ \A i \in Answers(t), j \in DOMAIN restored' : t[i].handle # restored'[j].handle
    BY <1>2, <1>3, <1>6, <1>7, <1>9 DEF Handles, DistinctHandles
  <1>11. /\ \A i, j \in Answers(p) : p[i].handle = p[j].handle => i = j
         /\ \A i, j \in Answers(t) : t[i].handle = t[j].handle => i = j
         /\ \A i \in Answers(p), j \in Answers(t) : p[i].handle # t[j].handle
    BY <1>3, <1>6 DEF Handles, DistinctHandles
  <1>12. DistinctHandles(p, t, restored')
    BY <1>8, <1>10, <1>11 DEF Handles, DistinctHandles
  <1> QED
    BY <1>1, <1>5, <1>12 DEF Handles

\* A torrent that is removed leaves the handles of the others; when the process
\* ends there are none.
LEMMA RestHandles ==
    ASSUME Types, Handles,
           \/ PerformStorageJob \/ (\E i \in DOMAIN restored : RemoveRestored(i))
           \/ ProgramExit \/ ProgramCrash
    PROVE  Handles'
  <1> USE DEF nativeVars, userVars
  <1>1. CASE PerformStorageJob
    BY <1>1 DEF PerformStorageJob, Handles
  <1>2. ASSUME NEW k \in DOMAIN restored, RemoveRestored(k)
        PROVE  Handles'
    <2> DEFINE r == RemoveAt(restored, k)
    <2>1. posted' = posted /\ batch' = batch /\ restored' = r
      BY <1>2 DEF RemoveRestored
    <2>2. /\ k \in Int
          /\ \A i \in DOMAIN r :
                LET j == IF i < k THEN i ELSE i + 1
                IN  i \in Nat /\ j \in DOMAIN restored \ {k} /\ r[i] = restored[j]
      BY RemoveAtElements, LenProperties DEF Types
    <2> HIDE DEF r
    <2>3. ASSUME NEW i \in DOMAIN r, NEW j \in DOMAIN r, r[i].handle = r[j].handle
          PROVE  i = j
      <3> DEFINE m == IF i < k THEN i ELSE i + 1
                 n == IF j < k THEN j ELSE j + 1
      <3>1. /\ i \in Nat /\ m \in DOMAIN restored /\ r[i] = restored[m]
            /\ j \in Nat /\ n \in DOMAIN restored /\ r[j] = restored[n]
        BY <2>2
      <3>2. m = n => i = j
        BY <2>2, <3>1
      <3> HIDE DEF m, n
      <3>3. m = n
        BY <2>3, <3>1 DEF Handles, DistinctHandles
      <3> QED
        BY <3>2, <3>3
    <2>4. \A i \in DOMAIN r : \E j \in DOMAIN restored : r[i] = restored[j]
      BY <2>2
    <2>5. /\ \A i \in Answers(posted), j \in DOMAIN r : posted[i].handle # r[j].handle
          /\ \A i \in Answers(batch), j \in DOMAIN r : batch[i].handle # r[j].handle
      BY <2>4 DEF Handles, DistinctHandles
    <2>6. DistinctHandles(posted, batch, r)
      BY <2>3, <2>5 DEF Handles, DistinctHandles
    <2> QED
      BY <2>1, <2>6 DEF Handles
  <1>3. CASE ProgramExit \/ ProgramCrash
    <2>1. posted' = <<>> /\ batch' = <<>> /\ restored' = <<>>
      BY <1>3 DEF ProgramExit, ProgramCrash, ProcessEnds
    <2>2. DOMAIN <<>> = {}
      OBVIOUS
    <2> QED
      BY <2>1, <2>2 DEF Handles, DistinctHandles, Answers
  <1> QED
    BY <1>1, <1>2, <1>3

-----------------------------------------------------------------------------
(* The theorem.                                                            *)

LEMMA NextOneTorrent ==
    ASSUME Types, Control, OneTorrent, [StartupNext]_startupVars
    PROVE  OneTorrent'
  <1>1. RowsPart /\ Handles
    BY DEF OneTorrent, RowsPart
  <1> SUFFICES RowsPart' /\ Handles'
    BY DEF OneTorrent, RowsPart
  <1>2. ASSUME NEW type \in Storage, PrepareStartup(type)
        PROVE  RowsPart' /\ Handles'
    BY <1>1, <1>2, PrepareRows
  <1>3. CASE LoaderStep
    <2>1. UNCHANGED <<posted, batch, restored>>
      BY <1>3 DEF LoaderStep, LoadStarted, LoadNext, LoadFinished, nativeVars, userVars
    <2> QED
      BY <1>1, <1>3, <2>1, LoaderRows DEF Handles
  <1>4. CASE MainStep
    BY <1>1, <1>4, MainRows, MainHandles
  <1>5. CASE AddNative
    BY <1>1, <1>5, AddNativeRows, AddNativeHandles
  <1>6. CASE AlertStep
    <2>1. RowsPart'
      BY <1>1, <1>6, AlertRows
    <2>2. CASE IgnoreReloaded
      <3>1. posted' = posted /\ restored' = restored /\ batch' = Tail(batch) /\ batch # <<>>
        BY <2>2 DEF IgnoreReloaded, CanReadAlert, userVars
      <3> QED
        BY <1>1, <2>1, <3>1, FewerAnswers DEF Handles
    <2> QED
      BY <1>1, <1>6, <2>1, <2>2, RestoredHandles, ReloadHandles DEF AlertStep
  <1>7. CASE \/ PerformStorageJob \/ (\E i \in DOMAIN restored : RemoveRestored(i))
             \/ ProgramExit \/ ProgramCrash
    BY <1>1, <1>7, RestRows, RestHandles
  <1>8. CASE UNCHANGED startupVars
    <2>1. UNCHANGED <<stored, jobs, adding, natives, loading, loadedData, context, events,
                      posted, batch, restored>>
      BY <1>8 DEF startupVars, diskVars, startVars, loadVars, nativeVars, userVars
    <2>2. Waiting' = Waiting /\ Unstarted' = Unstarted
      BY <2>1 DEF Waiting, Unstarted
    <2> QED
      BY <1>1, <2>1, <2>2, RowsKept DEF Handles
  <1> QED
    BY <1>2, <1>3, <1>4, <1>5, <1>6, <1>7, <1>8 DEF StartupNext

LEMMA SameIncident == [StartupNext]_startupVars => incident' = incident
  BY DEF StartupNext, LoaderStep, MainStep, AlertStep, PrepareStartup, LoadStarted, LoadNext,
         LoadFinished, BeginHandling, HandleWithoutContext, NoteLoadFinished, SkipNext, ProcessNext,
         PauseHandling, AwaitAlerts, AwaitData, EndStartup, DeleteStorage, DeleteContext,
         FetchAlerts, AlertsRead, AddNative, TorrentRestored, ReloadRestored, IgnoreReloaded,
         PerformStorageJob, RemoveRestored, ProgramExit, ProgramCrash, ProcessEnds,
         startVars, startupVars

\* handleLoadedResumeData passes over the IDs in skippedIDs: "skip the attempt to
\* load it".  When the rows of one hybrid torrent were all written knowing one
\* hash, or all knowing both, no torrent is made twice, under neither of its IDs,
\* at no start, whatever was migrated, reloaded, removed or crashed before.
THEOREM RestoredOnlyOnce == StartupSpec => [](incident # "leftover" => RestoredOnce)
  <1> DEFINE Once == incident # "leftover" => OneTorrent
             I == Types /\ Control /\ Once
  <1>1. StartupInit => I
    BY InitTypes, InitControl, InitRows
  <1>2. I /\ [StartupNext]_startupVars => I'
    <2> SUFFICES ASSUME I, [StartupNext]_startupVars PROVE I'
      OBVIOUS
    <2>1. Types' /\ Control'
      BY NextTypes, NextControl
    <2>2. ASSUME incident' # "leftover" PROVE OneTorrent'
      BY <2>2, SameIncident, NextOneTorrent
    <2> QED
      BY <2>1, <2>2
  <1>3. I => (incident # "leftover" => RestoredOnce)
    BY DEF OneTorrent, Handles, DistinctHandles, RestoredOnce
  <1> HIDE DEF I
  <1> QED
    BY <1>1, <1>2, <1>3, PTL DEF StartupSpec

-----------------------------------------------------------------------------
(* Where the rows are in the course of a start, torrents that are reloaded *)
(* included.                                                               *)

Deletions == {"delete storage", "delete context"}

\* All rows are taken before the startup ends, and nothing is deleted until then.
Drained ==
    IF phase = "startup" THEN \A type \in Deletions : ~Has(events, type)
    ELSE NotLoading /\ Waiting = <<>>

\* The rows that can still make a torrent.
Fresh == Pending \ context.skipped

\* The steps that leave the rows alone, and those that end the startup.
QuietAction ==
    \/ LoadStarted \/ LoadFinished
    \/ BeginHandling \/ HandleWithoutContext \/ NoteLoadFinished
    \/ PauseHandling \/ AwaitAlerts \/ AwaitData
    \/ FetchAlerts \/ AlertsRead
    \/ AddNative \/ AlertStep
    \/ UNCHANGED startupVars

EndingAction == EndStartup \/ DeleteContext

Quiet ==
    /\ UNCHANGED <<stored, dbExists, storageType, startupStorage, jobs, owned, removed>>
    /\ Waiting' = Waiting /\ loading'.todo = loading.todo
    /\ Pending' = Pending /\ Fresh' = Fresh
    /\ phase' = "off" <=> phase = "off"

\* A deletion waits as long as it is not handled.
LEMMA SameDeletions ==
    ASSUME Types,
           \/ events' = events
           \/ \E type \in EventType \ Deletions, ids \in SUBSET ID : events' = Append(events, Event(type, ids))
           \/ \E type : type \notin Deletions /\ CanHandle(type) /\ events' = Tail(events)
    PROVE  \A t \in Deletions : Has(events', t) <=> Has(events, t)
  <1>1. CASE events' = events
    BY <1>1
  <1>2. ASSUME NEW type \in EventType \ Deletions, NEW ids \in SUBSET ID,
               events' = Append(events, Event(type, ids))
        PROVE  \A t \in Deletions : Has(events', t) <=> Has(events, t)
    <2>1. Behind(events', events, type, ids)
      BY <1>2, Queued
    <2> QED
      BY <1>2, <2>1 DEF Behind
  <1>3. ASSUME NEW type, type \notin Deletions, CanHandle(type), events' = Tail(events)
        PROVE  \A t \in Deletions : Has(events', t) <=> Has(events, t)
    BY <1>3, Handled
  <1> QED
    BY <1>1, <1>2, <1>3

LEMMA QuietDeletions ==
    ASSUME Types, QuietAction
    PROVE  \A t \in Deletions : Has(events', t) <=> Has(events, t)
  <1> USE DEF diskVars, startVars, loadVars, nativeVars, userVars
  <1>0. /\ {} \in SUBSET ID
        /\ {"started", "finished", "handle", "alerts"} \subseteq EventType \ Deletions
    BY DEF EventType, Deletions
  <1>1. CASE LoadStarted
    <2>1. ToSet(loading.todo) \in SUBSET ID
      <3>1. loading.todo \in Seq(ID)
        BY DEF Types, Loading
      <3>2. \A i \in DOMAIN loading.todo : loading.todo[i] \in ID
        BY <3>1, LenProperties, ElementOfSeq
      <3> QED
        BY <3>2 DEF ToSet
    <2> QED
      BY <1>0, <1>1, <2>1, SameDeletions DEF LoadStarted
  <1>2. CASE LoadFinished \/ AwaitData
    BY <1>0, <1>2, SameDeletions DEF LoadFinished, AwaitData, EventsWithHandling
  <1>3. CASE BeginHandling \/ HandleWithoutContext \/ NoteLoadFinished \/ FetchAlerts
    <2>1. \E type : type \notin Deletions /\ CanHandle(type) /\ events' = Tail(events)
      BY <1>3 DEF BeginHandling, HandleWithoutContext, NoteLoadFinished, FetchAlerts, Deletions
    <2> QED
      BY <2>1, SameDeletions
  <1>4. CASE PauseHandling \/ AwaitAlerts \/ AlertsRead \/ UNCHANGED startupVars
    BY <1>4, SameDeletions DEF PauseHandling, AwaitAlerts, AlertsRead, startupVars
  <1>5. CASE AddNative \/ ReloadRestored
    <2>1. events' = events \/ events' = Append(events, Event("alerts", {}))
      BY <1>5 DEF AddNative, ReloadRestored, Post
    <2> QED
      BY <1>0, <2>1, SameDeletions
  <1>6. CASE TorrentRestored \/ IgnoreReloaded
    <2>1. events' = events \/ events' = Append(events, Event("handle", {}))
      BY <1>6 DEF TorrentRestored, IgnoreReloaded, AlertReceived, EventsWithHandling
    <2> QED
      BY <1>0, <2>1, SameDeletions
  <1> QED
    BY <1>1, <1>2, <1>3, <1>4, <1>5, <1>6 DEF QuietAction, AlertStep

\* At the end of the startup nothing is left to load.
LEMMA NothingLeft ==
    ASSUME Types, Available = <<>>
    PROVE  Waiting = <<>>
  <1>1. context.loaded = <<>> /\ loadedData = <<>>
    BY DEF Available
  <1> QED
    BY <1>1 DEF Waiting

LEMMA NonePending == PendingIDs(<<>>, <<>>) = {}
  <1>1. DOMAIN <<>> = {}
    OBVIOUS
  <1> QED
    BY <1>1 DEF PendingIDs

LEMMA QuietRows ==
    ASSUME Types, Control, Drained, QuietAction \/ EndingAction
    PROVE  Quiet /\ (phase = "startup" => phase' = "startup" \/ EndStartup)
                 /\ (phase # "startup" => phase' # "startup")
  <1> USE DEF diskVars, startVars, loadVars, nativeVars, userVars
  <1>0. context \in SessionContext
    BY DEF Types
  <1>1. CASE DeleteContext
    <2>1. Has(events, "delete context") /\ events # <<>>
      BY <1>1, Handled DEF DeleteContext
    <2>2. phase # "startup" /\ phase # "off" /\ phase' = "running"
      BY <1>1, <2>1 DEF Drained, Deletions, Control, AtRest, DeleteContext
    <2>3. NotLoading /\ Waiting = <<>>
      BY <2>2 DEF Drained
    <2>4. context' = NoContext /\ UNCHANGED <<stored, dbExists, storageType, startupStorage, jobs, owned, removed, loading, loadedData>>
      BY <1>1 DEF DeleteContext
    <2>5. Waiting' = <<>>
      <3>1. loadedData = <<>>
        <4>1. context.loaded \in Seq(Loaded) /\ loadedData \in Seq(Loaded)
          BY DEF Types, SessionContext
        <4>2. Len(Waiting) = Len(context.loaded) + Len(loadedData) /\ Len(Waiting) = 0
              /\ Len(context.loaded) \in Nat /\ Len(loadedData) \in Nat
          <5>1. Len(Waiting) = Len(context.loaded) + Len(loadedData)
                /\ Len(context.loaded) \in Nat /\ Len(loadedData) \in Nat
            BY <4>1, ConcatElements DEF Waiting
          <5>2. Len(Waiting) = 0
            BY <2>3, EmptySeq
          <5> QED
            BY <5>1, <5>2
        <4>3. Len(loadedData) = 0
          <5>1. \A m, n \in Nat : m + n = 0 => n = 0
            OBVIOUS
          <5> QED
            BY <4>2, <5>1
        <4>4. \A seq \in Seq(Loaded) : seq # <<>> => Len(seq) \in Nat \ {0}
          BY EmptySeq, Zenon
        <4> QED
          BY <4>1, <4>3, <4>4
      <3>2. context'.loaded = <<>>
        BY <2>4 DEF NoContext
      <3> QED
        BY <2>4, <3>1, <3>2 DEF Waiting
    <2>6. Pending = {} /\ Pending' = {}
      <3>1. loading.todo = <<>> /\ loading' = loading
        BY <2>3, <2>4 DEF NotLoading
      <3> QED
        BY <2>3, <2>5, <3>1, NonePending DEF Pending
    <2> QED
      BY <2>2, <2>3, <2>4, <2>5, <2>6 DEF Quiet, Fresh
  <1>2. CASE ~DeleteContext
    <2>1. /\ UNCHANGED <<stored, dbExists, storageType, startupStorage, jobs, owned, removed, loadedData>>
          /\ loading'.todo = loading.todo
      BY <1>2 DEF QuietAction, EndingAction, AlertStep, LoadStarted, LoadFinished, BeginHandling,
           HandleWithoutContext, NoteLoadFinished, PauseHandling, AwaitAlerts, AwaitData, FetchAlerts,
           AlertsRead, AddNative, TorrentRestored, ReloadRestored, IgnoreReloaded, EndStartup, startupVars,
           Types, Loading
    <2>2. context'.loaded = context.loaded /\ context'.skipped = context.skipped
      <3>1. CASE TorrentRestored \/ IgnoreReloaded
        <4>1. AlertReceived
          BY <3>1 DEF TorrentRestored, IgnoreReloaded
        <4> QED
          BY <4>1, ReceivedContext
      <3>2. CASE ~(TorrentRestored \/ IgnoreReloaded)
        BY <1>0, <1>2, <3>2 DEF QuietAction, EndingAction, AlertStep, LoadStarted, LoadFinished, BeginHandling,
           HandleWithoutContext, NoteLoadFinished, PauseHandling, AwaitAlerts, AwaitData, FetchAlerts,
           AlertsRead, AddNative, ReloadRestored, EndStartup, startupVars, Enqueued, SessionContext
      <3> QED
        BY <3>1, <3>2
    <2>3. Waiting' = Waiting
      BY <2>1, <2>2 DEF Waiting
    <2>4. Pending' = Pending /\ Fresh' = Fresh
      BY <2>1, <2>2, <2>3 DEF Pending, Fresh
    <2>5. /\ phase' = "off" <=> phase = "off"
          /\ phase = "startup" => phase' = "startup" \/ EndStartup
          /\ phase # "startup" => phase' # "startup"
      <3>1. CASE HandleWithoutContext
        <4>1. events # <<>> /\ ~context.alive /\ phase' = "undefined"
          BY <3>1, Handled DEF HandleWithoutContext
        <4> QED
          BY <4>1 DEF Control, AtRest
      <3>2. CASE EndStartup
        <4>1. handling = "data" /\ phase' = "ending"
          BY <3>2 DEF EndStartup, Exhausted, CanProcess
        <4> QED
          BY <3>2, <4>1 DEF Control, AtRest
      <3>3. CASE ~HandleWithoutContext /\ ~EndStartup
        <4>1. phase' = phase
          BY <1>2, <3>3 DEF QuietAction, EndingAction, AlertStep, LoadStarted, LoadFinished, BeginHandling,
             NoteLoadFinished, PauseHandling, AwaitAlerts, AwaitData, FetchAlerts,
             AlertsRead, AddNative, TorrentRestored, ReloadRestored, IgnoreReloaded, startupVars
        <4> QED
          BY <4>1
      <3> QED
        BY <3>1, <3>2, <3>3
    <2> QED
      BY <2>1, <2>3, <2>4, <2>5 DEF Quiet
  <1> QED
    BY <1>1, <1>2

\* The steps of the rows.
RowAction ==
    \/ \E type \in Storage : PrepareStartup(type)
    \/ LoadNext \/ SkipNext \/ ProcessNext
    \/ PerformStorageJob
    \/ \E i \in DOMAIN restored : RemoveRestored(i)
    \/ ProgramExit \/ ProgramCrash

LEMMA StepKinds ==
    [StartupNext]_startupVars => QuietAction \/ EndingAction \/ DeleteStorage \/ RowAction
  BY DEF StartupNext, LoaderStep, MainStep, AlertStep, QuietAction, EndingAction, RowAction

LEMMA DrainedKept ==
    ASSUME Types, Control, Drained, QuietAction \/ EndingAction \/ DeleteStorage \/ RowAction
    PROVE  Drained'
  <1> USE DEF diskVars, startVars, loadVars, nativeVars, userVars
  <1>1. CASE QuietAction
    <2>1. Quiet /\ (phase = "startup" => phase' = "startup" \/ EndStartup) /\ (phase # "startup" => phase' # "startup")
      BY <1>1, QuietRows
    <2>2. \A t \in Deletions : Has(events', t) <=> Has(events, t)
      BY <1>1, QuietDeletions
    <2>3. CASE phase = "startup" /\ phase' = "startup"
      BY <2>2, <2>3 DEF Drained
    <2>4. CASE phase # "startup"
      <3>1. NotLoading /\ Waiting = <<>>
        BY <2>4 DEF Drained
      <3>2. loading' = loading
        BY <1>1, <3>1 DEF QuietAction, AlertStep, LoadStarted, LoadFinished, BeginHandling,
             HandleWithoutContext, NoteLoadFinished, PauseHandling, AwaitAlerts, AwaitData, FetchAlerts,
             AlertsRead, AddNative, TorrentRestored, ReloadRestored, IgnoreReloaded, startupVars, NotLoading
      <3> QED
        BY <2>1, <2>4, <3>1, <3>2 DEF Drained, NotLoading, Quiet
    <2>5. CASE phase = "startup" /\ EndStartup
      <3>1. NotLoading /\ Waiting = <<>> /\ loading' = loading /\ phase' = "ending"
        BY <2>5, NothingLeft DEF EndStartup, Exhausted, Control
      <3> QED
        BY <2>1, <3>1 DEF Drained, NotLoading, Quiet
    <2> QED
      BY <2>1, <2>3, <2>4, <2>5
  <1>2. CASE EndStartup
    <2>1. NotLoading /\ Waiting = <<>> /\ loading' = loading /\ phase' = "ending"
      BY <1>2, NothingLeft DEF EndStartup, Exhausted, Control
    <2>2. Quiet
      BY <1>2, QuietRows DEF EndingAction
    <2> QED
      BY <2>1, <2>2 DEF Drained, NotLoading, Quiet
  <1>3. CASE DeleteContext
    <2>1. Quiet /\ phase' = "running" /\ loading' = loading
      BY <1>3, QuietRows DEF EndingAction, DeleteContext
    <2>2. phase # "startup"
      <3>1. Has(events, "delete context")
        BY <1>3, Handled DEF DeleteContext
      <3> QED
        BY <3>1 DEF Drained, Deletions
    <2> QED
      BY <2>1, <2>2 DEF Drained, NotLoading, Quiet
  <1>4. CASE DeleteStorage
    <2>1. Has(events, "delete storage")
      BY <1>4, Handled DEF DeleteStorage
    <2>2. phase # "startup" /\ UNCHANGED <<phase, loading, loadedData, context>>
      BY <1>4, <2>1 DEF Drained, Deletions, DeleteStorage
    <2> QED
      BY <2>2 DEF Drained, NotLoading, Waiting
  <1>5. ASSUME NEW type \in Storage, PrepareStartup(type) PROVE Drained'
    <2>1. phase' = "startup" /\ events' = <<>>
      BY <1>5 DEF PrepareStartup, Control, AtRest
    <2>2. DOMAIN events' = {}
      BY <2>1
    <2> QED
      BY <2>1, <2>2 DEF Drained, Has
  <1>6. CASE LoadNext
    <2>1. ~NotLoading /\ UNCHANGED <<phase, events>>
      BY <1>6 DEF LoadNext, NotLoading
    <2> QED
      BY <2>1 DEF Drained
  <1>7. CASE SkipNext \/ ProcessNext
    <2>1. Available # <<>> /\ context'.loaded = Tail(Available) /\ UNCHANGED <<phase, events>>
          /\ loadedData' = IF context.loaded = <<>> THEN <<>> ELSE loadedData
      BY <1>7 DEF SkipNext, ProcessNext, Types, SessionContext
    <2>2. Waiting # <<>>
      BY <2>1, TakeWaiting
    <2> QED
      BY <2>1, <2>2 DEF Drained
  <1>8. CASE PerformStorageJob \/ \E i \in DOMAIN restored : RemoveRestored(i)
    <2>1. UNCHANGED <<phase, events, loading, loadedData, context>>
      BY <1>8 DEF PerformStorageJob, RemoveRestored
    <2> QED
      BY <2>1 DEF Drained, NotLoading, Waiting
  <1>9. CASE ProgramExit \/ ProgramCrash
    <2>1. phase' = "off" /\ NotLoading' /\ context'.loaded = <<>> /\ loadedData' = <<>>
      BY <1>9 DEF ProgramExit, ProgramCrash, ProcessEnds, NotLoading, NoContext
    <2> QED
      BY <2>1 DEF Drained, Waiting
  <1> QED
    BY <1>1, <1>2, <1>3, <1>4, <1>5, <1>6, <1>7, <1>8, <1>9 DEF EndingAction, RowAction

\* The storage the next start reads is the one in use, or the other one is about
\* to be deleted.
InUse ==
    phase # "off" =>
      \/ dbExists <=> storageType = "db"
      \/ storageType = "files" /\ startupStorage = "db" /\ (phase = "startup" \/ Has(events, "delete storage"))

LEMMA InUseKept ==
    ASSUME Types, Control, Drained, InUse, QuietAction \/ EndingAction \/ DeleteStorage \/ RowAction
    PROVE  InUse'
  <1> USE DEF diskVars, startVars, loadVars, nativeVars, userVars
  <1>1. CASE QuietAction
    <2>1. Quiet /\ (phase = "startup" => phase' = "startup" \/ EndStartup)
      BY <1>1, QuietRows
    <2>2. Has(events', "delete storage") <=> Has(events, "delete storage")
      BY <1>1, QuietDeletions DEF Deletions
    <2>3. CASE EndStartup
      BY <2>1, <2>2, <2>3, EndingEvents DEF InUse, Quiet, Migrating
    <2> QED
      BY <2>1, <2>2, <2>3 DEF InUse, Quiet
  <1>2. CASE EndStartup
    <2>1. Quiet
      BY <1>2, QuietRows DEF EndingAction
    <2> QED
      BY <1>2, <2>1, EndingEvents DEF InUse, Quiet, Migrating
  <1>3. CASE DeleteContext
    <2>1. Quiet /\ phase # "startup" /\ CanHandle("delete context") /\ events' = Tail(events)
      <3>1. Has(events, "delete context")
        BY <1>3, Handled DEF DeleteContext
      <3> QED
        BY <1>3, <3>1, QuietRows DEF EndingAction, Drained, Deletions, DeleteContext
    <2>2. Has(events, "delete storage") => Has(events', "delete storage")
      BY <2>1, Handled
    <2> QED
      BY <2>1, <2>2 DEF InUse, Quiet
  <1>4. CASE DeleteStorage
    <2>1. storageType \in {"files", "db"} /\ UNCHANGED <<phase, storageType, startupStorage>>
      BY <1>4 DEF DeleteStorage, Types, Storage
    <2>2. storageType = "files" => ~dbExists'
      BY <1>4 DEF DeleteStorage
    <2>3. storageType = "db" => dbExists' = dbExists
      BY <1>4 DEF DeleteStorage
    <2> QED
      BY <2>1, <2>2, <2>3 DEF InUse
  <1>5. ASSUME NEW type \in Storage, PrepareStartup(type) PROVE InUse'
    BY <1>5 DEF PrepareStartup, InUse, Storage, Types
  <1>6. CASE \/ LoadNext \/ SkipNext \/ ProcessNext \/ PerformStorageJob
             \/ \E i \in DOMAIN restored : RemoveRestored(i)
    <2>1. UNCHANGED <<phase, events, dbExists, storageType, startupStorage>>
      BY <1>6 DEF LoadNext, SkipNext, ProcessNext, PerformStorageJob, RemoveRestored
    <2> QED
      BY <2>1 DEF InUse
  <1>7. CASE ProgramExit \/ ProgramCrash
    BY <1>7 DEF ProgramExit, ProgramCrash, ProcessEnds, InUse
  <1> QED
    BY <1>1, <1>2, <1>3, <1>4, <1>5, <1>6, <1>7 DEF EndingAction, RowAction

-----------------------------------------------------------------------------
(* Rows, jobs and IDs of one content, whatever the last exit left.         *)

\* What processing the row of an ID does concerns one content: its torrent, the
\* ID passed over and the IDs the jobs are about.
LEMMA RowProcessed ==
    ASSUME Types, KeyedRows(stored), NEW id \in ID, NEW row \in Row, id \in row.hashes
    PROVE  /\ Used(id, row) \in Row /\ ContentOf(Used(id, row).hashes) = id[1]
           /\ row.readable => Used(id, row).readable
           /\ row.readable /\ row.meta => Used(id, row).meta
           /\ \A x \in Skips(id, row) :
                /\ x \in ID /\ x[1] = id[1] /\ x # id
                /\ Load(x).readable /\ Load(x).meta => Used(id, row).meta
           /\ V1(row.hashes) \in ID /\ V1(row.hashes)[1] = id[1]
           /\ ToTorrentID(row.hashes) \in ID /\ ToTorrentID(row.hashes)[1] = id[1]
           /\ Old(id, row) \/ Migrating => ToTorrentID(row.hashes) \in Used(id, row).hashes
           /\ Old(id, row) => V1(row.hashes) = id /\ ToTorrentID(row.hashes) = V2(row.hashes)
           /\ ~Old(id, row) => ToTorrentID(row.hashes) = id
           /\ HasAlternative(id, row) =>
                ~Old(id, row) /\ V1(row.hashes) # id /\ Skips(id, row) = {V1(row.hashes)}
           /\ Old(id, row) /\ V2(row.hashes) \in context.indexed => V2(row.hashes) \in Skips(id, row)
  <1> DEFINE h == row.hashes
             a == V1(h)
             b == V2(h)
             to == ToTorrentID(h)
             used == Used(id, row)
  <1>1. h \in InfoHash /\ row.readable \in BOOLEAN /\ row.meta \in BOOLEAN
    BY DEF Row
  <1>2. /\ ContentOf(h) = id[1] /\ id \in {a, b} /\ to \in h /\ h \subseteq ID
        /\ IsHybrid(h) => a \in h /\ b \in h
    BY <1>1, HashesKnown
  <1>3. a = <<id[1], "v1">> /\ b = <<id[1], "v2">> /\ a # b /\ a[1] = id[1] /\ b[1] = id[1]
    BY <1>2 DEF V1, V2
  <1>4. to = IF b \in h THEN b ELSE a
    BY DEF ToTorrentID
  <1>5. Old(id, row) <=> id # to
    BY DEF Old
  <1>6. a \in ID
    BY <1>1, <1>2, <1>3, HashesKnown DEF ID
  <1> HIDE DEF a, b, to
  <1>7. Old(id, row) => id = a /\ to = b /\ b \in h
    BY <1>2, <1>3, <1>4, <1>5
  <1>8. HasAlternative(id, row) => ~Old(id, row) /\ id = b /\ Skips(id, row) = {a} /\ used = WithMetadata(row, Load(a))
    BY <1>2, <1>3, <1>4, <1>5 DEF HasAlternative, Skips, Used, a
  <1>9. \A x \in ID : Load(x) \in Row /\ x \in Load(x).hashes /\ ContentOf(Load(x).hashes) = x[1]
    BY LoadStored
  <1>10. HasPreferred(id, row) => /\ Old(id, row) /\ b \in ID /\ Skips(id, row) = {b}
                                  /\ used = IF Load(b).readable THEN WithMetadata(Load(b), row) ELSE row
    BY <1>2, <1>7, <1>8 DEF HasPreferred, Skips, Used, b
  <1>11. /\ used \in Row /\ ContentOf(used.hashes) = id[1]
         /\ row.readable => used.readable
         /\ row.readable /\ row.meta => used.meta
         /\ \A x \in Skips(id, row) :
              /\ x \in ID /\ x[1] = id[1] /\ x # id
              /\ Load(x).readable /\ Load(x).meta => used.meta
         /\ to \in used.hashes
    <2>1. CASE HasAlternative(id, row)
      <3>1. Load(a) \in Row
        BY <1>6, <1>9
      <3>2. /\ used \in Row /\ ContentOf(used.hashes) = id[1] /\ used.readable = row.readable
            /\ used.meta <=> row.meta \/ (Load(a).readable /\ Load(a).meta)
            /\ used.hashes \in {h, AllHashes(ContentOf(h))}
        <4>1. used = WithMetadata(row, Load(a))
          BY <1>8, <2>1
        <4> HIDE DEF used
        <4>2. /\ WithMetadata(row, Load(a)) \in Row
              /\ WithMetadata(row, Load(a)).readable = row.readable
              /\ ContentOf(WithMetadata(row, Load(a)).hashes) = ContentOf(h)
              /\ WithMetadata(row, Load(a)).hashes \in {h, AllHashes(ContentOf(h))}
              /\ WithMetadata(row, Load(a)).meta <=> row.meta \/ (Load(a).readable /\ Load(a).meta)
          BY <3>1, WithMetadataType
        <4> QED
          BY <1>2, <4>1, <4>2
      <3>3. to \in used.hashes
        BY <1>2, <1>3, <1>4, <1>7, <1>8, <2>1, <3>2 DEF AllHashes
      <3> QED
        BY <1>3, <1>6, <1>8, <2>1, <3>2, <3>3
    <2>2. CASE HasPreferred(id, row) /\ Load(b).readable
      <3>1. Load(b) \in Row /\ b \in Load(b).hashes /\ ContentOf(Load(b).hashes) = id[1]
        BY <1>3, <1>9, <1>10, <2>2
      <3>2. /\ used \in Row /\ ContentOf(used.hashes) = id[1] /\ used.readable
            /\ used.meta <=> Load(b).meta \/ (row.readable /\ row.meta)
            /\ used.hashes \in {Load(b).hashes, AllHashes(id[1])}
        <4>1. used = WithMetadata(Load(b), row)
          BY <1>10, <2>2
        <4> HIDE DEF used
        <4>2. /\ WithMetadata(Load(b), row) \in Row
              /\ WithMetadata(Load(b), row).readable = Load(b).readable
              /\ ContentOf(WithMetadata(Load(b), row).hashes) = ContentOf(Load(b).hashes)
              /\ WithMetadata(Load(b), row).hashes \in {Load(b).hashes, AllHashes(ContentOf(Load(b).hashes))}
              /\ WithMetadata(Load(b), row).meta <=> Load(b).meta \/ (row.readable /\ row.meta)
          BY <3>1, WithMetadataType
        <4> QED
          BY <2>2, <3>1, <4>1, <4>2
      <3>3. to \in used.hashes
        <4>1. to = b /\ b \in ID /\ b[1] = id[1]
          BY <1>3, <1>7, <1>10, <2>2
        <4>2. b \in AllHashes(id[1])
          BY <4>1 DEF AllHashes
        <4> QED
          BY <3>1, <3>2, <4>1, <4>2
      <3> QED
        BY <1>3, <1>7, <1>10, <2>2, <3>2, <3>3
    <2>3. CASE HasPreferred(id, row) /\ ~Load(b).readable
      BY <1>2, <1>3, <1>7, <1>10, <2>3
    <2>4. CASE ~HasAlternative(id, row) /\ ~HasPreferred(id, row)
      <3>1. used = row /\ Skips(id, row) = {}
        BY <2>4 DEF Used, Skips
      <3> QED
        BY <1>2, <3>1
    <2> QED
      BY <2>1, <2>2, <2>3, <2>4
  <1>12. Old(id, row) /\ b \in context.indexed => b \in Skips(id, row)
    BY <1>10 DEF HasPreferred, b
  <1> QED
    BY <1>2, <1>3, <1>5, <1>6, <1>7, <1>8, <1>11, <1>12 DEF a, b, to

\* The jobs it queues.
LEMMA StorageJobsAre ==
    ASSUME Types, NEW id \in ID, NEW row \in Row
    PROVE  LET js == StorageJobs(id, row)
               x == RemoveJob(V1(row.hashes))
               y == StoreJob(ToTorrentID(row.hashes), Used(id, row))
           IN  /\ js \in Seq(Job) /\ x \in Job /\ y \in Job
               /\ \A i \in DOMAIN js : \/ js[i] = x /\ (HasAlternative(id, row) \/ Old(id, row))
                                       \/ js[i] = y /\ (Old(id, row) \/ Migrating)
               /\ Old(id, row) \/ Migrating =>
                    \E i \in DOMAIN js : js[i] = y /\ \A k \in DOMAIN js : ~(i < k)
  <1> DEFINE x == RemoveJob(V1(row.hashes))
             y == StoreJob(ToTorrentID(row.hashes), Used(id, row))
             p == IF HasAlternative(id, row) \/ Old(id, row) THEN <<x>> ELSE <<>>
             q == IF Old(id, row) \/ Migrating THEN <<y>> ELSE <<>>
  <1>1. x \in Job /\ y \in Job
    BY UsedType, UnreadableType DEF Types, RemoveJob, StoreJob, Job
  <1>2. StorageJobs(id, row) = p \o q
    BY DEF StorageJobs
  <1> HIDE DEF x, y
  <1>3. /\ <<x>> \in Seq(Job) /\ <<y>> \in Seq(Job) /\ <<>> \in Seq(Job)
        /\ DOMAIN <<x>> = {1} /\ DOMAIN <<y>> = {1} /\ DOMAIN <<>> = {}
        /\ <<x>>[1] = x /\ <<y>>[1] = y
    BY <1>1
  <1>4. /\ p \in Seq(Job) /\ q \in Seq(Job)
        /\ \A i \in DOMAIN p : p[i] = x /\ (HasAlternative(id, row) \/ Old(id, row))
        /\ \A i \in DOMAIN q : i = 1 /\ q[i] = y /\ (Old(id, row) \/ Migrating)
        /\ Old(id, row) \/ Migrating => 1 \in DOMAIN q
    BY <1>3
  <1> HIDE DEF p, q
  <1> DEFINE js == p \o q
  <1>5. /\ js \in Seq(Job)
        /\ Len(p) \in Nat /\ Len(q) \in Nat /\ DOMAIN p = 1..Len(p) /\ DOMAIN q = 1..Len(q)
        /\ DOMAIN js = 1 .. Len(p) + Len(q)
        /\ \A i \in DOMAIN p : js[i] = p[i]
        /\ \A i \in DOMAIN q : js[Len(p) + i] = q[i]
        /\ \A i \in DOMAIN js : \/ i \in DOMAIN p /\ js[i] = p[i]
                                \/ i - Len(p) \in DOMAIN q /\ js[i] = q[i - Len(p)]
    BY <1>4, ConcatElements
  <1> HIDE DEF js
  <1>6. \A i \in DOMAIN js : \/ js[i] = x /\ (HasAlternative(id, row) \/ Old(id, row))
                             \/ js[i] = y /\ (Old(id, row) \/ Migrating)
    BY <1>4, <1>5
  <1>7. ASSUME Old(id, row) \/ Migrating
        PROVE  \E i \in DOMAIN js : js[i] = y /\ \A k \in DOMAIN js : ~(i < k)
    <2>1. 1 \in DOMAIN q /\ q[1] = y
      BY <1>4, <1>7
    <2>2. Len(q) = 1
      BY <1>4, <1>5, <2>1
    <2>3. Len(p) + 1 \in DOMAIN js /\ js[Len(p) + 1] = y
      BY <1>5, <2>1, <2>2
    <2>4. \A k \in DOMAIN js : ~(Len(p) + 1 < k)
      BY <1>5, <2>2
    <2> QED
      BY <2>3, <2>4
  <1> QED
    BY <1>1, <1>2, <1>5, <1>6, <1>7 DEF js, x, y

\* Rows are filed under one of their hashes, and a row is loaded once.
Filed ==
    /\ KeyedRows(stored) /\ KeyedJobs(jobs) /\ KeyedLoaded(Waiting)
    /\ Distinct(loading.todo, Waiting)

\* The startup knows which torrents are stored before it looks at the first.
Announced ==
    context.alive =>
      /\ ~Unstarted => Pending \subseteq context.indexed
      /\ \A i \in DOMAIN events : events[i].type = "started" => Pending \subseteq events[i].ids

\* What the steps of the rows do to those that wait.
LEMMA TakenRow ==
    ASSUME Types, Filed, SkipNext \/ ProcessNext
    PROVE  LET w == Head(Available)
           IN  /\ w \in Loaded /\ w.id \in ID /\ w.row \in Row /\ w.id \in w.row.hashes
               /\ Waiting # <<>> /\ Waiting' = Tail(Waiting) /\ Head(Waiting) = w
               /\ Pending' \subseteq Pending /\ w.id \in Pending /\ w.id \notin Pending'
               /\ \A id \in Pending : id # w.id => id \in Pending'
               /\ KeyedLoaded(Waiting') /\ Distinct(loading'.todo, Waiting')
               /\ UNCHANGED <<stored, dbExists, storageType, startupStorage, owned, removed, phase, events, loading>>
               /\ context'.alive = context.alive /\ context'.indexed = context.indexed
               /\ SkipNext => /\ jobs' = jobs /\ context'.skipped = context.skipped
                              /\ w.id \in context.skipped \/ ~w.row.readable
               /\ ProcessNext => /\ w.id \notin context.skipped /\ w.row.readable
                                 /\ jobs' = jobs \o StorageJobs(w.id, w.row)
                                 /\ context'.skipped = context.skipped \cup Skips(w.id, w.row)
  <1> USE DEF diskVars, startVars, loadVars, nativeVars, userVars
  <1>0. context \in SessionContext /\ Waiting \in Seq(Loaded) /\ loading.todo \in Seq(ID)
    BY WaitingType DEF Types
  <1> DEFINE w == Head(Available)
  <1>1. /\ Available # <<>> /\ context'.loaded = Tail(Available)
        /\ loadedData' = IF context.loaded = <<>> THEN <<>> ELSE loadedData
        /\ UNCHANGED <<stored, dbExists, storageType, startupStorage, owned, removed, phase, events, loading>>
        /\ context'.alive = context.alive /\ context'.indexed = context.indexed
        /\ SkipNext => /\ jobs' = jobs /\ context'.skipped = context.skipped
                       /\ w.id \in context.skipped \/ ~w.row.readable
        /\ ProcessNext => /\ w.id \notin context.skipped /\ w.row.readable
                          /\ jobs' = jobs \o StorageJobs(w.id, w.row)
                          /\ context'.skipped = context.skipped \cup Skips(w.id, w.row)
    BY <1>0 DEF SkipNext, ProcessNext, SessionContext
  <1>2. Waiting # <<>> /\ Waiting' = Tail(Waiting) /\ Head(Waiting) = w
    BY <1>1, TakeWaiting
  <1>3. w \in Loaded /\ w.id \in ID /\ w.row \in Row
    BY <1>1, AvailableType
  <1> HIDE DEF w
  <1>4. KeyedLoaded(Waiting) /\ Distinct(loading.todo, Waiting)
    BY DEF Filed
  <1>5. /\ Pending' \subseteq Pending /\ w.id \in Pending /\ w.id \notin Pending'
        /\ KeyedLoaded(Waiting') /\ Distinct(loading'.todo, Waiting') /\ w.id \in w.row.hashes
    BY <1>0, <1>1, <1>2, <1>4, TakenLoaded DEF Pending
  <1>6. ASSUME NEW id \in Pending, id # w.id PROVE id \in Pending'
    <2>1. \A i \in DOMAIN Waiting : i # 1 => i - 1 \in DOMAIN Tail(Waiting) /\ Tail(Waiting)[i - 1] = Waiting[i]
      BY <1>0, <1>2, TailElements
    <2>2. Head(Waiting) = Waiting[1]
      BY <1>0, <1>2, TailElements
    <2> QED
      BY <1>1, <1>2, <1>6, <2>1, <2>2 DEF Pending, PendingIDs
  <1> QED
    BY <1>1, <1>2, <1>3, <1>5, <1>6 DEF w

LEMMA LoadedRow ==
    ASSUME Types, Filed, LoadNext
    PROVE  LET w == [id |-> Head(loading.todo), row |-> Load(Head(loading.todo))]
           IN  /\ w \in Loaded /\ w.id \in ID /\ w.row = Load(w.id)
               /\ Waiting' = Append(Waiting, w)
               /\ Pending' = Pending /\ Fresh' = Fresh
               /\ KeyedLoaded(Waiting') /\ Distinct(loading'.todo, Waiting')
               /\ UNCHANGED <<stored, dbExists, storageType, startupStorage, jobs, context, owned, removed, phase, events>>
               /\ loading'.state = loading.state
  <1> USE DEF diskVars, startVars, loadVars, nativeVars, userVars
  <1>0. Waiting \in Seq(Loaded) /\ loading.todo \in Seq(ID)
    BY WaitingType
  <1> DEFINE todo == loading.todo
             w == [id |-> Head(todo), row |-> Load(Head(todo))]
  <1>1. /\ todo # <<>> /\ loading'.todo = Tail(todo) /\ loading'.state = loading.state
        /\ loadedData' = Append(loadedData, w) /\ context' = context
        /\ UNCHANGED <<stored, dbExists, storageType, startupStorage, jobs, context, owned, removed, phase, events>>
    BY DEF LoadNext, Types, Loading
  <1>2. Head(todo) \in ID
    BY <1>0, <1>1, TailElements
  <1>3. w \in Loaded /\ w.id = Head(todo) /\ w.row = Load(w.id)
    BY <1>2, LoadType DEF Types, Loaded
  <1>4. w.id \in w.row.hashes
    BY <1>2, <1>3, LoadStored DEF Filed
  <1> HIDE DEF w
  <1>5. Waiting' = Append(Waiting, w)
    BY <1>1, <1>3, LoadWaiting
  <1>6. Pending' = Pending /\ KeyedLoaded(Waiting') /\ Distinct(loading'.todo, Waiting')
    <2>1. Distinct(todo, Waiting) /\ KeyedLoaded(Waiting)
      BY DEF Filed
    <2>2. /\ PendingIDs(Tail(todo), Append(Waiting, w)) = PendingIDs(todo, Waiting)
          /\ Distinct(Tail(todo), Append(Waiting, w))
          /\ KeyedLoaded(Append(Waiting, w))
      BY <1>0, <1>1, <1>3, <1>4, <2>1, AddedLoaded
    <2> QED
      BY <1>1, <1>5, <2>2 DEF Pending
  <1> QED
    BY <1>1, <1>2, <1>3, <1>5, <1>6 DEF Fresh, w

\* The worker performs its first job.
LEMMA PerformedJob ==
    ASSUME Types, KeyedJobs(jobs), PerformStorageJob
    PROVE  LET job == Head(jobs)
           IN  /\ jobs # <<>> /\ jobs' = Tail(jobs) /\ job \in Job /\ Keyed(job) /\ KeyedJobs(jobs')
               /\ \A s \in Storage :
                    stored'[s] = IF s = storageType THEN Performed(stored[storageType], job) ELSE stored[s]
               /\ stored' \in [Storage -> Rows]
               /\ UNCHANGED <<dbExists, storageType, startupStorage, owned, removed, phase, events, loading, loadedData, context>>
  <1> USE DEF diskVars, startVars, loadVars, nativeVars, userVars
  <1> DEFINE job == Head(jobs)
  <1>1. /\ jobs # <<>> /\ jobs' = Tail(jobs)
        /\ UNCHANGED <<dbExists, storageType, startupStorage, owned, removed, phase, events, loading, loadedData, context>>
        /\ stored' = [stored EXCEPT ![storageType] =
                        IF job.op = "store" THEN With(@, job.id, job.row) ELSE Without(@, job.id)]
    BY DEF PerformStorageJob
  <1>2. job \in Job /\ jobs \in Seq(Job) /\ storageType \in Storage /\ stored \in [Storage -> Rows]
    BY <1>1, TailElements DEF Types
  <1>3. KeyedJobs(jobs') /\ (job.op = "store" => job.id \in job.row.hashes)
    BY <1>1, <1>2, JobsKnown
  <1>4. stored' \in [Storage -> Rows]
    BY RestTypes DEF Types
  <1> HIDE DEF job
  <1>5. \A s \in Storage :
          stored'[s] = IF s = storageType THEN Performed(stored[storageType], job) ELSE stored[s]
    BY <1>1, <1>2 DEF Performed
  <1> QED
    BY <1>1, <1>2, <1>3, <1>4, <1>5 DEF Keyed, job

\* The job of a torrent that is removed.
LEMMA RemovedTorrent ==
    ASSUME Types, NEW i \in DOMAIN restored, RemoveRestored(i)
    PROVE  LET c == ContentOf(restored[i].row.hashes)
               job == RemoveJob(ToTorrentID(restored[i].row.hashes))
           IN  /\ restored[i] \in Restored
               /\ jobs' = Append(jobs, job) /\ job \in Job /\ job.op = "remove" /\ job.id[1] = c
               /\ removed' = removed \cup {c} /\ phase = "running"
               /\ UNCHANGED <<stored, dbExists, storageType, startupStorage, owned, phase, events, loading, loadedData, context>>
  <1> USE DEF diskVars, startVars, loadVars, nativeVars, userVars
  <1> DEFINE t == restored[i]
             job == RemoveJob(ToTorrentID(t.row.hashes))
  <1>1. /\ jobs' = Append(jobs, job) /\ removed' = removed \cup {ContentOf(t.row.hashes)}
        /\ phase = "running"
        /\ UNCHANGED <<stored, dbExists, storageType, startupStorage, owned, phase, events, loading, loadedData, context>>
    BY DEF RemoveRestored
  <1>2. t \in Restored
    BY LenProperties, ElementOfSeq DEF Types
  <1>3. job \in Job /\ job.op = "remove" /\ job.id[1] = ContentOf(t.row.hashes)
    <2>1. t.row \in Row /\ t.row.hashes \in InfoHash
      BY <1>2 DEF Restored, Row
    <2> QED
      BY <2>1, HashesKnown, UnreadableType DEF RemoveJob, Job
  <1> QED
    BY <1>1, <1>2, <1>3

LEMMA EndedProcess ==
    ASSUME ProgramExit \/ ProgramCrash
    PROVE  /\ jobs' = <<>> /\ loading'.todo = <<>> /\ Waiting' = <<>> /\ ~context'.alive
           /\ phase' = "off" /\ UNCHANGED <<stored, dbExists>>
           /\ natives' = <<>> /\ adding' = <<>> /\ posted' = <<>> /\ batch' = <<>> /\ restored' = <<>>
  BY DEF ProgramExit, ProgramCrash, ProcessEnds, NoContext, Waiting, diskVars

\* The rows that are to be loaded are those of the storage.
LEMMA PreparedRows ==
    ASSUME Types, Control, NEW type \in Storage, PrepareStartup(type)
    PROVE  /\ jobs = <<>> /\ jobs' = <<>> /\ Waiting' = <<>> /\ Waiting = <<>>
           /\ stored' = stored /\ phase' = "startup" /\ events' = <<>>
           /\ context'.skipped = {} /\ loading'.state = "start"
           /\ owned' = OwnedIn(stored[startupStorage'])
           /\ removed' = removed
           /\ Distinct(loading'.todo, <<>>)
           /\ PendingIDs(loading'.todo, <<>>) = DOMAIN stored[startupStorage']
           /\ natives' = <<>> /\ adding' = <<>> /\ posted' = <<>> /\ batch' = <<>> /\ restored' = <<>>
  <1> USE DEF diskVars, startVars, loadVars, nativeVars, userVars
  <1>1. /\ jobs = <<>> /\ jobs' = <<>> /\ loadedData = <<>> /\ loadedData' = <<>>
        /\ context.loaded = <<>> /\ context'.loaded = <<>> /\ context'.skipped = {}
        /\ stored' = stored /\ phase' = "startup" /\ events' = <<>> /\ loading'.state = "start"
        /\ owned' = OwnedIn(stored[startupStorage']) /\ removed' = removed
        /\ natives' = <<>> /\ adding' = <<>> /\ posted' = <<>> /\ batch' = <<>> /\ restored' = <<>>
    BY DEF PrepareStartup, NoContext, Control, AtRest
  <1>2. Waiting = <<>> /\ Waiting' = <<>>
    BY <1>1 DEF Waiting
  <1> DEFINE ids == DOMAIN stored[startupStorage']
             n == Cardinality(ids)
  <1>3. PICK order \in SetToSeqs(ids) : loading' = [state |-> "start", todo |-> order]
    BY DEF PrepareStartup
  <1>4. /\ order \in [1..n -> ids] /\ \A i, j \in 1..n : i # j => order[i] # order[j]
        /\ n \in Nat /\ \A id \in ids : \E i \in 1..n : order[i] = id
    <2>1. IsFiniteSet(ids) /\ ids \subseteq ID
      <3>1. startupStorage' \in Storage
        BY DEF PrepareStartup, Storage
      <3>2. PICK d \in SUBSET ID : stored[startupStorage'] \in [d -> Row]
        BY <3>1 DEF Types, Rows
      <3>3. IsFiniteSet(ID)
        <4>1. IsFiniteSet(Content) /\ IsFiniteSet(Hybrid)
          BY FS_Subset, InfoHashAssumption, StartupAssumption
        <4>2. IsFiniteSet(Content \X {"v1"}) /\ IsFiniteSet(Hybrid \X {"v2"})
          BY <4>1, FS_Singleton, FS_Product
        <4> QED
          BY <4>2, FS_Union DEF ID
      <3> QED
        BY <3>2, <3>3, FS_Subset
    <2>2. n \in Nat
      BY <2>1, FS_CardinalityType
    <2> HIDE DEF ids
    <2>3. order \in [1..n -> ids] /\ \A i, j \in 1..n : i # j => order[i] # order[j]
      BY <1>3 DEF SetToSeqs
    <2>4. \A id \in ids : \E i \in 1..n : order[i] = id
      <3>1. IsFiniteSet(1..n) /\ Cardinality(1..n) = n
        <4>1. 1 \in Int /\ n \in Int /\ n >= 0
          BY <2>2
        <4> HIDE DEF n
        <4> QED
          BY <4>1, FS_Interval
      <3>2. order \in Injection(1..n, ids)
        BY <2>3 DEF Injection, IsInjective
      <3>3. order \in Surjection(1..n, ids)
        BY <2>1, <3>1, <3>2, FS_Injection
      <3> QED
        BY <3>3 DEF Surjection
    <2> QED
      BY <2>2, <2>3, <2>4
  <1>5. loading'.todo = order /\ DOMAIN order = 1..n
    BY <1>3, <1>4
  <1>6. DOMAIN <<>> = {}
    OBVIOUS
  <1> HIDE DEF n
  <1>7. Distinct(order, <<>>)
    BY <1>4, <1>5, <1>6 DEF Distinct
  <1>8. ids \subseteq ID
    <2>1. startupStorage' \in Storage
      BY DEF PrepareStartup, Storage
    <2> QED
      BY <2>1 DEF Types, Rows
  <1>9. PendingIDs(order, <<>>) = ids
    BY <1>4, <1>5, <1>6, <1>8 DEF PendingIDs
  <1> QED
    BY <1>1, <1>2, <1>5, <1>7, <1>9

LEMMA FiledKept ==
    ASSUME Types, Control, Drained, Filed, QuietAction \/ EndingAction \/ DeleteStorage \/ RowAction
    PROVE  Filed'
  <1> USE DEF diskVars, startVars, loadVars, nativeVars, userVars
  <1> DEFINE none == <<>>
  <1>0. DOMAIN none = {} /\ KeyedJobs(none) /\ KeyedLoaded(none) /\ Distinct(none, none)
    BY DEF KeyedJobs, KeyedLoaded, Distinct
  <1>1. CASE QuietAction \/ EndingAction
    <2>1. Quiet
      BY <1>1, QuietRows
    <2> QED
      BY <2>1 DEF Quiet, Filed
  <1>2. CASE DeleteStorage
    <2>1. UNCHANGED <<jobs, loading, loadedData, context>>
      BY <1>2 DEF DeleteStorage
    <2>2. stored' = stored \/ stored' = [stored EXCEPT !["db"] = NoRows]
      BY <1>2 DEF DeleteStorage
    <2>3. DOMAIN NoRows = {}
      BY DEF NoRows
    <2>4. \A s \in Storage : stored'[s] = stored[s] \/ stored'[s] = NoRows
      BY <2>2 DEF Types
    <2>5. KeyedRows(stored')
      BY <2>3, <2>4 DEF Filed, KeyedRows
    <2> QED
      BY <2>1, <2>5 DEF Filed, Waiting
  <1>3. ASSUME NEW type \in Storage, PrepareStartup(type) PROVE Filed'
    <2>1. stored' = stored /\ jobs' = none /\ Waiting' = none /\ Distinct(loading'.todo, none)
      BY <1>3, PreparedRows
    <2> HIDE DEF none
    <2> QED
      BY <1>0, <2>1 DEF Filed
  <1>4. CASE LoadNext
    <2>1. /\ KeyedLoaded(Waiting') /\ Distinct(loading'.todo, Waiting') /\ stored' = stored /\ jobs' = jobs
      BY <1>4, LoadedRow
    <2> QED
      BY <2>1 DEF Filed
  <1>5. CASE SkipNext \/ ProcessNext
    <2> DEFINE w == Head(Available)
    <2>1. /\ w.id \in ID /\ w.row \in Row /\ w.id \in w.row.hashes
          /\ KeyedLoaded(Waiting') /\ Distinct(loading'.todo, Waiting')
          /\ stored' = stored
          /\ jobs' = jobs \/ jobs' = jobs \o StorageJobs(w.id, w.row)
      BY <1>5, TakenRow
    <2>2. KeyedJobs(StorageJobs(w.id, w.row)) /\ StorageJobs(w.id, w.row) \in Seq(Job)
      <3>1. /\ StorageJobs(w.id, w.row) \in Seq(Job)
            /\ \A i \in DOMAIN StorageJobs(w.id, w.row) :
                 \/ StorageJobs(w.id, w.row)[i] = RemoveJob(V1(w.row.hashes))
                 \/ /\ StorageJobs(w.id, w.row)[i] = StoreJob(ToTorrentID(w.row.hashes), Used(w.id, w.row))
                    /\ Old(w.id, w.row) \/ Migrating
        BY <2>1, StorageJobsAre
      <3>2. Old(w.id, w.row) \/ Migrating => ToTorrentID(w.row.hashes) \in Used(w.id, w.row).hashes
        BY <2>1, RowProcessed DEF Filed
      <3> QED
        BY <3>1, <3>2 DEF KeyedJobs, RemoveJob, StoreJob
    <2>3. KeyedJobs(jobs')
      BY <2>1, <2>2, JobsKnown DEF Filed, Types
    <2> QED
      BY <2>1, <2>3 DEF Filed
  <1>6. CASE PerformStorageJob
    <2> DEFINE job == Head(jobs)
    <2>1. /\ job \in Job /\ Keyed(job) /\ KeyedJobs(jobs')
          /\ \A s \in Storage :
               stored'[s] = IF s = storageType THEN Performed(stored[storageType], job) ELSE stored[s]
          /\ UNCHANGED <<loading, loadedData, context>>
      BY <1>6, PerformedJob DEF Filed
    <2> HIDE DEF job
    <2>2. KeyedRows(stored')
      BY <2>1, StoredKnown DEF Filed, Types
    <2> QED
      BY <2>1, <2>2 DEF Filed, Waiting
  <1>7. ASSUME NEW i \in DOMAIN restored, RemoveRestored(i) PROVE Filed'
    <2> DEFINE job == RemoveJob(ToTorrentID(restored[i].row.hashes))
    <2>1. /\ jobs' = Append(jobs, job) /\ job \in Job /\ job.op = "remove"
          /\ UNCHANGED <<stored, loading, loadedData, context>>
      BY <1>7, RemovedTorrent
    <2> HIDE DEF job
    <2>2. KeyedJobs(jobs')
      BY <2>1, JobsKnown DEF Filed, Types
    <2> QED
      BY <2>1, <2>2 DEF Filed, Waiting
  <1>8. CASE ProgramExit \/ ProgramCrash
    <2>1. jobs' = none /\ loading'.todo = none /\ Waiting' = none /\ stored' = stored
      BY <1>8, EndedProcess
    <2> HIDE DEF none
    <2> QED
      BY <1>0, <2>1 DEF Filed
  <1> QED
    BY <1>1, <1>2, <1>3, <1>4, <1>5, <1>6, <1>7, <1>8 DEF RowAction

\* The rows that wait are announced already, unless new ones are.
LEMMA AnnouncedStill ==
    ASSUME Announced, NoNewStart, loading'.state = loading.state, Pending' \subseteq Pending,
           context'.alive => context.alive /\ context'.indexed = context.indexed
    PROVE  Announced'
  <1>1. Unstarted => Unstarted'
    BY DEF NoNewStart, Unstarted
  <1> QED
    BY <1>1 DEF Announced, NoNewStart

LEMMA AnnouncedKept ==
    ASSUME Types, Control, Drained, Filed, Announced, QuietAction \/ EndingAction \/ DeleteStorage \/ RowAction
    PROVE  Announced'
  <1> USE DEF diskVars, startVars, loadVars, nativeVars, userVars
  <1>0. context \in SessionContext /\ Waiting \in Seq(Loaded) /\ loading.todo \in Seq(ID)
    BY WaitingType DEF Types
  <1>1. CASE LoadStarted
    <2> DEFINE ids == ToSet(loading.todo)
    <2>1. /\ loading.state = "start" /\ loading'.todo = loading.todo /\ context' = context
          /\ events' = Append(events, Event("started", ids))
      BY <1>1 DEF LoadStarted, Types, Loading
    <2>2. events = <<>> /\ loadedData = <<>> /\ context.loaded = <<>>
      BY <2>1 DEF Control, Beginning, Unstarted
    <2>3. Pending' = Pending
      BY <1>1, QuietRows DEF QuietAction, Quiet
    <2>4. Pending \subseteq ids
      <3>1. DOMAIN Waiting = {}
        BY <2>2, ConcatEmptySeq DEF Waiting
      <3> QED
        BY <3>1 DEF Pending, PendingIDs, ToSet
    <2>5. ids \in SUBSET ID
      <3>1. \A i \in DOMAIN loading.todo : loading.todo[i] \in ID
        BY <1>0, LenProperties, ElementOfSeq
      <3> QED
        BY <3>1 DEF ToSet
    <2> HIDE DEF ids
    <2>6. Behind(events', events, "started", ids)
      BY <2>1, <2>5, Queued, Kinds
    <2>7. Unstarted' /\ \A i \in DOMAIN events' : events'[i] = Event("started", ids)
      <3>1. \A i \in DOMAIN events : FALSE
        BY <2>2
      <3> QED
        BY <2>6, <3>1 DEF Behind, Unstarted
    <2>8. \A i \in DOMAIN events' : Pending' \subseteq events'[i].ids
      BY <2>3, <2>4, <2>7 DEF Event
    <2> QED
      BY <2>7, <2>8 DEF Announced
  <1>2. CASE BeginHandling
    <2>1. events' = Tail(events) /\ loading' = loading
      BY <1>2 DEF BeginHandling
    <2>2. Pending' = Pending
      BY <1>2, QuietRows DEF QuietAction, Quiet
    <2>3. CASE CanHandle("started") /\ context' = [context EXCEPT !.enqueued = FALSE, !.indexed = Head(events).ids]
      <3>1. events \in Seq(QueuedEvent) /\ events # <<>> /\ Head(events).type = "started"
        BY <2>3 DEF CanHandle, Types
      <3>2. \E j \in DOMAIN events : Head(events) = events[j]
        BY <3>1, TakenEvent
      <3>3. context.alive
        <4>1. Has(events, "started")
          BY <2>3, Handled
        <4> QED
          BY <4>1 DEF Control, Beginning, Unstarted
      <3>4. Pending \subseteq Head(events).ids
        BY <3>1, <3>2, <3>3 DEF Announced
      <3>5. context'.indexed = Head(events).ids
        BY <1>0, <2>3 DEF SessionContext
      <3>6. \A i \in DOMAIN events' : events'[i].type # "started"
        <4>1. ~Has(events', "started")
          BY <2>1, <2>3, Handled DEF Control
        <4> QED
          BY <4>1 DEF Has
      <3> QED
        BY <2>2, <3>4, <3>5, <3>6 DEF Announced
    <2>4. CASE CanHandle("handle") /\ context.alive /\ context' = [context EXCEPT !.enqueued = FALSE]
      <3>1. NoNewStart
        BY <2>1, <2>4, HandledStarts
      <3>2. context'.alive = context.alive /\ context'.indexed = context.indexed
        BY <1>0, <2>4 DEF SessionContext
      <3> QED
        BY <2>1, <2>2, <3>1, <3>2, AnnouncedStill
    <2> QED
      BY <1>2, <2>3, <2>4 DEF BeginHandling
  <1>3. CASE LoadFinished
    <2>1. /\ loading.state = "load" /\ context' = context
          /\ events' = Append(events, Event("finished", {})) /\ loading'.state = "done"
      BY <1>3 DEF LoadFinished, Types, Loading
    <2>2. NoNewStart
      BY <2>1, QueuedStarts
    <2>3. Pending' = Pending
      BY <1>3, QuietRows DEF QuietAction, Quiet
    <2>4. Unstarted => Unstarted'
      BY <2>1, <2>2 DEF Unstarted, NoNewStart
    <2> QED
      BY <2>1, <2>2, <2>3, <2>4 DEF Announced, NoNewStart
  <1>4. CASE HandleWithoutContext \/ NoteLoadFinished \/ FetchAlerts \/ DeleteStorage \/ DeleteContext
    <2>1. \E type : type # "started" /\ CanHandle(type) /\ events' = Tail(events)
      BY <1>4 DEF HandleWithoutContext, NoteLoadFinished, DeleteStorage, FetchAlerts, DeleteContext
    <2>2. NoNewStart
      BY <2>1, HandledStarts
    <2>3. loading' = loading
      BY <1>4 DEF HandleWithoutContext, NoteLoadFinished, DeleteStorage, FetchAlerts, DeleteContext
    <2>4. context'.alive => context.alive /\ context'.indexed = context.indexed
      <3>1. CASE NoteLoadFinished
        BY <1>0, <3>1 DEF NoteLoadFinished, SessionContext
      <3>2. CASE DeleteContext
        BY <3>2 DEF DeleteContext, NoContext
      <3>3. CASE HandleWithoutContext \/ FetchAlerts \/ DeleteStorage
        BY <3>3 DEF HandleWithoutContext, FetchAlerts, DeleteStorage
      <3> QED
        BY <1>4, <3>1, <3>2, <3>3
    <2>5. Pending' = Pending
      <3>1. CASE DeleteStorage
        BY <3>1 DEF DeleteStorage, Pending, Waiting
      <3>2. CASE ~DeleteStorage
        BY <1>4, <3>2, QuietRows DEF QuietAction, EndingAction, Quiet
      <3> QED
        BY <3>1, <3>2
    <2> QED
      BY <2>2, <2>3, <2>4, <2>5, AnnouncedStill
  <1>5. CASE \/ PauseHandling \/ AwaitAlerts \/ AwaitData \/ AlertsRead \/ AddNative \/ AlertStep
             \/ EndStartup \/ UNCHANGED startupVars
    <2>1. CASE TorrentRestored \/ IgnoreReloaded
      <3>1. AlertReceived /\ loading' = loading
        BY <2>1 DEF TorrentRestored, IgnoreReloaded
      <3>2. /\ context'.alive = context.alive /\ context'.indexed = context.indexed
            /\ (events' = events \/ events' = Append(events, Event("handle", {})))
        BY <3>1, ReceivedContext
      <3>3. NoNewStart
        BY <3>2, QueuedStarts
      <3>4. Pending' = Pending
        BY <2>1, QuietRows DEF QuietAction, AlertStep, Quiet
      <3> QED
        BY <3>1, <3>2, <3>3, <3>4, AnnouncedStill
    <2>2. CASE ~(TorrentRestored \/ IgnoreReloaded)
      <3>1. /\ loading' = loading
            /\ context'.alive = context.alive /\ context'.indexed = context.indexed
        BY <1>0, <1>5, <2>2 DEF PauseHandling, AwaitAlerts, AwaitData, AlertsRead, AddNative, AlertStep,
             ReloadRestored, EndStartup, startupVars, Enqueued, SessionContext
      <3>2. \/ events' = events \/ events' = Append(events, Event("handle", {}))
            \/ events' = Append(events, Event("alerts", {})) \/ EndStartup
        BY <1>5, <2>2 DEF PauseHandling, AwaitAlerts, AwaitData, AlertsRead, AddNative, AlertStep,
             ReloadRestored, startupVars, EventsWithHandling, Post
      <3>3. NoNewStart
        BY <3>2, QueuedStarts
      <3>4. Pending' = Pending
        BY <1>5, QuietRows DEF QuietAction, EndingAction, Quiet
      <3> QED
        BY <3>1, <3>3, <3>4, AnnouncedStill
    <2> QED
      BY <2>1, <2>2
  <1>6. ASSUME NEW type \in Storage, PrepareStartup(type) PROVE Announced'
    <2>1. events' = <<>> /\ loading'.state = "start"
      BY <1>6, PreparedRows
    <2>2. DOMAIN events' = {}
      BY <2>1
    <2> QED
      BY <2>1, <2>2 DEF Announced, Unstarted
  <1>7. CASE LoadNext \/ SkipNext \/ ProcessNext \/ PerformStorageJob \/ \E i \in DOMAIN restored : RemoveRestored(i)
    <2>1. /\ events' = events /\ context'.alive = context.alive /\ context'.indexed = context.indexed
          /\ Pending' \subseteq Pending /\ loading'.state = loading.state
      <3>1. CASE LoadNext
        BY <3>1, LoadedRow
      <3>2. CASE SkipNext \/ ProcessNext
        BY <3>2, TakenRow
      <3>3. CASE PerformStorageJob \/ \E i \in DOMAIN restored : RemoveRestored(i)
        BY <3>3 DEF PerformStorageJob, RemoveRestored, Pending, Waiting
      <3> QED
        BY <1>7, <3>1, <3>2, <3>3
    <2>2. NoNewStart
      BY <2>1, QueuedStarts
    <2> QED
      BY <2>1, <2>2, AnnouncedStill
  <1>8. CASE ProgramExit \/ ProgramCrash
    BY <1>8, EndedProcess DEF Announced
  <1> QED
    BY <1>1, <1>2, <1>3, <1>4, <1>5, <1>6, <1>7, <1>8 DEF QuietAction, EndingAction, RowAction

-----------------------------------------------------------------------------
(* What is stored, when the worker has done its work.                      *)

\* None of the jobs behind the i-th is about the ID.
Untouched(js, id, i) == \A j \in DOMAIN js : i < j => js[j].id # id

\* There will be a row under the ID that can be read.
WillStore(rows, js, id) ==
    \/ Untouched(js, id, 0) /\ id \in DOMAIN rows /\ rows[id].readable
    \/ \E i \in DOMAIN js : js[i].id = id /\ js[i].op = "store" /\ js[i].row.readable /\ Untouched(js, id, i)

LEMMA JobsBehind ==
    ASSUME NEW js \in Seq(Job), NEW t \in Seq(Job), NEW rows, NEW id
    PROVE  /\ WillStore(rows, js, id) /\ (\A i \in DOMAIN t : t[i].id # id) => WillStore(rows, js \o t, id)
           /\ (\E i \in DOMAIN t : t[i].id = id /\ t[i].op = "store" /\ t[i].row.readable
                                   /\ \A k \in DOMAIN t : ~(i < k)) => WillStore(rows, js \o t, id)
  <1> DEFINE r == js \o t
             n == Len(js)
  <1>1. /\ r \in Seq(Job) /\ n \in Nat /\ Len(t) \in Nat
        /\ DOMAIN js = 1..n /\ DOMAIN t = 1..Len(t) /\ DOMAIN r = 1 .. n + Len(t)
        /\ \A i \in DOMAIN js : r[i] = js[i]
        /\ \A i \in DOMAIN t : r[n + i] = t[i]
        /\ \A i \in DOMAIN r : \/ i \in DOMAIN js /\ r[i] = js[i]
                               \/ i - n \in DOMAIN t /\ r[i] = t[i - n]
    BY ConcatElements
  <1> HIDE DEF r, n
  <1>2. ASSUME WillStore(rows, js, id), \A i \in DOMAIN t : t[i].id # id
        PROVE  WillStore(rows, r, id)
    <2>1. \A i : Untouched(js, id, i) => Untouched(r, id, i)
      BY <1>1, <1>2 DEF Untouched
    <2>2. DOMAIN js \subseteq DOMAIN r
      BY <1>1
    <2> QED
      BY <1>1, <1>2, <2>1, <2>2 DEF WillStore
  <1>3. ASSUME NEW i \in DOMAIN t, t[i].id = id, t[i].op = "store", t[i].row.readable,
               \A k \in DOMAIN t : ~(i < k)
        PROVE  WillStore(rows, r, id)
    <2>1. n + i \in DOMAIN r /\ r[n + i] = t[i]
      BY <1>1
    <2>2. Untouched(r, id, n + i)
      <3>1. \A k \in DOMAIN r : ~(n + i < k)
        <4> SUFFICES ASSUME NEW k \in DOMAIN r, n + i < k PROVE FALSE
          OBVIOUS
        <4>1. k - n \in DOMAIN t /\ i < k - n
          BY <1>1
        <4> QED
          BY <1>3, <4>1
      <3> QED
        BY <3>1 DEF Untouched
    <2> QED
      BY <1>3, <2>1, <2>2 DEF WillStore
  <1> QED
    BY <1>2, <1>3 DEF r

LEMMA JobDone ==
    ASSUME NEW js \in Seq(Job), js # <<>>, NEW rows, NEW id, WillStore(rows, js, id)
    PROVE  WillStore(Performed(rows, Head(js)), Tail(js), id)
  <1> DEFINE job == Head(js)
             r == Tail(js)
             new == Performed(rows, job)
  <1>1. /\ job \in Job /\ job = js[1] /\ 1 \in DOMAIN js
        /\ Len(js) \in Nat /\ DOMAIN js = 1..Len(js) /\ DOMAIN r = 1 .. Len(js) - 1
        /\ \A i \in DOMAIN r : i + 1 \in DOMAIN js /\ r[i] = js[i + 1]
        /\ \A i \in DOMAIN js : i # 1 => i - 1 \in DOMAIN r /\ r[i - 1] = js[i]
    BY TailElements
  <1> HIDE DEF job, r
  <1>2. /\ job.id # id /\ id \in DOMAIN rows => id \in DOMAIN new /\ new[id] = rows[id]
        /\ job.id = id /\ job.op = "store" => id \in DOMAIN new /\ new[id] = job.row
    <2>1. CASE job.op = "store"
      BY <2>1 DEF Performed, With
    <2>2. CASE job.op # "store"
      BY <2>2 DEF Performed, Without
    <2> QED
      BY <2>1, <2>2
  <1> HIDE DEF new
  <1>3. ASSUME Untouched(js, id, 0), id \in DOMAIN rows, rows[id].readable
        PROVE  WillStore(new, r, id)
    <2>1. 0 < 1 /\ \A i \in DOMAIN r : 0 < i + 1
      BY <1>1
    <2>2. job.id # id /\ Untouched(r, id, 0)
      BY <1>1, <1>3, <2>1 DEF Untouched
    <2>3. id \in DOMAIN new /\ new[id] = rows[id]
      BY <1>2, <1>3, <2>2
    <2>4. new[id].readable
      BY <1>3, <2>3
    <2> QED
      BY <2>2, <2>3, <2>4 DEF WillStore
  <1>4. ASSUME NEW i \in DOMAIN js, js[i].id = id, js[i].op = "store", js[i].row.readable, Untouched(js, id, i)
        PROVE  WillStore(new, r, id)
    <2>1. Untouched(r, id, i - 1)
      <3> SUFFICES ASSUME NEW k \in DOMAIN r, i - 1 < k PROVE r[k].id # id
        BY DEF Untouched
      <3>1. k + 1 \in DOMAIN js /\ r[k] = js[k + 1] /\ i < k + 1
        BY <1>1
      <3> QED
        BY <1>4, <3>1 DEF Untouched
    <2>2. CASE i = 1
      BY <1>1, <1>2, <1>4, <2>1, <2>2 DEF WillStore
    <2>3. CASE i # 1
      BY <1>1, <1>4, <2>1, <2>3 DEF WillStore
    <2> QED
      BY <2>2, <2>3
  <1> QED
    BY <1>3, <1>4 DEF WillStore, job, r, new

\* A torrent is stored, or its row will be taken and migrated.
Remains(c) == \E id \in ID : id[1] = c /\ WillStore(stored[storageType], jobs, id)
NotYet(c) == Migrating /\ \E id \in Fresh : id[1] = c /\ Load(id).readable
Preserved == phase # "off" => \A c \in owned.torrents \ removed : Remains(c) \/ NotYet(c)

\* A row that can still make a torrent is as it was loaded, and no job is about it
\* in the storage in use.
Unaltered ==
    /\ \A i \in DOMAIN Waiting : Waiting[i].id \in Fresh => Load(Waiting[i].id) = Waiting[i].row
    /\ ~Migrating => \A j \in DOMAIN jobs : jobs[j].id \notin Fresh

LEMMA NoneFresh ==
    ASSUME Drained, phase # "startup"
    PROVE  Pending = {} /\ Fresh = {} /\ Waiting = <<>>
  <1>1. loading.todo = <<>> /\ Waiting = <<>>
    BY DEF Drained, NotLoading
  <1> QED
    BY <1>1, NonePending DEF Pending, Fresh

\* What taking a row leaves of the others, and its jobs are about no other that
\* can still make a torrent.
LEMMA ProcessedRow ==
    ASSUME Types, Control, Filed, Announced, Unaltered, ProcessNext
    PROVE  LET w == Head(Available)
               js == StorageJobs(w.id, w.row)
           IN  /\ js \in Seq(Job) /\ jobs' = jobs \o js
               /\ \A j \in DOMAIN js : js[j].id[1] = w.id[1]
               /\ Fresh' \subseteq Fresh
               /\ ~Migrating => \A j \in DOMAIN js : js[j].id \notin Fresh'
               /\ \A id \in Fresh : id[1] # w.id[1] => id \in Fresh'
               /\ \E id \in ID : id[1] = w.id[1] /\ WillStore(stored[storageType], jobs \o js, id)
  <1> DEFINE w == Head(Available)
             js == StorageJobs(w.id, w.row)
             a == V1(w.row.hashes)
             to == ToTorrentID(w.row.hashes)
             x == RemoveJob(a)
             y == StoreJob(to, Used(w.id, w.row))
  <1>1. /\ w \in Loaded /\ w.id \in ID /\ w.row \in Row /\ w.id \in w.row.hashes
        /\ Waiting # <<>> /\ Head(Waiting) = w
        /\ Pending' \subseteq Pending /\ w.id \in Pending /\ w.id \notin Pending'
        /\ \A id \in Pending : id # w.id => id \in Pending'
        /\ UNCHANGED <<stored, dbExists, storageType, startupStorage, owned, removed, phase, events, loading>>
        /\ w.id \notin context.skipped /\ w.row.readable
        /\ jobs' = jobs \o js
        /\ context'.skipped = context.skipped \cup Skips(w.id, w.row)
    BY TakenRow
  <1>2. /\ js \in Seq(Job) /\ x \in Job /\ y \in Job
        /\ \A i \in DOMAIN js : \/ js[i] = x /\ (HasAlternative(w.id, w.row) \/ Old(w.id, w.row))
                                \/ js[i] = y /\ (Old(w.id, w.row) \/ Migrating)
        /\ Old(w.id, w.row) \/ Migrating =>
             \E i \in DOMAIN js : js[i] = y /\ \A k \in DOMAIN js : ~(i < k)
    BY <1>1, StorageJobsAre
  <1>3. /\ w.row.readable => Used(w.id, w.row).readable
        /\ \A s \in Skips(w.id, w.row) : s \in ID /\ s[1] = w.id[1] /\ s # w.id
        /\ a \in ID /\ a[1] = w.id[1] /\ to \in ID /\ to[1] = w.id[1]
        /\ Old(w.id, w.row) => a = w.id /\ to = V2(w.row.hashes)
        /\ ~Old(w.id, w.row) => to = w.id
        /\ HasAlternative(w.id, w.row) =>
             ~Old(w.id, w.row) /\ a # w.id /\ Skips(w.id, w.row) = {a}
        /\ Old(w.id, w.row) /\ V2(w.row.hashes) \in context.indexed => V2(w.row.hashes) \in Skips(w.id, w.row)
    BY <1>1, RowProcessed DEF Filed
  <1>4. x.id = a /\ y.id = to /\ y.op = "store" /\ y.row = Used(w.id, w.row)
    BY DEF RemoveJob, StoreJob
  <1>5. Pending \subseteq context.indexed
    <2>1. handling = "data"
      BY DEF ProcessNext, CanProcess
    <2> QED
      BY <2>1 DEF Announced, Control, Beginning
  <1>6. w.id \in Fresh
    BY <1>1 DEF Fresh
  <1>7. ~Migrating => w.id \in DOMAIN stored[storageType] /\ stored[storageType][w.id] = w.row
                      /\ \A j \in DOMAIN jobs : jobs[j].id # w.id
    <2>1. 1 \in DOMAIN Waiting /\ Waiting[1] = w
      BY <1>1, WaitingType, TailElements
    <2>2. Load(w.id) = w.row
      BY <1>6, <2>1 DEF Unaltered
    <2>3. w.id \in DOMAIN stored[startupStorage] /\ stored[startupStorage][w.id] = w.row
      BY <1>1, <2>2, UnreadableType DEF Load
    <2> QED
      BY <1>6, <2>3 DEF Unaltered, Migrating
  <1>8. jobs \in Seq(Job)
    BY DEF Types
  <1> HIDE DEF w, js, a, to, x, y
  <1>9. \A j \in DOMAIN js : js[j].id \in {a, to}
    BY <1>2, <1>4
  <1>10. Fresh' \subseteq Fresh
    BY <1>1 DEF Fresh
  <1>11. ASSUME ~Migrating, NEW j \in DOMAIN js PROVE js[j].id \notin Fresh'
    <2>1. CASE js[j] = x /\ (HasAlternative(w.id, w.row) \/ Old(w.id, w.row))
      <3>1. a \in Skips(w.id, w.row) \/ a = w.id
        BY <1>3, <2>1
      <3> QED
        BY <1>1, <1>4, <2>1, <3>1 DEF Fresh
    <2>2. CASE js[j] = y /\ Old(w.id, w.row)
      <3>1. to \in context.indexed => to \in Skips(w.id, w.row)
        BY <1>3, <2>2
      <3> QED
        BY <1>1, <1>4, <1>5, <2>2, <3>1 DEF Fresh
    <2> QED
      BY <1>2, <1>11, <2>1, <2>2
  <1>12. \A id \in Fresh : id[1] # w.id[1] => id \in Fresh'
    BY <1>1, <1>3 DEF Fresh
  <1>13. \E id \in ID : id[1] = w.id[1] /\ WillStore(stored[storageType], jobs \o js, id)
    <2>1. CASE Old(w.id, w.row) \/ Migrating
      <3>1. PICK i \in DOMAIN js : js[i] = y /\ \A k \in DOMAIN js : ~(i < k)
        BY <1>2, <2>1
      <3>2. WillStore(stored[storageType], jobs \o js, to)
        BY <1>1, <1>2, <1>3, <1>4, <1>8, <3>1, JobsBehind
      <3> QED
        BY <1>3, <3>2
    <2>2. CASE ~(Old(w.id, w.row) \/ Migrating)
      <3>1. \A i \in DOMAIN js : js[i].id # w.id
        BY <1>2, <1>3, <1>4, <2>2
      <3>2. WillStore(stored[storageType], jobs, w.id)
        BY <1>1, <1>7, <2>2 DEF WillStore, Untouched
      <3>3. WillStore(stored[storageType], jobs \o js, w.id)
        BY <1>2, <1>8, <3>1, <3>2, JobsBehind
      <3> QED
        BY <1>1, <3>3
    <2> QED
      BY <2>1, <2>2
  <1>14. \A j \in DOMAIN js : js[j].id[1] = w.id[1]
    BY <1>3, <1>9
  <1> QED
    BY <1>1, <1>2, <1>10, <1>11, <1>12, <1>13, <1>14 DEF w, js

\* What is loaded is what it was, unless the job is about this ID in that storage.
LEMMA PerformedLoad ==
    ASSUME NEW job, startupStorage' = startupStorage, startupStorage \in Storage,
           \A s \in Storage :
             stored'[s] = IF s = storageType THEN Performed(stored[storageType], job) ELSE stored[s]
    PROVE  \A id : Migrating \/ job.id # id => Load(id)' = Load(id)
  <1> SUFFICES ASSUME NEW id, Migrating \/ job.id # id PROVE Load(id)' = Load(id)
    OBVIOUS
  <1> DEFINE old == stored[startupStorage]
             new == stored'[startupStorage]
  <1>1. CASE startupStorage # storageType
    BY <1>1 DEF Load
  <1>2. CASE startupStorage = storageType
    <2>1. job.id # id /\ new = Performed(old, job)
      BY <1>2 DEF Migrating
    <2>2. (id \in DOMAIN new <=> id \in DOMAIN old) /\ (id \in DOMAIN old => new[id] = old[id])
      <3>1. CASE job.op = "store"
        BY <2>1, <3>1 DEF Performed, With
      <3>2. CASE job.op # "store"
        BY <2>1, <3>2 DEF Performed, Without
      <3> QED
        BY <3>1, <3>2
    <2> QED
      BY <2>2 DEF Load
  <1> QED
    BY <1>1, <1>2

LEMMA UnalteredKept ==
    ASSUME Types, Control, Drained, Drained', Filed, Announced, Unaltered,
           QuietAction \/ EndingAction \/ DeleteStorage \/ RowAction
    PROVE  Unaltered'
  <1> USE DEF diskVars, startVars, loadVars, nativeVars, userVars
  <1>0. Waiting \in Seq(Loaded) /\ jobs \in Seq(Job)
    BY WaitingType DEF Types
  <1>1. CASE QuietAction \/ EndingAction
    <2>1. Quiet
      BY <1>1, QuietRows
    <2>2. \A id : Load(id)' = Load(id)
      BY <2>1 DEF Quiet, Load
    <2> QED
      BY <2>1, <2>2 DEF Quiet, Unaltered, Migrating
  <1>2. CASE phase' # "startup"
    <2>1. Fresh' = {} /\ Waiting' = <<>>
      <3>1. loading'.todo = <<>> /\ Waiting' = <<>>
        BY <1>2 DEF Drained, NotLoading
      <3> QED
        BY <3>1, NonePending DEF Pending, Fresh
    <2> QED
      BY <2>1 DEF Unaltered
  <1>3. CASE DeleteStorage \/ \E i \in DOMAIN restored : RemoveRestored(i)
    <2>1. phase' # "startup"
      <3>1. CASE DeleteStorage
        <4>1. Has(events, "delete storage")
          BY <3>1, Handled DEF DeleteStorage
        <4> QED
          BY <3>1, <4>1 DEF Drained, Deletions, DeleteStorage
      <3>2. CASE \E i \in DOMAIN restored : RemoveRestored(i)
        BY <3>2 DEF RemoveRestored
      <3> QED
        BY <1>3, <3>1, <3>2
    <2> QED
      BY <1>2, <2>1
  <1>4. ASSUME NEW type \in Storage, PrepareStartup(type) PROVE Unaltered'
    <2>1. Waiting' = <<>> /\ jobs' = <<>>
      BY <1>4, PreparedRows
    <2>2. DOMAIN Waiting' = {} /\ DOMAIN jobs' = {}
      BY <2>1
    <2> QED
      BY <2>2 DEF Unaltered
  <1>5. CASE LoadNext
    <2> DEFINE w == [id |-> Head(loading.todo), row |-> Load(Head(loading.todo))]
    <2>1. /\ w \in Loaded /\ w.row = Load(w.id) /\ Waiting' = Append(Waiting, w) /\ Fresh' = Fresh
          /\ UNCHANGED <<stored, storageType, startupStorage, jobs>>
      BY <1>5, LoadedRow DEF Filed
    <2>2. \A id : Load(id)' = Load(id)
      BY <2>1 DEF Load
    <2> HIDE DEF w
    <2>3. \A i \in DOMAIN Waiting' : \/ i \in DOMAIN Waiting /\ Waiting'[i] = Waiting[i]
                                     \/ Waiting'[i] = w
      BY <1>0, <2>1, AppendedElement
    <2>4. \A i \in DOMAIN Waiting' : Waiting'[i].id \in Fresh' => Load(Waiting'[i].id) = Waiting'[i].row
      BY <2>1, <2>3 DEF Unaltered
    <2>5. \A i \in DOMAIN Waiting' : Waiting'[i].id \in Fresh' => (Load(Waiting[i].id))' = (Waiting[i].row)'
      BY <2>1, <2>4 DEF Load
    <2> QED
      BY <2>1, <2>5 DEF Unaltered, Migrating
  <1>6. CASE SkipNext \/ ProcessNext
    <2>1. /\ Waiting # <<>> /\ Waiting' = Tail(Waiting)
          /\ UNCHANGED <<stored, storageType, startupStorage>>
      BY <1>6, TakenRow
    <2>2. Fresh' \subseteq Fresh
      <3>1. Pending' \subseteq Pending /\ context.skipped \subseteq context'.skipped
        BY <1>6, TakenRow
      <3> QED
        BY <3>1 DEF Fresh
    <2>3. \A i \in DOMAIN Waiting' : \E k \in DOMAIN Waiting : Waiting'[i] = Waiting[k]
      BY <1>0, <2>1, TailElements
    <2>4. \A i \in DOMAIN Waiting' : Waiting'[i].id \in Fresh' => Load(Waiting'[i].id) = Waiting'[i].row
      BY <2>2, <2>3 DEF Unaltered
    <2>5. \A i \in DOMAIN Waiting' : Waiting'[i].id \in Fresh' => (Load(Waiting[i].id))' = (Waiting[i].row)'
      BY <2>1, <2>4 DEF Load
    <2>6. ~Migrating => \A j \in DOMAIN jobs' : jobs'[j].id \notin Fresh'
      <3>1. CASE SkipNext
        <4>1. jobs' = jobs
          BY <3>1, TakenRow
        <4> QED
          BY <2>2, <4>1 DEF Unaltered
      <3>2. CASE ProcessNext
        <4> DEFINE js == StorageJobs(Head(Available).id, Head(Available).row)
        <4>1. /\ js \in Seq(Job) /\ jobs' = jobs \o js
              /\ ~Migrating => \A j \in DOMAIN js : js[j].id \notin Fresh'
          BY <3>2, ProcessedRow
        <4> HIDE DEF js
        <4>2. \A j \in DOMAIN jobs' : \/ j \in DOMAIN jobs /\ jobs'[j] = jobs[j]
                                      \/ j - Len(jobs) \in DOMAIN js /\ jobs'[j] = js[j - Len(jobs)]
          BY <1>0, <4>1, ConcatElements
        <4> QED
          BY <2>2, <4>1, <4>2 DEF Unaltered
      <3> QED
        BY <1>6, <3>1, <3>2
    <2> QED
      BY <2>1, <2>5, <2>6 DEF Unaltered, Migrating
  <1>7. CASE PerformStorageJob
    <2> DEFINE job == Head(jobs)
    <2>1. /\ jobs # <<>> /\ jobs' = Tail(jobs)
          /\ \A s \in Storage :
               stored'[s] = IF s = storageType THEN Performed(stored[storageType], job) ELSE stored[s]
          /\ UNCHANGED <<storageType, startupStorage, loading, loadedData, context>>
      BY <1>7, PerformedJob DEF Filed
    <2>2. Fresh' = Fresh /\ Waiting' = Waiting
      BY <2>1 DEF Fresh, Pending, Waiting
    <2>3. startupStorage \in Storage /\ storageType \in Storage
      BY DEF Types
    <2>4. \A j \in DOMAIN jobs' : \E k \in DOMAIN jobs : jobs'[j] = jobs[k]
      BY <1>0, <2>1, TailElements
    <2>5. ~Migrating => job.id \notin Fresh
      BY <1>0, <2>1, TailElements DEF Unaltered
    <2> HIDE DEF job
    <2>6. \A id \in Fresh : Load(id)' = Load(id)
      BY <2>1, <2>3, <2>5, PerformedLoad
    <2>7. \A i \in DOMAIN Waiting' : Waiting'[i].id \in Fresh' => (Load(Waiting[i].id))' = (Waiting[i].row)'
      BY <2>2, <2>6 DEF Unaltered
    <2> QED
      BY <2>1, <2>2, <2>4, <2>7 DEF Unaltered, Migrating
  <1>8. CASE ProgramExit \/ ProgramCrash
    <2>1. phase' # "startup"
      BY <1>8, EndedProcess
    <2> QED
      BY <1>2, <2>1
  <1> QED
    BY <1>1, <1>3, <1>4, <1>5, <1>6, <1>7, <1>8 DEF RowAction

\* What a storage has of the user's torrents.
LEMMA OwnedRows ==
    ASSUME NEW rows \in Rows, \A id \in DOMAIN rows : id \in rows[id].hashes
    PROVE  /\ \A c \in OwnedIn(rows).torrents :
                \E id \in DOMAIN rows : id \in ID /\ id[1] = c /\ rows[id].readable
           /\ \A c \in OwnedIn(rows).metadata :
                \E id \in DOMAIN rows : id \in ID /\ id[1] = c /\ rows[id].readable /\ rows[id].meta
           /\ \A id \in DOMAIN rows : rows[id].readable => id[1] \in OwnedIn(rows).torrents
  <1>1. PICK ids \in SUBSET ID : rows \in [ids -> Row]
    BY DEF Rows
  <1>2. \A id \in DOMAIN rows : id \in ID /\ id[1] = ContentOf(rows[id].hashes)
    <2>1. ASSUME NEW id \in DOMAIN rows PROVE id \in ID /\ id[1] = ContentOf(rows[id].hashes)
      <3>1. id \in ID /\ rows[id].hashes \in InfoHash /\ id \in rows[id].hashes
        BY <1>1 DEF Row
      <3> QED
        BY <3>1, HashesKnown
    <2> QED
      BY <2>1
  <1> QED
    BY <1>2 DEF OwnedIn

LEMMA PreservedKept ==
    ASSUME Types, Control, Drained, Filed, Announced, Unaltered, Preserved,
           QuietAction \/ EndingAction \/ DeleteStorage \/ RowAction
    PROVE  Preserved'
  <1> USE DEF diskVars, startVars, loadVars, nativeVars, userVars
  <1>0. /\ Waiting \in Seq(Loaded) /\ jobs \in Seq(Job)
        /\ storageType \in Storage /\ startupStorage \in Storage /\ stored \in [Storage -> Rows]
    BY WaitingType DEF Types
  <1>1. CASE QuietAction \/ EndingAction
    <2>1. Quiet
      BY <1>1, QuietRows
    <2>2. \A id : Load(id)' = Load(id)
      BY <2>1 DEF Quiet, Load
    <2>3. \A c : (Remains(c)' <=> Remains(c)) /\ (NotYet(c)' <=> NotYet(c))
      BY <2>1, <2>2 DEF Quiet, Remains, NotYet, Migrating
    <2> QED
      BY <2>1, <2>3 DEF Quiet, Preserved
  <1>2. CASE DeleteStorage
    <2>1. /\ UNCHANGED <<jobs, storageType, phase, owned, removed>>
          /\ storageType = "files" => stored' = [stored EXCEPT !["db"] = NoRows]
          /\ storageType # "files" => stored' = stored
      BY <1>2 DEF DeleteStorage
    <2>2. phase # "startup"
      <3>1. Has(events, "delete storage")
        BY <1>2, Handled DEF DeleteStorage
      <3> QED
        BY <3>1 DEF Drained, Deletions
    <2>3. stored'[storageType] = stored[storageType]
      BY <1>0, <2>1
    <2>4. \A c : ~NotYet(c)
      BY <2>2, NoneFresh DEF NotYet
    <2>5. \A c : Remains(c)' <=> Remains(c)
      BY <2>1, <2>3 DEF Remains
    <2> QED
      BY <2>1, <2>4, <2>5 DEF Preserved
  <1>3. ASSUME NEW type \in Storage, PrepareStartup(type) PROVE Preserved'
    <2>1. /\ jobs' = <<>> /\ Waiting' = <<>> /\ stored' = stored
          /\ context'.skipped = {} /\ owned' = OwnedIn(stored[startupStorage'])
          /\ PendingIDs(loading'.todo, <<>>) = DOMAIN stored[startupStorage']
      BY <1>3, PreparedRows
    <2>2. startupStorage' \in Storage
      BY <1>3 DEF PrepareStartup, Storage
    <2> DEFINE rows == stored[startupStorage']
    <2>3. rows \in Rows /\ \A id \in DOMAIN rows : id \in rows[id].hashes
      BY <1>0, <2>2 DEF Filed, KeyedRows
    <2>4. Fresh' = DOMAIN rows
      BY <2>1 DEF Fresh, Pending
    <2>5. DOMAIN jobs' = {}
      BY <2>1
    <2> SUFFICES ASSUME NEW c \in owned'.torrents PROVE Remains(c)' \/ NotYet(c)'
      BY DEF Preserved
    <2>6. PICK id \in DOMAIN rows : id \in ID /\ id[1] = c /\ rows[id].readable
      <3> HIDE DEF rows
      <3>1. c \in OwnedIn(rows).torrents
        BY <2>1 DEF rows
      <3> QED
        BY <2>3, <3>1, OwnedRows
    <2>7. CASE Migrating'
      <3>1. Load(id)' = rows[id]
        BY <2>1, <2>6 DEF Load
      <3> QED
        BY <2>4, <2>6, <2>7, <3>1 DEF NotYet
    <2>8. CASE ~Migrating'
      <3>1. rows = stored'[storageType']
        BY <2>1, <2>8 DEF Migrating
      <3>2. WillStore(stored'[storageType'], jobs', id)
        BY <2>5, <2>6, <3>1 DEF WillStore, Untouched
      <3> QED
        BY <2>6, <3>2 DEF Remains
    <2> QED
      BY <2>7, <2>8
  <1>4. CASE LoadNext
    <2>1. /\ Fresh' = Fresh
          /\ UNCHANGED <<stored, storageType, startupStorage, jobs, phase, owned, removed>>
      BY <1>4, LoadedRow
    <2>2. \A id : Load(id)' = Load(id)
      BY <2>1 DEF Load
    <2>3. \A c : (Remains(c)' <=> Remains(c)) /\ (NotYet(c)' <=> NotYet(c))
      BY <2>1, <2>2 DEF Remains, NotYet, Migrating
    <2> QED
      BY <2>1, <2>3 DEF Preserved
  <1>5. CASE SkipNext
    <2> DEFINE w == Head(Available)
    <2>1. /\ w \in Loaded /\ w.id \in ID /\ Waiting # <<>> /\ Head(Waiting) = w
          /\ \A id \in Pending : id # w.id => id \in Pending'
          /\ UNCHANGED <<stored, storageType, startupStorage, phase, owned, removed, jobs>>
          /\ context'.skipped = context.skipped
          /\ w.id \in context.skipped \/ ~w.row.readable
      BY <1>5, TakenRow
    <2>2. 1 \in DOMAIN Waiting /\ Waiting[1] = w
      BY <1>0, <2>1, TailElements
    <2> HIDE DEF w
    <2>3. \A id : Load(id)' = Load(id)
      BY <2>1 DEF Load
    <2>4. ASSUME NEW id \in Fresh, Load(id).readable PROVE id \in Fresh'
      <3>1. id # w.id
        BY <2>1, <2>2, <2>4 DEF Unaltered, Fresh
      <3> QED
        BY <2>1, <3>1 DEF Fresh
    <2>5. \A c : (Remains(c)' <=> Remains(c)) /\ (NotYet(c) => NotYet(c)')
      BY <2>1, <2>3, <2>4 DEF Remains, NotYet, Migrating
    <2> QED
      BY <2>1, <2>5 DEF Preserved
  <1>6. CASE ProcessNext
    <2> DEFINE w == Head(Available)
               js == StorageJobs(w.id, w.row)
    <2>1. UNCHANGED <<stored, storageType, startupStorage, phase, owned, removed>>
      BY <1>6, TakenRow
    <2>2. /\ js \in Seq(Job) /\ jobs' = jobs \o js
          /\ \A j \in DOMAIN js : js[j].id[1] = w.id[1]
          /\ \A id \in Fresh : id[1] # w.id[1] => id \in Fresh'
          /\ \E id \in ID : id[1] = w.id[1] /\ WillStore(stored[storageType], jobs \o js, id)
      BY <1>6, ProcessedRow
    <2> HIDE DEF w, js
    <2>3. \A id : Load(id)' = Load(id)
      BY <2>1 DEF Load
    <2> SUFFICES ASSUME phase # "off", NEW c \in owned.torrents \ removed
                 PROVE  Remains(c)' \/ NotYet(c)'
      BY <2>1 DEF Preserved
    <2>4. CASE c = w.id[1]
      BY <2>1, <2>2, <2>4 DEF Remains
    <2>5. CASE c # w.id[1]
      <3>1. NotYet(c) => NotYet(c)'
        BY <2>1, <2>2, <2>3, <2>5 DEF NotYet, Migrating
      <3>2. ASSUME NEW id \in ID, id[1] = c, WillStore(stored[storageType], jobs, id)
            PROVE  WillStore(stored[storageType], jobs \o js, id)
        <4>1. \A j \in DOMAIN js : js[j].id # id
          BY <2>2, <2>5, <3>2
        <4> QED
          BY <1>0, <2>2, <3>2, <4>1, JobsBehind
      <3>3. Remains(c) => Remains(c)'
        BY <2>1, <2>2, <3>2 DEF Remains
      <3> QED
        BY <3>1, <3>3 DEF Preserved
    <2> QED
      BY <2>4, <2>5
  <1>7. CASE PerformStorageJob
    <2> DEFINE job == Head(jobs)
    <2>1. /\ jobs # <<>> /\ jobs' = Tail(jobs)
          /\ \A s \in Storage :
               stored'[s] = IF s = storageType THEN Performed(stored[storageType], job) ELSE stored[s]
          /\ UNCHANGED <<storageType, startupStorage, loading, loadedData, context, phase, owned, removed>>
      BY <1>7, PerformedJob DEF Filed
    <2>2. Fresh' = Fresh
      BY <2>1 DEF Fresh, Pending, Waiting
    <2>3. \A id : WillStore(stored[storageType], jobs, id) => WillStore(stored'[storageType], jobs', id)
      BY <1>0, <2>1, JobDone
    <2> HIDE DEF job
    <2>4. \A id : Migrating => Load(id)' = Load(id)
      BY <1>0, <2>1, PerformedLoad
    <2>5. \A c : (Remains(c) => Remains(c)') /\ (NotYet(c) => NotYet(c)')
      BY <2>1, <2>2, <2>3, <2>4 DEF Remains, NotYet, Migrating
    <2> QED
      BY <2>1, <2>5 DEF Preserved
  <1>8. ASSUME NEW i \in DOMAIN restored, RemoveRestored(i) PROVE Preserved'
    <2> DEFINE job == RemoveJob(ToTorrentID(restored[i].row.hashes))
               content == ContentOf(restored[i].row.hashes)
    <2>1. /\ jobs' = Append(jobs, job) /\ job \in Job /\ job.id[1] = content
          /\ removed' = removed \cup {content} /\ phase = "running"
          /\ UNCHANGED <<stored, storageType, startupStorage, owned, phase>>
      BY <1>8, RemovedTorrent
    <2> HIDE DEF job, content
    <2>2. \A c : ~NotYet(c)
      BY <2>1, NoneFresh DEF NotYet
    <2>3. jobs' = jobs \o <<job>> /\ <<job>> \in Seq(Job) /\ \A j \in DOMAIN <<job>> : <<job>>[j] = job
      BY <1>0, <2>1, AppendIsConcat
    <2>4. ASSUME NEW c, c # content, Remains(c) PROVE Remains(c)'
      <3>1. PICK id \in ID : id[1] = c /\ WillStore(stored[storageType], jobs, id)
        BY <2>4 DEF Remains
      <3>2. job.id # id
        BY <2>1, <2>4, <3>1
      <3>3. WillStore(stored[storageType], jobs \o <<job>>, id)
        BY <1>0, <2>3, <3>1, <3>2, JobsBehind
      <3> QED
        BY <2>1, <2>3, <3>1, <3>3 DEF Remains
    <2> QED
      BY <2>1, <2>2, <2>4 DEF Preserved
  <1>9. CASE ProgramExit \/ ProgramCrash
    BY <1>9, EndedProcess DEF Preserved
  <1> QED
    BY <1>1, <1>2, <1>3, <1>4, <1>5, <1>6, <1>7, <1>8, <1>9 DEF RowAction

\* At the first start.
LEMMA InitFiled == StartupInit => Filed /\ Drained
  <1> SUFFICES ASSUME StartupInit PROVE Filed /\ Drained
    OBVIOUS
  <1> DEFINE none == <<>>
  <1>1. jobs = none /\ loadedData = none /\ context.loaded = none /\ loading = [state |-> "done", todo |-> none]
        /\ phase = "off"
    BY DEF StartupInit, NoContext
  <1>2. Waiting = none /\ DOMAIN none = {}
    BY <1>1 DEF Waiting
  <1>3. Drained
    BY <1>1, <1>2 DEF Drained, NotLoading
  <1> HIDE DEF none
  <1>4. PICK rows \in InitialRows, source \in Storage :
          stored = [s \in Storage |-> IF s = source THEN rows ELSE NoRows]
    BY DEF StartupInit
  <1>5. \A id \in DOMAIN rows : id \in rows[id].hashes
    <2>1. ASSUME NEW id \in DOMAIN rows PROVE id \in rows[id].hashes
      <3>1. id \in ID /\ rows[id] \in RowsUnder(id)
        BY DEF InitialRows
      <3> QED
        BY <3>1, UnreadableType DEF RowsUnder
    <2> QED
      BY <2>1
  <1>6. DOMAIN NoRows = {}
    BY DEF NoRows
  <1>7. KeyedRows(stored)
    BY <1>4, <1>5, <1>6 DEF KeyedRows
  <1> QED
    BY <1>1, <1>2, <1>3, <1>7 DEF Filed, KeyedJobs, KeyedLoaded, Distinct

\* The rows of a start, and what the user has.
Course == Types /\ Control /\ Drained /\ InUse /\ Filed /\ Announced /\ Unaltered /\ Preserved

LEMMA InitCourse == StartupInit => Course
  <1> SUFFICES ASSUME StartupInit PROVE Course
    OBVIOUS
  <1>1. phase = "off" /\ ~context.alive /\ jobs = <<>> /\ context.loaded = <<>> /\ loadedData = <<>>
    BY DEF StartupInit, NoContext
  <1>2. DOMAIN jobs = {} /\ DOMAIN Waiting = {}
    BY <1>1 DEF Waiting
  <1>3. InUse /\ Announced /\ Unaltered /\ Preserved
    BY <1>1, <1>2 DEF InUse, Announced, Unaltered, Preserved
  <1> QED
    BY <1>3, InitTypes, InitControl, InitFiled DEF Course

LEMMA NextCourse == Course /\ [StartupNext]_startupVars => Course'
  <1> SUFFICES ASSUME Course, [StartupNext]_startupVars PROVE Course'
    OBVIOUS
  <1>1. Types /\ Control /\ Drained /\ InUse /\ Filed /\ Announced /\ Unaltered /\ Preserved
    BY DEF Course
  <1>2. QuietAction \/ EndingAction \/ DeleteStorage \/ RowAction
    BY StepKinds
  <1>3. Types' /\ Control'
    BY <1>1, NextTypes, NextControl
  <1>4. Drained' /\ InUse' /\ Filed' /\ Announced'
    BY <1>1, <1>2, DrainedKept, InUseKept, FiledKept, AnnouncedKept
  <1>5. Unaltered' /\ Preserved'
    BY <1>1, <1>2, <1>4, UnalteredKept, PreservedKept
  <1> QED
    BY <1>3, <1>4, <1>5 DEF Course

\* When the worker has done its work and nothing is queued, the next start reads
\* the storage the torrents were migrated to: storing them under another ID, or in
\* the other storage, loses none, whatever rows the last exit left, and however
\* torrents are reloaded or the process crashed before.
THEOREM StoredKept == StartupSpec => []StoredIsKept
  <1>1. Course => StoredIsKept
    <2> SUFFICES ASSUME Course, phase = "running", events = <<>>, jobs = <<>>,
                        NEW c \in owned.torrents \ removed
                 PROVE  c \in WouldRestore.torrents
      BY DEF StoredIsKept
    <2> DEFINE rows == stored[storageType]
    <2>1. DOMAIN jobs = {} /\ DOMAIN events = {}
      OBVIOUS
    <2>2. ~NotYet(c)
      BY NoneFresh DEF NotYet, Course
    <2>3. PICK id \in ID : id[1] = c /\ WillStore(rows, jobs, id)
      BY <2>2 DEF Course, Preserved, Remains
    <2>4. id \in DOMAIN rows /\ rows[id].readable
      BY <2>1, <2>3 DEF WillStore
    <2>5. storageType \in {"files", "db"} /\ (dbExists <=> storageType = "db")
      BY <2>1 DEF Course, InUse, Has, Types, Storage
    <2>6. WouldRestore = OwnedIn(rows)
      BY <2>5 DEF WouldRestore
    <2>7. rows \in Rows /\ \A i \in DOMAIN rows : i \in rows[i].hashes
      BY DEF Course, Types, Filed, KeyedRows
    <2> HIDE DEF rows
    <2>8. id[1] \in OwnedIn(rows).torrents
      BY <2>4, <2>7, OwnedRows
    <2> QED
      BY <2>3, <2>6, <2>8
  <1> QED
    BY <1>1, InitCourse, NextCourse, PTL DEF StartupSpec

-----------------------------------------------------------------------------
(* What is restored, when no torrent is reloaded.                          *)

\* The alerts and torrents in the sequence have the row of their native torrent.
OfRows(s, nat) == \A i \in DOMAIN s : s[i].handle \in DOMAIN nat /\ nat[s[i].handle].row = s[i].row

RowsMatch == OfRows(posted, natives) /\ OfRows(batch, natives) /\ OfRows(restored, natives)

\* A torrent with this row is restored, or is on its way.
OnItsWay(row) ==
    \/ \E i \in DOMAIN adding : adding[i] = row
    \/ \E i \in DOMAIN posted : posted[i].row = row
    \/ \E i \in DOMAIN batch : batch[i].row = row
    \/ \E i \in DOMAIN restored : restored[i].row = row

\* The alerts of added torrents lead from libtorrent to the torrents.
SessionAction == FetchAlerts \/ AddNative \/ AlertStep

LEMMA OfRowsLater ==
    ASSUME NEW s, NEW nat, NEW new, OfRows(s, nat),
           \A h \in DOMAIN nat : h \in DOMAIN new /\ new[h].row = nat[h].row
    PROVE  OfRows(s, new)
  BY DEF OfRows

LEMMA SessionRows ==
    ASSUME Types, Control, Calm, RowsPart, incident # "reject", RowsMatch, SessionAction
    PROVE  RowsMatch' /\ \A row : OnItsWay(row) => OnItsWay(row)'
  <1> USE DEF userVars
  <1>0. natives \in Seq(Native) /\ adding \in Seq(Row) /\ posted \in Seq(Alert) /\ batch \in Seq(Alert)
        /\ restored \in Seq(Restored)
    BY DEF Types
  <1>1. CASE FetchAlerts
    <2>1. batch' = posted /\ posted' = <<>> /\ UNCHANGED <<natives, adding, restored>> /\ handling = "none"
      BY <1>1 DEF FetchAlerts, CanHandle
    <2>2. batch = <<>>
      BY <2>1 DEF Control
    <2>3. DOMAIN batch = {} /\ DOMAIN posted' = {}
      BY <2>1, <2>2
    <2>4. RowsMatch'
      BY <2>1, <2>3 DEF RowsMatch, OfRows
    <2>5. \A row : OnItsWay(row) => OnItsWay(row)'
      BY <2>1, <2>3 DEF OnItsWay
    <2> QED
      BY <2>4, <2>5
  <1>2. CASE AddNative
    <2> DEFINE k == Len(natives) + 1
               row == Head(adding)
               n == [row |-> row, alive |-> TRUE]
               x == NativeAlert("added", k, row)
    <2>1. adding # <<>> /\ adding' = Tail(adding) /\ UNCHANGED <<batch, restored>>
      BY <1>2 DEF AddNative
    <2>2. natives' = Append(natives, n) /\ row \in Row
      BY <1>2, NewNative
    <2>3. posted' = Append(posted, x)
      <3>1. Owners(row.hashes) = {}
        <4>1. row = adding[1] /\ 1 \in DOMAIN adding
          BY <1>0, <2>1, TailElements
        <4> HIDE DEF row
        <4> QED
          BY <4>1 DEF Owners, RowsPart, ApartRows
      <3>2. posted' = posted \o (<<x>> \o <<>>)
        BY <1>2, <3>1 DEF AddNative, Post
      <3>3. <<x>> \o <<>> = <<x>> /\ x \in Alert
        BY <1>0, <2>2 DEF NativeAlert, Alert
      <3> QED
        BY <1>0, <3>2, <3>3, AppendIsConcat
    <2>4. n \in Native /\ x \in Alert /\ x.handle = k /\ x.row = row /\ n.row = row
      BY <1>0, <2>2 DEF Native, NativeAlert, Alert
    <2> HIDE DEF n, x, row
    <2>5. /\ \A h \in DOMAIN natives : h \in DOMAIN natives' /\ natives'[h].row = natives[h].row
          /\ k \in DOMAIN natives' /\ natives'[k].row = row
      <3>1. /\ DOMAIN natives = 1..Len(natives) /\ DOMAIN natives' = 1 .. Len(natives) + 1
            /\ Len(natives) \in Nat
            /\ \A h \in DOMAIN natives : natives'[h] = natives[h]
            /\ natives'[k] = n
        BY <1>0, <2>2, <2>4, AppendElements
      <3> QED
        BY <2>4, <3>1
    <2> HIDE DEF k
    <2>6. /\ \A i \in DOMAIN posted' : \/ i \in DOMAIN posted /\ posted'[i] = posted[i]
                                       \/ posted'[i] = x
          /\ \A i \in DOMAIN posted : i \in DOMAIN posted' /\ posted'[i] = posted[i]
          /\ \E i \in DOMAIN posted' : posted'[i] = x
      <3>1. /\ DOMAIN posted = 1..Len(posted) /\ DOMAIN posted' = 1 .. Len(posted) + 1
            /\ Len(posted) \in Nat
            /\ \A h \in DOMAIN posted : posted'[h] = posted[h]
            /\ posted'[Len(posted) + 1] = x
        BY <1>0, <2>3, <2>4, AppendElements
      <3> QED
        BY <3>1
    <2>7. OfRows(posted', natives')
      BY <2>4, <2>5, <2>6 DEF RowsMatch, OfRows
    <2>8. RowsMatch'
      BY <2>1, <2>5, <2>7, OfRowsLater DEF RowsMatch
    <2>9. \A i \in DOMAIN adding : adding[i] = row \/ \E j \in DOMAIN adding' : adding'[j] = adding[i]
      BY <1>0, <2>1, TailElements DEF row
    <2>10. \A r : OnItsWay(r) => OnItsWay(r)'
      BY <2>1, <2>4, <2>6, <2>9 DEF OnItsWay
    <2> QED
      BY <2>8, <2>10
  <1>3. CASE AlertStep
    <2>1. batch # <<>> /\ batch' = Tail(batch) /\ adding' = adding
      BY <1>3 DEF AlertStep, TorrentRestored, ReloadRestored, IgnoreReloaded, CanReadAlert
    <2>2. /\ Head(batch) = batch[1] /\ 1 \in DOMAIN batch /\ Head(batch) \in Alert
          /\ \A i \in DOMAIN batch' : \E j \in DOMAIN batch : batch'[i] = batch[j]
          /\ \A i \in DOMAIN batch : batch[i] = Head(batch) \/ \E j \in DOMAIN batch' : batch'[j] = batch[i]
      BY <1>0, <2>1, TailElements
    <2>3. Head(batch).type = "added"
      BY <2>2 DEF Calm, AllAdded
    <2>4. TorrentRestored
      BY <1>3, <2>3 DEF AlertStep, ReloadRestored, IgnoreReloaded, CanReadAlert
    <2> DEFINE alert == Head(batch)
               t == [handle |-> alert.handle, row |-> alert.row]
    <2>5. restored' = Append(restored, t) /\ UNCHANGED <<natives, posted>>
      BY <2>4 DEF TorrentRestored
    <2>6. t \in Restored /\ t.handle = alert.handle /\ t.row = alert.row
      BY <2>2 DEF Alert, Restored
    <2> HIDE DEF t, alert
    <2>7. /\ \A i \in DOMAIN restored' : \/ i \in DOMAIN restored /\ restored'[i] = restored[i]
                                         \/ restored'[i] = t
          /\ \A i \in DOMAIN restored : i \in DOMAIN restored' /\ restored'[i] = restored[i]
          /\ \E i \in DOMAIN restored' : restored'[i] = t
      <3>1. /\ DOMAIN restored = 1..Len(restored) /\ DOMAIN restored' = 1 .. Len(restored) + 1
            /\ Len(restored) \in Nat
            /\ \A h \in DOMAIN restored : restored'[h] = restored[h]
            /\ restored'[Len(restored) + 1] = t
        BY <1>0, <2>5, <2>6, AppendElements
      <3> QED
        BY <3>1
    <2>8. OfRows(batch', natives) /\ alert.handle \in DOMAIN natives /\ natives[alert.handle].row = alert.row
      BY <2>2 DEF RowsMatch, OfRows, alert
    <2>9. OfRows(restored', natives)
      BY <2>6, <2>7, <2>8 DEF RowsMatch, OfRows
    <2>10. RowsMatch'
      BY <2>5, <2>8, <2>9 DEF RowsMatch
    <2>11. \A i \in DOMAIN batch : batch[i].row = t.row \/ \E j \in DOMAIN batch' : batch'[j] = batch[i]
      BY <2>2, <2>6 DEF alert
    <2>12. \A r : OnItsWay(r) => OnItsWay(r)'
      BY <2>1, <2>5, <2>7, <2>11 DEF OnItsWay
    <2> QED
      BY <2>10, <2>12
  <1> QED
    BY <1>1, <1>2, <1>3 DEF SessionAction

\* The row of an ID is taken.
LEMMA RowOnItsWay ==
    ASSUME Types, Filed, RowsMatch, ProcessNext
    PROVE  LET w == Head(Available)
           IN  /\ RowsMatch'
               /\ \A row : OnItsWay(row) \/ row = Used(w.id, w.row) => OnItsWay(row)'
  <1> USE DEF userVars
  <1> DEFINE used == Used(Head(Available).id, Head(Available).row)
  <1>1. adding' = Append(adding, used) /\ UNCHANGED <<natives, posted, batch, restored>>
    BY DEF ProcessNext
  <1>2. used \in Row /\ adding \in Seq(Row)
    <2>1. Head(Available).id \in ID /\ Head(Available).row \in Row /\ Head(Available).id \in Head(Available).row.hashes
      BY TakenRow
    <2> QED
      BY <2>1, RowProcessed DEF Filed, Types
  <1> HIDE DEF used
  <1>3. /\ \A i \in DOMAIN adding : i \in DOMAIN adding' /\ adding'[i] = adding[i]
        /\ \E i \in DOMAIN adding' : adding'[i] = used
    <2>1. /\ DOMAIN adding = 1..Len(adding) /\ DOMAIN adding' = 1 .. Len(adding) + 1
          /\ Len(adding) \in Nat
          /\ \A h \in DOMAIN adding : adding'[h] = adding[h]
          /\ adding'[Len(adding) + 1] = used
      BY <1>1, <1>2, AppendElements
    <2> QED
      BY <2>1
  <1>4. \A row : OnItsWay(row) \/ row = used => OnItsWay(row)'
    BY <1>1, <1>3 DEF OnItsWay
  <1>5. RowsMatch'
    BY <1>1 DEF RowsMatch
  <1> QED
    BY <1>4, <1>5 DEF used

\* What the user has: torrents, and those that have metadata.
OwnedWith(meta) == IF meta THEN owned.metadata ELSE owned.torrents

InSession(c, meta) ==
    \E row \in Row : ContentOf(row.hashes) = c /\ (meta => row.meta) /\ OnItsWay(row)
ToCome(c, meta) == \E id \in Fresh : id[1] = c /\ Load(id).readable /\ (meta => Load(id).meta)

\* Every torrent is in the session, or one of its rows is still to be taken.
Accounted ==
    phase # "off" =>
      \A meta \in BOOLEAN : \A c \in OwnedWith(meta) \ removed : InSession(c, meta) \/ ToCome(c, meta)

LEMMA SameAccounts ==
    ASSUME Accounted, UNCHANGED <<owned, removed>>, phase' # "off" => phase # "off",
           \A row : OnItsWay(row) => OnItsWay(row)',
           \A id \in Fresh : Load(id).readable => id \in Fresh' /\ Load(id)' = Load(id)
    PROVE  Accounted'
  <1>1. \A c, meta : InSession(c, meta) => InSession(c, meta)'
    BY DEF InSession
  <1>2. \A c, meta : ToCome(c, meta) => ToCome(c, meta)'
    BY DEF ToCome
  <1> QED
    BY <1>1, <1>2 DEF Accounted, OwnedWith

LEMMA AccountedKept ==
    ASSUME Types, Control, Calm, Drained, Filed, Announced, Unaltered, RowsPart, RowsMatch, Accounted,
           incident # "reject",
           QuietAction \/ EndingAction \/ DeleteStorage \/ RowAction
    PROVE  RowsMatch' /\ Accounted'
  <1> USE DEF diskVars, startVars, loadVars, nativeVars, userVars
  <1>0. /\ Waiting \in Seq(Loaded) /\ jobs \in Seq(Job) /\ restored \in Seq(Restored)
        /\ storageType \in Storage /\ startupStorage \in Storage /\ stored \in [Storage -> Rows]
    BY WaitingType DEF Types
  <1>1. CASE QuietAction \/ EndingAction
    <2>1. Quiet
      BY <1>1, QuietRows
    <2>2. \A id : Load(id)' = Load(id)
      BY <2>1 DEF Quiet, Load
    <2>3. RowsMatch' /\ \A row : OnItsWay(row) => OnItsWay(row)'
      <3>1. CASE SessionAction
        BY <3>1, SessionRows
      <3>2. CASE ~SessionAction
        <4>1. UNCHANGED <<natives, adding, posted, batch, restored>>
          BY <1>1, <3>2 DEF QuietAction, EndingAction, SessionAction, LoadStarted, LoadFinished, BeginHandling,
             HandleWithoutContext, NoteLoadFinished, PauseHandling, AwaitAlerts, AwaitData, AlertsRead,
             EndStartup, DeleteContext, startupVars
        <4> QED
          BY <4>1 DEF RowsMatch, OnItsWay
      <3> QED
        BY <3>1, <3>2
    <2>4. Accounted'
      BY <2>1, <2>2, <2>3, SameAccounts DEF Quiet
    <2> QED
      BY <2>3, <2>4
  <1>2. CASE DeleteStorage \/ LoadNext \/ SkipNext \/ PerformStorageJob
    <2>1. UNCHANGED <<natives, adding, posted, batch, restored, owned, removed, phase>>
      BY <1>2 DEF DeleteStorage, LoadNext, SkipNext, PerformStorageJob
    <2>2. RowsMatch' /\ \A row : OnItsWay(row) => OnItsWay(row)'
      BY <2>1 DEF RowsMatch, OnItsWay
    <2>3. \A id \in Fresh : Load(id).readable => id \in Fresh' /\ Load(id)' = Load(id)
      <3>1. CASE DeleteStorage
        <4>1. Has(events, "delete storage")
          BY <3>1, Handled DEF DeleteStorage
        <4>2. phase # "startup"
          BY <4>1 DEF Drained, Deletions
        <4> QED
          BY <4>2, NoneFresh
      <3>2. CASE LoadNext
        <4>1. Fresh' = Fresh /\ UNCHANGED <<stored, startupStorage>>
          BY <3>2, LoadedRow
        <4> QED
          BY <4>1 DEF Load
      <3>3. CASE SkipNext
        <4> DEFINE w == Head(Available)
        <4>1. /\ w \in Loaded /\ w.id \in ID /\ Waiting # <<>> /\ Head(Waiting) = w
              /\ \A id \in Pending : id # w.id => id \in Pending'
              /\ UNCHANGED <<stored, startupStorage>>
              /\ context'.skipped = context.skipped
              /\ w.id \in context.skipped \/ ~w.row.readable
          BY <3>3, TakenRow
        <4>2. 1 \in DOMAIN Waiting /\ Waiting[1] = w
          BY <1>0, <4>1, TailElements
        <4> HIDE DEF w
        <4>3. \A id \in Fresh : Load(id).readable => id # w.id
          BY <4>1, <4>2 DEF Unaltered, Fresh
        <4>4. \A id \in Fresh : id # w.id => id \in Fresh'
          BY <4>1 DEF Fresh
        <4> QED
          BY <4>1, <4>3, <4>4 DEF Load
      <3>4. CASE PerformStorageJob
        <4> DEFINE job == Head(jobs)
        <4>1. /\ jobs # <<>>
              /\ \A s \in Storage :
                   stored'[s] = IF s = storageType THEN Performed(stored[storageType], job) ELSE stored[s]
              /\ UNCHANGED <<storageType, startupStorage, loading, loadedData, context>>
          BY <3>4, PerformedJob DEF Filed
        <4>2. Fresh' = Fresh
          BY <4>1 DEF Fresh, Pending, Waiting
        <4>3. ~Migrating => job.id \notin Fresh
          BY <1>0, <4>1, TailElements DEF Unaltered
        <4> HIDE DEF job
        <4> QED
          BY <1>0, <4>1, <4>2, <4>3, PerformedLoad
      <3> QED
        BY <1>2, <3>1, <3>2, <3>3, <3>4
    <2>4. Accounted'
      BY <2>1, <2>2, <2>3, SameAccounts
    <2> QED
      BY <2>2, <2>4
  <1>3. ASSUME NEW type \in Storage, PrepareStartup(type) PROVE RowsMatch' /\ Accounted'
    <2>1. /\ Waiting' = <<>> /\ stored' = stored
          /\ context'.skipped = {} /\ owned' = OwnedIn(stored[startupStorage'])
          /\ PendingIDs(loading'.todo, <<>>) = DOMAIN stored[startupStorage']
          /\ posted' = <<>> /\ batch' = <<>> /\ restored' = <<>>
      BY <1>3, PreparedRows
    <2>2. startupStorage' \in Storage
      BY <1>3 DEF PrepareStartup, Storage
    <2> DEFINE rows == stored[startupStorage']
    <2>3. rows \in Rows /\ \A id \in DOMAIN rows : id \in rows[id].hashes
      BY <1>0, <2>2 DEF Filed, KeyedRows
    <2>4. Fresh' = DOMAIN rows
      BY <2>1 DEF Fresh, Pending
    <2>5. \A id \in DOMAIN rows : Load(id)' = rows[id]
      BY <2>1 DEF Load
    <2>6. RowsMatch'
      <3>1. DOMAIN posted' = {} /\ DOMAIN batch' = {} /\ DOMAIN restored' = {}
        BY <2>1
      <3> QED
        BY <3>1 DEF RowsMatch, OfRows
    <2>7. owned' = OwnedIn(rows)
      BY <2>1
    <2> HIDE DEF rows
    <2>8. \A c \in OwnedIn(rows).torrents : ToCome(c, FALSE)'
      BY <2>3, <2>4, <2>5, OwnedRows DEF ToCome
    <2>9. \A c \in OwnedIn(rows).metadata : ToCome(c, TRUE)'
      BY <2>3, <2>4, <2>5, OwnedRows DEF ToCome
    <2> QED
      BY <2>6, <2>7, <2>8, <2>9 DEF Accounted, OwnedWith
  <1>4. CASE ProcessNext
    <2> DEFINE w == Head(Available)
    <2>1. /\ w \in Loaded /\ w.id \in ID /\ w.row \in Row /\ w.id \in w.row.hashes /\ w.row.readable
          /\ w.id \in Pending /\ w.id \notin context.skipped
          /\ Waiting # <<>> /\ Head(Waiting) = w
          /\ \A id \in Pending : id # w.id => id \in Pending'
          /\ UNCHANGED <<stored, storageType, startupStorage, phase, owned, removed>>
          /\ context'.skipped = context.skipped \cup Skips(w.id, w.row)
      BY <1>4, TakenRow
    <2>2. PICK used \in Row :
          /\ used = Used(w.id, w.row) /\ ContentOf(used.hashes) = w.id[1]
          /\ w.row.readable /\ w.row.meta => used.meta
          /\ \A x \in Skips(w.id, w.row) :
               x[1] = w.id[1] /\ (Load(x).readable /\ Load(x).meta => used.meta)
      BY <2>1, RowProcessed DEF Filed
    <2>3. RowsMatch' /\ \A row : OnItsWay(row) \/ row = used => OnItsWay(row)'
      BY <1>4, <2>2, RowOnItsWay
    <2>4. Load(w.id) = w.row
      <3>1. 1 \in DOMAIN Waiting /\ Waiting[1] = w
        BY <1>0, <2>1, TailElements
      <3> QED
        BY <2>1, <3>1 DEF Unaltered, Fresh
    <2> HIDE DEF w
    <2>5. \A id : Load(id)' = Load(id)
      BY <2>1 DEF Load
    <2>6. ASSUME NEW c, NEW meta \in BOOLEAN, ToCome(c, meta) PROVE InSession(c, meta)' \/ ToCome(c, meta)'
      <3>1. PICK id \in Fresh : id[1] = c /\ Load(id).readable /\ (meta => Load(id).meta)
        BY <2>6 DEF ToCome
      <3>2. CASE id = w.id \/ id \in Skips(w.id, w.row)
        <4>1. c = w.id[1] /\ (meta => used.meta)
          BY <2>2, <2>4, <3>1, <3>2
        <4>2. OnItsWay(used)'
          BY <2>3
        <4> QED
          BY <2>2, <2>3, <4>1 DEF InSession
      <3>3. CASE id # w.id /\ id \notin Skips(w.id, w.row)
        <4>1. id \in Fresh'
          BY <2>1, <3>3 DEF Fresh
        <4> QED
          BY <2>5, <3>1, <4>1 DEF ToCome
      <3> QED
        BY <3>2, <3>3
    <2>7. \A c, meta : InSession(c, meta) => InSession(c, meta)'
      BY <2>3 DEF InSession
    <2>8. Accounted'
      BY <2>1, <2>6, <2>7 DEF Accounted, OwnedWith
    <2> QED
      BY <2>3, <2>8
  <1>5. ASSUME NEW i \in DOMAIN restored, RemoveRestored(i) PROVE RowsMatch' /\ Accounted'
    <2> DEFINE content == ContentOf(restored[i].row.hashes)
    <2>1. /\ restored[i] \in Restored /\ removed' = removed \cup {content} /\ phase = "running"
          /\ UNCHANGED <<owned, phase>>
      BY <1>5, RemovedTorrent
    <2>2. /\ restored' = RemoveAt(restored, i) /\ UNCHANGED <<adding, posted, batch>>
          /\ natives' = [natives EXCEPT ![restored[i].handle].alive = FALSE]
      BY <1>5 DEF RemoveRestored
    <2>3. \A h \in DOMAIN natives : h \in DOMAIN natives' /\ natives'[h].row = natives[h].row
      <3>1. \A h \in DOMAIN natives : natives[h] \in Native
        BY LenProperties, ElementOfSeq DEF Types
      <3>2. DOMAIN natives' = DOMAIN natives
        BY <2>2
      <3>3. ASSUME NEW h \in DOMAIN natives PROVE natives'[h].row = natives[h].row
        <4>1. natives'[h] = IF h = restored[i].handle THEN [natives[h] EXCEPT !.alive = FALSE] ELSE natives[h]
          BY <2>2
        <4> QED
          BY <3>1, <4>1 DEF Native
      <3> QED
        BY <3>2, <3>3
    <2>4. /\ \A k \in DOMAIN restored' : \E j \in DOMAIN restored : restored'[k] = restored[j]
          /\ \A j \in DOMAIN restored \ {i} : \E k \in DOMAIN restored' : restored'[k] = restored[j]
      BY <1>0, <2>2, RemoveAtElements
    <2>5. OfRows(restored', natives)
      BY <2>4 DEF RowsMatch, OfRows
    <2>6. RowsMatch'
      <3>1. OfRows(posted, natives) /\ OfRows(batch, natives)
        BY DEF RowsMatch
      <3> DEFINE new == natives'
      <3>2. \A h \in DOMAIN natives : h \in DOMAIN new /\ new[h].row = natives[h].row
        BY <2>3
      <3> HIDE DEF new
      <3>3. OfRows(posted, new) /\ OfRows(batch, new) /\ OfRows(restored', new)
        BY <2>5, <3>1, <3>2, OfRowsLater
      <3> QED
        BY <2>2, <3>3 DEF RowsMatch, new
    <2> HIDE DEF content
    <2>7. ASSUME NEW row, ContentOf(row.hashes) # content, OnItsWay(row) PROVE OnItsWay(row)'
      <3>1. CASE \E j \in DOMAIN restored : restored[j].row = row
        BY <2>4, <2>7, <3>1 DEF OnItsWay, content
      <3>2. CASE ~(\E j \in DOMAIN restored : restored[j].row = row)
        BY <2>2, <2>7, <3>2 DEF OnItsWay
      <3> QED
        BY <3>1, <3>2
    <2>8. \A c, meta : c # content /\ InSession(c, meta) => InSession(c, meta)'
      BY <2>7 DEF InSession
    <2>9. \A c, meta : ~ToCome(c, meta)
      BY <2>1, NoneFresh DEF ToCome
    <2>10. Accounted'
      BY <2>1, <2>8, <2>9 DEF Accounted, OwnedWith
    <2> QED
      BY <2>6, <2>10
  <1>6. CASE ProgramExit \/ ProgramCrash
    <2>1. phase' = "off" /\ posted' = <<>> /\ batch' = <<>> /\ restored' = <<>>
      BY <1>6, EndedProcess
    <2>2. DOMAIN posted' = {} /\ DOMAIN batch' = {} /\ DOMAIN restored' = {}
      BY <2>1
    <2> QED
      BY <2>1, <2>2 DEF RowsMatch, OfRows, Accounted
  <1> QED
    BY <1>1, <1>2, <1>3, <1>4, <1>5, <1>6 DEF RowAction

\* The handler of loadStarted indexes all torrents before the first is taken over,
\* and processNextResumeData skips a row only when the other one's metadata is used:
\* every torrent that could be read is there when the startup ends, with its
\* metadata, and stays until the user removes it.  Where an old row was left under
\* the other ID, or torrents are reloaded, this is not so.
THEOREM EveryRestored == StartupSpec => [](incident # "leftover" => AllRestored)
  <1> DEFINE Rest == /\ incident # "leftover" => OneTorrent
                     /\ incident \notin {"reject", "leftover"} => RowsMatch /\ Accounted
             I == Course /\ Calm /\ Rest
  <1>1. StartupInit => I
    <2> SUFFICES ASSUME StartupInit PROVE Rest
      BY InitCourse, InitControl
    <2>1. phase = "off" /\ posted = <<>> /\ batch = <<>> /\ restored = <<>>
      BY DEF StartupInit
    <2>2. DOMAIN posted = {} /\ DOMAIN batch = {} /\ DOMAIN restored = {}
      BY <2>1
    <2>3. RowsMatch /\ Accounted
      BY <2>1, <2>2 DEF RowsMatch, OfRows, Accounted
    <2> QED
      BY <2>3, InitRows
  <1>2. I /\ [StartupNext]_startupVars => I'
    <2> SUFFICES ASSUME I, [StartupNext]_startupVars PROVE I'
      OBVIOUS
    <2>1. Types /\ Control /\ Drained /\ Filed /\ Announced /\ Unaltered
      BY DEF Course
    <2>2. Course' /\ Calm'
      BY <2>1, NextCourse, NextCalm
    <2>3. ASSUME incident' # "leftover" PROVE OneTorrent'
      BY <2>1, <2>3, SameIncident, NextOneTorrent
    <2>4. ASSUME incident' \notin {"reject", "leftover"} PROVE RowsMatch' /\ Accounted'
      <3>1. incident \notin {"reject", "leftover"}
        BY <2>4, SameIncident
      <3>2. RowsPart /\ RowsMatch /\ Accounted
        BY <3>1 DEF OneTorrent, RowsPart
      <3>3. QuietAction \/ EndingAction \/ DeleteStorage \/ RowAction
        BY StepKinds
      <3> QED
        BY <2>1, <3>1, <3>2, <3>3, AccountedKept
    <2> QED
      BY <2>2, <2>3, <2>4
  <1>3. I => (incident # "leftover" => AllRestored)
    <2> SUFFICES ASSUME I, incident \notin {"reject", "leftover"}, phase \in {"ending", "running"}
                 PROVE  LET rows == {natives[restored[i].handle].row : i \in DOMAIN restored} IN
                        /\ owned.torrents \ removed \subseteq {ContentOf(row.hashes) : row \in rows}
                        /\ owned.metadata \ removed \subseteq {ContentOf(row.hashes) : row \in {r \in rows : r.meta}}
      BY DEF AllRestored
    <2> DEFINE rows == {natives[restored[i].handle].row : i \in DOMAIN restored}
    <2>1. adding = <<>> /\ posted = <<>> /\ batch = <<>>
      BY DEF Calm
    <2>2. \A c, meta : ~ToCome(c, meta)
      BY NoneFresh DEF ToCome, Course
    <2>3. DOMAIN adding = {} /\ DOMAIN posted = {} /\ DOMAIN batch = {}
      BY <2>1
    <2>4. \A row : OnItsWay(row) => row \in rows
      BY <2>3 DEF OnItsWay, RowsMatch, OfRows
    <2>5. \A meta \in BOOLEAN : \A c \in OwnedWith(meta) \ removed : InSession(c, meta)
      BY <2>2 DEF Accounted
    <2> HIDE DEF rows
    <2>6. \A c \in owned.torrents \ removed : \E row \in rows : ContentOf(row.hashes) = c
      BY <2>4, <2>5 DEF OwnedWith, InSession
    <2>7. \A c \in owned.metadata \ removed : \E row \in rows : ContentOf(row.hashes) = c /\ row.meta
      BY <2>4, <2>5 DEF OwnedWith, InSession
    <2> QED
      BY <2>6, <2>7 DEF rows
  <1> HIDE DEF I
  <1> QED
    BY <1>1, <1>2, <1>3, PTL DEF StartupSpec

-----------------------------------------------------------------------------
(* The native torrents of the torrents are there.                          *)

Rejects(alerts) == {i \in DOMAIN alerts : alerts[i].type = "rejected"}

Living(p, b, r, nat) ==
    /\ \A i \in Answers(p) : nat[p[i].handle].alive
    /\ \A i \in Answers(b) : nat[b[i].handle].alive
    /\ \A i \in DOMAIN r : nat[r[i].handle].alive

\* A torrent is of the content of its native torrent.
OfContent(s, nat) ==
    \A i \in DOMAIN s : ContentOf(s[i].row.hashes) = ContentOf(nat[s[i].handle].row.hashes)

\* A native torrent is rejected after it was added.
RejectsFollow(p, b) ==
    /\ \A i \in Rejects(p), j \in Answers(p) : p[i].handle = p[j].handle => j < i
    /\ \A i \in Rejects(b), j \in Answers(b) : b[i].handle = b[j].handle => j < i
    /\ \A i \in Rejects(b), j \in Answers(p) : b[i].handle # p[j].handle

AreThere ==
    /\ Living(posted, batch, restored, natives)
    /\ OfContent(posted, natives) /\ OfContent(batch, natives) /\ OfContent(restored, natives)
    /\ RejectsFollow(posted, batch)

\* libtorrent announces a new native torrent, and rejects it, or one that is there.
LEMMA AddedAlerts ==
    ASSUME Types, AddNative
    PROVE  \E x \in Alert, y \in Alert, n \in Native :
             /\ x.type = "added" /\ x.row = Head(adding) /\ n.alive
             /\ y.type = "rejected" /\ y.handle = x.handle /\ y.row = x.row
             /\ UNCHANGED <<batch, restored>>
             /\ \/ /\ x.handle = Len(natives) + 1 /\ n.row = x.row /\ natives' = Append(natives, n)
                   /\ \/ posted' = Append(posted, x)
                      \/ posted' = Append(Append(posted, x), y) /\ incident = "reject"
                \/ /\ x.handle \in Owners(x.row.hashes) /\ natives' = natives
                   /\ posted' = Append(posted, x)
  <1> USE DEF userVars
  <1> DEFINE row == Head(adding)
             owners == Owners(row.hashes)
             h == IF owners = {} THEN Len(natives) + 1 ELSE CHOOSE i \in owners : TRUE
             x == NativeAlert("added", h, row)
             y == NativeAlert("rejected", h, row)
             n == [row |-> row, alive |-> TRUE]
  <1>1. row \in Row /\ posted \in Seq(Alert) /\ natives \in Seq(Native) /\ UNCHANGED <<batch, restored>>
    BY TailElements DEF AddNative, Types
  <1>2. IF owners = {}
        THEN /\ natives' = Append(natives, n)
             /\ Post(<<x>> \o IF incident = "reject" /\ row.meta THEN <<y>> ELSE <<>>)
        ELSE Post(<<x>>) /\ natives' = natives
    BY DEF AddNative
  <1> HIDE DEF row
  <1>3. h \in Nat /\ (owners # {} => h \in owners) /\ (owners = {} => h = Len(natives) + 1)
    <2>1. owners \subseteq DOMAIN natives /\ Len(natives) \in Nat /\ DOMAIN natives = 1..Len(natives)
      BY <1>1, LenProperties DEF Owners
    <2> QED
      BY <2>1
  <1> HIDE DEF owners, h
  <1>4. /\ x \in Alert /\ y \in Alert /\ n \in Native
        /\ x.type = "added" /\ x.row = row /\ n.alive /\ n.row = row /\ x.handle = h
        /\ y.type = "rejected" /\ y.handle = h /\ y.row = row
    BY <1>1, <1>3 DEF NativeAlert, Alert, Native
  <1> HIDE DEF x, y, n
  <1>5. posted \o <<x>> = Append(posted, x) /\ Append(posted, x) \in Seq(Alert)
    BY <1>1, <1>4, AppendIsConcat, AppendElements
  <1>6. posted \o (<<x>> \o <<>>) = Append(posted, x)
    <2>1. <<x>> \o <<>> = <<x>>
      OBVIOUS
    <2> QED
      BY <1>5, <2>1
  <1>7. posted \o (<<x>> \o <<y>>) = Append(Append(posted, x), y)
    <2> DEFINE u == <<x>>
               v == <<y>>
    <2>1. u \in Seq(Alert) /\ v \in Seq(Alert)
      BY <1>4
    <2>2. Append(posted, x) \o v = Append(Append(posted, x), y)
      BY <1>4, <1>5, AppendIsConcat
    <2>3. posted \o u = Append(posted, x)
      BY <1>5
    <2> HIDE DEF u, v
    <2>4. posted \o (u \o v) = (posted \o u) \o v
      BY <1>1, <2>1, ConcatAssociative
    <2>5. posted \o (u \o v) = Append(Append(posted, x), y)
      BY <2>2, <2>3, <2>4
    <2> QED
      BY <2>5 DEF u, v
  <1>8. CASE owners = {}
    <2>1. /\ natives' = Append(natives, n) /\ x.handle = Len(natives) + 1
          /\ posted' = Append(posted, x) \/ (posted' = Append(Append(posted, x), y) /\ incident = "reject")
      BY <1>2, <1>3, <1>4, <1>6, <1>7, <1>8 DEF Post
    <2> QED
      BY <1>1, <1>4, <2>1 DEF row
  <1>9. CASE owners # {}
    <2>1. natives' = natives /\ x.handle \in owners /\ posted' = Append(posted, x)
      BY <1>2, <1>3, <1>4, <1>5, <1>9 DEF Post
    <2> QED
      BY <1>1, <1>4, <2>1 DEF row, owners
  <1> QED
    BY <1>8, <1>9

LEMMA AddedThere ==
    ASSUME Types, Calm, incident # "leftover" => OneTorrent, AreThere, AddNative
    PROVE  AreThere'
  <1>1. PICK x \in Alert, y \in Alert, n \in Native :
             /\ x.type = "added" /\ x.row = Head(adding) /\ n.alive
             /\ y.type = "rejected" /\ y.handle = x.handle /\ y.row = x.row
             /\ UNCHANGED <<batch, restored>>
             /\ \/ /\ x.handle = Len(natives) + 1 /\ n.row = x.row /\ natives' = Append(natives, n)
                   /\ \/ posted' = Append(posted, x)
                      \/ posted' = Append(Append(posted, x), y) /\ incident = "reject"
                \/ /\ x.handle \in Owners(x.row.hashes) /\ natives' = natives
                   /\ posted' = Append(posted, x)
    BY AddedAlerts
  <1>2. /\ natives \in Seq(Native) /\ posted \in Seq(Alert) /\ batch \in Seq(Alert)
        /\ OfNatives(posted, natives) /\ OfNatives(batch, natives) /\ OfNatives(restored, natives)
    BY DEF Types
  <1> DEFINE m == Len(posted)
             p == Append(posted, x)
             q == Append(p, y)
  <1>3. /\ m \in Nat /\ DOMAIN posted = 1..m /\ DOMAIN p = 1 .. m + 1 /\ DOMAIN q = 1 .. m + 2
        /\ \A i \in 1..m : p[i] = posted[i] /\ q[i] = posted[i]
        /\ p[m + 1] = x /\ q[m + 1] = x /\ q[m + 2] = y
    <2>1. /\ p \in Seq(Alert) /\ m \in Nat /\ Len(p) = m + 1 /\ DOMAIN posted = 1..m /\ DOMAIN p = 1 .. m + 1
          /\ \A i \in DOMAIN posted : p[i] = posted[i]
          /\ p[m + 1] = x
      BY <1>2, AppendElements
    <2> HIDE DEF p
    <2>2. /\ DOMAIN q = 1 .. Len(p) + 1 /\ \A i \in DOMAIN p : q[i] = p[i]
          /\ q[Len(p) + 1] = y
      BY <2>1, AppendElements
    <2> HIDE DEF q, m
    <2>3. DOMAIN q = 1 .. m + 2 /\ q[m + 2] = y
      BY <2>1, <2>2
    <2> QED
      BY <2>1, <2>2, <2>3
  <1> HIDE DEF m, p, q
  <1>4. posted' = p \/ posted' = q
    BY <1>1 DEF p, q
  <1>5. /\ \A i \in Answers(posted') : (i \in Answers(posted) /\ posted'[i] = posted[i]) \/ (i = m + 1 /\ posted'[i] = x)
        /\ \A i \in Rejects(posted') : (i \in Rejects(posted) /\ posted'[i] = posted[i]) \/ (i = m + 2 /\ posted'[i] = y)
        /\ \A i \in DOMAIN posted' : (i \in DOMAIN posted /\ posted'[i] = posted[i]) \/ posted'[i] \in {x, y}
    <2>1. \A i \in DOMAIN posted' : \/ i \in DOMAIN posted /\ posted'[i] = posted[i]
                                    \/ i = m + 1 /\ posted'[i] = x
                                    \/ i = m + 2 /\ posted'[i] = y
      BY <1>3, <1>4
    <2> QED
      BY <1>1, <2>1 DEF Answers, Rejects
  <1>6. /\ \A h \in DOMAIN natives : natives'[h] = natives[h]
        /\ natives'[x.handle].alive
        /\ ContentOf(natives'[x.handle].row.hashes) = ContentOf(x.row.hashes)
    <2>1. CASE x.handle = Len(natives) + 1 /\ n.row = x.row /\ natives' = Append(natives, n)
      <3>1. (\A h \in DOMAIN natives : natives'[h] = natives[h]) /\ natives'[x.handle] = n
        BY <1>2, <2>1, AppendElements
      <3> QED
        BY <1>1, <2>1, <3>1
    <2>2. CASE x.handle \in Owners(x.row.hashes) /\ natives' = natives
      <3>1. x.handle \in DOMAIN natives /\ natives[x.handle].alive
            /\ natives[x.handle].row.hashes \cap x.row.hashes # {}
        BY <2>2 DEF Owners
      <3>2. natives[x.handle].row.hashes \in InfoHash /\ x.row.hashes \in InfoHash
        <4>1. natives[x.handle] \in Native
          BY <1>2, <3>1, LenProperties, ElementOfSeq
        <4> QED
          BY <4>1 DEF Native, Row, Alert
      <3>3. \A a, b \in InfoHash : a \cap b # {} => ContentOf(a) = ContentOf(b)
        BY HashesKnown
      <3> QED
        BY <2>2, <3>1, <3>2, <3>3
    <2> QED
      BY <1>1, <2>1, <2>2
  <1>7. \/ /\ \A i \in DOMAIN posted : posted[i].handle # x.handle
           /\ \A i \in DOMAIN batch : batch[i].handle # x.handle
        \/ Rejects(posted') = {} /\ Rejects(batch) = {}
    <2>1. CASE x.handle = Len(natives) + 1
      <3>1. x.handle \notin DOMAIN natives
        BY <1>2, <2>1, LenProperties
      <3> QED
        BY <1>2, <3>1 DEF OfNatives
    <2>2. CASE x.handle \in Owners(x.row.hashes) /\ posted' = Append(posted, x)
      <3>1. incident # "reject"
        <4> SUFFICES ASSUME incident = "reject" PROVE FALSE
          OBVIOUS
        <4>1. ApartRows(adding, natives)
          BY DEF OneTorrent
        <4>2. x.row = adding[1] /\ 1 \in DOMAIN adding
          BY <1>1, TailElements DEF AddNative, Types
        <4> QED
          BY <2>2, <4>1, <4>2 DEF ApartRows, Owners
      <3>2. AllAdded(posted) /\ AllAdded(batch)
        BY <3>1 DEF Calm
      <3>3. Rejects(batch) = {}
        BY <3>2 DEF AllAdded, Rejects
      <3>4. \A i \in Rejects(posted') : FALSE
        <4>1. posted' = p
          BY <2>2 DEF p
        <4> QED
          BY <1>1, <1>3, <3>2, <4>1 DEF AllAdded, Rejects
      <3> QED
        BY <3>3, <3>4
    <2> QED
      BY <1>1, <2>1, <2>2
  <1> DEFINE v == posted'
             w == natives'
  <1>8. Living(v, batch, restored, w)
    <2>1. ASSUME NEW i \in Answers(v) PROVE w[v[i].handle].alive
      <3>1. CASE i \in Answers(posted) /\ v[i] = posted[i]
        <4>1. posted[i].handle \in DOMAIN natives
          BY <1>2, <3>1 DEF OfNatives, Answers
        <4> QED
          BY <1>6, <3>1, <4>1 DEF AreThere, Living
      <3>2. CASE v[i] = x
        BY <1>6, <3>2
      <3> QED
        BY <1>5, <3>1, <3>2
    <2>2. ASSUME NEW i \in Answers(batch) PROVE w[batch[i].handle].alive
      <3>1. batch[i].handle \in DOMAIN natives
        BY <1>2 DEF OfNatives, Answers
      <3> QED
        BY <1>6, <3>1 DEF AreThere, Living
    <2>3. \A i \in DOMAIN restored : w[restored[i].handle].alive
      BY <1>2, <1>6 DEF AreThere, Living, OfNatives
    <2> HIDE DEF v, w
    <2> QED
      BY <2>1, <2>2, <2>3 DEF Living
  <1>9. OfContent(v, w) /\ OfContent(batch, w) /\ OfContent(restored, w)
    <2>1. ASSUME NEW i \in DOMAIN v
          PROVE  ContentOf(v[i].row.hashes) = ContentOf(w[v[i].handle].row.hashes)
      <3>1. CASE i \in DOMAIN posted /\ v[i] = posted[i]
        <4>1. posted[i].handle \in DOMAIN natives
          BY <1>2, <3>1 DEF OfNatives
        <4> QED
          BY <1>6, <3>1, <4>1 DEF AreThere, OfContent
      <3>2. CASE v[i] \in {x, y}
        BY <1>1, <1>6, <3>2
      <3> QED
        BY <1>5, <3>1, <3>2
    <2>2. OfContent(v, w)
      <3> HIDE DEF v, w
      <3> QED
        BY <2>1 DEF OfContent
    <2>3. OfContent(batch, w) /\ OfContent(restored, w)
      BY <1>2, <1>6 DEF AreThere, OfContent, OfNatives
    <2> QED
      BY <2>2, <2>3
  <1>10. RejectsFollow(v, batch)
    <2>1. \A i \in Answers(posted) : i \in DOMAIN posted /\ i < m + 2
      BY <1>3 DEF Answers
    <2>2. \A i \in Rejects(posted) : i \in DOMAIN posted
      BY DEF Rejects
    <2>3. \A i \in Rejects(batch) : i \in DOMAIN batch
      BY DEF Rejects
    <2>4. m + 1 < m + 2
      BY <1>3
    <2>5. \A i \in Rejects(posted'), j \in Answers(posted') : posted'[i].handle = posted'[j].handle => j < i
      BY <1>1, <1>5, <1>7, <2>1, <2>2, <2>4 DEF AreThere, RejectsFollow
    <2>6. \A i \in Rejects(batch), j \in Answers(posted') : batch[i].handle # posted'[j].handle
      BY <1>1, <1>5, <1>7, <2>3 DEF AreThere, RejectsFollow
    <2> QED
      BY <2>5, <2>6 DEF AreThere, RejectsFollow
  <1> QED
    BY <1>1, <1>8, <1>9, <1>10 DEF AreThere

\* The alerts that remain when one is read.
LEMMA ReadThere ==
    ASSUME Types, batch # <<>>, AreThere
    PROVE  /\ \A i \in Answers(Tail(batch)) : natives[Tail(batch)[i].handle].alive
           /\ OfContent(Tail(batch), natives)
           /\ RejectsFollow(posted, Tail(batch))
           /\ Head(batch).type = "added" => natives[Head(batch).handle].alive
           /\ ContentOf(Head(batch).row.hashes) = ContentOf(natives[Head(batch).handle].row.hashes)
           /\ Head(batch).type = "rejected" =>
                /\ \A i \in Answers(posted) : posted[i].handle # Head(batch).handle
                /\ \A i \in Answers(Tail(batch)) : Tail(batch)[i].handle # Head(batch).handle
  <1> DEFINE t == Tail(batch)
             a == Head(batch)
  <1>1. /\ \A i \in DOMAIN t : i \in Int /\ i > 0 /\ i + 1 \in DOMAIN batch /\ t[i] = batch[i + 1]
        /\ a = batch[1] /\ 1 \in DOMAIN batch
    <2>1. /\ \A i \in DOMAIN t : i + 1 \in DOMAIN batch /\ t[i] = batch[i + 1]
          /\ DOMAIN t = 1 .. Len(batch) - 1 /\ Len(batch) \in Nat
          /\ a = batch[1] /\ 1 \in DOMAIN batch
      BY TailElements DEF Types
    <2> HIDE DEF t, a
    <2> QED
      BY <2>1
  <1> HIDE DEF t, a
  <1>2. /\ \A i \in Answers(t) : i + 1 \in Answers(batch) /\ t[i] = batch[i + 1]
        /\ \A i \in Rejects(t) : i + 1 \in Rejects(batch) /\ t[i] = batch[i + 1]
        /\ a.type = "added" => 1 \in Answers(batch)
        /\ a.type = "rejected" => 1 \in Rejects(batch)
    BY <1>1 DEF Answers, Rejects
  <1>3. \A i \in Answers(t) : natives[t[i].handle].alive
    BY <1>2 DEF AreThere, Living
  <1>4. OfContent(t, natives) /\ ContentOf(a.row.hashes) = ContentOf(natives[a.handle].row.hashes)
    BY <1>1 DEF AreThere, OfContent
  <1>5. ASSUME NEW i \in Rejects(t), NEW j \in Answers(t), t[i].handle = t[j].handle
        PROVE  j < i
    <2>1. j + 1 < i + 1
      BY <1>2, <1>5 DEF AreThere, RejectsFollow
    <2>2. i \in Int /\ j \in Int
      BY <1>1 DEF Answers, Rejects
    <2> QED
      BY <2>1, <2>2
  <1>6. \A i \in Rejects(t), j \in Answers(posted) : t[i].handle # posted[j].handle
    BY <1>2 DEF AreThere, RejectsFollow
  <1>7. RejectsFollow(posted, t)
    BY <1>5, <1>6 DEF AreThere, RejectsFollow
  <1>8. a.type = "added" => natives[a.handle].alive
    BY <1>1, <1>2 DEF AreThere, Living
  <1>9. ASSUME a.type = "rejected"
        PROVE  /\ \A i \in Answers(posted) : posted[i].handle # a.handle
               /\ \A i \in Answers(t) : t[i].handle # a.handle
    <2>1. ASSUME NEW i \in Answers(t), t[i].handle = a.handle PROVE FALSE
      <3>1. i + 1 < 1
        BY <1>1, <1>2, <1>9, <2>1 DEF AreThere, RejectsFollow
      <3>2. i \in Int /\ i > 0
        BY <1>1 DEF Answers
      <3> QED
        BY <3>1, <3>2
    <2>2. \A i \in Answers(posted) : posted[i].handle # a.handle
      BY <1>1, <1>2, <1>9 DEF AreThere, RejectsFollow
    <2> QED
      BY <2>1, <2>2
  <1> QED
    BY <1>3, <1>4, <1>7, <1>8, <1>9 DEF t, a

\* The torrent that is made, and that whose alert is ignored.
LEMMA RestoredThere ==
    ASSUME Types, AreThere, TorrentRestored \/ IgnoreReloaded
    PROVE  AreThere'
  <1> DEFINE a == Head(batch)
             x == [handle |-> a.handle, row |-> a.row]
             r == Append(restored, x)
  <1>1. /\ batch # <<>> /\ posted' = posted /\ natives' = natives /\ batch' = Tail(batch)
        /\ \/ restored' = restored
           \/ a.type = "added" /\ restored' = r
    BY DEF TorrentRestored, IgnoreReloaded, CanReadAlert, userVars
  <1>2. /\ \A i \in Answers(Tail(batch)) : natives[Tail(batch)[i].handle].alive
        /\ OfContent(Tail(batch), natives)
        /\ RejectsFollow(posted, Tail(batch))
        /\ a.type = "added" => natives[a.handle].alive
        /\ ContentOf(a.row.hashes) = ContentOf(natives[a.handle].row.hashes)
    BY <1>1, ReadThere
  <1>3. x \in Restored /\ x.handle = a.handle /\ x.row = a.row
    BY <1>1, BatchType DEF Restored
  <1> HIDE DEF x, a
  <1>4. \A i \in DOMAIN r : (i \in DOMAIN restored /\ r[i] = restored[i]) \/ r[i] = x
    BY <1>3, AppendElements DEF Types
  <1> HIDE DEF r
  <1>5. /\ \A i \in DOMAIN restored' : natives[restored'[i].handle].alive
        /\ OfContent(restored', natives)
    BY <1>1, <1>2, <1>3, <1>4 DEF AreThere, Living, OfContent
  <1> QED
    BY <1>1, <1>2, <1>5 DEF AreThere, Living

\* A rejected torrent was made before: it is the only one of its native torrent,
\* and follows it to the one that replaces it.
LEMMA ReloadThere ==
    ASSUME Types, AreThere, ReloadRestored
    PROVE  AreThere'
  <1> DEFINE t == Tail(batch)
             old == Head(batch).handle
             k == Len(natives) + 1
             x == NativeAlert("reloaded", k, natives[old].row)
             p == posted \o <<x>>
             gone == [natives EXCEPT ![old].alive = FALSE]
  <1>1. /\ batch # <<>> /\ Head(batch).type = "rejected" /\ batch' = t /\ posted' = p
        /\ natives' = Append(gone, natives[old])
        /\ restored' = [i \in DOMAIN restored |->
             IF restored[i].handle = old THEN [restored[i] EXCEPT !.handle = k] ELSE restored[i]]
    BY DEF ReloadRestored, CanReadAlert, Post
  <1>2. /\ old \in DOMAIN natives /\ k \notin DOMAIN natives
        /\ \A h \in DOMAIN natives : natives'[h].row = natives[h].row
        /\ natives'[k] = natives[old]
        /\ x \in Alert
    BY ReloadedNatives
  <1>3. x.type = "reloaded" /\ x.handle = k /\ x.row = natives[old].row
    BY DEF NativeAlert
  <1>4. \A h \in DOMAIN natives : h # old => natives'[h].alive = natives[h].alive
    <2>1. natives \in Seq(Native) /\ DOMAIN natives = 1..Len(natives) /\ Len(natives) \in Nat
      BY LenProperties DEF Types
    <2>2. DOMAIN gone = 1..Len(natives) /\ \A h \in DOMAIN natives : h # old => gone[h] = natives[h]
      BY <2>1
    <2>3. gone \in Seq(Native) /\ natives[old] \in Native
      <3>1. natives[old] \in Native
        BY <1>2, <2>1, ElementOfSeq
      <3> DEFINE m == [natives[old] EXCEPT !.alive = FALSE]
      <3>2. m \in Native /\ gone = [natives EXCEPT ![old] = m]
        BY <3>1 DEF Native
      <3> HIDE DEF m
      <3>3. \A h \in 1..Len(natives) : natives[h] \in Native
        BY <2>1, ElementOfSeq
      <3>4. gone \in [1..Len(natives) -> Native]
        BY <2>1, <3>2, <3>3
      <3> HIDE DEF gone
      <3> QED
        BY <2>1, <3>1, <3>4, SeqDef
    <2> HIDE DEF gone
    <2>4. \A h \in DOMAIN gone : natives'[h] = gone[h]
      BY <1>1, <2>3, AppendElements
    <2> QED
      BY <2>1, <2>2, <2>4
  <1>5. /\ \A i \in Answers(t) : natives[t[i].handle].alive
        /\ OfContent(t, natives) /\ RejectsFollow(posted, t)
        /\ \A i \in Answers(posted) : posted[i].handle # old
        /\ \A i \in Answers(t) : t[i].handle # old
    BY <1>1, ReadThere
  <1>6. /\ OfNatives(posted, natives) /\ OfNatives(t, natives) /\ OfNatives(restored, natives)
        /\ \A i \in DOMAIN restored : restored[i] \in Restored
    BY <1>1, BatchType, LenProperties, ElementOfSeq DEF Types
  <1> HIDE DEF x, t, gone
  <1>7. \A i \in DOMAIN p : (i \in DOMAIN posted /\ p[i] = posted[i]) \/ p[i] = x
    <2> DEFINE s == <<x>>
    <2>1. s \in Seq(Alert) /\ DOMAIN s = {1} /\ s[1] = x
      BY <1>2
    <2>2. p = posted \o s
      OBVIOUS
    <2> HIDE DEF s, p
    <2>3. \A i \in DOMAIN p : \/ i \in DOMAIN posted /\ p[i] = posted[i]
                              \/ i - Len(posted) \in DOMAIN s /\ p[i] = s[i - Len(posted)]
      BY <2>1, <2>2, ConcatElements DEF Types
    <2> QED
      BY <2>1, <2>3
  <1> HIDE DEF p, k, old
  <1>8. /\ \A i \in Answers(p) : i \in Answers(posted) /\ p[i] = posted[i]
        /\ \A i \in Rejects(p) : i \in Rejects(posted) /\ p[i] = posted[i]
    BY <1>3, <1>7 DEF Answers, Rejects
  <1>9. /\ DOMAIN restored' = DOMAIN restored
        /\ \A i \in DOMAIN restored :
             /\ restored'[i].row = restored[i].row
             /\ \/ restored[i].handle = old /\ restored'[i].handle = k
                \/ restored[i].handle # old /\ restored'[i].handle = restored[i].handle
    BY <1>1, <1>6 DEF Restored
  <1> DEFINE v == restored'
             w == natives'
  <1>10. Living(p, t, v, w)
    <2>1. ASSUME NEW i \in Answers(p) PROVE w[p[i].handle].alive
      <3>1. i \in Answers(posted) /\ p[i] = posted[i] /\ p[i].handle \in DOMAIN natives /\ p[i].handle # old
        BY <1>5, <1>6, <1>8 DEF OfNatives, Answers
      <3> QED
        BY <1>4, <3>1 DEF AreThere, Living
    <2>2. ASSUME NEW i \in Answers(t) PROVE w[t[i].handle].alive
      <3>1. t[i].handle \in DOMAIN natives /\ t[i].handle # old
        BY <1>5, <1>6 DEF OfNatives, Answers
      <3> QED
        BY <1>4, <1>5, <3>1
    <2>3. ASSUME NEW i \in DOMAIN v PROVE w[v[i].handle].alive
      <3>1. i \in DOMAIN restored /\ natives[restored[i].handle].alive /\ restored[i].handle \in DOMAIN natives
        BY <1>6, <1>9 DEF AreThere, Living, OfNatives
      <3> QED
        BY <1>2, <1>4, <1>9, <3>1
    <2> HIDE DEF v, w
    <2> QED
      BY <2>1, <2>2, <2>3 DEF Living
  <1>11. OfContent(p, w) /\ OfContent(t, w) /\ OfContent(v, w)
    <2>1. ASSUME NEW i \in DOMAIN p
          PROVE  ContentOf(p[i].row.hashes) = ContentOf(w[p[i].handle].row.hashes)
      <3>1. CASE i \in DOMAIN posted /\ p[i] = posted[i]
        <4>1. posted[i].handle \in DOMAIN natives
          BY <1>6, <3>1 DEF OfNatives
        <4> QED
          BY <1>2, <3>1, <4>1 DEF AreThere, OfContent
      <3>2. CASE p[i] = x
        BY <1>2, <1>3, <3>2
      <3> QED
        BY <1>7, <3>1, <3>2
    <2>2. OfContent(t, w)
      BY <1>2, <1>5, <1>6 DEF OfContent, OfNatives
    <2>3. ASSUME NEW i \in DOMAIN v
          PROVE  ContentOf(v[i].row.hashes) = ContentOf(w[v[i].handle].row.hashes)
      <3>1. /\ i \in DOMAIN restored /\ restored[i].handle \in DOMAIN natives
            /\ ContentOf(restored[i].row.hashes) = ContentOf(natives[restored[i].handle].row.hashes)
        BY <1>6, <1>9 DEF AreThere, OfContent, OfNatives
      <3> QED
        BY <1>2, <1>9, <3>1
    <2> HIDE DEF v, w
    <2> QED
      BY <2>1, <2>2, <2>3 DEF OfContent
  <1>12. RejectsFollow(p, t)
    BY <1>5, <1>8 DEF RejectsFollow
  <1> QED
    BY <1>1, <1>10, <1>11, <1>12 DEF AreThere

\* The alerts that are fetched were announced in their order.
LEMMA MainThere ==
    ASSUME Control, AreThere, MainStep
    PROVE  AreThere'
  <1> USE DEF diskVars, startVars, loadVars, nativeVars, userVars
  <1>1. CASE FetchAlerts
    <2>1. posted' = <<>> /\ batch' = posted /\ UNCHANGED <<restored, natives>>
      BY <1>1 DEF FetchAlerts
    <2>2. DOMAIN <<>> = {}
      OBVIOUS
    <2>3. Answers(<<>>) = {} /\ Rejects(<<>>) = {} /\ OfContent(<<>>, natives)
      BY <2>2 DEF Answers, Rejects, OfContent
    <2>4. Living(<<>>, posted, restored, natives) /\ RejectsFollow(<<>>, posted)
      BY <2>3 DEF AreThere, Living, RejectsFollow
    <2> QED
      BY <2>1, <2>3, <2>4 DEF AreThere
  <1>2. CASE ~FetchAlerts
    <2>1. UNCHANGED <<posted, batch, restored, natives>>
      BY <1>2
         DEF MainStep, BeginHandling, HandleWithoutContext, NoteLoadFinished, SkipNext, ProcessNext,
             PauseHandling, AwaitAlerts, AwaitData, EndStartup, DeleteStorage, DeleteContext, AlertsRead
    <2> QED
      BY <2>1 DEF AreThere
  <1> QED
    BY <1>1, <1>2

\* The native torrent that is removed is of no other torrent, and of none that
\* is still to be made.
LEMMA RemovedThere ==
    ASSUME Types, Calm, incident # "leftover" => OneTorrent,
           AreThere, NEW k \in DOMAIN restored, RemoveRestored(k)
    PROVE  AreThere'
  <1> DEFINE old == restored[k].handle
             w == [natives EXCEPT ![old].alive = FALSE]
             r == RemoveAt(restored, k)
  <1>1. /\ phase = "running" /\ natives' = w /\ restored' = r /\ UNCHANGED <<posted, batch>>
        /\ \A j \in DOMAIN restored \ {k} :
             ContentOf(restored[j].row.hashes) # ContentOf(restored[k].row.hashes)
    BY DEF RemoveRestored
  <1>2. /\ OfNatives(posted, natives) /\ OfNatives(batch, natives) /\ OfNatives(restored, natives)
        /\ natives \in Seq(Native)
    BY DEF Types
  <1>3. \A i \in DOMAIN r : \E j \in DOMAIN restored \ {k} : r[i] = restored[j]
    BY RemoveAtElements DEF Types
  <1>4. \A h \in DOMAIN natives : w[h].row = natives[h].row /\ (h # old => w[h].alive = natives[h].alive)
    <2>1. ASSUME NEW h \in DOMAIN natives
          PROVE  w[h].row = natives[h].row /\ (h # old => w[h].alive = natives[h].alive)
      <3>1. natives[h] \in Native
        BY <1>2, LenProperties, ElementOfSeq
      <3> QED
        BY <3>1 DEF Native
    <2> QED
      BY <2>1
  <1> HIDE DEF w, r
  <1>5. \A j \in DOMAIN restored \ {k} : restored[j].handle # old
    BY <1>1 DEF old, AreThere, OfContent
  <1>6. /\ \A i \in Answers(posted) : posted[i].handle # old
        /\ \A i \in Answers(batch) : batch[i].handle # old
    <2>1. CASE incident # "reject"
      <3>1. posted = <<>> /\ batch = <<>> /\ DOMAIN <<>> = {}
        BY <1>1, <2>1 DEF Calm
      <3> QED
        BY <3>1 DEF Answers
    <2>2. CASE incident = "reject"
      BY <2>2 DEF old, OneTorrent, Handles, DistinctHandles
    <2> QED
      BY <2>1, <2>2
  <1> HIDE DEF old
  <1>7. Living(posted, batch, r, w)
    <2>1. ASSUME NEW i \in DOMAIN r PROVE w[r[i].handle].alive
      <3>1. PICK j \in DOMAIN restored \ {k} : r[i] = restored[j]
        BY <1>3
      <3>2. restored[j].handle \in DOMAIN natives /\ restored[j].handle # old
        BY <1>2, <1>5 DEF OfNatives
      <3> QED
        BY <1>4, <3>1, <3>2 DEF AreThere, Living
    <2>2. ASSUME NEW i \in Answers(posted) PROVE w[posted[i].handle].alive
      <3>1. posted[i].handle \in DOMAIN natives /\ posted[i].handle # old
        BY <1>2, <1>6 DEF OfNatives, Answers
      <3> QED
        BY <1>4, <3>1 DEF AreThere, Living
    <2>3. ASSUME NEW i \in Answers(batch) PROVE w[batch[i].handle].alive
      <3>1. batch[i].handle \in DOMAIN natives /\ batch[i].handle # old
        BY <1>2, <1>6 DEF OfNatives, Answers
      <3> QED
        BY <1>4, <3>1 DEF AreThere, Living
    <2> QED
      BY <2>1, <2>2, <2>3 DEF Living
  <1>8. OfContent(posted, w) /\ OfContent(batch, w)
    BY <1>2, <1>4 DEF AreThere, OfContent, OfNatives
  <1>9. OfContent(r, w)
    <2>1. \A j \in DOMAIN restored :
            ContentOf(restored[j].row.hashes) = ContentOf(w[restored[j].handle].row.hashes)
      BY <1>2, <1>4 DEF AreThere, OfContent, OfNatives
    <2> QED
      BY <1>3, <2>1 DEF OfContent
  <1>10. RejectsFollow(posted, batch)
    BY DEF AreThere
  <1> QED
    BY <1>1, <1>7, <1>8, <1>9, <1>10 DEF AreThere

\* Nothing is there before the first torrent is added.
LEMMA NoneThere ==
    ASSUME natives = <<>>, posted = <<>>, batch = <<>>, restored = <<>>
    PROVE  AreThere
  <1>1. DOMAIN <<>> = {}
    OBVIOUS
  <1> QED
    BY <1>1 DEF AreThere, Living, OfContent, RejectsFollow, Answers, Rejects

LEMMA NextThere ==
    ASSUME Types, Control, Calm, incident # "leftover" => OneTorrent, AreThere,
           [StartupNext]_startupVars
    PROVE  AreThere'
  <1>1. CASE LoaderStep \/ PerformStorageJob \/ UNCHANGED startupVars
    <2>1. UNCHANGED <<posted, batch, restored, natives>>
      BY <1>1 DEF LoaderStep, LoadStarted, LoadNext, LoadFinished, PerformStorageJob, startupVars,
                  nativeVars, userVars
    <2> QED
      BY <2>1 DEF AreThere
  <1>2. CASE ProgramExit \/ ProgramCrash
    <2>1. natives' = <<>> /\ posted' = <<>> /\ batch' = <<>> /\ restored' = <<>>
      BY <1>2, EndedProcess
    <2>2. DOMAIN <<>> = {}
      OBVIOUS
    <2> QED
      BY <2>1, <2>2 DEF AreThere, Living, OfContent, RejectsFollow, Answers, Rejects
  <1>3. ASSUME NEW type \in Storage, PrepareStartup(type)
        PROVE  AreThere'
    <2>1. UNCHANGED <<posted, batch, restored, natives>>
      BY <1>3 DEF PrepareStartup, nativeVars, userVars
    <2> QED
      BY <2>1 DEF AreThere
  <1>4. ASSUME NEW k \in DOMAIN restored, RemoveRestored(k)
        PROVE  AreThere'
    BY <1>4, RemovedThere
  <1> QED
    BY <1>1, <1>2, <1>3, <1>4, AddedThere, MainThere, RestoredThere, ReloadThere
       DEF StartupNext, AlertStep

\* The bound on the starts.
LEMMA NextStarts ==
    ASSUME starts \in 0..MaxStarts, [StartupNext]_startupVars
    PROVE  starts' \in 0..MaxStarts
  <1>1. CASE \E type \in Storage : PrepareStartup(type)
    <2>1. starts < MaxStarts /\ starts' = starts + 1
      BY <1>1 DEF PrepareStartup
    <2> QED
      BY <2>1, StartupAssumption
  <1>2. CASE ~\E type \in Storage : PrepareStartup(type)
    <2>1. starts' = starts
      BY <1>2 DEF StartupNext, LoaderStep, MainStep, AlertStep, LoadStarted, LoadNext,
         LoadFinished, BeginHandling, HandleWithoutContext, NoteLoadFinished, SkipNext, ProcessNext,
         PauseHandling, AwaitAlerts, AwaitData, EndStartup, DeleteStorage, DeleteContext,
         FetchAlerts, AlertsRead, AddNative, TorrentRestored, ReloadRestored, IgnoreReloaded,
         PerformStorageJob, RemoveRestored, ProgramExit, ProgramCrash, ProcessEnds,
         startVars, startupVars
    <2> QED
      BY <2>1
  <1> QED
    BY <1>1, <1>2

\* Each torrent has the handle of a native torrent that is there: when it was
\* restored, when handleFastResumeRejected reloaded it, and when another was
\* removed.
THEOREM StartupTyped == StartupSpec => []StartupTypeOK
  <1> DEFINE Once == incident # "leftover" => OneTorrent
             Started == starts \in 0..MaxStarts
             I == Types /\ Control /\ Calm /\ Once /\ AreThere /\ Started
  <1>1. StartupInit => I
    <2> SUFFICES ASSUME StartupInit PROVE I
      OBVIOUS
    <2>1. AreThere
      BY NoneThere DEF StartupInit
    <2>2. starts \in 0..MaxStarts
      BY StartupAssumption DEF StartupInit
    <2> QED
      BY <2>1, <2>2, InitTypes, InitControl, InitRows
  <1>2. I /\ [StartupNext]_startupVars => I'
    <2> SUFFICES ASSUME I, [StartupNext]_startupVars PROVE I'
      OBVIOUS
    <2>1. Types' /\ Control' /\ Calm'
      BY NextTypes, NextControl, NextCalm
    <2>2. ASSUME incident' # "leftover" PROVE OneTorrent'
      BY <2>2, SameIncident, NextOneTorrent
    <2>3. AreThere'
      BY NextThere
    <2>4. Started'
      BY NextStarts
    <2> QED
      BY <2>1, <2>2, <2>3, <2>4
  <1>3. I => StartupTypeOK
    <2> SUFFICES ASSUME I PROVE StartupTypeOK
      OBVIOUS
    <2>1. ASSUME NEW s \in Storage
          PROVE  DOMAIN stored[s] \subseteq ID /\ \A id \in DOMAIN stored[s] : stored[s][id] \in Row
      <3>1. PICK ids \in SUBSET ID : stored[s] \in [ids -> Row]
        BY DEF Types, Rows
      <3> QED
        BY <3>1
    <2>2. \A i \in DOMAIN jobs : jobs[i] \in Job
      BY LenProperties, ElementOfSeq DEF Types
    <2>3. \A i \in DOMAIN jobs : jobs[i].op \in {"store", "remove"} /\ jobs[i].id \in ID /\ jobs[i].row \in Row
      BY <2>2 DEF Job
    <2>4. \A i \in DOMAIN restored : restored[i].handle \in DOMAIN natives /\ natives[restored[i].handle].alive
      BY DEF Types, OfNatives, AreThere, Living
    <2>5. /\ dbExists \in BOOLEAN /\ handling \in {"none", "data", "alerts"}
          /\ storageType \in Storage /\ startupStorage \in Storage
          /\ starts \in 0..MaxStarts
          /\ phase \in {"off", "startup", "ending", "running", "undefined"}
          /\ loading.state \in {"start", "load", "done"} /\ loading.todo \in Seq(ID)
      BY DEF Types, Phase, Loading
    <2> QED
      BY <2>1, <2>3, <2>4, <2>5 DEF StartupTypeOK
  <1> HIDE DEF I
  <1> QED
    BY <1>1, <1>2, <1>3, PTL DEF StartupSpec

=============================================================================
