------------------------- MODULE ResumeFilesProofs -------------------------
(* Theorems about ResumeFiles, for every value of its constants.             *)
EXTENDS ResumeFiles, SequenceTheorems, FiniteSetTheorems, TLAPS

\* What MetadataIsThere rests on while the thread is between the two files of
\* a torrent: a store has written the metadata of what it writes next, a
\* removal has removed the resume data of what it removes next.
BetweenFiles ==
  /\ writing.call.op = "store" /\ writing.file = 2 /\ writing.call.kind = "full"
       => writing.call.id \in metadataFile
  /\ writing.call.op = "remove" /\ writing.file = 2
       => resumeFile[writing.call.id] = "none"

FilesInv ==
  /\ FilesTypeOK
  /\ MetadataIsThere
  /\ "remove" \notin fileDisk => BetweenFiles

LEMMA FilesInitial == FilesInit => FilesInv
<1> SUFFICES ASSUME FilesInit PROVE FilesInv OBVIOUS
<1> USE DEF FilesInit
<1>1. FilesTypeOK BY DEF FilesTypeOK
<1>2. MetadataIsThere BY DEF MetadataIsThere
<1>3. BetweenFiles BY DEF BetweenFiles, Idle, At, NoCall
<1> QED BY <1>1, <1>2, <1>3 DEF FilesInv

\* What is posted is a call, and the calls stay calls.
LEMMA PostTyped ==
  ASSUME FilesTypeOK, NEW call \in Call, Post(call), known' \in [ID -> {"none", "magnet", "full"}]
  PROVE  FilesTypeOK'
BY DEF FilesTypeOK, Post, fileData

LEMMA FilesTyped ==
  ASSUME FilesTypeOK, [FilesNext]_fileVars PROVE FilesTypeOK'
<1> USE FilesAssumption
<1>1. CASE StartFiles BY <1>1 DEF StartFiles, FilesTypeOK, fileData
<1>2. ASSUME NEW id \in ID, NEW kind \in {"magnet", "full"}, StoreTorrent(id, kind)
      PROVE  FilesTypeOK'
  <2>1. Store(id, kind) \in Call BY DEF Store, Call
  <2>2. known' \in [ID -> {"none", "magnet", "full"}] BY <1>2 DEF StoreTorrent, FilesTypeOK
  <2> QED BY <1>2, <2>1, <2>2, PostTyped DEF StoreTorrent
<1>3. ASSUME NEW id \in ID, RemoveResume(id) PROVE FilesTypeOK'
  <2>1. RemoveCall(id) \in Call BY DEF RemoveCall, Call
  <2>2. known' \in [ID -> {"none", "magnet", "full"}] BY <1>3 DEF RemoveResume, FilesTypeOK
  <2> QED BY <1>3, <2>1, <2>2, PostTyped DEF RemoveResume
<1>4. CASE StoreOrder
  <2> DEFINE S == {id \in ID : known[id] # "none"}
  <2>1. PICK queue \in SetToSeqs(S) : Post(StoreQueue(queue)) BY <1>4 DEF StoreOrder
  <2>2. Cardinality(S) \in Nat
    <3>1. IsFiniteSet(S) BY FS_Subset
    <3> QED BY <3>1, FS_CardinalityType
  <2>3. queue \in Seq(ID) BY <2>2 DEF SetToSeqs
  <2>4. StoreQueue(queue) \in Call BY <2>3 DEF StoreQueue, Call
  <2>5. known' \in [ID -> {"none", "magnet", "full"}] BY <1>4 DEF StoreOrder, FilesTypeOK
  <2> QED BY <2>1, <2>4, <2>5, PostTyped
<1>5. CASE CloseFiles BY <1>5 DEF CloseFiles, FilesTypeOK, fileData
<1>6. CASE ThreadEnds BY <1>6 DEF ThreadEnds, FilesGone, FilesTypeOK, fileData
<1>7. CASE FilesCrash BY <1>7 DEF FilesCrash, FilesGone, FilesTypeOK, fileData
<1>8. CASE TakeCall
  <2>1. Head(calls) \in Call /\ Tail(calls) \in Seq(Call) BY <1>8 DEF TakeCall, FilesTypeOK
  <2>2. At(Head(calls), 1) \in [call: Call, file: 1..2] BY <2>1 DEF At
  <2> QED BY <1>8, <2>1, <2>2 DEF TakeCall, FilesTypeOK, fileData, unwritten
<1>9. ASSUME ResumeNext, writing.file = 1, FilesTypeOK
      PROVE  writing' \in [call: Call, file: 1..2]
  BY <1>9 DEF ResumeNext, FilesTypeOK, Idle, At
<1>10. CASE WriteMetadata
  <2>1. writing.call.id \in ID BY <1>10 DEF WriteMetadata, FilesTypeOK, Idle, At, NoCall, Call
  <2>2. writing' \in {Idle} \cup [call: Call, file: 1..2]
    BY <1>9, <1>10 DEF WriteMetadata, FileDone
  <2> QED BY <1>10, <2>1, <2>2 DEF WriteMetadata, FilesTypeOK, unwritten
<1>11. CASE WriteResume
  <2>1. writing.call.kind \in {"magnet", "full"}
    BY <1>11 DEF WriteResume, FilesTypeOK, Idle, At, NoCall, Call
  <2> QED BY <1>11, <2>1 DEF WriteResume, FilesTypeOK, unwritten, FileDone
<1>12. CASE RemoveResumeFile
  <2>1. writing' \in [call: Call, file: 1..2] BY <1>9, <1>12 DEF RemoveResumeFile
  <2> QED BY <1>12, <2>1 DEF RemoveResumeFile, FilesTypeOK, unwritten
<1>13. CASE RemoveMetadataFile
  BY <1>13 DEF RemoveMetadataFile, FilesTypeOK, unwritten, FileDone
<1>14. CASE WriteQueue
  <2>1. writing.call.queue \in Seq(ID)
    BY <1>14 DEF WriteQueue, FilesTypeOK, Idle, At, NoCall, Call
  <2> QED BY <1>14, <2>1 DEF WriteQueue, FilesTypeOK, unwritten, FileDone
<1>15. CASE UNCHANGED fileVars BY <1>15 DEF fileVars, fileData, FilesTypeOK
<1> QED
  BY <1>1, <1>2, <1>3, <1>4, <1>5, <1>6, <1>7, <1>8, <1>10, <1>11, <1>12, <1>13, <1>14, <1>15
  DEF FilesNext

\* The two orders, of a store and of a removal, are what keeps the files together.
LEMMA MetadataKept ==
  ASSUME FilesInv, [FilesNext]_fileVars PROVE MetadataIsThere' /\ ("remove" \notin fileDisk' => BetweenFiles')
<1> SUFFICES ASSUME "remove" \notin fileDisk'
             PROVE  MetadataIsThere' /\ BetweenFiles'
  BY DEF MetadataIsThere
<1>0. fileDisk' = fileDisk
  BY DEF FilesNext, fileVars, StartFiles, StoreTorrent, RemoveResume, StoreOrder, Post, CloseFiles,
     ThreadEnds, FilesCrash, FilesGone, TakeCall, WriteMetadata, WriteResume, RemoveResumeFile,
     RemoveMetadataFile, WriteQueue, unwritten
<1>a. FilesTypeOK /\ MetadataIsThere /\ BetweenFiles BY <1>0 DEF FilesInv
<1>b. \A id \in ID : resumeFile[id] = "full" => id \in metadataFile
  BY <1>0, <1>a DEF MetadataIsThere
<1>1. ASSUME UNCHANGED fileData, UNCHANGED writing PROVE MetadataIsThere' /\ BetweenFiles'
  BY <1>1, <1>b, <1>a DEF fileData, MetadataIsThere, BetweenFiles
<1>2. ASSUME UNCHANGED fileData, \/ writing' = Idle
                                 \/ \E call : writing' = At(call, 1)
      PROVE  MetadataIsThere' /\ BetweenFiles'
  BY <1>2, <1>b, <1>a DEF fileData, MetadataIsThere, BetweenFiles, Idle, At, NoCall
<1>3. CASE WriteMetadata
  BY <1>3, <1>0, <1>a, <1>b DEF WriteMetadata, MetadataIsThere, BetweenFiles, ResumeNext, FileDone,
     FilesTypeOK, Idle, At, NoCall, Call
<1>4. CASE WriteResume
  BY <1>4, <1>0, <1>a, <1>b DEF WriteResume, MetadataIsThere, BetweenFiles, FileDone,
     FilesTypeOK, Idle, At, NoCall, Call
<1>5. CASE RemoveResumeFile
  BY <1>5, <1>0, <1>a, <1>b DEF RemoveResumeFile, MetadataIsThere, BetweenFiles, ResumeNext,
     FilesTypeOK, Idle, At, NoCall, Call
<1>6. CASE RemoveMetadataFile
  BY <1>6, <1>0, <1>a, <1>b DEF RemoveMetadataFile, MetadataIsThere, BetweenFiles, FileDone,
     FilesTypeOK, Idle, At, NoCall, Call
<1>7. CASE WriteQueue BY <1>7, <1>2, <1>b DEF WriteQueue, MetadataIsThere, BetweenFiles, FileDone, Idle, At, NoCall
<1>8. CASE TakeCall BY <1>8, <1>2 DEF TakeCall
<1>9. CASE ThreadEnds \/ FilesCrash BY <1>9, <1>2 DEF ThreadEnds, FilesCrash, FilesGone
<1>10. CASE UNCHANGED <<fileData, writing>> BY <1>10, <1>1
<1> QED
  BY <1>3, <1>4, <1>5, <1>6, <1>7, <1>8, <1>9, <1>10
  DEF FilesNext, fileVars, StartFiles, StoreTorrent, RemoveResume, StoreOrder, Post, CloseFiles

LEMMA FilesInductive == FilesSpec => []FilesInv
<1>1. FilesInv /\ [FilesNext]_fileVars => FilesInv' BY FilesTyped, MetadataKept DEF FilesInv
<1> QED BY <1>1, FilesInitial, PTL DEF FilesSpec

(* The calls, and the call the thread performs, always are calls of the session,
   and the queue file always holds torrents' IDs. *)
THEOREM FilesTypeCorrect == FilesSpec => []FilesTypeOK
<1>1. FilesInv => FilesTypeOK BY DEF FilesInv
<1> QED BY <1>1, FilesInductive, PTL

(* BencodeResumeDataStorage writes the metadata before the resume data and removes
   it after: wherever the process ends and whatever cannot be written, a torrent
   with metadata comes back with it, as long as files can be removed. *)
THEOREM MetadataSurvives == FilesSpec => []MetadataIsThere
<1>1. FilesInv => MetadataIsThere BY DEF FilesInv
<1> QED BY <1>1, FilesInductive, PTL

-----------------------------------------------------------------------------
\* Numbers.

\* A set of natural numbers has a smallest one.
LEMMA SmallestExists ==
    ASSUME NEW T \in SUBSET Nat, T # {}
    PROVE  \E x \in T : \A y \in T : x <= y
  <1> DEFINE R == OpToRel(<, Nat)
  <1>1. IsWellFoundedOn(R, Nat)
    BY NatLessThanWellFounded
  <1>2. \A m, n \in Nat : m < n => <<m, n>> \in R
    BY DEF OpToRel
  <1> HIDE DEF R
  <1>3. PICK x \in T : \A y \in T : ~(<<y, x>> \in R)
    BY <1>1, WFMin
  <1>4. x \in Nat /\ T \subseteq Nat
    OBVIOUS
  <1>5. \A y \in T : ~(y < x)
    BY <1>2, <1>3, <1>4
  <1> QED
    BY <1>4, <1>5

\* Induction over the natural numbers, of a set.
LEMMA Induction ==
    ASSUME NEW T \in SUBSET Nat, 0 \in T, \A n \in T : n + 1 \in T
    PROVE  T = Nat
  <1> SUFFICES ASSUME Nat \ T # {} PROVE FALSE
    OBVIOUS
  <1>1. PICK x \in Nat \ T : \A y \in Nat \ T : x <= y
    BY SmallestExists
  <1>2. x # 0 /\ x - 1 \in Nat /\ ~(x <= x - 1)
    BY <1>1
  <1>3. x - 1 \in T
    BY <1>1, <1>2
  <1>4. (x - 1) + 1 = x
    BY <1>2
  <1> QED
    BY <1>1, <1>3, <1>4

\* A set of numbers that are not above k has a largest one.
LEMMA LargestExists ==
    ASSUME NEW k \in Nat, NEW T \in SUBSET (0 .. k), T # {}
    PROVE  \E x \in T : \A y \in T : x >= y
  <1> DEFINE M == {n \in Nat : \A S \in SUBSET (0 .. n) :
                                 S # {} => \E x \in S : \A y \in S : x >= y}
  <1>1. 0 \in M
    <2> SUFFICES ASSUME NEW S \in SUBSET (0 .. 0), S # {}
                 PROVE  \E x \in S : \A y \in S : x >= y
      OBVIOUS
    <2>1. \A y \in S : y = 0
      OBVIOUS
    <2>2. 0 \in S
      BY <2>1
    <2>3. \A y \in S : 0 >= y
      BY <2>1
    <2> QED
      BY <2>2, <2>3
  <1>2. ASSUME NEW n \in M PROVE n + 1 \in M
    <2> SUFFICES ASSUME NEW S \in SUBSET (0 .. n + 1), S # {}
                 PROVE  \E x \in S : \A y \in S : x >= y
      OBVIOUS
    <2>1. CASE n + 1 \in S
      BY <2>1
    <2>2. CASE n + 1 \notin S
      <3>1. S \in SUBSET (0 .. n)
        BY <2>2
      <3> QED
        BY <3>1
    <2> QED
      BY <2>1, <2>2
  <1>3. M = Nat
    BY <1>1, <1>2, Induction
  <1> QED
    BY <1>3

\* What the lines of a queue file make of the folder's list.
AllLines(first, queue) == FoldLeft(QueueLine, first, queue)

\* One line after another leads from the first state to the last.
LineByLine(first, queue, last) ==
  \E it : /\ it[0] = first
          /\ \A k \in Nat : k < Len(queue) => it[k + 1] = QueueLine(it[k], queue[k + 1])
          /\ last = it[Len(queue)]

\* The lines of the queue file are taken one after another.
LEMMA LoadSteps ==
    ASSUME NEW first, NEW S, NEW queue \in Seq(S)
    PROVE  LineByLine(first, queue, AllLines(first, queue))
  <1> DEFINE n == Len(queue)
             D == DOMAIN queue
             Largest(T) == CHOOSE x \in T : \A y \in T : x >= y
             After(g, T) == IF T = {} THEN first
                            ELSE QueueLine(g[T \ {Largest(T)}], queue[Largest(T)])
             Fold == CHOOSE g : g = [T \in SUBSET D |-> After(g, T)]
  <1>1. AllLines(first, queue) = Fold[D]
    BY DEF AllLines, FoldLeft, MapThenFoldSet, Max
  <1>2. n \in Nat /\ D = 1 .. n
    BY LenProperties
  <1> DEFINE Upto(k) == SUBSET {i \in D : i <= k}
             K == {k \in Nat : \E g : /\ g = [T \in Upto(k) |-> g[T]]
                                      /\ \A T \in Upto(k) : g[T] = After(g, T)}
  <1>3. ASSUME NEW k \in Nat, NEW T \in Upto(k), T # {}
        PROVE  Largest(T) \in T /\ \A y \in T : Largest(T) >= y
    <2>1. T \in SUBSET (0 .. k)
      BY <1>2
    <2> HIDE DEF Upto
    <2> QED
      BY <1>3, <2>1, LargestExists
  <1>4. 0 \in K
    <2> DEFINE g == [T \in Upto(0) |-> first]
    <2>1. \A T \in Upto(0) : T = {}
      BY <1>2
    <2>2. \A T \in Upto(0) : g[T] = After(g, T)
      BY <2>1
    <2>3. g = [T \in Upto(0) |-> g[T]]
      OBVIOUS
    <2> HIDE DEF g, After, Upto
    <2> QED
      BY <2>2, <2>3
  <1>5. ASSUME NEW k \in K PROVE k + 1 \in K
    <2>1. PICK g : g = [T \in Upto(k) |-> g[T]] /\ \A T \in Upto(k) : g[T] = After(g, T)
      OBVIOUS
    <2> DEFINE h == [T \in Upto(k + 1) |->
                       IF k + 1 \in T THEN QueueLine(g[T \ {k + 1}], queue[k + 1]) ELSE g[T]]
    <2>2. ASSUME NEW T \in Upto(k + 1) PROVE h[T] = After(h, T)
      <3>1. CASE k + 1 \in T
        <4>1. Largest(T) = k + 1
          <5>1. \A y \in T : y \in Nat /\ y <= k + 1
            BY <1>2
          <5>2. Largest(T) \in T /\ \A y \in T : Largest(T) >= y
            BY <1>3, <3>1
          <5> HIDE DEF Largest
          <5> QED
            BY <3>1, <5>1, <5>2
        <4>2. T \ {k + 1} \in Upto(k) /\ T \ {k + 1} \in Upto(k + 1) /\ k + 1 \notin T \ {k + 1}
          BY <1>2
        <4> HIDE DEF Largest, Upto
        <4>3. h[T] = QueueLine(g[T \ {k + 1}], queue[k + 1])
          BY <3>1
        <4>4. h[T \ {k + 1}] = g[T \ {k + 1}]
          BY <4>2
        <4> HIDE DEF h
        <4> QED
          BY <3>1, <4>1, <4>3, <4>4
      <3>2. CASE k + 1 \notin T /\ T # {}
        <4>1. T \in Upto(k)
          BY <1>2, <3>2
        <4>2. Largest(T) \in T
          <5>1. k \in Nat
            OBVIOUS
          <5> HIDE DEF Largest, Upto, K
          <5> QED
            BY <1>3, <3>2, <4>1, <5>1
        <4>3. T \ {Largest(T)} \in Upto(k) /\ T \ {Largest(T)} \in Upto(k + 1)
          BY <4>1
        <4> HIDE DEF Largest, Upto
        <4>4. h[T] = g[T] /\ h[T \ {Largest(T)}] = g[T \ {Largest(T)}]
          BY <3>2, <4>3
        <4>5. g[T] = After(g, T)
          BY <2>1, <4>1
        <4> HIDE DEF h
        <4> QED
          BY <3>2, <4>4, <4>5
      <3>3. CASE T = {}
        <4>1. T \in Upto(k)
          BY <3>3
        <4>2. g[T] = first
          BY <2>1, <3>3, <4>1
        <4> QED
          BY <3>3, <4>2
      <3> QED
        BY <3>1, <3>2, <3>3
    <2>3. h = [T \in Upto(k + 1) |-> h[T]]
      OBVIOUS
    <2>4. k + 1 \in Nat
      OBVIOUS
    <2> HIDE DEF h, After, Upto
    <2> QED
      BY <2>2, <2>3, <2>4
  <1>6. \E g : g = [T \in SUBSET D |-> After(g, T)]
    <2>1. n \in K
      BY <1>2, <1>4, <1>5, Induction
    <2>2. Upto(n) = SUBSET D
      BY <1>2
    <2>3. PICK g : g = [T \in Upto(n) |-> g[T]] /\ \A T \in Upto(n) : g[T] = After(g, T)
      BY <2>1
    <2>4. g = [T \in Upto(n) |-> After(g, T)]
      <3> HIDE DEF After, Upto
      <3> QED BY <2>3
    <2> QED
      BY <2>2, <2>4
  <1>7. \A T \in SUBSET D : Fold[T] = After(Fold, T)
    <2>1. Fold = [T \in SUBSET D |-> After(Fold, T)]
      <3> HIDE DEF After
      <3> QED BY <1>6
    <2> HIDE DEF Fold, After
    <2> QED
      BY <2>1
  <1> HIDE DEF Fold
  <1> DEFINE it == [k \in Nat |-> Fold[{i \in D : i <= k}]]
  <1>8. it[0] = first
    <2>1. {i \in D : i <= 0} = {}
      BY <1>2
    <2> QED
      BY <1>7, <2>1
  <1>9. ASSUME NEW k \in Nat, k < n PROVE it[k + 1] = QueueLine(it[k], queue[k + 1])
    <2> DEFINE T == {i \in D : i <= k + 1}
    <2>1. k + 1 \in T /\ T \in SUBSET D /\ \A i \in T : i <= k + 1 /\ i \in Nat
      BY <1>2, <1>9
    <2>2. Largest(T) = k + 1
      BY <2>1
    <2>3. T \ {k + 1} = {i \in D : i <= k}
      BY <1>2
    <2>4. Fold[T] = After(Fold, T)
      BY <1>7, <2>1
    <2>5. Fold[T] = QueueLine(Fold[T \ {k + 1}], queue[k + 1])
      BY <2>1, <2>2, <2>4
    <2>6. k + 1 \in Nat
      OBVIOUS
    <2> HIDE DEF T
    <2>7. it[k + 1] = Fold[T]
      BY <2>6 DEF T
    <2> QED
      BY <2>3, <2>5, <2>7
  <1>10. it[n] = Fold[D]
    <2>1. {i \in D : i <= n} = D
      BY <1>2
    <2> QED
      BY <1>2, <2>1
  <1> HIDE DEF it
  <1> QED
    BY <1>1, <1>8, <1>9, <1>10 DEF LineByLine

-----------------------------------------------------------------------------
\* The folder's list.

Increasing(list) == \A i, j \in DOMAIN list : i < j => list[i] < list[j]

\* A finite set of numbers can be listed in their order.
LEMMA DirectoryExists ==
    ASSUME NEW registered \in SUBSET QueueID
    PROVE  \E list \in SetToSeqs(registered) : Increasing(list)
  <1> DEFINE Listed(S) == \E list \in [1 .. Cardinality(S) -> S] : Increasing(list)
             K == {n \in Nat : \A S \in SUBSET QueueID : Cardinality(S) = n => Listed(S)}
  <1>1. \A S \in SUBSET QueueID : S \subseteq Nat /\ IsFiniteSet(S) /\ Cardinality(S) \in Nat
    BY FilesAssumption, FS_Subset, FS_CardinalityType
  <1>2. 0 \in K
    <2> SUFFICES ASSUME NEW S \in SUBSET QueueID, Cardinality(S) = 0 PROVE Listed(S)
      OBVIOUS
    <2>1. <<>> \in [1 .. 0 -> S] /\ DOMAIN <<>> = {}
      OBVIOUS
    <2> QED
      BY <2>1 DEF Increasing
  <1>3. ASSUME NEW n \in K PROVE n + 1 \in K
    <2> SUFFICES ASSUME NEW S \in SUBSET QueueID, Cardinality(S) = n + 1 PROVE Listed(S)
      OBVIOUS
    <2>1. S # {} /\ S \in SUBSET Nat /\ IsFiniteSet(S)
      BY <1>1, FS_EmptySet
    <2>2. PICK x \in S : \A y \in S : x <= y
      BY <2>1, SmallestExists
    <2>3. Cardinality(S \ {x}) = n /\ S \ {x} \in SUBSET QueueID
      <3>1. Cardinality(S \ {x}) = Cardinality(S) - 1
        BY <2>1, FS_RemoveElement
      <3>2. n \in Nat
        OBVIOUS
      <3> QED
        BY <3>1, <3>2
    <2>4. PICK rest \in [1 .. n -> S \ {x}] : Increasing(rest)
      BY <2>3
    <2> DEFINE list == [i \in 1 .. n + 1 |-> IF i = 1 THEN x ELSE rest[i - 1]]
    <2>5. \A i \in 2 .. n + 1 : i - 1 \in 1 .. n
      OBVIOUS
    <2>6. \A i \in 1 .. n + 1 : i = 1 \/ i \in 2 .. n + 1
      OBVIOUS
    <2>7. list \in [1 .. n + 1 -> S]
      BY <2>4, <2>5, <2>6
    <2>8. ASSUME NEW i \in 1 .. n + 1, NEW j \in 1 .. n + 1, i < j PROVE list[i] < list[j]
      <3>1. j - 1 \in 1 .. n /\ list[j] = rest[j - 1]
        BY <2>8
      <3>2. rest[j - 1] \in S \ {x}
        BY <3>1
      <3>3. CASE i = 1
        <4>1. list[i] = x /\ x <= rest[j - 1] /\ x # rest[j - 1] /\ x \in Nat /\ rest[j - 1] \in Nat
          BY <2>1, <2>2, <3>2, <3>3
        <4> QED
          BY <3>1, <4>1
      <3>4. CASE i # 1
        <4>1. i - 1 \in 1 .. n /\ list[i] = rest[i - 1] /\ i - 1 < j - 1
          BY <2>8, <3>4
        <4> QED
          BY <2>4, <3>1, <4>1 DEF Increasing
      <3> QED
        BY <3>3, <3>4
    <2> HIDE DEF list
    <2>9. Increasing(list)
      BY <2>7, <2>8 DEF Increasing
    <2> QED
      BY <2>7, <2>9
  <1>4. Cardinality(registered) \in K
    BY <1>1, <1>2, <1>3, Induction
  <1>5. PICK list \in [1 .. Cardinality(registered) -> registered] : Increasing(list)
    BY <1>4
  <1>6. \A i, j \in 1 .. Cardinality(registered) : i # j => list[i] # list[j]
    <2> SUFFICES ASSUME NEW i \in 1 .. Cardinality(registered), NEW j \in 1 .. Cardinality(registered),
                        i # j
                 PROVE  list[i] # list[j]
      OBVIOUS
    <2>1. list[i] \in Nat /\ list[j] \in Nat /\ (i < j \/ j < i)
      BY <1>1
    <2> QED
      BY <1>5, <2>1 DEF Increasing
  <1> QED
    BY <1>5, <1>6 DEF SetToSeqs

\* A list of all torrents, each once.
LEMMA AllListed ==
    ASSUME NEW S, IsFiniteSet(S), NEW list \in SetToSeqs(S)
    PROVE  /\ Cardinality(S) \in Nat
           /\ list \in [1 .. Cardinality(S) -> S]
           /\ list \in Seq(S) /\ Len(list) = Cardinality(S)
           /\ \A i, j \in 1 .. Cardinality(S) : list[i] = list[j] => i = j
           /\ \A x \in S : \E i \in 1 .. Cardinality(S) : list[i] = x
  <1> DEFINE n == Cardinality(S)
  <1>1. n \in Nat
    BY FS_CardinalityType
  <1>2. list \in [1 .. n -> S] /\ \A i, j \in 1 .. n : list[i] = list[j] => i = j
    BY DEF SetToSeqs
  <1>3. IsFiniteSet(1 .. n) /\ Cardinality(1 .. n) = n
    BY <1>1, FS_Interval
  <1>4. list \in Injection(1 .. n, S)
    BY <1>2 DEF Injection, IsInjective
  <1>5. list \in Surjection(1 .. n, S)
    BY <1>3, <1>4, FS_Injection
  <1>6. \A x \in S : \E i \in 1 .. n : list[i] = x
    BY <1>5 DEF Surjection
  <1>7. list \in Seq(S) /\ Len(list) = n
    BY <1>1, <1>2
  <1> QED
    BY <1>1, <1>2, <1>6, <1>7

-----------------------------------------------------------------------------
\* loadQueue.

\* The torrents of the first lines of the queue file.
Lines(queue, k) == {queue[a] : a \in 1 .. k}

\* After k lines: the list is of the same torrents; the index finds those whose
\* line is still to come; those whose line has come are before the next
\* position, in the order of their lines, and no others are.
LoadedSoFar(st, registered, queue, k) ==
  LET n == Cardinality(registered) IN
  /\ st = [list |-> st.list, index |-> st.index, queuePos |-> st.queuePos]
  /\ st.list \in [1 .. n -> registered]
  /\ \A i, j \in 1 .. n : st.list[i] = st.list[j] => i = j
  /\ st.index \in [QueueID -> 0 .. n]
  /\ \A x \in QueueID \ registered : st.index[x] = 0
  /\ \A x \in registered \ Lines(queue, k) :
       st.index[x] \in 1 .. n /\ st.list[st.index[x]] = x
  /\ st.queuePos \in 1 .. n + 1
  /\ \A i \in 1 .. n : i < st.queuePos <=> st.list[i] \in Lines(queue, k)
  /\ \A i, j \in 1 .. n : i < j /\ j < st.queuePos =>
       \E a, b \in 1 .. k : a < b /\ queue[a] = st.list[i] /\ queue[b] = st.list[j]

\* The next line is of a torrent that the folder does not have ...
LEMMA LineOfNone ==
    ASSUME NEW registered \in SUBSET QueueID, NEW queue, NEW k \in Nat, NEW st,
           LoadedSoFar(st, registered, queue, k),
           queue[k + 1] \in QueueID \ registered
    PROVE  LoadedSoFar(QueueLine(st, queue[k + 1]), registered, queue, k + 1)
  <1> DEFINE n == Cardinality(registered)
             id == queue[k + 1]
  <1>1. n \in Nat
    BY FilesAssumption, FS_Subset, FS_CardinalityType
  <1>2. QueueLine(st, id) = st
    BY DEF QueueLine, LoadedSoFar
  <1>3. Lines(queue, k + 1) = Lines(queue, k) \cup {id}
    <2>1. 1 .. k + 1 = (1 .. k) \cup {k + 1}
      OBVIOUS
    <2> QED
      BY <2>1 DEF Lines
  <1>4. \A i \in 1 .. n : st.list[i] \in Lines(queue, k + 1) <=> st.list[i] \in Lines(queue, k)
    <2> SUFFICES ASSUME NEW i \in 1 .. n
                 PROVE  st.list[i] \in Lines(queue, k) \cup {id} <=> st.list[i] \in Lines(queue, k)
      BY <1>3
    <2>1. st.list[i] \in registered
      BY DEF LoadedSoFar
    <2>2. st.list[i] # id
      BY <2>1
    <2> QED
      BY <2>2
  <1>5. registered \ Lines(queue, k + 1) = registered \ Lines(queue, k)
    BY <1>3
  <1>6. \A a \in 1 .. k : a \in 1 .. k + 1
    OBVIOUS
  <1> QED
    BY <1>2, <1>4, <1>5, <1>6 DEF LoadedSoFar

\* ... or of one that changes places with the torrent at the next position.
LEMMA LineOfOne ==
    ASSUME NEW registered \in SUBSET QueueID, NEW queue, NEW k \in Nat, NEW st,
           LoadedSoFar(st, registered, queue, k),
           queue[k + 1] \in registered, queue[k + 1] \notin Lines(queue, k)
    PROVE  LoadedSoFar(QueueLine(st, queue[k + 1]), registered, queue, k + 1)
  <1> DEFINE n == Cardinality(registered)
             id == queue[k + 1]
             list == st.list
             index == st.index
             q == st.queuePos
             pos == index[id]
             moved == list[q]
             new == QueueLine(st, id)
  <1>1. n \in Nat
    BY FilesAssumption, FS_Subset, FS_CardinalityType
  <1>2. /\ list \in [1 .. n -> registered]
        /\ \A i, j \in 1 .. n : list[i] = list[j] => i = j
        /\ index \in [QueueID -> 0 .. n]
        /\ \A x \in QueueID \ registered : index[x] = 0
        /\ \A x \in registered \ Lines(queue, k) : index[x] \in 1 .. n /\ list[index[x]] = x
        /\ q \in 1 .. n + 1
        /\ \A i \in 1 .. n : i < q <=> list[i] \in Lines(queue, k)
        /\ \A i, j \in 1 .. n : i < j /\ j < q =>
             \E a, b \in 1 .. k : a < b /\ queue[a] = list[i] /\ queue[b] = list[j]
    BY DEF LoadedSoFar
  <1>3. pos \in 1 .. n /\ list[pos] = id /\ ~(pos < q)
    BY <1>2
  <1>4. q \in 1 .. n /\ moved \in registered /\ moved \notin Lines(queue, k)
    BY <1>1, <1>2, <1>3
  <1>5. Lines(queue, k + 1) = Lines(queue, k) \cup {id}
    <2>1. 1 .. k + 1 = (1 .. k) \cup {k + 1}
      OBVIOUS
    <2> QED
      BY <2>1 DEF Lines
  <1> DEFINE list1 == [list EXCEPT ![pos] = moved, ![q] = id]
             index1 == [index EXCEPT ![moved] = pos]
  <1>6. new = [list |-> list1, index |-> index1, queuePos |-> q + 1]
    BY <1>3 DEF QueueLine
  <1> HIDE DEF new, id, list, index, q, pos, moved
  <1>7. /\ list1 \in [1 .. n -> registered]
        /\ list1[q] = id
        /\ pos # q => list1[pos] = moved
        /\ \A i \in 1 .. n : i # pos /\ i # q => list1[i] = list[i]
    <2>1. id \in registered /\ pos \in 1 .. n /\ q \in 1 .. n /\ moved \in registered
      BY <1>3, <1>4 DEF id
    <2> QED
      BY <1>2, <2>1
  <1>8. /\ index1 \in [QueueID -> 0 .. n]
        /\ index1[moved] = pos
        /\ \A x \in QueueID : x # moved => index1[x] = index[x]
    BY <1>2, <1>3, <1>4
  <1>9. new.list = list1 /\ new.index = index1 /\ new.queuePos = q + 1
    BY <1>6
  <1> HIDE DEF list1, index1
  <1>10. \A i, j \in 1 .. n : list1[i] = list1[j] => i = j
    <2> SUFFICES ASSUME NEW i \in 1 .. n, NEW j \in 1 .. n, list1[i] = list1[j] PROVE i = j
      OBVIOUS
    <2>1. list[q] = moved
      BY DEF moved
    <2> QED
      BY <1>2, <1>3, <1>4, <1>7, <2>1
  <1>11. \A x \in registered \ Lines(queue, k + 1) : index1[x] \in 1 .. n /\ list1[index1[x]] = x
    <2> SUFFICES ASSUME NEW x \in registered, x \notin Lines(queue, k), x # id
                 PROVE  index1[x] \in 1 .. n /\ list1[index1[x]] = x
      BY <1>5
    <2>1. list[q] = moved
      BY DEF moved
    <2>2. CASE x = moved
      <3>1. pos # q
        BY <1>3, <2>1, <2>2
      <3> QED
        BY <1>3, <1>7, <1>8, <2>2, <3>1
    <2>3. CASE x # moved
      <3>1. index1[x] = index[x] /\ index[x] \in 1 .. n /\ list[index[x]] = x
        BY <1>2, <1>8, <2>3
      <3>2. index[x] # pos /\ index[x] # q
        BY <1>3, <2>1, <2>3, <3>1
      <3> QED
        BY <1>7, <3>1, <3>2
    <2> QED
      BY <2>2, <2>3
  <1>12. \A x \in QueueID \ registered : index1[x] = 0
    BY <1>2, <1>4, <1>8
  <1>13. \A i \in 1 .. n : i < q + 1 <=> list1[i] \in Lines(queue, k + 1)
    <2> SUFFICES ASSUME NEW i \in 1 .. n PROVE i < q + 1 <=> list1[i] \in Lines(queue, k) \cup {id}
      BY <1>5
    <2>1. list[q] = moved
      BY DEF moved
    <2>2. CASE i = q
      BY <1>4, <1>7, <2>2
    <2>3. CASE i = pos /\ pos # q
      <3>1. list1[i] = moved /\ moved # id
        BY <1>2, <1>3, <1>4, <1>7, <2>1, <2>3
      <3>2. ~(i < q + 1)
        BY <1>3, <1>4, <2>3
      <3> QED
        BY <1>4, <3>1, <3>2
    <2>4. CASE i # q /\ i # pos
      <3>1. list1[i] = list[i] /\ list[i] # id
        BY <1>2, <1>3, <1>7, <2>4
      <3>2. i < q + 1 <=> i < q
        BY <1>4, <2>4
      <3> QED
        BY <1>2, <3>1, <3>2
    <2> QED
      BY <2>2, <2>3, <2>4
  <1>14. ASSUME NEW i \in 1 .. n, NEW j \in 1 .. n, i < j, j < q + 1
         PROVE  \E a, b \in 1 .. k + 1 : a < b /\ queue[a] = list1[i] /\ queue[b] = list1[j]
    <2>1. i < q /\ list1[i] = list[i]
      BY <1>3, <1>4, <1>7, <1>14
    <2>2. CASE j = q
      <3>1. list[i] \in Lines(queue, k)
        BY <1>2, <2>1
      <3>2. PICK a \in 1 .. k : queue[a] = list[i]
        BY <3>1 DEF Lines
      <3>3. a \in 1 .. k + 1 /\ k + 1 \in 1 .. k + 1 /\ a < k + 1 /\ queue[k + 1] = list1[j]
        BY <1>7, <2>2 DEF id
      <3> QED
        BY <2>1, <3>2, <3>3
    <2>3. CASE j # q
      <3>1. j < q /\ list1[j] = list[j]
        BY <1>3, <1>4, <1>7, <1>14, <2>3
      <3>2. PICK a \in 1 .. k, b \in 1 .. k : a < b /\ queue[a] = list[i] /\ queue[b] = list[j]
        BY <1>2, <1>14, <3>1
      <3>3. a \in 1 .. k + 1 /\ b \in 1 .. k + 1
        OBVIOUS
      <3> QED
        BY <2>1, <3>1, <3>2, <3>3
    <2> QED
      BY <2>2, <2>3
  <1>15. q + 1 \in 1 .. n + 1
    BY <1>1, <1>4
  <1>16. LoadedSoFar(new, registered, queue, k + 1)
    BY <1>6, <1>7, <1>8, <1>9, <1>10, <1>11, <1>12, <1>13, <1>14, <1>15 DEF LoadedSoFar
  <1> QED
    BY <1>16 DEF new, id

\* Before the first line the list is the folder's.
LEMMA LoadStarts ==
    ASSUME NEW registered \in SUBSET QueueID, NEW list \in SetToSeqs(registered), NEW queue,
           NEW index, index = [id \in QueueID |-> IF Contains(list, id)
                                 THEN CHOOSE i \in DOMAIN list : list[i] = id ELSE 0]
    PROVE  LoadedSoFar([list |-> list, index |-> index, queuePos |-> 1], registered, queue, 0)
  <1> DEFINE n == Cardinality(registered)
             st == [list |-> list, index |-> index, queuePos |-> 1]
  <1>1. IsFiniteSet(registered)
    BY FilesAssumption, FS_Subset
  <1>2. /\ n \in Nat
        /\ list \in [1 .. n -> registered] /\ Len(list) = n
        /\ \A i, j \in 1 .. n : list[i] = list[j] => i = j
        /\ \A x \in registered : \E i \in 1 .. n : list[i] = x
    BY <1>1, AllListed
  <1>3. st.list = list /\ st.index = index /\ st.queuePos = 1
    OBVIOUS
  <1>4. Lines(queue, 0) = {}
    BY DEF Lines
  <1>5. \A x \in QueueID : Contains(list, x) <=> x \in registered
    BY <1>2 DEF Contains
  <1>6. \A x \in registered : index[x] \in 1 .. n /\ list[index[x]] = x
    <2> SUFFICES ASSUME NEW x \in registered PROVE index[x] \in 1 .. n /\ list[index[x]] = x
      OBVIOUS
    <2>1. index[x] = CHOOSE i \in 1 .. n : list[i] = x
      BY <1>2, <1>5
    <2> QED
      BY <1>2, <2>1
  <1>7. \A x \in QueueID \ registered : index[x] = 0
    BY <1>5
  <1>8. index \in [QueueID -> 0 .. n]
    <2>1. ASSUME NEW x \in QueueID PROVE index[x] \in 0 .. n
      <3>1. CASE x \in registered
        <4>1. 1 .. n \subseteq 0 .. n
          OBVIOUS
        <4>2. index[x] \in 1 .. n
          BY ONLY <1>6, <3>1
        <4> QED
          BY ONLY <4>1, <4>2
      <3>2. CASE x \notin registered
        <4>1. index[x] = 0
          BY ONLY <1>7, <3>2, x \in QueueID
        <4> QED
          BY ONLY <1>2, <4>1
      <3> QED
        BY ONLY <3>1, <3>2
    <2> QED
      BY <2>1
  <1>9. 1 \in 1 .. n + 1 /\ \A i \in 1 .. n : ~(i < 1)
    BY <1>2
  <1> HIDE DEF st
  <1>10. st = [list |-> st.list, index |-> st.index, queuePos |-> st.queuePos]
    BY <1>3 DEF st
  <1>11. LoadedSoFar(st, registered, queue, 0)
    BY <1>2, <1>3, <1>4, <1>6, <1>7, <1>8, <1>9, <1>10 DEF LoadedSoFar
  <1> QED
    BY <1>11 DEF st

\* After the last line the list is that of the queue file.
LEMMA QueueLoaded ==
    ASSUME NEW registered \in SUBSET QueueID, NEW list \in SetToSeqs(registered),
           NEW Q \in SUBSET QueueID, NEW queue \in SetToSeqs(Q)
    PROVE  LET loaded == LoadQueue(queue, list)
           IN /\ loaded \in SetToSeqs(registered)
              /\ \A i, j \in DOMAIN loaded : i < j /\ Contains(queue, loaded[j]) =>
                   \E k, l \in DOMAIN queue : k < l /\ queue[k] = loaded[i] /\ queue[l] = loaded[j]
  <1> DEFINE n == Cardinality(registered)
             index == [id \in QueueID |-> IF Contains(list, id)
                         THEN CHOOSE i \in DOMAIN list : list[i] = id ELSE 0]
             first == [list |-> list, index |-> index, queuePos |-> 1]
             m == Len(queue)
  <1>1. IsFiniteSet(Q)
    BY FilesAssumption, FS_Subset
  <1>2. /\ queue \in Seq(Q) /\ m \in Nat /\ DOMAIN queue = 1 .. m
        /\ \A a, b \in 1 .. m : queue[a] = queue[b] => a = b
        /\ \A a \in 1 .. m : queue[a] \in QueueID
    BY <1>1, AllListed
  <1>3. PICK it : /\ it[0] = first
                  /\ \A k \in Nat : k < m => it[k + 1] = QueueLine(it[k], queue[k + 1])
                  /\ AllLines(first, queue) = it[m]
    <2>1. queue \in Seq(Q)
      BY <1>2
    <2> HIDE DEF first
    <2>2. LineByLine(first, queue, AllLines(first, queue))
      BY ONLY <2>1, LoadSteps
    <2> QED
      BY ONLY <2>2 DEF LineByLine
  <1>4. LoadQueue(queue, list) = it[m].list
    BY <1>3 DEF LoadQueue, AllLines
  <1>5. LoadedSoFar(first, registered, queue, 0)
    BY LoadStarts
  <1> HIDE DEF first, index
  <1> DEFINE K == {k \in Nat : k <= m => LoadedSoFar(it[k], registered, queue, k)}
  <1>6. 0 \in K
    BY <1>3, <1>5
  <1>7. ASSUME NEW k \in K PROVE k + 1 \in K
    <2>1. k \in Nat /\ k + 1 \in Nat
      OBVIOUS
    <2> SUFFICES ASSUME k + 1 <= m PROVE LoadedSoFar(it[k + 1], registered, queue, k + 1)
      BY <2>1
    <2>2. k < m /\ k <= m /\ k + 1 \in 1 .. m
      BY <1>2, <2>1
    <2>3. LoadedSoFar(it[k], registered, queue, k) /\ it[k + 1] = QueueLine(it[k], queue[k + 1])
      BY <1>3, <2>1, <2>2
    <2>4. queue[k + 1] \in QueueID /\ queue[k + 1] \notin Lines(queue, k)
      <3>1. \A a \in 1 .. k : a \in 1 .. m /\ a # k + 1
        BY <2>1, <2>2
      <3> QED
        BY <1>2, <2>2, <3>1 DEF Lines
    <2>5. CASE queue[k + 1] \in registered
      BY <2>1, <2>3, <2>4, <2>5, LineOfOne
    <2>6. CASE queue[k + 1] \notin registered
      BY <2>1, <2>3, <2>4, <2>6, LineOfNone
    <2> QED
      BY <2>5, <2>6
  <1>8. m \in K
    BY <1>2, <1>6, <1>7, Induction
  <1>9. LoadedSoFar(it[m], registered, queue, m)
    BY <1>2, <1>8
  <1> DEFINE loaded == it[m].list
  <1>10. /\ loaded \in [1 .. n -> registered]
         /\ \A i, j \in 1 .. n : loaded[i] = loaded[j] => i = j
         /\ \A i \in 1 .. n : i < it[m].queuePos <=> loaded[i] \in Lines(queue, m)
         /\ \A i, j \in 1 .. n : i < j /\ j < it[m].queuePos =>
              \E a, b \in 1 .. m : a < b /\ queue[a] = loaded[i] /\ queue[b] = loaded[j]
    BY <1>9 DEF LoadedSoFar
  <1> HIDE DEF loaded
  <1>11. loaded \in SetToSeqs(registered)
    BY <1>10 DEF SetToSeqs
  <1>12. ASSUME NEW i \in DOMAIN loaded, NEW j \in DOMAIN loaded, i < j, Contains(queue, loaded[j])
         PROVE  \E k, l \in DOMAIN queue : k < l /\ queue[k] = loaded[i] /\ queue[l] = loaded[j]
    <2>1. loaded[j] \in Lines(queue, m)
      BY <1>12 DEF Contains, Lines
    <2> QED
      BY <1>2, <1>10, <1>12, <2>1
  <1> QED
    BY <1>4, <1>11, <1>12 DEF loaded

\* Of any folder and any queue file.
LEMMA LoadIsExact == LoadQueueIsExact
  <1> SUFFICES ASSUME NEW registered \in SUBSET QueueID,
                      NEW queue \in UNION {SetToSeqs(S) : S \in SUBSET QueueID}
               PROVE  LET list == LoadQueue(queue, Directory(registered))
                      IN /\ list \in SetToSeqs(registered)
                         /\ \A i, j \in DOMAIN list : i < j /\ Contains(queue, list[j]) =>
                              \E k, l \in DOMAIN queue :
                                k < l /\ queue[k] = list[i] /\ queue[l] = list[j]
    BY DEF LoadQueueIsExact
  <1>1. PICK Q \in SUBSET QueueID : queue \in SetToSeqs(Q)
    OBVIOUS
  <1>2. Directory(registered) \in SetToSeqs(registered)
    BY DirectoryExists DEF Directory, Increasing
  <1> QED
    BY <1>1, <1>2, QueueLoaded

\* loadQueue loses no torrent and doubles none, and puts those of the queue
\* file before all others, in the order of the file: whatever the folder holds,
\* and whichever of the file's torrents are gone from it.
THEOREM QueueRestored == FilesSpec => []QueueIsRestored
  <1>1. QueueIsRestored
    BY LoadIsExact DEF QueueIsRestored
  <1> QED
    BY <1>1, PTL
=============================================================================
