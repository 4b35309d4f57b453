----------------------- MODULE TorrentRegistryProofs -----------------------
(***************************************************************************)
(* Proofs about TorrentRegistry, for any torrents and any number of        *)
(* requests:                                                               *)
(*   HandlersMatch         each alert of an addition meets the handler of  *)
(*                         the call it answers;                            *)
(*   IndexExact            every torrent is found under its IDs, and       *)
(*                         nothing else is;                                *)
(*   TorrentsHaveNatives   a torrent of the session is in libtorrent;      *)
(*   StoredFound           resume data is found under the torrent's ID, or *)
(*                         under the one it has changed from;              *)
(*   RemovedGone           resume data is of torrents of the session only; *)
(*   RegistryTyped         the types, among them that the native torrents  *)
(*                         are at most two for each request.               *)
(* The first needs nothing but the queue of alerts.  The others rest on    *)
(* RegistryInv, which no step breaks but a download of metadata at an      *)
(* unfortunate moment ("share"), the next two on StoredInv as well, which  *)
(* only a removal at one ("remove") breaks, and the last on CountInv.      *)
(***************************************************************************)
EXTENDS TorrentRegistry, SequenceTheorems, FiniteSetTheorems, TLAPS

-----------------------------------------------------------------------------
(* Sequences.                                                              *)

\* What an addition to a queue leaves.
LEMMA AppendElements ==
    ASSUME NEW S, NEW s \in Seq(S), NEW x \in S
    PROVE  /\ Append(s, x) \in Seq(S)
           /\ Len(s) \in Nat /\ Len(Append(s, x)) = Len(s) + 1
           /\ DOMAIN s = 1..Len(s) /\ DOMAIN Append(s, x) = 1 .. Len(s) + 1
           /\ \A i \in DOMAIN s : Append(s, x)[i] = s[i]
           /\ Append(s, x)[Len(s) + 1] = x
  <1> DEFINE r == Append(s, x)
  <1>1. Len(s) \in Nat /\ DOMAIN s = 1..Len(s)
    BY LenProperties
  <1>2. /\ r \in Seq(S) /\ Len(r) = Len(s) + 1
        /\ r[Len(s) + 1] = x
        /\ \A i \in 1..Len(s) : r[i] = s[i]
    BY <1>1, AppendProperties
  <1> HIDE DEF r
  <1>3. DOMAIN r = 1 .. Len(s) + 1
    BY <1>2, LenProperties
  <1> QED
    BY <1>1, <1>2, <1>3 DEF r

\* What remains when the oldest event, alert, job or row was taken.
LEMMA TailElements ==
    ASSUME NEW S, NEW s \in Seq(S), s # <<>>
    PROVE  /\ Head(s) \in S /\ Head(s) = s[1] /\ 1 \in DOMAIN s
           /\ Tail(s) \in Seq(S)
           /\ Len(s) \in Nat /\ Len(s) > 0 /\ Len(Tail(s)) = Len(s) - 1
           /\ DOMAIN s = 1..Len(s) /\ DOMAIN Tail(s) = 1 .. Len(s) - 1
           /\ \A i \in DOMAIN Tail(s) : i + 1 \in DOMAIN s /\ Tail(s)[i] = s[i + 1]
           /\ \A i \in DOMAIN s : i # 1 => i - 1 \in DOMAIN Tail(s) /\ Tail(s)[i - 1] = s[i]
  <1> DEFINE r == Tail(s)
  <1>1. Len(s) \in Nat /\ Len(s) # 0 /\ DOMAIN s = 1..Len(s)
    BY LenProperties, EmptySeq
  <1>2. /\ Head(s) \in S /\ Head(s) = s[1]
        /\ r \in Seq(S)
        /\ Len(r) = Len(s) - 1
        /\ \A i \in 1 .. Len(r) : r[i] = s[i + 1]
    BY HeadTailProperties, <1>1, ElementOfSeq
  <1> HIDE DEF r
  <1>3. DOMAIN r = 1 .. Len(s) - 1
    BY <1>2, LenProperties
  <1>4. \A i \in DOMAIN r : i + 1 \in DOMAIN s /\ r[i] = s[i + 1]
    BY <1>1, <1>2, <1>3
  <1>5. ASSUME NEW i \in DOMAIN s, i # 1
        PROVE  i - 1 \in DOMAIN r /\ r[i - 1] = s[i]
    <2>1. i - 1 \in DOMAIN r /\ (i - 1) + 1 = i
      BY <1>1, <1>3, <1>5
    <2> QED
      BY <1>4, <2>1
  <1> QED
    BY <1>1, <1>2, <1>3, <1>4, <1>5 DEF r

-----------------------------------------------------------------------------
(* Handlers and additions.                                                 *)

\* HandlersMatchAlerts, of any handlers and any alerts.
Matching(handlers, queue) ==
  /\ Len(handlers) = Cardinality(Additions(queue, Len(queue)))
  /\ \A i \in Additions(queue, Len(queue)) :
        handlers[Cardinality(Additions(queue, i))] = queue[i].answers

\* The additions among the first alerts are as many as a number says that does
\* not fall along the queue.
LEMMA AdditionsCounted ==
    ASSUME NEW queue, NEW n \in Nat
    PROVE  /\ IsFiniteSet(Additions(queue, n)) /\ Cardinality(Additions(queue, n)) \in Nat
           /\ \A i \in 0..n : /\ Cardinality(Additions(queue, i)) \in Nat
                              /\ Cardinality(Additions(queue, i)) <= Cardinality(Additions(queue, n))
           /\ \A i \in Additions(queue, n) :
                 Cardinality(Additions(queue, i)) \in 1 .. Cardinality(Additions(queue, n))
  <1>1. ASSUME NEW i \in 0..n
        PROVE  IsFiniteSet(Additions(queue, i)) /\ Cardinality(Additions(queue, i)) \in Nat
    <2>1. IsFiniteSet(1..i)
      BY FS_Interval
    <2>2. Additions(queue, i) \in SUBSET (1..i)
      BY DEF Additions
    <2> QED
      BY <2>1, <2>2, FS_Subset, FS_CardinalityType
  <1>2. ASSUME NEW i \in 0..n
        PROVE  Cardinality(Additions(queue, i)) <= Cardinality(Additions(queue, n))
    <2>1. Additions(queue, i) \in SUBSET Additions(queue, n)
      BY DEF Additions
    <2> QED
      BY <1>1, <2>1, FS_Subset
  <1>3. ASSUME NEW i \in Additions(queue, n)
        PROVE  Cardinality(Additions(queue, i)) \in 1 .. Cardinality(Additions(queue, n))
    <2>1. i \in 0..n /\ i \in Additions(queue, i)
      BY DEF Additions
    <2>2. Cardinality(Additions(queue, i)) # 0
      BY <1>1, <2>1, FS_EmptySet
    <2>3. n \in 0..n
      OBVIOUS
    <2> QED
      BY <1>1, <1>2, <2>1, <2>2, <2>3
  <1>4. n \in 0..n
    OBVIOUS
  <1> QED
    BY <1>1, <1>2, <1>3, <1>4

\* Another alert at the end is an addition, or is not.
LEMMA AdditionsAppended ==
    ASSUME NEW R, NEW queue \in Seq(R), NEW x \in R
    PROVE  /\ \A i \in 0..Len(queue) : Additions(Append(queue, x), i) = Additions(queue, i)
           /\ x.type # "add" => Additions(Append(queue, x), Len(queue) + 1) = Additions(queue, Len(queue))
           /\ x.type = "add" => /\ Additions(Append(queue, x), Len(queue) + 1)
                                      = Additions(queue, Len(queue)) \cup {Len(queue) + 1}
                                /\ Cardinality(Additions(Append(queue, x), Len(queue) + 1))
                                      = Cardinality(Additions(queue, Len(queue))) + 1
  <1> DEFINE r == Append(queue, x)
             n == Len(queue)
  <1>1. /\ n \in Nat
        /\ \A i \in 1..n : r[i] = queue[i]
        /\ r[n + 1] = x
    BY AppendElements
  <1> HIDE DEF r, n
  <1>2. \A i \in 0..n : Additions(r, i) = Additions(queue, i)
    BY <1>1 DEF Additions
  <1>3. x.type # "add" => Additions(r, n + 1) = Additions(queue, n)
    BY <1>1 DEF Additions
  <1>4. x.type = "add" => Additions(r, n + 1) = Additions(queue, n) \cup {n + 1}
    BY <1>1 DEF Additions
  <1>5. n + 1 \notin Additions(queue, n)
    BY <1>1 DEF Additions
  <1>6. IsFiniteSet(Additions(queue, n))
    BY <1>1, AdditionsCounted
  <1>7. x.type = "add" => Cardinality(Additions(r, n + 1)) = Cardinality(Additions(queue, n)) + 1
    BY <1>4, <1>5, <1>6, FS_AddElement
  <1> QED
    BY <1>2, <1>3, <1>4, <1>7 DEF r, n

\* When the oldest alert is gone the others move up by one.
LEMMA AdditionsShifted ==
    ASSUME NEW R, NEW queue \in Seq(R), queue # <<>>, NEW i \in 0 .. Len(queue) - 1
    PROVE  /\ Additions(queue, i + 1) = {j + 1 : j \in Additions(Tail(queue), i)}
                                          \cup (IF queue[1].type = "add" THEN {1} ELSE {})
           /\ Cardinality(Additions(queue, i + 1))
                = Cardinality(Additions(Tail(queue), i)) + (IF queue[1].type = "add" THEN 1 ELSE 0)
  <1> DEFINE r == Tail(queue)
             S == Additions(r, i)
             T == {j + 1 : j \in S}
             f == [j \in S |-> j + 1]
  <1>1. /\ Len(queue) \in Nat /\ Len(queue) > 0
        /\ \A j \in 1 .. Len(queue) - 1 : r[j] = queue[j + 1]
    BY TailElements
  <1> HIDE DEF r
  <1>2. \A j \in 1 .. i : r[j] = queue[j + 1]
    BY <1>1
  <1>3. Additions(queue, i + 1) = T \cup (IF queue[1].type = "add" THEN {1} ELSE {})
    <2>1. ASSUME NEW k \in Additions(queue, i + 1), k # 1 PROVE k \in T
      <3>1. k \in 1 .. i + 1 /\ queue[k].type = "add"
        BY <2>1 DEF Additions
      <3>2. k - 1 \in 1..i /\ (k - 1) + 1 = k
        BY <2>1, <3>1
      <3>3. k - 1 \in S
        BY <1>2, <3>1, <3>2 DEF Additions
      <3> QED
        BY <3>2, <3>3
    <2>2. ASSUME NEW j \in S PROVE j + 1 \in Additions(queue, i + 1)
      BY <1>2, <2>2 DEF Additions
    <2>3. 1 \in Additions(queue, i + 1) <=> queue[1].type = "add"
      BY DEF Additions
    <2> QED
      BY <2>1, <2>2, <2>3
  <1>4. IsFiniteSet(S)
    BY AdditionsCounted
  <1>5. S \subseteq Nat /\ 1 \notin T
    BY DEF Additions
  <1>6. f \in Bijection(S, T)
    <2>1. f \in [S -> T]
      OBVIOUS
    <2>2. \A a, b \in S : f[a] = f[b] => a = b
      BY <1>5
    <2>3. \A k \in T : \E j \in S : f[j] = k
      OBVIOUS
    <2> HIDE DEF f, S, T
    <2> QED
      BY <2>1, <2>2, <2>3 DEF Bijection, Injection, Surjection, IsInjective
  <1>7. IsFiniteSet(T) /\ Cardinality(T) = Cardinality(S)
    BY <1>4, <1>6, FS_Bijection DEF ExistsBijection
  <1>8. /\ IsFiniteSet(T \cup {1}) /\ Cardinality(T \cup {1}) = Cardinality(S) + 1
        /\ Cardinality(S) \in Nat
    BY <1>4, <1>5, <1>7, FS_AddElement, FS_CardinalityType
  <1>9. Cardinality(Additions(queue, i + 1)) = Cardinality(S) + (IF queue[1].type = "add" THEN 1 ELSE 0)
    <2>1. CASE queue[1].type = "add"
      <3>1. Additions(queue, i + 1) = T \cup {1}
        BY <1>3, <2>1
      <3> HIDE DEF T, S
      <3> QED
        BY <3>1, <1>8, <2>1
    <2>2. CASE queue[1].type # "add"
      <3>1. Additions(queue, i + 1) = T
        BY <1>3, <2>2
      <3> HIDE DEF T, S
      <3> QED
        BY <3>1, <1>7, <1>8, <2>2
    <2> QED
      BY <2>1, <2>2
  <1> QED
    BY <1>3, <1>9 DEF r

\* A handler is added for an alert that comes of the same call.
LEMMA MatchingAdded ==
    ASSUME NEW R, NEW queue \in Seq(R), NEW x \in R, x.type = "add",
           NEW W, NEW handlers \in Seq(W), NEW w \in W, w = x.answers,
           Matching(handlers, queue)
    PROVE  Matching(Append(handlers, w), Append(queue, x))
  <1> DEFINE r == Append(queue, x)
             g == Append(handlers, w)
             n == Len(queue)
  <1>1. /\ n \in Nat /\ Len(r) = n + 1 /\ r[n + 1] = x /\ \A i \in 1..n : r[i] = queue[i]
    BY AppendElements
  <1>2. /\ Len(handlers) \in Nat /\ Len(g) = Len(handlers) + 1 /\ g[Len(handlers) + 1] = w
        /\ \A i \in 1..Len(handlers) : g[i] = handlers[i]
    BY AppendElements
  <1>3. /\ \A i \in 0..n : Additions(r, i) = Additions(queue, i)
        /\ Additions(r, n + 1) = Additions(queue, n) \cup {n + 1}
        /\ Cardinality(Additions(r, n + 1)) = Cardinality(Additions(queue, n)) + 1
    BY AdditionsAppended
  <1> HIDE DEF r, g
  <1>4. Len(handlers) = Cardinality(Additions(queue, n))
    BY DEF Matching
  <1>5. ASSUME NEW i \in Additions(r, n + 1)
        PROVE  g[Cardinality(Additions(r, i))] = r[i].answers
    <2>1. CASE i = n + 1
      BY <1>1, <1>2, <1>3, <1>4, <2>1
    <2>2. CASE i # n + 1
      <3>1. i \in Additions(queue, n) /\ i \in 1..n
        BY <1>3, <1>5, <2>2 DEF Additions
      <3>2. Cardinality(Additions(queue, i)) \in 1..Len(handlers)
        BY <1>1, <1>4, <3>1, AdditionsCounted
      <3>3. handlers[Cardinality(Additions(queue, i))] = queue[i].answers
        BY <3>1 DEF Matching
      <3>4. Additions(r, i) = Additions(queue, i) /\ r[i] = queue[i]
        BY <1>1, <1>3, <3>1
      <3> QED
        BY <1>2, <3>2, <3>3, <3>4
    <2> QED
      BY <2>1, <2>2
  <1> QED
    BY <1>1, <1>2, <1>3, <1>4, <1>5 DEF r, g, Matching

\* An alert of another kind needs no handler.
LEMMA MatchingOther ==
    ASSUME NEW R, NEW queue \in Seq(R), NEW x \in R, x.type # "add",
           NEW handlers, Matching(handlers, queue)
    PROVE  Matching(handlers, Append(queue, x))
  <1> DEFINE r == Append(queue, x)
             n == Len(queue)
  <1>1. /\ n \in Nat /\ Len(r) = n + 1 /\ \A i \in 1..n : r[i] = queue[i]
    BY AppendElements
  <1>2. /\ \A i \in 0..n : Additions(r, i) = Additions(queue, i)
        /\ Additions(r, n + 1) = Additions(queue, n)
    BY AdditionsAppended
  <1> HIDE DEF r
  <1>3. ASSUME NEW i \in Additions(queue, n)
        PROVE  i \in 1..n /\ Additions(r, i) = Additions(queue, i) /\ r[i] = queue[i]
    BY <1>1, <1>2, <1>3 DEF Additions
  <1> QED
    BY <1>1, <1>2, <1>3 DEF Matching, r

\* The first addition meets the first handler, and both are done with.
LEMMA MatchingHandled ==
    ASSUME NEW R, NEW queue \in Seq(R), queue # <<>>, Head(queue).type = "add",
           NEW W, NEW handlers \in Seq(W), Matching(handlers, queue)
    PROVE  /\ handlers # <<>> /\ Head(handlers) = Head(queue).answers
           /\ Matching(Tail(handlers), Tail(queue))
  <1> DEFINE r == Tail(queue)
             g == Tail(handlers)
             n == Len(queue)
  <1>1. /\ n \in Nat /\ n > 0 /\ Len(r) = n - 1 /\ Head(queue) = queue[1]
        /\ \A i \in 1 .. n - 1 : r[i] = queue[i + 1]
    BY TailElements
  <1>2. \A i \in 0 .. n - 1 :
           /\ Additions(queue, i + 1) = {j + 1 : j \in Additions(r, i)} \cup {1}
           /\ Cardinality(Additions(queue, i + 1)) = Cardinality(Additions(r, i)) + 1
    BY <1>1, AdditionsShifted
  <1>3. \A i \in 0 .. n - 1 : Cardinality(Additions(r, i)) \in Nat
    BY <1>1, AdditionsCounted
  <1>4. Len(handlers) = Cardinality(Additions(queue, n))
    BY DEF Matching
  <1>5. Len(handlers) = Cardinality(Additions(r, n - 1)) + 1
    <2>1. n - 1 \in 0 .. n - 1 /\ (n - 1) + 1 = n
      BY <1>1
    <2> QED
      BY <1>2, <1>4, <2>1
  <1>6. handlers # <<>>
    <2>1. n - 1 \in 0 .. n - 1
      BY <1>1
    <2>2. Len(handlers) > 0
      BY <1>3, <1>5, <2>1
    <2> QED
      BY <2>2
  <1>7. /\ Head(handlers) = handlers[1] /\ Len(g) = Len(handlers) - 1
        /\ Len(handlers) \in Nat
        /\ \A i \in 1 .. Len(handlers) - 1 : g[i] = handlers[i + 1]
    BY <1>6, TailElements
  <1>8. Head(handlers) = Head(queue).answers
    <2>1. 0 \in 0 .. n - 1 /\ 0 + 1 = 1
      BY <1>1
    <2>2. Additions(r, 0) = {}
      BY DEF Additions
    <2>3. Cardinality(Additions(queue, 1)) = 1
      BY <1>2, <2>1, <2>2, FS_EmptySet
    <2>4. 1 \in Additions(queue, n)
      BY <1>1 DEF Additions
    <2> QED
      BY <1>1, <1>7, <2>3, <2>4 DEF Matching
  <1>9. ASSUME NEW i \in Additions(r, n - 1)
        PROVE  g[Cardinality(Additions(r, i))] = r[i].answers
    <2>1. i \in 1 .. n - 1 /\ i \in 0 .. n - 1 /\ n - 1 \in 0 .. n - 1 /\ (n - 1) + 1 = n
      BY <1>1, <1>9 DEF Additions
    <2>2. i + 1 \in Additions(queue, n)
      BY <1>2, <1>9, <2>1
    <2>3. handlers[Cardinality(Additions(queue, i + 1))] = queue[i + 1].answers
      BY <2>2 DEF Matching
    <2>4. Cardinality(Additions(queue, i + 1)) = Cardinality(Additions(r, i)) + 1
      BY <1>2, <2>1
    <2>5. Cardinality(Additions(r, i)) \in 1 .. Len(handlers) - 1
      <3>1. n - 1 \in Nat
        BY <1>1
      <3>2. Cardinality(Additions(r, i)) \in 1 .. Cardinality(Additions(r, n - 1))
        BY <1>9, <3>1, AdditionsCounted
      <3>3. Cardinality(Additions(r, n - 1)) = Len(handlers) - 1
        BY <1>3, <1>5, <2>1
      <3> QED
        BY <3>2, <3>3
    <2> QED
      BY <1>1, <1>7, <2>1, <2>3, <2>4, <2>5
  <1>10. Len(g) = Cardinality(Additions(r, n - 1))
    <2>1. n - 1 \in 0 .. n - 1
      BY <1>1
    <2> QED
      BY <1>3, <1>5, <1>7, <2>1
  <1> QED
    BY <1>1, <1>6, <1>8, <1>9, <1>10 DEF Matching

\* An alert of another kind leaves the handlers to those behind it.
LEMMA MatchingPassed ==
    ASSUME NEW R, NEW queue \in Seq(R), queue # <<>>, Head(queue).type # "add",
           NEW handlers, Matching(handlers, queue)
    PROVE  Matching(handlers, Tail(queue))
  <1> DEFINE r == Tail(queue)
             n == Len(queue)
  <1>1. /\ n \in Nat /\ n > 0 /\ Len(r) = n - 1 /\ Head(queue) = queue[1]
        /\ \A i \in 1 .. n - 1 : r[i] = queue[i + 1]
    BY TailElements
  <1>2. \A i \in 0 .. n - 1 :
           /\ Additions(queue, i + 1) = {j + 1 : j \in Additions(r, i)}
           /\ Cardinality(Additions(queue, i + 1)) = Cardinality(Additions(r, i)) + 0
    BY <1>1, AdditionsShifted
  <1>3. \A i \in 0 .. n - 1 : Cardinality(Additions(r, i)) \in Nat
    BY <1>1, AdditionsCounted
  <1>4. n - 1 \in 0 .. n - 1 /\ (n - 1) + 1 = n
    BY <1>1
  <1>5. Len(handlers) = Cardinality(Additions(r, n - 1))
    BY <1>2, <1>3, <1>4 DEF Matching
  <1>6. ASSUME NEW i \in Additions(r, n - 1)
        PROVE  handlers[Cardinality(Additions(r, i))] = r[i].answers
    <2>1. i \in 1 .. n - 1 /\ i \in 0 .. n - 1
      BY <1>1, <1>6 DEF Additions
    <2>2. i + 1 \in Additions(queue, n)
      BY <1>2, <1>4, <1>6
    <2>3. handlers[Cardinality(Additions(queue, i + 1))] = queue[i + 1].answers
      BY <2>2 DEF Matching
    <2> QED
      BY <1>1, <1>2, <1>3, <2>1, <2>3
  <1> QED
    BY <1>1, <1>5, <1>6 DEF Matching


\* The two queues, of whatever alerts and handlers they are made.
Answering(handlers, queue) ==
  /\ \E R : queue \in Seq(R)
  /\ \E W : handlers \in Seq(W)
  /\ Matching(handlers, queue)

LEMMA SeqOfMore ==
    ASSUME NEW S, NEW s \in Seq(S), NEW x
    PROVE  s \in Seq(S \cup {x})
  <1>1. Len(s) \in Nat /\ DOMAIN s = 1..Len(s) /\ s \in [1..Len(s) -> S]
    BY LenProperties
  <1>2. s \in [1..Len(s) -> S \cup {x}]
    BY <1>1
  <1> QED
    BY <1>1, <1>2, SeqDef

\* What the actions do to the queues.
LEMMA AnsweringAdded ==
    ASSUME NEW handlers, NEW queue, Answering(handlers, queue), NEW x, x.type = "add"
    PROVE  Answering(Append(handlers, x.answers), Append(queue, x))
  <1>1. PICK R : queue \in Seq(R)
    BY DEF Answering
  <1>2. PICK W : handlers \in Seq(W)
    BY DEF Answering
  <1> DEFINE w == x.answers
             R2 == R \cup {x}
             W2 == W \cup {w}
  <1>3. queue \in Seq(R2) /\ x \in R2 /\ handlers \in Seq(W2) /\ w \in W2
    BY <1>1, <1>2, SeqOfMore
  <1> HIDE DEF R2, W2, w
  <1>4. Append(queue, x) \in Seq(R2) /\ Append(handlers, w) \in Seq(W2)
    BY <1>3, AppendElements
  <1>5. w = x.answers /\ Matching(handlers, queue)
    BY DEF w, Answering
  <1>6. Matching(Append(handlers, w), Append(queue, x))
    BY <1>3, <1>5, MatchingAdded
  <1> QED
    BY <1>4, <1>5, <1>6 DEF Answering

LEMMA AnsweringTold ==
    ASSUME NEW handlers, NEW queue, Answering(handlers, queue), NEW x, x.type # "add"
    PROVE  Answering(handlers, Append(queue, x))
  <1>1. PICK R : queue \in Seq(R)
    BY DEF Answering
  <1> DEFINE R2 == R \cup {x}
  <1>2. queue \in Seq(R2) /\ x \in R2
    BY <1>1, SeqOfMore
  <1> HIDE DEF R2
  <1>3. Append(queue, x) \in Seq(R2)
    BY <1>2, AppendElements
  <1>4. Matching(handlers, Append(queue, x))
    BY <1>2, MatchingOther DEF Answering
  <1> QED
    BY <1>3, <1>4 DEF Answering

LEMMA AnsweringHandled ==
    ASSUME NEW handlers, NEW queue, Answering(handlers, queue),
           queue # <<>>, Head(queue).type = "add"
    PROVE  /\ Answering(Tail(handlers), Tail(queue))
           /\ handlers # <<>> /\ Head(handlers) = Head(queue).answers
  <1>1. PICK R : queue \in Seq(R)
    BY DEF Answering
  <1>2. PICK W : handlers \in Seq(W)
    BY DEF Answering
  <1>3. /\ handlers # <<>> /\ Head(handlers) = Head(queue).answers
        /\ Matching(Tail(handlers), Tail(queue))
    BY <1>1, <1>2, MatchingHandled DEF Answering
  <1>4. Tail(queue) \in Seq(R) /\ Tail(handlers) \in Seq(W)
    BY <1>1, <1>2, <1>3, TailElements
  <1> QED
    BY <1>3, <1>4 DEF Answering

LEMMA AnsweringPassed ==
    ASSUME NEW handlers, NEW queue, Answering(handlers, queue),
           queue # <<>>, Head(queue).type # "add"
    PROVE  Answering(handlers, Tail(queue))
  <1>1. PICK R : queue \in Seq(R)
    BY DEF Answering
  <1>2. Matching(handlers, Tail(queue))
    BY <1>1, MatchingPassed DEF Answering
  <1>3. Tail(queue) \in Seq(R)
    BY <1>1, TailElements
  <1> QED
    BY <1>2, <1>3 DEF Answering

\* The answer to a request for resume data.
LEMMA AnsweringSaved ==
    ASSUME NEW handlers, NEW queue, Answering(handlers, queue), NEW nat, NEW h
    PROVE  Answering(handlers, queue \o SaveResumeData(nat, h))
  <1> DEFINE x == [Alert("resume", h, nat[h].hashes) EXCEPT !.meta = nat[h].meta]
  <1>1. x.type # "add"
    BY DEF Alert
  <1>2. PICK R : queue \in Seq(R)
    BY DEF Answering
  <1>3. queue \o <<>> = queue
    BY <1>2, ConcatEmptySeq
  <1>4. queue \o <<x>> = Append(queue, x)
    <2> DEFINE R2 == R \cup {x}
    <2>1. queue \in Seq(R2) /\ x \in R2
      BY <1>2, SeqOfMore
    <2> HIDE DEF R2, x
    <2> QED
      BY <2>1, AppendIsConcat
  <1>5. Answering(handlers, Append(queue, x))
    BY <1>1, AnsweringTold
  <1>6. \/ SaveResumeData(nat, h) = <<x>>
        \/ SaveResumeData(nat, h) = <<>>
    BY DEF SaveResumeData
  <1> HIDE DEF x
  <1> QED
    BY <1>3, <1>4, <1>5, <1>6

LEMMA InitAnswering == Init => Answering(addHandlers, alerts)
  <1> SUFFICES ASSUME Init PROVE Answering(addHandlers, alerts)
    OBVIOUS
  <1>1. addHandlers = <<>> /\ alerts = <<>>
    BY DEF Init
  <1>2. Len(<<>>) = 0 /\ \A S : <<>> \in Seq(S)
    BY EmptySeq
  <1>3. Additions(<<>>, 0) = {}
    BY DEF Additions
  <1> QED
    BY <1>1, <1>2, <1>3, FS_EmptySet DEF Answering, Matching

\* The alert of a native torrent that learns its metadata needs no handler.
LEMMA GetMetadataAnswering ==
    ASSUME Answering(addHandlers, alerts), NEW h, GetMetadata(h)
    PROVE  Answering(addHandlers, alerts')
  <1> DEFINE all == AllHashes(ContentOf(natives[h].hashes))
             x == Alert("conflict", None, all)
             y == Alert("metadata", h, all)
  <1>1. x.type # "add" /\ y.type # "add"
    BY DEF Alert
  <1>2. alerts' = Append(alerts, x) \/ alerts' = Append(alerts, y)
    BY DEF GetMetadata
  <1> HIDE DEF x, y
  <1> QED
    BY <1>1, <1>2, AnsweringTold

\* Whoever adds a torrent brings a handler for the alert.
LEMMA AddedAnswering ==
    ASSUME Answering(addHandlers, alerts), NEW h, NEW hashes, NEW who
    PROVE  Answering(Append(addHandlers, who), Append(alerts, Added(h, hashes, who)))
  <1> DEFINE x == Added(h, hashes, who)
  <1>1. x.type = "add" /\ x.answers = who
    BY DEF Added, Alert
  <1> HIDE DEF x
  <1> QED
    BY <1>1, AnsweringAdded DEF x

LEMMA NextAnswering ==
    ASSUME Answering(addHandlers, alerts), [Next]_vars
    PROVE  Answering(addHandlers, alerts)'
  <1> SUFFICES Answering(addHandlers', alerts')
    BY DEF Answering, Matching, Additions
  <1>1. ASSUME NEW hashes, NEW meta, AddTorrent(hashes, meta) \/ AddDuplicate(hashes, meta)
        PROVE  Answering(addHandlers', alerts')
    BY <1>1 DEF AddTorrent, AddDuplicate, session
  <1>2. ASSUME NEW hashes, DownloadMetadata(hashes) PROVE Answering(addHandlers', alerts')
    BY <1>2, AddedAnswering DEF DownloadMetadata
  <1>3. ASSUME NEW id, CancelDownloadMetadata(id) \/ RemoveTorrent(id)
        PROVE  Answering(addHandlers', alerts')
    BY <1>3 DEF CancelDownloadMetadata, RemoveTorrent, session
  <1>4. ASSUME NEW h, ReceiveMetadata(h) PROVE Answering(addHandlers', alerts')
    BY <1>4, GetMetadataAnswering DEF ReceiveMetadata, session
  <1>5. ASSUME HandleAdded PROVE Answering(addHandlers', alerts')
    <2> DEFINE h == Head(alerts).handle
    <2>1. Answering(Tail(addHandlers), Tail(alerts))
      BY <1>5, AnsweringHandled DEF HandleAdded, NextAlert
    <2>2. addHandlers' = Tail(addHandlers)
      BY <1>5 DEF HandleAdded
    <2>3. \/ alerts' = Tail(alerts)
          \/ alerts' = Tail(alerts) \o SaveResumeData(natives, h)
      BY <1>5 DEF HandleAdded
    <2> HIDE DEF h
    <2> QED
      BY <2>1, <2>2, <2>3, AnsweringSaved
  <1>6. ASSUME HandleHidden \/ HandleReloaded PROVE Answering(addHandlers', alerts')
    <2>1. /\ alerts # <<>> /\ Head(alerts).type = "add"
          /\ addHandlers' = Tail(addHandlers) /\ alerts' = Tail(alerts)
      BY <1>6 DEF HandleHidden, HandleReloaded, NextAlert
    <2> QED
      BY <2>1, AnsweringHandled
  <1>7. ASSUME HandleMetadata \/ HandleHiddenMetadata \/ HandleResumeData \/ HandleConflict
        PROVE  Answering(addHandlers', alerts')
    <2>1. alerts # <<>> /\ Head(alerts).type # "add"
      BY <1>7 DEF HandleMetadata, HandleHiddenMetadata, HandleResumeData, HandleConflict, NextAlert
    <2>2. alerts' = Tail(alerts) /\ addHandlers' = addHandlers
      BY <1>7 DEF HandleMetadata, HandleHiddenMetadata, HandleResumeData, HandleConflict, session
    <2> QED
      BY <2>1, <2>2, AnsweringPassed
  <1>8. ASSUME NEW call, PostAddition(call) PROVE Answering(addHandlers', alerts')
    BY <1>8, AddedAnswering DEF PostAddition
  <1>9. ASSUME NEW t, RequestResumeData(t) PROVE Answering(addHandlers', alerts')
    BY <1>9, AnsweringSaved DEF RequestResumeData, session
  <1>10. ASSUME NEW h, SetMetadata(h) PROVE Answering(addHandlers', alerts')
    BY <1>10, GetMetadataAnswering DEF SetMetadata, session
  <1>11. ASSUME NEW t, EndMetadata(t) PROVE Answering(addHandlers', alerts')
    BY <1>11, AddedAnswering DEF EndMetadata, ReloadHandler
  <1>12. CASE UNCHANGED vars
    BY <1>12 DEF vars, session
  <1> QED
    BY <1>1, <1>2, <1>3, <1>4, <1>5, <1>6, <1>7, <1>8, <1>9, <1>10, <1>11, <1>12
       DEF Next, HandleAlert, RunCall

\* Every add_torrent alert meets the handler of the call it answers, whatever
\* is added, hidden, reloaded, removed or in conflict
\* (SessionImpl::handleAddTorrentAlert).
THEOREM HandlersMatch == Spec => []HandlersMatchAlerts
  <1>1. Init => Answering(addHandlers, alerts)
    BY InitAnswering
  <1>2. Answering(addHandlers, alerts) /\ [Next]_vars => Answering(addHandlers, alerts)'
    BY NextAnswering
  <1>3. Answering(addHandlers, alerts) => HandlersMatchAlerts
    BY DEF Answering, Matching, HandlersMatchAlerts
  <1> QED
    BY <1>1, <1>2, <1>3, PTL DEF Spec

-----------------------------------------------------------------------------
(* Hashes.                                                                 *)

\* What is known of a torrent: hashes of one content, which name it.
LEMMA HashesKnown ==
    ASSUME NEW hashes \in InfoHash
    PROVE  /\ ContentOf(hashes) \in Content /\ hashes # {} /\ hashes \subseteq ID
           /\ \A id \in hashes : id[1] = ContentOf(hashes)
                                 /\ id \in {V1(hashes), V2(hashes)}
           /\ ToTorrentID(hashes) \in hashes
           /\ IsHybrid(hashes) <=> V1(hashes) \in hashes /\ V2(hashes) \in hashes
           /\ IsHybrid(hashes) => hashes = AllHashes(ContentOf(hashes))
                                  /\ hashes = {V1(hashes), V2(hashes)}
           /\ ~IsHybrid(hashes) => \A i, j \in hashes : i = j
  <1> DEFINE c == ContentOf(hashes)
             a == V1(hashes)
             b == V2(hashes)
  <1>1. PICK d \in Content : hashes \subseteq AllHashes(d)
    BY DEF InfoHash
  <1>2. hashes # {} /\ hashes \subseteq ID /\ \A id \in hashes : id[1] = d
    BY <1>1 DEF InfoHash, AllHashes
  <1>3. (CHOOSE id \in hashes : TRUE) \in hashes
    BY <1>2
  <1>4. c = d
    BY <1>2, <1>3 DEF ContentOf
  <1>5. \A id \in ID : id = <<id[1], "v1">> \/ id = <<id[1], "v2">>
    BY DEF ID
  <1>6. a = <<c, "v1">> /\ b = <<c, "v2">> /\ a # b
    BY DEF V1, V2
  <1> HIDE DEF a, b, c
  <1>7. \A id \in hashes : id = a \/ id = b
    BY <1>2, <1>4, <1>5, <1>6
  <1>8. Cardinality({a}) = 1 /\ Cardinality({b}) = 1 /\ Cardinality({a, b}) = 2
    <2>1. Cardinality({a}) = 1 /\ Cardinality({b}) = 1 /\ IsFiniteSet({a})
      BY FS_Singleton
    <2>2. Cardinality({a} \cup {b}) = Cardinality({a}) + 1
      BY <1>6, <2>1, FS_AddElement
    <2>3. {a} \cup {b} = {a, b}
      OBVIOUS
    <2> QED
      BY <2>1, <2>2, <2>3
  <1>9. hashes = {a} \/ hashes = {b} \/ hashes = {a, b}
    BY <1>2, <1>7
  <1>10. IsHybrid(hashes) <=> hashes = {a, b}
    BY <1>6, <1>8, <1>9 DEF IsHybrid
  <1>11. hashes = {a, b} => hashes = AllHashes(c)
    <2>1. \A id \in AllHashes(c) : id = a \/ id = b
      BY <1>5, <1>6 DEF AllHashes
    <2> QED
      BY <1>1, <1>4, <2>1
  <1>12. ToTorrentID(hashes) \in hashes
    BY <1>9 DEF ToTorrentID, a, b
  <1>13. IsHybrid(hashes) <=> a \in hashes /\ b \in hashes
    BY <1>6, <1>9, <1>10
  <1>14. ~IsHybrid(hashes) => \A i, j \in hashes : i = j
    BY <1>9, <1>10
  <1> QED
    BY <1>2, <1>4, <1>7, <1>10, <1>11, <1>12, <1>13, <1>14 DEF a, b, c

\* All hashes of a content, and one of them.
LEMMA HashesOfContent ==
    /\ \A c \in Content : AllHashes(c) \in InfoHash /\ ContentOf(AllHashes(c)) = c
    /\ \A id \in ID : {id} \in InfoHash /\ id[1] \in Content /\ ContentOf({id}) = id[1]
  <1>1. ASSUME NEW c \in Content
        PROVE  AllHashes(c) \in InfoHash /\ ContentOf(AllHashes(c)) = c
    <2>1. <<c, "v1">> \in AllHashes(c)
      BY DEF AllHashes, ID
    <2>2. AllHashes(c) \in InfoHash
      BY <2>1 DEF InfoHash
    <2>3. (CHOOSE id \in AllHashes(c) : TRUE) \in AllHashes(c)
      BY <2>1
    <2> QED
      BY <2>2, <2>3 DEF AllHashes, ContentOf
  <1>2. ASSUME NEW id \in ID
        PROVE  {id} \in InfoHash /\ id[1] \in Content /\ ContentOf({id}) = id[1]
    <2>1. id[1] \in Content
      BY InfoHashAssumption DEF ID
    <2>2. {id} \in SUBSET AllHashes(id[1]) /\ {id} # {}
      BY DEF AllHashes
    <2>3. {id} \in InfoHash
      BY <2>1, <2>2 DEF InfoHash
    <2>4. (CHOOSE i \in {id} : TRUE) = id
      OBVIOUS
    <2> QED
      BY <2>1, <2>3, <2>4 DEF ContentOf
  <1> QED
    BY <1>1, <1>2

Full(hashes) == hashes = AllHashes(ContentOf(hashes))

\* Hashes of two torrents meet only if the torrents are of one content.
LEMMA HashesMeet ==
    ASSUME NEW a \in InfoHash, NEW b \in InfoHash
    PROVE  /\ \A id \in a \cap b : ContentOf(a) = ContentOf(b)
           /\ a \subseteq b => ContentOf(a) = ContentOf(b)
           /\ ToTorrentID(a) = ToTorrentID(b) => a \cap b # {}
           /\ ContentOf(a) = ContentOf(b) <=> V1(a) = V1(b)
           /\ ContentOf(a) = ContentOf(b) => V2(a) = V2(b)
  <1>1. /\ a # {} /\ \A id \in a : id[1] = ContentOf(a)
        /\ ToTorrentID(a) \in a
    BY HashesKnown
  <1>2. /\ \A id \in b : id[1] = ContentOf(b)
        /\ ToTorrentID(b) \in b
    BY HashesKnown
  <1>3. \A id \in a \cap b : ContentOf(a) = ContentOf(b)
    BY <1>1, <1>2
  <1>4. a \subseteq b => ContentOf(a) = ContentOf(b)
    BY <1>1, <1>3
  <1>5. ContentOf(a) = ContentOf(b) <=> V1(a) = V1(b)
    BY DEF V1
  <1>6. ContentOf(a) = ContentOf(b) => V2(a) = V2(b)
    BY DEF V2
  <1> QED
    BY <1>1, <1>2, <1>3, <1>4, <1>5, <1>6

\* All the hashes of a torrent are what anyone knows of it, and name it.
LEMMA HashesFull ==
    ASSUME NEW a \in InfoHash, NEW b \in InfoHash, ContentOf(a) = ContentOf(b), Full(b)
    PROVE  a \subseteq b
  <1>1. b = AllHashes(ContentOf(a))
    BY DEF Full
  <1>2. \A id \in a : id \in ID /\ id[1] = ContentOf(a)
    BY HashesKnown
  <1> QED
    BY <1>1, <1>2 DEF AllHashes

\* A hybrid torrent is named by its second hash.
LEMMA HashesNamed ==
    ASSUME NEW a \in InfoHash
    PROVE  /\ ToTorrentID(a) \in ID /\ V1(a) \in ID
           /\ ToTorrentID(a) \in {V1(a), V2(a)}
           /\ V1(a) # V2(a)
           /\ IsHybrid(a) => /\ ToTorrentID(a) = V2(a)
                             /\ V1(a) \in a /\ V2(a) \in a /\ V2(a) \in ID /\ Full(a)
           /\ ~IsHybrid(a) => a = {ToTorrentID(a)}
           /\ \A h \in a : ~IsHybrid(a) => h = ToTorrentID(a)
  <1>1. /\ ContentOf(a) \in Content /\ a # {} /\ a \subseteq ID
        /\ \A id \in a : id[1] = ContentOf(a) /\ id \in {V1(a), V2(a)}
        /\ ToTorrentID(a) \in a
        /\ IsHybrid(a) <=> V1(a) \in a /\ V2(a) \in a
        /\ IsHybrid(a) => a = AllHashes(ContentOf(a))
        /\ ~IsHybrid(a) => \A i, j \in a : i = j
    BY HashesKnown
  <1>2. V1(a) \in ID /\ V1(a) # V2(a)
    BY <1>1 DEF V1, V2, ID
  <1> QED
    BY <1>1, <1>2 DEF ToTorrentID, Full

\* The ID of a torrent that is known by some of its hashes is its ID, or the
\* ID of version 1.
LEMMA HashesName ==
    ASSUME NEW a \in InfoHash, NEW b \in InfoHash, a \subseteq b
    PROVE  \/ ToTorrentID(a) = ToTorrentID(b)
           \/ IsHybrid(b) /\ ~IsHybrid(a) /\ ToTorrentID(a) = V1(b)
  <1>1. ContentOf(a) = ContentOf(b)
    BY HashesMeet
  <1>2. V1(a) = V1(b) /\ V2(a) = V2(b)
    BY <1>1 DEF V1, V2
  <1>3. V2(a) \in a => V2(b) \in b
    BY <1>2
  <1>4. V2(a) \notin a => V1(a) \in a
    BY HashesKnown
  <1>5. IsHybrid(b) <=> V1(b) \in b /\ V2(b) \in b
    BY HashesKnown
  <1>6. IsHybrid(a) <=> V1(a) \in a /\ V2(a) \in a
    BY HashesKnown
  <1> QED
    BY <1>2, <1>3, <1>4, <1>5, <1>6 DEF ToTorrentID

-----------------------------------------------------------------------------
(* The inductive invariant.                                                *)

Who == {"user", "hidden", "none"}
NativeType ==
  [hashes : InfoHash, given : BOOLEAN, meta : BOOLEAN, alive : BOOLEAN, stopped : BOOLEAN]
AlertType ==
  [type : {"add", "metadata", "resume", "conflict"}, handle : Nat, hashes : InfoHash,
   meta : BOOLEAN, answers : Who]
TorrentType ==
  [hashes : InfoHash, handle : Nat, meta : BOOLEAN, job : BOOLEAN, stored : BOOLEAN]

NativesTyped == natives \in Seq(NativeType)

\* The handle of an alert is of a native torrent; a conflict is of a hybrid one.
AlertFits(a, nat) ==
  /\ a.handle # None => a.handle \in DOMAIN nat
  /\ a.type \in {"metadata", "resume"} \/ a.answers = "hidden" => a.handle # None
  /\ a.type # "add" => a.answers = "none"
  /\ a.type = "conflict" => IsHybrid(a.hashes)

AlertsTyped ==
  /\ alerts \in Seq(AlertType)
  /\ \A i \in DOMAIN alerts : AlertFits(alerts[i], natives)

TorrentsTyped ==
  /\ torrents \in [DOMAIN torrents -> TorrentType]
  /\ DOMAIN torrents \subseteq DOMAIN natives
  /\ \A t \in DOMAIN torrents : torrents[t].handle \in DOMAIN natives

MapsTyped ==
  /\ registry \in [ID -> Nat] /\ altIndex \in [ID -> Nat]
  /\ downloaded \in [ID -> Int]
  /\ \A id \in ID : downloaded[id] \in {None, Requested} \cup DOMAIN natives

\* The calls queued are of torrents and natives there are.
CallFits(call, nat, tor) ==
  /\ call.call = "add" => call.hashes \in InfoHash /\ call.meta \in BOOLEAN
  /\ call.call = "setMetadata" => call.torrent \in DOMAIN nat
  /\ call.call \in {"requestResumeData", "findFiles"} =>
       /\ call.torrent \in DOMAIN tor
       /\ call \in {RequestCall(call.torrent), SearchCall(call.torrent)}

PendingTyped == \A call \in DOMAIN pending : CallFits(call, natives, torrents)

\* Two native torrents are never of one hash.
NativesApart ==
  \A h, k \in DOMAIN natives :
    natives[h].alive /\ natives[k].alive /\ h # k => natives[h].hashes \cap natives[k].hashes = {}

\* The native torrents that the user's additions have brought, or will bring.
UserAlert(a) == a.type = "add" /\ a.answers = "user" /\ a.handle # None
HiddenAlert(a) == a.type = "add" /\ a.answers = "hidden"
IsUsers(h) ==
  \/ \E t \in DOMAIN torrents : torrents[t].handle = h
  \/ \E i \in DOMAIN alerts : UserAlert(alerts[i]) /\ alerts[i].handle = h
IsHidden(h) ==
  \/ \E id \in ID : downloaded[id] = h
  \/ \E i \in DOMAIN alerts : HiddenAlert(alerts[i]) /\ alerts[i].handle = h

\* Each torrent has a native torrent of its own, which knows its hashes.
TorrentsOwn ==
  \A t \in DOMAIN torrents :
    /\ natives[torrents[t].handle].alive
    /\ torrents[t].hashes \subseteq natives[torrents[t].handle].hashes
    /\ \A u \in DOMAIN torrents : u # t => torrents[u].handle # torrents[t].handle

\* So will each that is being added.
AdditionsOwn ==
  \A i \in DOMAIN alerts : UserAlert(alerts[i]) =>
    /\ natives[alerts[i].handle].alive
    /\ alerts[i].hashes \subseteq natives[alerts[i].handle].hashes
    /\ alerts[i].handle \notin DOMAIN torrents
    /\ \A t \in DOMAIN torrents : torrents[t].handle # alerts[i].handle
    /\ \A j \in DOMAIN alerts : UserAlert(alerts[j]) /\ j # i => alerts[j].handle # alerts[i].handle

\* None of them is a hidden one, which is removed with its download.
HiddenApart == \A h \in DOMAIN natives : ~(IsUsers(h) /\ IsHidden(h))

\* Behind an alert of metadata there is no other torrent of the content: what
\* is added before it has the metadata too.
MetadataIsFull ==
  \A i \in DOMAIN alerts : alerts[i].type = "metadata" =>
    LET hashes == natives[alerts[i].handle].hashes IN
    /\ Full(hashes)
    /\ \A t \in DOMAIN torrents :
         ContentOf(torrents[t].hashes) = ContentOf(hashes) => Full(natives[torrents[t].handle].hashes)
    /\ \A j \in DOMAIN alerts : UserAlert(alerts[j]) =>
         /\ alerts[j].handle = alerts[i].handle => j < i
         /\ j < i /\ ContentOf(natives[alerts[j].handle].hashes) = ContentOf(hashes)
              => Full(natives[alerts[j].handle].hashes)

\* A torrent that is going to be reloaded knows all its hashes.
JobsAreFull ==
  \A t \in DOMAIN torrents : torrents[t].job => Full(natives[torrents[t].handle].hashes)

\* IndexIsExact, entry by entry.
IndexesAgree ==
  /\ \A t \in DOMAIN torrents :
       /\ registry[ToTorrentID(torrents[t].hashes)] = t
       /\ IsHybrid(torrents[t].hashes) => altIndex[V1(torrents[t].hashes)] = t
  /\ \A id \in ID : registry[id] # None =>
       registry[id] \in DOMAIN torrents /\ ToTorrentID(torrents[registry[id]].hashes) = id
  /\ \A id \in ID : altIndex[id] # None =>
       /\ altIndex[id] \in DOMAIN torrents
       /\ IsHybrid(torrents[altIndex[id]].hashes) /\ V1(torrents[altIndex[id]].hashes) = id

RegistryInv ==
  /\ NativesTyped /\ AlertsTyped /\ TorrentsTyped /\ MapsTyped /\ PendingTyped
  /\ NativesApart /\ TorrentsOwn /\ AdditionsOwn /\ HiddenApart
  /\ MetadataIsFull /\ JobsAreFull
  /\ IndexesAgree

\* The stored ID of a torrent lags behind it only when its second hash has
\* become known, and then no other torrent is of the content.
ChangesAreKnown ==
  /\ rows \subseteq ID
  /\ DOMAIN changedIDs \subseteq ID
  /\ \A id \in DOMAIN changedIDs :
       /\ id[2] = "v2" /\ changedIDs[id] = <<id[1], "v1">>
       /\ \E t \in DOMAIN torrents : TorrentID(t) = id /\ IsHybrid(torrents[t].hashes)

-----------------------------------------------------------------------------
(* Steps of the alert queue.                                               *)

\* Of the alerts the first d are gone, and x may be new.
AlertsStep(d, x) ==
  /\ alerts' \in Seq(AlertType)
  /\ d \in {0, 1}
  /\ \A i \in DOMAIN alerts' :
       \/ i + d \in DOMAIN alerts /\ alerts'[i] = alerts[i + d]
       \/ i + d = Len(alerts) + 1 /\ alerts'[i] = x

LEMMA AlertsKept ==
    ASSUME alerts \in Seq(AlertType), alerts' = alerts, NEW x
    PROVE  AlertsStep(0, x)
  <1>1. DOMAIN alerts = 1..Len(alerts) /\ Len(alerts) \in Nat
    BY LenProperties
  <1>2. \A i \in DOMAIN alerts : i + 0 = i
    BY <1>1
  <1> QED
    BY <1>2 DEF AlertsStep

LEMMA AlertsTaken ==
    ASSUME alerts \in Seq(AlertType), alerts # <<>>, alerts' = Tail(alerts), NEW x
    PROVE  AlertsStep(1, x)
  <1>1. /\ Tail(alerts) \in Seq(AlertType)
        /\ \A i \in DOMAIN Tail(alerts) : i + 1 \in DOMAIN alerts /\ Tail(alerts)[i] = alerts[i + 1]
    BY TailElements
  <1> QED
    BY <1>1 DEF AlertsStep

LEMMA AlertsPosted ==
    ASSUME alerts \in Seq(AlertType), NEW x \in AlertType, alerts' = Append(alerts, x)
    PROVE  AlertsStep(0, x)
  <1> DEFINE r == Append(alerts, x)
  <1>1. /\ r \in Seq(AlertType)
        /\ Len(alerts) \in Nat
        /\ DOMAIN alerts = 1..Len(alerts) /\ DOMAIN r = 1 .. Len(alerts) + 1
        /\ \A i \in DOMAIN alerts : r[i] = alerts[i]
        /\ r[Len(alerts) + 1] = x
    BY AppendElements
  <1> HIDE DEF r
  <1>2. \A i \in DOMAIN r : i + 0 = i /\ (i \in DOMAIN alerts \/ i = Len(alerts) + 1)
    BY <1>1
  <1> QED
    BY <1>1, <1>2 DEF AlertsStep, r

\* The answer to a request for resume data, as an alert.
Saved(nat, h) == [Alert("resume", h, nat[h].hashes) EXCEPT !.meta = nat[h].meta]

LEMMA SavedType ==
    ASSUME NativesTyped, NEW h \in DOMAIN natives
    PROVE  /\ Saved(natives, h) \in AlertType
           /\ Saved(natives, h).type = "resume" /\ Saved(natives, h).handle = h
           /\ Saved(natives, h).answers = "none"
           /\ h \in Nat /\ h # None
  <1>1. natives[h] \in NativeType /\ h \in Nat /\ h # None
    BY LenProperties, ElementOfSeq DEF NativesTyped, None
  <1> DEFINE hs == natives[h].hashes
             m == natives[h].meta
  <1>2. hs \in InfoHash /\ m \in BOOLEAN
    BY <1>1 DEF NativeType
  <1>3. Saved(natives, h) = [Alert("resume", h, hs) EXCEPT !.meta = m]
    BY DEF Saved
  <1> HIDE DEF hs, m
  <1>4. Saved(natives, h) = [type |-> "resume", handle |-> h, hashes |-> hs, meta |-> m, answers |-> "none"]
    BY <1>3 DEF Alert
  <1> QED
    BY <1>1, <1>2, <1>4 DEF AlertType, Who

LEMMA AlertsSaved ==
    ASSUME NativesTyped, alerts \in Seq(AlertType), NEW h \in DOMAIN natives,
           alerts' = alerts \o SaveResumeData(natives, h)
    PROVE  AlertsStep(0, Saved(natives, h))
  <1> DEFINE x == Saved(natives, h)
  <1>1. x \in AlertType
    BY SavedType
  <1>2. SaveResumeData(natives, h) = <<x>> \/ SaveResumeData(natives, h) = <<>>
    BY DEF SaveResumeData, Saved
  <1> HIDE DEF x
  <1>3. alerts \o <<x>> = Append(alerts, x)
    BY <1>1, AppendIsConcat
  <1>4. alerts \o <<>> = alerts
    BY ConcatEmptySeq
  <1>5. alerts' = Append(alerts, x) \/ alerts' = alerts
    BY <1>2, <1>3, <1>4
  <1>6. AlertsStep(0, x)
    BY <1>1, <1>5, AlertsPosted, AlertsKept
  <1> QED
    BY <1>6 DEF x

LEMMA AlertsTakenSaved ==
    ASSUME NativesTyped, alerts \in Seq(AlertType), alerts # <<>>, NEW h \in DOMAIN natives,
           alerts' = Tail(alerts) \o SaveResumeData(natives, h)
    PROVE  AlertsStep(1, Saved(natives, h))
  <1> DEFINE x == Saved(natives, h)
             q == Tail(alerts)
             n == Len(alerts)
             r == Append(q, x)
  <1>1. x \in AlertType
    BY SavedType
  <1>2. SaveResumeData(natives, h) = <<x>> \/ SaveResumeData(natives, h) = <<>>
    BY DEF SaveResumeData, Saved
  <1>3. /\ q \in Seq(AlertType) /\ n \in Nat /\ n > 0 /\ Len(q) = n - 1
        /\ DOMAIN q = 1 .. n - 1
        /\ \A i \in DOMAIN q : i + 1 \in DOMAIN alerts /\ q[i] = alerts[i + 1]
    BY TailElements
  <1> HIDE DEF x, q, n
  <1>4. q \o <<x>> = r /\ q \o <<>> = q
    BY <1>1, <1>3, AppendIsConcat, ConcatEmptySeq
  <1>5. alerts' = r \/ alerts' = q
    BY <1>2, <1>4 DEF q
  <1>6. /\ r \in Seq(AlertType) /\ DOMAIN r = 1 .. Len(q) + 1
        /\ \A i \in DOMAIN q : r[i] = q[i]
        /\ r[Len(q) + 1] = x
    BY <1>1, <1>3, AppendElements
  <1> HIDE DEF r
  <1>7. CASE alerts' = q
    BY <1>3, <1>7 DEF AlertsStep, x
  <1>8. CASE alerts' = r
    <2>1. ASSUME NEW i \in DOMAIN r
          PROVE  \/ i + 1 \in DOMAIN alerts /\ r[i] = alerts[i + 1]
                 \/ i + 1 = n + 1 /\ r[i] = x
      <3>1. i \in DOMAIN q \/ i = n
        BY <1>3, <1>6
      <3>2. i = n => i = Len(q) + 1
        BY <1>3
      <3> QED
        BY <1>3, <1>6, <3>1, <3>2
    <2> QED
      BY <1>6, <1>8, <2>1 DEF AlertsStep, x, n
  <1> QED
    BY <1>5, <1>7, <1>8

-----------------------------------------------------------------------------
(* Steps that change no torrent's hashes or handle: requests, additions    *)
(* and downloads on their way, cancelled downloads, resume data, calls.    *)

\* Native torrents may be removed, but none of the user's; a new one shares no
\* hash with another.
NativesQuiet ==
  /\ natives' \in Seq(NativeType) /\ DOMAIN natives \subseteq DOMAIN natives'
  /\ \A h \in DOMAIN natives :
       /\ natives'[h].hashes = natives[h].hashes
       /\ natives'[h].alive => natives[h].alive
       /\ IsUsers(h) => natives'[h].alive = natives[h].alive
  /\ \A h, k \in DOMAIN natives' :
       h \notin DOMAIN natives /\ k # h /\ natives'[k].alive =>
         natives'[h].hashes \cap natives'[k].hashes = {}

TorrentsQuiet ==
  /\ torrents' \in [DOMAIN torrents -> TorrentType]
  /\ \A t \in DOMAIN torrents :
       /\ torrents'[t].hashes = torrents[t].hashes
       /\ torrents'[t].handle = torrents[t].handle
       /\ torrents'[t].job = torrents[t].job

\* A download is noted for a hidden native torrent.
DownloadsQuiet ==
  /\ downloaded' \in [ID -> Int]
  /\ \A id \in ID :
       \/ downloaded'[id] \in {downloaded[id], None, Requested}
       \/ downloaded'[id] \in DOMAIN natives /\ IsHidden(downloaded'[id])

\* An alert that is posted: of metadata of no torrent, of an addition of the
\* user's only with the new native torrent, of a hidden one only with a native
\* torrent that is nobody's.
AlertQuiet(a) ==
  /\ AlertFits(a, natives')
  /\ a.type # "metadata"
  /\ HiddenAlert(a) => ~IsUsers(a.handle)
  /\ UserAlert(a) => /\ a.handle \in DOMAIN natives' \ DOMAIN natives
                     /\ natives'[a.handle].alive
                     /\ a.hashes \subseteq natives'[a.handle].hashes

QuietStep(d, x) ==
  /\ AlertsStep(d, x) /\ AlertQuiet(x)
  /\ NativesQuiet /\ TorrentsQuiet /\ DownloadsQuiet
  /\ registry' = registry /\ altIndex' = altIndex

LEMMA QuietTypes ==
    ASSUME RegistryInv, NEW d, NEW x, QuietStep(d, x)
    PROVE  NativesTyped' /\ AlertsTyped' /\ TorrentsTyped' /\ MapsTyped'
  <1>1. NativesTyped'
    BY DEF QuietStep, NativesQuiet, NativesTyped
  <1>2. DOMAIN natives \subseteq DOMAIN natives' /\ DOMAIN torrents' = DOMAIN torrents
    BY DEF QuietStep, NativesQuiet, TorrentsQuiet
  <1>3. AlertsTyped'
    <2>1. alerts' \in Seq(AlertType)
      BY DEF QuietStep, AlertsStep
    <2>2. ASSUME NEW i \in DOMAIN alerts' PROVE AlertFits(alerts'[i], natives')
      <3>1. CASE i + d \in DOMAIN alerts /\ alerts'[i] = alerts[i + d]
        <4>1. AlertFits(alerts[i + d], natives)
          BY <3>1 DEF RegistryInv, AlertsTyped
        <4> QED
          BY <1>2, <3>1, <4>1 DEF AlertFits
      <3>2. CASE alerts'[i] = x
        BY <3>2 DEF QuietStep, AlertQuiet, AlertFits
      <3> QED
        BY <3>1, <3>2 DEF QuietStep, AlertsStep
    <2> QED
      BY <2>1, <2>2 DEF AlertsTyped, AlertFits
  <1>4. TorrentsTyped'
    BY <1>2 DEF QuietStep, TorrentsQuiet, RegistryInv, TorrentsTyped
  <1>5. MapsTyped'
    <2>1. downloaded' \in [ID -> Int] /\ registry' = registry /\ altIndex' = altIndex
      BY DEF QuietStep, DownloadsQuiet
    <2>2. \A id \in ID : downloaded'[id] \in {None, Requested} \cup DOMAIN natives
      BY DEF QuietStep, DownloadsQuiet, RegistryInv, MapsTyped
    <2> QED
      BY <1>2, <2>1, <2>2 DEF RegistryInv, MapsTyped
  <1> QED
    BY <1>1, <1>3, <1>4, <1>5

\* Whose alert an alert of an addition was, and how it stands to the others.
LEMMA QuietUserAlert ==
    ASSUME RegistryInv, NEW d, NEW x, QuietStep(d, x),
           NEW j \in DOMAIN alerts', UserAlert(alerts'[j])
    PROVE  \/ /\ j + d \in DOMAIN alerts /\ alerts'[j] = alerts[j + d]
              /\ UserAlert(alerts[j + d])
              /\ alerts[j + d].handle \in DOMAIN natives /\ IsUsers(alerts[j + d].handle)
           \/ /\ j + d = Len(alerts) + 1
              /\ alerts'[j].handle \in DOMAIN natives' \ DOMAIN natives
              /\ natives'[alerts'[j].handle].alive
              /\ alerts'[j].hashes \subseteq natives'[alerts'[j].handle].hashes
  <1>1. CASE j + d \in DOMAIN alerts /\ alerts'[j] = alerts[j + d]
    <2>1. AlertFits(alerts[j + d], natives)
      BY <1>1 DEF RegistryInv, AlertsTyped
    <2> QED
      BY <1>1, <2>1 DEF AlertFits, UserAlert, IsUsers
  <1>2. CASE j + d = Len(alerts) + 1 /\ alerts'[j] = x
    BY <1>2 DEF QuietStep, AlertQuiet
  <1> QED
    BY <1>1, <1>2 DEF QuietStep, AlertsStep

\* Nobody becomes the user's; who becomes hidden was nobody's.
LEMMA QuietRoles ==
    ASSUME RegistryInv, NEW d, NEW x, QuietStep(d, x), NEW h \in DOMAIN natives
    PROVE  (IsUsers(h)' => IsUsers(h)) /\ (IsHidden(h)' => IsHidden(h) \/ ~IsUsers(h))
  <1>1. DOMAIN torrents' = DOMAIN torrents
        /\ \A t \in DOMAIN torrents : torrents'[t].handle = torrents[t].handle
    BY DEF QuietStep, TorrentsQuiet
  <1>2. IsUsers(h)' => IsUsers(h)
    BY <1>1, QuietUserAlert DEF IsUsers
  <1>3. h # None /\ h # Requested
    BY LenProperties DEF RegistryInv, NativesTyped, None, Requested
  <1>4. ASSUME NEW id \in ID, downloaded'[id] = h PROVE IsHidden(h)
    BY <1>3, <1>4 DEF QuietStep, DownloadsQuiet, IsHidden
  <1>5. ASSUME NEW i \in DOMAIN alerts', HiddenAlert(alerts'[i]), alerts'[i].handle = h
        PROVE  IsHidden(h) \/ ~IsUsers(h)
    BY <1>5 DEF IsHidden, QuietStep, AlertsStep, AlertQuiet
  <1>6. IsHidden(h)' => IsHidden(h) \/ ~IsUsers(h)
    BY <1>4, <1>5 DEF IsHidden
  <1> QED
    BY <1>2, <1>6

\* A new native torrent is of one who asked for it.
LEMMA QuietNew ==
    ASSUME RegistryInv, NEW d, NEW x, QuietStep(d, x), NEW h \in DOMAIN natives' \ DOMAIN natives
    PROVE  ~(IsUsers(h)' /\ IsHidden(h)')
  <1>1. \A t \in DOMAIN torrents : torrents'[t].handle \in DOMAIN natives /\ DOMAIN torrents' = DOMAIN torrents
    BY DEF QuietStep, TorrentsQuiet, RegistryInv, TorrentsTyped
  <1>2. h # None /\ h # Requested
    BY LenProperties DEF QuietStep, NativesQuiet, None, Requested
  <1>3. \A id \in ID : downloaded'[id] # h
    BY <1>2 DEF QuietStep, DownloadsQuiet, RegistryInv, MapsTyped
  <1>4. ASSUME NEW i \in DOMAIN alerts', alerts'[i].handle = h
        PROVE  alerts'[i] = x
    <2>1. CASE i + d \in DOMAIN alerts /\ alerts'[i] = alerts[i + d]
      <3>1. AlertFits(alerts[i + d], natives)
        BY <2>1 DEF RegistryInv, AlertsTyped
      <3> QED
        BY <1>2, <1>4, <2>1, <3>1 DEF AlertFits
    <2> QED
      BY <2>1 DEF QuietStep, AlertsStep
  <1>5. IsUsers(h)' => UserAlert(x)
    BY <1>1, <1>4 DEF IsUsers, QuietStep, TorrentsQuiet
  <1>6. IsHidden(h)' => HiddenAlert(x)
    BY <1>3, <1>4 DEF IsHidden
  <1> QED
    BY <1>5, <1>6 DEF UserAlert, HiddenAlert

LEMMA QuietOwn ==
    ASSUME RegistryInv, NEW d, NEW x, QuietStep(d, x)
    PROVE  NativesApart' /\ TorrentsOwn' /\ AdditionsOwn' /\ HiddenApart' /\ JobsAreFull' /\ IndexesAgree'
  <1>1. /\ DOMAIN natives \subseteq DOMAIN natives'
        /\ \A h \in DOMAIN natives :
              /\ natives'[h].hashes = natives[h].hashes
              /\ natives'[h].alive => natives[h].alive
              /\ IsUsers(h) => natives'[h].alive = natives[h].alive
    BY DEF QuietStep, NativesQuiet
  <1>2. /\ DOMAIN torrents' = DOMAIN torrents
        /\ \A t \in DOMAIN torrents :
              /\ torrents'[t].hashes = torrents[t].hashes
              /\ torrents'[t].handle = torrents[t].handle
              /\ torrents'[t].job = torrents[t].job
              /\ torrents[t].handle \in DOMAIN natives
              /\ t \in DOMAIN natives
              /\ IsUsers(torrents[t].handle)
    BY DEF QuietStep, TorrentsQuiet, RegistryInv, TorrentsTyped, IsUsers
  <1>3. NativesApart'
    BY <1>1 DEF RegistryInv, NativesApart, QuietStep, NativesQuiet
  <1>4. TorrentsOwn'
    BY <1>1, <1>2 DEF RegistryInv, TorrentsOwn
  <1>5. AdditionsOwn'
    <2>1. ASSUME NEW i \in DOMAIN alerts', UserAlert(alerts'[i])
          PROVE  /\ natives'[alerts'[i].handle].alive
                 /\ alerts'[i].hashes \subseteq natives'[alerts'[i].handle].hashes
                 /\ alerts'[i].handle \notin DOMAIN torrents
                 /\ \A t \in DOMAIN torrents : torrents[t].handle # alerts'[i].handle
      BY <1>1, <1>2, <2>1, QuietUserAlert DEF RegistryInv, AdditionsOwn
    <2>2. ASSUME NEW i \in DOMAIN alerts', UserAlert(alerts'[i]),
                 NEW j \in DOMAIN alerts', UserAlert(alerts'[j]), i # j
          PROVE  alerts'[i].handle # alerts'[j].handle
      <3>1. i + d # j + d
        BY <2>2, LenProperties DEF QuietStep, AlertsStep
      <3> QED
        BY <2>2, <3>1, QuietUserAlert DEF RegistryInv, AdditionsOwn
    <2> QED
      BY <1>2, <2>1, <2>2 DEF AdditionsOwn
  <1>6. HiddenApart'
    BY QuietRoles, QuietNew DEF RegistryInv, HiddenApart
  <1>7. JobsAreFull'
    BY <1>1, <1>2 DEF RegistryInv, JobsAreFull
  <1>8. IndexesAgree'
    BY <1>2 DEF QuietStep, RegistryInv, MapsTyped, IndexesAgree
  <1> QED
    BY <1>3, <1>4, <1>5, <1>6, <1>7, <1>8

LEMMA QuietMetadata ==
    ASSUME RegistryInv, NEW d, NEW x, QuietStep(d, x)
    PROVE  MetadataIsFull'
  <1>1. /\ DOMAIN torrents' = DOMAIN torrents
        /\ \A h \in DOMAIN natives : natives'[h].hashes = natives[h].hashes
        /\ \A t \in DOMAIN torrents :
              /\ torrents'[t].hashes = torrents[t].hashes
              /\ torrents'[t].handle = torrents[t].handle
              /\ torrents[t].handle \in DOMAIN natives
    BY DEF QuietStep, TorrentsQuiet, NativesQuiet, RegistryInv, TorrentsTyped
  <1>2. /\ \A i, j \in DOMAIN alerts' : (i < j <=> i + d < j + d)
        /\ \A i \in DOMAIN alerts' : i + d \in DOMAIN alerts => i + d < Len(alerts) + 1
        /\ Len(alerts) \in Nat /\ \A i \in DOMAIN alerts' : i + d \in Int
    BY LenProperties DEF QuietStep, AlertsStep, RegistryInv, AlertsTyped
  <1> SUFFICES ASSUME NEW i \in DOMAIN alerts', alerts'[i].type = "metadata"
               PROVE  LET hashes == natives'[alerts'[i].handle].hashes IN
                      /\ Full(hashes)
                      /\ \A t \in DOMAIN torrents' :
                           ContentOf(torrents'[t].hashes) = ContentOf(hashes)
                             => Full(natives'[torrents'[t].handle].hashes)
                      /\ \A j \in DOMAIN alerts' : UserAlert(alerts'[j]) =>
                           /\ alerts'[j].handle = alerts'[i].handle => j < i
                           /\ j < i /\ ContentOf(natives'[alerts'[j].handle].hashes) = ContentOf(hashes)
                                => Full(natives'[alerts'[j].handle].hashes)
    BY DEF MetadataIsFull, UserAlert, Full
  <1>3. i + d \in DOMAIN alerts /\ alerts'[i] = alerts[i + d]
    BY DEF QuietStep, AlertsStep, AlertQuiet
  <1>4. alerts[i + d].handle \in DOMAIN natives
    BY <1>3 DEF RegistryInv, AlertsTyped, AlertFits
  <1>5. ASSUME NEW j \in DOMAIN alerts', UserAlert(alerts'[j])
        PROVE  \/ /\ j + d \in DOMAIN alerts /\ alerts'[j] = alerts[j + d] /\ UserAlert(alerts[j + d])
                  /\ alerts[j + d].handle \in DOMAIN natives
               \/ ~(j < i) /\ alerts'[j].handle \notin DOMAIN natives
    BY <1>2, <1>3, <1>5, QuietUserAlert
  <1> DEFINE hashes == natives[alerts[i + d].handle].hashes
  <1>6. /\ Full(hashes)
        /\ \A t \in DOMAIN torrents :
             ContentOf(torrents[t].hashes) = ContentOf(hashes) => Full(natives[torrents[t].handle].hashes)
        /\ \A j \in DOMAIN alerts : UserAlert(alerts[j]) =>
             /\ alerts[j].handle = alerts[i + d].handle => j < i + d
             /\ j < i + d /\ ContentOf(natives[alerts[j].handle].hashes) = ContentOf(hashes)
                  => Full(natives[alerts[j].handle].hashes)
    BY <1>3 DEF RegistryInv, MetadataIsFull
  <1> QED
    BY <1>1, <1>2, <1>3, <1>4, <1>5, <1>6

LEMMA Quiet ==
    ASSUME RegistryInv, NEW d, NEW x, QuietStep(d, x), PendingTyped'
    PROVE  RegistryInv'
  BY QuietTypes, QuietOwn, QuietMetadata DEF RegistryInv

-----------------------------------------------------------------------------
(* What the operators of the model return.                                 *)

\* The calls queued, when one comes or goes.
LEMMA Calls ==
    ASSUME NEW call
    PROVE  /\ DOMAIN (pending (+) One(call)) = DOMAIN pending \cup {call}
           /\ DOMAIN (pending (-) One(call)) \subseteq DOMAIN pending
           /\ DOMAIN (pending (+) EmptyBag) = DOMAIN pending
           /\ BagIn(call, pending) => call \in DOMAIN pending
           /\ BagToSet(pending) = DOMAIN pending
           /\ \A calls : DOMAIN Without(calls) = DOMAIN pending \ calls
  <1>1. DOMAIN One(call) = {call} /\ DOMAIN EmptyBag = {}
    BY DEF One, SetToBag, EmptyBag
  <1>2. DOMAIN (pending (+) One(call)) = DOMAIN pending \cup {call}
    BY <1>1 DEF (+)
  <1>3. DOMAIN (pending (+) EmptyBag) = DOMAIN pending
    BY <1>1 DEF (+)
  <1>4. DOMAIN (pending (-) One(call)) \subseteq DOMAIN pending
    BY DEF (-)
  <1>5. BagToSet(pending) = DOMAIN pending /\ (BagIn(call, pending) => call \in DOMAIN pending)
    BY DEF BagIn, BagToSet
  <1>6. \A calls : DOMAIN Without(calls) = DOMAIN pending \ calls
    BY DEF Without
  <1> QED
    BY <1>2, <1>3, <1>4, <1>5, <1>6

\* The parts of native torrents.
LEMMA NativeParts ==
    ASSUME NEW nat \in Seq(NativeType)
    PROVE  /\ Len(nat) \in Nat /\ DOMAIN nat = 1..Len(nat)
           /\ \A h \in DOMAIN nat : /\ nat[h] \in NativeType /\ nat[h].hashes \in InfoHash
                                    /\ nat[h].alive \in BOOLEAN /\ nat[h].meta \in BOOLEAN
                                    /\ h \in Nat /\ h > 0 /\ h # None /\ h # Requested
  <1>1. Len(nat) \in Nat /\ DOMAIN nat = 1..Len(nat) /\ \A k \in DOMAIN nat : nat[k] \in NativeType
    BY LenProperties, ElementOfSeq
  <1> QED
    BY <1>1 DEF NativeType, None, Requested

\* A native torrent that has gone.
LEMMA RemovedNative ==
    ASSUME NEW nat \in Seq(NativeType), NEW h \in DOMAIN nat
    PROVE  /\ Removed(nat, h) \in Seq(NativeType) /\ DOMAIN Removed(nat, h) = DOMAIN nat
           /\ Len(Removed(nat, h)) = Len(nat)
           /\ \A k \in DOMAIN nat :
                /\ Removed(nat, h)[k].hashes = nat[k].hashes
                /\ Removed(nat, h)[k].meta = nat[k].meta
                /\ Removed(nat, h)[k].alive <=> nat[k].alive /\ k # h
  <1> DEFINE x == [nat[h] EXCEPT !.alive = FALSE]
             r == [nat EXCEPT ![h] = x]
  <1>1. Len(nat) \in Nat /\ DOMAIN nat = 1..Len(nat) /\ \A k \in DOMAIN nat : nat[k] \in NativeType
    BY LenProperties, ElementOfSeq
  <1>2. x \in NativeType /\ x.hashes = nat[h].hashes /\ x.meta = nat[h].meta /\ x.alive = FALSE
    BY <1>1 DEF NativeType
  <1>3. Removed(nat, h) = r
    BY DEF Removed
  <1>4. \A k \in DOMAIN nat : nat[k].alive \in BOOLEAN
    BY <1>1 DEF NativeType
  <1> HIDE DEF x
  <1>5. r \in Seq(NativeType) /\ Len(r) = Len(nat)
    BY <1>1, <1>2, ExceptSeq
  <1>6. DOMAIN r = DOMAIN nat /\ r[h] = x /\ \A k \in DOMAIN nat : k # h => r[k] = nat[k]
    OBVIOUS
  <1> HIDE DEF r
  <1>7. \A k \in DOMAIN nat : /\ r[k].hashes = nat[k].hashes
                              /\ r[k].meta = nat[k].meta
                              /\ r[k].alive <=> nat[k].alive /\ k # h
    BY <1>2, <1>4, <1>6
  <1> QED
    BY <1>3, <1>5, <1>6, <1>7

\* A native torrent that has come.
LEMMA AppendedNative ==
    ASSUME NEW nat \in Seq(NativeType), NEW known \in InfoHash, NEW m \in BOOLEAN,
           NEW r, r = Append(nat, NewNative(known, m)), NEW h, h = Len(nat) + 1
    PROVE  /\ r \in Seq(NativeType) /\ Len(nat) \in Nat
           /\ DOMAIN nat = 1..Len(nat) /\ DOMAIN r = DOMAIN nat \cup {h}
           /\ h \notin DOMAIN nat /\ h \in Nat /\ h # None
           /\ \A k \in DOMAIN nat : r[k] = nat[k]
           /\ r[h] = NewNative(known, m)
  <1> DEFINE x == NewNative(known, m)
  <1>1. x \in NativeType /\ x.hashes = known /\ x.alive = TRUE
    BY DEF NewNative, NativeType
  <1>2. r = Append(nat, x)
    OBVIOUS
  <1> HIDE DEF x
  <1>3. /\ r \in Seq(NativeType) /\ Len(nat) \in Nat
        /\ DOMAIN nat = 1..Len(nat) /\ DOMAIN r = 1 .. Len(nat) + 1
        /\ \A k \in DOMAIN nat : r[k] = nat[k]
        /\ r[Len(nat) + 1] = x
    BY <1>1, <1>2, AppendElements
  <1>4. DOMAIN r = DOMAIN nat \cup {h} /\ h \notin DOMAIN nat /\ h \in Nat /\ h # None
    BY <1>3 DEF None
  <1>5. r[h] = x
    BY <1>3
  <1> QED
    BY <1>1, <1>3, <1>4, <1>5 DEF x

\* The native torrent that has one of the hashes, if there is one.
LEMMA OwnerFound ==
    ASSUME NEW nat \in Seq(NativeType), NEW hashes
    PROVE  /\ Owner(nat, hashes) = None =>
                \A h \in DOMAIN nat : nat[h].alive => nat[h].hashes \cap hashes = {}
           /\ Owner(nat, hashes) # None =>
                /\ Owner(nat, hashes) \in DOMAIN nat /\ nat[Owner(nat, hashes)].alive
                /\ nat[Owner(nat, hashes)].hashes \cap hashes # {}
  <1> DEFINE owners == {h \in DOMAIN nat : nat[h].alive /\ nat[h].hashes \cap hashes # {}}
  <1>1. Owner(nat, hashes) = IF owners = {} THEN None ELSE CHOOSE h \in owners : TRUE
    BY DEF Owner
  <1>2. \A h \in DOMAIN nat : h # None
    BY LenProperties DEF None
  <1>3. CASE owners = {}
    BY <1>1, <1>3
  <1>4. CASE owners # {}
    <2>1. Owner(nat, hashes) \in owners
      BY <1>1, <1>4
    <2> QED
      BY <1>2, <2>1
  <1> QED
    BY <1>3, <1>4

\* An alert that answers an addition.
LEMMA AddedType ==
    ASSUME NEW h \in Nat, NEW hashes \in InfoHash, NEW who \in Who
    PROVE  /\ Added(h, hashes, who) \in AlertType
           /\ Added(h, hashes, who).type = "add" /\ Added(h, hashes, who).answers = who
           /\ Added(h, hashes, who).handle = h /\ Added(h, hashes, who).hashes = hashes
  <1>1. Added(h, hashes, who) =
          [type |-> "add", handle |-> h, hashes |-> hashes, meta |-> FALSE, answers |-> who]
    <2>1. Added(h, hashes, who) = [Alert("add", h, hashes) EXCEPT !.answers = who]
      BY DEF Added
    <2> QED
      BY <2>1 DEF Alert
  <1> QED
    BY <1>1 DEF AlertType

\* A hidden download that is given up: its native torrent goes, no other.
LEMMA Cancelled ==
    ASSUME NEW nat \in Seq(NativeType), NEW dow \in [ID -> Int], NEW id \in ID,
           dow[id] \in {None, Requested} \cup DOMAIN nat
    PROVE  LET r == Cancel(id, [downloaded |-> dow, natives |-> nat]) IN
           /\ r.natives \in Seq(NativeType) /\ DOMAIN r.natives = DOMAIN nat
           /\ \A h \in DOMAIN nat : /\ r.natives[h].hashes = nat[h].hashes
                                    /\ r.natives[h].alive => nat[h].alive
                                    /\ h # dow[id] => r.natives[h].alive = nat[h].alive
           /\ r.downloaded \in [ID -> Int]
           /\ \A i \in ID : r.downloaded[i] \in {dow[i], None}
           /\ r = [downloaded |-> r.downloaded, natives |-> r.natives]
  <1> DEFINE hid == [downloaded |-> dow, natives |-> nat]
             h == dow[id]
             ids == IF h > 0 /\ IsHybrid(nat[h].hashes) THEN {id, V1(nat[h].hashes)} ELSE {id}
             d == [i \in ID |-> IF h # None /\ i \in ids THEN None ELSE dow[i]]
             n == IF h > 0 THEN Removed(nat, h) ELSE nat
             r == Cancel(id, hid)
  <1>1. hid.downloaded = dow /\ hid.natives = nat
    OBVIOUS
  <1>2. r = [downloaded |-> d, natives |-> n]
    BY <1>1 DEF Cancel
  <1>3. r.downloaded = d /\ r.natives = n
    BY <1>2
  <1>4. d \in [ID -> Int] /\ \A i \in ID : d[i] \in {dow[i], None}
    BY DEF None
  <1>5. /\ n \in Seq(NativeType) /\ DOMAIN n = DOMAIN nat
        /\ \A k \in DOMAIN nat : /\ n[k].hashes = nat[k].hashes
                                 /\ n[k].alive => nat[k].alive
                                 /\ k # h => n[k].alive = nat[k].alive
    <2>1. \A k \in DOMAIN nat : nat[k].alive \in BOOLEAN
      BY NativeParts
    <2>2. CASE h > 0
      <3>1. h \in DOMAIN nat
        BY <2>2 DEF None, Requested
      <3>2. n = Removed(nat, h)
        BY <2>2
      <3>3. /\ Removed(nat, h) \in Seq(NativeType) /\ DOMAIN Removed(nat, h) = DOMAIN nat
            /\ \A k \in DOMAIN nat :
                 /\ Removed(nat, h)[k].hashes = nat[k].hashes
                 /\ Removed(nat, h)[k].alive <=> nat[k].alive /\ k # h
        BY <3>1, RemovedNative
      <3>4. \A k \in DOMAIN Removed(nat, h) : Removed(nat, h)[k].alive \in BOOLEAN
        BY <3>3, NativeParts
      <3> HIDE DEF n, h
      <3> QED
        BY <2>1, <3>2, <3>3, <3>4
    <2>3. CASE ~(h > 0)
      BY <2>3
    <2> QED
      BY <2>2, <2>3
  <1> HIDE DEF d, n
  <1> QED
    BY <1>2, <1>3, <1>4, <1>5 DEF hid

-----------------------------------------------------------------------------
(* The quiet actions.                                                      *)

\* For the steps that post no alert.
NoAlert == Alert("add", None, {})

LEMMA NothingChanged ==
    ASSUME RegistryInv
    PROVE  /\ AlertQuiet(NoAlert)
           /\ natives' = natives => NativesQuiet
           /\ torrents' = torrents => TorrentsQuiet
           /\ downloaded' = downloaded => DownloadsQuiet
  <1>1. NoAlert = [type |-> "add", handle |-> None, hashes |-> {}, meta |-> FALSE, answers |-> "none"]
    BY DEF NoAlert, Alert
  <1>2. AlertQuiet(NoAlert)
    BY <1>1 DEF AlertQuiet, AlertFits, UserAlert, HiddenAlert
  <1>3. natives' = natives => NativesQuiet
    BY DEF RegistryInv, NativesTyped, NativesQuiet
  <1>4. torrents' = torrents => TorrentsQuiet
    BY DEF RegistryInv, TorrentsTyped, TorrentsQuiet
  <1>5. downloaded' = downloaded => DownloadsQuiet
    BY DEF RegistryInv, MapsTyped, DownloadsQuiet
  <1> QED
    BY <1>2, <1>3, <1>4, <1>5

\* The calls queued stay those of torrents and natives.
LEMMA PendingKept ==
    ASSUME RegistryInv, DOMAIN natives \subseteq DOMAIN natives',
           DOMAIN torrents \subseteq DOMAIN torrents'
    PROVE  /\ DOMAIN pending' \subseteq DOMAIN pending => PendingTyped'
           /\ \A call : DOMAIN pending' \subseteq DOMAIN pending \cup {call}
                        /\ CallFits(call, natives', torrents') => PendingTyped'
  BY DEF RegistryInv, PendingTyped, CallFits

LEMMA CallsFit ==
    /\ \A hashes \in InfoHash, m \in BOOLEAN : CallFits(AddCall(hashes, m), natives', torrents')
    /\ \A h \in DOMAIN natives' : CallFits(SetMetadataCall(h), natives', torrents')
    /\ \A t \in DOMAIN torrents' : /\ CallFits(RequestCall(t), natives', torrents')
                                   /\ CallFits(SearchCall(t), natives', torrents')
  BY DEF CallFits, AddCall, SetMetadataCall, RequestCall, SearchCall, Call

\* The torrents of the session have IDs and native torrents.
LEMMA TorrentParts ==
    ASSUME RegistryInv
    PROVE  /\ \A t \in DOMAIN torrents :
                /\ torrents[t] \in TorrentType /\ torrents[t].hashes \in InfoHash
                /\ torrents[t].handle \in DOMAIN natives
                /\ natives[torrents[t].handle].hashes \in InfoHash
                /\ t \in DOMAIN natives /\ t # None
           /\ \A id \in ID : registry[id] # None => registry[id] \in DOMAIN torrents
           /\ natives \in Seq(NativeType)
           /\ \A id \in ID : downloaded[id] \in {None, Requested} \cup DOMAIN natives
           /\ downloaded \in [ID -> Int]
  <1>1. natives \in Seq(NativeType)
    BY DEF RegistryInv, NativesTyped
  <1>2. ASSUME NEW t \in DOMAIN torrents
        PROVE  /\ torrents[t] \in TorrentType /\ torrents[t].hashes \in InfoHash
               /\ torrents[t].handle \in DOMAIN natives
               /\ t \in DOMAIN natives
    BY DEF RegistryInv, TorrentsTyped, TorrentType
  <1>3. \A id \in ID : registry[id] # None => registry[id] \in DOMAIN torrents
    BY DEF RegistryInv, IndexesAgree
  <1> QED
    BY <1>1, <1>2, <1>3, NativeParts DEF RegistryInv, MapsTyped

\* A torrent found by hashes is one of the session.
LEMMA TorrentFound ==
    ASSUME RegistryInv, NEW hashes \in InfoHash
    PROVE  /\ FindTorrent(hashes) # None => FindTorrent(hashes) \in DOMAIN torrents
           /\ ToTorrentID(hashes) \in ID /\ V1(hashes) \in ID
  BY HashesNamed DEF FindTorrent, RegistryInv, IndexesAgree

\* addTorrent of a torrent the session has.
LEMMA DuplicateKeeps ==
    ASSUME RegistryInv, NEW hashes \in InfoHash, NEW meta, AddDuplicate(hashes, meta)
    PROVE  RegistryInv'
  <1> DEFINE t == FindTorrent(hashes)
             call == SetMetadataCall(torrents[t].handle)
  <1>1. /\ t # None /\ pending' = pending (+) One(call)
        /\ UNCHANGED <<natives, alerts, addHandlers, torrents, registry, altIndex, downloaded>>
    BY DEF AddDuplicate, session
  <1>2. t \in DOMAIN torrents
    BY <1>1, TorrentFound
  <1>3. CallFits(call, natives', torrents')
    BY <1>1, <1>2, TorrentParts, CallsFit
  <1>4. DOMAIN pending' \subseteq DOMAIN pending \cup {call}
    BY <1>1, Calls
  <1> HIDE DEF t, call
  <1>5. PendingTyped'
    BY <1>1, <1>3, <1>4, PendingKept
  <1>6. QuietStep(0, NoAlert)
    BY <1>1, NothingChanged, AlertsKept DEF QuietStep, RegistryInv, AlertsTyped
  <1> QED
    BY <1>5, <1>6, Quiet

\* Hidden native torrents are not the user's: they may go.
LEMMA HiddenGo ==
    ASSUME RegistryInv,
           natives' \in Seq(NativeType), DOMAIN natives' = DOMAIN natives,
           \A h \in DOMAIN natives :
              /\ natives'[h].hashes = natives[h].hashes
              /\ natives'[h].alive => natives[h].alive
              /\ ~IsHidden(h) => natives'[h].alive = natives[h].alive
    PROVE  NativesQuiet
  BY DEF NativesQuiet, RegistryInv, HiddenApart

\* One hidden download is given up, or two are.
LEMMA CancelledOne ==
    ASSUME RegistryInv, NEW id \in ID
    PROVE  LET r == Cancel(id, Hidden) IN
           /\ r.natives \in Seq(NativeType) /\ DOMAIN r.natives = DOMAIN natives
           /\ \A h \in DOMAIN natives :
                 /\ r.natives[h].hashes = natives[h].hashes
                 /\ r.natives[h].alive => natives[h].alive
                 /\ ~IsHidden(h) => r.natives[h].alive = natives[h].alive
           /\ r.downloaded \in [ID -> Int]
           /\ \A i \in ID : r.downloaded[i] \in {downloaded[i], None}
           /\ r = [downloaded |-> r.downloaded, natives |-> r.natives]
  <1>1. /\ natives \in Seq(NativeType) /\ downloaded \in [ID -> Int]
        /\ downloaded[id] \in {None, Requested} \cup DOMAIN natives
    BY TorrentParts
  <1> DEFINE r == Cancel(id, [downloaded |-> downloaded, natives |-> natives])
  <1>2. /\ r.natives \in Seq(NativeType) /\ DOMAIN r.natives = DOMAIN natives
        /\ \A h \in DOMAIN natives : /\ r.natives[h].hashes = natives[h].hashes
                                     /\ r.natives[h].alive => natives[h].alive
                                     /\ h # downloaded[id] => r.natives[h].alive = natives[h].alive
        /\ r.downloaded \in [ID -> Int]
        /\ \A i \in ID : r.downloaded[i] \in {downloaded[i], None}
        /\ r = [downloaded |-> r.downloaded, natives |-> r.natives]
    BY <1>1, Cancelled
  <1>3. r = Cancel(id, Hidden)
    BY DEF Hidden
  <1> HIDE DEF r
  <1>4. \A h \in DOMAIN natives : ~IsHidden(h) => h # downloaded[id]
    BY DEF IsHidden
  <1> QED
    BY <1>2, <1>3, <1>4

LEMMA CancelledTwo ==
    ASSUME RegistryInv, NEW id \in ID, NEW other \in ID
    PROVE  LET r == Cancel(other, Cancel(id, Hidden)) IN
           /\ r.natives \in Seq(NativeType) /\ DOMAIN r.natives = DOMAIN natives
           /\ \A h \in DOMAIN natives :
                 /\ r.natives[h].hashes = natives[h].hashes
                 /\ r.natives[h].alive => natives[h].alive
                 /\ ~IsHidden(h) => r.natives[h].alive = natives[h].alive
           /\ r.downloaded \in [ID -> Int]
           /\ \A i \in ID : r.downloaded[i] \in {downloaded[i], None}
  <1> DEFINE s == Cancel(id, Hidden)
             nat == s.natives
             dow == s.downloaded
             r == Cancel(other, [downloaded |-> dow, natives |-> nat])
  <1>1. /\ nat \in Seq(NativeType) /\ DOMAIN nat = DOMAIN natives
        /\ \A h \in DOMAIN natives : /\ nat[h].hashes = natives[h].hashes
                                     /\ nat[h].alive => natives[h].alive
                                     /\ ~IsHidden(h) => nat[h].alive = natives[h].alive
        /\ dow \in [ID -> Int]
        /\ \A i \in ID : dow[i] \in {downloaded[i], None}
        /\ s = [downloaded |-> dow, natives |-> nat]
    BY CancelledOne
  <1>2. \A i \in ID : downloaded[i] \in {None, Requested} \cup DOMAIN natives
    BY TorrentParts
  <1>3. r = Cancel(other, Cancel(id, Hidden))
    BY <1>1
  <1> HIDE DEF s, nat, dow
  <1>4. dow[other] \in {None, Requested} \cup DOMAIN nat
    BY <1>1, <1>2
  <1>9. nat \in Seq(NativeType) /\ dow \in [ID -> Int]
    BY <1>1
  <1>5. /\ r.natives \in Seq(NativeType) /\ DOMAIN r.natives = DOMAIN nat
        /\ \A h \in DOMAIN nat : /\ r.natives[h].hashes = nat[h].hashes
                                 /\ r.natives[h].alive => nat[h].alive
                                 /\ h # dow[other] => r.natives[h].alive = nat[h].alive
        /\ r.downloaded \in [ID -> Int]
        /\ \A i \in ID : r.downloaded[i] \in {dow[i], None}
        /\ r = [downloaded |-> r.downloaded, natives |-> r.natives]
    BY <1>4, <1>9, Cancelled
  <1> HIDE DEF r
  <1>6. \A h \in DOMAIN natives : h # None /\ (~IsHidden(h) => h # downloaded[other])
    BY TorrentParts, NativeParts DEF IsHidden
  <1>7. \A h \in DOMAIN natives : ~IsHidden(h) => h # dow[other]
    BY <1>1, <1>6
  <1>8. \A i \in ID : r.downloaded[i] \in {downloaded[i], None}
    BY <1>1, <1>5
  <1> QED
    BY <1>1, <1>3, <1>5, <1>7, <1>8

\* addTorrent of another torrent.
LEMMA AddKeeps ==
    ASSUME RegistryInv, NEW hashes \in InfoHash, NEW meta \in BOOLEAN, AddTorrent(hashes, meta)
    PROVE  RegistryInv'
  <1> DEFINE id == ToTorrentID(hashes)
             one == Cancel(id, Hidden)
             two == Cancel(V1(hashes), Cancel(id, Hidden))
             call == AddCall(hashes, meta)
  <1>1. /\ \/ downloaded' = one.downloaded /\ natives' = one.natives
           \/ downloaded' = two.downloaded /\ natives' = two.natives
        /\ pending' = pending (+) One(call)
        /\ UNCHANGED <<alerts, addHandlers, torrents, registry, altIndex>>
    BY DEF AddTorrent, session
  <1>2. id \in ID /\ V1(hashes) \in ID
    BY HashesNamed
  <1>3. /\ natives' \in Seq(NativeType) /\ DOMAIN natives' = DOMAIN natives
        /\ \A h \in DOMAIN natives :
              /\ natives'[h].hashes = natives[h].hashes
              /\ natives'[h].alive => natives[h].alive
              /\ ~IsHidden(h) => natives'[h].alive = natives[h].alive
        /\ downloaded' \in [ID -> Int]
        /\ \A i \in ID : downloaded'[i] \in {downloaded[i], None}
    <2>1. CASE downloaded' = one.downloaded /\ natives' = one.natives
      BY <1>2, <2>1, CancelledOne
    <2>2. CASE downloaded' = two.downloaded /\ natives' = two.natives
      <3> HIDE DEF id
      <3> QED
        BY <1>2, <2>2, CancelledTwo
    <2> QED
      BY <1>1, <2>1, <2>2
  <1>4. NativesQuiet
    BY <1>3, HiddenGo
  <1>5. DownloadsQuiet
    BY <1>3 DEF DownloadsQuiet
  <1>6. CallFits(call, natives', torrents') /\ DOMAIN pending' \subseteq DOMAIN pending \cup {call}
    BY <1>1, Calls, CallsFit
  <1> HIDE DEF call
  <1>7. PendingTyped'
    BY <1>1, <1>3, <1>6, PendingKept
  <1>8. QuietStep(0, NoAlert)
    BY <1>1, <1>4, <1>5, NothingChanged, AlertsKept DEF QuietStep, RegistryInv, AlertsTyped
  <1> QED
    BY <1>7, <1>8, Quiet

\* cancelDownloadMetadata
LEMMA CancelKeeps ==
    ASSUME RegistryInv, NEW id \in ID, CancelDownloadMetadata(id)
    PROVE  RegistryInv'
  <1>1. /\ downloaded' = Cancel(id, Hidden).downloaded /\ natives' = Cancel(id, Hidden).natives
        /\ UNCHANGED <<alerts, addHandlers, torrents, registry, altIndex, pending>>
    BY DEF CancelDownloadMetadata, session
  <1>2. /\ natives' \in Seq(NativeType) /\ DOMAIN natives' = DOMAIN natives
        /\ \A h \in DOMAIN natives :
              /\ natives'[h].hashes = natives[h].hashes
              /\ natives'[h].alive => natives[h].alive
              /\ ~IsHidden(h) => natives'[h].alive = natives[h].alive
        /\ downloaded' \in [ID -> Int]
        /\ \A i \in ID : downloaded'[i] \in {downloaded[i], None}
    BY <1>1, CancelledOne
  <1>3. NativesQuiet /\ DownloadsQuiet
    BY <1>2, HiddenGo DEF DownloadsQuiet
  <1>4. PendingTyped'
    BY <1>1, <1>2, PendingKept
  <1>5. QuietStep(0, NoAlert)
    BY <1>1, <1>3, NothingChanged, AlertsKept DEF QuietStep, RegistryInv, AlertsTyped
  <1> QED
    BY <1>4, <1>5, Quiet

\* The parts of alerts.
LEMMA AlertParts ==
    ASSUME RegistryInv
    PROVE  /\ alerts \in Seq(AlertType)
           /\ Len(alerts) \in Nat /\ DOMAIN alerts = 1..Len(alerts)
           /\ \A i \in DOMAIN alerts :
                /\ alerts[i] \in AlertType /\ alerts[i].hashes \in InfoHash
                /\ AlertFits(alerts[i], natives)
                /\ UserAlert(alerts[i]) \/ alerts[i].type = "metadata" =>
                     /\ alerts[i].handle \in DOMAIN natives
                     /\ natives[alerts[i].handle].hashes \in InfoHash
  <1>1. alerts \in Seq(AlertType) /\ \A i \in DOMAIN alerts : AlertFits(alerts[i], natives)
    BY DEF RegistryInv, AlertsTyped
  <1>2. Len(alerts) \in Nat /\ DOMAIN alerts = 1..Len(alerts)
        /\ \A i \in DOMAIN alerts : alerts[i] \in AlertType
    BY <1>1, LenProperties, ElementOfSeq
  <1>3. \A i \in DOMAIN alerts : alerts[i].hashes \in InfoHash
    BY <1>2 DEF AlertType
  <1>4. \A h \in DOMAIN natives : natives[h].hashes \in InfoHash
    BY TorrentParts, NativeParts
  <1> QED
    BY <1>1, <1>2, <1>3, <1>4 DEF AlertFits, UserAlert

\* Nobody has what is not there.
LEMMA NobodysHandle ==
    ASSUME RegistryInv, NEW h, h \notin DOMAIN natives, h # None
    PROVE  ~IsUsers(h)
  <1>1. \A t \in DOMAIN torrents : torrents[t].handle # h
    BY TorrentParts
  <1>2. \A i \in DOMAIN alerts : AlertFits(alerts[i], natives)
    BY DEF RegistryInv, AlertsTyped
  <1>3. \A i \in DOMAIN alerts : alerts[i].handle # h
    BY <1>2 DEF AlertFits
  <1> QED
    BY <1>1, <1>3 DEF IsUsers

\* An addition, or a hidden one, reaches libtorrent: a new native torrent.
LEMMA PostedNew ==
    ASSUME RegistryInv, NEW hashes \in InfoHash, NEW m \in BOOLEAN, NEW who \in {"user", "hidden"},
           Owner(natives, hashes) = None,
           natives' = Append(natives, NewNative(hashes, m)),
           alerts' = Append(alerts, Added(Len(natives) + 1, hashes, who)),
           UNCHANGED <<torrents, registry, altIndex>>, DownloadsQuiet, PendingTyped'
    PROVE  RegistryInv'
  <1> DEFINE h == Len(natives) + 1
             x == Added(h, hashes, who)
             r == natives'
  <1>1. natives \in Seq(NativeType) /\ alerts \in Seq(AlertType)
    BY DEF RegistryInv, NativesTyped, AlertsTyped
  <1>2. h = Len(natives) + 1 /\ r = Append(natives, NewNative(hashes, m))
    OBVIOUS
  <1> HIDE DEF h, r
  <1>3. /\ r \in Seq(NativeType) /\ Len(natives) \in Nat
        /\ DOMAIN natives = 1..Len(natives) /\ DOMAIN r = DOMAIN natives \cup {h}
        /\ h \notin DOMAIN natives /\ h \in Nat /\ h # None
        /\ \A k \in DOMAIN natives : r[k] = natives[k]
        /\ r[h] = NewNative(hashes, m)
    <2>1. r \in Seq(NativeType)
      BY <1>1, <1>2, AppendedNative
    <2>4. Len(natives) \in Nat /\ DOMAIN natives = 1..Len(natives)
      BY <1>1, LenProperties
    <2>2. DOMAIN r = DOMAIN natives \cup {h}
      BY <1>1, <1>2, AppendedNative
    <2>5. h \notin DOMAIN natives /\ h \in Nat /\ h # None
      BY <1>2, <2>4 DEF None
    <2>3. r[h] = NewNative(hashes, m) /\ \A k \in DOMAIN natives : r[k] = natives[k]
      BY <1>1, <1>2, AppendedNative
    <2> QED
      BY <2>1, <2>2, <2>3, <2>4, <2>5
  <1>11. r[h].hashes = hashes /\ r[h].alive = TRUE
    BY <1>3 DEF NewNative
  <1>4. x \in AlertType /\ x.type = "add" /\ x.answers = who /\ x.handle = h /\ x.hashes = hashes
    <2>1. x \in AlertType /\ x.type = "add" /\ x.answers = who /\ x.handle = h
      BY <1>3, AddedType DEF Who
    <2>2. x.hashes = hashes
      BY DEF Added, Alert
    <2> QED
      BY <2>1, <2>2
  <1> HIDE DEF x
  <1>5. alerts' = Append(alerts, x)
    BY DEF x, h
  <1>6. NativesQuiet
    <2>1. \A k \in DOMAIN natives : natives[k].alive => natives[k].hashes \cap hashes = {}
      BY <1>1, OwnerFound
    <2>2. \A k \in DOMAIN natives : natives[k].alive \in BOOLEAN
      BY <1>1, NativeParts
    <2> QED
      BY <1>3, <1>11, <2>1, <2>2 DEF NativesQuiet, r
  <1>7. ~IsUsers(h)
    BY <1>3, NobodysHandle
  <1>8. AlertQuiet(x)
    BY <1>3, <1>4, <1>7, <1>11 DEF r, AlertQuiet, AlertFits, UserAlert, HiddenAlert
  <1>9. AlertsStep(0, x)
    BY <1>1, <1>4, <1>5, AlertsPosted
  <1>10. QuietStep(0, x)
    BY <1>6, <1>8, <1>9, NothingChanged DEF QuietStep
  <1> QED
    BY <1>10, Quiet

\* The calls that the model queues.
LEMMA PostAdditionKeeps ==
    ASSUME RegistryInv, NEW call, PostAddition(call)
    PROVE  RegistryInv'
  <1> DEFINE hashes == call.hashes
  <1>1. /\ call.call = "add" /\ BagIn(call, pending) /\ pending' = pending (-) One(call)
        /\ UNCHANGED <<torrents, registry, altIndex, downloaded>>
    BY DEF PostAddition
  <1>2. hashes \in InfoHash /\ call.meta \in BOOLEAN
    BY <1>1, Calls DEF RegistryInv, PendingTyped, CallFits
  <1>3. DownloadsQuiet
    BY <1>1, NothingChanged
  <1>4. DOMAIN pending' \subseteq DOMAIN pending
    BY <1>1, Calls
  <1>5. CASE Owner(natives, hashes) = None
    <2>1. /\ natives' = Append(natives, NewNative(hashes, call.meta))
          /\ alerts' = Append(alerts, Added(Len(natives) + 1, hashes, "user"))
      BY <1>5 DEF PostAddition
    <2>2. natives \in Seq(NativeType)
      BY TorrentParts
    <2>3. DOMAIN natives \subseteq DOMAIN natives'
      BY <1>2, <2>1, <2>2, AppendedNative
    <2>4. PendingTyped'
      BY <1>1, <1>4, <2>3, PendingKept
    <2> QED
      BY <1>1, <1>2, <1>3, <1>5, <2>1, <2>4, PostedNew
  <1>6. CASE Owner(natives, hashes) # None
    <2> DEFINE x == Added(None, hashes, "user")
    <2>1. alerts' = Append(alerts, x) /\ natives' = natives
      BY <1>6 DEF PostAddition
    <2>2. /\ x \in AlertType /\ x.type = "add" /\ x.answers = "user" /\ x.handle = None
      BY <1>2, AddedType DEF None, Who
    <2> HIDE DEF x
    <2>3. AlertQuiet(x)
      BY <2>2 DEF AlertQuiet, AlertFits, UserAlert, HiddenAlert
    <2>4. AlertsStep(0, x)
      BY <2>1, <2>2, AlertsPosted DEF RegistryInv, AlertsTyped
    <2>5. PendingTyped'
      BY <1>1, <1>4, <2>1, PendingKept
    <2>6. QuietStep(0, x)
      BY <1>1, <1>3, <2>1, <2>3, <2>4, NothingChanged DEF QuietStep
    <2> QED
      BY <2>5, <2>6, Quiet
  <1> QED
    BY <1>5, <1>6

\* A hidden download gets the native torrent of a hash only if that is nobody's.
LEMMA NobodysOwner ==
    ASSUME RegistryInv, "share" \notin Races, NEW hashes \in InfoHash, DownloadMetadata(hashes),
           NEW h \in DOMAIN natives, h = Owner(natives, hashes),
           natives[h].hashes \cap hashes # {}
    PROVE  ~IsUsers(h)
  <1>1. ~BeingAdded(ContentOf(hashes)) /\ h \notin {torrents[t].handle : t \in DOMAIN torrents}
    BY DEF DownloadMetadata
  <1>2. natives[h].hashes \in InfoHash
    BY TorrentParts, NativeParts
  <1>3. ContentOf(natives[h].hashes) = ContentOf(hashes)
    BY <1>2, HashesMeet
  <1>4. ASSUME NEW i \in DOMAIN alerts, UserAlert(alerts[i]), alerts[i].handle = h
        PROVE  FALSE
    <2>1. alerts[i].hashes \subseteq natives[h].hashes
      BY <1>4 DEF RegistryInv, AdditionsOwn
    <2>2. alerts[i].hashes \in InfoHash
      BY AlertParts
    <2>3. ContentOf(alerts[i].hashes) = ContentOf(hashes)
      BY <1>2, <1>3, <2>1, <2>2, HashesMeet
    <2> QED
      BY <1>1, <1>4, <2>3 DEF BeingAdded, UserAlert
  <1> QED
    BY <1>1, <1>4 DEF IsUsers

LEMMA DownloadKeeps ==
    ASSUME RegistryInv, "share" \notin Races, NEW hashes \in InfoHash, DownloadMetadata(hashes)
    PROVE  RegistryInv'
  <1> DEFINE owner == Owner(natives, hashes)
  <1>1. /\ downloaded' = [downloaded EXCEPT ![ToTorrentID(hashes)] = Requested]
        /\ UNCHANGED <<torrents, registry, altIndex, pending>>
    BY DEF DownloadMetadata
  <1>2. natives \in Seq(NativeType) /\ alerts \in Seq(AlertType)
    BY DEF RegistryInv, NativesTyped, AlertsTyped
  <1>3. DownloadsQuiet
    <2>1. ToTorrentID(hashes) \in ID /\ downloaded \in [ID -> Int] /\ Requested \in Int
      BY HashesNamed, TorrentParts DEF Requested
    <2>2. /\ downloaded' \in [ID -> Int]
          /\ \A id \in ID : downloaded'[id] \in {downloaded[id], Requested}
      BY <1>1, <2>1
    <2> QED
      BY <2>2 DEF DownloadsQuiet
  <1>4. CASE owner = None
    <2>1. /\ natives' = Append(natives, NewNative(hashes, FALSE))
          /\ alerts' = Append(alerts, Added(Len(natives) + 1, hashes, "hidden"))
      BY <1>4 DEF DownloadMetadata
    <2>2. DOMAIN natives \subseteq DOMAIN natives'
      BY <1>2, <2>1, AppendedNative
    <2>3. PendingTyped'
      BY <1>1, <2>2, PendingKept
    <2> QED
      BY <1>1, <1>3, <1>4, <2>1, <2>3, PostedNew
  <1>5. CASE owner # None
    <2> DEFINE x == Added(owner, hashes, "hidden")
    <2>1. alerts' = Append(alerts, x) /\ natives' = natives
      BY <1>5 DEF DownloadMetadata
    <2>2. owner \in DOMAIN natives /\ natives[owner].hashes \cap hashes # {}
      BY <1>2, <1>5, OwnerFound
    <2>3. owner \in Nat
      BY <1>2, <2>2, NativeParts
    <2>4. ~IsUsers(owner)
      BY <2>2, NobodysOwner
    <2> HIDE DEF owner
    <2>5. /\ x \in AlertType /\ x.type = "add" /\ x.answers = "hidden" /\ x.handle = owner
      BY <2>3, AddedType DEF Who
    <2> HIDE DEF x
    <2>6. AlertQuiet(x)
      BY <1>5, <2>1, <2>2, <2>4, <2>5 DEF AlertQuiet, AlertFits, UserAlert, HiddenAlert
    <2>7. AlertsStep(0, x)
      BY <1>2, <2>1, <2>5, AlertsPosted
    <2>8. PendingTyped'
      BY <1>1, <2>1, PendingKept
    <2>9. QuietStep(0, x)
      BY <1>1, <1>3, <2>1, <2>6, <2>7, NothingChanged DEF QuietStep
    <2> QED
      BY <2>8, <2>9, Quiet
  <1> QED
    BY <1>4, <1>5

\* The alert at the head of the queue.
LEMMA HeadAlert ==
    ASSUME RegistryInv, alerts # <<>>
    PROVE  /\ 1 \in DOMAIN alerts /\ Head(alerts) = alerts[1] /\ Head(alerts) \in AlertType
           /\ AlertFits(Head(alerts), natives)
           /\ Head(alerts).hashes \in InfoHash
           /\ Head(alerts).type \in {"metadata", "resume"} \/ Head(alerts).answers = "hidden" =>
                /\ Head(alerts).handle \in DOMAIN natives
                /\ natives[Head(alerts).handle].hashes \in InfoHash
           /\ alerts \in Seq(AlertType)
  <1>1. alerts \in Seq(AlertType)
    BY DEF RegistryInv, AlertsTyped
  <1>2. 1 \in DOMAIN alerts /\ Head(alerts) = alerts[1] /\ Head(alerts) \in AlertType
    BY <1>1, TailElements
  <1>3. AlertFits(Head(alerts), natives)
    BY <1>2 DEF RegistryInv, AlertsTyped
  <1>4. Head(alerts).hashes \in InfoHash
    BY <1>2 DEF AlertType
  <1>5. \A h \in DOMAIN natives : natives[h].hashes \in InfoHash
    BY TorrentParts, NativeParts
  <1> QED
    BY <1>1, <1>2, <1>3, <1>4, <1>5 DEF AlertFits

\* The alert of a hidden addition: the handle is noted.
LEMMA HandleHiddenKeeps ==
    ASSUME RegistryInv, Answering(addHandlers, alerts), HandleHidden
    PROVE  RegistryInv'
  <1> DEFINE h == Head(alerts).handle
             id == ToTorrentID(natives[h].hashes)
             ids == IF IsHybrid(natives[h].hashes) THEN {id, V1(natives[h].hashes)} ELSE {id}
  <1>1. /\ alerts # <<>> /\ Head(alerts).type = "add" /\ Head(addHandlers) = "hidden"
        /\ alerts' = Tail(alerts)
        /\ downloaded' = IF downloaded[id] # None
                         THEN [i \in ID |-> IF i \in ids THEN h ELSE downloaded[i]] ELSE downloaded
        /\ UNCHANGED <<natives, torrents, registry, altIndex, pending>>
    BY DEF HandleHidden, NextAlert
  <1>2. Head(alerts).answers = "hidden"
    BY <1>1, AnsweringHandled
  <1>3. h \in DOMAIN natives /\ 1 \in DOMAIN alerts /\ Head(alerts) = alerts[1] /\ alerts \in Seq(AlertType)
    BY <1>1, <1>2, HeadAlert
  <1>4. IsHidden(h)
    BY <1>1, <1>2, <1>3 DEF IsHidden, HiddenAlert
  <1>5. h \in Int /\ downloaded \in [ID -> Int]
    BY <1>3, TorrentParts, NativeParts
  <1> HIDE DEF h, id, ids
  <1>6. DownloadsQuiet
    BY <1>1, <1>3, <1>4, <1>5 DEF DownloadsQuiet
  <1>7. PendingTyped'
    BY <1>1, PendingKept
  <1>8. AlertsStep(1, NoAlert)
    BY <1>1, <1>3, AlertsTaken
  <1>9. QuietStep(1, NoAlert)
    BY <1>1, <1>6, <1>8, NothingChanged DEF QuietStep
  <1> QED
    BY <1>7, <1>9, Quiet

LEMMA HandleReloadedKeeps ==
    ASSUME RegistryInv, HandleReloaded
    PROVE  RegistryInv'
  <1>1. /\ alerts # <<>> /\ alerts' = Tail(alerts)
        /\ UNCHANGED <<natives, torrents, registry, altIndex, downloaded, pending>>
    BY DEF HandleReloaded, NextAlert
  <1>2. PendingTyped'
    BY <1>1, PendingKept
  <1>3. AlertsStep(1, NoAlert)
    BY <1>1, HeadAlert, AlertsTaken
  <1>4. QuietStep(1, NoAlert)
    BY <1>1, <1>3, NothingChanged DEF QuietStep
  <1> QED
    BY <1>2, <1>4, Quiet

\* Metadata that no torrent of the session waits for is not the user's.
LEMMA NobodysMetadata ==
    ASSUME RegistryInv, alerts # <<>>, Head(alerts).type = "metadata",
           MetadataFor(Head(alerts).handle) = None
    PROVE  ~IsUsers(Head(alerts).handle)
  <1> DEFINE h == Head(alerts).handle
  <1>1. /\ 1 \in DOMAIN alerts /\ Head(alerts) = alerts[1] /\ h \in DOMAIN natives
        /\ natives[h].hashes \in InfoHash
    BY HeadAlert
  <1>2. ASSUME NEW t \in DOMAIN torrents, torrents[t].handle = h PROVE FALSE
    <2> DEFINE a == torrents[t].hashes
               b == natives[h].hashes
    <2>1. a \in InfoHash /\ a \subseteq b /\ t # None
      BY <1>2, TorrentParts DEF RegistryInv, TorrentsOwn
    <2>2. registry[ToTorrentID(a)] = t
      BY DEF RegistryInv, IndexesAgree
    <2>3. ToTorrentID(a) = ToTorrentID(b) \/ (IsHybrid(b) /\ ToTorrentID(a) = V1(b))
      BY <1>1, <2>1, HashesName
    <2> QED
      BY <2>1, <2>2, <2>3 DEF MetadataFor, TorrentOf
  <1>3. ASSUME NEW j \in DOMAIN alerts, UserAlert(alerts[j]), alerts[j].handle = h PROVE FALSE
    <2>1. j < 1
      BY <1>1, <1>3 DEF RegistryInv, MetadataIsFull
    <2> QED
      BY <2>1, LenProperties DEF RegistryInv, AlertsTyped
  <1> QED
    BY <1>2, <1>3 DEF IsUsers

LEMMA HandleHiddenMetadataKeeps ==
    ASSUME RegistryInv, HandleHiddenMetadata
    PROVE  RegistryInv'
  <1> DEFINE h == Head(alerts).handle
             found == {id \in natives[h].hashes : downloaded[id] # None}
  <1>1. /\ alerts # <<>> /\ Head(alerts).type = "metadata" /\ MetadataFor(h) = None
        /\ alerts' = Tail(alerts)
        /\ downloaded' = [id \in ID |-> IF id \in found THEN None ELSE downloaded[id]]
        /\ natives' = (IF found # {} THEN Removed(natives, h) ELSE natives)
        /\ UNCHANGED <<torrents, registry, altIndex, pending>>
    BY DEF HandleHiddenMetadata, NextAlert, session
  <1>2. h \in DOMAIN natives /\ alerts \in Seq(AlertType) /\ natives \in Seq(NativeType)
        /\ downloaded \in [ID -> Int]
    BY <1>1, HeadAlert, TorrentParts
  <1>3. ~IsUsers(h)
    BY <1>1, NobodysMetadata
  <1> HIDE DEF found, h
  <1>4. DownloadsQuiet
    BY <1>1, <1>2 DEF DownloadsQuiet, None
  <1>5. NativesQuiet
    <2>1. CASE natives' = natives
      BY <2>1, NothingChanged
    <2>2. CASE natives' = Removed(natives, h)
      <3>1. \A k \in DOMAIN natives : natives[k].alive \in BOOLEAN
        BY <1>2, NativeParts
      <3>2. /\ Removed(natives, h) \in Seq(NativeType) /\ DOMAIN Removed(natives, h) = DOMAIN natives
            /\ \A k \in DOMAIN natives :
                 /\ Removed(natives, h)[k].hashes = natives[k].hashes
                 /\ Removed(natives, h)[k].alive <=> natives[k].alive /\ k # h
        BY <1>2, RemovedNative
      <3>3. \A k \in DOMAIN natives : Removed(natives, h)[k].alive \in BOOLEAN
        BY <3>2, NativeParts
      <3> QED
        BY <1>3, <2>2, <3>1, <3>2, <3>3 DEF NativesQuiet
    <2> QED
      BY <1>1, <2>1, <2>2
  <1>6. PendingTyped'
    BY <1>1, <1>5, PendingKept DEF NativesQuiet
  <1>7. AlertsStep(1, NoAlert)
    BY <1>1, <1>2, AlertsTaken
  <1>8. QuietStep(1, NoAlert)
    BY <1>1, <1>4, <1>5, <1>7, NothingChanged DEF QuietStep
  <1> QED
    BY <1>6, <1>8, Quiet

\* A torrent that is given by something of the session has a place in it.
LEMMA StoredTorrent ==
    ASSUME RegistryInv, NEW t \in DOMAIN torrents, torrents' = [torrents EXCEPT ![t].stored = TRUE]
    PROVE  TorrentsQuiet
  <1> DEFINE x == [torrents[t] EXCEPT !.stored = TRUE]
  <1>1. torrents \in [DOMAIN torrents -> TorrentType] /\ torrents[t] \in TorrentType
    BY DEF RegistryInv, TorrentsTyped
  <1>2. x \in TorrentType /\ x.hashes = torrents[t].hashes /\ x.handle = torrents[t].handle
        /\ x.job = torrents[t].job
    BY <1>1 DEF TorrentType
  <1>3. torrents' = [torrents EXCEPT ![t] = x]
    OBVIOUS
  <1> HIDE DEF x
  <1> QED
    BY <1>1, <1>2, <1>3 DEF TorrentsQuiet

\* handleSaveResumeData
LEMMA HandleResumeDataKeeps ==
    ASSUME RegistryInv, HandleResumeData
    PROVE  RegistryInv'
  <1> DEFINE h == Head(alerts).handle
             t == TorrentOf(h)
  <1>1. /\ alerts # <<>> /\ Head(alerts).type = "resume" /\ alerts' = Tail(alerts)
        /\ UNCHANGED <<natives, registry, altIndex, downloaded>>
    BY DEF HandleResumeData, NextAlert
  <1>2. \/ torrents' = torrents /\ pending' = pending
        \/ t # None /\ torrents' = torrents /\ pending' = pending (+) One(SearchCall(t))
        \/ t # None /\ torrents' = [torrents EXCEPT ![t].stored = TRUE] /\ pending' = pending
    BY DEF HandleResumeData
  <1>3. t # None => t \in DOMAIN torrents
    <2>1. ToTorrentID(natives[h].hashes) \in ID
      BY <1>1, HeadAlert, HashesNamed
    <2> QED
      BY <2>1, TorrentParts DEF TorrentOf
  <1>4. AlertsStep(1, NoAlert)
    BY <1>1, HeadAlert, AlertsTaken
  <1> HIDE DEF t
  <1>5. TorrentsQuiet
    BY <1>2, <1>3, NothingChanged, StoredTorrent
  <1>6. DOMAIN torrents' = DOMAIN torrents
    BY <1>5 DEF TorrentsQuiet
  <1>7. PendingTyped'
    <2> DEFINE call == SearchCall(t)
    <2>1. CASE pending' = pending
      BY <1>1, <1>6, <2>1, PendingKept
    <2>2. CASE t # None /\ pending' = pending (+) One(call)
      <3>1. CallFits(call, natives', torrents')
        BY <1>3, <1>6, <2>2, CallsFit
      <3> HIDE DEF call
      <3>2. DOMAIN pending' \subseteq DOMAIN pending \cup {call}
        BY <2>2, Calls
      <3> QED
        BY <1>1, <1>6, <3>1, <3>2, PendingKept
    <2> QED
      BY <1>2, <2>1, <2>2
  <1>8. QuietStep(1, NoAlert)
    BY <1>1, <1>4, <1>5, NothingChanged DEF QuietStep
  <1> QED
    BY <1>7, <1>8, Quiet

\* requestResumeData
LEMMA RequestKeeps ==
    ASSUME RegistryInv, NEW t, RequestResumeData(t)
    PROVE  RegistryInv'
  <1> DEFINE call == RequestCall(t)
             h == torrents[t].handle
             x == Saved(natives, h)
  <1>1. /\ BagIn(call, pending) /\ pending' = pending (-) One(call)
        /\ alerts' = alerts \o SaveResumeData(natives, h)
        /\ UNCHANGED <<natives, torrents, registry, altIndex, downloaded>>
    BY DEF RequestResumeData, session
  <1>2. t \in DOMAIN torrents
    <2>1. call \in DOMAIN pending
      BY <1>1, Calls
    <2>2. CallFits(call, natives, torrents)
      BY <2>1 DEF RegistryInv, PendingTyped
    <2> QED
      BY <2>2 DEF CallFits, RequestCall, Call
  <1> HIDE DEF call
  <1>3. h \in DOMAIN natives
    BY <1>2, TorrentParts
  <1> HIDE DEF h
  <1>4. AlertsStep(0, x)
    BY <1>1, <1>3, AlertsSaved DEF RegistryInv, AlertsTyped
  <1>5. x.type = "resume" /\ x.handle = h /\ x.answers = "none"
    BY <1>3, SavedType DEF RegistryInv
  <1> HIDE DEF x
  <1>6. AlertQuiet(x)
    BY <1>1, <1>3, <1>5, NativeParts, TorrentParts DEF AlertQuiet, AlertFits, UserAlert, HiddenAlert
  <1>7. PendingTyped'
    BY <1>1, Calls, PendingKept
  <1>8. QuietStep(0, x)
    BY <1>1, <1>4, <1>6, NothingChanged DEF QuietStep
  <1> QED
    BY <1>7, <1>8, Quiet

\* A call that is done, and nothing else.
LEMMA CallDone ==
    ASSUME RegistryInv, NEW call, pending' = pending (-) One(call),
           UNCHANGED <<natives, alerts, torrents, registry, altIndex, downloaded>>
    PROVE  RegistryInv'
  <1>1. PendingTyped'
    BY Calls, PendingKept
  <1>2. AlertsStep(0, NoAlert)
    BY AlertsKept, AlertParts
  <1>3. QuietStep(0, NoAlert)
    BY <1>2, NothingChanged DEF QuietStep
  <1> QED
    BY <1>1, <1>3, Quiet

-----------------------------------------------------------------------------
(* A native torrent learns its metadata.                                   *)

\* Two hashes that are not shared, and all those of the content.
LEMMA TwoHashes ==
    ASSUME NEW a \in InfoHash, NEW b \in InfoHash, a \cap b = {},
           b \cap AllHashes(ContentOf(a)) # {}
    PROVE  /\ AllHashes(ContentOf(a)) \in InfoHash
           /\ IsHybrid(AllHashes(ContentOf(a)))
  <1> DEFINE c == ContentOf(a)
             all == AllHashes(c)
  <1>1. c \in Content
    BY HashesKnown
  <1>2. all \in InfoHash /\ ContentOf(all) = c
    BY <1>1, HashesOfContent
  <1>3. ContentOf(b) = c
    BY <1>2, HashesMeet
  <1>4. a \subseteq all /\ b \subseteq all
    BY <1>2, <1>3, HashesFull DEF Full
  <1>5. a # {} /\ b # {}
    BY HashesKnown
  <1> HIDE DEF all
  <1>6. IsHybrid(all)
    <2>1. PICK i \in a, j \in b : TRUE
      BY <1>5
    <2>2. i \in all /\ j \in all /\ i # j
      BY <1>4
    <2> QED
      BY <1>2, <2>2, HashesKnown
  <1> QED
    BY <1>2, <1>6 DEF all

\* Metadata of a hash that another native torrent has: both stop.
LEMMA ConflictKeeps ==
    ASSUME RegistryInv, NEW h \in DOMAIN natives, natives[h].alive, GetMetadata(h),
           UNCHANGED <<torrents, registry, altIndex, downloaded>>, PendingTyped',
           NEW n \in DOMAIN natives, n # h, natives[n].alive,
           natives[n].hashes \cap AllHashes(ContentOf(natives[h].hashes)) # {}
    PROVE  RegistryInv'
  <1> DEFINE all == AllHashes(ContentOf(natives[h].hashes))
             others == {k \in DOMAIN natives :
                          k # h /\ natives[k].alive /\ natives[k].hashes \cap all # {}}
             x == Alert("conflict", None, all)
  <1>1. n \in others
    OBVIOUS
  <1>2. /\ alerts' = Append(alerts, x)
        /\ natives' = [k \in DOMAIN natives |->
                         IF k \in others \cup {h} THEN [natives[k] EXCEPT !.stopped = TRUE] ELSE natives[k]]
    BY <1>1 DEF GetMetadata
  <1>3. natives \in Seq(NativeType)
    BY TorrentParts
  <1>4. /\ natives[h].hashes \in InfoHash /\ natives[n].hashes \in InfoHash
        /\ natives[h].hashes \cap natives[n].hashes = {}
    BY <1>3, NativeParts DEF RegistryInv, NativesApart
  <1>5. all \in InfoHash /\ IsHybrid(all)
    BY <1>4, TwoHashes
  <1>6. NativesQuiet
    <2>1. Len(natives) \in Nat /\ DOMAIN natives = 1..Len(natives)
          /\ \A k \in DOMAIN natives : natives[k] \in NativeType
      BY <1>3, NativeParts
    <2>2. ASSUME NEW k \in DOMAIN natives
          PROVE  /\ natives'[k] \in NativeType /\ natives'[k].hashes = natives[k].hashes
                 /\ natives'[k].alive = natives[k].alive
      <3> DEFINE y == [natives[k] EXCEPT !.stopped = TRUE]
      <3>1. y \in NativeType /\ y.hashes = natives[k].hashes /\ y.alive = natives[k].alive
        BY <2>1 DEF NativeType
      <3>2. natives'[k] = y \/ natives'[k] = natives[k]
        BY <1>2
      <3> HIDE DEF y
      <3> QED
        BY <2>1, <3>1, <3>2
    <2>3. DOMAIN natives' = DOMAIN natives
      BY <1>2
    <2>4. natives' \in [1..Len(natives) -> NativeType]
      <3>1. natives' = [k \in 1..Len(natives) |-> natives'[k]]
        BY <1>2, <2>1
      <3> QED
        BY <2>1, <2>2, <3>1
    <2>5. natives' \in Seq(NativeType)
      BY <2>1, <2>4, SeqDef
    <2> QED
      BY <2>2, <2>3, <2>5 DEF NativesQuiet
  <1> HIDE DEF all
  <1>7. x = [type |-> "conflict", handle |-> None, hashes |-> all, meta |-> FALSE, answers |-> "none"]
    BY DEF Alert
  <1> HIDE DEF x
  <1>8. x \in AlertType
    BY <1>5, <1>7 DEF AlertType, Who, None
  <1>9. AlertQuiet(x)
    BY <1>5, <1>7 DEF AlertQuiet, AlertFits, UserAlert, HiddenAlert
  <1>10. AlertsStep(0, x)
    BY <1>2, <1>8, AlertsPosted, AlertParts
  <1>11. QuietStep(0, x)
    BY <1>6, <1>9, <1>10, NothingChanged DEF QuietStep
  <1> QED
    BY <1>11, Quiet

\* What the metadata of a native torrent changes of the natives.
Learned(h, all) ==
  /\ all = AllHashes(ContentOf(natives[h].hashes)) /\ all \in InfoHash
  /\ ContentOf(all) = ContentOf(natives[h].hashes) /\ Full(all)
  /\ natives[h].hashes \subseteq all
  /\ natives' \in Seq(NativeType) /\ DOMAIN natives' = DOMAIN natives
  /\ natives'[h].hashes = all /\ natives'[h].meta = TRUE /\ natives'[h].alive = natives[h].alive
  /\ \A k \in DOMAIN natives : k # h => natives'[k] = natives[k]
  /\ \A k \in DOMAIN natives : k # h /\ natives[k].alive => natives[k].hashes \cap all = {}

LEMMA LearnedNative ==
    ASSUME RegistryInv, NEW h \in DOMAIN natives, GetMetadata(h),
           \A k \in DOMAIN natives : k # h /\ natives[k].alive =>
              natives[k].hashes \cap AllHashes(ContentOf(natives[h].hashes)) = {}
    PROVE  LET all == AllHashes(ContentOf(natives[h].hashes)) IN
           /\ Learned(h, all)
           /\ alerts' = Append(alerts, Alert("metadata", h, all))
  <1> DEFINE all == AllHashes(ContentOf(natives[h].hashes))
             others == {k \in DOMAIN natives :
                          k # h /\ natives[k].alive /\ natives[k].hashes \cap all # {}}
             y == [natives[h] EXCEPT !.hashes = all, !.meta = TRUE]
  <1>1. others = {}
    OBVIOUS
  <1>2. natives' = [natives EXCEPT ![h].hashes = all, ![h].meta = TRUE]
        /\ alerts' = Append(alerts, Alert("metadata", h, all))
    BY <1>1 DEF GetMetadata
  <1>3. /\ natives \in Seq(NativeType) /\ natives[h] \in NativeType /\ natives[h].hashes \in InfoHash
        /\ Len(natives) \in Nat /\ DOMAIN natives = 1..Len(natives)
    BY TorrentParts, NativeParts
  <1>4. all \in InfoHash /\ ContentOf(all) = ContentOf(natives[h].hashes)
    BY <1>3, HashesKnown, HashesOfContent
  <1>5. Full(all) /\ natives[h].hashes \subseteq all
    BY <1>3, <1>4, HashesFull DEF Full
  <1>6. \A k \in DOMAIN natives : k # h /\ natives[k].alive => natives[k].hashes \cap all = {}
    OBVIOUS
  <1>7. all = AllHashes(ContentOf(natives[h].hashes))
    OBVIOUS
  <1> HIDE DEF all
  <1>8. y \in NativeType /\ y.hashes = all /\ y.meta = TRUE /\ y.alive = natives[h].alive
    BY <1>3, <1>4 DEF NativeType
  <1>9. natives' = [natives EXCEPT ![h] = y]
    BY <1>2
  <1> HIDE DEF y
  <1>10. natives' \in Seq(NativeType)
    BY <1>3, <1>8, <1>9, ExceptSeq
  <1>11. DOMAIN natives' = DOMAIN natives /\ natives'[h] = y
         /\ \A k \in DOMAIN natives : k # h => natives'[k] = natives[k]
    BY <1>9
  <1>12. Learned(h, all)
    BY <1>4, <1>5, <1>6, <1>7, <1>8, <1>10, <1>11 DEF Learned
  <1> QED
    BY <1>2, <1>12 DEF all

\* The hashes known of the natives are of the same contents, and not fewer.
LEMMA LearnedHashes ==
    ASSUME RegistryInv, NEW h \in DOMAIN natives, NEW all, Learned(h, all), NEW k \in DOMAIN natives
    PROVE  /\ natives'[k].alive = natives[k].alive
           /\ natives[k].hashes \subseteq natives'[k].hashes
           /\ ContentOf(natives'[k].hashes) = ContentOf(natives[k].hashes)
           /\ Full(natives[k].hashes) => Full(natives'[k].hashes)
  <1>1. CASE k = h
    BY <1>1 DEF Learned
  <1>2. CASE k # h
    BY <1>2 DEF Learned
  <1> QED
    BY <1>1, <1>2

\* No other native torrent is of the content.
LEMMA LearnedAlone ==
    ASSUME RegistryInv, NEW h \in DOMAIN natives, NEW all, Learned(h, all),
           NEW k \in DOMAIN natives, natives[k].alive,
           ContentOf(natives[k].hashes) = ContentOf(all)
    PROVE  k = h
  <1>1. natives[k].hashes \in InfoHash
    BY TorrentParts, NativeParts
  <1>2. natives[k].hashes \subseteq all /\ natives[k].hashes # {}
    BY <1>1, HashesFull, HashesKnown DEF Learned
  <1> QED
    BY <1>2 DEF Learned

LEMMA LearnedKeeps ==
    ASSUME RegistryInv, NEW h \in DOMAIN natives, natives[h].alive, NEW all, Learned(h, all),
           alerts' = Append(alerts, Alert("metadata", h, all)),
           UNCHANGED <<torrents, registry, altIndex, downloaded>>, PendingTyped'
    PROVE  RegistryInv'
  <1> DEFINE x == Alert("metadata", h, all)
             n == Len(alerts) + 1
  <1>1. x = [type |-> "metadata", handle |-> h, hashes |-> all, meta |-> FALSE, answers |-> "none"]
    BY DEF Alert
  <1>2. h \in Nat /\ h # None /\ all \in InfoHash
    BY TorrentParts, NativeParts DEF Learned
  <1>3. alerts' = Append(alerts, x)
    OBVIOUS
  <1> HIDE DEF x
  <1>4. x \in AlertType
    BY <1>1, <1>2 DEF AlertType, Who
  <1>5. x.type = "metadata" /\ x.handle = h /\ x.answers = "none"
    BY <1>1
  <1>6. Len(alerts) \in Nat /\ DOMAIN alerts = 1..Len(alerts)
    BY AlertParts
  <1>7. /\ alerts' \in Seq(AlertType) /\ DOMAIN alerts' = 1 .. Len(alerts) + 1
        /\ \A i \in DOMAIN alerts : alerts'[i] = alerts[i]
        /\ alerts'[Len(alerts) + 1] = x
    BY <1>3, <1>4, AppendElements, AlertParts
  <1>8. /\ n \in Nat /\ n \notin DOMAIN alerts /\ DOMAIN alerts' = DOMAIN alerts \cup {n}
        /\ \A i \in DOMAIN alerts : i \in Nat /\ i < n
        /\ alerts'[n] = x
    BY <1>6, <1>7
  <1> HIDE DEF n
  <1>9. ~UserAlert(x) /\ ~HiddenAlert(x)
    BY <1>5 DEF UserAlert, HiddenAlert
  <1>10. natives' \in Seq(NativeType) /\ DOMAIN natives' = DOMAIN natives
    BY DEF Learned
  <1>11. NativesTyped' /\ TorrentsTyped' /\ MapsTyped'
    BY <1>10 DEF NativesTyped, RegistryInv, TorrentsTyped, MapsTyped
  <1>12. AlertsTyped'
    <2>1. AlertFits(x, natives')
      BY <1>2, <1>5, <1>10 DEF AlertFits
    <2>2. \A i \in DOMAIN alerts : AlertFits(alerts[i], natives')
      BY <1>10, AlertParts DEF AlertFits
    <2> QED
      BY <1>7, <1>8, <2>1, <2>2 DEF AlertsTyped
  <1>13. NativesApart'
    <2>1. ASSUME NEW i \in DOMAIN natives, NEW k \in DOMAIN natives,
                 natives'[i].alive, natives'[k].alive, i # k
          PROVE  natives'[i].hashes \cap natives'[k].hashes = {}
      <3>1. natives[i].alive /\ natives[k].alive
        BY <2>1, LearnedHashes
      <3>2. natives[i].hashes \cap natives[k].hashes = {}
        BY <2>1, <3>1 DEF RegistryInv, NativesApart
      <3> QED
        BY <2>1, <3>1, <3>2 DEF Learned
    <2> QED
      BY <1>10, <2>1 DEF NativesApart
  <1>14. TorrentsOwn'
    <2>1. \A t \in DOMAIN torrents :
            /\ natives'[torrents[t].handle].alive = natives[torrents[t].handle].alive
            /\ natives[torrents[t].handle].hashes \subseteq natives'[torrents[t].handle].hashes
      BY TorrentParts, LearnedHashes
    <2> QED
      BY <2>1 DEF RegistryInv, TorrentsOwn
  <1>15. ASSUME NEW i \in DOMAIN alerts', UserAlert(alerts'[i])
         PROVE  /\ i \in DOMAIN alerts /\ alerts'[i] = alerts[i]
                /\ alerts[i].handle \in DOMAIN natives
                /\ natives'[alerts[i].handle].alive = natives[alerts[i].handle].alive
                /\ natives[alerts[i].handle].hashes \subseteq natives'[alerts[i].handle].hashes
    <2>1. i \in DOMAIN alerts /\ alerts'[i] = alerts[i]
      BY <1>7, <1>8, <1>9, <1>15
    <2>2. alerts[i].handle \in DOMAIN natives
      BY <1>15, <2>1, AlertParts
    <2> QED
      BY <2>1, <2>2, LearnedHashes
  <1>16. AdditionsOwn'
    BY <1>15 DEF RegistryInv, AdditionsOwn
  <1>17. HiddenApart'
    <2>1. \A k : (IsUsers(k)' => IsUsers(k)) /\ (IsHidden(k)' => IsHidden(k))
      <3>1. \A i \in DOMAIN alerts' : UserAlert(alerts'[i]) \/ HiddenAlert(alerts'[i]) =>
              i \in DOMAIN alerts /\ alerts'[i] = alerts[i]
        BY <1>7, <1>8, <1>9
      <3> QED
        BY <3>1 DEF IsUsers, IsHidden
    <2> QED
      BY <1>10, <2>1 DEF RegistryInv, HiddenApart
  <1>18. JobsAreFull'
    BY TorrentParts, LearnedHashes DEF RegistryInv, JobsAreFull
  <1>19. IndexesAgree'
    BY DEF RegistryInv, IndexesAgree
  <1>20. MetadataIsFull'
    <2> SUFFICES ASSUME NEW i \in DOMAIN alerts', alerts'[i].type = "metadata"
                 PROVE  LET hashes == natives'[alerts'[i].handle].hashes IN
                        /\ Full(hashes)
                        /\ \A t \in DOMAIN torrents :
                             ContentOf(torrents[t].hashes) = ContentOf(hashes)
                               => Full(natives'[torrents[t].handle].hashes)
                        /\ \A j \in DOMAIN alerts' : UserAlert(alerts'[j]) =>
                             /\ alerts'[j].handle = alerts'[i].handle => j < i
                             /\ j < i /\ ContentOf(natives'[alerts'[j].handle].hashes) = ContentOf(hashes)
                                  => Full(natives'[alerts'[j].handle].hashes)
      BY DEF MetadataIsFull, UserAlert, Full
    <2>1. CASE i \in DOMAIN alerts
      <3>1. alerts'[i] = alerts[i]
        BY <1>7, <2>1
      <3>2. alerts[i].handle \in DOMAIN natives
        BY <2>1, <3>1, AlertParts
      <3> DEFINE k == alerts[i].handle
      <3>3. /\ Full(natives[k].hashes) /\ Full(natives'[k].hashes)
            /\ ContentOf(natives'[k].hashes) = ContentOf(natives[k].hashes)
        BY <2>1, <3>1, <3>2, LearnedHashes DEF RegistryInv, MetadataIsFull
      <3>4. ASSUME NEW t \in DOMAIN torrents,
                   ContentOf(torrents[t].hashes) = ContentOf(natives'[k].hashes)
            PROVE  Full(natives'[torrents[t].handle].hashes)
        <4>1. Full(natives[torrents[t].handle].hashes)
          BY <2>1, <3>1, <3>3, <3>4 DEF RegistryInv, MetadataIsFull
        <4> QED
          BY <4>1, TorrentParts, LearnedHashes
      <3>5. ASSUME NEW j \in DOMAIN alerts', UserAlert(alerts'[j])
            PROVE  /\ alerts'[j].handle = k => j < i
                   /\ j < i /\ ContentOf(natives'[alerts'[j].handle].hashes) = ContentOf(natives'[k].hashes)
                        => Full(natives'[alerts'[j].handle].hashes)
        <4>1. j \in DOMAIN alerts /\ alerts'[j] = alerts[j] /\ alerts[j].handle \in DOMAIN natives
          BY <1>15, <3>5
        <4>2. ContentOf(natives'[alerts[j].handle].hashes) = ContentOf(natives[alerts[j].handle].hashes)
              /\ (Full(natives[alerts[j].handle].hashes) => Full(natives'[alerts[j].handle].hashes))
          BY <4>1, LearnedHashes
        <4> QED
          BY <2>1, <3>1, <3>3, <3>5, <4>1, <4>2 DEF RegistryInv, MetadataIsFull
      <3> QED
        BY <3>1, <3>3, <3>4, <3>5
    <2>2. CASE i \notin DOMAIN alerts
      <3>1. i = n /\ alerts'[i].handle = h
        BY <1>5, <1>8, <2>2
      <3>2. natives'[h].hashes = all /\ Full(all)
        BY DEF Learned
      <3>3. ASSUME NEW t \in DOMAIN torrents, ContentOf(torrents[t].hashes) = ContentOf(all)
            PROVE  Full(natives'[torrents[t].handle].hashes)
        <4>1. /\ natives[torrents[t].handle].alive
              /\ torrents[t].hashes \subseteq natives[torrents[t].handle].hashes
          BY DEF RegistryInv, TorrentsOwn
        <4>2. ContentOf(natives[torrents[t].handle].hashes) = ContentOf(all)
          BY <3>3, <4>1, TorrentParts, HashesMeet
        <4>3. torrents[t].handle = h
          BY <4>1, <4>2, TorrentParts, LearnedAlone
        <4> QED
          BY <3>2, <4>3
      <3>4. ASSUME NEW j \in DOMAIN alerts', UserAlert(alerts'[j])
            PROVE  /\ j < i
                   /\ ContentOf(natives'[alerts'[j].handle].hashes) = ContentOf(all)
                        => Full(natives'[alerts'[j].handle].hashes)
        <4>1. j \in DOMAIN alerts /\ alerts'[j] = alerts[j] /\ alerts[j].handle \in DOMAIN natives
          BY <1>15, <3>4
        <4>2. natives[alerts[j].handle].alive
          BY <3>4, <4>1 DEF RegistryInv, AdditionsOwn
        <4>3. ContentOf(natives'[alerts[j].handle].hashes) = ContentOf(natives[alerts[j].handle].hashes)
          BY <4>1, LearnedHashes
        <4>4. ContentOf(natives[alerts[j].handle].hashes) = ContentOf(all) => alerts[j].handle = h
          BY <4>1, <4>2, LearnedAlone
        <4> QED
          BY <1>8, <3>1, <3>2, <4>1, <4>3, <4>4
      <3> QED
        BY <3>1, <3>2, <3>3, <3>4
    <2> QED
      BY <2>1, <2>2
  <1> QED
    BY <1>11, <1>12, <1>13, <1>14, <1>16, <1>17, <1>18, <1>19, <1>20 DEF RegistryInv

\* Metadata arrives from the peers or from the session.
LEMMA MetadataKeeps ==
    ASSUME RegistryInv, NEW h \in DOMAIN natives, natives[h].alive, GetMetadata(h),
           UNCHANGED <<torrents, registry, altIndex, downloaded>>,
           DOMAIN pending' \subseteq DOMAIN pending
    PROVE  RegistryInv'
  <1> DEFINE all == AllHashes(ContentOf(natives[h].hashes))
  <1>1. DOMAIN natives' = DOMAIN natives => PendingTyped'
    BY PendingKept
  <1>2. CASE \A k \in DOMAIN natives : k # h /\ natives[k].alive => natives[k].hashes \cap all = {}
    <2>1. Learned(h, all) /\ alerts' = Append(alerts, Alert("metadata", h, all))
      BY <1>2, LearnedNative
    <2> HIDE DEF all
    <2>2. PendingTyped'
      BY <1>1, <2>1 DEF Learned
    <2> QED
      BY <2>1, <2>2, LearnedKeeps
  <1>3. CASE \E k \in DOMAIN natives : k # h /\ natives[k].alive /\ natives[k].hashes \cap all # {}
    <2>1. PICK n \in DOMAIN natives : n # h /\ natives[n].alive /\ natives[n].hashes \cap all # {}
      BY <1>3
    <2> DEFINE others == {k \in DOMAIN natives :
                            k # h /\ natives[k].alive /\ natives[k].hashes \cap all # {}}
    <2>2. n \in others
      BY <2>1
    <2>3. DOMAIN natives' = DOMAIN natives
      BY <2>2 DEF GetMetadata
    <2> QED
      BY <1>1, <2>1, <2>3, ConflictKeeps
  <1> QED
    BY <1>2, <1>3

LEMMA ReceiveKeeps ==
    ASSUME RegistryInv, NEW h, ReceiveMetadata(h)
    PROVE  RegistryInv'
  BY MetadataKeeps DEF ReceiveMetadata, session

LEMMA SetMetadataKeeps ==
    ASSUME RegistryInv, NEW h, SetMetadata(h)
    PROVE  RegistryInv'
  <1> DEFINE call == SetMetadataCall(h)
  <1>1. /\ BagIn(call, pending) /\ pending' = pending (-) One(call)
        /\ UNCHANGED <<torrents, registry, altIndex, downloaded>>
    BY DEF SetMetadata, session
  <1>2. h \in DOMAIN natives
    <2>1. call \in DOMAIN pending
      BY <1>1, Calls
    <2>2. CallFits(call, natives, torrents)
      BY <2>1 DEF RegistryInv, PendingTyped
    <2> QED
      BY <2>2 DEF CallFits, SetMetadataCall, Call
  <1>3. DOMAIN pending' \subseteq DOMAIN pending
    BY <1>1, Calls
  <1>4. CASE natives[h].alive /\ ~natives[h].meta
    BY <1>1, <1>2, <1>3, <1>4, MetadataKeeps DEF SetMetadata
  <1>5. CASE ~(natives[h].alive /\ ~natives[h].meta)
    <2>1. UNCHANGED <<natives, alerts>>
      BY <1>5 DEF SetMetadata
    <2> HIDE DEF call
    <2> QED
      BY <1>1, <2>1, CallDone
  <1> QED
    BY <1>4, <1>5

-----------------------------------------------------------------------------
(* A torrent is removed, or is found to be two.                            *)

\* An alert of no torrent's.
PlainAlert(a) ==
  /\ AlertFits(a, natives')
  /\ a.type # "metadata" /\ ~UserAlert(a) /\ ~HiddenAlert(a)

LEMMA PlainAlerts ==
    ASSUME RegistryInv, NEW d, NEW x, AlertsStep(d, x), PlainAlert(x),
           DOMAIN natives \subseteq DOMAIN natives'
    PROVE  /\ AlertsTyped'
           /\ \A i \in DOMAIN alerts' :
                UserAlert(alerts'[i]) \/ HiddenAlert(alerts'[i]) \/ alerts'[i].type = "metadata" =>
                  i + d \in DOMAIN alerts /\ alerts'[i] = alerts[i + d]
           /\ \A i, j \in DOMAIN alerts' : (i < j <=> i + d < j + d) /\ (i # j => i + d # j + d)
           /\ \A i \in DOMAIN alerts' : i \in Nat /\ i > 0 /\ d \in {0, 1}
  <1>1. alerts' \in Seq(AlertType) /\ d \in {0, 1}
    BY DEF AlertsStep
  <1>2. Len(alerts') \in Nat /\ DOMAIN alerts' = 1..Len(alerts')
    BY <1>1, LenProperties
  <1>3. ASSUME NEW i \in DOMAIN alerts' PROVE AlertFits(alerts'[i], natives')
    <2>1. CASE i + d \in DOMAIN alerts /\ alerts'[i] = alerts[i + d]
      BY <2>1, AlertParts DEF AlertFits
    <2>2. CASE alerts'[i] = x
      BY <2>2 DEF PlainAlert
    <2> QED
      BY <2>1, <2>2 DEF AlertsStep
  <1>4. AlertsTyped'
    BY <1>1, <1>3 DEF AlertsTyped
  <1>5. \A i \in DOMAIN alerts' :
          UserAlert(alerts'[i]) \/ HiddenAlert(alerts'[i]) \/ alerts'[i].type = "metadata" =>
            i + d \in DOMAIN alerts /\ alerts'[i] = alerts[i + d]
    BY DEF AlertsStep, PlainAlert
  <1>6. \A i, j \in DOMAIN alerts' : (i < j <=> i + d < j + d) /\ (i # j => i + d # j + d)
    BY <1>1, <1>2
  <1> QED
    BY <1>1, <1>2, <1>4, <1>5, <1>6

LEMMA NoAlertPlain == ASSUME RegistryInv PROVE PlainAlert(NoAlert)
  <1>1. NoAlert = [type |-> "add", handle |-> None, hashes |-> {}, meta |-> FALSE, answers |-> "none"]
    BY DEF NoAlert, Alert
  <1> QED
    BY <1>1 DEF PlainAlert, AlertFits, UserAlert, HiddenAlert

\* The parts of the state after a removal.
LEMMA RemovalCalls ==
    ASSUME NEW t
    PROVE  DOMAIN Removal(t).pending = DOMAIN pending \ {RequestCall(t), SearchCall(t)}
  BY DEF Removal, Without

LEMMA RemovalParts ==
    ASSUME RegistryInv, NEW t \in DOMAIN torrents,
           natives' = Removal(t).natives, torrents' = Removal(t).torrents
    PROVE  /\ natives' \in Seq(NativeType) /\ DOMAIN natives' = DOMAIN natives
           /\ \A k \in DOMAIN natives : /\ natives'[k].hashes = natives[k].hashes
                                        /\ natives'[k].meta = natives[k].meta
                                        /\ natives'[k].alive <=> natives[k].alive /\ k # torrents[t].handle
           /\ DOMAIN torrents' = DOMAIN torrents \ {t}
           /\ torrents' \in [DOMAIN torrents' -> TorrentType]
           /\ \A u \in DOMAIN torrents' : torrents'[u] = torrents[u]
  <1> DEFINE h == torrents[t].handle
  <1>1. h \in DOMAIN natives /\ natives \in Seq(NativeType)
    BY TorrentParts
  <1>2. natives' = Removed(natives, h) /\ torrents' = [o \in DOMAIN torrents \ {t} |-> torrents[o]]
    BY DEF Removal
  <1>3. /\ DOMAIN torrents' = DOMAIN torrents \ {t} /\ torrents' \in [DOMAIN torrents' -> TorrentType]
        /\ \A u \in DOMAIN torrents' : torrents'[u] = torrents[u]
    BY <1>2, TorrentParts
  <1> HIDE DEF h
  <1>4. /\ Removed(natives, h) \in Seq(NativeType) /\ DOMAIN Removed(natives, h) = DOMAIN natives
        /\ \A k \in DOMAIN natives :
             /\ Removed(natives, h)[k].hashes = natives[k].hashes
             /\ Removed(natives, h)[k].meta = natives[k].meta
             /\ Removed(natives, h)[k].alive <=> natives[k].alive /\ k # h
    BY <1>1, RemovedNative
  <1> QED
    BY <1>2, <1>3, <1>4 DEF h

\* The indexes without the torrent.
LEMMA RemovalIndexes ==
    ASSUME RegistryInv, NEW t \in DOMAIN torrents,
           registry' = Removal(t).registry, altIndex' = Removal(t).altIndex,
           torrents' = Removal(t).torrents
    PROVE  IndexesAgree' /\ registry' \in [ID -> Nat] /\ altIndex' \in [ID -> Nat]
  <1> DEFINE a == torrents[t].hashes
             id == ToTorrentID(a)
  <1>1. /\ registry' = [registry EXCEPT ![id] = None]
        /\ altIndex' = IF IsHybrid(a) THEN [altIndex EXCEPT ![V1(a)] = None] ELSE altIndex
        /\ DOMAIN torrents' = DOMAIN torrents \ {t}
        /\ \A u \in DOMAIN torrents \ {t} : torrents'[u] = torrents[u]
    <2>1. registry' = [registry EXCEPT ![id] = None]
      BY DEF Removal, TorrentID
    <2>2. altIndex' = IF IsHybrid(a) THEN [altIndex EXCEPT ![V1(a)] = None] ELSE altIndex
      BY DEF Removal
    <2>3. torrents' = [o \in DOMAIN torrents \ {t} |-> torrents[o]]
      BY DEF Removal
    <2> QED
      BY <2>1, <2>2, <2>3
  <1>2. a \in InfoHash /\ id \in ID /\ V1(a) \in ID
    BY TorrentParts, HashesNamed
  <1>3. registry \in [ID -> Nat] /\ altIndex \in [ID -> Nat]
    BY DEF RegistryInv, MapsTyped
  <1>4. /\ registry' \in [ID -> Nat] /\ registry'[id] = None
        /\ \A i \in ID : i # id => registry'[i] = registry[i]
    BY <1>1, <1>2, <1>3 DEF None
  <1>5. /\ altIndex' \in [ID -> Nat]
        /\ IsHybrid(a) => altIndex'[V1(a)] = None
        /\ \A i \in ID : altIndex'[i] = altIndex[i] \/ (IsHybrid(a) /\ i = V1(a))
    BY <1>1, <1>2, <1>3 DEF None
  <1>6. registry[id] = t /\ (IsHybrid(a) => altIndex[V1(a)] = t)
    BY DEF RegistryInv, IndexesAgree
  <1>7. ASSUME NEW u \in DOMAIN torrents, u # t
        PROVE  /\ registry'[ToTorrentID(torrents[u].hashes)] = u
               /\ IsHybrid(torrents[u].hashes) => altIndex'[V1(torrents[u].hashes)] = u
    <2>1. ToTorrentID(torrents[u].hashes) \in ID /\ V1(torrents[u].hashes) \in ID
      BY TorrentParts, HashesNamed
    <2>2. /\ registry[ToTorrentID(torrents[u].hashes)] = u
          /\ IsHybrid(torrents[u].hashes) => altIndex[V1(torrents[u].hashes)] = u
      BY DEF RegistryInv, IndexesAgree
    <2> HIDE DEF a, id
    <2> QED
      BY <1>4, <1>5, <1>6, <1>7, <2>1, <2>2
  <1>8. ASSUME NEW i \in ID, registry'[i] # None
        PROVE  registry[i] \in DOMAIN torrents \ {t} /\ registry'[i] = registry[i]
               /\ ToTorrentID(torrents[registry[i]].hashes) = i
    BY <1>4, <1>8 DEF RegistryInv, IndexesAgree
  <1>9. ASSUME NEW i \in ID, altIndex'[i] # None
        PROVE  altIndex[i] \in DOMAIN torrents \ {t} /\ altIndex'[i] = altIndex[i]
               /\ IsHybrid(torrents[altIndex[i]].hashes) /\ V1(torrents[altIndex[i]].hashes) = i
    BY <1>5, <1>9 DEF RegistryInv, IndexesAgree
  <1>10. IndexesAgree'
    <2>1. \A u \in DOMAIN torrents' :
            /\ registry'[ToTorrentID(torrents'[u].hashes)] = u
            /\ IsHybrid(torrents'[u].hashes) => altIndex'[V1(torrents'[u].hashes)] = u
      BY <1>1, <1>7
    <2>2. \A i \in ID : registry'[i] # None =>
            registry'[i] \in DOMAIN torrents' /\ ToTorrentID(torrents'[registry'[i]].hashes) = i
      BY <1>1, <1>8
    <2>3. \A i \in ID : altIndex'[i] # None =>
            /\ altIndex'[i] \in DOMAIN torrents'
            /\ IsHybrid(torrents'[altIndex'[i]].hashes) /\ V1(torrents'[altIndex'[i]].hashes) = i
      BY <1>1, <1>9
    <2> QED
      BY <2>1, <2>2, <2>3 DEF IndexesAgree
  <1> QED
    BY <1>4, <1>5, <1>10

LEMMA RemovalKeeps ==
    ASSUME RegistryInv, NEW t \in DOMAIN torrents, NEW d, AlertsStep(d, NoAlert),
           registry' = Removal(t).registry, altIndex' = Removal(t).altIndex,
           torrents' = Removal(t).torrents, natives' = Removal(t).natives,
           NEW h \in DOMAIN natives,
           DOMAIN pending' \subseteq DOMAIN Removal(t).pending \cup {SetMetadataCall(h)},
           downloaded' = downloaded
    PROVE  RegistryInv'
  <1>1. /\ natives' \in Seq(NativeType) /\ DOMAIN natives' = DOMAIN natives
        /\ \A k \in DOMAIN natives : /\ natives'[k].hashes = natives[k].hashes
                                     /\ natives'[k].alive <=> natives[k].alive /\ k # torrents[t].handle
        /\ DOMAIN torrents' = DOMAIN torrents \ {t}
        /\ torrents' \in [DOMAIN torrents' -> TorrentType]
        /\ \A u \in DOMAIN torrents' : torrents'[u] = torrents[u]
    BY RemovalParts
  <1>2. DOMAIN pending' \subseteq (DOMAIN pending \ {RequestCall(t), SearchCall(t)}) \cup {SetMetadataCall(h)}
    BY RemovalCalls
  <1>3. IndexesAgree' /\ MapsTyped'
    BY <1>1, RemovalIndexes DEF RegistryInv, MapsTyped
  <1>4. NativesTyped' /\ TorrentsTyped'
    BY <1>1 DEF NativesTyped, TorrentsTyped, RegistryInv
  <1>5. PendingTyped'
    <2>1. ASSUME NEW call \in DOMAIN pending, call \notin {RequestCall(t), SearchCall(t)}
          PROVE  CallFits(call, natives', torrents')
      <3>1. CallFits(call, natives, torrents)
        BY DEF RegistryInv, PendingTyped
      <3> QED
        BY <1>1, <2>1, <3>1 DEF CallFits
    <2>2. CallFits(SetMetadataCall(h), natives', torrents')
      BY <1>1, CallsFit
    <2> QED
      BY <1>2, <2>1, <2>2 DEF PendingTyped
  <1>6. /\ AlertsTyped'
        /\ \A i \in DOMAIN alerts' :
             UserAlert(alerts'[i]) \/ HiddenAlert(alerts'[i]) \/ alerts'[i].type = "metadata" =>
               i + d \in DOMAIN alerts /\ alerts'[i] = alerts[i + d]
        /\ \A i, j \in DOMAIN alerts' : (i < j <=> i + d < j + d) /\ (i # j => i + d # j + d)
    BY <1>1, NoAlertPlain, PlainAlerts
  <1>7. NativesApart'
    BY <1>1 DEF RegistryInv, NativesApart
  <1>8. TorrentsOwn'
    BY <1>1, TorrentParts DEF RegistryInv, TorrentsOwn
  <1>9. AdditionsOwn'
    <2>1. ASSUME NEW i \in DOMAIN alerts', UserAlert(alerts'[i])
          PROVE  /\ i + d \in DOMAIN alerts /\ alerts'[i] = alerts[i + d] /\ UserAlert(alerts[i + d])
                 /\ alerts[i + d].handle \in DOMAIN natives /\ alerts[i + d].handle # torrents[t].handle
      <3>1. i + d \in DOMAIN alerts /\ alerts'[i] = alerts[i + d]
        BY <1>6, <2>1
      <3> QED
        BY <2>1, <3>1, AlertParts DEF RegistryInv, AdditionsOwn
    <2> QED
      BY <1>1, <1>6, <2>1 DEF RegistryInv, AdditionsOwn
  <1>10. HiddenApart'
    <2>1. \A k : IsUsers(k)' => IsUsers(k)
      BY <1>1, <1>6 DEF IsUsers
    <2>2. \A k : IsHidden(k)' => IsHidden(k)
      BY <1>6 DEF IsHidden
    <2> QED
      BY <1>1, <2>1, <2>2 DEF RegistryInv, HiddenApart
  <1>11. JobsAreFull'
    BY <1>1, TorrentParts DEF RegistryInv, JobsAreFull
  <1>12. MetadataIsFull'
    <2>1. ASSUME NEW i \in DOMAIN alerts', alerts'[i].type = "metadata" \/ UserAlert(alerts'[i])
          PROVE  i + d \in DOMAIN alerts /\ alerts'[i] = alerts[i + d] /\ alerts[i + d].handle \in DOMAIN natives
      <3>1. i + d \in DOMAIN alerts /\ alerts'[i] = alerts[i + d]
        BY <1>6, <2>1
      <3> QED
        BY <2>1, <3>1, AlertParts
    <2> SUFFICES ASSUME NEW i \in DOMAIN alerts', alerts'[i].type = "metadata"
                 PROVE  LET hashes == natives'[alerts'[i].handle].hashes IN
                        /\ Full(hashes)
                        /\ \A u \in DOMAIN torrents' :
                             ContentOf(torrents'[u].hashes) = ContentOf(hashes)
                               => Full(natives'[torrents'[u].handle].hashes)
                        /\ \A j \in DOMAIN alerts' : UserAlert(alerts'[j]) =>
                             /\ alerts'[j].handle = alerts'[i].handle => j < i
                             /\ j < i /\ ContentOf(natives'[alerts'[j].handle].hashes) = ContentOf(hashes)
                                  => Full(natives'[alerts'[j].handle].hashes)
      BY DEF MetadataIsFull, UserAlert, Full
    <2>2. /\ i + d \in DOMAIN alerts /\ alerts'[i] = alerts[i + d] /\ alerts[i + d].handle \in DOMAIN natives
      BY <2>1
    <2>3. \A u \in DOMAIN torrents' : /\ u \in DOMAIN torrents /\ torrents'[u] = torrents[u]
                                      /\ torrents[u].handle \in DOMAIN natives
      BY <1>1, TorrentParts
    <2>4. Full(natives'[alerts'[i].handle].hashes)
      BY <1>1, <2>2 DEF RegistryInv, MetadataIsFull
    <2>5. ASSUME NEW u \in DOMAIN torrents',
                 ContentOf(torrents'[u].hashes) = ContentOf(natives'[alerts'[i].handle].hashes)
          PROVE  Full(natives'[torrents'[u].handle].hashes)
      BY <1>1, <2>2, <2>3, <2>5 DEF RegistryInv, MetadataIsFull
    <2>6. ASSUME NEW j \in DOMAIN alerts', UserAlert(alerts'[j])
          PROVE  /\ alerts'[j].handle = alerts'[i].handle => j < i
                 /\ j < i /\ ContentOf(natives'[alerts'[j].handle].hashes)
                               = ContentOf(natives'[alerts'[i].handle].hashes)
                      => Full(natives'[alerts'[j].handle].hashes)
      <3>1. j + d \in DOMAIN alerts /\ alerts'[j] = alerts[j + d] /\ alerts[j + d].handle \in DOMAIN natives
        BY <2>1, <2>6
      <3>2. /\ alerts[j + d].handle = alerts[i + d].handle => j + d < i + d
            /\ j + d < i + d /\ ContentOf(natives[alerts[j + d].handle].hashes)
                                  = ContentOf(natives[alerts[i + d].handle].hashes)
                 => Full(natives[alerts[j + d].handle].hashes)
        BY <2>2, <2>6, <3>1 DEF RegistryInv, MetadataIsFull
      <3> QED
        BY <1>1, <1>6, <2>2, <3>1, <3>2
    <2> QED
      BY <2>4, <2>5, <2>6
  <1> QED
    BY <1>3, <1>4, <1>5, <1>6, <1>7, <1>8, <1>9, <1>10, <1>11, <1>12 DEF RegistryInv

\* removeTorrent
LEMMA RemoveKeeps ==
    ASSUME RegistryInv, NEW id \in ID, RemoveTorrent(id)
    PROVE  RegistryInv'
  <1> DEFINE t == registry[id]
  <1>1. /\ t # None
        /\ registry' = Removal(t).registry /\ altIndex' = Removal(t).altIndex
        /\ torrents' = Removal(t).torrents /\ natives' = Removal(t).natives
        /\ pending' = Removal(t).pending /\ alerts' = alerts /\ downloaded' = downloaded
    BY DEF RemoveTorrent
  <1>2. t \in DOMAIN torrents
    BY <1>1, TorrentParts
  <1>3. torrents[t].handle \in DOMAIN natives
    BY <1>2, TorrentParts
  <1>4. AlertsStep(0, NoAlert)
    BY <1>1, AlertsKept, AlertParts
  <1> HIDE DEF t
  <1>5. DOMAIN pending' \subseteq DOMAIN Removal(t).pending \cup {SetMetadataCall(torrents[t].handle)}
    BY <1>1
  <1> QED
    BY <1>1, <1>2, <1>3, <1>4, <1>5, RemovalKeeps

-----------------------------------------------------------------------------
(* A conflict: two torrents become one, or a hidden one gives way.         *)

\* The calls queued after one call more.
LEMMA OneMore ==
    ASSUME NEW calls, NEW call
    PROVE  DOMAIN (calls (+) One(call)) = DOMAIN calls \cup {call}
  <1>1. DOMAIN One(call) = {call}
    BY DEF One, SetToBag
  <1> QED
    BY <1>1 DEF (+)

\* What a conflict is about.
LEMMA ConflictParts ==
    ASSUME RegistryInv, HandleConflict
    PROVE  LET hashes == Head(alerts).hashes IN
           /\ V1(hashes) \in ID /\ V2(hashes) \in ID
           /\ registry[V1(hashes)] # None => registry[V1(hashes)] \in DOMAIN torrents
           /\ registry[V2(hashes)] # None => registry[V2(hashes)] \in DOMAIN torrents
           /\ AlertsStep(1, NoAlert)
  <1> DEFINE hashes == Head(alerts).hashes
  <1>1. alerts # <<>> /\ Head(alerts).type = "conflict" /\ alerts' = Tail(alerts)
    BY DEF HandleConflict, NextAlert
  <1>2. AlertFits(Head(alerts), natives) /\ hashes \in InfoHash /\ alerts \in Seq(AlertType)
    BY <1>1, HeadAlert
  <1>3. IsHybrid(hashes)
    BY <1>1, <1>2 DEF AlertFits
  <1> HIDE DEF hashes
  <1>4. V1(hashes) \in ID /\ V2(hashes) \in ID
    BY <1>2, <1>3, HashesNamed
  <1>5. AlertsStep(1, NoAlert)
    BY <1>1, <1>2, AlertsTaken
  <1> QED
    BY <1>4, <1>5, TorrentParts DEF hashes

\* The torrent under the first of the IDs goes, the other gets the metadata.
LEMMA MergeKeeps ==
    ASSUME RegistryInv, HandleConflict, NEW t1, NEW t2,
           t1 = registry[V1(Head(alerts).hashes)], t2 = registry[V2(Head(alerts).hashes)],
           t1 # None, t2 # None
    PROVE  RegistryInv'
  <1> DEFINE h == torrents[t2].handle
  <1>1. /\ registry' = Removal(t1).registry /\ altIndex' = Removal(t1).altIndex
        /\ torrents' = Removal(t1).torrents /\ natives' = Removal(t1).natives
        /\ pending' = Removal(t1).pending (+) One(SetMetadataCall(h))
        /\ downloaded' = downloaded
    BY DEF HandleConflict
  <1>2. t1 \in DOMAIN torrents /\ t2 \in DOMAIN torrents /\ AlertsStep(1, NoAlert)
    BY ConflictParts
  <1>3. h \in DOMAIN natives
    BY <1>2, TorrentParts
  <1> HIDE DEF h
  <1>4. DOMAIN pending' \subseteq DOMAIN Removal(t1).pending \cup {SetMetadataCall(h)}
    BY <1>1, OneMore
  <1> QED
    BY <1>1, <1>2, <1>3, <1>4, RemovalKeeps

LEMMA HandleConflictKeeps ==
    ASSUME RegistryInv, HandleConflict
    PROVE  RegistryInv'
  <1> DEFINE a == V1(Head(alerts).hashes)
             b == V2(Head(alerts).hashes)
             t1 == registry[a]
             t2 == registry[b]
  <1>1. a \in ID /\ b \in ID /\ (t1 # None => t1 \in DOMAIN torrents) /\ (t2 # None => t2 \in DOMAIN torrents)
        /\ AlertsStep(1, NoAlert)
    BY ConflictParts
  <1>2. CASE t1 # None /\ t2 # None
    BY <1>2, MergeKeeps
  <1>3. CASE ~(t1 # None /\ t2 # None)
    <2> DEFINE hidden == IF t2 # None THEN Cancel(a, Hidden)
                         ELSE IF t1 # None THEN Cancel(b, Hidden)
                         ELSE Cancel(b, Cancel(a, Hidden))
    <2>1. /\ downloaded' = hidden.downloaded /\ natives' = hidden.natives
          /\ pending' = (IF t2 # None THEN pending (+) One(SetMetadataCall(torrents[t2].handle))
                         ELSE IF t1 # None THEN pending (+) One(SetMetadataCall(torrents[t1].handle))
                         ELSE pending)
          /\ UNCHANGED <<registry, altIndex, torrents>>
      BY <1>3 DEF HandleConflict
    <2>2. \/ hidden = Cancel(a, Hidden) \/ hidden = Cancel(b, Hidden)
          \/ hidden = Cancel(b, Cancel(a, Hidden))
      OBVIOUS
    <2> HIDE DEF hidden, a, b
    <2>3. /\ natives' \in Seq(NativeType) /\ DOMAIN natives' = DOMAIN natives
          /\ \A h \in DOMAIN natives :
                /\ natives'[h].hashes = natives[h].hashes
                /\ natives'[h].alive => natives[h].alive
                /\ ~IsHidden(h) => natives'[h].alive = natives[h].alive
          /\ downloaded' \in [ID -> Int]
          /\ \A i \in ID : downloaded'[i] \in {downloaded[i], None}
      <3>1. CASE hidden = Cancel(a, Hidden)
        BY <1>1, <2>1, <3>1, CancelledOne
      <3>2. CASE hidden = Cancel(b, Hidden)
        BY <1>1, <2>1, <3>2, CancelledOne
      <3>3. CASE hidden = Cancel(b, Cancel(a, Hidden))
        BY <1>1, <2>1, <3>3, CancelledTwo
      <3> QED
        BY <2>2, <3>1, <3>2, <3>3
    <2>4. NativesQuiet
      BY <2>3, HiddenGo
    <2>5. DownloadsQuiet
      BY <2>3 DEF DownloadsQuiet
    <2>6. PendingTyped'
      <3>1. ASSUME NEW t \in DOMAIN torrents, pending' = pending (+) One(SetMetadataCall(torrents[t].handle))
            PROVE  PendingTyped'
        <4> DEFINE call == SetMetadataCall(torrents[t].handle)
        <4>1. CallFits(call, natives', torrents')
          BY <2>3, TorrentParts, CallsFit
        <4>2. DOMAIN pending' \subseteq DOMAIN pending \cup {call}
          BY <3>1, Calls
        <4> HIDE DEF call
        <4> QED
          BY <2>1, <2>3, <4>1, <4>2, PendingKept
      <3>2. CASE pending' = pending
        BY <2>1, <2>3, <3>2, PendingKept
      <3> QED
        BY <1>1, <2>1, <3>1, <3>2
    <2>7. QuietStep(1, NoAlert)
      BY <1>1, <2>1, <2>4, <2>5, NothingChanged DEF QuietStep
    <2> QED
      BY <2>6, <2>7, Quiet
  <1> QED
    BY <1>2, <1>3

-----------------------------------------------------------------------------
(* The torrent that has been added.                                        *)

NewTorrent(h) ==
  [hashes |-> natives[h].hashes, handle |-> h, meta |-> natives[h].given,
   job |-> FALSE, stored |-> FALSE]

LEMMA NewTorrentType ==
    ASSUME RegistryInv, NEW h \in DOMAIN natives
    PROVE  /\ NewTorrent(h) \in TorrentType
           /\ NewTorrent(h).hashes = natives[h].hashes /\ NewTorrent(h).handle = h
           /\ NewTorrent(h).job = FALSE
           /\ h \in Nat /\ h # None /\ natives[h].hashes \in InfoHash
  <1>1. natives[h] \in NativeType /\ h \in Nat /\ h # None /\ natives[h].hashes \in InfoHash
    BY TorrentParts, NativeParts
  <1>2. natives[h].given \in BOOLEAN
    BY <1>1 DEF NativeType
  <1> QED
    BY <1>1, <1>2 DEF NewTorrent, TorrentType

\* The native torrent of an addition is nobody else's.
LEMMA AddedAlone ==
    ASSUME RegistryInv, NEW i \in DOMAIN alerts, UserAlert(alerts[i]),
           NEW h, h = alerts[i].handle, NEW t \in DOMAIN torrents
    PROVE  /\ torrents[t].handle # h
           /\ torrents[t].hashes \cap natives[h].hashes = {}
           /\ ToTorrentID(torrents[t].hashes) # ToTorrentID(natives[h].hashes)
           /\ IsHybrid(torrents[t].hashes) /\ IsHybrid(natives[h].hashes)
                => V1(torrents[t].hashes) # V1(natives[h].hashes)
  <1> DEFINE k == torrents[t].handle
             a == torrents[t].hashes
             b == natives[h].hashes
  <1>1. h \in DOMAIN natives /\ k \in DOMAIN natives /\ a \in InfoHash /\ b \in InfoHash
    BY AlertParts, TorrentParts
  <1>2. k # h /\ natives[h].alive
    BY DEF RegistryInv, AdditionsOwn
  <1>3. natives[k].alive /\ a \subseteq natives[k].hashes
    BY DEF RegistryInv, TorrentsOwn
  <1>4. natives[k].hashes \cap b = {}
    BY <1>1, <1>2, <1>3 DEF RegistryInv, NativesApart
  <1>5. a \cap b = {}
    BY <1>3, <1>4
  <1> HIDE DEF a, b
  <1>6. ToTorrentID(a) # ToTorrentID(b)
    BY <1>1, <1>5, HashesMeet
  <1>7. IsHybrid(a) => V1(a) \in a
    BY <1>1, HashesNamed
  <1>8. IsHybrid(b) => V1(b) \in b
    BY <1>1, HashesNamed
  <1> QED
    BY <1>2, <1>5, <1>6, <1>7, <1>8 DEF a, b

\* Its entries are put beside those of the others.
LEMMA AddedIndexes ==
    ASSUME RegistryInv, NEW h \in DOMAIN natives, UserAlert(alerts[1]), 1 \in DOMAIN alerts,
           h = alerts[1].handle,
           torrents' = [o \in DOMAIN torrents \cup {h} |-> IF o = h THEN NewTorrent(h) ELSE torrents[o]],
           registry' = [registry EXCEPT ![ToTorrentID(natives[h].hashes)] = h],
           altIndex' = IF IsHybrid(natives[h].hashes)
                       THEN [altIndex EXCEPT ![V1(natives[h].hashes)] = h] ELSE altIndex
    PROVE  IndexesAgree' /\ registry' \in [ID -> Nat] /\ altIndex' \in [ID -> Nat]
  <1> DEFINE b == natives[h].hashes
             id == ToTorrentID(b)
  <1>1. b \in InfoHash /\ h \in Nat /\ h # None /\ h \notin DOMAIN torrents
    BY NewTorrentType DEF RegistryInv, AdditionsOwn
  <1>2. id \in ID /\ V1(b) \in ID
    BY <1>1, HashesNamed
  <1>3. registry \in [ID -> Nat] /\ altIndex \in [ID -> Nat]
    BY DEF RegistryInv, MapsTyped
  <1>4. /\ registry' \in [ID -> Nat] /\ registry'[id] = h
        /\ \A i \in ID : i # id => registry'[i] = registry[i]
    BY <1>1, <1>2, <1>3
  <1>5. /\ altIndex' \in [ID -> Nat]
        /\ IsHybrid(b) => altIndex'[V1(b)] = h
        /\ \A i \in ID : altIndex'[i] = altIndex[i] \/ (IsHybrid(b) /\ i = V1(b))
    BY <1>1, <1>2, <1>3
  <1>6. /\ DOMAIN torrents' = DOMAIN torrents \cup {h}
        /\ torrents'[h].hashes = b
        /\ \A u \in DOMAIN torrents : torrents'[u] = torrents[u]
    BY <1>1, NewTorrentType
  <1> HIDE DEF b, id
  <1>7. ASSUME NEW u \in DOMAIN torrents
        PROVE  /\ registry'[ToTorrentID(torrents[u].hashes)] = u
               /\ IsHybrid(torrents[u].hashes) => altIndex'[V1(torrents[u].hashes)] = u
    <2> DEFINE a == torrents[u].hashes
    <2>1. ToTorrentID(a) \in ID /\ V1(a) \in ID
      BY TorrentParts, HashesNamed
    <2>2. /\ registry[ToTorrentID(a)] = u
          /\ IsHybrid(a) => altIndex[V1(a)] = u
      BY DEF RegistryInv, IndexesAgree
    <2>3. ToTorrentID(a) # id /\ (IsHybrid(a) /\ IsHybrid(b) => V1(a) # V1(b))
      BY AddedAlone DEF b, id
    <2> HIDE DEF a
    <2>4. registry'[ToTorrentID(a)] = u
      BY <1>4, <2>1, <2>2, <2>3
    <2>5. IsHybrid(a) => altIndex'[V1(a)] = u
      BY <1>5, <2>1, <2>2, <2>3
    <2> QED
      BY <2>4, <2>5 DEF a
  <1>8. ASSUME NEW i \in ID, registry'[i] # None
        PROVE  registry'[i] \in DOMAIN torrents' /\ ToTorrentID(torrents'[registry'[i]].hashes) = i
    <2>1. CASE i = id
      BY <1>4, <1>6, <2>1 DEF id
    <2>2. CASE i # id
      <3>1. registry'[i] = registry[i] /\ registry[i] # None
        BY <1>4, <1>8, <2>2
      <3>2. registry[i] \in DOMAIN torrents /\ ToTorrentID(torrents[registry[i]].hashes) = i
        BY <3>1 DEF RegistryInv, IndexesAgree
      <3> QED
        BY <1>6, <3>1, <3>2
    <2> QED
      BY <2>1, <2>2
  <1>9. ASSUME NEW i \in ID, altIndex'[i] # None
        PROVE  /\ altIndex'[i] \in DOMAIN torrents'
               /\ IsHybrid(torrents'[altIndex'[i]].hashes) /\ V1(torrents'[altIndex'[i]].hashes) = i
    <2>1. CASE IsHybrid(b) /\ i = V1(b)
      BY <1>5, <1>6, <2>1
    <2>2. CASE altIndex'[i] = altIndex[i]
      <3>1. /\ altIndex[i] \in DOMAIN torrents
            /\ IsHybrid(torrents[altIndex[i]].hashes) /\ V1(torrents[altIndex[i]].hashes) = i
        BY <1>9, <2>2 DEF RegistryInv, IndexesAgree
      <3> QED
        BY <1>6, <2>2, <3>1
    <2> QED
      BY <1>5, <2>1, <2>2
  <1>10. IndexesAgree'
    <2>1. \A u \in DOMAIN torrents' :
            /\ registry'[ToTorrentID(torrents'[u].hashes)] = u
            /\ IsHybrid(torrents'[u].hashes) => altIndex'[V1(torrents'[u].hashes)] = u
      <3>1. registry'[ToTorrentID(b)] = h /\ (IsHybrid(b) => altIndex'[V1(b)] = h)
        BY <1>4, <1>5 DEF id
      <3> QED
        BY <1>6, <1>7, <3>1
    <2> QED
      BY <1>8, <1>9, <2>1 DEF IndexesAgree
  <1> QED
    BY <1>4, <1>5, <1>10

LEMMA AddedKeeps ==
    ASSUME RegistryInv, NEW h \in DOMAIN natives, 1 \in DOMAIN alerts, UserAlert(alerts[1]),
           h = alerts[1].handle,
           NEW x, AlertsStep(1, x), x.type = "resume", x.handle = h, x.answers = "none",
           torrents' = [o \in DOMAIN torrents \cup {h} |-> IF o = h THEN NewTorrent(h) ELSE torrents[o]],
           IndexesAgree', registry' \in [ID -> Nat], altIndex' \in [ID -> Nat],
           UNCHANGED <<natives, downloaded, pending>>
    PROVE  RegistryInv'
  <1>1. /\ NewTorrent(h) \in TorrentType /\ NewTorrent(h).hashes = natives[h].hashes
        /\ NewTorrent(h).handle = h /\ NewTorrent(h).job = FALSE /\ h \in Nat /\ h # None
    BY NewTorrentType
  <1>2. /\ natives[h].alive /\ h \notin DOMAIN torrents
        /\ \A u \in DOMAIN torrents : torrents[u].handle # h
        /\ \A j \in DOMAIN alerts : UserAlert(alerts[j]) /\ j # 1 => alerts[j].handle # h
    BY DEF RegistryInv, AdditionsOwn
  <1>3. torrents \in [DOMAIN torrents -> TorrentType]
    BY DEF RegistryInv, TorrentsTyped
  <1>4. /\ DOMAIN torrents' = DOMAIN torrents \cup {h}
        /\ torrents' \in [DOMAIN torrents' -> TorrentType]
        /\ torrents'[h] = NewTorrent(h)
        /\ \A u \in DOMAIN torrents : torrents'[u] = torrents[u]
    BY <1>1, <1>2, <1>3
  <1>5. PlainAlert(x)
    BY <1>1 DEF PlainAlert, AlertFits, UserAlert, HiddenAlert
  <1>6. /\ AlertsTyped'
        /\ \A i \in DOMAIN alerts' :
             UserAlert(alerts'[i]) \/ HiddenAlert(alerts'[i]) \/ alerts'[i].type = "metadata" =>
               i + 1 \in DOMAIN alerts /\ alerts'[i] = alerts[i + 1]
        /\ \A i, j \in DOMAIN alerts' : (i < j <=> i + 1 < j + 1) /\ (i # j => i + 1 # j + 1)
        /\ \A i \in DOMAIN alerts' : i \in Nat /\ i > 0
    BY <1>5, PlainAlerts
  <1>7. \A i \in DOMAIN alerts' : i + 1 # 1 /\ 1 < i + 1
    BY <1>6
  <1>8. NativesTyped' /\ TorrentsTyped' /\ MapsTyped' /\ PendingTyped' /\ NativesApart'
    <2>1. PendingTyped'
      BY <1>4, PendingKept
    <2>2. TorrentsTyped'
      BY <1>1, <1>4 DEF TorrentsTyped, RegistryInv
    <2> QED
      BY <2>1, <2>2 DEF RegistryInv, NativesTyped, MapsTyped, NativesApart
  <1>9. TorrentsOwn'
    <2>1. \A u \in DOMAIN torrents :
            /\ natives[torrents[u].handle].alive
            /\ torrents[u].hashes \subseteq natives[torrents[u].handle].hashes
            /\ \A v \in DOMAIN torrents : v # u => torrents[v].handle # torrents[u].handle
      BY DEF RegistryInv, TorrentsOwn
    <2> QED
      BY <1>1, <1>2, <1>4, <2>1 DEF TorrentsOwn
  <1>10. ASSUME NEW i \in DOMAIN alerts', UserAlert(alerts'[i])
         PROVE  /\ i + 1 \in DOMAIN alerts /\ alerts'[i] = alerts[i + 1] /\ UserAlert(alerts[i + 1])
                /\ alerts[i + 1].handle # h
    BY <1>2, <1>6, <1>7, <1>10
  <1>11. AdditionsOwn'
    <2>1. ASSUME NEW i \in DOMAIN alerts', UserAlert(alerts'[i])
          PROVE  /\ natives'[alerts'[i].handle].alive
                 /\ alerts'[i].hashes \subseteq natives'[alerts'[i].handle].hashes
                 /\ alerts'[i].handle \notin DOMAIN torrents'
                 /\ \A t \in DOMAIN torrents' : torrents'[t].handle # alerts'[i].handle
      BY <1>1, <1>4, <1>10, <2>1 DEF RegistryInv, AdditionsOwn
    <2>2. ASSUME NEW i \in DOMAIN alerts', UserAlert(alerts'[i]),
                 NEW j \in DOMAIN alerts', UserAlert(alerts'[j]), j # i
          PROVE  alerts'[j].handle # alerts'[i].handle
      BY <1>6, <1>10, <2>2 DEF RegistryInv, AdditionsOwn
    <2> QED
      BY <2>1, <2>2 DEF AdditionsOwn
  <1>12. HiddenApart'
    <2>1. ASSUME NEW k, IsUsers(k)' PROVE IsUsers(k)
      <3>1. CASE \E i \in DOMAIN alerts' : UserAlert(alerts'[i]) /\ alerts'[i].handle = k
        BY <1>10, <3>1 DEF IsUsers
      <3>2. CASE \E t \in DOMAIN torrents' : torrents'[t].handle = k
        BY <1>1, <1>4, <3>2 DEF IsUsers
      <3> QED
        BY <2>1, <3>1, <3>2 DEF IsUsers
    <2>2. \A k : IsHidden(k)' => IsHidden(k)
      BY <1>6 DEF IsHidden
    <2> QED
      BY <2>1, <2>2 DEF RegistryInv, HiddenApart
  <1>13. JobsAreFull'
    BY <1>1, <1>4 DEF RegistryInv, JobsAreFull
  <1>14. MetadataIsFull'
    <2> SUFFICES ASSUME NEW i \in DOMAIN alerts', alerts'[i].type = "metadata"
                 PROVE  LET hashes == natives'[alerts'[i].handle].hashes IN
                        /\ Full(hashes)
                        /\ \A u \in DOMAIN torrents' :
                             ContentOf(torrents'[u].hashes) = ContentOf(hashes)
                               => Full(natives'[torrents'[u].handle].hashes)
                        /\ \A j \in DOMAIN alerts' : UserAlert(alerts'[j]) =>
                             /\ alerts'[j].handle = alerts'[i].handle => j < i
                             /\ j < i /\ ContentOf(natives'[alerts'[j].handle].hashes) = ContentOf(hashes)
                                  => Full(natives'[alerts'[j].handle].hashes)
      BY DEF MetadataIsFull, UserAlert, Full
    <2>1. /\ i + 1 \in DOMAIN alerts /\ alerts'[i] = alerts[i + 1] /\ 1 < i + 1
      BY <1>6, <1>7
    <2> DEFINE b == natives[alerts[i + 1].handle].hashes
    <2>2. Full(b)
      BY <2>1 DEF RegistryInv, MetadataIsFull
    <2>3. \A u \in DOMAIN torrents :
            ContentOf(torrents[u].hashes) = ContentOf(b) => Full(natives[torrents[u].handle].hashes)
      BY <2>1 DEF RegistryInv, MetadataIsFull
    <2>4. ContentOf(natives[h].hashes) = ContentOf(b) => Full(natives[h].hashes)
      BY <2>1 DEF RegistryInv, MetadataIsFull
    <2>5. \A u \in DOMAIN torrents' :
            ContentOf(torrents'[u].hashes) = ContentOf(b) => Full(natives[torrents'[u].handle].hashes)
      BY <1>1, <1>4, <2>3, <2>4
    <2>6. ASSUME NEW j \in DOMAIN alerts', UserAlert(alerts'[j])
          PROVE  /\ alerts'[j].handle = alerts'[i].handle => j < i
                 /\ j < i /\ ContentOf(natives[alerts'[j].handle].hashes) = ContentOf(b)
                      => Full(natives[alerts'[j].handle].hashes)
      <3>1. j + 1 \in DOMAIN alerts /\ alerts'[j] = alerts[j + 1] /\ UserAlert(alerts[j + 1])
        BY <1>10, <2>6
      <3>2. /\ alerts[j + 1].handle = alerts[i + 1].handle => j + 1 < i + 1
            /\ j + 1 < i + 1 /\ ContentOf(natives[alerts[j + 1].handle].hashes) = ContentOf(b)
                 => Full(natives[alerts[j + 1].handle].hashes)
        BY <2>1, <3>1 DEF RegistryInv, MetadataIsFull
      <3> QED
        BY <1>6, <2>1, <3>1, <3>2
    <2> QED
      BY <2>1, <2>2, <2>5, <2>6
  <1> QED
    BY <1>6, <1>8, <1>9, <1>11, <1>12, <1>13, <1>14 DEF RegistryInv

\* The handler of an addition.
LEMMA HandleAddedKeeps ==
    ASSUME RegistryInv, Answering(addHandlers, alerts), HandleAdded
    PROVE  RegistryInv'
  <1> DEFINE h == Head(alerts).handle
  <1>1. /\ alerts # <<>> /\ Head(alerts).type = "add" /\ Head(addHandlers) = "user"
        /\ UNCHANGED <<natives, downloaded, pending>>
    BY DEF HandleAdded, NextAlert
  <1>2. Head(alerts).answers = "user"
    BY <1>1, AnsweringHandled
  <1>3. 1 \in DOMAIN alerts /\ Head(alerts) = alerts[1] /\ alerts \in Seq(AlertType)
        /\ AlertFits(Head(alerts), natives)
    BY <1>1, HeadAlert
  <1>4. CASE h = None
    <2>1. alerts' = Tail(alerts) /\ UNCHANGED <<torrents, registry, altIndex>>
      BY <1>4 DEF HandleAdded
    <2>2. AlertsStep(1, NoAlert)
      BY <1>1, <1>3, <2>1, AlertsTaken
    <2>3. PendingTyped'
      BY <1>1, <2>1, PendingKept
    <2>4. QuietStep(1, NoAlert)
      BY <1>1, <2>1, <2>2, NothingChanged DEF QuietStep
    <2> QED
      BY <2>3, <2>4, Quiet
  <1>5. CASE h # None
    <2> DEFINE x == Saved(natives, h)
    <2>1. UserAlert(alerts[1]) /\ h \in DOMAIN natives /\ h = alerts[1].handle
      BY <1>1, <1>2, <1>3, <1>5 DEF UserAlert, AlertFits
    <2>2. alerts' = Tail(alerts) \o SaveResumeData(natives, h)
      BY <1>5 DEF HandleAdded
    <2>3. torrents' = [o \in DOMAIN torrents \cup {h} |-> IF o = h THEN NewTorrent(h) ELSE torrents[o]]
      BY <1>5 DEF HandleAdded, NewTorrent
    <2>4. /\ registry' = [registry EXCEPT ![ToTorrentID(natives[h].hashes)] = h]
          /\ altIndex' = IF IsHybrid(natives[h].hashes)
                         THEN [altIndex EXCEPT ![V1(natives[h].hashes)] = h] ELSE altIndex
      BY <1>5 DEF HandleAdded
    <2> HIDE DEF h
    <2>5. NativesTyped
      BY DEF RegistryInv
    <2>6. AlertsStep(1, x)
      BY <1>1, <1>3, <2>1, <2>2, <2>5, AlertsTakenSaved
    <2>7. x.type = "resume" /\ x.handle = h /\ x.answers = "none"
      BY <2>1, <2>5, SavedType
    <2>8. IndexesAgree' /\ registry' \in [ID -> Nat] /\ altIndex' \in [ID -> Nat]
      BY <1>3, <2>1, <2>3, <2>4, AddedIndexes
    <2> HIDE DEF x
    <2> QED
      BY <1>1, <1>3, <2>1, <2>3, <2>6, <2>7, <2>8, AddedKeeps
  <1> QED
    BY <1>4, <1>5

-----------------------------------------------------------------------------
(* A torrent learns its other hash.                                        *)

\* What a torrent's own native torrent knows is nothing that another's does.
LEMMA TorrentsApart ==
    ASSUME RegistryInv, NEW t \in DOMAIN torrents, NEW u \in DOMAIN torrents, u # t
    PROVE  torrents[u].hashes \cap natives[torrents[t].handle].hashes = {}
  <1>1. torrents[u].handle \in DOMAIN natives /\ torrents[t].handle \in DOMAIN natives
    BY TorrentParts
  <1>2. /\ natives[torrents[t].handle].alive /\ natives[torrents[u].handle].alive
        /\ torrents[u].hashes \subseteq natives[torrents[u].handle].hashes
        /\ torrents[u].handle # torrents[t].handle
    BY DEF RegistryInv, TorrentsOwn
  <1>3. natives[torrents[u].handle].hashes \cap natives[torrents[t].handle].hashes = {}
    BY <1>1, <1>2 DEF RegistryInv, NativesApart
  <1> QED
    BY <1>2, <1>3

\* A hash more is known only of a hybrid torrent, of which one was.
LEMMA HashesLearned ==
    ASSUME NEW a \in InfoHash, NEW b \in InfoHash, a \subseteq b, a # b
    PROVE  IsHybrid(b) /\ ~IsHybrid(a)
  <1>1. IsHybrid(b)
    <2>1. ~IsHybrid(b) => \A i, j \in b : i = j
      BY HashesKnown
    <2>2. a # {}
      BY HashesKnown
    <2> QED
      BY <2>1, <2>2
  <1>2. ~IsHybrid(a)
    <2>1. ContentOf(a) = ContentOf(b)
      BY HashesMeet
    <2>2. IsHybrid(a) => a = AllHashes(ContentOf(a))
      BY HashesKnown
    <2>3. b = AllHashes(ContentOf(b))
      BY <1>1, HashesKnown
    <2> QED
      BY <2>1, <2>2, <2>3
  <1> QED
    BY <1>1, <1>2

\* Its entries change, and no other's.
LEMMA ChangedIndexes ==
    ASSUME RegistryInv, NEW t \in DOMAIN torrents,
           NEW b, b = natives[torrents[t].handle].hashes, torrents[t].hashes # b,
           InfoHashChanged(t, b),
           DOMAIN torrents' = DOMAIN torrents, torrents'[t].hashes = b,
           \A u \in DOMAIN torrents : u # t => torrents'[u].hashes = torrents[u].hashes
    PROVE  IndexesAgree' /\ registry' \in [ID -> Nat] /\ altIndex' \in [ID -> Nat]
  <1> DEFINE a == torrents[t].hashes
             prev == ToTorrentID(a)
             cur == ToTorrentID(b)
  <1>1. a \in InfoHash /\ b \in InfoHash /\ a \subseteq b /\ a # b /\ t \in Nat /\ t # None
    BY TorrentParts, NativeParts DEF RegistryInv, TorrentsOwn
  <1>2. registry \in [ID -> Nat] /\ altIndex \in [ID -> Nat]
    BY DEF RegistryInv, MapsTyped
  <1>3. /\ altIndex' = [altIndex EXCEPT ![V1(b)] = t]
        /\ cur # prev => registry' = [registry EXCEPT ![prev] = None, ![cur] = t]
        /\ cur = prev => registry' = registry
    BY DEF InfoHashChanged, TorrentID
  <1> HIDE DEF a, prev, cur
  <1>4. IsHybrid(b)
    BY <1>1, HashesLearned
  <1>5. ~IsHybrid(a)
    BY <1>1, HashesLearned
  <1>6. /\ cur \in ID /\ V1(b) \in ID /\ cur \in b /\ V1(b) \in b
        /\ prev \in ID /\ prev \in b
    <2>1. ToTorrentID(a) \in a /\ ToTorrentID(a) \in ID
      BY <1>1, HashesKnown, HashesNamed
    <2>2. ToTorrentID(b) \in b /\ ToTorrentID(b) \in ID /\ V1(b) \in ID /\ V1(b) \in b
      BY <1>1, <1>4, HashesKnown, HashesNamed
    <2> QED
      BY <1>1, <2>1, <2>2 DEF prev, cur
  <1>7. registry[prev] = t
    BY DEF RegistryInv, IndexesAgree, prev, a
  <1>8. /\ registry' \in [ID -> Nat] /\ registry'[cur] = t
        /\ cur # prev => registry'[prev] = None
        /\ \A i \in ID : i # cur /\ i # prev => registry'[i] = registry[i]
    BY <1>1, <1>2, <1>3, <1>6, <1>7 DEF None
  <1>9. /\ altIndex' \in [ID -> Nat] /\ altIndex'[V1(b)] = t
        /\ \A i \in ID : i # V1(b) => altIndex'[i] = altIndex[i]
    BY <1>1, <1>2, <1>3, <1>6
  <1>10. ASSUME NEW u \in DOMAIN torrents, u # t
         PROVE  /\ registry'[ToTorrentID(torrents[u].hashes)] = u
                /\ IsHybrid(torrents[u].hashes) => altIndex'[V1(torrents[u].hashes)] = u
    <2> DEFINE c == torrents[u].hashes
    <2>1. c \in InfoHash /\ c \cap b = {}
      BY <1>10, TorrentParts, TorrentsApart
    <2>2. ToTorrentID(c) \in ID /\ ToTorrentID(c) \in c /\ V1(c) \in ID /\ (IsHybrid(c) => V1(c) \in c)
      BY <2>1, HashesNamed, HashesKnown
    <2>3. registry[ToTorrentID(c)] = u /\ (IsHybrid(c) => altIndex[V1(c)] = u)
      BY DEF RegistryInv, IndexesAgree
    <2> HIDE DEF c
    <2>4. registry'[ToTorrentID(c)] = u
      BY <1>6, <1>8, <2>1, <2>2, <2>3
    <2>5. IsHybrid(c) => altIndex'[V1(c)] = u
      BY <1>6, <1>9, <2>1, <2>2, <2>3
    <2> QED
      BY <2>4, <2>5 DEF c
  <1>11. ASSUME NEW i \in ID, registry'[i] # None
         PROVE  registry'[i] \in DOMAIN torrents' /\ ToTorrentID(torrents'[registry'[i]].hashes) = i
    <2>1. CASE i = cur
      BY <1>8, <2>1 DEF cur
    <2>2. CASE i # cur
      <3>1. i # prev /\ registry'[i] = registry[i] /\ registry[i] # None
        BY <1>8, <1>11, <2>2
      <3>2. registry[i] \in DOMAIN torrents /\ ToTorrentID(torrents[registry[i]].hashes) = i
        BY <3>1 DEF RegistryInv, IndexesAgree
      <3>3. registry[i] # t
        BY <3>1, <3>2 DEF prev, a
      <3> QED
        BY <3>1, <3>2, <3>3
    <2> QED
      BY <2>1, <2>2
  <1>12. ASSUME NEW i \in ID, altIndex'[i] # None
         PROVE  /\ altIndex'[i] \in DOMAIN torrents'
                /\ IsHybrid(torrents'[altIndex'[i]].hashes) /\ V1(torrents'[altIndex'[i]].hashes) = i
    <2>1. CASE i = V1(b)
      BY <1>4, <1>9, <2>1
    <2>2. CASE i # V1(b)
      <3>1. altIndex'[i] = altIndex[i] /\ altIndex[i] # None
        BY <1>9, <1>12, <2>2
      <3>2. /\ altIndex[i] \in DOMAIN torrents
            /\ IsHybrid(torrents[altIndex[i]].hashes) /\ V1(torrents[altIndex[i]].hashes) = i
        BY <3>1 DEF RegistryInv, IndexesAgree
      <3>3. altIndex[i] # t
        BY <1>5, <3>2 DEF a
      <3> QED
        BY <3>1, <3>2, <3>3
    <2> QED
      BY <2>1, <2>2
  <1>13. \A u \in DOMAIN torrents' :
           /\ registry'[ToTorrentID(torrents'[u].hashes)] = u
           /\ IsHybrid(torrents'[u].hashes) => altIndex'[V1(torrents'[u].hashes)] = u
    <2>1. registry'[ToTorrentID(torrents'[t].hashes)] = t
          /\ (IsHybrid(torrents'[t].hashes) => altIndex'[V1(torrents'[t].hashes)] = t)
      BY <1>8, <1>9 DEF cur
    <2> QED
      BY <1>10, <2>1
  <1>14. IndexesAgree'
    BY <1>11, <1>12, <1>13 DEF IndexesAgree
  <1> QED
    BY <1>8, <1>9, <1>14

\* An alert of metadata is about the torrent of the content.
LEMMA MetadataIsFor ==
    ASSUME RegistryInv, alerts # <<>>, Head(alerts).type = "metadata",
           NEW t, t = MetadataFor(Head(alerts).handle), t # None
    PROVE  t \in DOMAIN torrents /\ Full(natives[torrents[t].handle].hashes)
  <1> DEFINE b == natives[Head(alerts).handle].hashes
             a == torrents[t].hashes
  <1>1. /\ 1 \in DOMAIN alerts /\ Head(alerts) = alerts[1] /\ b \in InfoHash
    BY HeadAlert
  <1>2. /\ \/ t = registry[ToTorrentID(b)]
           \/ IsHybrid(b) /\ t = registry[V1(b)]
    BY DEF MetadataFor, TorrentOf
  <1>3. ToTorrentID(b) \in ID /\ ToTorrentID(b) \in b /\ V1(b) \in ID /\ (IsHybrid(b) => V1(b) \in b)
    BY <1>1, HashesNamed, HashesKnown
  <1>4. t \in DOMAIN torrents /\ ToTorrentID(a) \in b
    BY <1>2, <1>3 DEF RegistryInv, IndexesAgree
  <1>5. a \in InfoHash
    BY <1>4, TorrentParts
  <1>6. ToTorrentID(a) \in a
    BY <1>5, HashesKnown
  <1> HIDE DEF a, b
  <1>7. ContentOf(a) = ContentOf(b)
    BY <1>1, <1>4, <1>5, <1>6, HashesMeet
  <1> QED
    BY <1>1, <1>4, <1>7 DEF RegistryInv, MetadataIsFull, a, b

LEMMA RenamedKeeps ==
    ASSUME RegistryInv, AlertsStep(1, NoAlert), NEW t \in DOMAIN torrents,
           NEW b, b = natives[torrents[t].handle].hashes, Full(b),
           torrents' \in [DOMAIN torrents -> TorrentType],
           \A u \in DOMAIN torrents : torrents'[u].handle = torrents[u].handle,
           \A u \in DOMAIN torrents : u # t => torrents'[u] = torrents[u],
           torrents'[t].hashes = b,
           IndexesAgree', registry' \in [ID -> Nat], altIndex' \in [ID -> Nat],
           PendingTyped', UNCHANGED <<natives, downloaded>>
    PROVE  RegistryInv'
  <1>1. DOMAIN torrents' = DOMAIN torrents
    OBVIOUS
  <1>2. /\ AlertsTyped'
        /\ \A i \in DOMAIN alerts' :
             UserAlert(alerts'[i]) \/ HiddenAlert(alerts'[i]) \/ alerts'[i].type = "metadata" =>
               i + 1 \in DOMAIN alerts /\ alerts'[i] = alerts[i + 1]
        /\ \A i, j \in DOMAIN alerts' : (i < j <=> i + 1 < j + 1) /\ (i # j => i + 1 # j + 1)
    BY NoAlertPlain, PlainAlerts
  <1>3. NativesTyped' /\ TorrentsTyped' /\ MapsTyped' /\ NativesApart'
    BY <1>1 DEF RegistryInv, NativesTyped, TorrentsTyped, MapsTyped, NativesApart
  <1>4. TorrentsOwn'
    BY <1>1 DEF RegistryInv, TorrentsOwn
  <1>5. AdditionsOwn'
    <2>1. ASSUME NEW i \in DOMAIN alerts', UserAlert(alerts'[i])
          PROVE  i + 1 \in DOMAIN alerts /\ alerts'[i] = alerts[i + 1] /\ UserAlert(alerts[i + 1])
      BY <1>2, <2>1
    <2> QED
      BY <1>1, <1>2, <2>1 DEF RegistryInv, AdditionsOwn
  <1>6. HiddenApart'
    <2>1. \A k : IsUsers(k)' => IsUsers(k)
      BY <1>1, <1>2 DEF IsUsers
    <2>2. \A k : IsHidden(k)' => IsHidden(k)
      BY <1>2 DEF IsHidden
    <2> QED
      BY <2>1, <2>2 DEF RegistryInv, HiddenApart
  <1>7. JobsAreFull'
    BY <1>1 DEF RegistryInv, JobsAreFull
  <1>8. MetadataIsFull'
    <2> SUFFICES ASSUME NEW i \in DOMAIN alerts', alerts'[i].type = "metadata"
                 PROVE  LET hashes == natives'[alerts'[i].handle].hashes IN
                        /\ Full(hashes)
                        /\ \A u \in DOMAIN torrents' :
                             ContentOf(torrents'[u].hashes) = ContentOf(hashes)
                               => Full(natives'[torrents'[u].handle].hashes)
                        /\ \A j \in DOMAIN alerts' : UserAlert(alerts'[j]) =>
                             /\ alerts'[j].handle = alerts'[i].handle => j < i
                             /\ j < i /\ ContentOf(natives'[alerts'[j].handle].hashes) = ContentOf(hashes)
                                  => Full(natives'[alerts'[j].handle].hashes)
      BY DEF MetadataIsFull, UserAlert, Full
    <2>1. i + 1 \in DOMAIN alerts /\ alerts'[i] = alerts[i + 1]
      BY <1>2
    <2> DEFINE c == natives[alerts[i + 1].handle].hashes
    <2>2. /\ Full(c)
          /\ \A u \in DOMAIN torrents :
               ContentOf(torrents[u].hashes) = ContentOf(c) => Full(natives[torrents[u].handle].hashes)
      BY <2>1 DEF RegistryInv, MetadataIsFull
    <2>3. \A u \in DOMAIN torrents' :
            ContentOf(torrents'[u].hashes) = ContentOf(c) => Full(natives[torrents'[u].handle].hashes)
      BY <1>1, <2>2
    <2>4. ASSUME NEW j \in DOMAIN alerts', UserAlert(alerts'[j])
          PROVE  /\ alerts'[j].handle = alerts'[i].handle => j < i
                 /\ j < i /\ ContentOf(natives[alerts'[j].handle].hashes) = ContentOf(c)
                      => Full(natives[alerts'[j].handle].hashes)
      <3>1. j + 1 \in DOMAIN alerts /\ alerts'[j] = alerts[j + 1] /\ UserAlert(alerts[j + 1])
        BY <1>2, <2>4
      <3>2. /\ alerts[j + 1].handle = alerts[i + 1].handle => j + 1 < i + 1
            /\ j + 1 < i + 1 /\ ContentOf(natives[alerts[j + 1].handle].hashes) = ContentOf(c)
                 => Full(natives[alerts[j + 1].handle].hashes)
        BY <2>1, <3>1 DEF RegistryInv, MetadataIsFull
      <3> QED
        BY <1>2, <2>1, <3>1, <3>2
    <2> QED
      BY <2>1, <2>2, <2>3, <2>4
  <1> QED
    BY <1>2, <1>3, <1>4, <1>5, <1>6, <1>7, <1>8 DEF RegistryInv

\* The torrent's record when its hashes are known.
LEMMA WaitingTorrent ==
    ASSUME RegistryInv, NEW t \in DOMAIN torrents, NEW b \in InfoHash,
           torrents' = [torrents EXCEPT ![t].hashes = b, ![t].job = TRUE]
    PROVE  /\ torrents' \in [DOMAIN torrents -> TorrentType]
           /\ torrents'[t].hashes = b /\ torrents'[t].handle = torrents[t].handle
           /\ torrents'[t].stored = torrents[t].stored
           /\ \A u \in DOMAIN torrents : u # t => torrents'[u] = torrents[u]
  <1> DEFINE x == [torrents[t] EXCEPT !.hashes = b, !.job = TRUE]
  <1>1. torrents \in [DOMAIN torrents -> TorrentType] /\ torrents[t] \in TorrentType
    BY DEF RegistryInv, TorrentsTyped
  <1>2. x \in TorrentType /\ x.hashes = b /\ x.handle = torrents[t].handle /\ x.stored = torrents[t].stored
    BY <1>1 DEF TorrentType
  <1>3. torrents' = [torrents EXCEPT ![t] = x]
    BY <1>1 DEF TorrentType
  <1> HIDE DEF x
  <1> QED
    BY <1>1, <1>2, <1>3

\* handleMetadataReceived
LEMMA HandleMetadataKeeps ==
    ASSUME RegistryInv, HandleMetadata
    PROVE  RegistryInv'
  <1> DEFINE t == MetadataFor(Head(alerts).handle)
             b == natives[torrents[t].handle].hashes
  <1>1. /\ alerts # <<>> /\ Head(alerts).type = "metadata" /\ t # None /\ alerts' = Tail(alerts)
        /\ torrents' = [torrents EXCEPT ![t].hashes = b, ![t].job = TRUE]
        /\ torrents[t].hashes # b => InfoHashChanged(t, b)
        /\ torrents[t].hashes = b => UNCHANGED <<registry, altIndex>>
        /\ pending' = pending (+) Deferred(t)
        /\ UNCHANGED <<natives, downloaded>>
    BY DEF HandleMetadata, NextAlert
  <1>2. t \in DOMAIN torrents /\ Full(b)
    BY <1>1, MetadataIsFor
  <1>3. b \in InfoHash
    BY <1>2, TorrentParts
  <1> DEFINE call == RequestCall(t)
  <1>4. DOMAIN pending' \subseteq DOMAIN pending \cup {call}
    BY <1>1, Calls DEF Deferred
  <1> HIDE DEF t
  <1>5. /\ torrents' \in [DOMAIN torrents -> TorrentType]
        /\ torrents'[t].hashes = b /\ torrents'[t].handle = torrents[t].handle
        /\ \A u \in DOMAIN torrents : u # t => torrents'[u] = torrents[u]
    BY <1>1, <1>2, <1>3, WaitingTorrent
  <1>6. CallFits(call, natives', torrents')
    BY <1>2, <1>5, CallsFit
  <1>7. \A u \in DOMAIN torrents : torrents'[u].handle = torrents[u].handle
    BY <1>5
  <1> HIDE DEF call
  <1>8. PendingTyped'
    BY <1>1, <1>4, <1>5, <1>6, PendingKept
  <1>9. AlertsStep(1, NoAlert)
    BY <1>1, HeadAlert, AlertsTaken
  <1>10. IndexesAgree' /\ registry' \in [ID -> Nat] /\ altIndex' \in [ID -> Nat]
    <2>1. CASE torrents[t].hashes = b
      <3>1. \A u \in DOMAIN torrents : torrents'[u].hashes = torrents[u].hashes
        BY <1>5, <2>1
      <3>2. DOMAIN torrents' = DOMAIN torrents
        BY <1>5
      <3>3. IndexesAgree /\ registry \in [ID -> Nat] /\ altIndex \in [ID -> Nat]
        BY DEF RegistryInv, MapsTyped
      <3>4. registry' = registry /\ altIndex' = altIndex
        BY <1>1, <2>1
      <3> QED
        BY <3>1, <3>2, <3>3, <3>4 DEF IndexesAgree
    <2>2. CASE torrents[t].hashes # b
      <3>1. InfoHashChanged(t, b)
        BY <1>1, <2>2
      <3>2. DOMAIN torrents' = DOMAIN torrents
            /\ \A u \in DOMAIN torrents : u # t => torrents'[u].hashes = torrents[u].hashes
        BY <1>5
      <3> QED
        BY <1>2, <1>5, <2>2, <3>1, <3>2, ChangedIndexes
    <2> QED
      BY <2>1, <2>2
  <1> QED
    BY <1>1, <1>2, <1>5, <1>7, <1>8, <1>9, <1>10, RenamedKeeps

-----------------------------------------------------------------------------
(* A torrent goes on with another native torrent.                          *)

\* The torrent's record when it is loaded again.
LEMMA ReloadedTorrent ==
    ASSUME RegistryInv, NEW t \in DOMAIN torrents, NEW h \in Nat, torrents' = Reloaded(t, h)
    PROVE  /\ torrents' \in [DOMAIN torrents -> TorrentType]
           /\ torrents'[t].hashes = torrents[t].hashes /\ torrents'[t].handle = h
           /\ torrents'[t].job = FALSE
           /\ \A u \in DOMAIN torrents : u # t => torrents'[u] = torrents[u]
  <1> DEFINE x == [torrents[t] EXCEPT !.handle = h, !.meta = TRUE, !.job = FALSE, !.stored = TRUE]
  <1>1. torrents \in [DOMAIN torrents -> TorrentType] /\ torrents[t] \in TorrentType
    BY DEF RegistryInv, TorrentsTyped
  <1>2. x \in TorrentType /\ x.hashes = torrents[t].hashes /\ x.handle = h /\ x.job = FALSE
    BY <1>1 DEF TorrentType
  <1>3. torrents' = [torrents EXCEPT ![t] = x]
    BY <1>1 DEF TorrentType, Reloaded
  <1> HIDE DEF x
  <1> QED
    BY <1>1, <1>2, <1>3

\* A torrent that waits for its files knows all its hashes by its native one.
LEMMA ReloadedHashes ==
    ASSUME RegistryInv, NEW t \in DOMAIN torrents, torrents[t].job,
           NEW all, all = AllHashes(ContentOf(torrents[t].hashes))
    PROVE  /\ natives[torrents[t].handle].hashes = all
           /\ all \in InfoHash /\ Full(all) /\ torrents[t].hashes \subseteq all
  <1> DEFINE b == natives[torrents[t].handle].hashes
             a == torrents[t].hashes
  <1>1. a \in InfoHash /\ b \in InfoHash
    BY TorrentParts
  <1>2. a \subseteq b
    BY DEF RegistryInv, TorrentsOwn
  <1>3. Full(b)
    BY DEF RegistryInv, JobsAreFull
  <1> HIDE DEF a, b
  <1>4. ContentOf(a) = ContentOf(b)
    BY <1>1, <1>2, HashesMeet
  <1>5. b = all
    BY <1>3, <1>4 DEF Full, a
  <1> QED
    BY <1>1, <1>2, <1>3, <1>5 DEF a, b

\* One native torrent for another of the same hashes.
Replacing(k, h, all) ==
  /\ natives' \in Seq(NativeType) /\ DOMAIN natives' = DOMAIN natives \cup {h}
  /\ h \notin DOMAIN natives /\ h \in Nat /\ h # None /\ h # Requested
  /\ natives'[h].hashes = all /\ natives'[h].meta = TRUE /\ natives'[h].alive = TRUE
  /\ \A j \in DOMAIN natives : /\ natives'[j].hashes = natives[j].hashes
                               /\ natives'[j].meta = natives[j].meta
                               /\ natives'[j].alive <=> natives[j].alive /\ j # k

LEMMA ReplacedNative ==
    ASSUME NativesTyped, NEW k \in DOMAIN natives, NEW all \in InfoHash,
           natives' = Append(Removed(natives, k), NewNative(all, TRUE)),
           NEW h, h = Len(natives) + 1
    PROVE  Replacing(k, h, all)
  <1> DEFINE r == Removed(natives, k)
             n == NewNative(all, TRUE)
  <1>1. natives \in Seq(NativeType)
    BY DEF NativesTyped
  <1>2. /\ r \in Seq(NativeType) /\ DOMAIN r = DOMAIN natives /\ Len(r) = Len(natives)
        /\ \A j \in DOMAIN natives : /\ r[j].hashes = natives[j].hashes /\ r[j].meta = natives[j].meta
                                     /\ r[j].alive <=> natives[j].alive /\ j # k
    BY <1>1, RemovedNative
  <1>3. n \in NativeType /\ n.hashes = all /\ n.meta = TRUE /\ n.alive = TRUE
    BY DEF NewNative, NativeType
  <1> HIDE DEF r, n
  <1>4. /\ Append(r, n) \in Seq(NativeType) /\ Len(r) \in Nat
        /\ DOMAIN r = 1..Len(r) /\ DOMAIN Append(r, n) = 1 .. Len(r) + 1
        /\ \A i \in DOMAIN r : Append(r, n)[i] = r[i]
        /\ Append(r, n)[Len(r) + 1] = n
    <2>1. r \in Seq(NativeType)
      BY <1>2
    <2>2. n \in NativeType
      BY <1>3
    <2>3. /\ Append(r, n) \in Seq(NativeType) /\ Len(r) \in Nat
          /\ DOMAIN r = 1..Len(r) /\ DOMAIN Append(r, n) = 1 .. Len(r) + 1
      BY <2>1, <2>2, AppendElements
    <2>4. \A i \in DOMAIN r : Append(r, n)[i] = r[i]
      BY <2>1, <2>2, AppendElements
    <2>5. Append(r, n)[Len(r) + 1] = n
      BY <2>1, <2>2, AppendElements
    <2> QED
      BY <2>3, <2>4, <2>5
  <1>5. natives' = Append(r, n) /\ h = Len(r) + 1
    BY <1>2 DEF r, n
  <1>6. DOMAIN natives' = DOMAIN natives \cup {h} /\ h \notin DOMAIN natives /\ h \in Nat
        /\ h # None /\ h # Requested
    <2>1. DOMAIN r = DOMAIN natives
      BY <1>2
    <2> QED
      BY <2>1, <1>4, <1>5 DEF None, Requested
  <1> QED
    BY <1>2, <1>3, <1>4, <1>5, <1>6 DEF Replacing

\* The torrent goes on with native torrent h, of the hashes of the old one.
ReloadStep(t, h, x) ==
  /\ natives' \in Seq(NativeType) /\ DOMAIN natives' = DOMAIN natives \cup {h}
  /\ h \notin DOMAIN natives /\ h \in Nat /\ h # None /\ h # Requested
  /\ natives'[h].hashes = natives[torrents[t].handle].hashes /\ natives'[h].alive = TRUE
  /\ \A j \in DOMAIN natives : /\ natives'[j].hashes = natives[j].hashes
                               /\ natives'[j].alive <=> natives[j].alive /\ j # torrents[t].handle
  /\ torrents' \in [DOMAIN torrents -> TorrentType]
  /\ torrents'[t].hashes = torrents[t].hashes /\ torrents'[t].handle = h
  /\ torrents'[t].job = FALSE
  /\ \A u \in DOMAIN torrents : u # t => torrents'[u] = torrents[u]
  /\ AlertsStep(0, x) /\ PlainAlert(x)

LEMMA ReloadKeeps ==
    ASSUME RegistryInv, NEW t \in DOMAIN torrents, torrents[t].job,
           NEW h, NEW x, ReloadStep(t, h, x),
           DOMAIN pending' \subseteq DOMAIN pending,
           UNCHANGED <<registry, altIndex, downloaded>>
    PROVE  RegistryInv'
  <1> DEFINE k == torrents[t].handle
             all == natives[k].hashes
  <1> USE DEF ReloadStep
  <1>0. Full(all) /\ torrents[t].hashes \subseteq all
    BY DEF RegistryInv, JobsAreFull, TorrentsOwn
  <1>1. DOMAIN torrents' = DOMAIN torrents /\ DOMAIN natives \subseteq DOMAIN natives'
    OBVIOUS
  <1>2. /\ k \in DOMAIN natives /\ natives[k].alive
        /\ \A u \in DOMAIN torrents : u # t => torrents[u].handle # k
        /\ \A u \in DOMAIN torrents : torrents[u].handle \in DOMAIN natives /\ u \in DOMAIN natives
    BY TorrentParts DEF RegistryInv, TorrentsOwn
  <1>3. /\ AlertsTyped'
        /\ \A i \in DOMAIN alerts' :
             UserAlert(alerts'[i]) \/ HiddenAlert(alerts'[i]) \/ alerts'[i].type = "metadata" =>
               i + 0 \in DOMAIN alerts /\ alerts'[i] = alerts[i + 0]
        /\ \A i \in DOMAIN alerts' : i \in Nat
    BY <1>1, PlainAlerts
  <1>4. ASSUME NEW i \in DOMAIN alerts',
               UserAlert(alerts'[i]) \/ HiddenAlert(alerts'[i]) \/ alerts'[i].type = "metadata"
        PROVE  i \in DOMAIN alerts /\ alerts'[i] = alerts[i] /\ alerts[i].handle \in DOMAIN natives
    <2>1. i + 0 = i
      BY <1>3
    <2>2. i \in DOMAIN alerts /\ alerts'[i] = alerts[i]
      BY <1>3, <1>4, <2>1
    <2>3. AlertFits(alerts[i], natives)
      BY <2>2, AlertParts
    <2> QED
      BY <1>4, <2>2, <2>3 DEF AlertFits, UserAlert, HiddenAlert
  <1>5. ASSUME NEW i \in DOMAIN alerts', UserAlert(alerts'[i])
        PROVE  alerts[i].handle # k /\ alerts'[i].handle # h
    <2>1. i \in DOMAIN alerts /\ alerts'[i] = alerts[i] /\ alerts[i].handle \in DOMAIN natives
      BY <1>4, <1>5
    <2>2. alerts[i].handle # k
      BY <1>5, <2>1 DEF RegistryInv, AdditionsOwn
    <2> QED
      BY <2>1, <2>2
  <1>6. NativesTyped' /\ TorrentsTyped' /\ MapsTyped' /\ PendingTyped'
    <2>1. NativesTyped'
      BY DEF NativesTyped
    <2>2. TorrentsTyped'
      BY <1>1, <1>2 DEF TorrentsTyped
    <2>3. MapsTyped'
      BY <1>1 DEF RegistryInv, MapsTyped
    <2>4. PendingTyped'
      BY <1>1, PendingKept
    <2> QED
      BY <2>1, <2>2, <2>3, <2>4
  <1>7. NativesApart'
    <2>1. \A j \in DOMAIN natives : natives[j].alive /\ j # k => natives[j].hashes \cap all = {}
      BY <1>2 DEF RegistryInv, NativesApart
    <2> QED
      BY <2>1 DEF RegistryInv, NativesApart
  <1>8. TorrentsOwn'
    <2>1. ASSUME NEW u \in DOMAIN torrents, u # t
          PROVE  /\ natives'[torrents'[u].handle].alive
                 /\ torrents'[u].hashes \subseteq natives'[torrents'[u].handle].hashes
                 /\ torrents'[u].handle # h
                 /\ \A v \in DOMAIN torrents : v # t /\ v # u => torrents'[v].handle # torrents'[u].handle
      BY <1>2, <2>1 DEF RegistryInv, TorrentsOwn
    <2>2. natives'[torrents'[t].handle].alive /\ torrents'[t].hashes \subseteq natives'[torrents'[t].handle].hashes
      BY <1>0
    <2>3. torrents'[t].handle = h
      OBVIOUS
    <2> QED
      BY <1>1, <2>1, <2>2, <2>3 DEF TorrentsOwn
  <1>9. AdditionsOwn'
    <2>1. ASSUME NEW i \in DOMAIN alerts', UserAlert(alerts'[i])
          PROVE  /\ natives'[alerts'[i].handle].alive
                 /\ alerts'[i].hashes \subseteq natives'[alerts'[i].handle].hashes
                 /\ alerts'[i].handle \notin DOMAIN torrents'
                 /\ \A u \in DOMAIN torrents' : torrents'[u].handle # alerts'[i].handle
      BY <1>1, <1>4, <1>5, <2>1 DEF RegistryInv, AdditionsOwn
    <2>2. ASSUME NEW i \in DOMAIN alerts', UserAlert(alerts'[i]),
                 NEW j \in DOMAIN alerts', UserAlert(alerts'[j]), j # i
          PROVE  alerts'[j].handle # alerts'[i].handle
      BY <1>4, <2>2 DEF RegistryInv, AdditionsOwn
    <2> QED
      BY <2>1, <2>2 DEF AdditionsOwn
  <1>10. HiddenApart'
    <2>1. \A j \in DOMAIN natives : IsUsers(j)' => IsUsers(j)
      BY <1>1, <1>4 DEF IsUsers
    <2>2. \A j : IsHidden(j)' => IsHidden(j)
      BY <1>4 DEF IsHidden
    <2>3. ~IsHidden(h)
      <3>1. \A id \in ID : downloaded[id] # h
        BY TorrentParts
      <3>2. \A i \in DOMAIN alerts : AlertFits(alerts[i], natives)
        BY AlertParts
      <3>3. \A i \in DOMAIN alerts : HiddenAlert(alerts[i]) => alerts[i].handle # h
        BY <3>2 DEF AlertFits, HiddenAlert
      <3> QED
        BY <3>1, <3>3 DEF IsHidden
    <2> QED
      BY <2>1, <2>2, <2>3 DEF RegistryInv, HiddenApart
  <1>11. JobsAreFull'
    BY <1>1, <1>2 DEF RegistryInv, JobsAreFull
  <1>12. IndexesAgree'
    <2>1. \A u \in DOMAIN torrents : torrents'[u].hashes = torrents[u].hashes
      OBVIOUS
    <2> QED
      BY <1>1, <2>1 DEF RegistryInv, IndexesAgree, MapsTyped
  <1>13. MetadataIsFull'
    <2> SUFFICES ASSUME NEW i \in DOMAIN alerts', alerts'[i].type = "metadata"
                 PROVE  LET hashes == natives'[alerts'[i].handle].hashes IN
                        /\ Full(hashes)
                        /\ \A u \in DOMAIN torrents' :
                             ContentOf(torrents'[u].hashes) = ContentOf(hashes)
                               => Full(natives'[torrents'[u].handle].hashes)
                        /\ \A j \in DOMAIN alerts' : UserAlert(alerts'[j]) =>
                             /\ alerts'[j].handle = alerts'[i].handle => j < i
                             /\ j < i /\ ContentOf(natives'[alerts'[j].handle].hashes) = ContentOf(hashes)
                                  => Full(natives'[alerts'[j].handle].hashes)
      BY DEF MetadataIsFull, UserAlert, Full
    <2>1. i \in DOMAIN alerts /\ alerts'[i] = alerts[i] /\ alerts[i].handle \in DOMAIN natives
      BY <1>4
    <2> DEFINE c == natives[alerts[i].handle].hashes
    <2>2. /\ Full(c)
          /\ \A u \in DOMAIN torrents :
               ContentOf(torrents[u].hashes) = ContentOf(c) => Full(natives[torrents[u].handle].hashes)
      BY <2>1 DEF RegistryInv, MetadataIsFull
    <2>3. natives'[alerts'[i].handle].hashes = c
      BY <2>1
    <2>4. ASSUME NEW u \in DOMAIN torrents', ContentOf(torrents'[u].hashes) = ContentOf(c)
          PROVE  Full(natives'[torrents'[u].handle].hashes)
      BY <1>1, <1>2, <2>2, <2>4
    <2>5. ASSUME NEW j \in DOMAIN alerts', UserAlert(alerts'[j])
          PROVE  /\ alerts'[j].handle = alerts'[i].handle => j < i
                 /\ j < i /\ ContentOf(natives'[alerts'[j].handle].hashes) = ContentOf(c)
                      => Full(natives'[alerts'[j].handle].hashes)
      <3>1. j \in DOMAIN alerts /\ alerts'[j] = alerts[j] /\ UserAlert(alerts[j])
            /\ alerts[j].handle \in DOMAIN natives
        BY <1>4, <2>5
      <3>2. /\ alerts[j].handle = alerts[i].handle => j < i
            /\ j < i /\ ContentOf(natives[alerts[j].handle].hashes) = ContentOf(c)
                 => Full(natives[alerts[j].handle].hashes)
        BY <2>1, <3>1 DEF RegistryInv, MetadataIsFull
      <3> QED
        BY <2>1, <3>1, <3>2
    <2> QED
      BY <2>2, <2>3, <2>4, <2>5
  <1> QED
    BY <1>3, <1>6, <1>7, <1>8, <1>9, <1>10, <1>11, <1>12, <1>13 DEF RegistryInv

\* endReceivedMetadataHandling
LEMMA EndMetadataKeeps ==
    ASSUME RegistryInv, NEW t, EndMetadata(t)
    PROVE  RegistryInv'
  <1> DEFINE call == SearchCall(t)
  <1>1. /\ BagIn(call, pending) /\ pending' = pending (-) One(call)
        /\ UNCHANGED <<registry, altIndex, downloaded>>
    BY DEF EndMetadata
  <1>2. t \in DOMAIN torrents
    <2>1. call \in DOMAIN pending
      BY <1>1, Calls
    <2>2. CallFits(call, natives, torrents)
      BY <2>1 DEF RegistryInv, PendingTyped
    <2> QED
      BY <2>2 DEF CallFits, SearchCall, Call
  <1>3. DOMAIN pending' \subseteq DOMAIN pending
    BY <1>1, Calls
  <1>4. CASE ~torrents[t].job
    <2>1. UNCHANGED <<natives, alerts, torrents>>
      BY <1>4 DEF EndMetadata
    <2> HIDE DEF call
    <2> QED
      BY <1>1, <2>1, CallDone
  <1>5. CASE torrents[t].job
    <2> DEFINE all == AllHashes(ContentOf(torrents[t].hashes))
               h == Len(natives) + 1
               k == torrents[t].handle
               x == Added(h, all, "none")
    <2>1. /\ natives' = Append(Removed(natives, k), NewNative(all, TRUE))
          /\ alerts' = Append(alerts, x)
          /\ torrents' = Reloaded(t, h)
      BY <1>5 DEF EndMetadata
    <2>2. k \in DOMAIN natives /\ NativesTyped /\ alerts \in Seq(AlertType)
      BY <1>2, TorrentParts DEF RegistryInv, AlertsTyped
    <2>3. natives[k].hashes = all /\ all \in InfoHash /\ Full(all) /\ torrents[t].hashes \subseteq all
      BY <1>2, <1>5, ReloadedHashes
    <2>4. h = Len(natives) + 1 /\ k = torrents[t].handle
      OBVIOUS
    <2> HIDE DEF h, k, all
    <2>5. Replacing(k, h, all)
      BY <2>1, <2>2, <2>3, <2>4, ReplacedNative
    <2>7. h \in Nat /\ all \in InfoHash /\ h \in DOMAIN natives'
      BY <2>3, <2>5 DEF Replacing
    <2>8. /\ torrents' \in [DOMAIN torrents -> TorrentType]
          /\ torrents'[t].hashes = torrents[t].hashes /\ torrents'[t].handle = h
          /\ torrents'[t].job = FALSE
          /\ \A u \in DOMAIN torrents : u # t => torrents'[u] = torrents[u]
      BY <1>2, <2>1, <2>7, ReloadedTorrent
    <2>9. x \in AlertType /\ x.type = "add" /\ x.answers = "none" /\ x.handle = h
      BY <2>7, AddedType DEF Who
    <2> HIDE DEF x
    <2>10. AlertsStep(0, x)
      BY <2>1, <2>2, <2>9, AlertsPosted
    <2>11. PlainAlert(x)
      BY <2>7, <2>9 DEF PlainAlert, AlertFits, UserAlert, HiddenAlert
    <2>12. ReloadStep(t, h, x)
      BY <2>3, <2>4, <2>5, <2>8, <2>10, <2>11 DEF ReloadStep, Replacing
    <2> HIDE DEF call
    <2> QED
      BY <1>1, <1>2, <1>3, <1>5, <2>12, ReloadKeeps
  <1> QED
    BY <1>4, <1>5

-----------------------------------------------------------------------------
(* The invariant holds of every behaviour.                                 *)

LEMMA InitRegistry == Init => RegistryInv
  <1> SUFFICES ASSUME Init PROVE RegistryInv
    OBVIOUS
  <1>1. /\ natives = <<>> /\ alerts = <<>> /\ torrents = <<>>
        /\ registry = [id \in ID |-> None] /\ altIndex = [id \in ID |-> None]
        /\ downloaded = [id \in ID |-> None] /\ pending = EmptyBag
    BY DEF Init
  <1>2. DOMAIN natives = {} /\ DOMAIN alerts = {} /\ DOMAIN torrents = {}
        /\ natives \in Seq(NativeType) /\ alerts \in Seq(AlertType)
    <2>1. \A S : <<>> \in Seq(S) /\ DOMAIN <<>> = {}
      OBVIOUS
    <2> QED
      BY <1>1, <2>1
  <1>3. DOMAIN pending = {}
    BY <1>1 DEF EmptyBag, SetToBag
  <1>4. torrents \in [DOMAIN torrents -> TorrentType]
    BY <1>1, <1>2
  <1>5. /\ registry \in [ID -> Nat] /\ altIndex \in [ID -> Nat] /\ downloaded \in [ID -> Int]
        /\ \A id \in ID : registry[id] = None /\ altIndex[id] = None /\ downloaded[id] = None
    BY <1>1 DEF None
  <1>6. NativesTyped /\ AlertsTyped /\ TorrentsTyped /\ MapsTyped /\ PendingTyped
    BY <1>2, <1>3, <1>4, <1>5 DEF NativesTyped, AlertsTyped, TorrentsTyped, MapsTyped, PendingTyped
  <1>7. NativesApart /\ TorrentsOwn /\ AdditionsOwn /\ HiddenApart /\ MetadataIsFull /\ JobsAreFull
    BY <1>2 DEF NativesApart, TorrentsOwn, AdditionsOwn, HiddenApart, MetadataIsFull, JobsAreFull
  <1>8. IndexesAgree
    BY <1>2, <1>5 DEF IndexesAgree
  <1> QED
    BY <1>6, <1>7, <1>8 DEF RegistryInv

LEMMA NothingKeeps ==
    ASSUME RegistryInv, UNCHANGED vars
    PROVE  RegistryInv'
  <1>1. UNCHANGED <<natives, alerts, torrents, registry, altIndex, downloaded, pending>>
    BY DEF vars, session
  <1>2. PendingTyped'
    BY <1>1, PendingKept
  <1>3. AlertsStep(0, NoAlert)
    BY <1>1, AlertsKept, AlertParts
  <1>4. QuietStep(0, NoAlert)
    BY <1>1, <1>3, NothingChanged DEF QuietStep
  <1> QED
    BY <1>2, <1>4, Quiet

LEMMA NextRegistry ==
    ASSUME RegistryInv, Answering(addHandlers, alerts), "share" \notin Races, [Next]_vars
    PROVE  RegistryInv'
  <1>1. ASSUME NEW source \in Sources,
               AddTorrent(source[1], source[2]) \/ AddDuplicate(source[1], source[2])
        PROVE  RegistryInv'
    <2>1. source[1] \in InfoHash /\ source[2] \in BOOLEAN
      BY DEF Sources
    <2> QED
      BY <1>1, <2>1, AddKeeps, DuplicateKeeps
  <1>2. ASSUME NEW hashes \in InfoHash, DownloadMetadata(hashes) PROVE RegistryInv'
    BY <1>2, DownloadKeeps
  <1>3. ASSUME NEW id \in ID, CancelDownloadMetadata(id) \/ RemoveTorrent(id) PROVE RegistryInv'
    BY <1>3, CancelKeeps, RemoveKeeps
  <1>4. ASSUME NEW h \in Handle, ReceiveMetadata(h) PROVE RegistryInv'
    BY <1>4, ReceiveKeeps
  <1>5. ASSUME HandleAlert PROVE RegistryInv'
    BY <1>5, HandleAddedKeeps, HandleHiddenKeeps, HandleReloadedKeeps, HandleMetadataKeeps,
       HandleHiddenMetadataKeeps, HandleResumeDataKeeps, HandleConflictKeeps DEF HandleAlert
  <1>6. ASSUME RunCall PROVE RegistryInv'
    BY <1>6, PostAdditionKeeps, RequestKeeps, SetMetadataKeeps, EndMetadataKeeps DEF RunCall
  <1>7. ASSUME UNCHANGED vars PROVE RegistryInv'
    BY <1>7, NothingKeeps
  <1> QED
    BY <1>1, <1>2, <1>3, <1>4, <1>5, <1>6, <1>7 DEF Next

LEMMA IndexesExact == RegistryInv => IndexIsExact
  <1> SUFFICES ASSUME RegistryInv, NEW id \in ID
               PROVE  /\ {t \in DOMAIN torrents : TorrentID(t) = id} = {registry[id]} \ {None}
                      /\ {t \in DOMAIN torrents : IsHybrid(torrents[t].hashes)
                                                  /\ V1(torrents[t].hashes) = id}
                           = {altIndex[id]} \ {None}
    BY DEF IndexIsExact
  <1>1. \A t \in DOMAIN torrents : t # None
    BY TorrentParts
  <1>2. /\ \A t \in DOMAIN torrents : TorrentID(t) = id => registry[id] = t
        /\ registry[id] # None => registry[id] \in DOMAIN torrents /\ TorrentID(registry[id]) = id
    BY DEF RegistryInv, IndexesAgree, TorrentID
  <1>3. /\ \A t \in DOMAIN torrents :
             IsHybrid(torrents[t].hashes) /\ V1(torrents[t].hashes) = id => altIndex[id] = t
        /\ altIndex[id] # None =>
             /\ altIndex[id] \in DOMAIN torrents
             /\ IsHybrid(torrents[altIndex[id]].hashes) /\ V1(torrents[altIndex[id]].hashes) = id
    BY DEF RegistryInv, IndexesAgree
  <1> QED
    BY <1>1, <1>2, <1>3

LEMMA RegistryHolds == ASSUME "share" \notin Races PROVE Spec => []RegistryInv
  <1> DEFINE Inv == RegistryInv /\ Answering(addHandlers, alerts)
  <1>1. Init => Inv
    BY InitRegistry, InitAnswering
  <1>2. Inv /\ [Next]_vars => Inv'
    BY NextRegistry, NextAnswering
  <1>3. Inv => RegistryInv
    OBVIOUS
  <1> HIDE DEF Inv
  <1> QED
    BY <1>1, <1>2, <1>3, PTL DEF Spec

\* Every torrent is found under its IDs, and nothing else is found: while
\* nobody asks for the metadata of a torrent that is being added, or that only
\* libtorrent knows to be in the session, no change of ID, no conflict and no
\* addition puts one torrent over another.
THEOREM IndexExact == ASSUME "share" \notin Races PROVE Spec => []IndexIsExact
  BY RegistryHolds, IndexesExact, PTL

\* What is removed from libtorrent is never behind the handle of a torrent of
\* the session: not when a hidden download is given up, or has served, or gives
\* way to a torrent.
THEOREM TorrentsHaveNatives == ASSUME "share" \notin Races PROVE Spec => []TorrentHasNative
  <1>1. RegistryInv => TorrentHasNative
    BY DEF RegistryInv, TorrentsOwn, TorrentHasNative
  <1> QED
    BY <1>1, RegistryHolds, PTL

-----------------------------------------------------------------------------
(* What is stored, when no torrent is removed between the change of its ID *)
(* and its next resume data.                                               *)

StoredInv == ChangesAreKnown /\ StoredIsFound /\ RemovedIsGone

\* The IDs of two torrents, old and new, are different.
LEMMA IDsApart ==
    ASSUME RegistryInv, NEW t \in DOMAIN torrents
    PROVE  /\ TorrentID(t) \in torrents[t].hashes /\ TorrentID(t) \in ID
           /\ torrents[t].hashes \subseteq ID
           /\ registry[TorrentID(t)] = t
           /\ \A u \in DOMAIN torrents : u # t => torrents[t].hashes \cap torrents[u].hashes = {}
  <1>1. torrents[t].hashes \in InfoHash
    BY TorrentParts
  <1>2. ToTorrentID(torrents[t].hashes) \in torrents[t].hashes /\ torrents[t].hashes \subseteq ID
    BY <1>1, HashesKnown
  <1>3. registry[TorrentID(t)] = t
    BY DEF RegistryInv, IndexesAgree, TorrentID
  <1>4. torrents[t].hashes \subseteq natives[torrents[t].handle].hashes
    BY DEF RegistryInv, TorrentsOwn
  <1>5. \A u \in DOMAIN torrents : u # t => torrents[t].hashes \cap torrents[u].hashes = {}
    BY <1>4, TorrentsApart
  <1> QED
    BY <1>2, <1>3, <1>5 DEF TorrentID

\* The ID that a torrent has changed from is its first hash.
LEMMA ChangedFrom ==
    ASSUME RegistryInv, ChangesAreKnown, NEW t \in DOMAIN torrents, TorrentID(t) \in DOMAIN changedIDs
    PROVE  /\ changedIDs[TorrentID(t)] \in torrents[t].hashes
           /\ changedIDs[TorrentID(t)] # TorrentID(t)
           /\ IsHybrid(torrents[t].hashes)
  <1> DEFINE id == TorrentID(t)
             a == torrents[t].hashes
  <1>1. PICK w \in DOMAIN torrents : TorrentID(w) = id /\ IsHybrid(torrents[w].hashes)
    BY DEF ChangesAreKnown
  <1>2. w = t
    BY <1>1, IDsApart
  <1>3. changedIDs[id] = <<id[1], "v1">>
    BY DEF ChangesAreKnown
  <1>4. a \in InfoHash /\ id \in a
    BY TorrentParts, IDsApart
  <1> HIDE DEF a
  <1>5. id[1] = ContentOf(a) /\ V1(a) \in a /\ V1(a) # V2(a) /\ ToTorrentID(a) = V2(a)
    BY <1>1, <1>2, <1>4, HashesKnown, HashesNamed DEF a
  <1>6. changedIDs[id] = V1(a)
    BY <1>3, <1>5 DEF V1
  <1> QED
    BY <1>1, <1>2, <1>5, <1>6 DEF a, TorrentID

\* A torrent comes, or another step that stores nothing.
LEMMA StoredKept ==
    ASSUME StoredInv, rows' = rows, changedIDs' = changedIDs,
           DOMAIN torrents \subseteq DOMAIN torrents',
           \A t \in DOMAIN torrents : /\ torrents'[t].hashes = torrents[t].hashes
                                      /\ torrents'[t].stored = torrents[t].stored,
           \A t \in DOMAIN torrents' \ DOMAIN torrents : torrents'[t].stored = FALSE
    PROVE  StoredInv'
  <1>1. \A t \in DOMAIN torrents : ToTorrentID(torrents'[t].hashes) = ToTorrentID(torrents[t].hashes)
    OBVIOUS
  <1>2. ChangesAreKnown'
    BY <1>1 DEF StoredInv, ChangesAreKnown, TorrentID
  <1>3. StoredIsFound'
    BY <1>1 DEF StoredInv, StoredIsFound, TorrentID
  <1>4. RemovedIsGone'
    BY <1>1 DEF StoredInv, RemovedIsGone, TorrentID
  <1> QED
    BY <1>2, <1>3, <1>4 DEF StoredInv

\* A torrent is removed whose ID is the one it is stored under.
LEMMA StoredRemoved ==
    ASSUME RegistryInv, StoredInv, NEW t \in DOMAIN torrents, TorrentID(t) \notin DOMAIN changedIDs,
           torrents' = Removal(t).torrents, rows' = Removal(t).rows, changedIDs' = changedIDs
    PROVE  StoredInv'
  <1>1. /\ torrents' = [o \in DOMAIN torrents \ {t} |-> torrents[o]]
        /\ rows' = rows \ {TorrentID(t)}
    BY DEF Removal
  <1>2. /\ DOMAIN torrents' = DOMAIN torrents \ {t}
        /\ \A u \in DOMAIN torrents' : torrents'[u] = torrents[u]
    BY <1>1
  <1>3. \A u \in DOMAIN torrents' : ToTorrentID(torrents'[u].hashes) = ToTorrentID(torrents[u].hashes)
    BY <1>2
  <1>4. \A u \in DOMAIN torrents' :
          TorrentID(u) # TorrentID(t)
          /\ (TorrentID(u) \in DOMAIN changedIDs => changedIDs[TorrentID(u)] # TorrentID(t))
    BY <1>2, IDsApart, ChangedFrom DEF StoredInv
  <1>5. ChangesAreKnown'
    <2>1. ASSUME NEW id \in DOMAIN changedIDs
          PROVE  \E u \in DOMAIN torrents' : ToTorrentID(torrents'[u].hashes) = id /\ IsHybrid(torrents'[u].hashes)
      <3>1. PICK u \in DOMAIN torrents : TorrentID(u) = id /\ IsHybrid(torrents[u].hashes)
        BY DEF StoredInv, ChangesAreKnown
      <3> QED
        BY <1>2, <3>1 DEF TorrentID
    <2> QED
      BY <1>1, <2>1 DEF StoredInv, ChangesAreKnown, TorrentID
  <1>6. StoredIsFound'
    BY <1>1, <1>2, <1>3, <1>4 DEF StoredInv, StoredIsFound, TorrentID
  <1>7. RemovedIsGone'
    <2>1. ASSUME NEW id \in rows'
          PROVE  \E u \in DOMAIN torrents' :
                   \/ ToTorrentID(torrents'[u].hashes) = id
                   \/ ToTorrentID(torrents'[u].hashes) \in DOMAIN changedIDs
                      /\ changedIDs[ToTorrentID(torrents'[u].hashes)] = id
      <3>1. id \in rows /\ id # TorrentID(t)
        BY <1>1, <2>1
      <3>2. PICK u \in DOMAIN torrents :
              \/ TorrentID(u) = id
              \/ TorrentID(u) \in DOMAIN changedIDs /\ changedIDs[TorrentID(u)] = id
        BY <3>1 DEF StoredInv, RemovedIsGone
      <3>3. u # t
        BY <3>1, <3>2
      <3> QED
        BY <1>2, <3>2, <3>3 DEF TorrentID
    <2> QED
      BY <2>1 DEF RemovedIsGone, TorrentID
  <1> QED
    BY <1>5, <1>6, <1>7 DEF StoredInv

\* A torrent's resume data is stored under its ID, and no longer under the ID
\* before.
LEMMA StoredReady ==
    ASSUME RegistryInv, StoredInv, NEW t \in DOMAIN torrents, ResumeDataReady(t),
           DOMAIN torrents' = DOMAIN torrents,
           \A u \in DOMAIN torrents : torrents'[u].hashes = torrents[u].hashes,
           \A u \in DOMAIN torrents : u # t => torrents'[u].stored = torrents[u].stored
    PROVE  StoredInv'
  <1> DEFINE id == TorrentID(t)
  <1>1. \A u \in DOMAIN torrents : ToTorrentID(torrents'[u].hashes) = TorrentID(u)
    BY DEF TorrentID
  <1>2. id \in ID /\ rows \subseteq ID
    BY IDsApart DEF StoredInv, ChangesAreKnown
  <1>3. CASE id \notin DOMAIN changedIDs
    <2>1. rows' = rows \cup {id} /\ changedIDs' = changedIDs
      BY <1>3 DEF ResumeDataReady
    <2>2. ChangesAreKnown'
      BY <1>1, <1>2, <2>1 DEF StoredInv, ChangesAreKnown, TorrentID
    <2>3. StoredIsFound'
      BY <1>1, <2>1 DEF StoredInv, StoredIsFound, TorrentID
    <2>4. RemovedIsGone'
      BY <1>1, <2>1 DEF StoredInv, RemovedIsGone, TorrentID
    <2> QED
      BY <2>2, <2>3, <2>4 DEF StoredInv
  <1>4. CASE id \in DOMAIN changedIDs
    <2>1. /\ rows' = (rows \cup {id}) \ {changedIDs[id]}
          /\ changedIDs' = [i \in DOMAIN changedIDs \ {id} |-> changedIDs[i]]
      BY <1>4 DEF ResumeDataReady
    <2>2. /\ DOMAIN changedIDs' = DOMAIN changedIDs \ {id}
          /\ \A i \in DOMAIN changedIDs' : changedIDs'[i] = changedIDs[i]
      BY <2>1
    <2>3. changedIDs[id] # id /\ id \in rows'
      BY <1>4, <2>1, ChangedFrom DEF StoredInv
    <2>4. ASSUME NEW u \in DOMAIN torrents, u # t
          PROVE  /\ TorrentID(u) # id /\ TorrentID(u) # changedIDs[id]
                 /\ TorrentID(u) \in DOMAIN changedIDs => changedIDs[TorrentID(u)] # changedIDs[id]
      <3>1. changedIDs[id] \in torrents[t].hashes /\ id \in torrents[t].hashes
        BY <1>4, ChangedFrom, IDsApart DEF StoredInv
      <3>2. TorrentID(u) \in torrents[u].hashes /\ torrents[t].hashes \cap torrents[u].hashes = {}
        BY <2>4, IDsApart
      <3>3. TorrentID(u) \in DOMAIN changedIDs => changedIDs[TorrentID(u)] \in torrents[u].hashes
        BY ChangedFrom DEF StoredInv
      <3> QED
        BY <3>1, <3>2, <3>3
    <2> HIDE DEF id
    <2>5. ChangesAreKnown'
      BY <1>1, <1>2, <2>1, <2>2 DEF StoredInv, ChangesAreKnown, TorrentID
    <2>6. StoredIsFound'
      <3>1. ASSUME NEW u \in DOMAIN torrents, torrents'[u].stored
            PROVE  \/ TorrentID(u) \in rows'
                   \/ TorrentID(u) \in DOMAIN changedIDs' /\ changedIDs'[TorrentID(u)] \in rows'
        <4>1. CASE u = t
          BY <2>3, <4>1 DEF id
        <4>2. CASE u # t
          BY <2>1, <2>2, <2>4, <3>1, <4>2 DEF StoredInv, StoredIsFound
        <4> QED
          BY <4>1, <4>2
      <3> QED
        BY <1>1, <3>1 DEF StoredIsFound, TorrentID
    <2>7. RemovedIsGone'
      <3>1. ASSUME NEW i \in rows'
            PROVE  \E u \in DOMAIN torrents :
                     \/ TorrentID(u) = i
                     \/ TorrentID(u) \in DOMAIN changedIDs' /\ changedIDs'[TorrentID(u)] = i
        <4>1. CASE i = id
          BY <4>1 DEF id
        <4>2. CASE i # id
          <5>1. i \in rows /\ i # changedIDs[id]
            BY <2>1, <3>1, <4>2
          <5>2. PICK u \in DOMAIN torrents :
                  \/ TorrentID(u) = i
                  \/ TorrentID(u) \in DOMAIN changedIDs /\ changedIDs[TorrentID(u)] = i
            BY <5>1 DEF StoredInv, RemovedIsGone
          <5> QED
            BY <2>2, <5>1, <5>2
        <4> QED
          BY <4>1, <4>2
      <3> QED
        BY <1>1, <3>1 DEF RemovedIsGone, TorrentID
    <2> QED
      BY <2>5, <2>6, <2>7 DEF StoredInv
  <1> QED
    BY <1>3, <1>4

\* A torrent has another ID, and is stored under the one before.
LEMMA StoredRenamed ==
    ASSUME RegistryInv, StoredInv, NEW t \in DOMAIN torrents,
           NEW b, b = natives[torrents[t].handle].hashes, torrents[t].hashes # b,
           InfoHashChanged(t, b), rows' = rows,
           DOMAIN torrents' = DOMAIN torrents, torrents'[t].hashes = b,
           torrents'[t].stored = torrents[t].stored,
           \A u \in DOMAIN torrents : u # t => torrents'[u] = torrents[u]
    PROVE  StoredInv'
  <1> DEFINE a == torrents[t].hashes
             prev == TorrentID(t)
             cur == ToTorrentID(b)
  <1>1. a \in InfoHash /\ b \in InfoHash /\ a \subseteq b /\ a # b
    BY TorrentParts DEF RegistryInv, TorrentsOwn
  <1>2. /\ cur = prev => changedIDs' = changedIDs
        /\ cur # prev => changedIDs' = [id \in DOMAIN changedIDs \cup {cur} |->
                                          IF id = cur THEN prev ELSE changedIDs[id]]
    BY DEF InfoHashChanged
  <1>3. prev \in a /\ cur \in b /\ cur \in ID
    BY <1>1, IDsApart, HashesKnown, HashesNamed
  <1> HIDE DEF a
  <1>4. IsHybrid(b) /\ prev \in {V1(b), V2(b)} /\ cur = V2(b)
    BY <1>1, <1>3, HashesLearned, HashesKnown, HashesNamed
  <1>5. ToTorrentID(torrents'[t].hashes) = cur
    OBVIOUS
  <1> HIDE DEF prev, cur
  <1>6. ASSUME NEW u \in DOMAIN torrents, u # t
        PROVE  /\ ToTorrentID(torrents'[u].hashes) = TorrentID(u) /\ TorrentID(u) # cur
               /\ torrents'[u] = torrents[u]
    <2>1. torrents[u].hashes \cap b = {} /\ TorrentID(u) \in torrents[u].hashes
      BY <1>6, TorrentsApart, IDsApart
    <2> QED
      BY <1>3, <1>6, <2>1 DEF TorrentID
  <1>7. CASE cur = prev
    <2>1. changedIDs' = changedIDs
      BY <1>2, <1>7
    <2>2. \A u \in DOMAIN torrents : ToTorrentID(torrents'[u].hashes) = TorrentID(u)
      BY <1>5, <1>6, <1>7 DEF prev
    <2>3. \A u \in DOMAIN torrents : torrents'[u].stored = torrents[u].stored
                                     /\ (IsHybrid(torrents[u].hashes) => IsHybrid(torrents'[u].hashes))
      BY <1>4, <1>6
    <2>4. ChangesAreKnown'
      BY <2>1, <2>2, <2>3 DEF StoredInv, ChangesAreKnown, TorrentID
    <2>5. StoredIsFound'
      BY <2>1, <2>2, <2>3 DEF StoredInv, StoredIsFound, TorrentID
    <2>6. RemovedIsGone'
      BY <2>1, <2>2 DEF StoredInv, RemovedIsGone, TorrentID
    <2> QED
      BY <2>4, <2>5, <2>6 DEF StoredInv
  <1>8. CASE cur # prev
    <2>1. /\ DOMAIN changedIDs' = DOMAIN changedIDs \cup {cur} /\ changedIDs'[cur] = prev
          /\ \A id \in DOMAIN changedIDs : id # cur => changedIDs'[id] = changedIDs[id]
      BY <1>2, <1>8
    <2>2. prev = V1(b)
      BY <1>4, <1>8
    <2>3. cur[2] = "v2" /\ prev = <<cur[1], "v1">> /\ prev[2] = "v1"
      BY <1>4, <2>2 DEF V1, V2
    <2>4. prev \notin DOMAIN changedIDs
      BY <2>3 DEF StoredInv, ChangesAreKnown
    <2>5. ChangesAreKnown'
      <3>1. rows' \subseteq ID /\ DOMAIN changedIDs' \subseteq ID
        BY <1>3, <2>1 DEF StoredInv, ChangesAreKnown
      <3>2. ASSUME NEW id \in DOMAIN changedIDs'
            PROVE  /\ id[2] = "v2" /\ changedIDs'[id] = <<id[1], "v1">>
                   /\ \E u \in DOMAIN torrents' :
                        ToTorrentID(torrents'[u].hashes) = id /\ IsHybrid(torrents'[u].hashes)
        <4>1. CASE id = cur
          BY <1>4, <1>5, <2>1, <2>3, <4>1
        <4>2. CASE id # cur
          <5>1. id \in DOMAIN changedIDs /\ changedIDs'[id] = changedIDs[id]
            BY <2>1, <3>2, <4>2
          <5>2. PICK u \in DOMAIN torrents : TorrentID(u) = id /\ IsHybrid(torrents[u].hashes)
            BY <5>1 DEF StoredInv, ChangesAreKnown
          <5>3. u # t
            BY <2>4, <5>1, <5>2 DEF prev
          <5>4. ToTorrentID(torrents'[u].hashes) = id /\ IsHybrid(torrents'[u].hashes)
            BY <1>6, <5>2, <5>3
          <5> QED
            BY <5>1, <5>4 DEF StoredInv, ChangesAreKnown
        <4> QED
          BY <4>1, <4>2
      <3> QED
        BY <3>1, <3>2 DEF ChangesAreKnown, TorrentID
    <2>6. StoredIsFound'
      <3>1. torrents[t].stored => prev \in rows
        BY <2>4 DEF StoredInv, StoredIsFound, prev
      <3>2. ASSUME NEW u \in DOMAIN torrents, u # t, torrents[u].stored
            PROVE  \/ TorrentID(u) \in rows'
                   \/ TorrentID(u) \in DOMAIN changedIDs' /\ changedIDs'[TorrentID(u)] \in rows'
        BY <1>6, <2>1, <3>2 DEF StoredInv, StoredIsFound
      <3>3. ASSUME NEW u \in DOMAIN torrents', torrents'[u].stored
            PROVE  LET id == ToTorrentID(torrents'[u].hashes) IN
                   id \in rows' \/ (id \in DOMAIN changedIDs' /\ changedIDs'[id] \in rows')
        <4>1. CASE u = t
          BY <1>5, <2>1, <3>1, <3>3, <4>1
        <4>2. CASE u # t
          BY <1>6, <3>2, <3>3, <4>2
        <4> QED
          BY <4>1, <4>2
      <3> QED
        BY <3>3 DEF StoredIsFound, TorrentID
    <2>7. RemovedIsGone'
      <3>1. ASSUME NEW i \in rows'
            PROVE  \E u \in DOMAIN torrents' :
                     \/ ToTorrentID(torrents'[u].hashes) = i
                     \/ /\ ToTorrentID(torrents'[u].hashes) \in DOMAIN changedIDs'
                        /\ changedIDs'[ToTorrentID(torrents'[u].hashes)] = i
        <4>1. PICK u \in DOMAIN torrents :
                \/ TorrentID(u) = i
                \/ TorrentID(u) \in DOMAIN changedIDs /\ changedIDs[TorrentID(u)] = i
          BY <3>1 DEF StoredInv, RemovedIsGone
        <4>2. CASE u = t
          <5>1. i = prev
            BY <2>4, <4>1, <4>2 DEF prev
          <5> QED
            BY <1>5, <2>1, <5>1
        <4>3. CASE u # t
          BY <1>6, <2>1, <4>1, <4>3
        <4> QED
          BY <4>2, <4>3
      <3> QED
        BY <3>1 DEF RemovedIsGone, TorrentID
    <2> QED
      BY <2>5, <2>6, <2>7 DEF StoredInv
  <1> QED
    BY <1>7, <1>8

LEMMA InitStored == Init => StoredInv
  <1> SUFFICES ASSUME Init PROVE StoredInv
    OBVIOUS
  <1>1. torrents = <<>> /\ changedIDs = <<>> /\ rows = {} /\ DOMAIN <<>> = {}
    BY DEF Init
  <1>2. DOMAIN torrents = {} /\ DOMAIN changedIDs = {}
    BY <1>1
  <1> QED
    BY <1>1, <1>2 DEF StoredInv, ChangesAreKnown, StoredIsFound, RemovedIsGone

LEMMA SameStored ==
    ASSUME StoredInv, UNCHANGED <<torrents, rows, changedIDs>>
    PROVE  StoredInv'
  BY StoredKept

LEMMA RemoveStored ==
    ASSUME RegistryInv, StoredInv, "remove" \notin Races, NEW id \in ID, RemoveTorrent(id)
    PROVE  StoredInv'
  <1> DEFINE t == registry[id]
  <1>1. /\ t # None /\ id \notin DOMAIN changedIDs
        /\ torrents' = Removal(t).torrents /\ rows' = Removal(t).rows /\ changedIDs' = changedIDs
    BY DEF RemoveTorrent
  <1>2. t \in DOMAIN torrents /\ TorrentID(t) = id
    BY <1>1 DEF RegistryInv, IndexesAgree, TorrentID
  <1> HIDE DEF t
  <1> QED
    BY <1>1, <1>2, StoredRemoved

LEMMA HandleAddedStored ==
    ASSUME RegistryInv, StoredInv, Answering(addHandlers, alerts), HandleAdded
    PROVE  StoredInv'
  <1> DEFINE h == Head(alerts).handle
  <1>1. /\ alerts # <<>> /\ Head(alerts).type = "add" /\ Head(addHandlers) = "user"
        /\ rows' = rows /\ changedIDs' = changedIDs
    BY DEF HandleAdded, NextAlert
  <1>2. CASE h = None
    <2>1. torrents' = torrents
      BY <1>2 DEF HandleAdded
    <2> QED
      BY <1>1, <2>1, SameStored
  <1>3. CASE h # None
    <2>1. UserAlert(alerts[1]) /\ 1 \in DOMAIN alerts /\ h = alerts[1].handle
      BY <1>1, <1>3, AnsweringHandled, HeadAlert DEF UserAlert
    <2>2. h \notin DOMAIN torrents
      BY <2>1 DEF RegistryInv, AdditionsOwn
    <2>3. torrents' = [o \in DOMAIN torrents \cup {h} |-> IF o = h THEN NewTorrent(h) ELSE torrents[o]]
      BY <1>3 DEF HandleAdded, NewTorrent
    <2>4. NewTorrent(h).stored = FALSE
      BY DEF NewTorrent
    <2> HIDE DEF h
    <2>5. /\ DOMAIN torrents' = DOMAIN torrents \cup {h} /\ torrents'[h].stored = FALSE
          /\ \A u \in DOMAIN torrents : torrents'[u] = torrents[u]
      BY <2>2, <2>3, <2>4
    <2>6. /\ DOMAIN torrents \subseteq DOMAIN torrents'
          /\ \A u \in DOMAIN torrents : /\ torrents'[u].hashes = torrents[u].hashes
                                        /\ torrents'[u].stored = torrents[u].stored
          /\ \A u \in DOMAIN torrents' \ DOMAIN torrents : torrents'[u].stored = FALSE
      BY <2>5
    <2> QED
      BY <1>1, <2>6, StoredKept
  <1> QED
    BY <1>2, <1>3

LEMMA HandleMetadataStored ==
    ASSUME RegistryInv, StoredInv, HandleMetadata
    PROVE  StoredInv'
  <1> DEFINE t == MetadataFor(Head(alerts).handle)
             b == natives[torrents[t].handle].hashes
  <1>1. /\ alerts # <<>> /\ Head(alerts).type = "metadata" /\ t # None
        /\ torrents' = [torrents EXCEPT ![t].hashes = b, ![t].job = TRUE]
        /\ torrents[t].hashes # b => InfoHashChanged(t, b)
        /\ torrents[t].hashes = b => changedIDs' = changedIDs
        /\ rows' = rows
    BY DEF HandleMetadata, NextAlert
  <1>2. t \in DOMAIN torrents
    BY <1>1, MetadataIsFor
  <1>3. b \in InfoHash
    BY <1>2, TorrentParts
  <1> HIDE DEF t
  <1>4. /\ torrents' \in [DOMAIN torrents -> TorrentType]
        /\ torrents'[t].hashes = b /\ torrents'[t].stored = torrents[t].stored
        /\ \A u \in DOMAIN torrents : u # t => torrents'[u] = torrents[u]
    BY <1>1, <1>2, <1>3, WaitingTorrent
  <1>5. DOMAIN torrents' = DOMAIN torrents
    BY <1>4
  <1>6. CASE torrents[t].hashes = b
    <2>1. \A u \in DOMAIN torrents : /\ torrents'[u].hashes = torrents[u].hashes
                                     /\ torrents'[u].stored = torrents[u].stored
      BY <1>4, <1>6
    <2>2. DOMAIN torrents \subseteq DOMAIN torrents'
          /\ \A u \in DOMAIN torrents' \ DOMAIN torrents : torrents'[u].stored = FALSE
      BY <1>5
    <2> QED
      BY <1>1, <1>6, <2>1, <2>2, StoredKept
  <1>7. CASE torrents[t].hashes # b
    <2>1. InfoHashChanged(t, b)
      BY <1>1, <1>7
    <2> QED
      BY <1>1, <1>2, <1>4, <1>5, <1>7, <2>1, StoredRenamed
  <1> QED
    BY <1>6, <1>7

LEMMA HandleResumeDataStored ==
    ASSUME RegistryInv, StoredInv, HandleResumeData
    PROVE  StoredInv'
  <1> DEFINE t == TorrentOf(Head(alerts).handle)
  <1>1. alerts # <<>> /\ Head(alerts).type = "resume"
    BY DEF HandleResumeData, NextAlert
  <1>2. \/ UNCHANGED <<torrents, rows, changedIDs>>
        \/ /\ t # None /\ torrents' = [torrents EXCEPT ![t].stored = TRUE]
           /\ ResumeDataReady(t)
    BY DEF HandleResumeData
  <1>3. CASE UNCHANGED <<torrents, rows, changedIDs>>
    BY <1>3, SameStored
  <1>4. CASE t # None /\ torrents' = [torrents EXCEPT ![t].stored = TRUE] /\ ResumeDataReady(t)
    <2>1. t \in DOMAIN torrents
      BY <1>1, <1>4, HeadAlert, HashesNamed, TorrentParts DEF TorrentOf
    <2> HIDE DEF t
    <2>2. TorrentsQuiet
      BY <1>4, <2>1, StoredTorrent
    <2>3. DOMAIN torrents' = DOMAIN torrents
          /\ \A u \in DOMAIN torrents : torrents'[u].hashes = torrents[u].hashes
      BY <2>2 DEF TorrentsQuiet
    <2>4. \A u \in DOMAIN torrents : u # t => torrents'[u].stored = torrents[u].stored
      BY <1>4
    <2> QED
      BY <1>4, <2>1, <2>3, <2>4, StoredReady
  <1> QED
    BY <1>2, <1>3, <1>4

LEMMA HandleConflictStored ==
    ASSUME RegistryInv, StoredInv, HandleConflict
    PROVE  StoredInv'
  <1> DEFINE t1 == registry[V1(Head(alerts).hashes)]
  <1>1. \/ UNCHANGED <<torrents, rows, changedIDs>>
        \/ /\ t1 # None /\ torrents' = Removal(t1).torrents /\ rows' = Removal(t1).rows
           /\ changedIDs' = changedIDs
    BY DEF HandleConflict
  <1>2. CASE UNCHANGED <<torrents, rows, changedIDs>>
    BY <1>2, SameStored
  <1>3. CASE /\ t1 # None /\ torrents' = Removal(t1).torrents /\ rows' = Removal(t1).rows
             /\ changedIDs' = changedIDs
    <2>1. V1(Head(alerts).hashes) \in ID
      BY ConflictParts
    <2>2. t1 \in DOMAIN torrents /\ TorrentID(t1) = V1(Head(alerts).hashes)
      BY <1>3, <2>1 DEF RegistryInv, IndexesAgree, TorrentID
    <2>3. TorrentID(t1)[2] = "v1"
      BY <2>2 DEF V1
    <2>4. TorrentID(t1) \notin DOMAIN changedIDs
      BY <2>3 DEF StoredInv, ChangesAreKnown
    <2> HIDE DEF t1
    <2> QED
      BY <1>3, <2>2, <2>4, StoredRemoved
  <1> QED
    BY <1>1, <1>2, <1>3

LEMMA EndMetadataStored ==
    ASSUME RegistryInv, StoredInv, NEW t, EndMetadata(t)
    PROVE  StoredInv'
  <1> DEFINE call == SearchCall(t)
             h == Len(natives) + 1
  <1>1. t \in DOMAIN torrents
    <2>1. call \in DOMAIN pending
      BY Calls DEF EndMetadata
    <2>2. CallFits(call, natives, torrents)
      BY <2>1 DEF RegistryInv, PendingTyped
    <2> QED
      BY <2>2 DEF CallFits, SearchCall, Call
  <1>2. CASE ~torrents[t].job
    <2>1. UNCHANGED <<torrents, rows, changedIDs>>
      BY <1>2 DEF EndMetadata
    <2> QED
      BY <2>1, SameStored
  <1>3. CASE torrents[t].job
    <2>1. torrents' = Reloaded(t, h) /\ ResumeDataReady(t)
      BY <1>3 DEF EndMetadata
    <2>2. h \in Nat
      BY TorrentParts, NativeParts
    <2> HIDE DEF h
    <2>3. /\ torrents' \in [DOMAIN torrents -> TorrentType]
          /\ torrents'[t].hashes = torrents[t].hashes
          /\ \A u \in DOMAIN torrents : u # t => torrents'[u] = torrents[u]
      BY <1>1, <2>1, <2>2, ReloadedTorrent
    <2>4. DOMAIN torrents' = DOMAIN torrents
          /\ (\A u \in DOMAIN torrents : torrents'[u].hashes = torrents[u].hashes)
          /\ (\A u \in DOMAIN torrents : u # t => torrents'[u].stored = torrents[u].stored)
      BY <2>3
    <2> QED
      BY <1>1, <2>1, <2>4, StoredReady
  <1> QED
    BY <1>2, <1>3

LEMMA NextStored ==
    ASSUME RegistryInv, Answering(addHandlers, alerts), StoredInv, "remove" \notin Races, [Next]_vars
    PROVE  StoredInv'
  <1>1. ASSUME NEW source \in Sources,
               AddTorrent(source[1], source[2]) \/ AddDuplicate(source[1], source[2])
        PROVE  StoredInv'
    BY <1>1, SameStored DEF AddTorrent, AddDuplicate, session
  <1>2. ASSUME NEW hashes \in InfoHash, DownloadMetadata(hashes) PROVE StoredInv'
    BY <1>2, SameStored DEF DownloadMetadata
  <1>3. ASSUME NEW id \in ID, CancelDownloadMetadata(id) \/ RemoveTorrent(id) PROVE StoredInv'
    BY <1>3, SameStored, RemoveStored DEF CancelDownloadMetadata, session
  <1>4. ASSUME NEW h \in Handle, ReceiveMetadata(h) PROVE StoredInv'
    BY <1>4, SameStored DEF ReceiveMetadata, session
  <1>5. ASSUME HandleAlert PROVE StoredInv'
    <2>1. CASE HandleHidden
      BY <2>1, SameStored DEF HandleHidden
    <2>2. CASE HandleReloaded
      BY <2>2, SameStored DEF HandleReloaded
    <2>3. CASE HandleHiddenMetadata
      BY <2>3, SameStored DEF HandleHiddenMetadata, session
    <2> QED
      BY <1>5, <2>1, <2>2, <2>3, HandleAddedStored, HandleMetadataStored, HandleResumeDataStored,
         HandleConflictStored DEF HandleAlert
  <1>6. ASSUME NEW call, PostAddition(call) PROVE StoredInv'
    BY <1>6, SameStored DEF PostAddition
  <1>7. ASSUME NEW t, RequestResumeData(t) \/ SetMetadata(t) \/ EndMetadata(t) PROVE StoredInv'
    BY <1>7, SameStored, EndMetadataStored DEF RequestResumeData, SetMetadata, session
  <1>8. ASSUME UNCHANGED vars PROVE StoredInv'
    BY <1>8, SameStored DEF vars, session
  <1> QED
    BY <1>1, <1>2, <1>3, <1>4, <1>5, <1>6, <1>7, <1>8 DEF Next, RunCall

LEMMA StoredHolds == ASSUME Races = {} PROVE Spec => []StoredInv
  <1> DEFINE Inv == RegistryInv /\ Answering(addHandlers, alerts) /\ StoredInv
  <1>1. Init => Inv
    BY InitRegistry, InitAnswering, InitStored
  <1>2. "share" \notin Races /\ "remove" \notin Races
    OBVIOUS
  <1>3. Inv /\ [Next]_vars => Inv'
    BY <1>2, NextRegistry, NextAnswering, NextStored
  <1>4. Inv => StoredInv
    OBVIOUS
  <1> HIDE DEF Inv
  <1> QED
    BY <1>1, <1>3, <1>4, PTL DEF Spec

\* Whatever a torrent's IDs, its resume data is stored under the one it has or
\* the one it has changed from, while no torrent is removed between the two.
THEOREM StoredFound == ASSUME Races = {} PROVE Spec => []StoredIsFound
  <1>1. StoredInv => StoredIsFound
    BY DEF StoredInv
  <1> QED
    BY <1>1, StoredHolds, PTL

\* Nor does a torrent that has been removed leave resume data behind, under
\* either of its IDs, for the next start to find.
THEOREM RemovedGone == ASSUME Races = {} PROVE Spec => []RemovedIsGone
  <1>1. StoredInv => RemovedIsGone
    BY DEF StoredInv
  <1> QED
    BY <1>1, StoredHolds, PTL

-----------------------------------------------------------------------------
(* The number of native torrents.  A request brings one, and at most one   *)
(* more when its metadata arrives; CountInv charges both to it.            *)

\* Where that other one is on its way: libtorrent has no metadata yet, its
\* alert is in the queue, or the files of the torrent are looked for.
Unlearned(nat) == {h \in DOMAIN nat : nat[h].alive /\ ~nat[h].meta}
Arrived(queue) == {i \in DOMAIN queue : queue[i].type = "metadata"}
Searching(tor) == {t \in DOMAIN tor : tor[t].job}

\* The additions queued, each as often as it is queued: both are to come.
Ahead(calls) == {p \in BagToSet(calls) \X Nat : p[1].call = "add" /\ p[2] \in 1..calls[p[1]]}

CountInv ==
  /\ IsABag(pending) /\ IsFiniteSet(Ahead(pending)) /\ requests \in 0..MaxRequests
  /\ Len(natives) + Cardinality(Unlearned(natives)) + Cardinality(Arrived(alerts)) + Cardinality(Searching(torrents))
       + 2 * Cardinality(Ahead(pending)) <= 2 * requests

\* What a step adds to each of the numbers at most.
NativesGrow(n) == Len(natives') + Cardinality(Unlearned(natives')) <= Len(natives) + Cardinality(Unlearned(natives)) + n
ArrivedGrow(n) == Cardinality(Arrived(alerts')) <= Cardinality(Arrived(alerts)) + n
SearchingGrow(n) == Cardinality(Searching(torrents')) <= Cardinality(Searching(torrents)) + n
AheadGrow(n) ==
  /\ IsABag(pending') /\ IsFiniteSet(Ahead(pending'))
  /\ Cardinality(Ahead(pending')) <= Cardinality(Ahead(pending)) + n

LEMMA SetGrows ==
    ASSUME NEW A, IsFiniteSet(A), NEW B
    PROVE  /\ Cardinality(A) \in Nat
           /\ B \subseteq A => IsFiniteSet(B) /\ Cardinality(B) <= Cardinality(A) + 0
           /\ \A x : B \subseteq A \cup {x} => IsFiniteSet(B) /\ Cardinality(B) <= Cardinality(A) + 1
           /\ \A x \in A : B \subseteq A \ {x} => IsFiniteSet(B) /\ Cardinality(B) <= Cardinality(A) + (-1)
  <1>1. Cardinality(A) \in Nat
    BY FS_CardinalityType
  <1>2. B \subseteq A => IsFiniteSet(B) /\ Cardinality(B) <= Cardinality(A)
    BY FS_Subset
  <1>3. ASSUME NEW x, B \subseteq A \cup {x}
        PROVE  IsFiniteSet(B) /\ Cardinality(B) <= Cardinality(A) + 1
    <2>1. IsFiniteSet(A \cup {x}) /\ Cardinality(A \cup {x}) \in {Cardinality(A), Cardinality(A) + 1}
      BY FS_AddElement
    <2>2. B \in SUBSET (A \cup {x})
      BY <1>3
    <2>3. IsFiniteSet(B) /\ Cardinality(B) <= Cardinality(A \cup {x})
      BY <2>1, <2>2, FS_Subset
    <2>4. Cardinality(B) \in Nat
      BY <2>3, FS_CardinalityType
    <2> QED
      BY <1>1, <2>1, <2>3, <2>4
  <1>4. ASSUME NEW x \in A, B \subseteq A \ {x}
        PROVE  IsFiniteSet(B) /\ Cardinality(B) <= Cardinality(A) + (-1)
    <2>1. IsFiniteSet(A \ {x}) /\ Cardinality(A \ {x}) = Cardinality(A) - 1
      BY FS_RemoveElement
    <2>2. B \in SUBSET (A \ {x})
      BY <1>4
    <2>3. IsFiniteSet(B) /\ Cardinality(B) <= Cardinality(A \ {x})
      BY <2>1, <2>2, FS_Subset
    <2> QED
      BY <1>1, <2>1, <2>3
  <1>5. IsFiniteSet(B) => Cardinality(B) \in Nat
    BY FS_CardinalityType
  <1> QED
    BY <1>1, <1>2, <1>3, <1>4, <1>5

\* The sets counted are finite.
LEMMA CountsFinite ==
    ASSUME NEW nat \in Seq(NativeType), NEW queue \in Seq(AlertType), NEW tor,
           DOMAIN tor \subseteq DOMAIN nat
    PROVE  /\ Len(nat) \in Nat /\ DOMAIN nat = 1..Len(nat)
           /\ IsFiniteSet(Unlearned(nat)) /\ Cardinality(Unlearned(nat)) \in Nat
           /\ IsFiniteSet(Arrived(queue)) /\ Cardinality(Arrived(queue)) \in Nat
           /\ IsFiniteSet(Searching(tor)) /\ Cardinality(Searching(tor)) \in Nat
  <1>1. Len(nat) \in Nat /\ DOMAIN nat = 1..Len(nat) /\ Len(queue) \in Nat /\ DOMAIN queue = 1..Len(queue)
    BY LenProperties
  <1>2. IsFiniteSet(1..Len(nat)) /\ IsFiniteSet(1..Len(queue))
    BY <1>1, FS_Interval
  <1>3. /\ Unlearned(nat) \in SUBSET (1..Len(nat)) /\ Arrived(queue) \in SUBSET (1..Len(queue))
        /\ Searching(tor) \in SUBSET (1..Len(nat))
    BY <1>1 DEF Unlearned, Arrived, Searching
  <1>4. IsFiniteSet(Unlearned(nat)) /\ IsFiniteSet(Arrived(queue)) /\ IsFiniteSet(Searching(tor))
    BY <1>2, <1>3, FS_Subset
  <1> QED
    BY <1>1, <1>4, FS_CardinalityType

LEMMA CountParts ==
    ASSUME RegistryInv
    PROVE  /\ natives \in Seq(NativeType) /\ alerts \in Seq(AlertType)
           /\ Len(natives) \in Nat /\ DOMAIN natives = 1..Len(natives)
           /\ IsFiniteSet(Unlearned(natives)) /\ Cardinality(Unlearned(natives)) \in Nat
           /\ IsFiniteSet(Arrived(alerts)) /\ Cardinality(Arrived(alerts)) \in Nat
           /\ IsFiniteSet(Searching(torrents)) /\ Cardinality(Searching(torrents)) \in Nat
  BY CountsFinite DEF RegistryInv, NativesTyped, AlertsTyped, TorrentsTyped

LEMMA Charged ==
    ASSUME NEW x1 \in Int, NEW x2 \in Int, NEW k \in Int, NEW c \in Int, NEW c1 \in Nat, NEW c2 \in Nat,
           NEW r1 \in Int, NEW r2 \in Int,
           x2 <= x1 + k, k + 2 * c <= 2 * (r2 - r1), x1 + 2 * c1 <= 2 * r1, c2 <= c1 + c
    PROVE  x2 + 2 * c2 <= 2 * r2
  OBVIOUS

\* The numbers after the step are within what has been requested.
LEMMA CountGrows ==
    ASSUME RegistryInv, RegistryInv', CountInv, requests' \in 0..MaxRequests,
           NEW n \in Int, NEW a \in Int, NEW s \in Int, NEW c \in Int,
           NativesGrow(n), ArrivedGrow(a), SearchingGrow(s), AheadGrow(c),
           n + a + s + 2 * c <= 2 * (requests' - requests)
    PROVE  CountInv'
  <1> DEFINE n1 == Len(natives)    u1 == Cardinality(Unlearned(natives))
             a1 == Cardinality(Arrived(alerts))    s1 == Cardinality(Searching(torrents))
             c1 == Cardinality(Ahead(pending))
             n2 == Len(natives')    u2 == Cardinality(Unlearned(natives'))
             a2 == Cardinality(Arrived(alerts'))    s2 == Cardinality(Searching(torrents'))
             c2 == Cardinality(Ahead(pending'))
  <1>1. n1 \in Nat /\ u1 \in Nat /\ a1 \in Nat /\ s1 \in Nat
    BY CountParts
  <1>2. n2 \in Nat /\ u2 \in Nat /\ a2 \in Nat /\ s2 \in Nat
    BY CountsFinite DEF RegistryInv, NativesTyped, AlertsTyped, TorrentsTyped
  <1>3. c1 \in Nat /\ c2 \in Nat
    BY FS_CardinalityType DEF CountInv, AheadGrow
  <1>4. n1 + u1 + a1 + s1 + 2 * c1 <= 2 * requests /\ requests \in Int /\ requests' \in Int
    BY DEF CountInv
  <1>5. n2 + u2 <= n1 + u1 + n /\ a2 <= a1 + a /\ s2 <= s1 + s /\ c2 <= c1 + c
    BY DEF NativesGrow, ArrivedGrow, SearchingGrow, AheadGrow
  <1> HIDE DEF n1, u1, a1, s1, c1, n2, u2, a2, s2, c2
  <1>6. n2 + u2 + a2 + s2 <= n1 + u1 + a1 + s1 + (n + a + s)
    BY <1>1, <1>2, <1>5
  <1> DEFINE x1 == n1 + u1 + a1 + s1    x2 == n2 + u2 + a2 + s2    k == n + a + s
  <1>7. x1 \in Int /\ x2 \in Int /\ k \in Int
    BY <1>1, <1>2
  <1>8. x2 <= x1 + k /\ k + 2 * c <= 2 * (requests' - requests) /\ x1 + 2 * c1 <= 2 * requests
    BY <1>4, <1>6
  <1>9. c \in Int /\ c2 <= c1 + c /\ requests \in Int /\ requests' \in Int
    BY <1>4, <1>5
  <1> HIDE DEF x1, x2, k
  <1>10. x2 + 2 * c2 <= 2 * requests'
    BY <1>3, <1>7, <1>8, <1>9, Charged
  <1> QED
    BY <1>10 DEF CountInv, AheadGrow, x2, n2, u2, a2, s2, c2

\* As many native torrents, and none that has to learn more.
LEMMA NativesFewer ==
    ASSUME RegistryInv, natives' \in Seq(NativeType), DOMAIN natives' = DOMAIN natives,
           \A h \in DOMAIN natives : /\ natives'[h].alive => natives[h].alive
                                     /\ natives'[h].meta = natives[h].meta
    PROVE  NativesGrow(0)
  <1>1. Len(natives) \in Nat /\ DOMAIN natives = 1..Len(natives)
    BY CountParts
  <1>2. Len(natives') \in Nat /\ DOMAIN natives' = 1..Len(natives')
    BY LenProperties
  <1>3. Len(natives') = Len(natives)
    BY <1>1, <1>2
  <1>4. Unlearned(natives') \subseteq Unlearned(natives)
    BY DEF Unlearned
  <1>5. Cardinality(Unlearned(natives')) <= Cardinality(Unlearned(natives)) + 0
    BY <1>4, CountParts, SetGrows
  <1>6. Cardinality(Unlearned(natives)) \in Nat /\ Cardinality(Unlearned(natives')) \in Nat
    BY <1>4, CountParts, FS_Subset, FS_CardinalityType
  <1> QED
    BY <1>1, <1>3, <1>5, <1>6 DEF NativesGrow

LEMMA NativesMore ==
    ASSUME RegistryInv, NEW hashes \in InfoHash, NEW m \in BOOLEAN,
           natives' = Append(natives, NewNative(hashes, m))
    PROVE  NativesGrow(2)
  <1> DEFINE h == Len(natives) + 1
             x == NewNative(hashes, m)
  <1>1. natives \in Seq(NativeType) /\ x \in NativeType
    BY CountParts DEF NewNative, NativeType
  <1> HIDE DEF x
  <1>2. /\ Len(natives) \in Nat /\ Len(natives') = Len(natives) + 1
        /\ DOMAIN natives = 1..Len(natives) /\ DOMAIN natives' = 1 .. Len(natives) + 1
        /\ \A k \in DOMAIN natives : natives'[k] = natives[k]
    BY <1>1, AppendElements DEF x
  <1>3. Unlearned(natives') \subseteq Unlearned(natives) \cup {h}
    BY <1>2 DEF Unlearned
  <1>4. /\ IsFiniteSet(Unlearned(natives'))
        /\ Cardinality(Unlearned(natives')) <= Cardinality(Unlearned(natives)) + 1
    BY <1>3, CountParts, SetGrows
  <1>5. Cardinality(Unlearned(natives)) \in Nat /\ Cardinality(Unlearned(natives')) \in Nat
    BY <1>4, CountParts, FS_CardinalityType
  <1> QED
    BY <1>2, <1>4, <1>5 DEF NativesGrow

LEMMA NativesLearn ==
    ASSUME RegistryInv, NEW h \in DOMAIN natives, natives[h].alive, ~natives[h].meta,
           NEW all, Learned(h, all)
    PROVE  NativesGrow(-1)
  <1>1. Len(natives) \in Nat /\ DOMAIN natives = 1..Len(natives)
    BY CountParts
  <1>2. Len(natives') \in Nat /\ DOMAIN natives' = 1..Len(natives')
    BY LenProperties DEF Learned
  <1>3. Len(natives') = Len(natives)
    BY <1>1, <1>2 DEF Learned
  <1>4. h \in Unlearned(natives) /\ Unlearned(natives') \subseteq Unlearned(natives) \ {h}
    BY DEF Unlearned, Learned
  <1>5. /\ IsFiniteSet(Unlearned(natives'))
        /\ Cardinality(Unlearned(natives')) <= Cardinality(Unlearned(natives)) + (-1)
    BY <1>4, CountParts, SetGrows
  <1>6. Cardinality(Unlearned(natives)) \in Nat /\ Cardinality(Unlearned(natives')) \in Nat
    BY <1>5, CountParts, FS_CardinalityType
  <1> QED
    BY <1>1, <1>3, <1>5, <1>6 DEF NativesGrow

LEMMA IntervalEnd ==
    ASSUME NEW m \in Nat, NEW n \in Nat, 1..m = 1..n
    PROVE  m = n
  OBVIOUS

LEMMA NativesReplace ==
    ASSUME RegistryInv, NEW k, NEW all, NEW h, h = Len(natives) + 1, Replacing(k, h, all)
    PROVE  NativesGrow(1)
  <1>1. Len(natives) \in Nat /\ DOMAIN natives = 1..Len(natives)
    BY CountParts
  <1>2. Len(natives') \in Nat /\ DOMAIN natives' = 1..Len(natives')
    BY LenProperties DEF Replacing
  <1>3. DOMAIN natives' = 1..h /\ h \in Nat
    BY <1>1 DEF Replacing
  <1>4. Len(natives') = h
    BY <1>2, <1>3, IntervalEnd
  <1>5. Unlearned(natives') \subseteq Unlearned(natives)
    BY DEF Unlearned, Replacing
  <1>6. /\ IsFiniteSet(Unlearned(natives'))
        /\ Cardinality(Unlearned(natives')) <= Cardinality(Unlearned(natives)) + 0
    BY <1>5, CountParts, SetGrows
  <1>7. Cardinality(Unlearned(natives)) \in Nat /\ Cardinality(Unlearned(natives')) \in Nat
    BY <1>6, CountParts, FS_CardinalityType
  <1> QED
    BY <1>1, <1>4, <1>6, <1>7 DEF NativesGrow

\* The alerts of metadata, when others come and the first one goes.
LEMMA ArrivedFewer ==
    ASSUME RegistryInv, NEW d, NEW x, AlertsStep(d, x), x.type # "metadata"
    PROVE  /\ ArrivedGrow(0)
           /\ d = 1 /\ alerts # <<>> /\ Head(alerts).type = "metadata" => ArrivedGrow(-1)
  <1> DEFINE S == Arrived(alerts')
             T == Arrived(alerts)
             f == [i \in S |-> i + d]
  <1>1. alerts' \in Seq(AlertType) /\ d \in {0, 1}
    BY DEF AlertsStep
  <1>2. Len(alerts') \in Nat /\ DOMAIN alerts' = 1..Len(alerts')
    BY <1>1, LenProperties
  <1>3. \A i \in S : i \in Nat /\ i > 0 /\ i + d \in T
    BY <1>1, <1>2 DEF AlertsStep, Arrived
  <1>4. IsFiniteSet(T) /\ Cardinality(T) \in Nat
    BY CountParts
  <1>5. ASSUME NEW R \in SUBSET T, \A i \in S : i + d \in R
        PROVE  IsFiniteSet(S) /\ Cardinality(S) <= Cardinality(R)
    <2>1. IsFiniteSet(R)
      BY <1>4, FS_Subset
    <2> HIDE DEF S, T
    <2>2. f \in [S -> R] /\ \A i, j \in S : f[i] = f[j] => i = j
      BY <1>1, <1>3, <1>5
    <2> HIDE DEF f
    <2>3. f \in Injection(S, R)
      BY <2>2 DEF Injection, IsInjective
    <2> QED
      BY <2>1, <2>3, FS_Injection
  <1> HIDE DEF S, T
  <1>6. IsFiniteSet(S) /\ Cardinality(S) <= Cardinality(T) /\ Cardinality(S) \in Nat
    BY <1>3, <1>5, FS_CardinalityType
  <1>7. ASSUME d = 1, alerts # <<>>, Head(alerts).type = "metadata"
        PROVE  Cardinality(S) <= Cardinality(T) + (-1)
    <2>1. 1 \in T
      BY <1>7, HeadAlert DEF T, Arrived
    <2>2. \A i \in S : i + d \in T \ {1}
      BY <1>3, <1>7
    <2>3. Cardinality(S) <= Cardinality(T \ {1})
      BY <1>5, <2>2
    <2>4. Cardinality(T \ {1}) = Cardinality(T) - 1
      BY <1>4, <2>1, FS_RemoveElement
    <2> QED
      BY <1>4, <2>3, <2>4
  <1>8. Cardinality(S) <= Cardinality(T) + 0
    BY <1>4, <1>6
  <1> QED
    BY <1>7, <1>8 DEF ArrivedGrow, S, T

LEMMA ArrivedMore ==
    ASSUME RegistryInv, NEW x \in AlertType, alerts' = Append(alerts, x)
    PROVE  ArrivedGrow(1)
  <1>1. /\ DOMAIN alerts = 1..Len(alerts) /\ DOMAIN alerts' = 1 .. Len(alerts) + 1 /\ Len(alerts) \in Nat
        /\ \A i \in DOMAIN alerts : alerts'[i] = alerts[i]
    BY CountParts, AppendElements
  <1>2. Arrived(alerts') \subseteq Arrived(alerts) \cup {Len(alerts) + 1}
    BY <1>1 DEF Arrived
  <1>3. Cardinality(Arrived(alerts')) <= Cardinality(Arrived(alerts)) + 1
    BY <1>2, CountParts, SetGrows
  <1> QED
    BY <1>3 DEF ArrivedGrow

\* The torrents that wait for their files.
LEMMA SearchingFewer ==
    ASSUME RegistryInv, Searching(torrents') \subseteq Searching(torrents)
    PROVE  SearchingGrow(0)
  BY CountParts, SetGrows DEF SearchingGrow

\* For the steps that add to nothing.
LEMMA NothingGrows ==
    ASSUME RegistryInv
    PROVE  /\ natives' = natives => NativesGrow(0)
           /\ alerts' = alerts => ArrivedGrow(0)
           /\ torrents' = torrents => SearchingGrow(0)
  <1>1. natives' = natives => NativesGrow(0)
    BY CountParts DEF NativesGrow
  <1>2. alerts' = alerts => ArrivedGrow(0)
    BY CountParts DEF ArrivedGrow
  <1>3. torrents' = torrents => SearchingGrow(0)
    BY CountParts DEF SearchingGrow
  <1> QED
    BY <1>1, <1>2, <1>3

\* The additions queued, when a call is queued, is done, or is dropped.
LEMMA AheadPairs ==
    ASSUME NEW B
    PROVE  /\ \A c \in DOMAIN B, n \in Nat : <<c, n>> \in Ahead(B) <=> c.call = "add" /\ n \in 1..B[c]
           /\ \A p \in Ahead(B) : \E c \in DOMAIN B, n \in Nat : p = <<c, n>>
  <1>1. ASSUME NEW c \in BagToSet(B), NEW n \in Nat
        PROVE  <<c, n>> \in Ahead(B) <=> c.call = "add" /\ n \in 1..B[c]
    <2> DEFINE p == <<c, n>>
    <2>1. p[1] = c /\ p[2] = n
      OBVIOUS
    <2>2. p \in BagToSet(B) \X Nat
      OBVIOUS
    <2> HIDE DEF p
    <2>3. p \in Ahead(B) <=> c.call = "add" /\ n \in 1..B[c]
      BY <2>1, <2>2 DEF Ahead
    <2> QED
      BY <2>3 DEF p
  <1>2. ASSUME NEW p \in Ahead(B)
        PROVE  \E c \in BagToSet(B), n \in Nat : p = <<c, n>>
    <2>1. p \in BagToSet(B) \X Nat
      BY DEF Ahead
    <2>2. p = <<p[1], p[2]>> /\ p[1] \in BagToSet(B) /\ p[2] \in Nat
      BY <2>1
    <2> QED
      BY <2>2, Zenon
  <1>3. BagToSet(B) = DOMAIN B
    BY DEF BagToSet
  <1> QED
    BY <1>1, <1>2, <1>3

LEMMA BagMore ==
    ASSUME NEW B, IsABag(B), IsFiniteSet(Ahead(B)), NEW call
    PROVE  LET r == B (+) One(call) IN
           /\ IsABag(r) /\ IsFiniteSet(Ahead(r))
           /\ Cardinality(Ahead(r)) <= Cardinality(Ahead(B)) + 1
           /\ call.call # "add" => Cardinality(Ahead(r)) <= Cardinality(Ahead(B)) + 0
  <1> DEFINE r == B (+) One(call)
             x == <<call, r[call]>>
  <1>1. DOMAIN One(call) = {call} /\ One(call)[call] = 1
    BY DEF One, SetToBag
  <1>2. /\ DOMAIN r = DOMAIN B \cup {call}
        /\ \A c \in DOMAIN r : r[c] = (IF c \in DOMAIN B THEN B[c] ELSE 0) + (IF c = call THEN 1 ELSE 0)
        /\ r = [c \in DOMAIN r |-> r[c]]
    BY <1>1 DEF (+)
  <1>3. B \in [DOMAIN B -> {n \in Nat : n > 0}]
    BY DEF IsABag
  <1> HIDE DEF r
  <1>4. \A c \in DOMAIN r : /\ r[c] \in Nat /\ r[c] > 0
                            /\ c # call => c \in DOMAIN B /\ r[c] = B[c]
                            /\ c = call /\ c \in DOMAIN B => r[c] = B[c] + 1
                            /\ c = call /\ c \notin DOMAIN B => r[c] = 1
    BY <1>2, <1>3
  <1>5. IsABag(r)
    BY <1>2, <1>4 DEF IsABag
  <1>6. Ahead(r) \subseteq Ahead(B) \cup {x}
    <2>1. SUFFICES ASSUME NEW c \in DOMAIN r, NEW n \in Nat, c.call = "add", n \in 1..r[c],
                          <<c, n>> # x
                   PROVE  c \in DOMAIN B /\ n \in 1..B[c]
      BY AheadPairs
    <2>2. CASE c = call
      <3>1. n # r[c] /\ r[c] \in Nat
        BY <1>4, <2>1, <2>2
      <3>2. n \in 1 .. r[c] - 1
        BY <2>1, <3>1
      <3>3. CASE c \in DOMAIN B
        BY <1>3, <1>4, <2>2, <3>2, <3>3
      <3>4. CASE c \notin DOMAIN B
        BY <1>4, <2>2, <3>2, <3>4
      <3> QED
        BY <3>3, <3>4
    <2>3. CASE c # call
      BY <1>4, <2>1, <2>3
    <2> QED
      BY <2>2, <2>3
  <1>7. call.call # "add" => Ahead(r) \subseteq Ahead(B)
    BY <1>4, AheadPairs
  <1> HIDE DEF x
  <1>8. /\ IsFiniteSet(Ahead(r)) /\ Cardinality(Ahead(r)) <= Cardinality(Ahead(B)) + 1
        /\ Ahead(r) \subseteq Ahead(B) => Cardinality(Ahead(r)) <= Cardinality(Ahead(B)) + 0
    BY <1>6, SetGrows
  <1> QED
    BY <1>5, <1>7, <1>8 DEF r

LEMMA BagFewer ==
    ASSUME NEW B, IsABag(B), IsFiniteSet(Ahead(B)), NEW r, DOMAIN r \subseteq DOMAIN B,
           r = [c \in DOMAIN r |-> r[c]],
           \A c \in DOMAIN r : r[c] \in Nat /\ r[c] > 0 /\ r[c] <= B[c]
    PROVE  IsABag(r) /\ IsFiniteSet(Ahead(r)) /\ Cardinality(Ahead(r)) <= Cardinality(Ahead(B)) + 0
  <1>1. IsABag(r)
    BY DEF IsABag
  <1>2. B \in [DOMAIN B -> {n \in Nat : n > 0}]
    BY DEF IsABag
  <1>3. ASSUME NEW c \in DOMAIN r, NEW n \in Nat, n \in 1..r[c]
        PROVE  c \in DOMAIN B /\ n \in 1..B[c]
    BY <1>2, <1>3
  <1>4. Ahead(r) \subseteq Ahead(B)
    BY <1>3, AheadPairs
  <1> QED
    BY <1>1, <1>4, SetGrows

LEMMA AheadAdded ==
    ASSUME CountInv, NEW call, pending' = pending (+) One(call)
    PROVE  AheadGrow(1) /\ (call.call # "add" => AheadGrow(0))
  BY BagMore DEF CountInv, AheadGrow

LEMMA AheadDone ==
    ASSUME CountInv, NEW call, pending' = pending (-) One(call)
    PROVE  /\ AheadGrow(0)
           /\ call.call = "add" /\ call \in DOMAIN pending => AheadGrow(-1)
  <1> DEFINE r == pending (-) One(call)
  <1>1. DOMAIN One(call) = {call} /\ One(call)[call] = 1
    BY DEF One, SetToBag
  <1>2. pending \in [DOMAIN pending -> {n \in Nat : n > 0}]
        /\ IsABag(pending) /\ IsFiniteSet(Ahead(pending))
    BY DEF CountInv, IsABag
  <1> DEFINE m == [e \in DOMAIN pending |-> IF e \in DOMAIN One(call) THEN pending[e] - One(call)[e]
                                            ELSE pending[e]]
  <1>3. r = [e \in {i \in DOMAIN m : m[i] > 0} |-> m[e]]
    BY DEF (-)
  <1>4. /\ DOMAIN m = DOMAIN pending
        /\ \A c \in DOMAIN pending : m[c] = pending[c] - (IF c = call THEN 1 ELSE 0)
    BY <1>1, <1>2
  <1> HIDE DEF m, r
  <1>5. /\ DOMAIN r = {c \in DOMAIN pending : m[c] > 0}
        /\ \A c \in DOMAIN r : r[c] = m[c]
        /\ r = [c \in DOMAIN r |-> r[c]]
    BY <1>3, <1>4
  <1>6. \A c \in DOMAIN r : r[c] \in Nat /\ r[c] > 0 /\ r[c] <= pending[c]
    BY <1>2, <1>4, <1>5
  <1>7. DOMAIN r \subseteq DOMAIN pending
    BY <1>5
  <1>8. IsABag(r) /\ IsFiniteSet(Ahead(r)) /\ Cardinality(Ahead(r)) <= Cardinality(Ahead(pending)) + 0
    BY <1>2, <1>5, <1>6, <1>7, BagFewer
  <1>9. ASSUME call.call = "add", call \in DOMAIN pending
        PROVE  Cardinality(Ahead(r)) <= Cardinality(Ahead(pending)) + (-1)
    <2> DEFINE x == <<call, pending[call]>>
    <2>1. pending[call] \in Nat /\ pending[call] > 0
      BY <1>2, <1>9
    <2>2. x \in Ahead(pending)
      BY <1>9, <2>1, AheadPairs
    <2>3. call \in DOMAIN r => r[call] = pending[call] - 1
      BY <1>4, <1>5, <1>9
    <2>4. x \notin Ahead(r)
      BY <2>1, <2>3, AheadPairs
    <2>5. Ahead(r) \subseteq Ahead(pending)
      <3>1. ASSUME NEW c \in DOMAIN r, NEW n \in Nat, n \in 1..r[c]
            PROVE  c \in DOMAIN pending /\ n \in 1..pending[c]
        BY <1>2, <1>6, <1>7, <3>1
      <3> QED
        BY <3>1, AheadPairs
    <2> HIDE DEF x
    <2>6. Ahead(r) \subseteq Ahead(pending) \ {x}
      BY <2>4, <2>5
    <2> QED
      BY <1>2, <2>2, <2>6, SetGrows
  <1> QED
    BY <1>8, <1>9 DEF AheadGrow, r

LEMMA AheadWithout ==
    ASSUME CountInv, NEW calls
    PROVE  /\ IsABag(Without(calls)) /\ IsFiniteSet(Ahead(Without(calls)))
           /\ Cardinality(Ahead(Without(calls))) <= Cardinality(Ahead(pending)) + 0
  <1>1. pending \in [DOMAIN pending -> {n \in Nat : n > 0}]
        /\ IsABag(pending) /\ IsFiniteSet(Ahead(pending))
    BY DEF CountInv, IsABag
  <1> DEFINE r == Without(calls)
  <1>2. DOMAIN r = DOMAIN pending \ calls /\ r = [c \in DOMAIN r |-> r[c]]
        /\ \A c \in DOMAIN r : r[c] = pending[c]
    BY DEF Without
  <1> HIDE DEF r
  <1>3. DOMAIN r \subseteq DOMAIN pending /\ \A c \in DOMAIN r : r[c] \in Nat /\ r[c] > 0 /\ r[c] <= pending[c]
    BY <1>1, <1>2
  <1> QED
    BY <1>1, <1>2, <1>3, BagFewer DEF r

LEMMA AheadKept ==
    ASSUME CountInv, pending' = pending
    PROVE  AheadGrow(0)
  BY FS_CardinalityType DEF CountInv, AheadGrow

LEMMA AheadEmpty ==
    ASSUME CountInv, pending' = pending (+) EmptyBag
    PROVE  AheadGrow(0)
  <1>1. DOMAIN EmptyBag = {}
    BY DEF EmptyBag, SetToBag
  <1>2. pending \in [DOMAIN pending -> {n \in Nat : n > 0}]
    BY DEF CountInv, IsABag
  <1>3. pending' = [c \in DOMAIN pending |-> pending[c] + 0]
    BY <1>1 DEF (+)
  <1>4. pending' = pending
    BY <1>2, <1>3
  <1> QED
    BY <1>4, AheadKept

\* The calls that do not add a torrent.
LEMMA NotAdd ==
    /\ \A h : SetMetadataCall(h).call # "add"
    /\ \A t : RequestCall(t).call # "add" /\ SearchCall(t).call # "add"
  BY DEF SetMetadataCall, RequestCall, SearchCall, Call

\* What a request allows, and what goes on without one.
LEMMA RequestCounts ==
    ASSUME CountInv
    PROVE  /\ Request => requests' \in 0..MaxRequests /\ 2 <= 2 * (requests' - requests)
           /\ requests' = requests => requests' \in 0..MaxRequests /\ 0 <= 2 * (requests' - requests)
  BY RegistryAssumption DEF CountInv, Request

LEMMA CountKept ==
    ASSUME RegistryInv, RegistryInv', CountInv, Request \/ requests' = requests,
           NativesGrow(0), ArrivedGrow(0), SearchingGrow(0), AheadGrow(0)
    PROVE  CountInv'
  <1>1. requests' \in 0..MaxRequests /\ 0 + 0 + 0 + 2 * 0 <= 2 * (requests' - requests)
    BY RequestCounts DEF CountInv
  <1> QED
    BY <1>1, CountGrows

-----------------------------------------------------------------------------
(* What each action adds.                                                  *)

LEMMA DuplicateCounts ==
    ASSUME RegistryInv, RegistryInv', CountInv, NEW hashes, NEW meta, AddDuplicate(hashes, meta)
    PROVE  CountInv'
  <1> DEFINE call == SetMetadataCall(torrents[FindTorrent(hashes)].handle)
  <1>1. Request /\ pending' = pending (+) One(call) /\ UNCHANGED <<natives, alerts, torrents>>
    BY DEF AddDuplicate, session
  <1>2. call.call # "add"
    BY NotAdd
  <1> HIDE DEF call
  <1> QED
    BY <1>1, <1>2, AheadAdded, NothingGrows, CountKept

\* A hidden native torrent that goes has nothing to learn any more.
LEMMA CancelledMeta ==
    ASSUME NEW nat \in Seq(NativeType), NEW dow \in [ID -> Int], NEW id \in ID,
           dow[id] \in {None, Requested} \cup DOMAIN nat
    PROVE  LET r == Cancel(id, [downloaded |-> dow, natives |-> nat]) IN
           \A h \in DOMAIN nat : r.natives[h].meta = nat[h].meta
  <1> DEFINE hid == [downloaded |-> dow, natives |-> nat]
             h == dow[id]
             n == IF h > 0 THEN Removed(nat, h) ELSE nat
  <1>1. hid.downloaded = dow /\ hid.natives = nat
    OBVIOUS
  <1>2. Cancel(id, hid).natives = n
    BY <1>1 DEF Cancel
  <1>3. h > 0 => h \in DOMAIN nat
    BY DEF None, Requested
  <1>4. \A k \in DOMAIN nat : n[k].meta = nat[k].meta
    BY <1>3, RemovedNative
  <1> QED
    BY <1>2, <1>4

LEMMA CancelledOneCounts ==
    ASSUME RegistryInv, RegistryInv', NEW id \in ID, natives' = Cancel(id, Hidden).natives
    PROVE  NativesGrow(0)
  <1>1. natives' \in Seq(NativeType)
    BY DEF RegistryInv, NativesTyped
  <1>2. DOMAIN natives' = DOMAIN natives /\ \A h \in DOMAIN natives : natives'[h].alive => natives[h].alive
    BY CancelledOne
  <1>3. natives \in Seq(NativeType) /\ downloaded \in [ID -> Int]
        /\ downloaded[id] \in {None, Requested} \cup DOMAIN natives
    BY TorrentParts
  <1>4. \A h \in DOMAIN natives : natives'[h].meta = natives[h].meta
    BY <1>3, CancelledMeta DEF Hidden
  <1> QED
    BY <1>1, <1>2, <1>4, NativesFewer

LEMMA CancelledTwoCounts ==
    ASSUME RegistryInv, RegistryInv', NEW id \in ID, NEW other \in ID,
           natives' = Cancel(other, Cancel(id, Hidden)).natives
    PROVE  NativesGrow(0)
  <1>1. natives' \in Seq(NativeType)
    BY DEF RegistryInv, NativesTyped
  <1>2. DOMAIN natives' = DOMAIN natives /\ \A h \in DOMAIN natives : natives'[h].alive => natives[h].alive
    BY CancelledTwo
  <1> DEFINE s == Cancel(id, Hidden)
             nat == s.natives
             dow == s.downloaded
  <1>3. /\ nat \in Seq(NativeType) /\ DOMAIN nat = DOMAIN natives /\ dow \in [ID -> Int]
        /\ \A i \in ID : dow[i] \in {downloaded[i], None}
        /\ s = [downloaded |-> dow, natives |-> nat]
    BY CancelledOne
  <1>4. natives \in Seq(NativeType) /\ downloaded \in [ID -> Int]
        /\ \A i \in ID : downloaded[i] \in {None, Requested} \cup DOMAIN natives
    BY TorrentParts
  <1>5. \A h \in DOMAIN natives : nat[h].meta = natives[h].meta
    BY <1>4, CancelledMeta DEF Hidden
  <1>6. natives' = Cancel(other, [downloaded |-> dow, natives |-> nat]).natives
    BY <1>3
  <1> HIDE DEF s, nat, dow
  <1>7. dow[other] \in {None, Requested} \cup DOMAIN nat
    BY <1>3, <1>4
  <1>8. \A h \in DOMAIN nat : natives'[h].meta = nat[h].meta
    BY <1>3, <1>6, <1>7, CancelledMeta
  <1>9. \A h \in DOMAIN natives : natives'[h].meta = natives[h].meta
    BY <1>3, <1>5, <1>8
  <1> QED
    BY <1>1, <1>2, <1>9, NativesFewer

LEMMA AddCounts ==
    ASSUME RegistryInv, RegistryInv', CountInv, NEW hashes \in InfoHash, NEW meta, AddTorrent(hashes, meta)
    PROVE  CountInv'
  <1> DEFINE id == ToTorrentID(hashes)
             call == AddCall(hashes, meta)
  <1>1. /\ \/ natives' = Cancel(id, Hidden).natives
           \/ natives' = Cancel(V1(hashes), Cancel(id, Hidden)).natives
        /\ Request /\ pending' = pending (+) One(call) /\ UNCHANGED <<alerts, torrents>>
    BY DEF AddTorrent, session
  <1>2. id \in ID /\ V1(hashes) \in ID
    BY HashesNamed
  <1> HIDE DEF id, call
  <1>3. NativesGrow(0)
    BY <1>1, <1>2, CancelledOneCounts, CancelledTwoCounts
  <1>4. ArrivedGrow(0) /\ SearchingGrow(0) /\ AheadGrow(1)
    BY <1>1, NothingGrows, AheadAdded
  <1>5. requests' \in 0..MaxRequests /\ 0 + 0 + 0 + 2 * 1 <= 2 * (requests' - requests)
    BY <1>1, RequestCounts
  <1> QED
    BY <1>3, <1>4, <1>5, CountGrows

LEMMA CancelCounts ==
    ASSUME RegistryInv, RegistryInv', CountInv, NEW id \in ID, CancelDownloadMetadata(id)
    PROVE  CountInv'
  <1>1. Request /\ natives' = Cancel(id, Hidden).natives /\ UNCHANGED <<alerts, torrents, pending>>
    BY DEF CancelDownloadMetadata, session
  <1> QED
    BY <1>1, CancelledOneCounts, NothingGrows, AheadKept, CountKept

\* An alert that answers an addition.
LEMMA AddedGrows ==
    ASSUME RegistryInv, NEW h, NEW hashes, NEW who, Added(h, hashes, who) \in AlertType,
           alerts' = Append(alerts, Added(h, hashes, who))
    PROVE  ArrivedGrow(0)
  <1> DEFINE x == Added(h, hashes, who)
  <1>1. x.type # "metadata"
    BY DEF Added, Alert
  <1> HIDE DEF x
  <1>2. AlertsStep(0, x)
    BY CountParts, AlertsPosted DEF x
  <1> QED
    BY <1>1, <1>2, ArrivedFewer

\* To add less is to add no more.
LEMMA WeakerGrow ==
    ASSUME RegistryInv, NativesGrow(0), natives' = natives
    PROVE  NativesGrow(2)
  BY CountParts DEF NativesGrow

LEMMA PostAdditionCounts ==
    ASSUME RegistryInv, RegistryInv', CountInv, NEW call, PostAddition(call)
    PROVE  CountInv'
  <1> DEFINE hashes == call.hashes
  <1>1. /\ call.call = "add" /\ BagIn(call, pending) /\ pending' = pending (-) One(call)
        /\ UNCHANGED <<torrents, requests>>
    BY DEF PostAddition
  <1>2. hashes \in InfoHash /\ call.meta \in BOOLEAN /\ call \in DOMAIN pending
    BY <1>1, Calls DEF RegistryInv, PendingTyped, CallFits
  <1>3. AheadGrow(-1) /\ SearchingGrow(0)
    BY <1>1, <1>2, AheadDone, NothingGrows
  <1>4. NativesGrow(2) /\ ArrivedGrow(0)
    <2>1. CASE Owner(natives, hashes) = None
      <3> DEFINE h == Len(natives) + 1
      <3>1. /\ natives' = Append(natives, NewNative(hashes, call.meta))
            /\ alerts' = Append(alerts, Added(h, hashes, "user"))
        BY <2>1 DEF PostAddition
      <3>2. NativesGrow(2)
        BY <1>2, <3>1, NativesMore
      <3>3. h \in Nat
        BY CountParts
      <3> HIDE DEF h
      <3>4. Added(h, hashes, "user") \in AlertType
        BY <1>2, <3>3, AddedType DEF Who
      <3> QED
        BY <3>1, <3>2, <3>4, AddedGrows
    <2>2. CASE Owner(natives, hashes) # None
      <3>1. natives' = natives /\ alerts' = Append(alerts, Added(None, hashes, "user"))
        BY <2>2 DEF PostAddition
      <3>2. Added(None, hashes, "user") \in AlertType
        BY <1>2, AddedType DEF Who, None
      <3>4. NativesGrow(2)
        BY <3>1, NothingGrows, WeakerGrow
      <3> QED
        BY <3>1, <3>2, <3>4, AddedGrows
    <2> QED
      BY <2>1, <2>2
  <1>5. requests' \in 0..MaxRequests /\ 2 + 0 + 0 + 2 * (-1) <= 2 * (requests' - requests)
    BY <1>1, RequestCounts DEF CountInv
  <1> QED
    BY <1>3, <1>4, <1>5, CountGrows

LEMMA DownloadCounts ==
    ASSUME RegistryInv, RegistryInv', CountInv, NEW hashes \in InfoHash, DownloadMetadata(hashes)
    PROVE  CountInv'
  <1> DEFINE owner == Owner(natives, hashes)
  <1>1. Request /\ UNCHANGED <<torrents, pending>>
    BY DEF DownloadMetadata
  <1>2. NativesGrow(2) /\ ArrivedGrow(0)
    <2>1. CASE owner = None
      <3> DEFINE h == Len(natives) + 1
      <3>1. /\ natives' = Append(natives, NewNative(hashes, FALSE))
            /\ alerts' = Append(alerts, Added(h, hashes, "hidden"))
        BY <2>1 DEF DownloadMetadata
      <3>2. NativesGrow(2)
        BY <3>1, NativesMore
      <3>3. h \in Nat
        BY CountParts
      <3> HIDE DEF h
      <3>4. Added(h, hashes, "hidden") \in AlertType
        BY <3>3, AddedType DEF Who
      <3> QED
        BY <3>1, <3>2, <3>4, AddedGrows
    <2>2. CASE owner # None
      <3>1. natives' = natives /\ alerts' = Append(alerts, Added(owner, hashes, "hidden"))
        BY <2>2 DEF DownloadMetadata
      <3>2. natives \in Seq(NativeType)
        BY CountParts
      <3>3. owner \in DOMAIN natives
        BY <2>2, <3>2, OwnerFound
      <3>4. owner \in Nat
        BY <3>2, <3>3, NativeParts
      <3> HIDE DEF owner
      <3>5. Added(owner, hashes, "hidden") \in AlertType
        BY <3>4, AddedType DEF Who
      <3>6. NativesGrow(2)
        BY <3>1, NothingGrows, WeakerGrow
      <3> QED
        BY <3>1, <3>5, <3>6, AddedGrows
    <2> QED
      BY <2>1, <2>2
  <1>3. SearchingGrow(0) /\ AheadGrow(0)
    BY <1>1, NothingGrows, AheadKept
  <1>4. requests' \in 0..MaxRequests /\ 2 + 0 + 0 + 2 * 0 <= 2 * (requests' - requests)
    BY <1>1, RequestCounts
  <1> QED
    BY <1>2, <1>3, <1>4, CountGrows

\* A torrent that is removed.
LEMMA RemovalCounts ==
    ASSUME RegistryInv, CountInv, NEW t \in DOMAIN torrents,
           natives' = Removal(t).natives, torrents' = Removal(t).torrents
    PROVE  NativesGrow(0) /\ SearchingGrow(0)
  <1>1. /\ natives' \in Seq(NativeType) /\ DOMAIN natives' = DOMAIN natives
        /\ \A k \in DOMAIN natives : /\ natives'[k].meta = natives[k].meta
                                     /\ natives'[k].alive => natives[k].alive
        /\ DOMAIN torrents' = DOMAIN torrents \ {t}
        /\ \A u \in DOMAIN torrents' : torrents'[u] = torrents[u]
    BY RemovalParts
  <1>2. NativesGrow(0)
    BY <1>1, NativesFewer
  <1>3. Searching(torrents') \subseteq Searching(torrents)
    BY <1>1 DEF Searching
  <1> QED
    BY <1>2, <1>3, SearchingFewer

LEMMA RemoveCounts ==
    ASSUME RegistryInv, RegistryInv', CountInv, NEW id \in ID, RemoveTorrent(id)
    PROVE  CountInv'
  <1> DEFINE t == registry[id]
  <1>1. /\ t # None /\ Request
        /\ torrents' = Removal(t).torrents /\ natives' = Removal(t).natives
        /\ pending' = Removal(t).pending /\ alerts' = alerts
    BY DEF RemoveTorrent
  <1>2. t \in DOMAIN torrents
    BY <1>1, TorrentParts
  <1> HIDE DEF t
  <1>3. pending' = Without({RequestCall(t), SearchCall(t)})
    BY <1>1 DEF Removal
  <1>4. AheadGrow(0)
    BY <1>3, AheadWithout DEF AheadGrow
  <1>5. NativesGrow(0) /\ SearchingGrow(0) /\ ArrivedGrow(0)
    BY <1>1, <1>2, RemovalCounts, NothingGrows
  <1> QED
    BY <1>1, <1>4, <1>5, CountKept

\* The alert that was handled, whatever was posted after it.
LEMMA AlertHandled ==
    ASSUME RegistryInv, AlertsStep(1, NoAlert)
    PROVE  /\ ArrivedGrow(0)
           /\ alerts # <<>> /\ Head(alerts).type = "metadata" => ArrivedGrow(-1)
  <1>1. NoAlert.type # "metadata"
    BY DEF NoAlert, Alert
  <1> QED
    BY <1>1, ArrivedFewer

LEMMA HandleAddedCounts ==
    ASSUME RegistryInv, RegistryInv', CountInv, Answering(addHandlers, alerts), HandleAdded
    PROVE  CountInv'
  <1> DEFINE h == Head(alerts).handle
  <1>1. /\ alerts # <<>> /\ Head(alerts).type = "add" /\ Head(addHandlers) = "user"
        /\ UNCHANGED <<natives, pending, requests>>
    BY DEF HandleAdded, NextAlert
  <1>2. alerts \in Seq(AlertType) /\ AlertFits(Head(alerts), natives)
    BY <1>1, HeadAlert
  <1>3. ArrivedGrow(0) /\ SearchingGrow(0)
    <2>1. CASE h = None
      <3>1. alerts' = Tail(alerts) /\ torrents' = torrents
        BY <2>1 DEF HandleAdded
      <3>2. AlertsStep(1, NoAlert)
        BY <1>1, <1>2, <3>1, AlertsTaken
      <3> QED
        BY <3>1, <3>2, AlertHandled, NothingGrows
    <2>2. CASE h # None
      <3> DEFINE x == Saved(natives, h)
      <3>1. h \in DOMAIN natives /\ NativesTyped
        BY <1>2, <2>2 DEF AlertFits, RegistryInv
      <3>2. alerts' = Tail(alerts) \o SaveResumeData(natives, h)
        BY <2>2 DEF HandleAdded
      <3>3. torrents' = [o \in DOMAIN torrents \cup {h} |-> IF o = h THEN NewTorrent(h) ELSE torrents[o]]
        BY <2>2 DEF HandleAdded, NewTorrent
      <3> HIDE DEF h
      <3>4. AlertsStep(1, x)
        BY <1>1, <1>2, <3>1, <3>2, AlertsTakenSaved
      <3>5. x.type = "resume"
        BY <3>1, SavedType
      <3> HIDE DEF x
      <3>6. ArrivedGrow(0)
        BY <3>4, <3>5, ArrivedFewer
      <3>7. NewTorrent(h).job = FALSE
        BY DEF NewTorrent
      <3>8. Searching(torrents') \subseteq Searching(torrents)
        BY <3>3, <3>7 DEF Searching
      <3> QED
        BY <3>6, <3>8, SearchingFewer
    <2> QED
      BY <2>1, <2>2
  <1>4. NativesGrow(0) /\ AheadGrow(0)
    BY <1>1, NothingGrows, AheadKept
  <1> QED
    BY <1>1, <1>3, <1>4, CountKept

LEMMA HandlePlainCounts ==
    ASSUME RegistryInv, RegistryInv', CountInv, HandleHidden \/ HandleReloaded
    PROVE  CountInv'
  <1>1. /\ alerts # <<>> /\ alerts' = Tail(alerts)
        /\ UNCHANGED <<natives, torrents, pending, requests>>
    BY DEF HandleHidden, HandleReloaded, NextAlert
  <1>2. AlertsStep(1, NoAlert)
    BY <1>1, HeadAlert, AlertsTaken
  <1> QED
    BY <1>1, <1>2, AlertHandled, NothingGrows, AheadKept, CountKept

LEMMA HandleMetadataCounts ==
    ASSUME RegistryInv, RegistryInv', CountInv, HandleMetadata
    PROVE  CountInv'
  <1> DEFINE t == MetadataFor(Head(alerts).handle)
             b == natives[torrents[t].handle].hashes
  <1>1. /\ alerts # <<>> /\ Head(alerts).type = "metadata" /\ t # None /\ alerts' = Tail(alerts)
        /\ torrents' = [torrents EXCEPT ![t].hashes = b, ![t].job = TRUE]
        /\ pending' = pending (+) Deferred(t)
        /\ UNCHANGED <<natives, requests>>
    BY DEF HandleMetadata, NextAlert
  <1>2. t \in DOMAIN torrents
    BY <1>1, MetadataIsFor
  <1>3. b \in InfoHash
    BY <1>2, TorrentParts
  <1> HIDE DEF t
  <1>4. /\ DOMAIN torrents' = DOMAIN torrents
        /\ \A u \in DOMAIN torrents : u # t => torrents'[u] = torrents[u]
    BY <1>1, <1>2, <1>3, WaitingTorrent
  <1>5. Searching(torrents') \subseteq Searching(torrents) \cup {t}
    BY <1>4 DEF Searching
  <1>6. SearchingGrow(1)
    BY <1>5, CountParts, SetGrows DEF SearchingGrow
  <1>7. AlertsStep(1, NoAlert)
    BY <1>1, HeadAlert, AlertsTaken
  <1>8. ArrivedGrow(-1)
    BY <1>1, <1>7, AlertHandled
  <1>9. AheadGrow(0)
    <2> DEFINE call == RequestCall(t)
    <2>1. pending' = pending (+) EmptyBag \/ pending' = pending (+) One(call)
      BY <1>1 DEF Deferred
    <2>2. call.call # "add"
      BY NotAdd
    <2> HIDE DEF call
    <2> QED
      BY <2>1, <2>2, AheadEmpty, AheadAdded
  <1>10. NativesGrow(0)
    BY <1>1, NothingGrows
  <1>11. requests' \in 0..MaxRequests /\ 0 + (-1) + 1 + 2 * 0 <= 2 * (requests' - requests)
    BY <1>1, RequestCounts DEF CountInv
  <1> QED
    BY <1>6, <1>8, <1>9, <1>10, <1>11, CountGrows

LEMMA HandleHiddenMetadataCounts ==
    ASSUME RegistryInv, RegistryInv', CountInv, HandleHiddenMetadata
    PROVE  CountInv'
  <1> DEFINE h == Head(alerts).handle
  <1>1. /\ alerts # <<>> /\ Head(alerts).type = "metadata" /\ alerts' = Tail(alerts)
        /\ natives' = natives \/ natives' = Removed(natives, h)
        /\ UNCHANGED <<torrents, pending, requests>>
    BY DEF HandleHiddenMetadata, NextAlert, session
  <1>2. h \in DOMAIN natives /\ alerts \in Seq(AlertType) /\ natives \in Seq(NativeType)
    BY <1>1, HeadAlert, CountParts
  <1> HIDE DEF h
  <1>3. AlertsStep(1, NoAlert)
    BY <1>1, <1>2, AlertsTaken
  <1>4. NativesGrow(0)
    <2>1. CASE natives' = Removed(natives, h)
      BY <1>2, <2>1, RemovedNative, NativesFewer
    <2> QED
      BY <1>1, <2>1, NothingGrows
  <1> QED
    BY <1>1, <1>3, <1>4, AlertHandled, NothingGrows, AheadKept, CountKept

LEMMA HandleResumeDataCounts ==
    ASSUME RegistryInv, RegistryInv', CountInv, HandleResumeData
    PROVE  CountInv'
  <1> DEFINE h == Head(alerts).handle
             t == TorrentOf(h)
             call == SearchCall(t)
  <1>1. /\ alerts # <<>> /\ Head(alerts).type = "resume" /\ alerts' = Tail(alerts)
        /\ UNCHANGED <<natives, requests>>
    BY DEF HandleResumeData, NextAlert
  <1>2. \/ torrents' = torrents /\ pending' = pending
        \/ torrents' = torrents /\ pending' = pending (+) One(call)
        \/ t # None /\ torrents' = [torrents EXCEPT ![t].stored = TRUE] /\ pending' = pending
    BY DEF HandleResumeData
  <1>3. t # None => t \in DOMAIN torrents
    <2>1. ToTorrentID(natives[h].hashes) \in ID
      BY <1>1, HeadAlert, HashesNamed
    <2> QED
      BY <2>1, TorrentParts DEF TorrentOf
  <1>4. AlertsStep(1, NoAlert)
    BY <1>1, HeadAlert, AlertsTaken
  <1>5. call.call # "add"
    BY NotAdd
  <1> HIDE DEF t, call
  <1>6. AheadGrow(0)
    BY <1>2, <1>5, AheadAdded, AheadKept
  <1>7. SearchingGrow(0)
    <2>1. CASE torrents' = torrents
      BY <2>1, NothingGrows
    <2>2. CASE t # None /\ torrents' = [torrents EXCEPT ![t].stored = TRUE]
      <3>1. TorrentsQuiet
        BY <1>3, <2>2, StoredTorrent
      <3>2. torrents \in [DOMAIN torrents -> TorrentType]
        BY DEF RegistryInv, TorrentsTyped
      <3>3. \A u \in DOMAIN torrents : torrents'[u].job = torrents[u].job
        BY <1>3, <2>2, <3>2 DEF TorrentType
      <3>4. Searching(torrents') \subseteq Searching(torrents)
        BY <3>1, <3>3 DEF TorrentsQuiet, Searching
      <3> QED
        BY <3>4, SearchingFewer
    <2> QED
      BY <1>2, <2>1, <2>2
  <1> QED
    BY <1>1, <1>4, <1>6, <1>7, AlertHandled, NothingGrows, CountKept

\* The torrent under the first ID of a conflict goes, the other gets the metadata.
LEMMA MergeCounts ==
    ASSUME RegistryInv, RegistryInv', CountInv, HandleConflict, NEW t1, NEW t2,
           t1 = registry[V1(Head(alerts).hashes)], t2 = registry[V2(Head(alerts).hashes)],
           t1 # None, t2 # None
    PROVE  CountInv'
  <1> DEFINE call == SetMetadataCall(torrents[t2].handle)
             calls == Without({RequestCall(t1), SearchCall(t1)})
  <1>1. /\ torrents' = Removal(t1).torrents /\ natives' = Removal(t1).natives
        /\ pending' = Removal(t1).pending (+) One(call)
        /\ requests' = requests
    BY DEF HandleConflict
  <1>2. t1 \in DOMAIN torrents /\ AlertsStep(1, NoAlert)
    BY ConflictParts
  <1>3. pending' = calls (+) One(call)
    BY <1>1 DEF Removal
  <1>4. IsABag(calls) /\ IsFiniteSet(Ahead(calls)) /\ Cardinality(Ahead(calls)) <= Cardinality(Ahead(pending)) + 0
    BY AheadWithout
  <1>5. call.call # "add"
    BY NotAdd
  <1> HIDE DEF calls, call
  <1>6. /\ IsABag(pending') /\ IsFiniteSet(Ahead(pending'))
        /\ Cardinality(Ahead(pending')) <= Cardinality(Ahead(calls)) + 0
    BY <1>3, <1>4, <1>5, BagMore
  <1>7. Cardinality(Ahead(pending)) \in Nat /\ Cardinality(Ahead(calls)) \in Nat
        /\ Cardinality(Ahead(pending')) \in Nat
    BY <1>4, <1>6, FS_CardinalityType DEF CountInv
  <1>8. AheadGrow(0)
    BY <1>4, <1>6, <1>7 DEF AheadGrow
  <1> QED
    BY <1>1, <1>2, <1>8, RemovalCounts, AlertHandled, CountKept

LEMMA HandleConflictCounts ==
    ASSUME RegistryInv, RegistryInv', CountInv, HandleConflict
    PROVE  CountInv'
  <1> DEFINE a == V1(Head(alerts).hashes)
             b == V2(Head(alerts).hashes)
             t1 == registry[a]
             t2 == registry[b]
  <1>1. a \in ID /\ b \in ID /\ AlertsStep(1, NoAlert)
    BY ConflictParts
  <1>2. CASE t1 # None /\ t2 # None
    BY <1>2, MergeCounts
  <1>3. CASE ~(t1 # None /\ t2 # None)
    <2> DEFINE hidden == IF t2 # None THEN Cancel(a, Hidden)
                         ELSE IF t1 # None THEN Cancel(b, Hidden)
                         ELSE Cancel(b, Cancel(a, Hidden))
    <2>1. /\ natives' = hidden.natives
          /\ pending' = (IF t2 # None THEN pending (+) One(SetMetadataCall(torrents[t2].handle))
                         ELSE IF t1 # None THEN pending (+) One(SetMetadataCall(torrents[t1].handle))
                         ELSE pending)
          /\ UNCHANGED <<torrents, requests>>
      BY <1>3 DEF HandleConflict
    <2>2. \/ hidden = Cancel(a, Hidden) \/ hidden = Cancel(b, Hidden)
          \/ hidden = Cancel(b, Cancel(a, Hidden))
      OBVIOUS
    <2> HIDE DEF hidden, a, b
    <2>3. NativesGrow(0)
      BY <1>1, <2>1, <2>2, CancelledOneCounts, CancelledTwoCounts
    <2>4. AheadGrow(0)
      <3>1. ASSUME NEW h, pending' = pending (+) One(SetMetadataCall(h))
            PROVE  AheadGrow(0)
        <4> DEFINE call == SetMetadataCall(h)
        <4>1. call.call # "add"
          BY NotAdd
        <4> HIDE DEF call
        <4> QED
          BY <3>1, <4>1, AheadAdded DEF call
      <3> QED
        BY <2>1, <3>1, AheadKept
    <2> QED
      BY <1>1, <2>1, <2>3, <2>4, AlertHandled, NothingGrows, CountKept
  <1> QED
    BY <1>2, <1>3

\* A native torrent learns its metadata, or stops for the one it belongs with.
LEMMA GetMetadataCounts ==
    ASSUME RegistryInv, RegistryInv', CountInv, NEW h \in DOMAIN natives,
           natives[h].alive, ~natives[h].meta, GetMetadata(h),
           UNCHANGED <<torrents, requests>>, AheadGrow(0)
    PROVE  CountInv'
  <1> DEFINE all == AllHashes(ContentOf(natives[h].hashes))
  <1>1. CASE \A k \in DOMAIN natives : k # h /\ natives[k].alive => natives[k].hashes \cap all = {}
    <2> DEFINE x == Alert("metadata", h, all)
    <2>1. Learned(h, all) /\ alerts' = Append(alerts, x)
      BY <1>1, LearnedNative
    <2>2. all \in InfoHash /\ h \in Nat
      BY <2>1, CountParts DEF Learned
    <2> HIDE DEF all
    <2>3. NativesGrow(-1)
      BY <2>1, NativesLearn
    <2>4. x = [type |-> "metadata", handle |-> h, hashes |-> all, meta |-> FALSE, answers |-> "none"]
      BY DEF Alert
    <2> HIDE DEF x
    <2>5. x \in AlertType
      BY <2>2, <2>4 DEF AlertType, Who
    <2>6. ArrivedGrow(1) /\ SearchingGrow(0)
      BY <2>1, <2>5, ArrivedMore, NothingGrows
    <2>7. requests' \in 0..MaxRequests /\ (-1) + 1 + 0 + 2 * 0 <= 2 * (requests' - requests)
      BY RequestCounts DEF CountInv
    <2> QED
      BY <2>3, <2>6, <2>7, CountGrows
  <1>2. CASE \E k \in DOMAIN natives : k # h /\ natives[k].alive /\ natives[k].hashes \cap all # {}
    <2> DEFINE others == {k \in DOMAIN natives :
                            k # h /\ natives[k].alive /\ natives[k].hashes \cap all # {}}
               x == Alert("conflict", None, all)
    <2>1. others # {}
      BY <1>2
    <2>2. /\ alerts' = Append(alerts, x)
          /\ natives' = [k \in DOMAIN natives |->
                           IF k \in others \cup {h} THEN [natives[k] EXCEPT !.stopped = TRUE] ELSE natives[k]]
      BY <2>1 DEF GetMetadata
    <2>3. natives \in Seq(NativeType) /\ \A k \in DOMAIN natives : natives[k] \in NativeType
      BY CountParts, NativeParts
    <2> HIDE DEF others
    <2>4. ASSUME NEW k \in DOMAIN natives
          PROVE  natives'[k].alive = natives[k].alive /\ natives'[k].meta = natives[k].meta
      BY <2>2, <2>3 DEF NativeType
    <2>5. DOMAIN natives' = DOMAIN natives /\ natives' \in Seq(NativeType)
      BY <2>2 DEF RegistryInv, NativesTyped
    <2>6. NativesGrow(0)
      BY <2>4, <2>5, NativesFewer
    <2>7. natives[h].hashes \in InfoHash
      BY <2>3, NativeParts
    <2>8. all \in InfoHash
      BY <2>7, HashesKnown, HashesOfContent
    <2> HIDE DEF all
    <2>9. x = [type |-> "conflict", handle |-> None, hashes |-> all, meta |-> FALSE, answers |-> "none"]
      BY DEF Alert
    <2> HIDE DEF x
    <2>10. x \in AlertType /\ x.type # "metadata"
      BY <2>8, <2>9 DEF AlertType, Who, None
    <2>11. ArrivedGrow(0)
      BY <2>2, <2>10, CountParts, AlertsPosted, ArrivedFewer
    <2> QED
      BY <2>6, <2>11, NothingGrows, CountKept
  <1> QED
    BY <1>1, <1>2

LEMMA ReceiveCounts ==
    ASSUME RegistryInv, RegistryInv', CountInv, NEW h, ReceiveMetadata(h)
    PROVE  CountInv'
  <1>1. /\ h \in DOMAIN natives /\ natives[h].alive /\ ~natives[h].meta /\ GetMetadata(h)
        /\ UNCHANGED <<torrents, pending, requests>>
    BY DEF ReceiveMetadata, session
  <1> QED
    BY <1>1, AheadKept, GetMetadataCounts

LEMMA SetMetadataCounts ==
    ASSUME RegistryInv, RegistryInv', CountInv, NEW h, SetMetadata(h)
    PROVE  CountInv'
  <1> DEFINE call == SetMetadataCall(h)
  <1>1. /\ BagIn(call, pending) /\ pending' = pending (-) One(call)
        /\ UNCHANGED <<torrents, requests>>
    BY DEF SetMetadata, session
  <1>2. h \in DOMAIN natives
    <2>1. call \in DOMAIN pending
      BY <1>1, Calls
    <2>2. CallFits(call, natives, torrents)
      BY <2>1 DEF RegistryInv, PendingTyped
    <2> QED
      BY <2>2 DEF CallFits, SetMetadataCall, Call
  <1> HIDE DEF call
  <1>3. AheadGrow(0)
    BY <1>1, AheadDone
  <1>4. CASE natives[h].alive /\ ~natives[h].meta
    BY <1>1, <1>2, <1>3, <1>4, GetMetadataCounts DEF SetMetadata
  <1>5. CASE ~(natives[h].alive /\ ~natives[h].meta)
    <2>1. UNCHANGED <<natives, alerts>>
      BY <1>5 DEF SetMetadata
    <2> QED
      BY <1>1, <1>3, <2>1, NothingGrows, CountKept
  <1> QED
    BY <1>4, <1>5

LEMMA RequestResumeCounts ==
    ASSUME RegistryInv, RegistryInv', CountInv, NEW t, RequestResumeData(t)
    PROVE  CountInv'
  <1> DEFINE call == RequestCall(t)
             h == torrents[t].handle
             x == Saved(natives, h)
  <1>1. /\ BagIn(call, pending) /\ pending' = pending (-) One(call)
        /\ alerts' = alerts \o SaveResumeData(natives, h)
        /\ UNCHANGED <<natives, torrents, requests>>
    BY DEF RequestResumeData, session
  <1>2. t \in DOMAIN torrents
    <2>1. call \in DOMAIN pending
      BY <1>1, Calls
    <2>2. CallFits(call, natives, torrents)
      BY <2>1 DEF RegistryInv, PendingTyped
    <2> QED
      BY <2>2 DEF CallFits, RequestCall, Call
  <1> HIDE DEF call
  <1>3. h \in DOMAIN natives
    BY <1>2, TorrentParts
  <1> HIDE DEF h
  <1>4. AlertsStep(0, x)
    BY <1>1, <1>3, AlertsSaved DEF RegistryInv, AlertsTyped
  <1>5. x.type = "resume"
    BY <1>3, SavedType DEF RegistryInv
  <1> HIDE DEF x
  <1>6. ArrivedGrow(0) /\ AheadGrow(0)
    BY <1>1, <1>4, <1>5, ArrivedFewer, AheadDone
  <1> QED
    BY <1>1, <1>6, NothingGrows, CountKept

LEMMA EndMetadataCounts ==
    ASSUME RegistryInv, RegistryInv', CountInv, NEW t, EndMetadata(t)
    PROVE  CountInv'
  <1> DEFINE call == SearchCall(t)
  <1>1. /\ BagIn(call, pending) /\ pending' = pending (-) One(call) /\ requests' = requests
    BY DEF EndMetadata
  <1>2. t \in DOMAIN torrents
    <2>1. call \in DOMAIN pending
      BY <1>1, Calls
    <2>2. CallFits(call, natives, torrents)
      BY <2>1 DEF RegistryInv, PendingTyped
    <2> QED
      BY <2>2 DEF CallFits, SearchCall, Call
  <1> HIDE DEF call
  <1>3. AheadGrow(0)
    BY <1>1, AheadDone
  <1>4. CASE ~torrents[t].job
    <2>1. UNCHANGED <<natives, alerts, torrents>>
      BY <1>4 DEF EndMetadata
    <2> QED
      BY <1>1, <1>3, <2>1, NothingGrows, CountKept
  <1>5. CASE torrents[t].job
    <2> DEFINE all == AllHashes(ContentOf(torrents[t].hashes))
               h == Len(natives) + 1
               k == torrents[t].handle
    <2>1. /\ natives' = Append(Removed(natives, k), NewNative(all, TRUE))
          /\ alerts' = Append(alerts, Added(h, all, "none"))
          /\ torrents' = Reloaded(t, h)
      BY <1>5 DEF EndMetadata
    <2>2. k \in DOMAIN natives /\ NativesTyped
      BY <1>2, TorrentParts DEF RegistryInv
    <2>3. all \in InfoHash
      BY <1>2, <1>5, ReloadedHashes
    <2>4. h = Len(natives) + 1
      OBVIOUS
    <2> HIDE DEF h, k, all
    <2>5. Replacing(k, h, all)
      BY <2>1, <2>2, <2>3, <2>4, ReplacedNative
    <2>6. NativesGrow(1)
      BY <2>4, <2>5, NativesReplace
    <2>7. h \in Nat
      BY <2>5 DEF Replacing
    <2>8. Added(h, all, "none") \in AlertType
      BY <2>3, <2>7, AddedType DEF Who
    <2>9. ArrivedGrow(0)
      BY <2>1, <2>8, AddedGrows
    <2>10. /\ DOMAIN torrents' = DOMAIN torrents /\ torrents'[t].job = FALSE
           /\ \A u \in DOMAIN torrents : u # t => torrents'[u] = torrents[u]
      BY <1>2, <2>1, <2>7, ReloadedTorrent
    <2>11. t \in Searching(torrents) /\ Searching(torrents') \subseteq Searching(torrents) \ {t}
      BY <1>2, <1>5, <2>10 DEF Searching
    <2>12. SearchingGrow(-1)
      BY <2>11, CountParts, SetGrows DEF SearchingGrow
    <2>13. requests' \in 0..MaxRequests /\ 1 + 0 + (-1) + 2 * 0 <= 2 * (requests' - requests)
      BY <1>1, RequestCounts DEF CountInv
    <2> QED
      BY <1>3, <2>6, <2>9, <2>12, <2>13, CountGrows
  <1> QED
    BY <1>4, <1>5

LEMMA InitCounts == Init => CountInv
  <1> SUFFICES ASSUME Init PROVE CountInv
    OBVIOUS
  <1>1. natives = <<>> /\ alerts = <<>> /\ torrents = <<>> /\ pending = EmptyBag /\ requests = 0
    BY DEF Init
  <1>2. DOMAIN <<>> = {} /\ Len(<<>>) = 0
    BY EmptySeq
  <1>3. Unlearned(natives) = {} /\ Arrived(alerts) = {} /\ Searching(torrents) = {}
    BY <1>1, <1>2 DEF Unlearned, Arrived, Searching
  <1>4. DOMAIN pending = {}
    BY <1>1 DEF EmptyBag, SetToBag
  <1>5. IsABag(pending)
    BY <1>1 DEF IsABag, EmptyBag, SetToBag
  <1>6. Ahead(pending) = {}
    BY <1>4, AheadPairs
  <1>7. IsFiniteSet({}) /\ Cardinality({}) = 0
    BY FS_EmptySet
  <1>8. requests \in 0..MaxRequests
    BY <1>1, RegistryAssumption
  <1>9. Len(natives) = 0 /\ Cardinality(Unlearned(natives)) = 0 /\ Cardinality(Arrived(alerts)) = 0
        /\ Cardinality(Searching(torrents)) = 0 /\ Cardinality(Ahead(pending)) = 0 /\ requests = 0
    BY <1>1, <1>2, <1>3, <1>6, <1>7
  <1>10. IsFiniteSet(Ahead(pending))
    BY <1>6, <1>7
  <1> QED
    BY <1>5, <1>8, <1>9, <1>10 DEF CountInv

LEMMA NextCounts ==
    ASSUME RegistryInv, RegistryInv', Answering(addHandlers, alerts), CountInv, [Next]_vars
    PROVE  CountInv'
  <1>1. ASSUME NEW source \in Sources,
               AddTorrent(source[1], source[2]) \/ AddDuplicate(source[1], source[2])
        PROVE  CountInv'
    <2>1. source[1] \in InfoHash
      BY DEF Sources
    <2> QED
      BY <1>1, <2>1, AddCounts, DuplicateCounts
  <1>2. ASSUME NEW hashes \in InfoHash, DownloadMetadata(hashes) PROVE CountInv'
    BY <1>2, DownloadCounts
  <1>3. ASSUME NEW id \in ID, CancelDownloadMetadata(id) \/ RemoveTorrent(id) PROVE CountInv'
    BY <1>3, CancelCounts, RemoveCounts
  <1>4. ASSUME NEW h \in Handle, ReceiveMetadata(h) PROVE CountInv'
    BY <1>4, ReceiveCounts
  <1>5. ASSUME HandleAlert PROVE CountInv'
    BY <1>5, HandleAddedCounts, HandlePlainCounts, HandleMetadataCounts,
       HandleHiddenMetadataCounts, HandleResumeDataCounts, HandleConflictCounts DEF HandleAlert
  <1>6. ASSUME RunCall PROVE CountInv'
    BY <1>6, PostAdditionCounts, RequestResumeCounts, SetMetadataCounts, EndMetadataCounts DEF RunCall
  <1>7. ASSUME UNCHANGED vars PROVE CountInv'
    BY <1>7, NothingGrows, AheadKept, CountKept DEF vars, session
  <1> QED
    BY <1>1, <1>2, <1>3, <1>4, <1>5, <1>6, <1>7 DEF Next

-----------------------------------------------------------------------------
(* The other types.                                                        *)

HandlersTyped == addHandlers \in Seq(Who)

RowsTyped ==
  /\ rows \subseteq ID
  /\ DOMAIN changedIDs \subseteq ID /\ \A id \in DOMAIN changedIDs : changedIDs[id] \in ID

LEMMA InitOthers == Init => HandlersTyped /\ RowsTyped
  <1>1. \A S : <<>> \in Seq(S) /\ DOMAIN <<>> = {}
    OBVIOUS
  <1> QED
    BY <1>1 DEF Init, HandlersTyped, RowsTyped

\* A handler is added, or the first one is taken.
LEMMA NextHandlers ==
    ASSUME Answering(addHandlers, alerts), HandlersTyped, [Next]_vars
    PROVE  HandlersTyped'
  <1>1. CASE addHandlers' = addHandlers
    BY <1>1 DEF HandlersTyped
  <1>2. ASSUME NEW who \in Who, addHandlers' = Append(addHandlers, who) PROVE HandlersTyped'
    BY <1>2, AppendElements DEF HandlersTyped
  <1>3. ASSUME alerts # <<>>, Head(alerts).type = "add", addHandlers' = Tail(addHandlers)
        PROVE  HandlersTyped'
    <2>1. addHandlers # <<>>
      BY <1>3, AnsweringHandled
    <2> QED
      BY <1>3, <2>1, TailElements DEF HandlersTyped
  <1>4. "user" \in Who /\ "hidden" \in Who /\ "none" \in Who
    BY DEF Who
  <1>5. ASSUME NEW hashes, NEW meta, AddTorrent(hashes, meta) \/ AddDuplicate(hashes, meta)
        PROVE  HandlersTyped'
    BY <1>1, <1>5 DEF AddTorrent, AddDuplicate, session
  <1>6. ASSUME NEW hashes, DownloadMetadata(hashes) PROVE HandlersTyped'
    BY <1>2, <1>4, <1>6 DEF DownloadMetadata
  <1>7. ASSUME NEW id, CancelDownloadMetadata(id) \/ RemoveTorrent(id) PROVE HandlersTyped'
    BY <1>1, <1>7 DEF CancelDownloadMetadata, RemoveTorrent, session
  <1>8. ASSUME NEW h, ReceiveMetadata(h) PROVE HandlersTyped'
    BY <1>1, <1>8 DEF ReceiveMetadata, session
  <1>9. ASSUME HandleAlert PROVE HandlersTyped'
    <2>1. CASE HandleAdded \/ HandleHidden \/ HandleReloaded
      BY <1>3, <2>1 DEF HandleAdded, HandleHidden, HandleReloaded, NextAlert
    <2>2. CASE HandleMetadata \/ HandleHiddenMetadata \/ HandleResumeData \/ HandleConflict
      BY <1>1, <2>2 DEF HandleMetadata, HandleHiddenMetadata, HandleResumeData, HandleConflict, session
    <2> QED
      BY <1>9, <2>1, <2>2 DEF HandleAlert
  <1>10. ASSUME NEW call, PostAddition(call) PROVE HandlersTyped'
    BY <1>2, <1>4, <1>10 DEF PostAddition
  <1>11. ASSUME NEW t, RequestResumeData(t) \/ SetMetadata(t) PROVE HandlersTyped'
    BY <1>1, <1>11 DEF RequestResumeData, SetMetadata, session
  <1>12. ASSUME NEW t, EndMetadata(t) PROVE HandlersTyped'
    BY <1>1, <1>2, <1>4, <1>12 DEF EndMetadata, ReloadHandler
  <1>13. CASE UNCHANGED vars
    BY <1>1, <1>13 DEF vars, session
  <1> QED
    BY <1>5, <1>6, <1>7, <1>8, <1>9, <1>10, <1>11, <1>12, <1>13 DEF Next, RunCall

\* The steps of what is stored: rows go with a torrent, or one is replaced.
LEMMA SameRows ==
    ASSUME RowsTyped, rows' \subseteq rows, changedIDs' = changedIDs
    PROVE  RowsTyped'
  BY DEF RowsTyped

LEMMA ReadyRows ==
    ASSUME RegistryInv, RowsTyped, NEW t \in DOMAIN torrents, ResumeDataReady(t)
    PROVE  RowsTyped'
  <1>1. TorrentID(t) \in ID
    BY TorrentParts, HashesNamed DEF TorrentID
  <1> QED
    BY <1>1 DEF RowsTyped, ResumeDataReady

LEMMA ChangedRows ==
    ASSUME RegistryInv, RowsTyped, HandleMetadata
    PROVE  RowsTyped'
  <1> DEFINE t == MetadataFor(Head(alerts).handle)
             b == natives[torrents[t].handle].hashes
  <1>1. /\ alerts # <<>> /\ Head(alerts).type = "metadata" /\ t # None /\ rows' = rows
        /\ changedIDs' = changedIDs \/ InfoHashChanged(t, b)
    BY DEF HandleMetadata, NextAlert
  <1>2. t \in DOMAIN torrents
    BY <1>1, MetadataIsFor
  <1>3. TorrentID(t) \in ID /\ ToTorrentID(b) \in ID
    BY <1>2, TorrentParts, HashesNamed DEF TorrentID
  <1> HIDE DEF t, b
  <1> QED
    BY <1>1, <1>3 DEF RowsTyped, InfoHashChanged

LEMMA NextRows ==
    ASSUME RegistryInv, RowsTyped, [Next]_vars
    PROVE  RowsTyped'
  <1>1. ASSUME NEW hashes, NEW meta, AddTorrent(hashes, meta) \/ AddDuplicate(hashes, meta)
        PROVE  RowsTyped'
    BY <1>1, SameRows DEF AddTorrent, AddDuplicate, session
  <1>2. ASSUME NEW hashes, DownloadMetadata(hashes) PROVE RowsTyped'
    BY <1>2, SameRows DEF DownloadMetadata
  <1>3. ASSUME NEW id, CancelDownloadMetadata(id) \/ RemoveTorrent(id) PROVE RowsTyped'
    BY <1>3, SameRows DEF CancelDownloadMetadata, RemoveTorrent, Removal, session
  <1>4. ASSUME NEW h, ReceiveMetadata(h) PROVE RowsTyped'
    BY <1>4, SameRows DEF ReceiveMetadata, session
  <1>5. ASSUME HandleAlert PROVE RowsTyped'
    <2>1. CASE HandleAdded \/ HandleHidden \/ HandleReloaded \/ HandleHiddenMetadata
      BY <2>1, SameRows DEF HandleAdded, HandleHidden, HandleReloaded, HandleHiddenMetadata, session
    <2>2. CASE HandleResumeData
      <3> DEFINE t == TorrentOf(Head(alerts).handle)
      <3>1. alerts # <<>> /\ Head(alerts).type = "resume"
            /\ (UNCHANGED <<rows, changedIDs>> \/ (t # None /\ ResumeDataReady(t)))
        BY <2>2 DEF HandleResumeData, NextAlert
      <3>2. t # None => t \in DOMAIN torrents
        BY <3>1, HeadAlert, HashesNamed, TorrentParts DEF TorrentOf
      <3> HIDE DEF t
      <3> QED
        BY <3>1, <3>2, SameRows, ReadyRows
    <2>3. CASE HandleConflict
      BY <2>3, SameRows DEF HandleConflict, Removal
    <2> QED
      BY <1>5, <2>1, <2>2, <2>3, ChangedRows DEF HandleAlert
  <1>6. ASSUME NEW call, PostAddition(call) PROVE RowsTyped'
    BY <1>6, SameRows DEF PostAddition
  <1>7. ASSUME NEW t, RequestResumeData(t) \/ SetMetadata(t) PROVE RowsTyped'
    BY <1>7, SameRows DEF RequestResumeData, SetMetadata, session
  <1>8. ASSUME NEW t, EndMetadata(t) PROVE RowsTyped'
    <2>1. t \in DOMAIN torrents
      <3>1. SearchCall(t) \in DOMAIN pending
        BY <1>8, Calls DEF EndMetadata
      <3>2. CallFits(SearchCall(t), natives, torrents)
        BY <3>1 DEF RegistryInv, PendingTyped
      <3> QED
        BY <3>2 DEF CallFits, SearchCall, Call
    <2>2. ResumeDataReady(t) \/ UNCHANGED <<rows, changedIDs>>
      BY <1>8 DEF EndMetadata
    <2> QED
      BY <2>1, <2>2, SameRows, ReadyRows
  <1>9. CASE UNCHANGED vars
    BY <1>9, SameRows DEF vars, session
  <1> QED
    BY <1>1, <1>2, <1>3, <1>4, <1>5, <1>6, <1>7, <1>8, <1>9 DEF Next, RunCall

LEMMA TypesOK ==
    ASSUME RegistryInv, CountInv, HandlersTyped, RowsTyped
    PROVE  TypeOK
  <1>1. natives \in Seq(NativeType) /\ Len(natives) \in Nat /\ DOMAIN natives = 1..Len(natives)
        /\ \A h \in DOMAIN natives : natives[h].hashes \in InfoHash
    BY CountParts, NativeParts
  <1>2. Len(natives) <= 2 * MaxRequests
    <2> DEFINE u == Cardinality(Unlearned(natives))
               a == Cardinality(Arrived(alerts))
               s == Cardinality(Searching(torrents))
               c == Cardinality(Ahead(pending))
    <2>1. u \in Nat /\ a \in Nat /\ s \in Nat /\ c \in Nat
      BY CountParts, FS_CardinalityType DEF CountInv
    <2>2. Len(natives) + u + a + s + 2 * c <= 2 * requests /\ requests \in 0..MaxRequests
      BY DEF CountInv
    <2> HIDE DEF u, a, s, c
    <2> QED
      BY <1>1, <2>1, <2>2, RegistryAssumption
  <1>3. DOMAIN natives \subseteq Handle
    BY <1>1, <1>2, RegistryAssumption DEF Handle
  <1>4. \A i \in DOMAIN alerts : alerts[i].type \in {"add", "metadata", "resume", "conflict"}
    BY AlertParts DEF AlertType
  <1>5. \A i \in DOMAIN addHandlers : addHandlers[i] \in {"user", "hidden", "none"}
    BY LenProperties, ElementOfSeq DEF HandlersTyped, Who
  <1>6. DOMAIN torrents \subseteq Handle /\ \A t \in DOMAIN torrents : torrents[t].handle \in DOMAIN natives
    BY <1>3, TorrentParts
  <1>7. registry \in [ID -> Handle \cup {None}] /\ altIndex \in [ID -> Handle \cup {None}]
    <2>1. \A id \in ID : registry[id] \in Handle \cup {None} /\ altIndex[id] \in Handle \cup {None}
      BY <1>6 DEF RegistryInv, IndexesAgree
    <2>2. registry \in [ID -> Nat] /\ altIndex \in [ID -> Nat]
      BY DEF RegistryInv, MapsTyped
    <2> QED
      BY <2>1, <2>2
  <1>8. downloaded \in [ID -> Handle \cup {None, Requested}]
    <2>1. downloaded \in [ID -> Int] /\ \A id \in ID : downloaded[id] \in Handle \cup {None, Requested}
      BY <1>3, TorrentParts
    <2> QED
      BY <2>1
  <1>9. IsABag(pending) /\ requests \in 0..MaxRequests
    BY DEF CountInv
  <1> QED
    BY <1>1, <1>3, <1>4, <1>5, <1>6, <1>7, <1>8, <1>9 DEF TypeOK, RowsTyped

\* The types, and with them the bound on what the session makes libtorrent
\* hold: an addition or a download brings one native torrent, and a second one
\* only when its metadata has come and it is loaded again, whatever is
\* cancelled, removed or found to be two in between.
THEOREM RegistryTyped == ASSUME "share" \notin Races PROVE Spec => []TypeOK
  <1> DEFINE Inv == /\ RegistryInv /\ Answering(addHandlers, alerts)
                    /\ CountInv /\ HandlersTyped /\ RowsTyped
  <1>1. Init => Inv
    BY InitRegistry, InitAnswering, InitCounts, InitOthers
  <1>2. Inv /\ [Next]_vars => Inv'
    BY NextRegistry, NextAnswering, NextCounts, NextHandlers, NextRows
  <1>3. Inv => TypeOK
    BY TypesOK
  <1> HIDE DEF Inv
  <1> QED
    BY <1>1, <1>2, <1>3, PTL DEF Spec

=============================================================================
