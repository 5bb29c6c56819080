--------------------------- MODULE QueueOps_proofs ---------------------------
(***************************************************************************)
(* What the list operations of the queue return, for every list of songs:  *)
(* the lemmas the proofs about PlayerStore rest on.                        *)
(***************************************************************************)
EXTENDS QueueOps, SequenceFacts, FiniteSetTheorems, WellFoundedInduction

\* normalizeQueueSources: one source per row ...
LEMMA NormalizeSourcesType ==
    ASSUME NEW n \in Nat, NEW sources
    PROVE  /\ NormalizeSources(n, sources) \in Seq(PlaybackSource)
           /\ Len(NormalizeSources(n, sources)) = n
<1>1. NormalizeSources(n, sources) \in [1..n -> PlaybackSource]
  BY DEF NormalizeSources, PlaybackSource
<1> QED
  BY <1>1, FunctionIsSeq

\* ... and no change to sources that already have one.
LEMMA NormalizeSourcesExact ==
    ASSUME NEW sources \in Seq(PlaybackSource)
    PROVE  NormalizeSources(Len(sources), sources) = sources
<1>1. /\ Len(sources) \in Nat /\ DOMAIN sources = 1..Len(sources)
      /\ sources \in [1..Len(sources) -> PlaybackSource]
  BY LenProperties
<1>2. \A i \in 1..Len(sources) : NormalizeSources(Len(sources), sources)[i] = sources[i]
  BY <1>1 DEF NormalizeSources, PlaybackSource
<1>3. /\ NormalizeSources(Len(sources), sources) \in Seq(PlaybackSource)
      /\ Len(NormalizeSources(Len(sources), sources)) = Len(sources)
  BY <1>1, NormalizeSourcesType
<1> QED
  BY <1>2, <1>3, SeqEqual

\* manualInsertIndex and insertIntoQueue insert at a row or after the last.
LEMMA InsertPositionRange ==
    ASSUME NEW sources \in Seq(PlaybackSource), NEW index \in Nat, NEW source
    PROVE  InsertPosition(sources, index, source) \in 1..Len(sources) + 1
<1>1. Len(sources) \in Nat /\ DOMAIN sources = 1..Len(sources)
  BY LenProperties
<1> DEFINE upcoming == UpcomingAuto(sources, index)
<1>2. upcoming \subseteq 1..Len(sources)
  BY <1>1 DEF UpcomingAuto
<1>3. CASE upcoming = {}
  BY <1>1, <1>3 DEF InsertPosition, ManualInsertIndex
<1>4. CASE upcoming # {}
  <2>1. \E k \in upcoming : \A j \in upcoming : k <= j
    <3> QED
      BY <1>1, <1>2, <1>4, LeastNatural
  <2> QED
    BY <1>1, <1>2, <1>4, <2>1 DEF InsertPosition, ManualInsertIndex
<1> QED
  BY <1>3, <1>4

\* Songs spliced into a list: all its rows and the new ones.
LEMMA SpliceType ==
    ASSUME NEW S, NEW list \in Seq(S), NEW more \in Seq(S), NEW at \in 1..Len(list) + 1
    PROVE  /\ Splice(list, at, more) \in Seq(S)
           /\ Len(Splice(list, at, more)) = Len(list) + Len(more)
<1>0. Len(list) \in Nat /\ Len(more) \in Nat
  BY LenProperties
<1> DEFINE front == SubSeq(list, 1, at - 1)
           back == SubSeq(list, at, Len(list))
<1>1. front \in Seq(S) /\ Len(front) = at - 1
  BY <1>0, SliceType
<1>2. back \in Seq(S) /\ Len(back) = Len(list) - at + 1
  BY <1>0, SliceType
<1>3. Splice(list, at, more) = front \o more \o back
  BY DEF Splice
<1> HIDE DEF front, back
<1>4. front \o more \in Seq(S) /\ Len(front \o more) = at - 1 + Len(more)
  BY <1>1, ConcatProperties
<1>5. /\ front \o more \o back \in Seq(S)
      /\ Len(front \o more \o back) = Len(front \o more) + Len(back)
  BY <1>2, <1>4, ConcatProperties
<1> QED
  BY <1>0, <1>2, <1>3, <1>4, <1>5

LEMMA ConstantlyType ==
    ASSUME NEW S, NEW songs \in Seq(S), NEW source \in PlaybackSource
    PROVE  /\ Constantly(source, songs) \in Seq(PlaybackSource)
           /\ Len(Constantly(source, songs)) = Len(songs)
<1>1. Len(songs) \in Nat /\ DOMAIN songs = 1..Len(songs)
  BY LenProperties
<1>2. Constantly(source, songs) \in [1..Len(songs) -> PlaybackSource]
  BY <1>1 DEF Constantly
<1> QED
  BY <1>1, <1>2, FunctionIsSeq

\* A removed row put back where it was gives the list back.
LEMMA InsertUndoesRemove ==
    ASSUME NEW S, NEW s \in Seq(S), NEW i \in 1..Len(s)
    PROVE  InsertAt(RemoveAt(s, i), i, s[i]) = s
<1> DEFINE r == RemoveAt(s, i)
           e == s[i]
<1>0. Len(s) \in Nat /\ e \in S
  BY LenProperties, ElementOfSeq
<1>1. /\ r \in Seq(S) /\ Len(r) = Len(s) - 1
      /\ \A j \in 1..Len(s) - 1 : r[j] = IF j < i THEN s[j] ELSE s[j + 1]
  BY RemoveAtProperties
<1>2. e = s[i]
  OBVIOUS
<1> HIDE DEF r, e
<1>3. r \in Seq(S) /\ e \in S /\ i \in 1..Len(r) + 1
  BY <1>0, <1>1
<1>4. /\ InsertAt(r, i, e) \in Seq(S)
      /\ Len(InsertAt(r, i, e)) = Len(r) + 1
      /\ \A j \in 1..Len(r) + 1 : InsertAt(r, i, e)[j] =
            IF j < i THEN r[j] ELSE IF j = i THEN e ELSE r[j - 1]
  <2>1. InsertAt(r, i, e) \in Seq(S)
    BY <1>3, InsertAtProperties
  <2>2. Len(InsertAt(r, i, e)) = Len(r) + 1
    BY <1>3, InsertAtProperties
  <2>3. ASSUME NEW j \in 1..Len(r) + 1
        PROVE  InsertAt(r, i, e)[j] = IF j < i THEN r[j] ELSE IF j = i THEN e ELSE r[j - 1]
    BY <1>3, InsertAtProperties
  <2> QED
    BY <2>1, <2>2, <2>3
<1>5. ASSUME NEW j \in 1..Len(s)
      PROVE  InsertAt(r, i, e)[j] = s[j]
  <2>0. /\ Len(r) + 1 = Len(s) /\ j \in 1..Len(r) + 1
        /\ InsertAt(r, i, e)[j] = IF j < i THEN r[j] ELSE IF j = i THEN e ELSE r[j - 1]
    BY <1>0, <1>1, <1>4
  <2>1. CASE j < i
    <3>1. j \in 1..Len(s) - 1
      BY <1>0, <2>1
    <3> QED
      BY <1>1, <2>0, <2>1, <3>1
  <2>2. CASE j = i
    BY <1>2, <2>0, <2>2
  <2>3. CASE j > i
    <3>1. j - 1 \in 1..Len(s) - 1 /\ ~(j - 1 < i) /\ (j - 1) + 1 = j
      BY <1>0, <2>3
    <3>2. r[j - 1] = s[j]
      BY <1>1, <3>1
    <3> QED
      BY <2>0, <2>3, <3>2
  <2> QED
    BY <1>0, <2>1, <2>2, <2>3
<1>6. InsertAt(r, i, e) = s
  BY <1>0, <1>1, <1>4, <1>5, SeqEqual
<1> QED
  BY <1>6 DEF r, e

\* shuffleQueue keeps the number of rows.
LEMMA ShufflesType ==
    ASSUME NEW S, NEW list \in Seq(S), NEW rows \in Shuffles(list)
    PROVE  rows \in Seq(S) /\ Len(rows) = Len(list)
<1>1. Len(list) \in Nat /\ DOMAIN list = 1..Len(list)
  BY LenProperties
<1>2. PICK p \in Bijection(DOMAIN list, DOMAIN list) : rows = [i \in DOMAIN list |-> list[p[i]]]
  BY DEF Shuffles
<1>3. p \in [1..Len(list) -> 1..Len(list)]
  BY <1>1, <1>2 DEF Bijection, Injection
<1>4. \A k \in 1..Len(list) : list[p[k]] \in S
  BY <1>1, <1>3, ElementOfSeq
<1>5. rows \in [1..Len(list) -> S]
  BY <1>1, <1>2, <1>4
<1> QED
  BY <1>1, <1>5, FunctionIsSeq

\* findIndex by id: a row, or none.
LEMMA FirstRowOfRange ==
    ASSUME NEW S, NEW list \in Seq(S), NEW song
    PROVE  /\ FirstRowOf(song, list) \in 0..Len(list)
           /\ FirstRowOf(song, list) # 0 => list[FirstRowOf(song, list)] = song
<1>1. Len(list) \in Nat /\ DOMAIN list = 1..Len(list)
  BY LenProperties
<1> DEFINE found == {k \in DOMAIN list : list[k] = song}
<1>2. CASE found = {}
  <2>1. ~ \E k \in DOMAIN list : list[k] = song
    BY <1>2
  <2> QED
    BY <1>1, <2>1 DEF FirstRowOf
<1>3. CASE found # {}
  <2>1. found \in SUBSET Nat
    BY <1>1
  <2>2. \E k \in found : \A j \in found : k <= j
    BY <1>3, <2>1, LeastNatural
  <2>3. \E k \in DOMAIN list :
           list[k] = song /\ \A j \in DOMAIN list : list[j] = song => k <= j
    BY <2>2
  <2>4. FirstRowOf(song, list) \in DOMAIN list /\ list[FirstRowOf(song, list)] = song
    BY <2>3 DEF FirstRowOf
  <2> QED
    BY <1>1, <2>4
<1> QED
  BY <1>2, <1>3

\* mapSourcesBySongId: one source for each row of the rearranged queue.
LEMMA MapSourcesType ==
    ASSUME NEW S, NEW next \in Seq(S), NEW rows, NEW sources \in Seq(PlaybackSource)
    PROVE  /\ MapSources(next, rows, sources) \in Seq(PlaybackSource)
           /\ Len(MapSources(next, rows, sources)) = Len(next)
<1>1. /\ Len(next) \in Nat /\ DOMAIN next = 1..Len(next)
      /\ DOMAIN sources = 1..Len(sources)
  BY LenProperties
<1>2. \A song : SourceInQueue(song, rows, sources) \in PlaybackSource
  BY <1>1, ElementOfSeq DEF SourceInQueue, PlaybackSource
<1>3. MapSources(next, rows, sources) \in [1..Len(next) -> PlaybackSource]
  BY <1>1, <1>2 DEF MapSources
<1> QED
  BY <1>1, <1>3, FunctionIsSeq

\* The rows that stay after the duplicates are gone form a list of songs.
LEMMA KeptRowsType ==
    ASSUME NEW S, NEW list \in Seq(S), NEW rows \in SUBSET DOMAIN list,
           NEW kept \in Enumerations(rows)
    PROVE  RowsAt(list, kept) \in Seq(S)
<1>1. Len(list) \in Nat /\ DOMAIN list = 1..Len(list)
  BY LenProperties
<1>2. IsFiniteSet(1..Len(list))
  BY <1>1, FS_Interval
<1>3. Cardinality(rows) \in Nat
  BY <1>1, <1>2, FS_Subset, FS_CardinalityType
<1>4. kept \in [1..Cardinality(rows) -> rows]
  BY DEF Enumerations
<1>5. \A k \in 1..Cardinality(rows) : list[kept[k]] \in S
  BY <1>1, <1>4, ElementOfSeq
<1>6. RowsAt(list, kept) \in [1..Cardinality(rows) -> S]
  BY <1>4, <1>5 DEF RowsAt
<1> QED
  BY <1>3, <1>6, FunctionIsSeq

\* insertIntoQueue never inserts before the current row.
LEMMA InsertPositionAfter ==
    ASSUME NEW sources \in Seq(PlaybackSource), NEW index \in 1..Len(sources), NEW source
    PROVE  InsertPosition(sources, index, source) > index
<1>1. Len(sources) \in Nat /\ DOMAIN sources = 1..Len(sources)
  BY LenProperties
<1> DEFINE upcoming == UpcomingAuto(sources, index)
<1>2. upcoming \subseteq {k \in 1..Len(sources) : k > index}
  BY <1>1 DEF UpcomingAuto
<1>3. CASE upcoming = {}
  BY <1>1, <1>3 DEF InsertPosition, ManualInsertIndex
<1>4. CASE upcoming # {}
  <2>1. \E k \in upcoming : \A j \in upcoming : k <= j
    BY <1>1, <1>2, <1>4, LeastNatural
  <2> QED
    BY <1>1, <1>2, <1>4, <2>1 DEF InsertPosition, ManualInsertIndex
<1> QED
  BY <1>3, <1>4

\* manualInsertIndex: the first autoplay row after the current one, or the end.
LEMMA ManualInsertIndexExact ==
    ASSUME NEW sources \in Seq(PlaybackSource), NEW index \in Nat
    PROVE  LET p == ManualInsertIndex(sources, index)
           IN  /\ \/ p = Len(sources) + 1
                  \/ p \in 1..Len(sources) /\ sources[p] = "auto"
               /\ \A j \in 1..Len(sources) : index < j /\ j < p => sources[j] # "auto"
<1>1. Len(sources) \in Nat /\ DOMAIN sources = 1..Len(sources)
  BY LenProperties
<1> DEFINE upcoming == UpcomingAuto(sources, index)
           p == ManualInsertIndex(sources, index)
<1>2. upcoming = {k \in 1..Len(sources) : k > index /\ sources[k] = "auto"}
  BY <1>1 DEF UpcomingAuto
<1>3. CASE upcoming = {}
  <2>1. p = Len(sources) + 1
    BY <1>3 DEF ManualInsertIndex
  <2> QED
    BY <1>1, <1>2, <1>3, <2>1
<1>4. CASE upcoming # {}
  <2>1. \E k \in upcoming : \A j \in upcoming : k <= j
    BY <1>1, <1>2, <1>4, LeastNatural
  <2>2. p \in upcoming /\ \A j \in upcoming : p <= j
    BY <1>4, <2>1 DEF ManualInsertIndex
  <2> HIDE DEF p
  <2>3. ASSUME NEW j \in 1..Len(sources), index < j, j < p, sources[j] = "auto"
        PROVE  FALSE
    <3>1. j \in upcoming /\ p \in Nat
      BY <1>1, <1>2, <2>2, <2>3
    <3>2. p <= j
      BY <2>2, <3>1
    <3> QED
      BY <2>3, <3>1, <3>2
  <2> QED
    BY <1>2, <2>2, <2>3 DEF p
<1> QED
  BY <1>3, <1>4

\* One song spliced in is one row inserted.
LEMMA SpliceOne ==
    ASSUME NEW list, NEW at, NEW e
    PROVE  Splice(list, at, <<e>>) = InsertAt(list, at, e)
  BY DEF Splice, InsertAt

LEMMA ConstantlyOne ==
    ASSUME NEW song, NEW source
    PROVE  Constantly(source, <<song>>) = <<source>>
<1>1. DOMAIN <<song>> = 1..1
  OBVIOUS
<1> QED
  BY <1>1 DEF Constantly

\* A row inserted is where it was put.
LEMMA RowInserted ==
    ASSUME NEW S, NEW list \in Seq(S), NEW at \in 1..Len(list) + 1, NEW e \in S
    PROVE  InsertAt(list, at, e)[at] = e
  BY InsertAtProperties

\* Where a row goes when another one is inserted ...
LEMMA RowAfterInsert ==
    ASSUME NEW S, NEW list \in Seq(S), NEW at \in 1..Len(list) + 1, NEW e \in S,
           NEW k \in 1..Len(list)
    PROVE  LET moved == IF at <= k THEN k + 1 ELSE k
           IN  /\ moved \in DOMAIN InsertAt(list, at, e)
               /\ InsertAt(list, at, e)[moved] = list[k]
<1>1. /\ InsertAt(list, at, e) \in Seq(S) /\ Len(InsertAt(list, at, e)) = Len(list) + 1
      /\ \A j \in 1..Len(list) + 1 : InsertAt(list, at, e)[j] =
            IF j < at THEN list[j] ELSE IF j = at THEN e ELSE list[j - 1]
  <2>1. InsertAt(list, at, e) \in Seq(S) /\ Len(InsertAt(list, at, e)) = Len(list) + 1
    BY InsertAtProperties
  <2>2. ASSUME NEW j \in 1..Len(list) + 1
        PROVE  InsertAt(list, at, e)[j] =
                 IF j < at THEN list[j] ELSE IF j = at THEN e ELSE list[j - 1]
    BY InsertAtProperties
  <2> QED
    BY <2>1, <2>2
<1>2. Len(list) \in Nat /\ DOMAIN InsertAt(list, at, e) = 1..Len(list) + 1
  BY <1>1, LenProperties
<1>3. CASE at <= k
  <2>1. k + 1 \in 1..Len(list) + 1 /\ ~(k + 1 < at) /\ k + 1 # at /\ (k + 1) - 1 = k
    BY <1>2, <1>3
  <2> QED
    BY <1>1, <1>2, <1>3, <2>1
<1>4. CASE ~(at <= k)
  <2>1. k \in 1..Len(list) + 1 /\ k < at
    BY <1>2, <1>4
  <2> QED
    BY <1>1, <1>2, <1>4, <2>1
<1> QED
  BY <1>3, <1>4

\* ... or removed.
LEMMA RowAfterRemove ==
    ASSUME NEW S, NEW list \in Seq(S), NEW i \in 1..Len(list), NEW k \in 1..Len(list), i # k
    PROVE  LET moved == IF i < k THEN k - 1 ELSE k
           IN  /\ moved \in DOMAIN RemoveAt(list, i)
               /\ RemoveAt(list, i)[moved] = list[k]
<1> DEFINE next == RemoveAt(list, i)
<1>1. /\ next \in Seq(S) /\ Len(next) = Len(list) - 1
      /\ \A j \in 1..Len(list) - 1 : next[j] = IF j < i THEN list[j] ELSE list[j + 1]
  BY RemoveAtProperties
<1> HIDE DEF next
<1>2. Len(list) \in Nat /\ DOMAIN next = 1..Len(list) - 1
  BY <1>1, LenProperties
<1>3. CASE i < k
  <2>1. k - 1 \in 1..Len(list) - 1 /\ ~(k - 1 < i) /\ (k - 1) + 1 = k
    BY <1>2, <1>3
  <2> QED
    BY <1>1, <1>2, <1>3, <2>1 DEF next
<1>4. CASE ~(i < k)
  <2>1. k \in 1..Len(list) - 1 /\ k < i
    BY <1>2, <1>4
  <2> QED
    BY <1>1, <1>2, <1>4, <2>1 DEF next
<1> QED
  BY <1>3, <1>4

\* An inserted row removed again gives the list back.
LEMMA RemoveUndoesInsert ==
    ASSUME NEW S, NEW s \in Seq(S), NEW i \in 1..Len(s) + 1, NEW e \in S
    PROVE  RemoveAt(InsertAt(s, i, e), i) = s
<1> DEFINE t == InsertAt(s, i, e)
<1>0. Len(s) \in Nat
  BY LenProperties
<1>1. /\ t \in Seq(S) /\ Len(t) = Len(s) + 1
      /\ \A j \in 1..Len(s) + 1 : t[j] =
            IF j < i THEN s[j] ELSE IF j = i THEN e ELSE s[j - 1]
  BY InsertAtProperties
<1> HIDE DEF t
<1>2. i \in 1..Len(t) /\ Len(t) - 1 = Len(s)
  BY <1>0, <1>1
<1>3. /\ RemoveAt(t, i) \in Seq(S) /\ Len(RemoveAt(t, i)) = Len(t) - 1
      /\ \A j \in 1..Len(t) - 1 : RemoveAt(t, i)[j] = IF j < i THEN t[j] ELSE t[j + 1]
  BY <1>1, <1>2, RemoveAtProperties
<1>4. ASSUME NEW j \in 1..Len(s) PROVE RemoveAt(t, i)[j] = s[j]
  <2>1. CASE j < i
    BY <1>0, <1>1, <1>2, <1>3, <2>1
  <2>2. CASE ~(j < i)
    <3>1. j + 1 \in 1..Len(s) + 1 /\ ~(j + 1 < i) /\ j + 1 # i /\ (j + 1) - 1 = j
      BY <1>0, <2>2
    <3>2. t[j + 1] = s[j]
      BY <1>1, <3>1
    <3>3. RemoveAt(t, i)[j] = t[j + 1]
      BY <1>2, <1>3, <2>2
    <3> QED
      BY <3>2, <3>3
  <2> QED
    BY <2>1, <2>2
<1>5. RemoveAt(t, i) = s
  BY <1>2, <1>3, <1>4, SeqEqual
<1> QED
  BY <1>5 DEF t

\* findIndex by id finds a song that is there.
LEMMA FirstRowOfFound ==
    ASSUME NEW S, NEW list \in Seq(S), NEW song \in ToSet(list)
    PROVE  FirstRowOf(song, list) \in 1..Len(list) /\ list[FirstRowOf(song, list)] = song
<1>1. Len(list) \in Nat /\ DOMAIN list = 1..Len(list)
  BY LenProperties
<1> DEFINE found == {k \in DOMAIN list : list[k] = song}
<1>2. found # {} /\ found \in SUBSET Nat
  BY <1>1 DEF ToSet
<1>3. \E k \in found : \A j \in found : k <= j
  BY <1>2, LeastNatural
<1>4. \E k \in DOMAIN list :
         list[k] = song /\ \A j \in DOMAIN list : list[j] = song => k <= j
  BY <1>3
<1> QED
  BY <1>1, <1>4 DEF FirstRowOf
=============================================================================
