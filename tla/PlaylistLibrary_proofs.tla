----------------------- MODULE PlaylistLibrary_proofs -----------------------
(***************************************************************************)
(* Proofs about PlaylistLibrary: a write of differences over a current     *)
(* copy saves exactly the new library, so that tabs that know a revision   *)
(* hold its library; from this the refinement of AtomicLibrary, and what   *)
(* removals by position, restored backups, locks and the migration need.   *)
(*                                                                         *)
(* What the actions make of the songs of a list comes first: rows stay     *)
(* rows, and a list that has no song twice gets none twice.                *)
(***************************************************************************)
EXTENDS PlaylistLibrary, SequenceFacts, FiniteSetTheorems

-----------------------------------------------------------------------------
(* The songs of a list.                                                     *)

\* A set of rows has an ascending enumeration.
LEMMA AscendingProperties ==
    ASSUME NEW n \in Nat, NEW rows \in SUBSET (1..n)
    PROVE  /\ Cardinality(rows) \in Nat
           /\ Ascending(rows) \in [1..Cardinality(rows) -> rows]
           /\ \A i, j \in 1..Cardinality(rows) :
                 i < j => Ascending(rows)[i] < Ascending(rows)[j]
<1> DEFINE Enumerates(order, R, m) ==
               order \in [1..m -> R] /\ \A i, j \in 1..m : i < j => order[i] < order[j]
           Bad == {m \in Nat : \E R \in SUBSET (1..n) :
                      Cardinality(R) = m /\ ~\E order : Enumerates(order, R, m)}
<1>1. ASSUME NEW R \in SUBSET (1..n)
      PROVE  IsFiniteSet(R) /\ Cardinality(R) \in Nat
  <2>1. IsFiniteSet(1..n)
    BY FS_Interval
  <2>2. IsFiniteSet(R)
    BY <2>1, FS_Subset
  <2> QED
    BY <2>2, FS_CardinalityType
<1>2. Bad = {}
  <2>1. SUFFICES ASSUME Bad # {}
                 PROVE  FALSE
    OBVIOUS
  <2>2. PICK m \in Bad : \A k \in Bad : m <= k
    BY <2>1, LeastNatural
  <2>3. PICK R \in SUBSET (1..n) :
            Cardinality(R) = m /\ ~\E order : Enumerates(order, R, m)
    BY <2>2
  <2>4. CASE m = 0
    <3>1. Enumerates([k \in 1..0 |-> 0], R, m)
      BY <2>4
    <3> QED
      BY <2>3, <3>1
  <2>5. CASE m # 0
    <3>0. m \in Nat \ {0} /\ IsFiniteSet(R) /\ R # {}
      BY <1>1, <2>3, <2>5, FS_EmptySet
    <3>1. PICK b \in R : \A r \in R : r <= b
      <4> DEFINE Above == {c \in Nat : \A r \in R : r <= c}
      <4>1. n \in Above
        OBVIOUS
      <4>2. PICK c \in Above : \A d \in Above : c <= d
        BY <4>1, LeastNatural
      <4>3. c \in R
        <5>1. SUFFICES ASSUME c \notin R
                       PROVE  FALSE
          OBVIOUS
        <5>2. \A r \in R : r <= c /\ r \in 1..n /\ r # c
          BY <4>2, <5>1
        <5>3. c \in Nat /\ \A r \in R : r <= c - 1
          BY <4>2, <5>2
        <5>4. PICK r \in R : TRUE
          BY <3>0
        <5>5. c - 1 \in Nat
          BY <5>2, <5>3, <5>4
        <5>6. c - 1 \in Above
          BY <5>3, <5>5
        <5> QED
          BY <4>2, <5>3, <5>6
      <4> QED
        BY <4>2, <4>3
    <3>2. Cardinality(R \ {b}) = m - 1 /\ R \ {b} \in SUBSET (1..n)
      BY <2>3, <3>0, FS_RemoveElement
    <3>3. m - 1 \notin Bad
      BY <2>2, <3>0
    <3>4. PICK p : Enumerates(p, R \ {b}, m - 1)
      BY <3>0, <3>2, <3>3
    <3> DEFINE order == [k \in 1..m |-> IF k = m THEN b ELSE p[k]]
    <3>5. ASSUME NEW k \in 1..m - 1
          PROVE  p[k] \in R /\ p[k] < b /\ order[k] = p[k] /\ k \in 1..m
      <4>1. p[k] \in R \ {b} /\ k \in 1..m /\ k # m
        BY <3>0, <3>4
      <4>2. p[k] \in 1..n /\ b \in 1..n /\ p[k] <= b /\ p[k] # b
        BY <2>3, <3>1, <4>1
      <4> QED
        BY <4>1, <4>2
    <3>6. order[m] = b /\ m \in 1..m
      BY <3>0
    <3>7. order \in [1..m -> R]
      BY <3>0, <3>4
    <3>8. \A i, j \in 1..m : i < j => order[i] < order[j]
      <4>1. SUFFICES ASSUME NEW i \in 1..m, NEW j \in 1..m, i < j
                     PROVE  order[i] < order[j]
        OBVIOUS
      <4>2. i \in 1..m - 1
        BY <3>0, <4>1
      <4>3. CASE j = m
        BY <3>5, <3>6, <4>2, <4>3
      <4>4. CASE j # m
        <5>1. j \in 1..m - 1
          BY <3>0, <4>4
        <5> QED
          BY <3>4, <3>5, <4>1, <4>2, <5>1
      <4> QED
        BY <4>3, <4>4
    <3> QED
      BY <2>3, <3>7, <3>8
  <2> QED
    BY <2>4, <2>5
<1>3. PICK order : Enumerates(order, rows, Cardinality(rows))
  BY <1>1, <1>2
<1>4. Enumerates(Ascending(rows), rows, Cardinality(rows))
  <2>1. /\ order \in [1..Cardinality(rows) -> rows]
        /\ \A i, j \in DOMAIN order : i < j => order[i] < order[j]
    BY <1>3
  <2>2. /\ Ascending(rows) \in [1..Cardinality(rows) -> rows]
        /\ \A i, j \in DOMAIN Ascending(rows) : i < j => Ascending(rows)[i] < Ascending(rows)[j]
    BY <2>1 DEF Ascending
  <2> QED
    BY <2>2
<1> QED
  BY <1>1, <1>4

\* What a list holds at some of its rows, each row once.
LEMMA RowsAtProperties ==
    ASSUME NEW S, NEW list \in Seq(S), NEW rows \in SUBSET DOMAIN list
    PROVE  /\ RowsAt(list, rows) \in Seq(S)
           /\ DOMAIN Ascending(rows) = DOMAIN RowsAt(list, rows)
           /\ \A k \in DOMAIN RowsAt(list, rows) :
                 Ascending(rows)[k] \in rows /\ RowsAt(list, rows)[k] = list[Ascending(rows)[k]]
           /\ \A k, m \in DOMAIN RowsAt(list, rows) :
                 Ascending(rows)[k] = Ascending(rows)[m] => k = m
<1> DEFINE order == Ascending(rows)
           n == Cardinality(rows)
<1>0. Len(list) \in Nat /\ DOMAIN list = 1..Len(list)
  BY LenProperties
<1>1. n \in Nat /\ order \in [1..n -> rows] /\ \A i, j \in 1..n : i < j => order[i] < order[j]
  BY <1>0, AscendingProperties
<1>2. RowsAt(list, rows) = [k \in 1..n |-> list[order[k]]]
  BY <1>1 DEF RowsAt
<1> HIDE DEF order, n
<1>3. \A k \in 1..n : order[k] \in rows /\ order[k] \in 1..Len(list) /\ list[order[k]] \in S
  BY <1>0, <1>1, ElementOfSeq
<1>4. [k \in 1..n |-> list[order[k]]] \in [1..n -> S]
  BY <1>3
<1>5. RowsAt(list, rows) \in Seq(S)
  BY <1>1, <1>2, <1>4, FunctionIsSeq
<1>6. ASSUME NEW k \in 1..n, NEW m \in 1..n, order[k] = order[m]
      PROVE  k = m
  BY <1>1, <1>3, <1>6
<1> QED
  BY <1>1, <1>2, <1>3, <1>5, <1>6 DEF order

-----------------------------------------------------------------------------
\* No song twice; what reorderSongs makes of nothing is no song.
Single(songs) ==
    \A i, j \in DOMAIN songs : songs[i] = songs[j] /\ songs[i] \in Songs => i = j

Occurs(s, songs) == \E i \in DOMAIN songs : songs[i] = s

LEMMA CopiesOfSingle ==
    ASSUME NEW songs \in Seq(Row), Single(songs), NEW song \in Songs
    PROVE  Copies(song, songs) <= 1
<1> DEFINE rows == {i \in DOMAIN songs : songs[i] = song}
<1>0. Copies(song, songs) = Cardinality(rows)
  BY DEF Copies
<1>1. CASE rows = {}
  <2>1. Cardinality(rows) = 0
    BY <1>1, FS_EmptySet
  <2> QED
    BY <1>0, <2>1
<1>2. CASE rows # {}
  <2>1. PICK i \in rows : TRUE
    BY <1>2
  <2>2. rows = {i}
    BY DEF Single
  <2>3. Cardinality(rows) = 1
    BY <2>2, FS_Singleton
  <2> QED
    BY <1>0, <2>3
<1> QED
  BY <1>1, <1>2

LEMMA SomeRowsSingle ==
    ASSUME NEW songs \in Seq(Row), NEW rows \in SUBSET DOMAIN songs
    PROVE  /\ RowsAt(songs, rows) \in Seq(Row)
           /\ Single(songs) => Single(RowsAt(songs, rows))
<1> DEFINE order == Ascending(rows)
           some == RowsAt(songs, rows)
<1>1. /\ some \in Seq(Row)
      /\ \A k \in DOMAIN some : order[k] \in rows /\ some[k] = songs[order[k]]
      /\ \A k, m \in DOMAIN some : order[k] = order[m] => k = m
  BY RowsAtProperties
<1> HIDE DEF order, some
<1>2. ASSUME Single(songs), NEW k \in DOMAIN some, NEW m \in DOMAIN some,
             some[k] = some[m], some[k] \in Songs
      PROVE  k = m
  BY <1>1, <1>2 DEF Single
<1>3. Single(songs) => Single(some)
  BY <1>2 DEF Single
<1> QED
  BY <1>1, <1>3 DEF some

\* addSongs: new songs, each once.
LEMMA AddedSingle ==
    ASSUME NEW old \in Seq(Row), NEW songs \in Seq(Songs)
    PROVE  /\ old \o NewSongs(songs, old) \in Seq(Row)
           /\ Single(old) => Single(old \o NewSongs(songs, old))
<1> DEFINE rows == {i \in DOMAIN songs : /\ songs[i] \notin ToSet(old)
                                         /\ \A j \in 1..(i - 1) : songs[j] # songs[i]}
           order == Ascending(rows)
           new == NewSongs(songs, old)
           all == old \o new
<1>0. /\ new = RowsAt(songs, rows) /\ songs \in Seq(Row)
      /\ DOMAIN songs = 1..Len(songs) /\ Len(songs) \in Nat
  <2>1. Songs \subseteq Row
    BY DEF Row
  <2> QED
    BY <2>1, SeqMonotonic, LenProperties DEF NewSongs
<1>1. /\ new \in Seq(Row)
      /\ \A k \in DOMAIN new : order[k] \in rows /\ new[k] = songs[order[k]]
      /\ \A k, m \in DOMAIN new : order[k] = order[m] => k = m
  <2>1. rows \in SUBSET DOMAIN songs /\ songs \in Seq(Row)
    BY <1>0
  <2> HIDE DEF rows, new
  <2> QED
    BY <1>0, <2>1, RowsAtProperties
<1>2. \A i, j \in rows : songs[i] = songs[j] => i = j
  <2>1. SUFFICES ASSUME NEW i \in rows, NEW j \in rows, songs[i] = songs[j], i < j
                 PROVE  FALSE
    BY <1>0
  <2>2. i \in 1..(j - 1)
    BY <1>0, <2>1
  <2> QED
    BY <2>1, <2>2
<1>3. \A i \in rows : songs[i] \notin ToSet(old)
  OBVIOUS
<1> HIDE DEF rows, order, new
<1>4. \A k, m \in DOMAIN new : new[k] = new[m] => k = m
  BY <1>1, <1>2
<1>5. \A k \in DOMAIN new : \A i \in DOMAIN old : new[k] # old[i]
  BY <1>1, <1>3 DEF ToSet
<1>6. /\ DOMAIN old = 1..Len(old) /\ Len(old) \in Nat
      /\ DOMAIN new = 1..Len(new) /\ Len(new) \in Nat
  BY <1>1, LenProperties
<1>7. /\ all \in Seq(Row) /\ Len(all) = Len(old) + Len(new)
      /\ \A i \in 1..Len(old) + Len(new) :
            all[i] = IF i <= Len(old) THEN old[i] ELSE new[i - Len(old)]
  BY <1>1, ConcatProperties
<1>8. DOMAIN all = 1..Len(old) + Len(new)
  BY <1>7, LenProperties
<1> HIDE DEF all
<1>9. ASSUME NEW i \in DOMAIN all
      PROVE  \/ i \in DOMAIN old /\ all[i] = old[i]
             \/ i - Len(old) \in DOMAIN new /\ all[i] = new[i - Len(old)] /\ i \in Int
  <2>1. CASE i <= Len(old)
    BY <1>6, <1>7, <1>8, <2>1
  <2>2. CASE ~(i <= Len(old))
    <3>1. i - Len(old) \in 1..Len(new)
      BY <1>6, <1>8, <2>2
    <3> QED
      BY <1>6, <1>7, <1>8, <2>2, <3>1
  <2> QED
    BY <2>1, <2>2
<1>10. ASSUME Single(old), NEW i \in DOMAIN all, NEW j \in DOMAIN all, all[i] = all[j],
              all[i] \in Songs
       PROVE  i = j
  <2>1. CASE i \in DOMAIN old /\ all[i] = old[i] /\ j \in DOMAIN old /\ all[j] = old[j]
    BY <1>10, <2>1 DEF Single
  <2>2. CASE /\ i - Len(old) \in DOMAIN new /\ all[i] = new[i - Len(old)]
             /\ j - Len(old) \in DOMAIN new /\ all[j] = new[j - Len(old)]
    <3>1. i - Len(old) = j - Len(old)
      BY <1>4, <1>10, <2>2
    <3> QED
      BY <1>6, <1>8, <3>1
  <2> QED
    BY <1>5, <1>9, <1>10, <2>1, <2>2
<1> QED
  BY <1>7, <1>10 DEF Single, all, new

\* A row put in, or taken out.
LEMMA InsertedSingle ==
    ASSUME NEW songs \in Seq(Row), NEW k \in 1..Len(songs) + 1, NEW e \in Row,
           Single(songs), e \in Songs => ~Occurs(e, songs)
    PROVE  /\ Single(InsertAt(songs, k, e))
           /\ \A s : Occurs(s, InsertAt(songs, k, e)) => s = e \/ Occurs(s, songs)
<1> DEFINE next == InsertAt(songs, k, e)
<1>0. Len(songs) \in Nat /\ DOMAIN songs = 1..Len(songs)
  BY LenProperties
<1>1. IsSequence(songs)
  BY SequenceOf
<1>2. /\ DOMAIN next = 1..Len(songs) + 1
      /\ \A j \in 1..Len(songs) + 1 :
            next[j] = IF j < k THEN songs[j] ELSE IF j = k THEN e ELSE songs[j - 1]
  BY <1>1, InsertedIsSequence
<1> HIDE DEF next
<1>3. ASSUME NEW j \in DOMAIN next
      PROVE  /\ j < k => j \in DOMAIN songs /\ next[j] = songs[j]
             /\ j = k => next[j] = e
             /\ j > k => j - 1 \in DOMAIN songs /\ next[j] = songs[j - 1]
  BY <1>0, <1>2
<1>4. ASSUME NEW i \in DOMAIN next, NEW j \in DOMAIN next, next[i] = next[j], next[i] \in Songs,
             i < j
      PROVE  FALSE
  <2>0. i \in Int /\ j \in Int /\ k \in Int
    BY <1>0, <1>2
  <2>1. CASE j < k
    <3>1. i < k
      BY <1>4, <2>0, <2>1
    <3>2. i = j
      BY <1>3, <1>4, <2>1, <3>1 DEF Single
    <3> QED
      BY <1>4, <2>0, <3>2
  <2>2. CASE j = k
    <3>1. next[i] = songs[i] /\ i \in DOMAIN songs /\ next[j] = e
      BY <1>3, <1>4, <2>0, <2>2
    <3> QED
      BY <1>4, <3>1 DEF Occurs
  <2>3. CASE j > k
    <3>0. next[j] = songs[j - 1] /\ j - 1 \in DOMAIN songs
      BY <1>3, <2>3
    <3>1. CASE i < k
      <4>1. i = j - 1
        BY <1>3, <1>4, <3>0, <3>1 DEF Single
      <4> QED
        BY <2>0, <2>3, <3>1, <4>1
    <3>2. CASE i = k
      BY <1>3, <1>4, <3>0, <3>2 DEF Occurs
    <3>3. CASE i > k
      <4>1. i - 1 = j - 1
        BY <1>3, <1>4, <3>0, <3>3 DEF Single
      <4> QED
        BY <1>4, <2>0, <4>1
    <3> QED
      BY <2>0, <3>1, <3>2, <3>3
  <2> QED
    BY <2>0, <2>1, <2>2, <2>3
<1>5. Single(next)
  <2>1. SUFFICES ASSUME NEW i \in DOMAIN next, NEW j \in DOMAIN next, next[i] = next[j],
                        next[i] \in Songs
                 PROVE  i = j
    BY DEF Single
  <2>2. ~(i < j) /\ ~(j < i)
    BY <1>4, <2>1
  <2> QED
    BY <1>0, <1>2, <2>2
<1>6. \A s : Occurs(s, next) => s = e \/ Occurs(s, songs)
  <2>1. SUFFICES ASSUME NEW j \in DOMAIN next
                 PROVE  next[j] = e \/ Occurs(next[j], songs)
    BY DEF Occurs
  <2>2. j < k \/ j = k \/ j > k
    BY <1>0, <1>2
  <2> QED
    BY <1>3, <2>2 DEF Occurs
<1> QED
  BY <1>5, <1>6 DEF next

LEMMA TakenSingle ==
    ASSUME NEW songs \in Seq(Row), NEW k \in 1..Len(songs), Single(songs)
    PROVE  /\ Single(RemoveAt(songs, k))
           /\ songs[k] \in Songs => ~Occurs(songs[k], RemoveAt(songs, k))
<1> DEFINE next == RemoveAt(songs, k)
<1>0. Len(songs) \in Nat /\ DOMAIN songs = 1..Len(songs)
  BY LenProperties
<1>1. /\ next \in Seq(Row) /\ Len(next) = Len(songs) - 1
      /\ \A j \in 1..Len(songs) - 1 : next[j] = IF j < k THEN songs[j] ELSE songs[j + 1]
  BY RemoveAtProperties
<1>2. DOMAIN next = 1..Len(songs) - 1
  BY <1>1, LenProperties
<1> HIDE DEF next
<1> DEFINE from(j) == IF j < k THEN j ELSE j + 1
<1>3. ASSUME NEW j \in DOMAIN next
      PROVE  from(j) \in DOMAIN songs /\ next[j] = songs[from(j)] /\ from(j) # k /\ j \in Int
  BY <1>0, <1>1, <1>2
<1>4. ASSUME NEW i \in DOMAIN next, NEW j \in DOMAIN next, from(i) = from(j)
      PROVE  i = j
  BY <1>0, <1>2, <1>4
<1> HIDE DEF from
<1>5. Single(next)
  BY <1>3, <1>4 DEF Single
<1>6. songs[k] \in Songs => ~Occurs(songs[k], next)
  BY <1>0, <1>3 DEF Single, Occurs
<1> QED
  BY <1>5, <1>6 DEF next

LEMMA AtMostPlace ==
    ASSUME NEW m \in Nat \ {0}, NEW n \in Nat
    PROVE  AtMost(m, n + 1) \in 1..n + 1
BY DEF AtMost

\* reorderSongs moves a song or makes a hole.
LEMMA MovedSingle ==
    ASSUME NEW songs \in Seq(Row), NEW from \in Nat \ {0}, NEW to \in Nat \ {0}
    PROVE  /\ Moved(songs, from, to) \in Seq(Row)
           /\ Single(songs) => Single(Moved(songs, from, to))
<1>0. Len(songs) \in Nat /\ DOMAIN songs = 1..Len(songs) /\ NoSong \in Row /\ NoSong \notin Songs
  BY LenProperties, ListsAssumption DEF Row
<1>1. PICK taken, rest : /\ rest \in Seq(Row) /\ taken \in Row
                         /\ Moved(songs, from, to)
                            = InsertAt(rest, AtMost(to, Len(rest) + 1), taken)
                         /\ Single(songs) => /\ Single(rest)
                                             /\ taken \in Songs => ~Occurs(taken, rest)
  <2>1. CASE from \in DOMAIN songs
    <3>1. from \in 1..Len(songs) /\ songs[from] \in Row
      BY <1>0, <2>1, ElementOfSeq
    <3>2. RemoveAt(songs, from) \in Seq(Row)
      BY <3>1, RemoveAtProperties
    <3>3. Single(songs) => /\ Single(RemoveAt(songs, from))
                           /\ songs[from] \in Songs => ~Occurs(songs[from], RemoveAt(songs, from))
      BY <3>1, TakenSingle
    <3>4. Moved(songs, from, to)
          = InsertAt(RemoveAt(songs, from), AtMost(to, Len(RemoveAt(songs, from)) + 1), songs[from])
      BY <2>1 DEF Moved
    <3> QED
      BY <3>1, <3>2, <3>3, <3>4
  <2>2. CASE from \notin DOMAIN songs
    <3>1. Moved(songs, from, to) = InsertAt(songs, AtMost(to, Len(songs) + 1), NoSong)
      BY <2>2 DEF Moved
    <3> QED
      BY <1>0, <3>1
  <2> QED
    BY <2>1, <2>2
<1>2. AtMost(to, Len(rest) + 1) \in 1..Len(rest) + 1
  BY <1>1, LenProperties, AtMostPlace
<1>3. InsertAt(rest, AtMost(to, Len(rest) + 1), taken) \in Seq(Row)
  BY <1>1, <1>2, InsertAtProperties
<1>4. Single(songs) => Single(InsertAt(rest, AtMost(to, Len(rest) + 1), taken))
  BY <1>1, <1>2, InsertedSingle
<1> QED
  BY <1>1, <1>3, <1>4

-----------------------------------------------------------------------------
\* The rows a removal took, as the snapshot holds them.
Removal == [song : Songs, index : Nat \ {0}]

LEMMA PutBackSingle ==
    ASSUME NEW songs \in Seq(Row), NEW entry \in Removal
    PROVE  /\ PutBack(songs, entry) \in Seq(Row)
           /\ Single(songs) /\ ~Occurs(entry.song, songs) => Single(PutBack(songs, entry))
           /\ Single(songs) /\ ~Occurs(entry.song, songs) =>
                \A s : Occurs(s, PutBack(songs, entry)) => s = entry.song \/ Occurs(s, songs)
<1> DEFINE k == AtMost(entry.index, Len(songs) + 1)
<1>1. entry.song \in Row /\ entry.index \in Nat \ {0}
  BY DEF Removal, Row
<1>2. k \in 1..Len(songs) + 1
  BY <1>1, LenProperties, AtMostPlace
<1>3. PutBack(songs, entry) = InsertAt(songs, k, entry.song)
  BY DEF PutBack
<1> HIDE DEF k
<1>4. InsertAt(songs, k, entry.song) \in Seq(Row)
  BY <1>1, <1>2, InsertAtProperties
<1>5. Single(songs) /\ ~Occurs(entry.song, songs) =>
        /\ Single(InsertAt(songs, k, entry.song))
        /\ \A s : Occurs(s, InsertAt(songs, k, entry.song)) => s = entry.song \/ Occurs(s, songs)
  BY <1>1, <1>2, InsertedSingle
<1> QED
  BY <1>3, <1>4, <1>5

\* The list between two of the entries that are put back.
LEMMA PutAllBackSteps ==
    ASSUME NEW songs, NEW entries, Len(entries) \in Nat
    PROVE  \E list : /\ list[0] = songs
                     /\ \A k \in 1..Len(entries) : list[k] = PutBack(list[k - 1], entries[k])
                     /\ PutAllBack(songs, entries) = list[Len(entries)]
<1> DEFINE Builds(list, n) ==
               list = [k \in 0..n |-> IF k = 0 THEN songs ELSE PutBack(list[k - 1], entries[k])]
           Bad == {n \in Nat : ~\E list : Builds(list, n)}
<1>1. Bad = {}
  <2>1. SUFFICES ASSUME Bad # {}
                 PROVE  FALSE
    OBVIOUS
  <2>2. PICK n \in Bad : \A k \in Bad : n <= k
    BY <2>1, LeastNatural
  <2>3. CASE n = 0
    <3> DEFINE list == [k \in 0..0 |-> songs]
    <3>1. Builds(list, 0)
      OBVIOUS
    <3> QED
      BY <2>2, <2>3, <3>1
  <2>4. CASE n # 0
    <3>1. n \in Nat \ {0} /\ n - 1 \in Nat /\ n - 1 \notin Bad
      <4>1. n \in Nat
        BY <2>2
      <4> HIDE DEF Bad
      <4> QED
        BY <2>2, <2>4, <4>1
    <3>2. PICK old : Builds(old, n - 1)
      BY <3>1
    <3> DEFINE list == [k \in 0..n |-> IF k = n THEN PutBack(old[n - 1], entries[n]) ELSE old[k]]
    <3>3. \A k \in 0..n - 1 : list[k] = old[k] /\ k \in 0..n
      BY <3>1
    <3>4. list[n] = PutBack(list[n - 1], entries[n])
      BY <3>1, <3>3
    <3>5. ASSUME NEW k \in 0..n
          PROVE  list[k] = IF k = 0 THEN songs ELSE PutBack(list[k - 1], entries[k])
      <4>1. CASE k = n
        BY <3>1, <3>4, <4>1
      <4>2. CASE k # n
        <5>1. k \in 0..n - 1 /\ list[k] = old[k]
          BY <3>1, <3>3, <4>2
        <5>2. old[k] = IF k = 0 THEN songs ELSE PutBack(old[k - 1], entries[k])
          BY <3>2, <5>1
        <5>3. k # 0 => k - 1 \in 0..n - 1 /\ list[k - 1] = old[k - 1]
          BY <3>1, <3>3, <5>1
        <5> HIDE DEF list
        <5> QED
          BY <5>1, <5>2, <5>3
      <4> QED
        BY <4>1, <4>2
    <3>6. list = [k \in 0..n |-> list[k]]
      OBVIOUS
    <3> HIDE DEF list
    <3>7. Builds(list, n)
      BY <3>5, <3>6
    <3> QED
      BY <2>2, <3>7
  <2> QED
    BY <2>3, <2>4
<1> DEFINE list == CHOOSE f : Builds(f, Len(entries))
<1>2. Builds(list, Len(entries))
  BY <1>1
<1>3. PutAllBack(songs, entries) = list[Len(entries)]
  BY DEF PutAllBack
<1> HIDE DEF list
<1>4. list[0] = songs
  BY <1>2
<1>5. ASSUME NEW k \in 1..Len(entries)
      PROVE  list[k] = PutBack(list[k - 1], entries[k])
  BY <1>2
<1> QED
  BY <1>3, <1>4, <1>5

LEMMA PutAllBackSingle ==
    ASSUME NEW songs \in Seq(Row), NEW entries \in Seq(Removal)
    PROVE  /\ PutAllBack(songs, entries) \in Seq(Row)
           /\ /\ Single(songs)
              /\ \A i, j \in DOMAIN entries : entries[i].song = entries[j].song => i = j
              /\ \A i \in DOMAIN entries : ~Occurs(entries[i].song, songs)
              => Single(PutAllBack(songs, entries))
<1>0. /\ Len(entries) \in Nat /\ DOMAIN entries = 1..Len(entries)
      /\ \A k \in 1..Len(entries) : entries[k] \in Removal
  <2>1. Len(entries) \in Nat /\ DOMAIN entries = 1..Len(entries)
    BY LenProperties
  <2>2. \A k \in 1..Len(entries) : entries[k] \in Removal
    BY ElementOfSeq
  <2> QED
    BY <2>1, <2>2
<1>1. PICK list : /\ list[0] = songs
                  /\ \A k \in 1..Len(entries) : list[k] = PutBack(list[k - 1], entries[k])
                  /\ PutAllBack(songs, entries) = list[Len(entries)]
  BY <1>0, PutAllBackSteps
<1> DEFINE Apart == /\ Single(songs)
                    /\ \A i, j \in DOMAIN entries : entries[i].song = entries[j].song => i = j
                    /\ \A i \in DOMAIN entries : ~Occurs(entries[i].song, songs)
           Holds(k) == \A s : Occurs(s, list[k]) =>
                          Occurs(s, songs) \/ \E i \in 1..k : s = entries[i].song
           Fine(k) == /\ list[k] \in Seq(Row)
                      /\ Apart => Single(list[k]) /\ Holds(k)
           Bad == {k \in 0..Len(entries) : ~Fine(k)}
<1>2. Bad = {}
  <2>1. SUFFICES ASSUME Bad # {}
                 PROVE  FALSE
    OBVIOUS
  <2>2. PICK k \in Bad : \A j \in Bad : k <= j
    <3>1. Bad \in SUBSET Nat
      OBVIOUS
    <3> HIDE DEF Bad
    <3> QED
      BY <2>1, <3>1, LeastNatural
  <2>3. CASE k = 0
    BY <1>1, <2>2, <2>3
  <2>4. CASE k # 0
    <3>1. k \in 1..Len(entries) /\ k - 1 \in 0..Len(entries) /\ k - 1 \notin Bad
      <4>1. k \in 0..Len(entries)
        BY <2>2
      <4> HIDE DEF Bad
      <4> QED
        BY <1>0, <2>2, <2>4, <4>1
    <3>2. Fine(k - 1)
      BY <3>1
    <3>3. list[k] = PutBack(list[k - 1], entries[k]) /\ entries[k] \in Removal
      BY <1>0, <1>1, <3>1
    <3>4. list[k] \in Seq(Row)
      BY <3>2, <3>3, PutBackSingle
    <3>5. Apart => ~Occurs(entries[k].song, list[k - 1])
      <4>1. SUFFICES ASSUME Apart, Occurs(entries[k].song, list[k - 1])
                     PROVE  FALSE
        OBVIOUS
      <4>2. \/ Occurs(entries[k].song, songs)
            \/ \E i \in 1..k - 1 : entries[k].song = entries[i].song
        BY <3>2, <4>1
      <4>3. \A i \in 1..k - 1 : i \in DOMAIN entries /\ k \in DOMAIN entries /\ i # k
        BY <1>0, <3>1
      <4> QED
        BY <1>0, <3>1, <4>1, <4>2, <4>3
    <3>6. Apart => /\ Single(list[k])
                   /\ \A s : Occurs(s, list[k]) => s = entries[k].song \/ Occurs(s, list[k - 1])
      <4>1. list[k - 1] \in Seq(Row) /\ (Apart => Single(list[k - 1]))
        BY <3>2
      <4> HIDE DEF Apart
      <4> QED
        BY <3>3, <3>5, <4>1, PutBackSingle
    <3>7. Apart => Holds(k)
      <4>1. SUFFICES ASSUME Apart, NEW s, Occurs(s, list[k])
                     PROVE  Occurs(s, songs) \/ \E i \in 1..k : s = entries[i].song
        OBVIOUS
      <4>2. s = entries[k].song \/ Occurs(s, list[k - 1])
        BY <3>6, <4>1
      <4>3. Occurs(s, list[k - 1]) =>
                Occurs(s, songs) \/ \E i \in 1..k - 1 : s = entries[i].song
        BY <3>2, <4>1
      <4>4. \A i \in 1..k - 1 : i \in 1..k
        BY <3>1
      <4>5. k \in 1..k
        BY <3>1
      <4> QED
        BY <4>2, <4>3, <4>4, <4>5
    <3> QED
      BY <2>2, <3>4, <3>6, <3>7
  <2> QED
    BY <2>3, <2>4
<1>3. Fine(Len(entries))
  BY <1>0, <1>2
<1> QED
  BY <1>1, <1>3

\* The snapshot of a removal: songs and where they were; of a list that has no
\* song twice, each song once, and none of them is left.
RemovedFrom(old, gone) ==
    [k \in DOMAIN Ascending(gone) |->
        [song |-> old[Ascending(gone)[k]], index |-> Ascending(gone)[k]]]

LEMMA RemovedSnapshot ==
    ASSUME NEW old \in Seq(Row), ~HasHole(old), NEW gone \in SUBSET DOMAIN old
    PROVE  /\ RemovedFrom(old, gone) \in Seq(Removal)
           /\ Single(old) =>
                /\ \A i, j \in DOMAIN RemovedFrom(old, gone) :
                      RemovedFrom(old, gone)[i].song = RemovedFrom(old, gone)[j].song => i = j
                /\ \A i \in DOMAIN RemovedFrom(old, gone) :
                      Copies(RemovedFrom(old, gone)[i].song, RowsAt(old, DOMAIN old \ gone)) = 0
<1> DEFINE order == Ascending(gone)
           n == Cardinality(gone)
           removed == RemovedFrom(old, gone)
           rest == RowsAt(old, DOMAIN old \ gone)
           stays == Ascending(DOMAIN old \ gone)
<1>0. Len(old) \in Nat /\ DOMAIN old = 1..Len(old)
  BY LenProperties
<1>1. n \in Nat /\ order \in [1..n -> gone] /\ \A i, j \in 1..n : i < j => order[i] < order[j]
  BY <1>0, AscendingProperties
<1>2. \A i \in DOMAIN old : old[i] \in Songs
  BY <1>0, ElementOfSeq DEF HasHole, Row
<1>3. DOMAIN removed = 1..n
      /\ removed = [k \in 1..n |-> [song |-> old[order[k]], index |-> order[k]]]
  BY <1>1 DEF RemovedFrom
<1>r. /\ \A k \in DOMAIN rest : stays[k] \in DOMAIN old \ gone /\ rest[k] = old[stays[k]]
  <2>1. DOMAIN old \ gone \in SUBSET DOMAIN old
    OBVIOUS
  <2> QED
    BY <2>1, RowsAtProperties
<1> HIDE DEF order, n, removed, rest, stays
<1>4. \A k \in 1..n : /\ order[k] \in gone /\ order[k] \in DOMAIN old /\ order[k] \in Nat \ {0}
                      /\ old[order[k]] \in Songs
  BY <1>0, <1>1, <1>2
<1>5. \A k \in 1..n : /\ removed[k] = [song |-> old[order[k]], index |-> order[k]]
                      /\ removed[k] \in Removal /\ removed[k].song = old[order[k]]
  BY <1>3, <1>4 DEF Removal
<1>6. removed \in Seq(Removal)
  <2>1. removed = [k \in 1..n |-> removed[k]]
    BY <1>3
  <2>2. removed \in [1..n -> Removal]
    BY <1>5, <2>1
  <2> QED
    BY <1>1, <2>2, FunctionIsSeq
<1>7. ASSUME Single(old), NEW i \in 1..n, NEW j \in 1..n, removed[i].song = removed[j].song
      PROVE  i = j
  <2>1. order[i] = order[j]
    <3>1. /\ order[i] \in DOMAIN old /\ order[j] \in DOMAIN old
          /\ old[order[i]] = old[order[j]] /\ old[order[i]] \in Songs
      BY <1>4, <1>5, <1>7
    <3> QED
      BY <1>7, <3>1 DEF Single
  <2> QED
    BY <1>1, <1>4, <2>1
<1>8. ASSUME Single(old), NEW i \in 1..n
      PROVE  Copies(removed[i].song, rest) = 0
  <2>1. ASSUME NEW k \in DOMAIN rest, rest[k] = removed[i].song
        PROVE  FALSE
    <3>1. /\ rest[k] = old[stays[k]] /\ stays[k] \in DOMAIN old /\ stays[k] \notin gone
          /\ removed[i].song = old[order[i]] /\ order[i] \in gone /\ order[i] \in DOMAIN old
          /\ old[order[i]] \in Songs
      BY <1>r, <1>4, <1>5
    <3>2. stays[k] = order[i]
      BY <1>8, <2>1, <3>1 DEF Single
    <3> QED
      BY <3>1, <3>2
  <2>2. {k \in DOMAIN rest : rest[k] = removed[i].song} = {}
    BY <2>1
  <2> QED
    BY <2>2, FS_EmptySet DEF Copies
<1> QED
  BY <1>3, <1>6, <1>7, <1>8 DEF removed, rest

\* What an undo puts back of such a snapshot is not in the list.
LEMMA ReturningAbsent ==
    ASSUME NEW snapshot, snapshot.removed \in Seq(Removal),
           \A i, j \in DOMAIN snapshot.removed :
              snapshot.removed[i].song = snapshot.removed[j].song => i = j,
           \A i \in DOMAIN snapshot.removed : snapshot.remaining[snapshot.removed[i].song] = 0,
           NEW current \in Seq(Row), NEW k \in Returning(snapshot, current, FALSE)
    PROVE  ~Occurs(snapshot.removed[k].song, current)
<1> DEFINE removed == snapshot.removed
           song == removed[k].song
           same == {j \in DOMAIN removed : removed[j].song = song}
           before == {j \in 1..(k - 1) : removed[j].song = song}
           there == {i \in DOMAIN current : current[i] = song}
<1>0. /\ Len(removed) \in Nat /\ DOMAIN removed = 1..Len(removed)
      /\ Len(current) \in Nat /\ DOMAIN current = 1..Len(current)
  BY LenProperties
<1>1. k \in DOMAIN removed /\ Cardinality(before) < Restorable(snapshot, song, current)
  BY DEF Returning
<1>2. Restorable(snapshot, song, current)
      = snapshot.remaining[song] + Cardinality(same) - Copies(song, current)
  BY DEF Restorable
<1>3. snapshot.remaining[song] = 0
  BY <1>1
<1>4. Cardinality(same) = 1
  <2>1. same = {k}
    BY <1>1
  <2> QED
    BY <2>1, FS_Singleton
<1>5. IsFiniteSet(there) /\ Cardinality(there) \in Nat /\ Copies(song, current) = Cardinality(there)
  <2>0. 1 \in Int /\ Len(current) \in Int
    BY <1>0
  <2>1. IsFiniteSet(1..Len(current))
    BY <2>0, FS_Interval
  <2>2. IsFiniteSet(there)
    BY <1>0, <2>1, FS_Subset
  <2> QED
    BY <2>2, FS_CardinalityType DEF Copies
<1>6. Cardinality(before) \in Nat
  <2>0. 1 \in Int /\ k - 1 \in Int
    BY <1>0, <1>1
  <2>1. IsFiniteSet(1..(k - 1)) /\ before \in SUBSET (1..(k - 1))
    BY <2>0, FS_Interval
  <2>2. IsFiniteSet(before)
    BY <2>1, FS_Subset
  <2> QED
    BY <2>2, FS_CardinalityType
<1> HIDE DEF before, same
<1>7. Cardinality(there) = 0
  BY <1>1, <1>2, <1>3, <1>4, <1>5, <1>6
<1>8. there = {}
  BY <1>5, <1>7, FS_EmptySet
<1> QED
  BY <1>8 DEF Occurs

\* restoreRemovedSongs.
LEMMA RestoredSingle ==
    ASSUME NEW snapshot, snapshot.removed \in Seq(Removal), NEW old \in Seq(Row), NEW allowed
    PROVE  LET back == Returning(snapshot, old, allowed)
               songs == PutAllBack(old, RowsAt(snapshot.removed, back))
           IN  /\ songs \in Seq(Row)
               /\ /\ Single(old) /\ allowed = FALSE
                  /\ \A i, j \in DOMAIN snapshot.removed :
                        snapshot.removed[i].song = snapshot.removed[j].song => i = j
                  /\ \A i \in DOMAIN snapshot.removed :
                        snapshot.remaining[snapshot.removed[i].song] = 0
                  => Single(songs)
<1> DEFINE back == Returning(snapshot, old, allowed)
           order == Ascending(back)
           entries == RowsAt(snapshot.removed, back)
<1>1. /\ entries \in Seq(Removal)
      /\ \A k \in DOMAIN entries : order[k] \in back /\ entries[k] = snapshot.removed[order[k]]
      /\ \A k, m \in DOMAIN entries : order[k] = order[m] => k = m
  <2>1. back \in SUBSET DOMAIN snapshot.removed
    BY DEF Returning
  <2> HIDE DEF back
  <2> QED
    BY <2>1, RowsAtProperties
<1>2. \A k \in back : k \in DOMAIN snapshot.removed
  BY DEF Returning
<1> HIDE DEF entries, order, back
<1>3. PutAllBack(old, entries) \in Seq(Row)
  BY <1>1, PutAllBackSingle
<1>4. ASSUME Single(old), allowed = FALSE,
             \A i, j \in DOMAIN snapshot.removed :
                snapshot.removed[i].song = snapshot.removed[j].song => i = j,
             \A i \in DOMAIN snapshot.removed :
                snapshot.remaining[snapshot.removed[i].song] = 0
      PROVE  Single(PutAllBack(old, entries))
  <2>1. \A i, j \in DOMAIN entries : entries[i].song = entries[j].song => i = j
    BY <1>1, <1>2, <1>4
  <2>2. \A k \in back : ~Occurs(snapshot.removed[k].song, old)
    BY <1>4, ReturningAbsent DEF back
  <2>3. \A i \in DOMAIN entries : ~Occurs(entries[i].song, old)
    BY <1>1, <2>2
  <2> QED
    BY <1>1, <1>4, <2>1, <2>3, PutAllBackSingle
<1> QED
  BY <1>3, <1>4 DEF entries, back

-----------------------------------------------------------------------------
(* Libraries.                                                               *)

\* What an instance is given has no song twice, and nobody undoes a removal of
\* the library's health check, which puts songs back whether they are there or not.
GivenOnce ==
    /\ \A lib \in OldTabLibraries \cup Backups
                  \cup UNION {s.libraries \cup (s.legacy \ Unreadable) : s \in Scenarios} :
           \A i \in DOMAIN lib : Single(lib[i].songs)
    /\ \A songs \in RemoteSongs : Single(songs)
    /\ \A s \in Scenarios : "health" \notin s.budget.may

SongsOK(songs) == songs \in Seq(Row) /\ (GivenOnce => Single(songs))

IsList(p) == p \in Playlist /\ SongsOK(p.songs)

IsLibrary(lib) ==
    /\ IsSequence(lib)
    /\ \A i \in DOMAIN lib : IsList(lib[i])
    /\ DistinctIds(lib)

LEMMA PlaylistsAreLists ==
    ASSUME NEW lib \in Library, DistinctIds(lib),
           GivenOnce => \A i \in DOMAIN lib : Single(lib[i].songs)
    PROVE  IsLibrary(lib)
<1>1. IsSequence(lib) /\ DOMAIN lib = 1..Len(lib)
  BY SequenceOf, SequenceDomain DEF Library
<1>2. \A i \in DOMAIN lib : lib[i] \in Playlist
  BY <1>1, ElementOfSeq DEF Library
<1>3. \A i \in DOMAIN lib : lib[i].songs \in Seq(Row)
  BY <1>2 DEF Playlist
<1>4. \A i \in DOMAIN lib : IsList(lib[i])
  BY <1>2, <1>3 DEF IsList, SongsOK
<1> QED
  BY <1>1, <1>4 DEF IsLibrary

LEMMA ListFields ==
    ASSUME NEW p, IsList(p)
    PROVE  /\ p = [id |-> p.id, songs |-> p.songs, linked |-> p.linked]
           /\ p.id \in Lists /\ p.linked \in BOOLEAN
           /\ SongsOK(p.songs) /\ p.songs \in Seq(Row)
BY DEF IsList, SongsOK, Playlist

LEMMA ListMade ==
    ASSUME NEW id \in Lists, NEW linked \in BOOLEAN, NEW songs, SongsOK(songs)
    PROVE  /\ IsList([id |-> id, songs |-> songs, linked |-> linked])
           /\ [id |-> id, songs |-> songs, linked |-> linked].id = id
BY DEF IsList, SongsOK, Playlist

LEMMA EmptyLibrary == IsLibrary(<<>>) /\ Ids(<<>>) = {} /\ DOMAIN (<<>>) = {}
<1>1. IsSequence(<<>>)
  BY EmptySeq, SequenceOf
<1>2. DOMAIN (<<>>) = {}
  OBVIOUS
<1> QED
  BY <1>1, <1>2 DEF IsLibrary, DistinctIds, Ids

LEMMA PlaceFound ==
    ASSUME NEW lib, NEW id, Has(lib, id)
    PROVE  PlaceOf(lib, id) \in DOMAIN lib /\ lib[PlaceOf(lib, id)].id = id
BY DEF Has, PlaceOf

\* In a library the id of a list finds the list.
LEMMA EntryFound ==
    ASSUME NEW lib, IsLibrary(lib), NEW i \in DOMAIN lib
    PROVE  Has(lib, lib[i].id) /\ Entry(lib, lib[i].id) = lib[i]
<1>1. Has(lib, lib[i].id)
  BY DEF Has
<1>2. PlaceOf(lib, lib[i].id) = i
  BY <1>1, PlaceFound DEF IsLibrary, DistinctIds
<1> QED
  BY <1>1, <1>2 DEF Entry

LEMMA HasMeansId ==
    ASSUME NEW lib, NEW id
    PROVE  Has(lib, id) <=> id \in Ids(lib)
BY DEF Has, Ids

\* A list replaced by one of the same id.
LEMMA ListReplaced ==
    ASSUME NEW lib, IsLibrary(lib), NEW k \in DOMAIN lib, NEW p, IsList(p), p.id = lib[k].id
    PROVE  IsLibrary([lib EXCEPT ![k] = p]) /\ Ids([lib EXCEPT ![k] = p]) = Ids(lib)
<1> DEFINE next == [lib EXCEPT ![k] = p]
<1>1. /\ IsSequence(next) /\ DOMAIN next = DOMAIN lib /\ next[k] = p
      /\ \A i \in DOMAIN lib : i # k => next[i] = lib[i]
  BY ExceptIsSequence DEF IsLibrary
<1> HIDE DEF next
<1>2. \A i \in DOMAIN lib : next[i].id = lib[i].id /\ IsList(next[i])
  BY <1>1 DEF IsLibrary
<1>3. DistinctIds(next)
  BY <1>1, <1>2 DEF IsLibrary, DistinctIds
<1>4. Ids(next) = Ids(lib)
  BY <1>1, <1>2 DEF Ids
<1>5. IsLibrary(next)
  BY <1>1, <1>2, <1>3 DEF IsLibrary
<1> QED
  BY <1>4, <1>5 DEF next

LEMMA SongsReplaced ==
    ASSUME NEW lib, IsLibrary(lib), NEW k \in DOMAIN lib, NEW songs, SongsOK(songs)
    PROVE  /\ IsLibrary([lib EXCEPT ![k].songs = songs])
           /\ Ids([lib EXCEPT ![k].songs = songs]) = Ids(lib)
<1> DEFINE p == [lib[k] EXCEPT !.songs = songs]
<1>1. /\ lib[k] = [id |-> lib[k].id, songs |-> lib[k].songs, linked |-> lib[k].linked]
      /\ lib[k].id \in Lists /\ lib[k].linked \in BOOLEAN
  BY ListFields DEF IsLibrary
<1>2. p = [id |-> lib[k].id, songs |-> songs, linked |-> lib[k].linked]
  BY <1>1
<1>3. IsList(p) /\ p.id = lib[k].id
  BY <1>1, <1>2, ListMade
<1>4. [lib EXCEPT ![k].songs = songs] = [lib EXCEPT ![k] = p]
  OBVIOUS
<1> HIDE DEF p
<1> QED
  BY <1>3, <1>4, ListReplaced

LEMMA LinkReplaced ==
    ASSUME NEW lib, IsLibrary(lib), NEW k \in DOMAIN lib, NEW linked \in BOOLEAN
    PROVE  /\ IsLibrary([lib EXCEPT ![k].linked = linked])
           /\ Ids([lib EXCEPT ![k].linked = linked]) = Ids(lib)
<1> DEFINE p == [lib[k] EXCEPT !.linked = linked]
<1>1. /\ lib[k] = [id |-> lib[k].id, songs |-> lib[k].songs, linked |-> lib[k].linked]
      /\ lib[k].id \in Lists /\ SongsOK(lib[k].songs)
  BY ListFields DEF IsLibrary
<1>2. p = [id |-> lib[k].id, songs |-> lib[k].songs, linked |-> linked]
  BY <1>1
<1>3. IsList(p) /\ p.id = lib[k].id
  BY <1>1, <1>2, ListMade
<1>4. [lib EXCEPT ![k].linked = linked] = [lib EXCEPT ![k] = p]
  OBVIOUS
<1> HIDE DEF p
<1> QED
  BY <1>3, <1>4, ListReplaced

\* The songs of a list of the library.
LEMMA SongsFound ==
    ASSUME NEW lib, IsLibrary(lib), NEW id, Has(lib, id)
    PROVE  SongsOK(SongsOf(lib, id)) /\ SongsOf(lib, id) \in Seq(Row)
BY PlaceFound, ListFields DEF IsLibrary, SongsOf, Entry

LEMMA WithSongsIsLibrary ==
    ASSUME NEW lib, IsLibrary(lib), NEW id, NEW songs, Editable(lib, id) => SongsOK(songs)
    PROVE  IsLibrary(WithSongs(lib, id, songs)) /\ Ids(WithSongs(lib, id, songs)) = Ids(lib)
<1>1. CASE Editable(lib, id)
  <2>1. PlaceOf(lib, id) \in DOMAIN lib
    BY <1>1, PlaceFound DEF Editable
  <2> QED
    BY <1>1, <2>1, SongsReplaced DEF WithSongs
<1>2. CASE ~Editable(lib, id)
  BY <1>2 DEF WithSongs
<1> QED
  BY <1>1, <1>2

\* A list of a new id, put in anywhere.
LEMMA ListInserted ==
    ASSUME NEW lib, IsLibrary(lib), NEW k \in 1..Len(lib) + 1, NEW p, IsList(p),
           p.id \notin Ids(lib)
    PROVE  IsLibrary(InsertAt(lib, k, p)) /\ Ids(InsertAt(lib, k, p)) = Ids(lib) \cup {p.id}
<1> DEFINE next == InsertAt(lib, k, p)
<1>0. Len(lib) \in Nat /\ DOMAIN lib = 1..Len(lib)
  BY SequenceDomain DEF IsLibrary
<1>1. /\ IsSequence(next) /\ DOMAIN next = 1..Len(lib) + 1
      /\ \A j \in 1..Len(lib) + 1 :
            next[j] = IF j < k THEN lib[j] ELSE IF j = k THEN p ELSE lib[j - 1]
  BY InsertedIsSequence DEF IsLibrary
<1> HIDE DEF next
<1>2. ASSUME NEW j \in 1..Len(lib) + 1
      PROVE  /\ j < k => j \in DOMAIN lib /\ next[j] = lib[j]
             /\ j = k => next[j] = p
             /\ j > k => j - 1 \in DOMAIN lib /\ next[j] = lib[j - 1]
  BY <1>0, <1>1
<1>3. \A j \in DOMAIN next : IsList(next[j])
  BY <1>0, <1>1, <1>2 DEF IsLibrary
<1>4. ASSUME NEW i \in DOMAIN next, NEW j \in DOMAIN next, next[i].id = next[j].id
      PROVE  i = j
  <2>1. \A n \in DOMAIN lib : lib[n].id # p.id
    BY DEF Ids
  <2>2. \A m, n \in DOMAIN lib : lib[m].id = lib[n].id => m = n
    BY DEF IsLibrary, DistinctIds
  <2>3. i = k <=> j = k
    BY <1>0, <1>1, <1>2, <1>4, <2>1, SMTT(20)
  <2>4. CASE i # k
    <3>1. CASE i < k /\ j < k
      BY <1>0, <1>1, <1>2, <1>4, <2>2, <3>1
    <3>2. CASE i > k /\ j > k
      BY <1>0, <1>1, <1>2, <1>4, <2>2, <3>2
    <3>3. CASE i < k /\ j > k
      BY <1>0, <1>1, <1>2, <1>4, <2>2, <3>3
    <3>4. CASE i > k /\ j < k
      BY <1>0, <1>1, <1>2, <1>4, <2>2, <3>4
    <3> QED
      BY <1>0, <1>1, <2>3, <2>4, <3>1, <3>2, <3>3, <3>4
  <2> QED
    BY <2>3, <2>4
<1>5. ASSUME NEW j \in DOMAIN next
      PROVE  next[j].id \in Ids(lib) \cup {p.id}
  BY <1>0, <1>1, <1>2 DEF Ids
<1>6. ASSUME NEW j \in DOMAIN lib
      PROVE  lib[j].id \in Ids(next)
  <2>1. CASE j < k
    BY <1>0, <1>1, <1>2, <2>1 DEF Ids
  <2>2. CASE ~(j < k)
    <3>1. j + 1 \in 1..Len(lib) + 1 /\ j + 1 > k /\ (j + 1) - 1 = j
      BY <1>0, <2>2
    <3>2. next[j + 1] = lib[j]
      BY <1>2, <3>1
    <3> QED
      BY <1>1, <3>1, <3>2 DEF Ids
  <2> QED
    BY <2>1, <2>2
<1>7. p.id \in Ids(next)
  BY <1>1, <1>2 DEF Ids
<1>8. Ids(next) = Ids(lib) \cup {p.id}
  <2>1. Ids(next) \subseteq Ids(lib) \cup {p.id}
    BY <1>5 DEF Ids
  <2>2. Ids(lib) \subseteq Ids(next)
    BY <1>6 DEF Ids
  <2> QED
    BY <1>7, <2>1, <2>2
<1>9. IsLibrary(next)
  BY <1>1, <1>3, <1>4 DEF IsLibrary, DistinctIds
<1> QED
  BY <1>8, <1>9 DEF next

LEMMA ListPrepended ==
    ASSUME NEW lib, IsLibrary(lib), NEW p, IsList(p), p.id \notin Ids(lib)
    PROVE  IsLibrary(<<p>> \o lib) /\ Ids(<<p>> \o lib) = Ids(lib) \cup {p.id}
<1>1. PICK S : lib \in Seq(S) /\ p \in S /\ <<p>> \in Seq(S)
  <2>1. lib \in Seq(ToSet(lib) \cup {p})
    BY SequenceDomain, SeqMonotonic DEF IsLibrary
  <2> QED
    BY <2>1
<1>2. Len(lib) \in Nat
  BY SequenceDomain DEF IsLibrary
<1>3. SubSeq(lib, 1, 1 - 1) = <<>> /\ SubSeq(lib, 1, Len(lib)) = lib
  BY <1>1, <1>2, SubSeqEmpty, SubSeqFull
<1>4. <<>> \o <<p>> = <<p>>
  BY <1>1, ConcatEmptySeq
<1>5. InsertAt(lib, 1, p) = <<p>> \o lib
  BY <1>3, <1>4 DEF InsertAt
<1>6. 1 \in 1..Len(lib) + 1
  BY <1>2
<1>7. IsLibrary(InsertAt(lib, 1, p)) /\ Ids(InsertAt(lib, 1, p)) = Ids(lib) \cup {p.id}
  BY <1>6, ListInserted
<1> QED
  BY <1>5, <1>7

LEMMA ListAppended ==
    ASSUME NEW lib, IsLibrary(lib), NEW p, IsList(p), p.id \notin Ids(lib)
    PROVE  IsLibrary(Append(lib, p)) /\ Ids(Append(lib, p)) = Ids(lib) \cup {p.id}
<1>1. PICK S : lib \in Seq(S) /\ p \in S /\ <<p>> \in Seq(S)
  <2>1. lib \in Seq(ToSet(lib) \cup {p})
    BY SequenceDomain, SeqMonotonic DEF IsLibrary
  <2> QED
    BY <2>1
<1>2. Len(lib) \in Nat
  BY SequenceDomain DEF IsLibrary
<1>3. /\ SubSeq(lib, 1, (Len(lib) + 1) - 1) = lib
      /\ SubSeq(lib, Len(lib) + 1, Len(lib)) = <<>>
  <2>1. (Len(lib) + 1) - 1 = Len(lib) /\ Len(lib) < Len(lib) + 1
    BY <1>2
  <2> QED
    BY <1>1, <1>2, <2>1, SubSeqEmpty, SubSeqFull
<1>4. lib \o <<p>> \in Seq(S) /\ lib \o <<p>> = Append(lib, p)
  BY <1>1, AppendIsConcat, ConcatProperties
<1>5. (lib \o <<p>>) \o <<>> = lib \o <<p>>
  BY <1>4, ConcatEmptySeq
<1>6. InsertAt(lib, Len(lib) + 1, p) = Append(lib, p)
  BY <1>3, <1>4, <1>5 DEF InsertAt
<1>7. Len(lib) + 1 \in 1..Len(lib) + 1
  BY <1>2
<1>8. /\ IsLibrary(InsertAt(lib, Len(lib) + 1, p))
      /\ Ids(InsertAt(lib, Len(lib) + 1, p)) = Ids(lib) \cup {p.id}
  BY <1>7, ListInserted
<1> QED
  BY <1>6, <1>8

LEMMA ListRemoved ==
    ASSUME NEW lib, IsLibrary(lib), NEW k \in DOMAIN lib
    PROVE  IsLibrary(RemoveAt(lib, k)) /\ Ids(RemoveAt(lib, k)) \subseteq Ids(lib)
<1> DEFINE next == RemoveAt(lib, k)
<1>0. Len(lib) \in Nat /\ DOMAIN lib = 1..Len(lib)
  BY SequenceDomain DEF IsLibrary
<1>1. /\ IsSequence(next) /\ DOMAIN next = 1..Len(lib) - 1
      /\ \A j \in 1..Len(lib) - 1 : next[j] = IF j < k THEN lib[j] ELSE lib[j + 1]
  BY RemovedIsSequence DEF IsLibrary
<1> HIDE DEF next
<1>2. ASSUME NEW j \in 1..Len(lib) - 1
      PROVE  /\ j < k => j \in DOMAIN lib /\ next[j] = lib[j]
             /\ ~(j < k) => j + 1 \in DOMAIN lib /\ next[j] = lib[j + 1]
  BY <1>0, <1>1
<1>3. \A j \in DOMAIN next : IsList(next[j]) /\ next[j].id \in Ids(lib)
  BY <1>1, <1>2 DEF IsLibrary, Ids
<1>4. ASSUME NEW i \in DOMAIN next, NEW j \in DOMAIN next, next[i].id = next[j].id
      PROVE  i = j
  <2>1. \A m, n \in DOMAIN lib : lib[m].id = lib[n].id => m = n
    BY DEF IsLibrary, DistinctIds
  <2>2. i \in 1..Len(lib) - 1 /\ j \in 1..Len(lib) - 1
    BY <1>1, <1>4
  <2>3. CASE i < k /\ j < k
    <3>1. /\ i \in DOMAIN lib /\ next[i] = lib[i]
          /\ j \in DOMAIN lib /\ next[j] = lib[j]
      BY <1>2, <2>2, <2>3
    <3> QED
      BY <1>4, <2>1, <3>1
  <2>4. CASE i < k /\ ~(j < k)
    <3>1. /\ i \in DOMAIN lib /\ next[i] = lib[i]
          /\ j + 1 \in DOMAIN lib /\ next[j] = lib[j + 1]
      BY <1>2, <2>2, <2>4
    <3>2. i = j + 1
      BY <1>4, <2>1, <3>1
    <3> QED
      BY <1>0, <2>2, <2>4, <3>2
  <2>5. CASE ~(i < k) /\ j < k
    <3>1. /\ i + 1 \in DOMAIN lib /\ next[i] = lib[i + 1]
          /\ j \in DOMAIN lib /\ next[j] = lib[j]
      BY <1>2, <2>2, <2>5
    <3>2. i + 1 = j
      BY <1>4, <2>1, <3>1
    <3> QED
      BY <1>0, <2>2, <2>5, <3>2
  <2>6. CASE ~(i < k) /\ ~(j < k)
    <3>1. /\ i + 1 \in DOMAIN lib /\ next[i] = lib[i + 1]
          /\ j + 1 \in DOMAIN lib /\ next[j] = lib[j + 1]
      BY <1>2, <2>2, <2>6
    <3>2. i + 1 = j + 1
      BY <1>4, <2>1, <3>1
    <3> QED
      BY <2>2, <3>2
  <2> QED
    BY <2>3, <2>4, <2>5, <2>6
<1>5. IsLibrary(next)
  BY <1>1, <1>3, <1>4 DEF IsLibrary, DistinctIds
<1>6. Ids(next) \subseteq Ids(lib)
  BY <1>3 DEF Ids
<1> QED
  BY <1>5, <1>6 DEF next

-----------------------------------------------------------------------------
(* What a request makes of a library.                                       *)

IsDeleted(answer) ==
    IsList(answer.playlist) /\ answer.index \in Nat \ {0}

\* The ids an answer, an offer or a request carries.
IdsInAnswer(answer) == IF answer.kind = "deleted" THEN {answer.playlist.id} ELSE {}

\* What an undo of a removal starts from.
IsRemoval(answer) ==
    /\ answer.removed \in Seq(Removal)
    /\ GivenOnce =>
        /\ \A i, j \in DOMAIN answer.removed :
              answer.removed[i].song = answer.removed[j].song => i = j
        /\ \A i \in DOMAIN answer.removed : answer.remaining[answer.removed[i].song] = 0

IsAnswer(answer) ==
    /\ answer.kind = "deleted" => IsDeleted(answer)
    /\ answer.kind \in {"removed", "duplicates"} => IsRemoval(answer)
    /\ answer.kind = "duplicates" => ~GivenOnce

IdsInRequest(request) ==
    CASE request.op = "undelete" -> {request.snapshot.playlist.id}
      [] request.op = "replace" -> Ids(request.lib)
      [] OTHER -> {}

Operations ==
    {"load", "watchLater", "create", "delete", "undelete", "add", "remove", "dedupe", "undo",
     "removeById", "toggle", "reorder", "refresh", "sync", "unlink", "replace"}

Sound(lib, more, result) ==
    /\ result.effect \in {"saves", "keeps", "throws"}
    /\ result.effect # "saves" => result.lib = lib
    /\ result.effect = "throws" => result.answer = Failed
    /\ IsLibrary(result.lib) /\ Ids(result.lib) \subseteq Ids(lib) \cup more
    /\ IsAnswer(result.answer) /\ IdsInAnswer(result.answer) \subseteq Ids(lib)

LEMMA KeepsSound ==
    ASSUME NEW lib, IsLibrary(lib), NEW more, NEW answer, ~IsSnapshot(answer)
    PROVE  Sound(lib, more, Keeps(lib, answer))
BY DEF Sound, Keeps, IsAnswer, IsSnapshot, IdsInAnswer

LEMMA ThrowsSound ==
    ASSUME NEW lib, IsLibrary(lib), NEW more
    PROVE  Sound(lib, more, Throws(lib))
BY DEF Sound, Throws, Failed, IsAnswer, IsSnapshot, IdsInAnswer

LEMMA PlainIsAnswer ==
    ASSUME NEW answer, ~IsSnapshot(answer)
    PROVE  IsAnswer(answer) /\ IdsInAnswer(answer) = {}
BY DEF IsAnswer, IsSnapshot, IdsInAnswer

LEMMA SavesSound ==
    ASSUME NEW lib, NEW more, NEW next, IsLibrary(next),
           Ids(next) \subseteq Ids(lib) \cup more, NEW answer, IsAnswer(answer),
           IdsInAnswer(answer) \subseteq Ids(lib)
    PROVE  Sound(lib, more, Saves(next, answer))
BY DEF Sound, Saves

LEMMA DoneIsPlain ==
    /\ ~IsSnapshot(Done) /\ ~IsSnapshot(Nothing) /\ ~IsSnapshot(Failed)
    /\ IsAnswer(Done) /\ IdsInAnswer(Done) = {}
<1>1. ~IsSnapshot(Done) /\ ~IsSnapshot(Nothing) /\ ~IsSnapshot(Failed)
  BY DEF Done, Nothing, Failed, IsSnapshot
<1> QED
  BY <1>1, PlainIsAnswer

LEMMA EmptySongs == SongsOK(<<>>)
<1>1. <<>> \in Seq(Row) /\ DOMAIN <<>> = {}
  BY EmptySeq
<1> QED
  BY <1>1 DEF SongsOK, Single

LEMMA EmptyListIsList ==
    ASSUME NEW id \in Lists, NEW linked \in BOOLEAN
    PROVE  IsList(EmptyList(id, linked)) /\ EmptyList(id, linked).id = id
BY EmptySongs, ListMade DEF EmptyList

LEMMA WatchLaterSound ==
    ASSUME NEW lib, IsLibrary(lib)
    PROVE  Sound(lib, {WatchLater}, GetOrCreateWatchLater(lib))
<1>1. CASE Has(lib, WatchLater)
  BY <1>1, KeepsSound, DoneIsPlain DEF GetOrCreateWatchLater
<1>2. CASE ~Has(lib, WatchLater)
  <2>1. WatchLater \notin Ids(lib) /\ WatchLater \in Lists
    BY <1>2, HasMeansId, ListsAssumption
  <2>2. IsList(EmptyList(WatchLater, FALSE)) /\ EmptyList(WatchLater, FALSE).id = WatchLater
    BY <2>1, EmptyListIsList
  <2>3. /\ IsLibrary(<<EmptyList(WatchLater, FALSE)>> \o lib)
        /\ Ids(<<EmptyList(WatchLater, FALSE)>> \o lib) = Ids(lib) \cup {WatchLater}
    BY <2>1, <2>2, ListPrepended
  <2> QED
    BY <1>2, <2>3, SavesSound, DoneIsPlain DEF GetOrCreateWatchLater
<1> QED
  BY <1>1, <1>2

LEMMA LoadSound ==
    ASSUME NEW lib, IsLibrary(lib)
    PROVE  Sound(lib, {WatchLater}, LoadPlaylists(lib))
<1>1. CASE \E i \in DOMAIN lib : HasHole(lib[i].songs)
  BY <1>1, ThrowsSound DEF LoadPlaylists
<1>2. CASE ~\E i \in DOMAIN lib : HasHole(lib[i].songs)
  BY <1>2, WatchLaterSound DEF LoadPlaylists
<1> QED
  BY <1>1, <1>2

LEMMA CreateSound ==
    ASSUME NEW lib, IsLibrary(lib), NEW id \in Lists, id \notin Ids(lib),
           NEW linked \in BOOLEAN
    PROVE  Sound(lib, {id}, CreatePlaylist(lib, id, linked))
<1>1. IsList(EmptyList(id, linked)) /\ EmptyList(id, linked).id = id
  BY EmptyListIsList
<1>2. /\ IsLibrary(Append(lib, EmptyList(id, linked)))
      /\ Ids(Append(lib, EmptyList(id, linked))) = Ids(lib) \cup {id}
  BY <1>1, ListAppended
<1> QED
  BY <1>2, SavesSound, DoneIsPlain DEF CreatePlaylist

LEMMA DeleteSound ==
    ASSUME NEW lib, IsLibrary(lib), NEW id, NEW more
    PROVE  Sound(lib, more, DeletePlaylist(lib, id))
<1>1. CASE ~Has(lib, id) \/ id = WatchLater
  BY <1>1, KeepsSound, DoneIsPlain DEF DeletePlaylist
<1>2. CASE Has(lib, id) /\ id # WatchLater
  <2> DEFINE k == PlaceOf(lib, id)
             answer == [kind |-> "deleted", playlist |-> Entry(lib, id),
                        index |-> PlaceOf(lib, id)]
  <2>1. k \in DOMAIN lib /\ lib[k].id = id /\ Entry(lib, id) = lib[k]
    BY <1>2, PlaceFound DEF Entry
  <2>2. k \in Nat \ {0}
    BY <2>1, SequenceDomain DEF IsLibrary
  <2>3. IsLibrary(RemoveAt(lib, k)) /\ Ids(RemoveAt(lib, k)) \subseteq Ids(lib)
    BY <2>1, ListRemoved
  <2>4. IsList(Entry(lib, id)) /\ Entry(lib, id).id \in Ids(lib)
    BY <2>1 DEF IsLibrary, Ids
  <2>5. answer.kind = "deleted" /\ answer.playlist = Entry(lib, id) /\ answer.index = k
    OBVIOUS
  <2>6. DeletePlaylist(lib, id) = Saves(RemoveAt(lib, k), answer)
    BY <1>2 DEF DeletePlaylist
  <2> HIDE DEF answer, k
  <2>7. IsAnswer(answer) /\ IdsInAnswer(answer) \subseteq Ids(lib)
    BY <2>2, <2>4, <2>5 DEF IsAnswer, IsDeleted, IdsInAnswer
  <2> QED
    BY <2>3, <2>6, <2>7 DEF Sound, Saves
<1> QED
  BY <1>1, <1>2

LEMMA UndeleteSound ==
    ASSUME NEW lib, IsLibrary(lib), NEW deleted, IsDeleted(deleted)
    PROVE  Sound(lib, {deleted.playlist.id}, RestoreDeletedPlaylist(lib, deleted))
<1>1. CASE Has(lib, deleted.playlist.id)
  BY <1>1, KeepsSound, DoneIsPlain DEF RestoreDeletedPlaylist
<1>2. CASE ~Has(lib, deleted.playlist.id)
  <2> DEFINE k == AtMost(deleted.index, Len(lib) + 1)
  <2>1. Len(lib) \in Nat
    BY SequenceDomain DEF IsLibrary
  <2>2. k \in 1..Len(lib) + 1
    BY <2>1 DEF AtMost, IsDeleted
  <2>3. IsList(deleted.playlist) /\ deleted.playlist.id \notin Ids(lib)
    BY <1>2, HasMeansId DEF IsDeleted
  <2> HIDE DEF k
  <2>4. /\ IsLibrary(InsertAt(lib, k, deleted.playlist))
        /\ Ids(InsertAt(lib, k, deleted.playlist)) = Ids(lib) \cup {deleted.playlist.id}
    BY <2>2, <2>3, ListInserted
  <2> QED
    BY <1>2, <2>4, SavesSound, DoneIsPlain DEF RestoreDeletedPlaylist, k
<1> QED
  BY <1>1, <1>2

LEMMA AddSound ==
    ASSUME NEW lib, IsLibrary(lib), NEW id, NEW songs \in Seq(Songs), NEW more
    PROVE  Sound(lib, more, AddSongs(lib, id, songs))
<1> DEFINE old == SongsOf(lib, id)
           new == NewSongs(songs, old)
           next == WithSongs(lib, id, old \o new)
<1>1. Editable(lib, id) => SongsOK(old \o new)
  BY SongsFound, AddedSingle DEF Editable, SongsOK
<1>2. \/ AddSongs(lib, id, songs) = Keeps(lib, Nothing)
      \/ AddSongs(lib, id, songs) = Throws(lib)
      \/ AddSongs(lib, id, songs) = Keeps(lib, Done)
      \/ AddSongs(lib, id, songs) = Saves(next, Done)
  BY DEF AddSongs
<1> HIDE DEF old, new
<1>3. IsLibrary(next) /\ Ids(next) = Ids(lib)
  BY <1>1, WithSongsIsLibrary
<1> HIDE DEF next
<1> QED
  BY <1>2, <1>3, KeepsSound, ThrowsSound, SavesSound, DoneIsPlain

\* What removeSongs removes, and the snapshot it answers.
LEMMA RemoveSaves ==
    ASSUME NEW lib, IsLibrary(lib), NEW id, NEW rows,
           RemoveSongs(lib, id, rows).effect = "saves"
    PROVE  \E next, removed, remaining :
              /\ RemoveSongs(lib, id, rows)
                 = Saves(next, [kind |-> "removed", list |-> id, removed |-> removed,
                                remaining |-> remaining])
              /\ IsLibrary(next) /\ Ids(next) = Ids(lib)
              /\ \A kind : IsRemoval([kind |-> kind, list |-> id, removed |-> removed,
                                      remaining |-> remaining])
<1> DEFINE old == SongsOf(lib, id)
           gone == rows \cap DOMAIN old
           order == Ascending(gone)
           stay == RowsAt(old, DOMAIN old \ gone)
           next == WithSongs(lib, id, stay)
           removed == [k \in DOMAIN order |-> [song |-> old[order[k]], index |-> order[k]]]
           remaining == [s \in Songs |-> Copies(s, stay)]
           answer == [kind |-> "removed", list |-> id, removed |-> removed,
                      remaining |-> remaining]
<1>1. /\ Editable(lib, id) /\ ~HasHole(old)
      /\ RemoveSongs(lib, id, rows) = Saves(next, answer)
  BY DEF RemoveSongs, Keeps, Throws
<1>2. /\ old \in Seq(Row) /\ (GivenOnce => Single(old)) /\ removed = RemovedFrom(old, gone)
      /\ gone \in SUBSET DOMAIN old /\ DOMAIN old \ gone \in SUBSET DOMAIN old
  BY <1>1, SongsFound DEF Editable, SongsOK, RemovedFrom
<1> HIDE DEF old, gone, removed
<1>3. SongsOK(stay)
  BY <1>2, SomeRowsSingle DEF SongsOK
<1>4. /\ removed \in Seq(Removal)
      /\ GivenOnce => /\ \A i, j \in DOMAIN removed : removed[i].song = removed[j].song => i = j
                      /\ \A i \in DOMAIN removed : Copies(removed[i].song, stay) = 0
  BY <1>1, <1>2, RemovedSnapshot
<1> HIDE DEF stay
<1>5. IsLibrary(next) /\ Ids(next) = Ids(lib)
  BY <1>3, WithSongsIsLibrary
<1>6. \A i \in DOMAIN removed : /\ removed[i].song \in Songs
                                /\ remaining[removed[i].song] = Copies(removed[i].song, stay)
  <2>1. \A i \in DOMAIN removed : removed[i] \in Removal
    BY <1>4, ElementOfSeq
  <2>2. \A i \in DOMAIN removed : removed[i].song \in Songs
    BY <2>1 DEF Removal
  <2> QED
    BY <2>2
<1> HIDE DEF next, remaining
<1>7. ASSUME NEW kind
      PROVE  IsRemoval([kind |-> kind, list |-> id, removed |-> removed,
                        remaining |-> remaining])
  BY <1>4, <1>6 DEF IsRemoval
<1> QED
  BY <1>1, <1>5, <1>7

LEMMA RemoveCases ==
    ASSUME NEW lib, NEW id, NEW rows
    PROVE  \/ RemoveSongs(lib, id, rows) = Keeps(lib, Nothing)
           \/ RemoveSongs(lib, id, rows) = Throws(lib)
           \/ RemoveSongs(lib, id, rows).effect = "saves"
BY DEF RemoveSongs, Saves

LEMMA RemoveSound ==
    ASSUME NEW lib, IsLibrary(lib), NEW id, NEW rows, NEW more
    PROVE  /\ Sound(lib, more, RemoveSongs(lib, id, rows))
           /\ ~GivenOnce /\ RemoveSongs(lib, id, rows).effect = "saves"
              => Sound(lib, more, [RemoveSongs(lib, id, rows) EXCEPT !.answer.kind = "duplicates"])
<1>1. CASE RemoveSongs(lib, id, rows) = Keeps(lib, Nothing)
  BY <1>1, KeepsSound, DoneIsPlain DEF Keeps
<1>2. CASE RemoveSongs(lib, id, rows) = Throws(lib)
  BY <1>2, ThrowsSound DEF Throws
<1>3. CASE RemoveSongs(lib, id, rows).effect = "saves"
  <2>1. PICK next, removed, remaining :
            /\ RemoveSongs(lib, id, rows)
               = Saves(next, [kind |-> "removed", list |-> id, removed |-> removed,
                              remaining |-> remaining])
            /\ IsLibrary(next) /\ Ids(next) = Ids(lib)
            /\ \A kind : IsRemoval([kind |-> kind, list |-> id, removed |-> removed,
                                    remaining |-> remaining])
    BY <1>3, RemoveSaves
  <2> DEFINE answer(kind) == [kind |-> kind, list |-> id, removed |-> removed,
                              remaining |-> remaining]
  <2>2. answer("removed").kind = "removed" /\ answer("duplicates").kind = "duplicates"
    OBVIOUS
  <2>3. [Saves(next, answer("removed")) EXCEPT !.answer.kind = "duplicates"]
        = Saves(next, answer("duplicates"))
    BY DEF Saves
  <2>4. IsRemoval(answer("removed")) /\ IsRemoval(answer("duplicates"))
    BY <2>1
  <2>5. RemoveSongs(lib, id, rows) = Saves(next, answer("removed"))
    BY <2>1
  <2> HIDE DEF answer
  <2>6. IsAnswer(answer("removed")) /\ IdsInAnswer(answer("removed")) = {}
    BY <2>2, <2>4 DEF IsAnswer, IdsInAnswer
  <2>7. /\ ~GivenOnce => IsAnswer(answer("duplicates"))
        /\ IdsInAnswer(answer("duplicates")) = {}
    BY <2>2, <2>4 DEF IsAnswer, IdsInAnswer
  <2> QED
    <3>1. Sound(lib, more, Saves(next, answer("removed")))
      BY <2>1, <2>6, SavesSound
    <3>2. ~GivenOnce => Sound(lib, more, Saves(next, answer("duplicates")))
      BY <2>1, <2>7, SavesSound
    <3> QED
      BY <2>3, <2>5, <3>1, <3>2
<1> QED
  BY <1>1, <1>2, <1>3, RemoveCases

LEMMA DedupeSound ==
    ASSUME NEW lib, IsLibrary(lib), NEW id, NEW more
    PROVE  Sound(lib, more, RemoveDuplicateSongs(lib, id))
<1> DEFINE old == SongsOf(lib, id)
           rows == {i \in DOMAIN old : \E j \in 1..(i - 1) : old[j] = old[i]}
           removal == RemoveSongs(lib, id, rows)
<1>1. \/ RemoveDuplicateSongs(lib, id) = Keeps(lib, Nothing)
      \/ RemoveDuplicateSongs(lib, id) = Throws(lib)
      \/ Has(lib, id) /\ ~HasHole(old) /\ removal.effect = "keeps"
         /\ RemoveDuplicateSongs(lib, id) = removal
      \/ /\ Has(lib, id) /\ ~HasHole(old) /\ removal.effect # "keeps"
         /\ RemoveDuplicateSongs(lib, id) = [removal EXCEPT !.answer.kind = "duplicates"]
  BY DEF RemoveDuplicateSongs
\* A list without doubles keeps all its rows.
<1>2. Has(lib, id) /\ ~HasHole(old) /\ removal.effect # "keeps"
      => removal.effect = "saves" /\ ~GivenOnce
  <2>1. SUFFICES ASSUME Has(lib, id), ~HasHole(old), removal.effect # "keeps"
                 PROVE  removal.effect = "saves" /\ ~GivenOnce
    OBVIOUS
  <2>2. removal.effect = "saves" /\ rows \cap DOMAIN old # {}
    BY <2>1 DEF RemoveSongs, Keeps, Saves
  <2>3. PICK i \in DOMAIN old : \E j \in 1..(i - 1) : old[j] = old[i]
    BY <2>2
  <2>4. PICK j \in 1..(i - 1) : old[j] = old[i]
    BY <2>3
  <2>5. /\ old \in Seq(Row) /\ (GivenOnce => Single(old))
        /\ DOMAIN old = 1..Len(old) /\ Len(old) \in Nat
    BY <2>1, SongsFound, LenProperties DEF SongsOK
  <2> HIDE DEF old, rows, removal
  <2>6. old[i] \in Songs
    BY <2>1, <2>5, ElementOfSeq DEF HasHole, Row
  <2>7. j \in DOMAIN old /\ j # i
    BY <2>3, <2>4, <2>5
  <2> QED
    BY <2>2, <2>4, <2>5, <2>6, <2>7 DEF Single
<1>3. /\ Sound(lib, more, removal)
      /\ ~GivenOnce /\ removal.effect = "saves"
         => Sound(lib, more, [removal EXCEPT !.answer.kind = "duplicates"])
  BY RemoveSound
<1> HIDE DEF removal, old
<1> QED
  BY <1>1, <1>2, <1>3, KeepsSound, ThrowsSound, DoneIsPlain

LEMMA UndoSound ==
    ASSUME NEW lib, IsLibrary(lib), NEW snapshot, IsRemoval(snapshot), NEW allowed,
           GivenOnce => allowed = FALSE, NEW more
    PROVE  Sound(lib, more, RestoreRemovedSongs(lib, snapshot, allowed))
<1> DEFINE old == SongsOf(lib, snapshot.list)
           back == Returning(snapshot, old, allowed)
           songs == PutAllBack(old, RowsAt(snapshot.removed, back))
           next == WithSongs(lib, snapshot.list, songs)
<1>1. Editable(lib, snapshot.list) => old \in Seq(Row) /\ (GivenOnce => Single(old))
  BY SongsFound DEF Editable, SongsOK
<1>2. \/ RestoreRemovedSongs(lib, snapshot, allowed) = Keeps(lib, Nothing)
      \/ RestoreRemovedSongs(lib, snapshot, allowed) = Throws(lib)
      \/ RestoreRemovedSongs(lib, snapshot, allowed) = Saves(next, Done)
  BY DEF RestoreRemovedSongs
<1> HIDE DEF old
<1>3. Editable(lib, snapshot.list) => SongsOK(songs)
  BY <1>1, RestoredSingle DEF IsRemoval, SongsOK
<1> HIDE DEF songs
<1>4. IsLibrary(next) /\ Ids(next) = Ids(lib)
  BY <1>3, WithSongsIsLibrary
<1> HIDE DEF next
<1> QED
  BY <1>2, <1>4, KeepsSound, ThrowsSound, SavesSound, DoneIsPlain

LEMMA RemoveByIdSound ==
    ASSUME NEW lib, IsLibrary(lib), NEW id, NEW song, NEW more
    PROVE  Sound(lib, more, RemoveSongById(lib, id, song))
<1> DEFINE old == SongsOf(lib, id)
           rows == {i \in DOMAIN old : old[i] # song}
           next == WithSongs(lib, id, RowsAt(old, rows))
<1>1. Editable(lib, id) => SongsOK(RowsAt(old, rows))
  <2>1. Editable(lib, id) => old \in Seq(Row) /\ SongsOK(old)
    BY SongsFound DEF Editable
  <2>2. rows \in SUBSET DOMAIN old
    OBVIOUS
  <2> HIDE DEF rows, old
  <2> QED
    BY <2>1, <2>2, SomeRowsSingle DEF SongsOK
<1>2. \/ RemoveSongById(lib, id, song) = Throws(lib)
      \/ RemoveSongById(lib, id, song) = Saves(next, Done)
      \/ RemoveSongById(lib, id, song) = Saves(lib, Done)
  BY DEF RemoveSongById
<1> HIDE DEF rows, old
<1>3. IsLibrary(next) /\ Ids(next) = Ids(lib)
  BY <1>1, WithSongsIsLibrary
<1> HIDE DEF next
<1> QED
  BY <1>2, <1>3, ThrowsSound, SavesSound, DoneIsPlain

LEMMA ToggleSound ==
    ASSUME NEW lib, IsLibrary(lib), NEW id, NEW song \in Songs, NEW more
    PROVE  Sound(lib, more, ToggleSongInPlaylist(lib, id, song))
<1>1. \/ ToggleSongInPlaylist(lib, id, song) = Keeps(lib, Nothing)
      \/ ToggleSongInPlaylist(lib, id, song) = Throws(lib)
      \/ ToggleSongInPlaylist(lib, id, song) = RemoveSongById(lib, id, song)
      \/ ToggleSongInPlaylist(lib, id, song) = AddSongs(lib, id, <<song>>)
  BY DEF ToggleSongInPlaylist
<1>2. <<song>> \in Seq(Songs)
  OBVIOUS
<1> QED
  BY <1>1, <1>2, KeepsSound, ThrowsSound, RemoveByIdSound, AddSound, DoneIsPlain

LEMMA ReorderSound ==
    ASSUME NEW lib, IsLibrary(lib), NEW id, NEW from \in Nat \ {0}, NEW to \in Nat \ {0}, NEW more
    PROVE  Sound(lib, more, ReorderSongs(lib, id, from, to))
<1> DEFINE next == WithSongs(lib, id, Moved(SongsOf(lib, id), from, to))
<1>1. Editable(lib, id) => SongsOK(Moved(SongsOf(lib, id), from, to))
  BY SongsFound, MovedSingle DEF Editable, SongsOK
<1>2. IsLibrary(next) /\ Ids(next) = Ids(lib)
  BY <1>1, WithSongsIsLibrary
<1>3. \/ ReorderSongs(lib, id, from, to) = Saves(next, Done)
      \/ ReorderSongs(lib, id, from, to) = Saves(lib, Done)
  BY DEF ReorderSongs
<1> HIDE DEF next
<1> QED
  BY <1>2, <1>3, SavesSound, DoneIsPlain

LEMMA RefreshSound ==
    ASSUME NEW lib, IsLibrary(lib), NEW id, NEW songs, SongsOK(songs), NEW more
    PROVE  Sound(lib, more, ReplacePlaylistSongs(lib, id, songs))
BY WithSongsIsLibrary, SavesSound, DoneIsPlain DEF ReplacePlaylistSongs

LEMMA SyncSound ==
    ASSUME NEW lib, IsLibrary(lib), NEW id, NEW songs, SongsOK(songs), NEW more
    PROVE  Sound(lib, more, ApplySync(lib, id, songs))
<1>1. CASE ~Has(lib, id) \/ ~Entry(lib, id).linked
  BY <1>1, KeepsSound, DoneIsPlain DEF ApplySync
<1>2. CASE Has(lib, id) /\ Entry(lib, id).linked
  <2>1. PlaceOf(lib, id) \in DOMAIN lib
    BY <1>2, PlaceFound
  <2>2. /\ IsLibrary([lib EXCEPT ![PlaceOf(lib, id)].songs = songs])
        /\ Ids([lib EXCEPT ![PlaceOf(lib, id)].songs = songs]) = Ids(lib)
    BY <2>1, SongsReplaced
  <2> QED
    BY <1>2, <2>2, SavesSound, DoneIsPlain DEF ApplySync
<1> QED
  BY <1>1, <1>2

LEMMA UnlinkSound ==
    ASSUME NEW lib, IsLibrary(lib), NEW id, NEW more
    PROVE  Sound(lib, more, UnlinkSync(lib, id))
<1>1. CASE ~Has(lib, id) \/ ~Entry(lib, id).linked
  BY <1>1, KeepsSound, DoneIsPlain DEF UnlinkSync
<1>2. CASE Has(lib, id) /\ Entry(lib, id).linked
  <2>1. PlaceOf(lib, id) \in DOMAIN lib
    BY <1>2, PlaceFound
  <2>2. /\ IsLibrary([lib EXCEPT ![PlaceOf(lib, id)].linked = FALSE])
        /\ Ids([lib EXCEPT ![PlaceOf(lib, id)].linked = FALSE]) = Ids(lib)
    BY <2>1, LinkReplaced
  <2> QED
    BY <1>2, <2>2, SavesSound, DoneIsPlain DEF UnlinkSync
<1> QED
  BY <1>1, <1>2

LEMMA SoundWidens ==
    ASSUME NEW lib, NEW more, NEW wider, more \subseteq wider, NEW result,
           Sound(lib, more, result)
    PROVE  Sound(lib, wider, result)
BY DEF Sound

\* A request that can be carried out.
IsRequest(request) ==
    /\ request.op \in Operations
    /\ request.op = "create" => request.list \in Lists /\ request.linked \in BOOLEAN
    /\ request.op = "undelete" => IsDeleted(request.snapshot)
    /\ request.op = "add" => request.songs \in Seq(Songs)
    /\ request.op = "undo" => IsRemoval(request.snapshot)
                             /\ (GivenOnce => request.allowDuplicateIds = FALSE)
    /\ request.op = "toggle" => request.song \in Songs
    /\ request.op = "reorder" => request.from \in Nat \ {0} /\ request.to \in Nat \ {0}
    /\ request.op \in {"refresh", "sync"} => SongsOK(request.songs)
    /\ request.op = "replace" => IsLibrary(request.lib)

CreatedBy(request) == IF request.op = "create" THEN {request.list} ELSE {}

Brought(request) == IdsInRequest(request) \cup CreatedBy(request) \cup {WatchLater}

\* Every request finds a library and leaves one, or leaves the one it found.
LEMMA OutcomeSound ==
    ASSUME NEW lib, IsLibrary(lib), NEW request, IsRequest(request),
           CreatedBy(request) \cap Ids(lib) = {}
    PROVE  Sound(lib, Brought(request), Outcome(lib, request))
<1> DEFINE more == Brought(request)
<1>w. {WatchLater} \subseteq more
  BY DEF Brought
<1>1. CASE request.op = "load"
  <2>1. Outcome(lib, request) = LoadPlaylists(lib)
    BY <1>1 DEF Outcome
  <2> QED
    BY <1>w, <2>1, LoadSound, SoundWidens
<1>2. CASE request.op = "watchLater"
  <2>1. Outcome(lib, request) = GetOrCreateWatchLater(lib)
    BY <1>2 DEF Outcome
  <2> QED
    BY <1>w, <2>1, WatchLaterSound, SoundWidens
<1>3. CASE request.op = "create"
  <2>1. Outcome(lib, request) = CreatePlaylist(lib, request.list, request.linked)
    BY <1>3 DEF Outcome
  <2>2. /\ request.list \in Lists /\ request.linked \in BOOLEAN
        /\ {request.list} \subseteq more /\ request.list \notin Ids(lib)
    BY <1>3 DEF IsRequest, Brought, CreatedBy
  <2>3. Sound(lib, {request.list}, CreatePlaylist(lib, request.list, request.linked))
    BY <2>2, CreateSound
  <2> QED
    BY <2>1, <2>2, <2>3, SoundWidens
<1>4. CASE request.op = "delete"
  <2>1. Outcome(lib, request) = DeletePlaylist(lib, request.list)
    BY <1>4 DEF Outcome
  <2> QED
    BY <2>1, DeleteSound
<1>5. CASE request.op = "undelete"
  <2>1. Outcome(lib, request) = RestoreDeletedPlaylist(lib, request.snapshot)
    BY <1>5 DEF Outcome
  <2>2. IsDeleted(request.snapshot) /\ {request.snapshot.playlist.id} \subseteq more
    BY <1>5 DEF IsRequest, Brought, IdsInRequest
  <2>3. Sound(lib, {request.snapshot.playlist.id}, RestoreDeletedPlaylist(lib, request.snapshot))
    BY <2>2, UndeleteSound
  <2> QED
    BY <2>1, <2>2, <2>3, SoundWidens
<1>6. CASE request.op = "add"
  <2>1. Outcome(lib, request) = AddSongs(lib, request.list, request.songs)
    BY <1>6 DEF Outcome
  <2> QED
    BY <1>6, <2>1, AddSound DEF IsRequest
<1>7. CASE request.op = "remove"
  <2>1. Outcome(lib, request) = RemoveSongs(lib, request.list, request.rows)
    BY <1>7 DEF Outcome
  <2> QED
    BY <2>1, RemoveSound
<1>8. CASE request.op = "dedupe"
  <2>1. Outcome(lib, request) = RemoveDuplicateSongs(lib, request.list)
    BY <1>8 DEF Outcome
  <2> QED
    BY <2>1, DedupeSound
<1>9. CASE request.op = "undo"
  <2>1. Outcome(lib, request)
        = RestoreRemovedSongs(lib, request.snapshot, request.allowDuplicateIds)
    BY <1>9 DEF Outcome
  <2> QED
    BY <1>9, <2>1, UndoSound DEF IsRequest
<1>10. CASE request.op = "removeById"
  <2>1. Outcome(lib, request) = RemoveSongById(lib, request.list, request.song)
    BY <1>10 DEF Outcome
  <2> QED
    BY <2>1, RemoveByIdSound
<1>11. CASE request.op = "toggle"
  <2>1. Outcome(lib, request) = ToggleSongInPlaylist(lib, request.list, request.song)
    BY <1>11 DEF Outcome
  <2> QED
    BY <1>11, <2>1, ToggleSound DEF IsRequest
<1>12. CASE request.op = "reorder"
  <2>1. Outcome(lib, request) = ReorderSongs(lib, request.list, request.from, request.to)
    BY <1>12 DEF Outcome
  <2> QED
    BY <1>12, <2>1, ReorderSound DEF IsRequest
<1>13. CASE request.op = "refresh"
  <2>1. Outcome(lib, request) = ReplacePlaylistSongs(lib, request.list, request.songs)
    BY <1>13 DEF Outcome
  <2> QED
    BY <1>13, <2>1, RefreshSound DEF IsRequest
<1>14. CASE request.op = "sync"
  <2>1. Outcome(lib, request) = ApplySync(lib, request.list, request.songs)
    BY <1>14 DEF Outcome
  <2> QED
    BY <1>14, <2>1, SyncSound DEF IsRequest
<1>15. CASE request.op = "unlink"
  <2>1. Outcome(lib, request) = UnlinkSync(lib, request.list)
    BY <1>15 DEF Outcome
  <2> QED
    BY <2>1, UnlinkSound
<1>16. CASE request.op = "replace"
  <2>1. Outcome(lib, request) = Saves(request.lib, Done)
    BY <1>16 DEF Outcome
  <2>2. IsLibrary(request.lib) /\ Ids(request.lib) \subseteq Ids(lib) \cup more
    BY <1>16 DEF IsRequest, Brought, IdsInRequest
  <2> QED
    BY <2>1, <2>2, SavesSound, DoneIsPlain
<1> QED
  BY <1>1, <1>2, <1>3, <1>4, <1>5, <1>6, <1>7, <1>8, <1>9, <1>10, <1>11, <1>12, <1>13,
     <1>14, <1>15, <1>16 DEF IsRequest, Operations

\* The action of a tab adds only that a replacement may be refused.
LEMMA EffectSound ==
    ASSUME NEW lib, IsLibrary(lib), NEW request, IsRequest(request),
           CreatedBy(request) \cap Ids(lib) = {}, NEW revision
    PROVE  /\ Sound(lib, Brought(request), Effect(lib, revision, request))
           /\ Effect(lib, revision, request).effect # "throws"
              => /\ Effect(lib, revision, request) = Outcome(lib, request)
                 /\ request.op = "replace" => request.expected = revision
<1>1. CASE request.op = "replace" /\ request.expected # revision
  <2>1. Effect(lib, revision, request) = Throws(lib) /\ Throws(lib).effect = "throws"
    BY <1>1 DEF Effect, Throws
  <2> QED
    BY <2>1, ThrowsSound
<1>2. CASE ~(request.op = "replace" /\ request.expected # revision)
  <2>1. Effect(lib, revision, request) = Outcome(lib, request)
    BY <1>2 DEF Effect
  <2> QED
    BY <1>2, <2>1, OutcomeSound
<1> QED
  BY <1>1, <1>2

-----------------------------------------------------------------------------
(* The database.  Its notions are stated of values of meta and records.     *)

Saved(m, rs) == [i \in DOMAIN m.ids |-> rs[m.ids[i]]]
RevisionOf(m) == IF m = NoMeta THEN NoRevision ELSE m.revision
NamesIn(m) == IF m = NoMeta THEN {} ELSE ToSet(m.ids)

DatabaseOK(m, rs) ==
    /\ m = NoMeta => rs = <<>>
    /\ m # NoMeta =>
        /\ m \in [revision : Nat \ {0}, ids : Seq(Lists)]
        /\ \A i, j \in DOMAIN m.ids : m.ids[i] = m.ids[j] => i = j
        /\ DOMAIN rs = ToSet(m.ids)
        /\ \A id \in DOMAIN rs : IsList(rs[id]) /\ rs[id].id = id

LEMMA SavedIsSaved == SavedLibrary = Saved(meta, records) /\ Revision = RevisionOf(meta)
BY DEF SavedLibrary, Saved, Revision, RevisionOf

LEMMA SavedIsLibrary ==
    ASSUME NEW m, NEW rs, DatabaseOK(m, rs), m # NoMeta
    PROVE  /\ IsLibrary(Saved(m, rs)) /\ Ids(Saved(m, rs)) = NamesIn(m)
           /\ DOMAIN Saved(m, rs) = DOMAIN m.ids
           /\ \A i \in DOMAIN m.ids : m.ids[i] \in DOMAIN rs
           /\ \A i \in DOMAIN m.ids : Saved(m, rs)[i] = rs[m.ids[i]]
                                      /\ Saved(m, rs)[i].id = m.ids[i]
<1>1. m.ids \in Seq(Lists) /\ m.ids \in [1..Len(m.ids) -> Lists] /\ Len(m.ids) \in Nat
      /\ DOMAIN m.ids = 1..Len(m.ids)
  BY LenProperties DEF DatabaseOK
<1>2. \A i \in DOMAIN m.ids : m.ids[i] \in DOMAIN rs
  BY DEF DatabaseOK, ToSet
<1>3. \A i \in DOMAIN m.ids : rs[m.ids[i]].id = m.ids[i] /\ IsList(rs[m.ids[i]])
  BY <1>2 DEF DatabaseOK
<1>4. /\ DOMAIN Saved(m, rs) = DOMAIN m.ids
      /\ \A i \in DOMAIN m.ids : Saved(m, rs)[i] = rs[m.ids[i]]
  BY DEF Saved
<1>5. IsSequence(Saved(m, rs))
  <2>1. Saved(m, rs) \in [1..Len(m.ids) -> ToSet(Saved(m, rs))]
    BY <1>1 DEF Saved, ToSet
  <2> QED
    BY <1>1, <2>1, FunctionIsSeq, SequenceOf
<1>6. DistinctIds(Saved(m, rs))
  BY <1>3, <1>4 DEF DatabaseOK, DistinctIds
<1>7. IsLibrary(Saved(m, rs))
  BY <1>3, <1>4, <1>5, <1>6 DEF IsLibrary
<1>8. Ids(Saved(m, rs)) = NamesIn(m)
  BY <1>3, <1>4 DEF Ids, NamesIn, ToSet
<1> QED
  BY <1>2, <1>3, <1>4, <1>7, <1>8

\* The write of the differences to the library the database holds saves the
\* next library, whole (writePlaylistSnapshot).
LEMMA DeltaSaves ==
    ASSUME NEW before, NEW next, NEW revision \in Nat \ {0},
           DatabaseOK(meta, records), IsLibrary(next),
           \/ meta = NoMeta /\ before = <<>>
           \/ meta # NoMeta /\ before = Saved(meta, records),
           WriteDelta(next, before, revision)
    PROVE  /\ DatabaseOK(meta', records')
           /\ meta' # NoMeta /\ meta'.revision = revision
           /\ Saved(meta', records') = next /\ NamesIn(meta') = Ids(next)
<1> DEFINE changed == {i \in DOMAIN next : ~\E j \in DOMAIN before : before[j] = next[i]}
           dropped == Ids(before) \ Ids(next)
           puts == {next[i].id : i \in changed}
           ids == [i \in DOMAIN next |-> next[i].id]
<1>0. Len(next) \in Nat /\ DOMAIN next = 1..Len(next) /\ IsSequence(next)
  BY SequenceDomain DEF IsLibrary
<1>1. /\ records' = [id \in (DOMAIN records \cup puts) \ dropped |->
                        IF id \in puts THEN Entry(next, id) ELSE records[id]]
      /\ meta' = [revision |-> revision, ids |-> ids]
  BY DEF WriteDelta
<1>2. \A i \in DOMAIN next : next[i].id \in Lists
  BY ListFields DEF IsLibrary
<1>3. ids \in Seq(Lists) /\ DOMAIN ids = DOMAIN next
  <2>1. ids \in [1..Len(next) -> Lists]
    BY <1>0, <1>2
  <2> HIDE DEF ids
  <2>2. ids \in Seq(Lists)
    BY <1>0, <2>1, FunctionIsSeq
  <2> QED
    BY <1>0, <2>1, <2>2
<1>4. ToSet(ids) = Ids(next)
  BY DEF ToSet, Ids
<1>5. meta' # NoMeta /\ meta'.revision = revision /\ meta'.ids = ids
  <2>1. [revision |-> revision, ids |-> ids] \in [revision : Nat, ids : Seq(Lists)]
    BY <1>3
  <2>2. [revision |-> revision, ids |-> ids] # NoMeta
    BY <2>1, LibrariesAssumption
  <2> QED
    BY <1>1, <2>2
\* What was there: the lists of before, each under its id.
<1>6. /\ DOMAIN records = Ids(before)
      /\ \A j \in DOMAIN before : records[before[j].id] = before[j]
  <2>1. CASE meta = NoMeta
    BY <2>1, EmptyLibrary DEF DatabaseOK, Ids
  <2>2. CASE meta # NoMeta
    BY <2>2, SavedIsLibrary DEF DatabaseOK, NamesIn
  <2> QED
    BY <2>1, <2>2
\* What is there afterwards.
<1>7. DOMAIN records' = Ids(next)
  <2>1. puts \subseteq Ids(next)
    BY DEF Ids
  <2>2. ASSUME NEW i \in DOMAIN next, next[i].id \notin puts
        PROVE  next[i].id \in DOMAIN records
    BY <1>6, <2>2 DEF Ids
  <2>3. Ids(next) \subseteq DOMAIN records \cup puts
    BY <2>2 DEF Ids
  <2>4. DOMAIN records' = (DOMAIN records \cup puts) \ dropped
    BY <1>1
  <2> HIDE DEF puts
  <2> QED
    BY <1>6, <2>1, <2>3, <2>4
<1>8. ASSUME NEW i \in DOMAIN next
      PROVE  records'[next[i].id] = next[i]
  <2>1. next[i].id \in DOMAIN records'
    BY <1>7 DEF Ids
  <2>2. CASE next[i].id \in puts
    <3>1. records'[next[i].id] = Entry(next, next[i].id)
      BY <1>1, <2>1, <2>2
    <3> QED
      BY <3>1, EntryFound
  <2>3. CASE next[i].id \notin puts
    <3>1. records'[next[i].id] = records[next[i].id]
      BY <1>1, <2>1, <2>3
    <3>2. PICK j \in DOMAIN before : before[j] = next[i]
      BY <2>3
    <3> QED
      BY <1>6, <3>1, <3>2
  <2> QED
    BY <2>2, <2>3
<1> HIDE DEF changed, dropped, puts
<1>9. \A i, j \in DOMAIN ids : ids[i] = ids[j] => i = j
  BY DEF IsLibrary, DistinctIds
<1>10. \A id \in DOMAIN records' : IsList(records'[id]) /\ records'[id].id = id
  BY <1>7, <1>8 DEF Ids, IsLibrary
<1>11. meta' \in [revision : Nat \ {0}, ids : Seq(Lists)]
  BY <1>1, <1>3
<1>12. DatabaseOK(meta', records')
  BY <1>4, <1>5, <1>7, <1>9, <1>10, <1>11 DEF DatabaseOK
<1>13. NamesIn(meta') = Ids(next)
  BY <1>4, <1>5 DEF NamesIn
<1>14. Saved(meta', records') = next
  <2>1. IsSequence(Saved(meta', records'))
    BY <1>5, <1>12, SavedIsLibrary DEF IsLibrary
  <2>2. DOMAIN Saved(meta', records') = DOMAIN next
    BY <1>3, <1>5 DEF Saved
  <2>3. \A i \in DOMAIN next : Saved(meta', records')[i] = next[i]
    BY <1>3, <1>5, <1>8 DEF Saved
  <2> QED
    BY <1>0, <2>1, <2>2, <2>3, SameSequence
<1> QED
  BY <1>5, <1>12, <1>13, <1>14

-----------------------------------------------------------------------------
(* The inductive invariant.  A tab is described by the values it holds:     *)
(* mem, kn, hy, q, ph, w, of stand for its memory, known, hydrated,         *)
(* requests, phase, work and offer.                                         *)

\* A copy taken at a revision: while this one is current, it is the library.
AsOf(m, rs, lib, revision) ==
    /\ revision \in Nat /\ revision <= RevisionOf(m)
    /\ m # NoMeta /\ revision = m.revision => lib = Saved(m, rs)

\* A restored backup was prepared on such a copy.
Prepared(m, rs, request) ==
    request.op = "replace" => AsOf(m, rs, request.seen, request.expected)

\* A positional request made when nothing was ahead of it stays the first of its
\* tab, whose copy is the one it was made on.
Prompt(mem, hy, request, place) ==
    request.op \in Positional /\ request.ahead = {} =>
        place = 1 /\ hy = TRUE /\ request.seen = SongsOf(mem, request.list)

QueueOK(m, rs, mem, hy, q) ==
    /\ IsSequence(q)
    /\ \A i \in DOMAIN q : IsRequest(q[i]) /\ Prepared(m, rs, q[i]) /\ Prompt(mem, hy, q[i], i)

IsWork(w) ==
    /\ w = [lib |-> w.lib, answer |-> w.answer, copied |-> w.copied, revision |-> w.revision]
    /\ IsLibrary(w.lib) /\ IsAnswer(w.answer)

\* What is written is what the action makes of the copy.
Makes(mem, kn, request, w) ==
    /\ Effect(mem, kn, request).effect = "saves"
    /\ w.lib = Effect(mem, kn, request).lib
    /\ w.answer = Effect(mem, kn, request).answer

PhaseOK(m, rs, ar, mem, kn, q, ph, w) ==
    /\ ph \in {"idle", "migrating", "verifying", "writing", "publishing"}
    /\ ph # "idle" => q # <<>>
    /\ ph = "migrating" => w.lib = LibraryIn(w.copied)
    /\ ph = "verifying" => m # NoMeta /\ w.copied \in ar
    /\ ph = "writing" => kn # NoRevision /\ Makes(mem, kn, Head(q), w)
    /\ ph = "publishing" => m # NoMeta /\ AsOf(m, rs, w.lib, w.revision)

TabOK(m, rs, ar, mem, kn, hy, q, ph, w, of) ==
    /\ IsLibrary(mem) /\ AsOf(m, rs, mem, kn)
    /\ QueueOK(m, rs, mem, hy, q)
    /\ PhaseOK(m, rs, ar, mem, kn, q, ph, w)
    /\ IsWork(w) /\ IsAnswer(of)

TabInv ==
    \A t \in Tabs : TabOK(meta, records, archive, memory[t], known[t], hydrated[t],
                          requests[t], phase[t], work[t], offer[t])

Shapes ==
    /\ DOMAIN memory = Tabs /\ DOMAIN known = Tabs /\ hydrated \in [Tabs -> BOOLEAN]
    /\ DOMAIN requests = Tabs /\ DOMAIN phase = Tabs /\ DOMAIN work = Tabs
    /\ DOMAIN outcome = Tabs /\ DOMAIN offer = Tabs

Carried(q) == UNION {IdsInRequest(q[i]) : i \in DOMAIN q}

\* The ids of lists a tab holds anywhere, and those of the lists it has yet to create.
SeenIn(mem, q, w, of) ==
    Ids(mem) \cup Ids(w.lib) \cup IdsInAnswer(w.answer) \cup IdsInAnswer(of) \cup Carried(q)

Creations(q) == {i \in DOMAIN q : q[i].op = "create"}

Awaiting(q, ph) ==
    {q[i].list : i \in {j \in Creations(q) : j = 1 => ph \notin {"writing", "publishing"}}}

SeenBy(t) == SeenIn(memory[t], requests[t], work[t], offer[t])
AwaitedBy(t) == Awaiting(requests[t], phase[t])

\* Each creation has an id of its own, and made up for it.
CreatesOnce(q, ids) ==
    /\ \A i \in Creations(q) : q[i].list \in ids
    /\ \A i, j \in Creations(q) : q[i].list = q[j].list => i = j

\* The id of a list to come is held by nobody else and nowhere yet.
FreshInv ==
    /\ KnownIds \cup NamesIn(meta) \subseteq created
    /\ \A t \in Tabs :
        /\ SeenBy(t) \subseteq created /\ CreatesOnce(requests[t], created)
        /\ AwaitedBy(t) \cap (KnownIds \cup NamesIn(meta)) = {}
        /\ \A u \in Tabs : AwaitedBy(t) \cap SeenBy(u) = {}
        /\ \A u \in Tabs \ {t} : AwaitedBy(t) \cap AwaitedBy(u) = {}

LegacyInv == IsLibrary(LibraryIn(legacy)) /\ Ids(LibraryIn(legacy)) \subseteq KnownIds

\* One tab at a time, with Web Locks.
LockInv ==
    /\ LockedWritesSucceed
    /\ Locks => \A t, u \in Tabs : t # u => phase[t] = "idle" \/ phase[u] = "idle"

\* Without tabs of older versions what a migration has read is what is there.
CopyInv ==
    OldTabLibraries = {} =>
        \A t \in Tabs : phase[t] = "migrating" /\ meta = NoMeta => work[t].copied = legacy

Inv ==
    /\ Shapes /\ DatabaseOK(meta, records) /\ TabInv
    /\ FreshInv /\ LegacyInv /\ LockInv /\ CopyInv

-----------------------------------------------------------------------------
(* What keeps a tab right.                                                  *)

LEMMA RevisionIsNat ==
    ASSUME NEW m, NEW rs, DatabaseOK(m, rs)
    PROVE  /\ RevisionOf(m) \in Nat /\ (RevisionOf(m) = NoRevision <=> m = NoMeta)
           /\ m # NoMeta => m.revision = RevisionOf(m)
BY DEF DatabaseOK, RevisionOf, NoRevision

LEMMA AsOfLater ==
    ASSUME NEW m, NEW rs, DatabaseOK(m, rs), NEW lib, NEW revision, AsOf(m, rs, lib, revision),
           NEW m2, NEW rs2, m2 # NoMeta, m2.revision = RevisionOf(m) + 1
    PROVE  AsOf(m2, rs2, lib, revision)
<1>1. RevisionOf(m2) = RevisionOf(m) + 1 /\ RevisionOf(m) \in Nat
  BY RevisionIsNat DEF RevisionOf
<1> QED
  BY <1>1 DEF AsOf

\* A commit of another tab.
LEMMA TabLater ==
    ASSUME NEW m, NEW rs, NEW ar, NEW mem, NEW kn, NEW hy, NEW q, NEW ph, NEW w, NEW of,
           DatabaseOK(m, rs), TabOK(m, rs, ar, mem, kn, hy, q, ph, w, of),
           NEW m2, NEW rs2, m2 # NoMeta, m2.revision = RevisionOf(m) + 1, NEW ar2, ar \subseteq ar2
    PROVE  TabOK(m2, rs2, ar2, mem, kn, hy, q, ph, w, of)
<1>1. AsOf(m2, rs2, mem, kn)
  BY AsOfLater DEF TabOK
<1>2. QueueOK(m2, rs2, mem, hy, q)
  <2>1. \A i \in DOMAIN q : Prepared(m2, rs2, q[i])
    BY AsOfLater DEF Prepared, TabOK, QueueOK
  <2> QED
    BY <2>1 DEF TabOK, QueueOK
<1>3. PhaseOK(m2, rs2, ar2, mem, kn, q, ph, w)
  <2>1. ph = "publishing" => AsOf(m2, rs2, w.lib, w.revision)
    BY AsOfLater DEF TabOK, PhaseOK
  <2> QED
    BY <2>1 DEF TabOK, PhaseOK
<1> QED
  BY <1>1, <1>2, <1>3 DEF TabOK

LEMMA NoWorkIsWork == IsWork(NoWork) /\ IdsInAnswer(NoWork.answer) = {} /\ Ids(NoWork.lib) = {}
<1>1. NoWork.lib = <<>> /\ NoWork.answer = Nothing
  BY DEF NoWork
<1>2. NoWork = [lib |-> NoWork.lib, answer |-> NoWork.answer, copied |-> NoWork.copied,
                revision |-> NoWork.revision]
  BY DEF NoWork
<1> QED
  BY <1>1, <1>2, EmptyLibrary, DoneIsPlain, PlainIsAnswer DEF IsWork

LEMMA MadeWork ==
    ASSUME NEW lib, NEW answer, IsLibrary(lib), IsAnswer(answer)
    PROVE  /\ IsWork([NoWork EXCEPT !.lib = lib, !.answer = answer])
           /\ [NoWork EXCEPT !.lib = lib, !.answer = answer].lib = lib
           /\ [NoWork EXCEPT !.lib = lib, !.answer = answer].answer = answer
<1> DEFINE w == [NoWork EXCEPT !.lib = lib, !.answer = answer]
<1>1. NoWork = [lib |-> NoWork.lib, answer |-> NoWork.answer, copied |-> NoWork.copied,
                revision |-> NoWork.revision]
  BY DEF NoWork
<1>2. w = [lib |-> lib, answer |-> answer, copied |-> NoWork.copied,
           revision |-> NoWork.revision]
  <2> DEFINE half == [NoWork EXCEPT !.lib = lib]
  <2>1. w = [half EXCEPT !.answer = answer]
    OBVIOUS
  <2>2. half = [lib |-> lib, answer |-> NoWork.answer, copied |-> NoWork.copied,
                revision |-> NoWork.revision]
    BY <1>1
  <2> HIDE DEF half
  <2> QED
    BY <2>1, <2>2
<1> HIDE DEF w
<1>3. w.lib = lib /\ w.answer = answer /\ w.copied = NoWork.copied
      /\ w.revision = NoWork.revision
  BY <1>2
<1>4. w = [lib |-> w.lib, answer |-> w.answer, copied |-> w.copied, revision |-> w.revision]
  BY <1>2, <1>3
<1>5. IsWork(w)
  BY <1>3, <1>4 DEF IsWork
<1> QED
  BY <1>3, <1>5 DEF w

\* The head of the queue is answered.
LEMMA TabAnswers ==
    ASSUME NEW m, NEW rs, NEW ar, NEW mem, NEW kn, NEW hy, NEW q, NEW ph, NEW w, NEW of,
           TabOK(m, rs, ar, mem, kn, hy, q, ph, w, of), q # <<>>,
           NEW mem2, NEW kn2, IsLibrary(mem2), AsOf(m, rs, mem2, kn2),
           NEW hy2, NEW of2, IsAnswer(of2)
    PROVE  TabOK(m, rs, ar, mem2, kn2, hy2, Tail(q), "idle", NoWork, of2)
<1>1. /\ IsSequence(Tail(q)) /\ DOMAIN Tail(q) = 1..Len(q) - 1
      /\ \A i \in DOMAIN Tail(q) : i + 1 \in DOMAIN q /\ Tail(q)[i] = q[i + 1]
  BY QueueShrinks DEF TabOK, QueueOK
<1>2. ASSUME NEW i \in DOMAIN Tail(q)
      PROVE  IsRequest(Tail(q)[i]) /\ Prepared(m, rs, Tail(q)[i]) /\ Prompt(mem2, hy2, Tail(q)[i], i)
  <2>1. /\ IsRequest(q[i + 1]) /\ Prepared(m, rs, q[i + 1]) /\ Prompt(mem, hy, q[i + 1], i + 1)
        /\ Tail(q)[i] = q[i + 1]
    BY <1>1 DEF TabOK, QueueOK
  <2>2. i + 1 # 1
    BY <1>1
  <2> QED
    BY <2>1, <2>2 DEF Prompt
<1>3. QueueOK(m, rs, mem2, hy2, Tail(q))
  BY <1>1, <1>2 DEF QueueOK
<1>4. PhaseOK(m, rs, ar, mem2, kn2, Tail(q), "idle", NoWork)
  BY DEF PhaseOK
<1> QED
  BY <1>3, <1>4, NoWorkIsWork DEF TabOK

\* The tab asks for one thing more.
LEMMA TabAsks ==
    ASSUME NEW m, NEW rs, NEW ar, NEW mem, NEW kn, NEW hy, NEW q, NEW ph, NEW w, NEW of,
           TabOK(m, rs, ar, mem, kn, hy, q, ph, w, of),
           NEW request, IsRequest(request), Prepared(m, rs, request),
           Prompt(mem, hy, request, Len(q) + 1), NEW of2, IsAnswer(of2)
    PROVE  TabOK(m, rs, ar, mem, kn, hy, Append(q, request), ph, w, of2)
<1>1. /\ IsSequence(Append(q, request)) /\ Append(q, request) # <<>>
      /\ DOMAIN Append(q, request) = 1..Len(q) + 1
      /\ \A i \in DOMAIN q : Append(q, request)[i] = q[i]
      /\ Append(q, request)[Len(q) + 1] = request
      /\ Len(q) \in Nat /\ DOMAIN q = 1..Len(q)
  BY QueueGrows, SequenceDomain DEF TabOK, QueueOK
<1>2. ASSUME NEW i \in DOMAIN Append(q, request)
      PROVE  /\ IsRequest(Append(q, request)[i]) /\ Prepared(m, rs, Append(q, request)[i])
             /\ Prompt(mem, hy, Append(q, request)[i], i)
  <2>1. CASE i = Len(q) + 1
    BY <1>1, <2>1
  <2>2. CASE i \in DOMAIN q
    BY <1>1, <2>2 DEF TabOK, QueueOK
  <2> QED
    BY <1>1, <2>1, <2>2
<1>3. QueueOK(m, rs, mem, hy, Append(q, request))
  BY <1>1, <1>2 DEF QueueOK
<1>4. q # <<>> => Head(Append(q, request)) = Head(q)
  BY HeadAndTailOfGrown DEF TabOK, QueueOK
<1>5. PhaseOK(m, rs, ar, mem, kn, Append(q, request), ph, w)
  BY <1>1, <1>4 DEF TabOK, PhaseOK
<1> QED
  BY <1>3, <1>5 DEF TabOK

\* A new copy is fine for a positional request unless the tab had one before.
CarriesOn(mem, hy, mem2, hy2, request) ==
    /\ hy = TRUE => hy2 = TRUE
    /\ request.op \in Positional => hy # TRUE \/ mem2 = mem

LEMMA QueueStays ==
    ASSUME NEW m, NEW rs, NEW mem, NEW hy, NEW q, QueueOK(m, rs, mem, hy, q), q # <<>>,
           NEW mem2, NEW hy2, CarriesOn(mem, hy, mem2, hy2, Head(q))
    PROVE  QueueOK(m, rs, mem2, hy2, q)
<1>1. 1 \in DOMAIN q /\ Head(q) = q[1] /\ IsSequence(q)
  BY SequenceDomain DEF QueueOK
<1>2. ASSUME NEW i \in DOMAIN q
      PROVE  Prompt(mem2, hy2, q[i], i)
  <2>1. Prompt(mem, hy, q[i], i)
    BY DEF QueueOK
  <2>2. SUFFICES ASSUME q[i].op \in Positional, q[i].ahead = {}
                 PROVE  i = 1 /\ hy2 = TRUE /\ q[i].seen = SongsOf(mem2, q[i].list)
    BY DEF Prompt
  <2>3. i = 1 /\ hy = TRUE /\ q[i].seen = SongsOf(mem, q[i].list)
    BY <2>1, <2>2 DEF Prompt
  <2> QED
    BY <1>1, <2>2, <2>3 DEF CarriesOn
<1> QED
  BY <1>2 DEF QueueOK

\* The action has been applied to the copy: what it makes waits to be written.
LEMMA TabPrepares ==
    ASSUME NEW m, NEW rs, NEW ar, NEW mem, NEW kn, NEW hy, NEW q, NEW w, NEW of,
           IsLibrary(mem), AsOf(m, rs, mem, kn), kn # NoRevision, QueueOK(m, rs, mem, hy, q),
           q # <<>>, IsWork(w), IsAnswer(of), Makes(mem, kn, Head(q), w)
    PROVE  TabOK(m, rs, ar, mem, kn, hy, q, "writing", w, of)
BY DEF TabOK, PhaseOK

-----------------------------------------------------------------------------
(* What keeps the ids of new lists new.                                     *)

LEMMA FreshWhenShrinks ==
    ASSUME NEW q, IsSequence(q), q # <<>>, NEW ph, NEW ids, CreatesOnce(q, ids)
    PROVE  /\ Awaiting(Tail(q), "idle") \subseteq Awaiting(q, ph)
           /\ CreatesOnce(Tail(q), ids) /\ Carried(Tail(q)) \subseteq Carried(q)
<1>1. /\ DOMAIN Tail(q) = 1..Len(q) - 1 /\ Len(q) \in Nat
      /\ \A i \in DOMAIN Tail(q) : i + 1 \in DOMAIN q /\ Tail(q)[i] = q[i + 1]
  BY QueueShrinks, SequenceDomain
<1>2. \A i \in Creations(Tail(q)) : i + 1 \in Creations(q) /\ i + 1 # 1
  BY <1>1 DEF Creations
<1>3. \A i \in Creations(Tail(q)) : Tail(q)[i] = q[i + 1] /\ i \in Int
  BY <1>1 DEF Creations
<1>4. Awaiting(Tail(q), "idle") \subseteq Awaiting(q, ph)
  BY <1>2, <1>3 DEF Awaiting
<1>5. CreatesOnce(Tail(q), ids)
  <2>1. \A i \in Creations(Tail(q)) : Tail(q)[i].list \in ids
    BY <1>2, <1>3 DEF CreatesOnce
  <2>2. ASSUME NEW i \in Creations(Tail(q)), NEW j \in Creations(Tail(q)),
               Tail(q)[i].list = Tail(q)[j].list
        PROVE  i = j
    <3>1. i + 1 = j + 1
      BY <1>2, <1>3, <2>2, ZenonT(30) DEF CreatesOnce
    <3> QED
      BY <1>3, <3>1
  <2> QED
    BY <2>1, <2>2 DEF CreatesOnce
<1>6. Carried(Tail(q)) \subseteq Carried(q)
  BY <1>1 DEF Carried
<1> QED
  BY <1>4, <1>5, <1>6

LEMMA FreshWhenGrows ==
    ASSUME NEW q, IsSequence(q), NEW ph, NEW ids, CreatesOnce(q, ids), NEW request,
           CreatedBy(request) \cap ids = {}
    PROVE  /\ Awaiting(Append(q, request), ph) \subseteq Awaiting(q, ph) \cup CreatedBy(request)
           /\ CreatesOnce(Append(q, request), ids \cup CreatedBy(request))
           /\ Carried(Append(q, request)) \subseteq Carried(q) \cup IdsInRequest(request)
<1> DEFINE more == Append(q, request)
<1>1. /\ DOMAIN more = 1..Len(q) + 1 /\ DOMAIN q = 1..Len(q) /\ Len(q) \in Nat
      /\ \A i \in DOMAIN q : more[i] = q[i]
      /\ more[Len(q) + 1] = request
  BY QueueGrows, SequenceDomain
<1> HIDE DEF more
<1>2. ASSUME NEW i \in DOMAIN more
      PROVE  \/ i \in DOMAIN q /\ more[i] = q[i]
             \/ i = Len(q) + 1 /\ more[i] = request
  <2>1. i \in 1..Len(q) \/ i = Len(q) + 1
    BY <1>1
  <2>2. CASE i \in 1..Len(q)
    BY <1>1, <2>2
  <2>3. CASE i = Len(q) + 1
    BY <1>1, <2>3
  <2> QED
    BY <2>1, <2>2, <2>3
<1>3. ASSUME NEW i \in Creations(more)
      PROVE  \/ i \in Creations(q) /\ more[i] = q[i]
             \/ i = Len(q) + 1 /\ CreatedBy(request) = {more[i].list}
  <2>1. i \in DOMAIN more /\ more[i].op = "create"
    BY DEF Creations
  <2>2. CASE i \in DOMAIN q /\ more[i] = q[i]
    BY <2>1, <2>2 DEF Creations
  <2>3. CASE i = Len(q) + 1 /\ more[i] = request
    BY <2>1, <2>3 DEF CreatedBy
  <2> QED
    BY <1>2, <2>1, <2>2, <2>3
<1>4. Awaiting(more, ph) \subseteq Awaiting(q, ph) \cup CreatedBy(request)
  BY <1>3 DEF Awaiting
<1>5. CreatesOnce(more, ids \cup CreatedBy(request))
  BY <1>3 DEF CreatesOnce
<1>6. Carried(more) \subseteq Carried(q) \cup IdsInRequest(request)
  BY <1>2 DEF Carried
<1> QED
  BY <1>4, <1>5, <1>6 DEF more

LEMMA FreshWhenWriting ==
    ASSUME NEW q, IsSequence(q), q # <<>>, NEW ids, CreatesOnce(q, ids),
           NEW ph, ph \notin {"writing", "publishing"}
    PROVE  /\ Awaiting(q, "writing") \subseteq Awaiting(q, ph)
           /\ CreatedBy(Head(q)) \subseteq Awaiting(q, ph) \ Awaiting(q, "writing")
           /\ IdsInRequest(Head(q)) \subseteq Carried(q)
<1>1. 1 \in DOMAIN q /\ Head(q) = q[1]
  BY SequenceDomain
<1>2. Awaiting(q, "writing") \subseteq Awaiting(q, ph)
  BY DEF Awaiting
<1>3. ASSUME NEW id \in CreatedBy(Head(q))
      PROVE  id \in Awaiting(q, ph) /\ id \notin Awaiting(q, "writing")
  <2>1. 1 \in Creations(q) /\ q[1].list = id
    BY <1>1, <1>3 DEF CreatedBy, Creations
  <2>2. id \in Awaiting(q, ph)
    BY <2>1 DEF Awaiting
  <2>3. ASSUME NEW j \in Creations(q), j = 1 => "writing" \notin {"writing", "publishing"},
               q[j].list = id
        PROVE  FALSE
    BY <2>1, <2>3 DEF CreatesOnce
  <2> QED
    BY <2>2, <2>3 DEF Awaiting
<1>4. IdsInRequest(Head(q)) \subseteq Carried(q)
  BY <1>1 DEF Carried
<1> QED
  BY <1>2, <1>3, <1>4

\* Nothing else of a tab changes than this one's.
OthersStay(t) ==
    \A u \in Tabs \ {t} :
        /\ memory'[u] = memory[u] /\ known'[u] = known[u] /\ hydrated'[u] = hydrated[u]
        /\ requests'[u] = requests[u] /\ phase'[u] = phase[u] /\ work'[u] = work[u]
        /\ outcome'[u] = outcome[u] /\ offer'[u] = offer[u]

LEMMA FreshStep ==
    ASSUME FreshInv, NEW t \in Tabs, OthersStay(t), NEW new,
           SeenIn(memory'[t], requests'[t], work'[t], offer'[t])
             \subseteq SeenBy(t) \cup NamesIn(meta) \cup KnownIds
                       \cup (AwaitedBy(t) \ Awaiting(requests'[t], phase'[t])),
           Awaiting(requests'[t], phase'[t]) \subseteq AwaitedBy(t) \cup new,
           new \cap created = {}, created' = created \cup new,
           NamesIn(meta') \subseteq NamesIn(meta) \cup SeenBy(t),
           CreatesOnce(requests'[t], created')
    PROVE  FreshInv'
<1> DEFINE seen(u) == SeenIn(memory'[u], requests'[u], work'[u], offer'[u])
           awaited(u) == Awaiting(requests'[u], phase'[u])
<1>1. \A u \in Tabs \ {t} : seen(u) = SeenBy(u) /\ awaited(u) = AwaitedBy(u)
                            /\ requests'[u] = requests[u]
  BY DEF OthersStay, SeenBy, AwaitedBy
<1>2. /\ seen(t) \subseteq SeenBy(t) \cup NamesIn(meta) \cup KnownIds
                           \cup (AwaitedBy(t) \ awaited(t))
      /\ awaited(t) \subseteq AwaitedBy(t) \cup new
  OBVIOUS
<1>3. /\ KnownIds \cup NamesIn(meta) \subseteq created
      /\ \A u \in Tabs :
          /\ SeenBy(u) \subseteq created /\ CreatesOnce(requests[u], created)
          /\ AwaitedBy(u) \cap (KnownIds \cup NamesIn(meta)) = {}
          /\ \A v \in Tabs : AwaitedBy(u) \cap SeenBy(v) = {}
          /\ \A v \in Tabs \ {u} : AwaitedBy(u) \cap AwaitedBy(v) = {}
  BY DEF FreshInv
<1>4. \A u \in Tabs : AwaitedBy(u) \subseteq created
  BY <1>3 DEF AwaitedBy, Awaiting, CreatesOnce
<1> HIDE DEF seen, awaited
<1>5. KnownIds \cup NamesIn(meta') \subseteq created'
  BY <1>3
<1>6. \A u \in Tabs : seen(u) \subseteq created'
  BY <1>1, <1>2, <1>3, <1>4
<1>7. \A u \in Tabs : CreatesOnce(requests'[u], created')
  <2>1. ASSUME NEW u \in Tabs \ {t}
        PROVE  CreatesOnce(requests'[u], created')
    <3>1. CreatesOnce(requests[u], created) /\ requests'[u] = requests[u]
      BY <1>1, <1>3
    <3> QED
      BY <3>1 DEF CreatesOnce
  <2> QED
    BY <2>1
<1>8. \A u \in Tabs : awaited(u) \cap (KnownIds \cup NamesIn(meta')) = {}
  <2>1. ASSUME NEW u \in Tabs
        PROVE  awaited(u) \subseteq AwaitedBy(u) \cup new
    BY <1>1, <1>2
  <2>2. \A u \in Tabs : AwaitedBy(u) \cap (KnownIds \cup NamesIn(meta) \cup SeenBy(t)) = {}
    BY <1>3
  <2>3. new \cap (KnownIds \cup NamesIn(meta) \cup SeenBy(t)) = {}
    BY <1>3
  <2> QED
    BY <2>1, <2>2, <2>3
<1>9. ASSUME NEW u \in Tabs, NEW v \in Tabs
      PROVE  awaited(u) \cap seen(v) = {}
  <2>1. AwaitedBy(u) \cap (KnownIds \cup NamesIn(meta) \cup SeenBy(v)) = {}
        /\ SeenBy(v) \cup KnownIds \cup NamesIn(meta) \cup AwaitedBy(v) \subseteq created
    BY <1>3, <1>4
  <2>2. CASE v # t
    BY <1>1, <1>2, <2>1, <2>2
  <2>3. CASE v = t /\ u # t
    BY <1>1, <1>2, <1>3, <2>1, <2>3
  <2>4. CASE v = t /\ u = t
    BY <1>1, <1>2, <1>3, <2>1, <2>4
  <2> QED
    BY <2>2, <2>3, <2>4
<1>10. ASSUME NEW u \in Tabs, NEW v \in Tabs \ {u}
       PROVE  awaited(u) \cap awaited(v) = {}
  BY <1>1, <1>2, <1>3, <1>4
<1> QED
  BY <1>5, <1>6, <1>7, <1>8, <1>9, <1>10 DEF FreshInv, SeenBy, AwaitedBy, seen, awaited

-----------------------------------------------------------------------------
(* Steps of one tab that leave the database alone.                          *)

LEMMA TabInvStep ==
    ASSUME TabInv, NEW t \in Tabs, OthersStay(t), UNCHANGED <<meta, records, archive>>,
           TabOK(meta, records, archive, memory'[t], known'[t], hydrated'[t], requests'[t],
                 phase'[t], work'[t], offer'[t])
    PROVE  TabInv'
<1>1. ASSUME NEW u \in Tabs
      PROVE  TabOK(meta', records', archive', memory'[u], known'[u], hydrated'[u], requests'[u],
                   phase'[u], work'[u], offer'[u])
  <2>0. meta' = meta /\ records' = records /\ archive' = archive
    OBVIOUS
  <2>1. CASE u = t
    BY <2>0, <2>1
  <2>2. CASE u # t
    <3>1. TabOK(meta, records, archive, memory[u], known[u], hydrated[u], requests[u],
                phase[u], work[u], offer[u])
      BY DEF TabInv
    <3>2. /\ memory'[u] = memory[u] /\ known'[u] = known[u] /\ hydrated'[u] = hydrated[u]
          /\ requests'[u] = requests[u] /\ phase'[u] = phase[u] /\ work'[u] = work[u]
          /\ offer'[u] = offer[u]
      BY <2>2 DEF OthersStay
    <3> QED
      BY <2>0, <3>1, <3>2
  <2> QED
    BY <2>1, <2>2
<1> QED
  BY <1>1 DEF TabInv

LEMMA LockStep ==
    ASSUME LockInv, NEW t \in Tabs, OthersStay(t),
           UNCHANGED <<meta, records>> \/ phase[t] # "idle",
           phase'[t] # "idle" => phase[t] # "idle" \/ LockFree(t),
           Locks /\ phase'[t] = "migrating" => meta' = NoMeta,
           Locks /\ phase'[t] = "verifying" => Saved(meta', records') = work'[t].lib,
           Locks /\ phase'[t] = "writing" => RevisionOf(meta') = known'[t]
    PROVE  LockInv'
<1>1. SUFFICES ASSUME Locks
               PROVE  /\ \A u \in Tabs :
                          /\ phase'[u] = "migrating" => meta' = NoMeta
                          /\ phase'[u] = "verifying" => Saved(meta', records') = work'[u].lib
                          /\ phase'[u] = "writing" => RevisionOf(meta') = known'[u]
                      /\ \A u, v \in Tabs : u # v => phase'[u] = "idle" \/ phase'[v] = "idle"
  BY DEF LockInv, LockedWritesSucceed, Saved, SavedLibrary, Current, Revision, RevisionOf
<1>2. \A u, v \in Tabs : u # v => phase[u] = "idle" \/ phase[v] = "idle"
  BY <1>1 DEF LockInv
<1>3. \A u \in Tabs \ {t} : phase'[u] = phase[u] /\ work'[u] = work[u] /\ known'[u] = known[u]
  BY DEF OthersStay
<1>4. \A u \in Tabs :
        /\ phase[u] = "migrating" => meta = NoMeta
        /\ phase[u] = "verifying" => Saved(meta, records) = work[u].lib
        /\ phase[u] = "writing" => RevisionOf(meta) = known[u]
  BY <1>1 DEF LockInv, LockedWritesSucceed, Saved, SavedLibrary, Current, Revision, RevisionOf
<1>5. phase'[t] # "idle" => \A u \in Tabs \ {t} : phase[u] = "idle"
  BY <1>1, <1>2 DEF LockFree
<1>6. \A u, v \in Tabs : u # v => phase'[u] = "idle" \/ phase'[v] = "idle"
  BY <1>2, <1>3, <1>5
<1>7. ASSUME NEW u \in Tabs \ {t}
      PROVE  /\ phase'[u] = "migrating" => meta' = NoMeta
             /\ phase'[u] = "verifying" => Saved(meta', records') = work'[u].lib
             /\ phase'[u] = "writing" => RevisionOf(meta') = known'[u]
  <2>1. CASE UNCHANGED <<meta, records>>
    <3>1. meta' = meta /\ records' = records
      BY <2>1
    <3>2. phase'[u] = phase[u] /\ work'[u] = work[u] /\ known'[u] = known[u]
      BY <1>3
    <3> QED
      BY <1>4, <3>1, <3>2
  <2>2. CASE phase[t] # "idle"
    BY <1>2, <1>3, <2>2
  <2> QED
    BY <2>1, <2>2
<1> QED
  BY <1>1, <1>6, <1>7

LEMMA EmptyLegacy == IsLibrary(LibraryIn(NoLegacy)) /\ Ids(LibraryIn(NoLegacy)) = {}
BY EmptyLibrary DEF LibraryIn, Unreadable

LEMMA TabMoves ==
    ASSUME Inv, NEW t \in Tabs, Shapes', OthersStay(t), UNCHANGED <<meta, records, archive>>,
           legacy' = legacy \/ (legacy' = NoLegacy /\ meta # NoMeta),
           TabOK(meta, records, archive, memory'[t], known'[t], hydrated'[t], requests'[t],
                 phase'[t], work'[t], offer'[t]),
           NEW new,
           SeenIn(memory'[t], requests'[t], work'[t], offer'[t])
             \subseteq SeenBy(t) \cup NamesIn(meta) \cup KnownIds
                       \cup (AwaitedBy(t) \ Awaiting(requests'[t], phase'[t])),
           Awaiting(requests'[t], phase'[t]) \subseteq AwaitedBy(t) \cup new,
           new \cap created = {}, created' = created \cup new,
           CreatesOnce(requests'[t], created'),
           \/ phase'[t] = "idle"
           \/ phase'[t] = phase[t] /\ known'[t] = known[t] /\ work'[t] = work[t]
           \/ /\ phase'[t] = "migrating" /\ meta = NoMeta /\ LockFree(t)
              /\ work'[t].copied = legacy
           \/ /\ phase'[t] = "writing" /\ meta # NoMeta /\ known'[t] = meta.revision
              /\ phase[t] # "idle" \/ LockFree(t)
    PROVE  Inv'
<1>1. DatabaseOK(meta', records')
  <2>1. meta' = meta /\ records' = records /\ DatabaseOK(meta, records)
    BY DEF Inv
  <2> QED
    BY <2>1
<1>2. TabInv'
  BY TabInvStep DEF Inv
<1>3. FreshInv'
  <2>1. NamesIn(meta') \subseteq NamesIn(meta) \cup SeenBy(t)
    <3>1. meta' = meta
      OBVIOUS
    <3> QED
      BY <3>1
  <2> QED
    BY <2>1, FreshStep DEF Inv
<1>4. LegacyInv'
  <2>1. CASE legacy' = legacy
    BY <2>1 DEF Inv, LegacyInv, LibraryIn, Ids, KnownIds
  <2>2. CASE legacy' = NoLegacy
    <3>1. IsLibrary(LibraryIn(legacy')) /\ Ids(LibraryIn(legacy')) = {}
      BY <2>2, EmptyLegacy
    <3> QED
      BY <3>1 DEF LegacyInv
  <2> QED
    BY <2>1, <2>2
<1>5. LockInv'
  <2>1. \A u \in Tabs : Locks =>
          /\ phase[u] = "migrating" => meta = NoMeta
          /\ phase[u] = "verifying" => Saved(meta, records) = work[u].lib
          /\ phase[u] = "writing" => RevisionOf(meta) = known[u]
    BY DEF Inv, LockInv, LockedWritesSucceed, Saved, SavedLibrary, Current, Revision, RevisionOf
  <2>2. meta' = meta /\ records' = records
    OBVIOUS
  <2>3. meta # NoMeta => RevisionOf(meta) = meta.revision
    BY DEF RevisionOf
  <2>4. Locks /\ phase'[t] = "migrating" => meta' = NoMeta
    BY <2>1, <2>2
  <2>5. Locks /\ phase'[t] = "verifying" => Saved(meta', records') = work'[t].lib
    <3>1. SUFFICES ASSUME Locks, phase'[t] = "verifying"
                   PROVE  Saved(meta', records') = work'[t].lib
      OBVIOUS
    <3>2. phase[t] = "verifying" /\ work'[t] = work[t]
      BY <3>1
    <3> QED
      BY <2>1, <2>2, <3>1, <3>2
  <2>6. Locks /\ phase'[t] = "writing" => RevisionOf(meta') = known'[t]
    BY <2>1, <2>2, <2>3
  <2>7. phase'[t] # "idle" => phase[t] # "idle" \/ LockFree(t)
    OBVIOUS
  <2>8. LockInv
    BY DEF Inv
  <2> QED
    BY <2>2, <2>4, <2>5, <2>6, <2>7, <2>8, LockStep
<1>6. CopyInv'
  <2>1. SUFFICES ASSUME OldTabLibraries = {}, NEW u \in Tabs, phase'[u] = "migrating",
                        meta' = NoMeta
                 PROVE  work'[u].copied = legacy'
    BY DEF CopyInv
  <2>2. legacy' = legacy /\ meta = NoMeta
    BY <2>1
  <2>3. phase[u] = "migrating" => work[u].copied = legacy
    BY <2>1, <2>2 DEF Inv, CopyInv
  <2>4. CASE u = t
    BY <2>1, <2>2, <2>3, <2>4
  <2>5. CASE u # t
    BY <2>1, <2>2, <2>3, <2>5 DEF OthersStay
  <2> QED
    BY <2>4, <2>5
<1> QED
  BY <1>1, <1>2, <1>3, <1>4, <1>5, <1>6 DEF Inv

-----------------------------------------------------------------------------
(* A request that is answered.                                              *)

LEMMA AnswerLands ==
    ASSUME Shapes, NEW t \in Tabs, NEW answer, Answer(t, answer)
    PROVE  /\ requests'[t] = Tail(requests[t]) /\ phase'[t] = "idle" /\ work'[t] = NoWork
           /\ outcome'[t] = answer
           /\ offer'[t] = IF IsSnapshot(answer) THEN answer ELSE offer[t]
           /\ DOMAIN requests' = Tabs /\ DOMAIN phase' = Tabs /\ DOMAIN work' = Tabs
           /\ DOMAIN outcome' = Tabs /\ DOMAIN offer' = Tabs
           /\ \A u \in Tabs \ {t} :
                /\ requests'[u] = requests[u] /\ phase'[u] = phase[u] /\ work'[u] = work[u]
                /\ outcome'[u] = outcome[u] /\ offer'[u] = offer[u]
BY DEF Shapes, Answer

\* Only this tab's copy of the library changes.
CopyChanges(t) ==
    /\ DOMAIN memory' = Tabs /\ DOMAIN known' = Tabs /\ hydrated' \in [Tabs -> BOOLEAN]
    /\ \A u \in Tabs \ {t} :
        memory'[u] = memory[u] /\ known'[u] = known[u] /\ hydrated'[u] = hydrated[u]

LEMMA Answered ==
    ASSUME Inv, NEW t \in Tabs, requests[t] # <<>>, CopyChanges(t),
           IsLibrary(memory'[t]), AsOf(meta, records, memory'[t], known'[t]),
           NEW answer, Answer(t, answer), IsAnswer(answer),
           Ids(memory'[t]) \cup IdsInAnswer(answer)
             \subseteq SeenBy(t) \cup NamesIn(meta) \cup KnownIds,
           UNCHANGED <<meta, records, archive, created>>,
           legacy' = legacy \/ (legacy' = NoLegacy /\ meta # NoMeta)
    PROVE  Inv'
<1>1. /\ requests'[t] = Tail(requests[t]) /\ phase'[t] = "idle" /\ work'[t] = NoWork
      /\ offer'[t] = answer \/ offer'[t] = offer[t]
      /\ DOMAIN requests' = Tabs /\ DOMAIN phase' = Tabs /\ DOMAIN work' = Tabs
      /\ DOMAIN outcome' = Tabs /\ DOMAIN offer' = Tabs
      /\ \A u \in Tabs \ {t} :
            /\ requests'[u] = requests[u] /\ phase'[u] = phase[u] /\ work'[u] = work[u]
            /\ outcome'[u] = outcome[u] /\ offer'[u] = offer[u]
  BY AnswerLands DEF Inv
<1>2. Shapes' /\ OthersStay(t)
  BY <1>1 DEF Shapes, OthersStay, CopyChanges
<1>3. TabOK(meta, records, archive, memory[t], known[t], hydrated[t], requests[t], phase[t],
            work[t], offer[t])
  BY DEF Inv, TabInv
<1>4. IsSequence(requests[t]) /\ IsAnswer(offer[t])
  BY <1>3 DEF TabOK, QueueOK
<1>5. TabOK(meta, records, archive, memory'[t], known'[t], hydrated'[t], requests'[t],
            phase'[t], work'[t], offer'[t])
  <2>1. TabOK(meta, records, archive, memory'[t], known'[t], hydrated'[t], Tail(requests[t]),
              "idle", NoWork, offer'[t])
    BY <1>1, <1>3, <1>4, TabAnswers
  <2> QED
    BY <1>1, <2>1
<1>6. CreatesOnce(requests[t], created)
  BY DEF Inv, FreshInv
<1>7. /\ Awaiting(Tail(requests[t]), "idle") \subseteq AwaitedBy(t)
      /\ CreatesOnce(Tail(requests[t]), created)
      /\ Carried(Tail(requests[t])) \subseteq Carried(requests[t])
  BY <1>4, <1>6, FreshWhenShrinks DEF AwaitedBy
<1>8. SeenIn(memory'[t], requests'[t], work'[t], offer'[t])
        \subseteq SeenBy(t) \cup NamesIn(meta) \cup KnownIds
  <2>1. IdsInAnswer(offer'[t]) \subseteq SeenBy(t) \cup NamesIn(meta) \cup KnownIds
    BY <1>1 DEF SeenBy, SeenIn
  <2>2. Carried(requests'[t]) \subseteq SeenBy(t)
    BY <1>1, <1>7 DEF SeenBy, SeenIn
  <2>3. Ids(work'[t].lib) = {} /\ IdsInAnswer(work'[t].answer) = {}
    BY <1>1, NoWorkIsWork
  <2> QED
    BY <2>1, <2>2, <2>3 DEF SeenIn
<1>9. Awaiting(requests'[t], phase'[t]) \subseteq AwaitedBy(t) \cup {}
  BY <1>1, <1>7
<1>10. CreatesOnce(requests'[t], created')
  <2>1. created' = created
    OBVIOUS
  <2> QED
    BY <1>1, <1>7, <2>1
<1>11. phase'[t] = "idle" /\ created' = created \cup {} /\ {} \cap created = {}
  BY <1>1
<1>12. SeenIn(memory'[t], requests'[t], work'[t], offer'[t])
         \subseteq SeenBy(t) \cup NamesIn(meta) \cup KnownIds
                   \cup (AwaitedBy(t) \ Awaiting(requests'[t], phase'[t]))
  BY <1>8
<1> QED
  BY <1>2, <1>5, <1>9, <1>10, <1>11, <1>12, TabMoves

LEMMA CopyStays ==
    ASSUME Inv, NEW t \in Tabs, UNCHANGED <<memory, known, hydrated>>
    PROVE  /\ CopyChanges(t) /\ IsLibrary(memory'[t])
           /\ AsOf(meta, records, memory'[t], known'[t]) /\ Ids(memory'[t]) \subseteq SeenBy(t)
<1>1. IsLibrary(memory[t]) /\ AsOf(meta, records, memory[t], known[t])
  BY DEF Inv, TabInv, TabOK
<1>2. Ids(memory[t]) \subseteq SeenBy(t)
  BY DEF SeenBy, SeenIn
<1>3. CopyChanges(t)
  BY DEF CopyChanges, Inv, Shapes
<1>4. memory' = memory /\ known' = known
  OBVIOUS
<1> QED
  BY <1>1, <1>2, <1>3, <1>4

\* A refusal changes nothing else.
LEMMA Refused ==
    ASSUME Inv, NEW t \in Tabs, requests[t] # <<>>, Answer(t, Failed),
           UNCHANGED <<meta, records, archive, created, legacy, memory, known, hydrated>>
    PROVE  Inv'
<1>1. /\ CopyChanges(t) /\ IsLibrary(memory'[t])
      /\ AsOf(meta, records, memory'[t], known'[t]) /\ Ids(memory'[t]) \subseteq SeenBy(t)
  BY CopyStays
<1>2. IsAnswer(Failed) /\ IdsInAnswer(Failed) = {}
  BY DoneIsPlain, PlainIsAnswer
<1>3. ASSUME NEW answer, answer = Failed
      PROVE  Inv'
  <2>1. /\ Answer(t, answer) /\ IsAnswer(answer)
        /\ Ids(memory'[t]) \cup IdsInAnswer(answer)
             \subseteq SeenBy(t) \cup NamesIn(meta) \cup KnownIds
    BY <1>1, <1>2, <1>3
  <2> QED
    BY <1>1, <2>1, Answered
<1> QED
  BY <1>3

-----------------------------------------------------------------------------
(* A tab that asks for something.                                           *)

LEMMA Asked ==
    ASSUME Inv, NEW t \in Tabs, NEW request, Append1(t, request), IsRequest(request),
           Prepared(meta, records, request),
           Prompt(memory[t], hydrated[t], request, Len(requests[t]) + 1),
           CreatedBy(request) \cap created = {}, created' = created \cup CreatedBy(request),
           IdsInRequest(request) \subseteq SeenBy(t) \cup KnownIds,
           UNCHANGED <<meta, records, archive, legacy, memory, known, hydrated, phase, work,
                       outcome>>,
           offer' = offer \/ offer' = [offer EXCEPT ![t] = Nothing]
    PROVE  Inv'
<1>1. Shapes
  BY DEF Inv
<1>2. /\ DOMAIN requests' = Tabs /\ requests'[t] = Append(requests[t], request)
      /\ \A u \in Tabs \ {t} : requests'[u] = requests[u]
  BY <1>1 DEF Append1, Shapes
<1>3. /\ DOMAIN offer' = Tabs /\ (offer'[t] = offer[t] \/ offer'[t] = Nothing)
      /\ \A u \in Tabs \ {t} : offer'[u] = offer[u]
  BY <1>1 DEF Shapes
<1>4. Shapes' /\ OthersStay(t)
  BY <1>1, <1>2, <1>3 DEF Shapes, OthersStay
<1>5. TabOK(meta, records, archive, memory[t], known[t], hydrated[t], requests[t], phase[t],
            work[t], offer[t])
  BY DEF Inv, TabInv
<1>6. IsSequence(requests[t]) /\ IsAnswer(offer[t])
  BY <1>5 DEF TabOK, QueueOK
<1>7. IsAnswer(offer'[t]) /\ IdsInAnswer(offer'[t]) \subseteq IdsInAnswer(offer[t])
  BY <1>3, <1>6, DoneIsPlain, PlainIsAnswer
<1>8. /\ memory'[t] = memory[t] /\ known'[t] = known[t] /\ hydrated'[t] = hydrated[t]
      /\ phase'[t] = phase[t] /\ work'[t] = work[t]
  OBVIOUS
<1>9. TabOK(meta, records, archive, memory'[t], known'[t], hydrated'[t], requests'[t],
            phase'[t], work'[t], offer'[t])
  <2>1. TabOK(meta, records, archive, memory[t], known[t], hydrated[t],
              Append(requests[t], request), phase[t], work[t], offer'[t])
    BY <1>5, <1>7, TabAsks
  <2> QED
    BY <1>2, <1>8, <2>1
<1>10. CreatesOnce(requests[t], created)
  BY DEF Inv, FreshInv
<1>11. /\ Awaiting(requests'[t], phase'[t]) \subseteq AwaitedBy(t) \cup CreatedBy(request)
       /\ CreatesOnce(requests'[t], created')
       /\ Carried(requests'[t]) \subseteq Carried(requests[t]) \cup IdsInRequest(request)
  <2>1. /\ Awaiting(Append(requests[t], request), phase[t])
             \subseteq Awaiting(requests[t], phase[t]) \cup CreatedBy(request)
        /\ CreatesOnce(Append(requests[t], request), created \cup CreatedBy(request))
        /\ Carried(Append(requests[t], request))
             \subseteq Carried(requests[t]) \cup IdsInRequest(request)
    BY <1>6, <1>10, FreshWhenGrows
  <2> QED
    BY <1>2, <1>8, <2>1 DEF AwaitedBy
<1>12. SeenIn(memory'[t], requests'[t], work'[t], offer'[t])
         \subseteq SeenBy(t) \cup NamesIn(meta) \cup KnownIds
                   \cup (AwaitedBy(t) \ Awaiting(requests'[t], phase'[t]))
  <2>1. SeenIn(memory'[t], requests'[t], work'[t], offer'[t]) \subseteq SeenBy(t) \cup KnownIds
    BY <1>7, <1>8, <1>11 DEF SeenIn, SeenBy
  <2> QED
    BY <2>1
<1>13. legacy' = legacy /\ UNCHANGED <<meta, records, archive>>
  OBVIOUS
<1> QED
  BY <1>4, <1>8, <1>9, <1>11, <1>12, <1>13, TabMoves

\* What holds of a request that carries nothing.
LEMMA AskedPlainly ==
    ASSUME Inv, NEW t \in Tabs, NEW request, Append1(t, request),
           IsRequest(request), request.op \notin {"create", "undelete", "replace"},
           request.op \in Positional => Prompt(memory[t], hydrated[t], request,
                                               Len(requests[t]) + 1),
           UNCHANGED <<meta, records, archive, legacy, memory, known, hydrated, phase, work,
                       outcome, created>>,
           offer' = offer \/ offer' = [offer EXCEPT ![t] = Nothing]
    PROVE  Inv'
<1>1. Prepared(meta, records, request) /\ CreatedBy(request) = {} /\ IdsInRequest(request) = {}
  BY DEF Prepared, CreatedBy, IdsInRequest
<1>2. Prompt(memory[t], hydrated[t], request, Len(requests[t]) + 1)
  BY DEF Prompt
<1>3. /\ CreatedBy(request) \cap created = {} /\ created' = created \cup CreatedBy(request)
      /\ IdsInRequest(request) \subseteq SeenBy(t) \cup KnownIds
  BY <1>1
<1>4. UNCHANGED <<meta, records, archive, legacy, memory, known, hydrated, phase, work, outcome>>
  OBVIOUS
<1> QED
  BY <1>1, <1>2, <1>3, <1>4, Asked

LEMMA LoadIsRequest == IsRequest(Load)
BY DEF IsRequest, Load, Operations

LEMMA NoticeArrivesKeeps ==
    ASSUME Inv, NEW t \in Tabs, NoticeArrives(t)
    PROVE  Inv'
<1>1. /\ IsRequest(Load) /\ Load.op \notin {"create", "undelete", "replace"}
      /\ Load.op \notin Positional
  BY LoadIsRequest DEF Load, Positional
<1>2. ASSUME NEW request, request = Load
      PROVE  Inv'
  BY <1>1, <1>2, AskedPlainly DEF NoticeArrives, databaseVars
<1> QED
  BY <1>2

LEMMA OpenKeeps ==
    ASSUME Inv, NEW t \in Tabs, Open(t)
    PROVE  Inv'
<1>1. /\ IsRequest(Load) /\ Load.op \notin {"create", "undelete", "replace"}
      /\ Load.op \notin Positional
  BY LoadIsRequest DEF Load, Positional
<1>2. ASSUME NEW request, request = Load
      PROVE  Inv'
  BY <1>1, <1>2, AskedPlainly DEF Open, databaseVars
<1> QED
  BY <1>2

\* A gesture whose request needs nothing of what the tab shows.
LEMMA GesturePlain ==
    ASSUME Inv, NEW t \in Tabs, NEW gesture, NEW request, Ask(t, gesture, request),
           IsRequest(request),
           request.op \notin {"create", "undelete", "replace"} \cup Positional,
           UNCHANGED created, offer' = offer \/ offer' = [offer EXCEPT ![t] = Nothing]
    PROVE  Inv'
<1>1. Append1(t, request)
  BY DEF Ask
<1>2. UNCHANGED <<meta, records, archive, legacy, memory, known, hydrated, phase, work,
                  outcome, created>>
  BY DEF Ask, databaseVars
<1> QED
  BY <1>1, <1>2, AskedPlainly

LEMMA AskForNothingSpecialKeeps ==
    ASSUME Inv, NEW t \in Tabs, AskForNothingSpecial(t)
    PROVE  Inv'
<1> DEFINE simple == {"load", "watchLater", "delete", "dedupe", "unlink", "removeById"}
<1>1. offer' = offer /\ UNCHANGED created
  BY DEF AskForNothingSpecial
<1>2. ASSUME NEW gesture, NEW request, Ask(t, gesture, request), IsRequest(request),
             request.op \notin {"create", "undelete", "replace"} \cup Positional
      PROVE  Inv'
  BY <1>1, <1>2, GesturePlain
<1>3. ASSUME NEW gesture, NEW request, Ask(t, gesture, request), request.op \in simple
      PROVE  Inv'
  <2>1. /\ IsRequest(request)
        /\ request.op \notin {"create", "undelete", "replace"} \cup Positional
    BY <1>3 DEF IsRequest, Operations, Positional
  <2> QED
    BY <1>2, <1>3, <2>1
<1>4. CASE Ask(t, "focus", Load)
  BY <1>3, <1>4 DEF Load
<1>5. CASE Ask(t, "watchLater", [op |-> "watchLater"])
  BY <1>3, <1>5
<1>6. ASSUME NEW id,
             \/ Ask(t, "delete", [op |-> "delete", list |-> id])
             \/ Ask(t, "dedupe", [op |-> "dedupe", list |-> id])
             \/ Ask(t, "unlink", [op |-> "unlink", list |-> id])
      PROVE  Inv'
  BY <1>3, <1>6
<1>7. ASSUME NEW id, NEW song \in Songs,
             Ask(t, "removeById", [op |-> "removeById", list |-> id, song |-> song])
      PROVE  Inv'
  BY <1>3, <1>7
<1>8. ASSUME NEW id, NEW song \in Songs,
             Ask(t, "add", [op |-> "add", list |-> id, songs |-> <<song>>])
      PROVE  Inv'
  <2>1. ASSUME NEW request, request = [op |-> "add", list |-> id, songs |-> <<song>>]
        PROVE  Inv'
    <3>1. request.op = "add" /\ request.songs \in Seq(Songs)
      BY <2>1
    <3>2. /\ IsRequest(request)
          /\ request.op \notin {"create", "undelete", "replace"} \cup Positional
      BY <3>1 DEF IsRequest, Operations, Positional
    <3> QED
      BY <1>2, <1>8, <2>1, <3>2
  <2> QED
    BY <2>1
<1>9. ASSUME NEW id, NEW song \in Songs,
             Ask(t, "toggle", [op |-> "toggle", list |-> id, song |-> song])
      PROVE  Inv'
  <2>1. ASSUME NEW request, request = [op |-> "toggle", list |-> id, song |-> song]
        PROVE  Inv'
    <3>1. request.op = "toggle" /\ request.song \in Songs
      BY <2>1
    <3>2. /\ IsRequest(request)
          /\ request.op \notin {"create", "undelete", "replace"} \cup Positional
      BY <3>1 DEF IsRequest, Operations, Positional
    <3> QED
      BY <1>2, <1>9, <2>1, <3>2
  <2> QED
    BY <2>1
<1> QED
  BY <1>4, <1>5, <1>6, <1>7, <1>8, <1>9 DEF AskForNothingSpecial

LEMMA AskToCreateKeeps ==
    ASSUME Inv, NEW t \in Tabs, AskToCreate(t)
    PROVE  Inv'
<1>1. PICK id \in Lists \ created, linked \in BOOLEAN :
        /\ Ask(t, "create", [op |-> "create", list |-> id, linked |-> linked])
        /\ created' = created \cup {id}
  BY DEF AskToCreate
<1>2. ASSUME NEW request, request = [op |-> "create", list |-> id, linked |-> linked]
      PROVE  Inv'
  <2>1. request.op = "create" /\ request.list = id /\ request.linked \in BOOLEAN
    BY <1>2
  <2>2. /\ IsRequest(request) /\ Prepared(meta, records, request)
        /\ Prompt(memory[t], hydrated[t], request, Len(requests[t]) + 1)
        /\ CreatedBy(request) = {id} /\ IdsInRequest(request) = {}
    BY <2>1 DEF IsRequest, Operations, Prepared, Prompt, Positional, CreatedBy, IdsInRequest
  <2>3. Append1(t, request) /\ offer' = offer
        /\ UNCHANGED <<meta, records, archive, legacy, memory, known, hydrated, phase, work,
                       outcome>>
    BY <1>1, <1>2 DEF Ask, AskToCreate, databaseVars
  <2>4. /\ CreatedBy(request) \cap created = {} /\ created' = created \cup CreatedBy(request)
        /\ IdsInRequest(request) \subseteq SeenBy(t) \cup KnownIds
    BY <1>1, <2>2
  <2> QED
    BY <2>2, <2>3, <2>4, Asked
<1> QED
  BY <1>2

\* What is asked for by position while nothing else is going on stays the first
\* request of its tab.
LEMMA NothingAhead ==
    ASSUME Inv, NEW t \in Tabs, Ahead(t) = {}
    PROVE  Len(requests[t]) + 1 = 1 /\ hydrated[t] = TRUE
<1>1. {requests[t][i].op : i \in DOMAIN requests[t]} = {} /\ ~(hydrated[t] = FALSE)
  BY DEF Ahead
<1>2. IsSequence(requests[t]) /\ hydrated[t] \in BOOLEAN
  BY DEF Inv, TabInv, TabOK, QueueOK, Shapes
<1>3. DOMAIN requests[t] = {}
  BY <1>1
<1>4. DOMAIN requests[t] = 1..Len(requests[t]) /\ Len(requests[t]) \in Nat
  BY <1>2, SequenceDomain
<1>5. Len(requests[t]) = 0
  <2>1. ~(1 \in 1..Len(requests[t]))
    BY <1>3, <1>4
  <2> QED
    BY <1>4, <2>1
<1>6. hydrated[t] = TRUE
  BY <1>1, <1>2
<1> QED
  BY <1>5, <1>6

LEMMA AskByPositionKeeps ==
    ASSUME Inv, NEW t \in Tabs, AskByPosition(t)
    PROVE  Inv'
<1>1. offer' = offer /\ UNCHANGED created
  BY DEF AskByPosition
<1>2. ASSUME NEW gesture, NEW request, Ask(t, gesture, request), request.op \in Positional,
             IsRequest(request),
             request.seen = Shown(t, request.list), request.ahead = Ahead(t)
      PROVE  Inv'
  <2>1. Prompt(memory[t], hydrated[t], request, Len(requests[t]) + 1)
    BY <1>2, NothingAhead DEF Prompt, Shown
  <2>2. request.op \notin {"create", "undelete", "replace"}
    BY <1>2 DEF Positional
  <2>3. Append1(t, request)
        /\ UNCHANGED <<meta, records, archive, legacy, memory, known, hydrated, phase, work,
                       outcome, created>>
    BY <1>1, <1>2 DEF Ask, databaseVars
  <2> QED
    BY <1>1, <1>2, <2>1, <2>2, <2>3, AskedPlainly
<1>3. ASSUME NEW id, NEW rows,
             Ask(t, "remove", [op |-> "remove", list |-> id, rows |-> rows,
                               seen |-> Shown(t, id), ahead |-> Ahead(t)])
      PROVE  Inv'
  <2>1. ASSUME NEW request, request = [op |-> "remove", list |-> id, rows |-> rows,
                                       seen |-> Shown(t, id), ahead |-> Ahead(t)]
        PROVE  Inv'
    <3>1. /\ request.op = "remove" /\ request.list = id
          /\ request.seen = Shown(t, id) /\ request.ahead = Ahead(t)
      BY <2>1
    <3>2. IsRequest(request) /\ request.op \in Positional
      BY <3>1 DEF IsRequest, Operations, Positional
    <3> QED
      BY <1>2, <1>3, <2>1, <3>1, <3>2
  <2> QED
    BY <2>1
<1>4. ASSUME NEW id, NEW from \in Nat \ {0}, NEW to \in Nat \ {0},
             Ask(t, "reorder", [op |-> "reorder", list |-> id, from |-> from, to |-> to,
                                seen |-> Shown(t, id), ahead |-> Ahead(t)])
      PROVE  Inv'
  <2>1. ASSUME NEW request, request = [op |-> "reorder", list |-> id, from |-> from, to |-> to,
                                       seen |-> Shown(t, id), ahead |-> Ahead(t)]
        PROVE  Inv'
    <3>1. /\ request.op = "reorder" /\ request.list = id
          /\ request.from = from /\ request.to = to
          /\ request.seen = Shown(t, id) /\ request.ahead = Ahead(t)
      BY <2>1
    <3>2. IsRequest(request) /\ request.op \in Positional
      BY <3>1 DEF IsRequest, Operations, Positional
    <3> QED
      BY <1>2, <1>4, <2>1, <3>1, <3>2
  <2> QED
    BY <2>1
\* The rows of a list are its positions.
<1>5. ASSUME NEW id \in Ids(memory[t]), NEW i \in DOMAIN Shown(t, id)
      PROVE  i \in Nat \ {0}
  <2>1. IsLibrary(memory[t]) /\ Has(memory[t], id)
    BY HasMeansId DEF Inv, TabInv, TabOK
  <2>2. Shown(t, id) \in Seq(Row)
    BY <2>1, SongsFound DEF Shown
  <2>3. DOMAIN Shown(t, id) = 1..Len(Shown(t, id)) /\ Len(Shown(t, id)) \in Nat
    BY <2>2, LenProperties
  <2> QED
    BY <2>3
<1>6. PICK id \in Ids(memory[t]) :
        \/ \E rows \in SUBSET DOMAIN Shown(t, id) :
              Ask(t, "remove", [op |-> "remove", list |-> id, rows |-> rows,
                                seen |-> Shown(t, id), ahead |-> Ahead(t)])
        \/ \E from, to \in DOMAIN Shown(t, id) :
              Ask(t, "reorder", [op |-> "reorder", list |-> id, from |-> from, to |-> to,
                                 seen |-> Shown(t, id), ahead |-> Ahead(t)])
  BY DEF AskByPosition
<1> QED
  BY <1>3, <1>4, <1>5, <1>6

\* What users may do in an instance stays what its scenario says.
LeftInv ==
    /\ left = [may |-> left.may, gestures |-> left.gestures, closes |-> left.closes,
               oldWrites |-> left.oldWrites, failures |-> left.failures]
    /\ \E s \in Scenarios : left.may = s.budget.may

LEMMA AskToUndoKeeps ==
    ASSUME Inv, LeftInv, NEW t \in Tabs, AskToUndo(t)
    PROVE  Inv'
<1>1. offer' = [offer EXCEPT ![t] = Nothing] /\ UNCHANGED created
  BY DEF AskToUndo
<1>2. CASE /\ offer[t].kind = "deleted"
           /\ Ask(t, "undelete", [op |-> "undelete", snapshot |-> offer[t]])
  <2>1. IsDeleted(offer[t]) /\ IdsInAnswer(offer[t]) = {offer[t].playlist.id}
    BY <1>2 DEF Inv, TabInv, TabOK, IsAnswer, IdsInAnswer
  <2>2. ASSUME NEW request, request = [op |-> "undelete", snapshot |-> offer[t]]
        PROVE  Inv'
    <3>1. request.op = "undelete" /\ request.snapshot = offer[t]
      BY <2>2
    <3>2. /\ IsRequest(request) /\ Prepared(meta, records, request)
          /\ Prompt(memory[t], hydrated[t], request, Len(requests[t]) + 1)
          /\ CreatedBy(request) = {} /\ IdsInRequest(request) = IdsInAnswer(offer[t])
      BY <2>1, <3>1
         DEF IsRequest, Operations, Prepared, Prompt, Positional, CreatedBy, IdsInRequest
    <3>3. Append1(t, request)
          /\ UNCHANGED <<meta, records, archive, legacy, memory, known, hydrated, phase, work,
                         outcome>>
      BY <1>2, <2>2 DEF Ask, databaseVars
    <3>4. /\ CreatedBy(request) \cap created = {}
          /\ created' = created \cup CreatedBy(request)
          /\ IdsInRequest(request) \subseteq SeenBy(t) \cup KnownIds
      BY <1>1, <3>2 DEF SeenBy, SeenIn
    <3> QED
      BY <1>1, <3>2, <3>3, <3>4, Asked
  <2> QED
    BY <2>2
<1>3. ASSUME NEW gesture, NEW double, IsRemoval(offer[t]), GivenOnce => double = FALSE,
             Ask(t, gesture, [op |-> "undo", snapshot |-> offer[t], allowDuplicateIds |-> double])
      PROVE  Inv'
  <2>1. ASSUME NEW request, request = [op |-> "undo", snapshot |-> offer[t],
                                       allowDuplicateIds |-> double]
        PROVE  Inv'
    <3>1. /\ request.op = "undo" /\ request.snapshot = offer[t]
          /\ request.allowDuplicateIds = double
      BY <2>1
    <3>2. /\ IsRequest(request)
          /\ request.op \notin {"create", "undelete", "replace"} \cup Positional
      BY <1>3, <3>1 DEF IsRequest, Operations, Positional
    <3> QED
      BY <1>1, <1>3, <2>1, <3>2, GesturePlain
  <2> QED
    BY <2>1
<1>4. IsAnswer(offer[t])
  BY DEF Inv, TabInv, TabOK
<1>5. CASE offer[t].kind = "removed"
  <2>1. IsRemoval(offer[t])
    BY <1>4, <1>5 DEF IsAnswer
  <2>2. CASE Ask(t, "undo", [op |-> "undo", snapshot |-> offer[t], allowDuplicateIds |-> FALSE])
    BY <1>3, <2>1, <2>2
  <2>3. CASE Ask(t, "health", [op |-> "undo", snapshot |-> offer[t], allowDuplicateIds |-> TRUE])
    <3>1. ~GivenOnce
      BY <2>3 DEF Ask, LeftInv, GivenOnce
    <3> QED
      BY <1>3, <2>1, <2>3, <3>1
  <2> QED
    BY <1>2, <1>3, <1>5, <2>1, <2>2, <2>3 DEF AskToUndo
<1>6. CASE offer[t].kind = "duplicates"
  <2>1. IsRemoval(offer[t]) /\ ~GivenOnce
    BY <1>4, <1>6 DEF IsAnswer
  <2> QED
    BY <1>3, <1>6, <2>1 DEF AskToUndo
<1> QED
  BY <1>2, <1>5, <1>6 DEF AskToUndo

LEMMA AskToRefreshKeeps ==
    ASSUME Inv, NEW t \in Tabs, AskToRefresh(t)
    PROVE  Inv'
<1>1. offer' = offer /\ UNCHANGED created
  BY DEF AskToRefresh
<1>2. ASSUME NEW gesture, NEW id, NEW songs, SongsOK(songs),
             \/ Ask(t, gesture, [op |-> "refresh", list |-> id, songs |-> songs])
             \/ Ask(t, gesture, [op |-> "sync", list |-> id, songs |-> songs])
      PROVE  Inv'
  <2>1. ASSUME NEW request, Ask(t, gesture, request), request.op \in {"refresh", "sync"},
               request.songs = songs
        PROVE  Inv'
    <3>1. /\ IsRequest(request)
          /\ request.op \notin {"create", "undelete", "replace"} \cup Positional
      BY <1>2, <2>1 DEF IsRequest, Operations, Positional
    <3> QED
      BY <1>1, <2>1, <3>1, GesturePlain
  <2> QED
    BY <1>2, <2>1
<1>3. ASSUME NEW songs \in RemoteSongs
      PROVE  SongsOK(songs)
  <2>1. songs \in Seq(Songs) /\ Songs \subseteq Row
    BY RemoteAssumption DEF Row
  <2>2. songs \in Seq(Row)
    BY <2>1, SeqMonotonic
  <2> QED
    BY <2>2 DEF SongsOK, GivenOnce
<1>4. ASSUME NEW id \in Ids(memory[t])
      PROVE  SongsOK(Shown(t, id))
  <2>1. IsLibrary(memory[t]) /\ Has(memory[t], id)
    BY HasMeansId DEF Inv, TabInv, TabOK
  <2> QED
    BY <2>1, SongsFound DEF Shown
<1> QED
  BY <1>2, <1>3, <1>4 DEF AskToRefresh

\* The libraries of backups, of old tabs and of the scenarios.
LEMMA GivenLibraries ==
    ASSUME NEW lib,
           lib \in OldTabLibraries \cup Backups
                   \cup UNION {s.libraries \cup (s.legacy \ Unreadable) : s \in Scenarios}
    PROVE  IsLibrary(lib) /\ Ids(lib) \subseteq KnownIds /\ lib \notin Unreadable
<1>1. lib \in Library /\ DistinctIds(lib)
  BY LibrariesAssumption
<1>2. lib \notin Unreadable
  BY <1>1, LibrariesAssumption
<1>3. lib \in OldTabLibraries \cup Backups \cup UNION {s.libraries \cup s.legacy : s \in Scenarios}
  <2>1. CASE lib \in OldTabLibraries \cup Backups
    BY <2>1
  <2>2. CASE lib \in UNION {s.libraries \cup (s.legacy \ Unreadable) : s \in Scenarios}
    <3>1. PICK s \in Scenarios : lib \in s.libraries \cup (s.legacy \ Unreadable)
      BY <2>2
    <3>2. lib \in s.libraries \cup s.legacy
      BY <3>1
    <3> QED
      BY <3>2
  <2> QED
    BY <2>1, <2>2
<1>4. LibraryIn(lib) = lib
  BY <1>2 DEF LibraryIn
<1>5. Ids(LibraryIn(lib)) \subseteq KnownIds
  BY <1>3 DEF KnownIds
<1> QED
  BY <1>1, <1>2, <1>4, <1>5, PlaylistsAreLists DEF GivenOnce

LEMMA WithWatchLaterIsLibrary ==
    ASSUME NEW backup \in Backups, NEW lib, IsLibrary(lib)
    PROVE  /\ IsLibrary(WithWatchLater(backup, lib))
           /\ Ids(WithWatchLater(backup, lib)) \subseteq KnownIds
<1>1. IsLibrary(backup) /\ Ids(backup) \subseteq KnownIds
  BY GivenLibraries
<1>2. CASE Has(backup, WatchLater) \/ ~Has(lib, WatchLater)
  <2>1. WithWatchLater(backup, lib) = backup
    BY <1>2 DEF WithWatchLater
  <2> QED
    BY <1>1, <2>1
<1>3. CASE ~Has(backup, WatchLater) /\ Has(lib, WatchLater)
  <2> DEFINE pinned == Entry(lib, WatchLater)
  <2>1. WithWatchLater(backup, lib) = <<pinned>> \o backup
    BY <1>3 DEF WithWatchLater
  <2>2. IsList(pinned) /\ pinned.id = WatchLater
    BY <1>3, PlaceFound DEF Entry, IsLibrary
  <2>3. WatchLater \notin Ids(backup) /\ WatchLater \in KnownIds
    BY <1>3, HasMeansId DEF KnownIds
  <2> HIDE DEF pinned
  <2>4. IsLibrary(<<pinned>> \o backup) /\ Ids(<<pinned>> \o backup) = Ids(backup) \cup {pinned.id}
    BY <1>1, <2>2, <2>3, ListPrepended
  <2> QED
    BY <1>1, <2>1, <2>2, <2>3, <2>4
<1> QED
  BY <1>2, <1>3

LEMMA AskToReplaceKeeps ==
    ASSUME Inv, NEW t \in Tabs, AskToReplace(t)
    PROVE  Inv'
<1>1. PICK backup \in Backups :
        Ask(t, "replace", [op |-> "replace", lib |-> WithWatchLater(backup, memory[t]),
                           expected |-> known[t], seen |-> memory[t]])
  BY DEF AskToReplace
<1>2. offer' = offer /\ created' = created
  BY DEF AskToReplace
<1>3. IsLibrary(memory[t]) /\ AsOf(meta, records, memory[t], known[t])
  BY DEF Inv, TabInv, TabOK
<1>4. /\ IsLibrary(WithWatchLater(backup, memory[t]))
      /\ Ids(WithWatchLater(backup, memory[t])) \subseteq KnownIds
  BY <1>3, WithWatchLaterIsLibrary
<1>5. ASSUME NEW request,
             request = [op |-> "replace", lib |-> WithWatchLater(backup, memory[t]),
                        expected |-> known[t], seen |-> memory[t]]
      PROVE  Inv'
  <2>1. /\ request.op = "replace" /\ request.lib = WithWatchLater(backup, memory[t])
        /\ request.expected = known[t] /\ request.seen = memory[t]
    BY <1>5
  <2>2. /\ IsRequest(request) /\ Prepared(meta, records, request)
        /\ Prompt(memory[t], hydrated[t], request, Len(requests[t]) + 1)
        /\ CreatedBy(request) = {} /\ IdsInRequest(request) \subseteq KnownIds
    BY <1>3, <1>4, <2>1
       DEF IsRequest, Operations, Prepared, Prompt, Positional, CreatedBy, IdsInRequest
  <2>3. Append1(t, request)
        /\ UNCHANGED <<meta, records, archive, legacy, memory, known, hydrated, phase, work,
                       outcome>>
    BY <1>1, <1>5 DEF Ask, databaseVars
  <2>4. /\ CreatedBy(request) \cap created = {}
        /\ created' = created \cup CreatedBy(request)
        /\ IdsInRequest(request) \subseteq SeenBy(t) \cup KnownIds
    BY <1>2, <2>2
  <2> QED
    BY <1>2, <2>2, <2>3, <2>4, Asked
<1> QED
  BY <1>5

LEMMA GestureKeeps ==
    ASSUME Inv, LeftInv, NEW t \in Tabs, Gesture(t)
    PROVE  Inv'
BY AskForNothingSpecialKeeps, AskToCreateKeeps, AskByPositionKeeps, AskToUndoKeeps,
   AskToRefreshKeeps, AskToReplaceKeeps DEF Gesture

-----------------------------------------------------------------------------
(* A request that is applied to the copy of the current library.            *)

\* The copy a tab goes on with is the saved library.
Proceeds(t, lib, revision, fresh) ==
    /\ Proceed(t, lib, revision, fresh)
    /\ meta # NoMeta /\ revision = meta.revision /\ lib = Saved(meta, records)
    /\ fresh \/ lib = memory[t]
    /\ requests[t] # <<>> /\ phase[t] \notin {"writing", "publishing"}
    /\ phase[t] # "idle" \/ LockFree(t)
    /\ UNCHANGED <<meta, records, archive, created>>
    /\ legacy' = legacy \/ legacy' = NoLegacy

LEMMA ProceedCopies ==
    ASSUME Inv, NEW t \in Tabs, NEW lib, NEW revision, NEW fresh,
           Proceeds(t, lib, revision, fresh)
    PROVE  /\ CopyChanges(t) /\ memory'[t] = lib /\ known'[t] = revision
           /\ hydrated[t] = TRUE => hydrated'[t] = TRUE
           /\ IsLibrary(lib) /\ Ids(lib) = NamesIn(meta)
           /\ AsOf(meta, records, lib, revision) /\ revision # NoRevision
<1>1. /\ DatabaseOK(meta, records) /\ meta # NoMeta
      /\ revision = meta.revision /\ lib = Saved(meta, records)
  BY DEF Inv, Proceeds
<1>2. IsLibrary(lib) /\ Ids(lib) = NamesIn(meta)
  BY <1>1, SavedIsLibrary
<1>3. AsOf(meta, records, lib, revision) /\ revision # NoRevision
  BY <1>1, RevisionIsNat DEF AsOf
<1>4. Shapes
  BY DEF Inv
<1> DEFINE well == ~StalePositions(t, fresh)
                   /\ Effect(lib, revision, Head(requests[t])).effect # "throws"
<1>5. /\ memory' = [memory EXCEPT ![t] = lib] /\ known' = [known EXCEPT ![t] = revision]
      /\ hydrated' = [hydrated EXCEPT ![t] = @ \/ well]
  BY DEF Proceeds, Proceed
<1>6. well \in BOOLEAN
  OBVIOUS
<1> HIDE DEF well
<1>7. DOMAIN memory' = Tabs /\ DOMAIN known' = Tabs /\ memory'[t] = lib /\ known'[t] = revision
      /\ \A u \in Tabs \ {t} : memory'[u] = memory[u] /\ known'[u] = known[u]
  BY <1>4, <1>5 DEF Shapes
<1>8. /\ hydrated' \in [Tabs -> BOOLEAN] /\ (hydrated[t] = TRUE => hydrated'[t] = TRUE)
      /\ \A u \in Tabs \ {t} : hydrated'[u] = hydrated[u]
  <2>1. hydrated \in [Tabs -> BOOLEAN]
    BY <1>4 DEF Shapes
  <2>2. (hydrated[t] \/ well) \in BOOLEAN /\ (hydrated[t] = TRUE => (hydrated[t] \/ well) = TRUE)
    BY <1>6, <2>1
  <2>3. ASSUME NEW flag \in BOOLEAN, hydrated' = [hydrated EXCEPT ![t] = flag]
        PROVE  /\ hydrated' \in [Tabs -> BOOLEAN] /\ hydrated'[t] = flag
               /\ \A u \in Tabs \ {t} : hydrated'[u] = hydrated[u]
    BY <2>1, <2>3
  <2> QED
    BY <1>5, <2>2, <2>3
<1> QED
  BY <1>2, <1>3, <1>7, <1>8 DEF CopyChanges

\* What the head of the queue does to that copy.
LEMMA HeadSound ==
    ASSUME Inv, NEW t \in Tabs, requests[t] # <<>>, phase[t] \notin {"writing", "publishing"},
           NEW lib, IsLibrary(lib), Ids(lib) = NamesIn(meta), NEW revision
    PROVE  /\ CreatedBy(Head(requests[t])) \cap Ids(lib) = {}
           /\ Sound(lib, Brought(Head(requests[t])), Effect(lib, revision, Head(requests[t])))
<1>1. IsSequence(requests[t]) /\ \A i \in DOMAIN requests[t] : IsRequest(requests[t][i])
  BY DEF Inv, TabInv, TabOK, QueueOK
<1>2. 1 \in DOMAIN requests[t] /\ Head(requests[t]) = requests[t][1]
  BY <1>1, SequenceDomain
<1>3. CreatesOnce(requests[t], created) /\ AwaitedBy(t) \cap (KnownIds \cup NamesIn(meta)) = {}
  BY DEF Inv, FreshInv
<1>4. CreatedBy(Head(requests[t])) \subseteq AwaitedBy(t)
  BY <1>1, <1>3, FreshWhenWriting DEF AwaitedBy
<1>5. CreatedBy(Head(requests[t])) \cap Ids(lib) = {}
  BY <1>3, <1>4
<1> QED
  BY <1>1, <1>2, <1>5, EffectSound

LEMMA ProceedSaves ==
    ASSUME Inv, NEW t \in Tabs, NEW lib, NEW revision, NEW fresh,
           Proceeds(t, lib, revision, fresh), ~StalePositions(t, fresh),
           NEW result, result = Effect(lib, revision, Head(requests[t])),
           result.effect = "saves",
           Continue(t, "writing", [NoWork EXCEPT !.lib = result.lib, !.answer = result.answer])
    PROVE  Inv'
<1>1. /\ CopyChanges(t) /\ memory'[t] = lib /\ known'[t] = revision
      /\ hydrated[t] = TRUE => hydrated'[t] = TRUE
      /\ IsLibrary(lib) /\ Ids(lib) = NamesIn(meta)
      /\ AsOf(meta, records, lib, revision) /\ revision # NoRevision
  BY ProceedCopies
<1>2. Shapes
  BY DEF Inv
<1>3. PICK w : w = [NoWork EXCEPT !.lib = result.lib, !.answer = result.answer]
  OBVIOUS
<1>4. /\ phase' = [phase EXCEPT ![t] = "writing"] /\ work' = [work EXCEPT ![t] = w]
      /\ requests' = requests /\ outcome' = outcome /\ offer' = offer
  BY <1>3 DEF Continue
<1>5. /\ DOMAIN phase' = Tabs /\ DOMAIN work' = Tabs /\ phase'[t] = "writing" /\ work'[t] = w
      /\ \A u \in Tabs \ {t} : phase'[u] = phase[u] /\ work'[u] = work[u]
  BY <1>2, <1>4 DEF Shapes
<1>6. Shapes' /\ OthersStay(t)
  BY <1>1, <1>2, <1>4, <1>5 DEF Shapes, OthersStay, CopyChanges
<1>7. /\ requests[t] # <<>> /\ phase[t] \notin {"writing", "publishing"}
      /\ phase[t] # "idle" \/ LockFree(t)
      /\ meta # NoMeta /\ revision = meta.revision /\ (fresh \/ lib = memory[t])
      /\ UNCHANGED <<meta, records, archive>> /\ created' = created
      /\ (legacy' = legacy \/ legacy' = NoLegacy)
  BY DEF Proceeds
<1>8. /\ CreatedBy(Head(requests[t])) \cap Ids(lib) = {}
      /\ Sound(lib, Brought(Head(requests[t])), result)
  BY <1>1, <1>7, HeadSound
<1>9. TabOK(meta, records, archive, memory[t], known[t], hydrated[t], requests[t], phase[t],
            work[t], offer[t])
  BY DEF Inv, TabInv
<1>10. Head(requests[t]).op \in Positional => hydrated[t] # TRUE \/ lib = memory[t]
  BY <1>7 DEF StalePositions
<1>11. IsWork(w) /\ w.lib = result.lib /\ w.answer = result.answer
  BY <1>3, <1>8, MadeWork DEF Sound
<1>12. TabOK(meta, records, archive, memory'[t], known'[t], hydrated'[t], requests'[t],
             phase'[t], work'[t], offer'[t])
  <2>1. TabOK(meta, records, archive, lib, revision, hydrated'[t], requests[t], "writing", w,
              offer[t])
    <3>1. IsWork(w) /\ Makes(lib, revision, Head(requests[t]), w)
      BY <1>11 DEF Makes
    <3>2. QueueOK(meta, records, memory[t], hydrated[t], requests[t]) /\ IsAnswer(offer[t])
      BY <1>9 DEF TabOK
    <3>3. CarriesOn(memory[t], hydrated[t], lib, hydrated'[t], Head(requests[t]))
      BY <1>1, <1>10 DEF CarriesOn
    <3>4. QueueOK(meta, records, lib, hydrated'[t], requests[t])
      BY <1>7, <3>2, <3>3, QueueStays
    <3> QED
      BY <1>1, <1>7, <3>1, <3>2, <3>4, TabPrepares
  <2> QED
    BY <1>1, <1>4, <1>5, <2>1
<1>13. IsSequence(requests[t]) /\ CreatesOnce(requests[t], created)
  BY <1>9 DEF TabOK, QueueOK, Inv, FreshInv
<1>14. /\ Awaiting(requests[t], "writing") \subseteq AwaitedBy(t)
       /\ CreatedBy(Head(requests[t])) \subseteq AwaitedBy(t) \ Awaiting(requests[t], "writing")
       /\ IdsInRequest(Head(requests[t])) \subseteq Carried(requests[t])
  BY <1>7, <1>13, FreshWhenWriting DEF AwaitedBy
<1>15. SeenIn(memory'[t], requests'[t], work'[t], offer'[t])
         \subseteq SeenBy(t) \cup NamesIn(meta) \cup KnownIds
                   \cup (AwaitedBy(t) \ Awaiting(requests'[t], phase'[t]))
  <2>1. Ids(w.lib) \subseteq NamesIn(meta) \cup Brought(Head(requests[t]))
        /\ IdsInAnswer(w.answer) \subseteq NamesIn(meta)
    BY <1>1, <1>8, <1>11 DEF Sound
  <2>2. Brought(Head(requests[t]))
          \subseteq Carried(requests[t]) \cup KnownIds
                    \cup (AwaitedBy(t) \ Awaiting(requests[t], "writing"))
    BY <1>14 DEF Brought, KnownIds
  <2>3. SeenIn(lib, requests[t], w, offer[t])
          \subseteq SeenBy(t) \cup NamesIn(meta) \cup KnownIds
                    \cup (AwaitedBy(t) \ Awaiting(requests[t], "writing"))
    BY <1>1, <2>1, <2>2 DEF SeenIn, SeenBy
  <2> QED
    BY <1>1, <1>4, <1>5, <2>3
<1>16. /\ Awaiting(requests'[t], phase'[t]) \subseteq AwaitedBy(t) \cup {}
       /\ created' = created \cup {} /\ {} \cap created = {}
       /\ CreatesOnce(requests'[t], created')
  <2>1. created' = created
    BY <1>7
  <2> QED
    BY <1>4, <1>5, <1>13, <1>14, <2>1
<1>17. known'[t] = meta.revision
  BY <1>1, <1>7
<1> QED
  BY <1>5, <1>6, <1>7, <1>12, <1>15, <1>16, <1>17, TabMoves

LEMMA ProceedKeeps ==
    ASSUME Inv, NEW t \in Tabs, NEW lib, NEW revision, NEW fresh,
           Proceeds(t, lib, revision, fresh)
    PROVE  Inv'
<1>1. /\ CopyChanges(t) /\ memory'[t] = lib /\ known'[t] = revision
      /\ IsLibrary(lib) /\ Ids(lib) = NamesIn(meta) /\ AsOf(meta, records, lib, revision)
  BY ProceedCopies
<1>2. PICK result : result = Effect(lib, revision, Head(requests[t]))
  OBVIOUS
<1>3. /\ requests[t] # <<>> /\ phase[t] \notin {"writing", "publishing"}
      /\ UNCHANGED <<meta, records, archive, created>>
      /\ legacy' = legacy \/ (legacy' = NoLegacy /\ meta # NoMeta)
  BY DEF Proceeds
<1>4. Sound(lib, Brought(Head(requests[t])), result)
  BY <1>1, <1>2, <1>3, HeadSound
<1>5. ASSUME NEW answer, Answer(t, answer), IsAnswer(answer),
             IdsInAnswer(answer) \subseteq Ids(lib)
      PROVE  Inv'
  <2>1. Ids(memory'[t]) \cup IdsInAnswer(answer) \subseteq SeenBy(t) \cup NamesIn(meta) \cup KnownIds
    BY <1>1, <1>5
  <2>2. IsLibrary(memory'[t]) /\ AsOf(meta, records, memory'[t], known'[t])
    BY <1>1
  <2> QED
    BY <1>1, <1>3, <1>5, <2>1, <2>2, Answered
<1>6. IsAnswer(Failed) /\ IdsInAnswer(Failed) = {} /\ IsAnswer(Done) /\ IdsInAnswer(Done) = {}
  BY DEF Failed, Done, IsAnswer, IdsInAnswer
<1>7. CASE Answer(t, Failed)
  BY <1>5, <1>6, <1>7
<1>8. CASE Answer(t, Done)
  BY <1>5, <1>6, <1>8
<1>9. CASE result.effect # "saves" /\ Answer(t, result.answer)
  BY <1>4, <1>5, <1>9 DEF Sound
<1>10. CASE /\ ~StalePositions(t, fresh) /\ result.effect = "saves"
            /\ Continue(t, "writing", [NoWork EXCEPT !.lib = result.lib,
                                                     !.answer = result.answer])
  BY <1>2, <1>10, ProceedSaves
<1> QED
  BY <1>2, <1>7, <1>8, <1>9, <1>10 DEF Proceeds, Proceed

LEMMA ReadProceeds ==
    ASSUME Inv, NEW t \in Tabs, Read(t)
    PROVE  Proceeds(t, SavedLibrary, meta.revision, meta.revision # known[t])
<1> DEFINE fresh == meta.revision # known[t]
<1>1. /\ open[t] /\ phase[t] = "idle" /\ requests[t] # <<>> /\ LockFree(t) /\ meta # NoMeta
      /\ Proceed(t, IF fresh THEN SavedLibrary ELSE memory[t], meta.revision, fresh)
      /\ UNCHANGED <<meta, records, archive, created>> /\ legacy' = legacy
  BY DEF Read, Waiting, databaseVars
<1>2. ~fresh => memory[t] = SavedLibrary
  BY <1>1, SavedIsSaved DEF Inv, TabInv, TabOK, AsOf
<1>3. (IF fresh THEN SavedLibrary ELSE memory[t]) = SavedLibrary
  BY <1>2
<1>4. fresh \/ SavedLibrary = memory[t]
  BY <1>2
<1>5. fresh \in BOOLEAN
  OBVIOUS
<1> HIDE DEF fresh
<1>6. Proceed(t, SavedLibrary, meta.revision, fresh)
  BY <1>1, <1>3
<1>7. Proceeds(t, SavedLibrary, meta.revision, fresh)
  BY <1>1, <1>4, <1>6, SavedIsSaved DEF Proceeds
<1> QED
  BY <1>7 DEF fresh

LEMMA ReadKeeps ==
    ASSUME Inv, NEW t \in Tabs, Read(t)
    PROVE  Inv'
<1>1. ASSUME NEW fresh, Proceeds(t, SavedLibrary, meta.revision, fresh)
      PROVE  Inv'
  <2>1. PICK lib, revision : lib = SavedLibrary /\ revision = meta.revision
    OBVIOUS
  <2>2. Proceeds(t, lib, revision, fresh)
    BY <1>1, <2>1
  <2> QED
    BY <2>2, ProceedKeeps
<1> DEFINE fresh == meta.revision # known[t]
<1>2. Proceeds(t, SavedLibrary, meta.revision, fresh)
  BY ReadProceeds
<1> HIDE DEF fresh
<1> QED
  BY <1>1, <1>2

LEMMA MigrationVerifyKeeps ==
    ASSUME Inv, NEW t \in Tabs, MigrationVerify(t)
    PROVE  Inv'
<1>1. TabOK(meta, records, archive, memory[t], known[t], hydrated[t], requests[t], phase[t],
            work[t], offer[t])
  BY DEF Inv, TabInv
<1>2. phase[t] = "verifying" /\ requests[t] # <<>> /\ meta # NoMeta
  BY <1>1 DEF MigrationVerify, TabOK, PhaseOK
<1>3. UNCHANGED <<meta, records, archive, created>>
  BY DEF MigrationVerify, databaseVars
<1>4. CASE /\ legacy' = IF SameBytes(t) THEN NoLegacy ELSE legacy
           /\ Proceed(t, SavedLibrary, meta.revision, TRUE)
  <2>1. PICK lib, revision, fresh :
            lib = SavedLibrary /\ revision = meta.revision /\ fresh = TRUE
    OBVIOUS
  <2>2. Proceed(t, lib, revision, fresh) /\ fresh
    BY <1>4, <2>1
  <2>3. legacy' = legacy \/ legacy' = NoLegacy
    BY <1>4
  <2>4. Proceeds(t, lib, revision, fresh)
    BY <1>2, <1>3, <2>1, <2>2, <2>3, SavedIsSaved DEF Proceeds
  <2> QED
    BY <2>4, ProceedKeeps
<1>5. CASE Answer(t, Failed) /\ UNCHANGED <<legacy, memory, known, hydrated>>
  BY <1>2, <1>3, <1>5, Refused
<1> QED
  BY <1>4, <1>5 DEF MigrationVerify

-----------------------------------------------------------------------------
(* The migration starts, writes fail, a commit is published.                *)

LEMMA MigratedWork ==
    ASSUME NEW bytes, IsLibrary(LibraryIn(bytes))
    PROVE  LET w == [NoWork EXCEPT !.lib = LibraryIn(bytes), !.copied = bytes]
           IN  /\ IsWork(w) /\ w.lib = LibraryIn(bytes) /\ w.copied = bytes
               /\ IdsInAnswer(w.answer) = {}
<1> DEFINE w == [NoWork EXCEPT !.lib = LibraryIn(bytes), !.copied = bytes]
           half == [NoWork EXCEPT !.lib = LibraryIn(bytes)]
<1>1. NoWork = [lib |-> NoWork.lib, answer |-> Nothing, copied |-> NoWork.copied,
                revision |-> NoWork.revision]
  BY DEF NoWork
<1>2. half = [lib |-> LibraryIn(bytes), answer |-> Nothing, copied |-> NoWork.copied,
              revision |-> NoWork.revision]
  BY <1>1
<1>3. w = [half EXCEPT !.copied = bytes]
  OBVIOUS
<1> HIDE DEF half, w
<1>4. w = [lib |-> LibraryIn(bytes), answer |-> Nothing, copied |-> bytes,
           revision |-> NoWork.revision]
  BY <1>2, <1>3
<1>5. w.lib = LibraryIn(bytes) /\ w.answer = Nothing /\ w.copied = bytes
      /\ w.revision = NoWork.revision
  BY <1>4
<1>6. w = [lib |-> w.lib, answer |-> w.answer, copied |-> w.copied, revision |-> w.revision]
  BY <1>4, <1>5
<1>7. IsWork(w) /\ IdsInAnswer(w.answer) = {}
  BY <1>5, <1>6, DoneIsPlain, PlainIsAnswer DEF IsWork
<1> QED
  BY <1>5, <1>7 DEF w

LEMMA StartMigrationKeeps ==
    ASSUME Inv, NEW t \in Tabs, StartMigration(t)
    PROVE  Inv'
<1>1. /\ phase[t] = "idle" /\ requests[t] # <<>> /\ LockFree(t) /\ meta = NoMeta
      /\ UNCHANGED <<meta, records, archive, created, legacy, memory, known, hydrated>>
  BY DEF StartMigration, Waiting, databaseVars
<1>2. CASE Answer(t, Failed)
  BY <1>1, <1>2, Refused
<1>3. CASE Continue(t, "migrating", [NoWork EXCEPT !.lib = LibraryIn(legacy), !.copied = legacy])
  <2>1. PICK w : w = [NoWork EXCEPT !.lib = LibraryIn(legacy), !.copied = legacy]
    OBVIOUS
  <2>2. /\ phase' = [phase EXCEPT ![t] = "migrating"] /\ work' = [work EXCEPT ![t] = w]
        /\ requests' = requests /\ outcome' = outcome /\ offer' = offer
    BY <1>3, <2>1 DEF Continue
  <2>3. IsLibrary(LibraryIn(legacy)) /\ Ids(LibraryIn(legacy)) \subseteq KnownIds /\ Shapes
    BY DEF Inv, LegacyInv
  <2>4. /\ IsWork(w) /\ w.lib = LibraryIn(legacy) /\ w.copied = legacy
        /\ IdsInAnswer(w.answer) = {}
    BY <2>1, <2>3, MigratedWork
  <2>5. /\ DOMAIN phase' = Tabs /\ DOMAIN work' = Tabs /\ phase'[t] = "migrating" /\ work'[t] = w
        /\ \A u \in Tabs \ {t} : phase'[u] = phase[u] /\ work'[u] = work[u]
    BY <2>2, <2>3 DEF Shapes
  <2>6. Shapes' /\ OthersStay(t)
    BY <1>1, <2>2, <2>3, <2>5 DEF Shapes, OthersStay
  <2>7. TabOK(meta, records, archive, memory[t], known[t], hydrated[t], requests[t], phase[t],
              work[t], offer[t])
    BY DEF Inv, TabInv
  <2>8. TabOK(meta, records, archive, memory'[t], known'[t], hydrated'[t], requests'[t],
              phase'[t], work'[t], offer'[t])
    <3>1. PhaseOK(meta, records, archive, memory[t], known[t], requests[t], "migrating", w)
      BY <1>1, <2>4 DEF PhaseOK
    <3>2. TabOK(meta, records, archive, memory[t], known[t], hydrated[t], requests[t],
                "migrating", w, offer[t])
      BY <2>4, <2>7, <3>1 DEF TabOK
    <3> QED
      BY <1>1, <2>2, <2>5, <3>2
  <2>9. Awaiting(requests'[t], phase'[t]) \subseteq AwaitedBy(t) \cup {}
    BY <1>1, <2>2, <2>5 DEF AwaitedBy, Awaiting
  <2>10. SeenIn(memory'[t], requests'[t], work'[t], offer'[t])
           \subseteq SeenBy(t) \cup NamesIn(meta) \cup KnownIds
                     \cup (AwaitedBy(t) \ Awaiting(requests'[t], phase'[t]))
    <3>1. SeenIn(memory[t], requests[t], w, offer[t]) \subseteq SeenBy(t) \cup KnownIds
      BY <2>3, <2>4 DEF SeenIn, SeenBy
    <3> QED
      BY <1>1, <2>2, <2>5, <3>1
  <2>11. created' = created \cup {} /\ {} \cap created = {} /\ CreatesOnce(requests'[t], created')
    <3>1. CreatesOnce(requests[t], created)
      BY DEF Inv, FreshInv
    <3> QED
      BY <1>1, <2>2, <3>1
  <2>12. phase'[t] = "migrating" /\ meta = NoMeta /\ LockFree(t) /\ work'[t].copied = legacy
    BY <1>1, <2>4, <2>5
  <2> QED
    BY <1>1, <2>6, <2>8, <2>9, <2>10, <2>11, <2>12, TabMoves
<1> QED
  BY <1>2, <1>3 DEF StartMigration

LEMMA WriteFailsKeeps ==
    ASSUME Inv, NEW t \in Tabs, WriteFails(t)
    PROVE  Inv'
<1>1. requests[t] # <<>>
  BY DEF WriteFails, Inv, TabInv, TabOK, PhaseOK
<1>2. Answer(t, Failed)
      /\ UNCHANGED <<meta, records, archive, created, legacy, memory, known, hydrated>>
  BY DEF WriteFails, databaseVars
<1> QED
  BY <1>1, <1>2, Refused

LEMMA PublishKeeps ==
    ASSUME Inv, NEW t \in Tabs, Publish(t)
    PROVE  Inv'
<1>1. /\ phase[t] = "publishing" /\ Answer(t, work[t].answer)
      /\ memory' = [memory EXCEPT ![t] = work[t].lib]
      /\ known' = [known EXCEPT ![t] = work[t].revision]
      /\ UNCHANGED <<meta, records, archive, created>> /\ hydrated' = hydrated
      /\ legacy' = legacy
  BY DEF Publish, databaseVars
<1>2. TabOK(meta, records, archive, memory[t], known[t], hydrated[t], requests[t], phase[t],
            work[t], offer[t])
  BY DEF Inv, TabInv
<1>3. /\ requests[t] # <<>> /\ AsOf(meta, records, work[t].lib, work[t].revision)
      /\ IsLibrary(work[t].lib) /\ IsAnswer(work[t].answer)
  BY <1>1, <1>2 DEF TabOK, PhaseOK, IsWork
<1>4. memory'[t] = work[t].lib /\ known'[t] = work[t].revision /\ CopyChanges(t)
  BY <1>1 DEF Inv, Shapes, CopyChanges
<1>5. Ids(work[t].lib) \cup IdsInAnswer(work[t].answer) \subseteq SeenBy(t)
  BY DEF SeenBy, SeenIn
<1>6. PICK answer : answer = work[t].answer
  OBVIOUS
<1>7. /\ Answer(t, answer) /\ IsAnswer(answer)
      /\ IsLibrary(memory'[t]) /\ AsOf(meta, records, memory'[t], known'[t])
      /\ Ids(memory'[t]) \cup IdsInAnswer(answer)
           \subseteq SeenBy(t) \cup NamesIn(meta) \cup KnownIds
  BY <1>1, <1>3, <1>4, <1>5, <1>6
<1> QED
  BY <1>1, <1>3, <1>4, <1>7, Answered

-----------------------------------------------------------------------------
(* A commit.                                                                *)

\* What a tab writes is the new library, and its database the one of its copy.
Committing(t, step, w, before) ==
    /\ requests[t] # <<>>
    /\ WriteDelta(work[t].lib, before, Revision + 1)
    /\ \/ meta = NoMeta /\ before = <<>>
       \/ meta # NoMeta /\ before = Saved(meta, records)
    /\ Continue(t, step, w) /\ IsWork(w) /\ w.lib = work[t].lib /\ w.answer = work[t].answer
    /\ \/ phase[t] = "migrating" /\ step = "verifying" /\ w.copied \in archive'
       \/ phase[t] = "writing" /\ step = "publishing" /\ w.revision = Revision + 1
    /\ archive \subseteq archive'
    /\ created' = created /\ legacy' = legacy
    /\ memory' = memory /\ known' = known /\ hydrated' = hydrated

LEMMA CommitSaves ==
    ASSUME Inv, NEW t \in Tabs, NEW step, NEW w, NEW before, Committing(t, step, w, before)
    PROVE  /\ DatabaseOK(meta', records') /\ meta' # NoMeta
           /\ meta'.revision = RevisionOf(meta) + 1
           /\ Saved(meta', records') = work[t].lib /\ NamesIn(meta') = Ids(work[t].lib)
<1>1. DatabaseOK(meta, records) /\ IsLibrary(work[t].lib)
  BY DEF Inv, TabInv, TabOK, IsWork
<1>2. PICK next, revision : next = work[t].lib /\ revision = Revision + 1
  OBVIOUS
<1>3. Revision = RevisionOf(meta) /\ RevisionOf(meta) \in Nat
  BY <1>1, SavedIsSaved, RevisionIsNat
<1>4. revision \in Nat \ {0}
  BY <1>2, <1>3
<1>5. /\ WriteDelta(next, before, revision)
      /\ \/ meta = NoMeta /\ before = <<>>
         \/ meta # NoMeta /\ before = Saved(meta, records)
  BY <1>2 DEF Committing
<1>6. /\ DatabaseOK(meta', records') /\ meta' # NoMeta /\ meta'.revision = revision
      /\ Saved(meta', records') = next /\ NamesIn(meta') = Ids(next)
  BY <1>1, <1>2, <1>4, <1>5, DeltaSaves
<1> QED
  BY <1>2, <1>3, <1>6

LEMMA CommitKeeps ==
    ASSUME Inv, NEW t \in Tabs, NEW step, NEW w, NEW before, Committing(t, step, w, before)
    PROVE  Inv'
<1>1. /\ DatabaseOK(meta', records') /\ meta' # NoMeta /\ meta'.revision = RevisionOf(meta) + 1
      /\ Saved(meta', records') = work[t].lib /\ NamesIn(meta') = Ids(work[t].lib)
  BY CommitSaves
<1>2. Shapes /\ DatabaseOK(meta, records) /\ FreshInv /\ LegacyInv /\ LockInv
  BY DEF Inv
<1>3. /\ phase' = [phase EXCEPT ![t] = step] /\ work' = [work EXCEPT ![t] = w]
      /\ requests' = requests /\ outcome' = outcome /\ offer' = offer
      /\ memory' = memory /\ known' = known /\ hydrated' = hydrated
      /\ created' = created /\ legacy' = legacy /\ archive \subseteq archive'
  BY DEF Committing, Continue
<1>4. /\ DOMAIN phase' = Tabs /\ DOMAIN work' = Tabs /\ phase'[t] = step /\ work'[t] = w
      /\ \A u \in Tabs \ {t} : phase'[u] = phase[u] /\ work'[u] = work[u]
  BY <1>2, <1>3 DEF Shapes
<1>5. Shapes' /\ OthersStay(t)
  BY <1>2, <1>3, <1>4 DEF Shapes, OthersStay
<1>6. /\ IsWork(w) /\ w.lib = work[t].lib /\ w.answer = work[t].answer /\ requests[t] # <<>>
      /\ \/ phase[t] = "migrating" /\ step = "verifying" /\ w.copied \in archive'
         \/ phase[t] = "writing" /\ step = "publishing" /\ w.revision = Revision + 1
  BY DEF Committing
<1>7. ASSUME NEW u \in Tabs
      PROVE  TabOK(meta', records', archive', memory[u], known[u], hydrated[u], requests[u],
                   phase[u], work[u], offer[u])
  <2>1. TabOK(meta, records, archive, memory[u], known[u], hydrated[u], requests[u], phase[u],
              work[u], offer[u])
    BY DEF Inv, TabInv
  <2> QED
    BY <1>1, <1>2, <1>3, <2>1, TabLater
<1>8. TabInv'
  <2>1. ASSUME NEW u \in Tabs \ {t}
        PROVE  TabOK(meta', records', archive', memory'[u], known'[u], hydrated'[u],
                     requests'[u], phase'[u], work'[u], offer'[u])
    BY <1>3, <1>4, <1>7
  <2>2. step = "publishing" => AsOf(meta', records', w.lib, w.revision)
    <3>1. Revision = RevisionOf(meta) /\ RevisionOf(meta) \in Nat
      BY <1>2, SavedIsSaved, RevisionIsNat
    <3>2. RevisionOf(meta') = meta'.revision
      BY <1>1 DEF RevisionOf
    <3> QED
      BY <1>1, <1>6, <3>1, <3>2 DEF AsOf
  <2>3. PhaseOK(meta', records', archive', memory[t], known[t], requests[t], step, w)
    BY <1>1, <1>6, <2>2 DEF PhaseOK
  <2>4. TabOK(meta', records', archive', memory[t], known[t], hydrated[t], requests[t], step, w,
              offer[t])
    BY <1>6, <1>7, <2>3 DEF TabOK
  <2>5. TabOK(meta', records', archive', memory'[t], known'[t], hydrated'[t], requests'[t],
              phase'[t], work'[t], offer'[t])
    BY <1>3, <1>4, <2>4
  <2> QED
    BY <2>1, <2>5 DEF TabInv
<1>9. FreshInv'
  <2>1. SeenIn(memory'[t], requests'[t], work'[t], offer'[t]) = SeenBy(t)
    BY <1>3, <1>4, <1>6 DEF SeenIn, SeenBy
  <2>2. Awaiting(requests'[t], phase'[t]) = AwaitedBy(t)
    BY <1>3, <1>4, <1>6 DEF Awaiting, AwaitedBy
  <2>3. Ids(work[t].lib) \subseteq SeenBy(t)
    BY DEF SeenBy, SeenIn
  <2>4. CreatesOnce(requests'[t], created')
    <3>1. CreatesOnce(requests[t], created)
      BY <1>2 DEF FreshInv
    <3> QED
      BY <1>3, <3>1
  <2>5. /\ SeenIn(memory'[t], requests'[t], work'[t], offer'[t])
             \subseteq SeenBy(t) \cup NamesIn(meta) \cup KnownIds
                       \cup (AwaitedBy(t) \ Awaiting(requests'[t], phase'[t]))
        /\ Awaiting(requests'[t], phase'[t]) \subseteq AwaitedBy(t) \cup {}
        /\ {} \cap created = {} /\ created' = created \cup {}
        /\ NamesIn(meta') \subseteq NamesIn(meta) \cup SeenBy(t)
    BY <1>1, <1>3, <2>1, <2>2, <2>3
  <2> QED
    BY <1>2, <1>5, <2>4, <2>5, FreshStep
<1>10. LegacyInv'
  BY <1>2, <1>3 DEF LegacyInv, LibraryIn, Ids, KnownIds
<1>11. LockInv'
  <2>1. Saved(meta', records') = work'[t].lib /\ phase'[t] \notin {"migrating", "writing"}
    BY <1>1, <1>4, <1>6
  <2>2. phase[t] # "idle"
    BY <1>6
  <2> QED
    BY <1>2, <1>5, <2>1, <2>2, LockStep
<1>12. CopyInv'
  BY <1>1 DEF CopyInv
<1> QED
  BY <1>1, <1>5, <1>8, <1>9, <1>10, <1>11, <1>12 DEF Inv

LEMMA WriteCommits ==
    ASSUME Inv, NEW t \in Tabs, Write(t), Current(known[t])
    PROVE  /\ meta # NoMeta /\ known[t] = meta.revision /\ memory[t] = SavedLibrary
           /\ Makes(memory[t], known[t], Head(requests[t]), work[t])
           /\ phase[t] = "writing"
<1>1. TabOK(meta, records, archive, memory[t], known[t], hydrated[t], requests[t], phase[t],
            work[t], offer[t])
  BY DEF Inv, TabInv
<1>2. /\ phase[t] = "writing" /\ known[t] # NoRevision
      /\ Makes(memory[t], known[t], Head(requests[t]), work[t])
  BY <1>1 DEF Write, TabOK, PhaseOK
<1>3. RevisionOf(meta) = known[t] /\ meta # NoMeta
  BY <1>2, SavedIsSaved DEF Current, RevisionOf
<1>4. known[t] = meta.revision
  BY <1>3 DEF RevisionOf
<1>5. memory[t] = SavedLibrary
  BY <1>1, <1>3, <1>4, SavedIsSaved DEF TabOK, AsOf
<1> QED
  BY <1>2, <1>3, <1>4, <1>5

\* The commit of an action that has been applied to a current copy.
LEMMA WriteIsCommit ==
    ASSUME Inv, NEW t \in Tabs, Write(t), Current(known[t]),
           Continue(t, "publishing", [work[t] EXCEPT !.revision = Revision + 1]),
           WriteDelta(work[t].lib, memory[t], Revision + 1)
    PROVE  \E w : Committing(t, "publishing", w, memory[t])
<1>1. TabOK(meta, records, archive, memory[t], known[t], hydrated[t], requests[t], phase[t],
            work[t], offer[t])
  BY DEF Inv, TabInv
<1>2. IsWork(work[t]) /\ requests[t] # <<>>
  BY <1>1 DEF Write, TabOK, PhaseOK
<1>3. PICK w, old, revision : /\ old = work[t] /\ revision = Revision + 1
                              /\ w = [old EXCEPT !.revision = revision]
  OBVIOUS
<1>4. old = [lib |-> old.lib, answer |-> old.answer, copied |-> old.copied,
             revision |-> old.revision]
  BY <1>2, <1>3 DEF IsWork
<1>5. w = [lib |-> old.lib, answer |-> old.answer, copied |-> old.copied, revision |-> revision]
  BY <1>3, <1>4
<1>6. w.lib = old.lib /\ w.answer = old.answer /\ w.copied = old.copied /\ w.revision = revision
  BY <1>5
<1>7. w = [lib |-> w.lib, answer |-> w.answer, copied |-> w.copied, revision |-> w.revision]
  BY <1>5, <1>6
<1>8. IsWork(w) /\ w.lib = work[t].lib /\ w.answer = work[t].answer /\ w.revision = Revision + 1
  BY <1>2, <1>3, <1>6, <1>7 DEF IsWork
<1>9. Continue(t, "publishing", w)
  BY <1>3
<1>10. meta # NoMeta /\ memory[t] = Saved(meta, records) /\ phase[t] = "writing"
  BY WriteCommits, SavedIsSaved
<1>11. /\ archive' = archive /\ created' = created /\ legacy' = legacy
       /\ memory' = memory /\ known' = known /\ hydrated' = hydrated
  BY DEF Write
<1> QED
  BY <1>2, <1>8, <1>9, <1>10, <1>11 DEF Committing

LEMMA WriteKeeps ==
    ASSUME Inv, NEW t \in Tabs, Write(t)
    PROVE  Inv'
<1>1. CASE /\ Current(known[t]) /\ WriteDelta(work[t].lib, memory[t], Revision + 1)
           /\ Continue(t, "publishing", [work[t] EXCEPT !.revision = Revision + 1])
  <2>1. PICK w : Committing(t, "publishing", w, memory[t])
    BY <1>1, WriteIsCommit
  <2>2. PICK step, before : step = "publishing" /\ before = memory[t]
    OBVIOUS
  <2>3. Committing(t, step, w, before)
    BY <2>1, <2>2
  <2> QED
    BY <2>3, CommitKeeps
<1>2. CASE ~Current(known[t]) /\ Answer(t, Failed) /\ UNCHANGED <<meta, records>>
  <2>1. UNCHANGED <<meta, records, archive, created, legacy, memory, known, hydrated>>
    BY <1>2 DEF Write
  <2>2. requests[t] # <<>>
    BY DEF Write, Inv, TabInv, TabOK, PhaseOK
  <2> QED
    BY <1>2, <2>1, <2>2, Refused
<1> QED
  BY <1>1, <1>2 DEF Write

LEMMA MigrationCommits ==
    ASSUME Inv, NEW t \in Tabs, MigrationWrite(t), Current(NoRevision),
           WriteDelta(work[t].lib, <<>>, Revision + 1), archive' = archive \cup {work[t].copied},
           Continue(t, "verifying", work[t])
    PROVE  Committing(t, "verifying", work[t], <<>>)
<1>1. TabOK(meta, records, archive, memory[t], known[t], hydrated[t], requests[t], phase[t],
            work[t], offer[t])
  BY DEF Inv, TabInv
<1>2. IsWork(work[t]) /\ requests[t] # <<>> /\ phase[t] = "migrating"
  BY <1>1 DEF MigrationWrite, TabOK, PhaseOK
<1>3. meta = NoMeta
  BY SavedIsSaved, RevisionIsNat DEF Current, Inv
<1>4. /\ created' = created /\ legacy' = legacy
      /\ memory' = memory /\ known' = known /\ hydrated' = hydrated
  BY DEF MigrationWrite
<1> QED
  BY <1>2, <1>3, <1>4 DEF Committing

LEMMA MigrationWriteKeeps ==
    ASSUME Inv, NEW t \in Tabs, MigrationWrite(t)
    PROVE  Inv'
<1>1. CASE /\ Current(NoRevision) /\ WriteDelta(work[t].lib, <<>>, Revision + 1)
           /\ archive' = archive \cup {work[t].copied} /\ Continue(t, "verifying", work[t])
  <2>1. PICK step, w, before : step = "verifying" /\ w = work[t] /\ before = <<>>
    OBVIOUS
  <2>2. Committing(t, step, w, before)
    BY <1>1, <2>1, MigrationCommits
  <2> QED
    BY <2>2, CommitKeeps
<1>2. CASE ~Current(NoRevision) /\ Answer(t, Failed) /\ UNCHANGED databaseVars
  <2>1. UNCHANGED <<meta, records, archive, created, legacy, memory, known, hydrated>>
    BY <1>2 DEF MigrationWrite, databaseVars
  <2>2. requests[t] # <<>>
    BY DEF MigrationWrite, Inv, TabInv, TabOK, PhaseOK
  <2> QED
    BY <1>2, <2>1, <2>2, Refused
<1> QED
  BY <1>1, <1>2 DEF MigrationWrite

-----------------------------------------------------------------------------
(* Tabs are closed, old tabs write.                                         *)

LEMMA ClosedTab ==
    ASSUME NEW m, NEW rs, DatabaseOK(m, rs), NEW ar, NEW ids
    PROVE  /\ TabOK(m, rs, ar, <<>>, NoRevision, FALSE, <<>>, "idle", NoWork, Nothing)
           /\ SeenIn(<<>>, <<>>, NoWork, Nothing) = {} /\ Awaiting(<<>>, "idle") = {}
           /\ CreatesOnce(<<>>, ids)
<1>1. IsLibrary(<<>>) /\ Ids(<<>>) = {} /\ DOMAIN (<<>>) = {}
  BY EmptyLibrary
<1>2. AsOf(m, rs, <<>>, NoRevision)
  BY RevisionIsNat DEF AsOf, NoRevision
<1>3. QueueOK(m, rs, <<>>, FALSE, <<>>)
  BY <1>1 DEF QueueOK, IsLibrary
<1>4. PhaseOK(m, rs, ar, <<>>, NoRevision, <<>>, "idle", NoWork)
  BY DEF PhaseOK
<1>5. IsAnswer(Nothing) /\ IdsInAnswer(Nothing) = {}
  BY DoneIsPlain, PlainIsAnswer
<1>6. TabOK(m, rs, ar, <<>>, NoRevision, FALSE, <<>>, "idle", NoWork, Nothing)
  BY <1>1, <1>2, <1>3, <1>4, <1>5, NoWorkIsWork DEF TabOK
<1>7. Creations(<<>>) = {} /\ Carried(<<>>) = {}
  BY <1>1 DEF Creations, Carried
<1>8. SeenIn(<<>>, <<>>, NoWork, Nothing) = {}
  BY <1>1, <1>5, <1>7, NoWorkIsWork DEF SeenIn
<1> QED
  BY <1>6, <1>7, <1>8 DEF Awaiting, CreatesOnce

LEMMA CloseKeeps ==
    ASSUME Inv, NEW t \in Tabs, Close(t)
    PROVE  Inv'
<1>1. /\ memory' = [memory EXCEPT ![t] = <<>>] /\ known' = [known EXCEPT ![t] = NoRevision]
      /\ hydrated' = [hydrated EXCEPT ![t] = FALSE]
      /\ requests' = [requests EXCEPT ![t] = <<>>] /\ phase' = [phase EXCEPT ![t] = "idle"]
      /\ work' = [work EXCEPT ![t] = NoWork] /\ outcome' = [outcome EXCEPT ![t] = Nothing]
      /\ offer' = [offer EXCEPT ![t] = Nothing]
      /\ UNCHANGED <<meta, records, archive>> /\ created' = created /\ legacy' = legacy
  BY DEF Close, databaseVars
<1>2. Shapes /\ DatabaseOK(meta, records)
  BY DEF Inv
<1>3. /\ memory'[t] = <<>> /\ known'[t] = NoRevision /\ hydrated'[t] = FALSE
      /\ requests'[t] = <<>> /\ phase'[t] = "idle" /\ work'[t] = NoWork /\ offer'[t] = Nothing
  BY <1>1, <1>2 DEF Shapes
<1>4. Shapes'
  BY <1>1, <1>2 DEF Shapes
<1>5. OthersStay(t)
  BY <1>1, <1>2 DEF Shapes, OthersStay
<1>6. /\ TabOK(meta, records, archive, memory'[t], known'[t], hydrated'[t], requests'[t],
               phase'[t], work'[t], offer'[t])
      /\ SeenIn(memory'[t], requests'[t], work'[t], offer'[t]) = {}
      /\ Awaiting(requests'[t], phase'[t]) = {}
  BY <1>2, <1>3, ClosedTab
<1>7. CreatesOnce(requests'[t], created')
  BY <1>2, <1>3, ClosedTab
<1>8. /\ SeenIn(memory'[t], requests'[t], work'[t], offer'[t])
            \subseteq SeenBy(t) \cup NamesIn(meta) \cup KnownIds
                      \cup (AwaitedBy(t) \ Awaiting(requests'[t], phase'[t]))
      /\ Awaiting(requests'[t], phase'[t]) \subseteq AwaitedBy(t) \cup {}
      /\ {} \cap created = {} /\ created' = created \cup {}
  BY <1>1, <1>6
<1> QED
  BY <1>1, <1>3, <1>4, <1>5, <1>6, <1>7, <1>8, TabMoves

\* Nothing of the database and the tabs changes.
LEMMA RestStays ==
    ASSUME Inv, UNCHANGED <<databaseVars, tabVars, created>>, LegacyInv', CopyInv'
    PROVE  Inv'
<1>1. /\ meta' = meta /\ records' = records /\ archive' = archive /\ created' = created
      /\ memory' = memory /\ known' = known /\ hydrated' = hydrated /\ requests' = requests
      /\ phase' = phase /\ work' = work /\ outcome' = outcome /\ offer' = offer
  BY DEF databaseVars, tabVars
<1>2. Shapes'
  BY <1>1 DEF Inv, Shapes
<1>3. DatabaseOK(meta', records')
  BY <1>1 DEF Inv
<1>4. TabInv'
  <2>1. ASSUME NEW u \in Tabs
        PROVE  TabOK(meta', records', archive', memory'[u], known'[u], hydrated'[u],
                     requests'[u], phase'[u], work'[u], offer'[u])
    <3>1. TabOK(meta, records, archive, memory[u], known[u], hydrated[u], requests[u], phase[u],
                work[u], offer[u])
      BY DEF Inv, TabInv
    <3> QED
      BY <1>1, <3>1
  <2> QED
    BY <2>1 DEF TabInv
<1>5. FreshInv'
  <2>1. NamesIn(meta') = NamesIn(meta)
    BY <1>1
  <2>2. ASSUME NEW u \in Tabs
        PROVE  /\ SeenBy(u)' = SeenBy(u) /\ AwaitedBy(u)' = AwaitedBy(u)
               /\ CreatesOnce(requests[u], created) => CreatesOnce(requests'[u], created')
    BY <1>1 DEF SeenBy, AwaitedBy
  <2>3. FreshInv
    BY DEF Inv
  <2> QED
    BY <1>1, <2>1, <2>2, <2>3 DEF FreshInv
<1>6. LockInv'
  BY <1>1 DEF Inv, LockInv, LockedWritesSucceed, Current, Revision, SavedLibrary
<1> QED
  BY <1>2, <1>3, <1>4, <1>5, <1>6 DEF Inv

LEMMA OldTabWritesKeeps ==
    ASSUME Inv, OldTabWrites
    PROVE  Inv'
<1>1. legacy' \in OldTabLibraries /\ UNCHANGED <<databaseVars, tabVars, created>>
  BY DEF OldTabWrites
<1>2. PICK bytes : bytes = legacy'
  OBVIOUS
<1>3. IsLibrary(bytes) /\ Ids(bytes) \subseteq KnownIds /\ LibraryIn(bytes) = bytes
  BY <1>1, <1>2, GivenLibraries DEF LibraryIn
<1>4. LegacyInv'
  BY <1>2, <1>3 DEF LegacyInv
<1>5. CopyInv'
  BY <1>1 DEF CopyInv
<1> QED
  BY <1>1, <1>4, <1>5, RestStays

LEMMA StutterKeeps ==
    ASSUME Inv, UNCHANGED vars
    PROVE  Inv'
<1>1. UNCHANGED <<databaseVars, tabVars, created>> /\ legacy' = legacy
  BY DEF vars
<1>2. LegacyInv'
  BY <1>1 DEF Inv, LegacyInv
<1>3. CopyInv'
  BY <1>1 DEF Inv, CopyInv, databaseVars, tabVars
<1> QED
  BY <1>1, <1>2, <1>3, RestStays

-----------------------------------------------------------------------------
(* The beginning.                                                           *)

\* A scenario that starts from a library in the database.
LEMMA MigratedDatabase ==
    ASSUME NEW lib, IsLibrary(lib),
           meta = [revision |-> 1, ids |-> [i \in DOMAIN lib |-> lib[i].id]],
           records = [id \in Ids(lib) |-> Entry(lib, id)]
    PROVE  /\ DatabaseOK(meta, records) /\ meta # NoMeta
           /\ NamesIn(meta) = Ids(lib) /\ Saved(meta, records) = lib
<1> DEFINE ids == [i \in DOMAIN lib |-> lib[i].id]
<1>1. IsSequence(lib) /\ DOMAIN lib = 1..Len(lib) /\ Len(lib) \in Nat
  BY SequenceDomain DEF IsLibrary
<1>2. ids \in [1..Len(lib) -> Lists]
  BY <1>1, ListFields DEF IsLibrary
<1>3. ids \in Seq(Lists)
  BY <1>1, <1>2, FunctionIsSeq
<1>4. DOMAIN ids = DOMAIN lib /\ \A i \in DOMAIN lib : ids[i] = lib[i].id
  OBVIOUS
<1>5. meta.ids = ids /\ meta.revision = 1 /\ meta = [revision |-> meta.revision, ids |-> meta.ids]
  OBVIOUS
<1> HIDE DEF ids
<1>6. meta \in [revision : Nat \ {0}, ids : Seq(Lists)] /\ meta \in [revision : Nat, ids : Seq(Lists)]
  BY <1>3, <1>5
<1>7. meta # NoMeta
  BY <1>6, LibrariesAssumption
<1>8. \A i, j \in DOMAIN meta.ids : meta.ids[i] = meta.ids[j] => i = j
  BY <1>4, <1>5 DEF IsLibrary, DistinctIds
<1>9. ToSet(meta.ids) = Ids(lib)
  BY <1>4, <1>5 DEF ToSet, Ids
<1>10. ASSUME NEW i \in DOMAIN lib
       PROVE  lib[i].id \in DOMAIN records /\ records[lib[i].id] = lib[i]
  <2>1. lib[i].id \in Ids(lib)
    BY DEF Ids
  <2>2. records[lib[i].id] = Entry(lib, lib[i].id)
    BY <2>1
  <2> QED
    BY <2>1, <2>2, EntryFound
<1>11. ASSUME NEW id \in DOMAIN records
       PROVE  IsList(records[id]) /\ records[id].id = id
  <2>1. PICK i \in DOMAIN lib : id = lib[i].id
    BY DEF Ids
  <2> QED
    BY <1>10, <2>1 DEF IsLibrary
<1>12. DOMAIN records = ToSet(meta.ids)
  BY <1>9
<1>13. DatabaseOK(meta, records)
  BY <1>6, <1>7, <1>8, <1>11, <1>12 DEF DatabaseOK
<1>14. /\ IsLibrary(Saved(meta, records)) /\ DOMAIN Saved(meta, records) = DOMAIN lib
       /\ \A i \in DOMAIN lib : Saved(meta, records)[i] = records[lib[i].id]
  BY <1>4, <1>5, <1>7, <1>13, SavedIsLibrary
<1>15. Saved(meta, records) = lib
  BY <1>1, <1>10, <1>14, SameSequence DEF IsLibrary
<1> QED
  BY <1>7, <1>9, <1>13, <1>15 DEF NamesIn

LEMMA InitDatabase ==
    ASSUME Init
    PROVE  /\ DatabaseOK(meta, records) /\ LegacyInv /\ NamesIn(meta) \subseteq KnownIds
           /\ meta # NoMeta => legacy = NoLegacy
<1>1. PICK s \in Scenarios : StartsMigrated(s.libraries) \/ StartsLegacy(s.legacy)
  BY DEF Init
<1>2. CASE StartsMigrated(s.libraries)
  <2>1. PICK lib \in s.libraries :
          /\ meta = [revision |-> 1, ids |-> [i \in DOMAIN lib |-> lib[i].id]]
          /\ records = [id \in Ids(lib) |-> Entry(lib, id)]
          /\ legacy = NoLegacy
    BY <1>2 DEF StartsMigrated
  <2>2. IsLibrary(lib) /\ Ids(lib) \subseteq KnownIds
    BY GivenLibraries
  <2>3. DatabaseOK(meta, records) /\ meta # NoMeta /\ NamesIn(meta) = Ids(lib)
    BY <2>1, <2>2, MigratedDatabase
  <2>4. LegacyInv
    BY <2>1, EmptyLegacy DEF LegacyInv
  <2> QED
    BY <2>1, <2>2, <2>3, <2>4
<1>3. CASE StartsLegacy(s.legacy)
  <2>1. legacy \in s.legacy /\ meta = NoMeta /\ records = <<>>
    BY <1>3 DEF StartsLegacy
  <2>2. DatabaseOK(meta, records) /\ NamesIn(meta) = {}
    BY <2>1 DEF DatabaseOK, NamesIn
  <2>3. CASE legacy \in Unreadable
    BY <2>1, <2>2, <2>3, EmptyLibrary DEF LegacyInv, LibraryIn
  <2>4. CASE legacy \notin Unreadable
    <3>1. PICK bytes : bytes = legacy
      OBVIOUS
    <3>2. bytes \in UNION {z.libraries \cup (z.legacy \ Unreadable) : z \in Scenarios}
      BY <2>1, <2>4, <3>1
    <3>3. IsLibrary(bytes) /\ Ids(bytes) \subseteq KnownIds
      BY <3>2, GivenLibraries
    <3>4. LibraryIn(legacy) = bytes
      BY <2>4, <3>1 DEF LibraryIn
    <3> QED
      BY <2>1, <2>2, <3>3, <3>4 DEF LegacyInv
  <2> QED
    BY <2>3, <2>4
<1> QED
  BY <1>1, <1>2, <1>3

LEMMA InitInv ==
    ASSUME Init
    PROVE  Inv
<1>1. DatabaseOK(meta, records) /\ LegacyInv /\ NamesIn(meta) \subseteq KnownIds
  BY InitDatabase
<1>2. /\ memory = [t \in Tabs |-> <<>>] /\ known = [t \in Tabs |-> NoRevision]
      /\ hydrated = [t \in Tabs |-> FALSE]
      /\ requests = [t \in Tabs |-> <<>>] /\ phase = [t \in Tabs |-> "idle"]
      /\ work = [t \in Tabs |-> NoWork] /\ outcome = [t \in Tabs |-> Nothing]
      /\ offer = [t \in Tabs |-> Nothing] /\ created = KnownIds
  BY DEF Init
<1>3. Shapes
  BY <1>2 DEF Shapes
<1>4. ASSUME NEW t \in Tabs
      PROVE  /\ memory[t] = <<>> /\ known[t] = NoRevision /\ hydrated[t] = FALSE
             /\ requests[t] = <<>> /\ phase[t] = "idle" /\ work[t] = NoWork
             /\ offer[t] = Nothing
  BY <1>2
<1>5. ASSUME NEW t \in Tabs
      PROVE  /\ TabOK(meta, records, archive, memory[t], known[t], hydrated[t], requests[t],
                      phase[t], work[t], offer[t])
             /\ SeenBy(t) = {} /\ AwaitedBy(t) = {} /\ CreatesOnce(requests[t], created)
  BY <1>1, <1>4, ClosedTab DEF SeenBy, AwaitedBy
<1>6. TabInv
  BY <1>5 DEF TabInv
<1>7. FreshInv
  BY <1>1, <1>2, <1>5 DEF FreshInv
<1>8. LockInv /\ CopyInv
  BY <1>4 DEF LockInv, LockedWritesSucceed, CopyInv
<1> QED
  BY <1>1, <1>3, <1>6, <1>7, <1>8 DEF Inv

LEMMA StepInv ==
    ASSUME Inv, LeftInv, [Next]_vars
    PROVE  Inv'
<1>1. ASSUME NEW t \in Tabs, RequestStep(t)
      PROVE  Inv'
  BY <1>1, ReadKeeps, StartMigrationKeeps, MigrationWriteKeeps, MigrationVerifyKeeps,
     WriteKeeps, PublishKeeps DEF RequestStep
<1>2. ASSUME NEW t \in Tabs,
             WriteFails(t) \/ NoticeArrives(t) \/ Open(t) \/ Close(t) \/ Gesture(t)
      PROVE  Inv'
  BY <1>2, WriteFailsKeeps, NoticeArrivesKeeps, OpenKeeps, CloseKeeps, GestureKeeps
<1>3. CASE OldTabWrites
  BY <1>3, OldTabWritesKeeps
<1>4. CASE UNCHANGED vars
  BY <1>4, StutterKeeps
<1> QED
  BY <1>1, <1>2, <1>3, <1>4 DEF Next

LEMMA GestureAsks ==
    ASSUME NEW t \in Tabs, Gesture(t)
    PROVE  \E gesture, request : Ask(t, gesture, request)
BY DEF Gesture, AskForNothingSpecial, AskToCreate, AskByPosition, AskToUndo, AskToRefresh,
       AskToReplace

LEMMA LeftSpent ==
    ASSUME LeftInv,
           \/ left' = left
           \/ left' = [left EXCEPT !.gestures = @ - 1]
           \/ left' = [left EXCEPT !.closes = @ - 1]
           \/ left' = [left EXCEPT !.oldWrites = @ - 1]
           \/ left' = [left EXCEPT !.failures = @ - 1]
    PROVE  LeftInv'
<1>1. left = [may |-> left.may, gestures |-> left.gestures, closes |-> left.closes,
              oldWrites |-> left.oldWrites, failures |-> left.failures]
  BY DEF LeftInv
<1>2. \E g, c, o, f : left' = [may |-> left.may, gestures |-> g, closes |-> c,
                               oldWrites |-> o, failures |-> f]
  <2>1. CASE left' = left
    BY <1>1, <2>1
  <2>2. CASE left' = [left EXCEPT !.gestures = @ - 1]
    <3>1. left' = [may |-> left.may, gestures |-> left.gestures - 1, closes |-> left.closes,
                   oldWrites |-> left.oldWrites, failures |-> left.failures]
      BY <1>1, <2>2
    <3> QED
      BY <3>1
  <2>3. CASE left' = [left EXCEPT !.closes = @ - 1]
    <3>1. left' = [may |-> left.may, gestures |-> left.gestures, closes |-> left.closes - 1,
                   oldWrites |-> left.oldWrites, failures |-> left.failures]
      BY <1>1, <2>3
    <3> QED
      BY <3>1
  <2>4. CASE left' = [left EXCEPT !.oldWrites = @ - 1]
    <3>1. left' = [may |-> left.may, gestures |-> left.gestures, closes |-> left.closes,
                   oldWrites |-> left.oldWrites - 1, failures |-> left.failures]
      BY <1>1, <2>4
    <3> QED
      BY <3>1
  <2>5. CASE left' = [left EXCEPT !.failures = @ - 1]
    <3>1. left' = [may |-> left.may, gestures |-> left.gestures, closes |-> left.closes,
                   oldWrites |-> left.oldWrites, failures |-> left.failures - 1]
      BY <1>1, <2>5
    <3> QED
      BY <3>1
  <2> QED
    BY <2>1, <2>2, <2>3, <2>4, <2>5
<1>3. PICK g, c, o, f : left' = [may |-> left.may, gestures |-> g, closes |-> c,
                                 oldWrites |-> o, failures |-> f]
  BY <1>2
<1>4. /\ left'.may = left.may
      /\ left' = [may |-> left'.may, gestures |-> left'.gestures, closes |-> left'.closes,
                  oldWrites |-> left'.oldWrites, failures |-> left'.failures]
  BY <1>3
<1> QED
  BY <1>4 DEF LeftInv

LEMMA InitLeft ==
    ASSUME Init
    PROVE  LeftInv
<1>1. PICK s \in Scenarios : left = s.budget
  BY DEF Init
<1>2. left \in [may : SUBSET GestureNames, gestures : Nat, closes : Nat, oldWrites : Nat,
                failures : Nat]
  BY <1>1, InstanceAssumption
<1> QED
  BY <1>1, <1>2 DEF LeftInv

LEMMA StepLeft ==
    ASSUME LeftInv, [Next]_vars
    PROVE  LeftInv'
<1>1. ASSUME NEW t \in Tabs, RequestStep(t)
      PROVE  left' = left
  BY <1>1 DEF RequestStep, Read, StartMigration, MigrationWrite, MigrationVerify, Write, Publish
<1>2. ASSUME NEW t \in Tabs, Gesture(t)
      PROVE  left' = [left EXCEPT !.gestures = @ - 1]
  <2>1. PICK gesture, request : Ask(t, gesture, request)
    BY <1>2, GestureAsks
  <2> QED
    BY <2>1 DEF Ask
<1>3. ASSUME NEW t \in Tabs, WriteFails(t) \/ NoticeArrives(t) \/ Open(t) \/ Close(t)
      PROVE  \/ left' = left
             \/ left' = [left EXCEPT !.closes = @ - 1]
             \/ left' = [left EXCEPT !.failures = @ - 1]
  BY <1>3 DEF WriteFails, NoticeArrives, Open, Close
<1>4. OldTabWrites => left' = [left EXCEPT !.oldWrites = @ - 1]
  BY DEF OldTabWrites
<1>5. UNCHANGED vars => left' = left
  BY DEF vars
<1>6. \/ left' = left
      \/ left' = [left EXCEPT !.gestures = @ - 1]
      \/ left' = [left EXCEPT !.closes = @ - 1]
      \/ left' = [left EXCEPT !.oldWrites = @ - 1]
      \/ left' = [left EXCEPT !.failures = @ - 1]
  BY <1>1, <1>2, <1>3, <1>4, <1>5 DEF Next
<1> QED
  BY <1>6, LeftSpent

LEMMA Invariance == Spec => []Inv
<1>1. Init => Inv /\ LeftInv
  BY InitInv, InitLeft
<1>2. Inv /\ LeftInv /\ [Next]_vars => Inv' /\ LeftInv'
  BY StepInv, StepLeft
<1> QED
  BY <1>1, <1>2, PTL DEF Spec

-----------------------------------------------------------------------------
(* The rest of the types: what Inv does not need.                           *)

\* The queue of a tab has room for what it accepts, and a closed tab has none.
RoomInv ==
    /\ open \in [Tabs -> BOOLEAN] /\ known \in [Tabs -> Nat]
    /\ notices \subseteq {t \in Tabs : open[t]}
    /\ \A t \in Tabs : Len(requests[t]) <= MaxRequests /\ (~open[t] => requests[t] = <<>>)

\* An answer makes room, and only the steps of a request answer.
LEMMA RequestStepAnswers ==
    ASSUME NEW t \in Tabs, RequestStep(t) \/ WriteFails(t)
    PROVE  /\ open' = open
           /\ known' = known \/ \E r : known' = [known EXCEPT ![t] = r]
           /\ notices' = notices \/ notices' = notices \cup Notified(t)
           /\ requests' = requests \/ requests' = [requests EXCEPT ![t] = Tail(@)]
           /\ phase[t] = "idle" => requests[t] # <<>>
<1>1. ASSUME NEW lib, NEW revision, NEW fresh, Proceed(t, lib, revision, fresh)
      PROVE  /\ known' = [known EXCEPT ![t] = revision]
             /\ requests' = requests \/ requests' = [requests EXCEPT ![t] = Tail(@)]
  BY <1>1 DEF Proceed, Answer, Continue
<1>2. CASE Read(t)
  <2>1. PICK lib, revision, fresh : Proceed(t, lib, revision, fresh)
    BY <1>2 DEF Read
  <2> QED
    BY <1>1, <1>2, <2>1 DEF Read, Waiting
<1>3. CASE StartMigration(t)
  BY <1>3 DEF StartMigration, Waiting, Answer, Continue
<1>4. CASE MigrationWrite(t)
  BY <1>4 DEF MigrationWrite, Answer, Continue
<1>5. CASE MigrationVerify(t)
  <2>1. \/ Proceed(t, SavedLibrary, meta.revision, TRUE)
        \/ known' = known /\ requests' = [requests EXCEPT ![t] = Tail(@)]
    BY <1>5 DEF MigrationVerify, Answer
  <2> QED
    BY <1>1, <1>5, <2>1 DEF MigrationVerify
<1>6. CASE Write(t)
  BY <1>6 DEF Write, Answer, Continue
<1>7. CASE Publish(t)
  BY <1>7 DEF Publish, Answer
<1>8. CASE WriteFails(t)
  BY <1>8 DEF WriteFails, Answer
<1> QED
  BY <1>2, <1>3, <1>4, <1>5, <1>6, <1>7, <1>8 DEF RequestStep

LEMMA RoomAfterAnswers ==
    ASSUME Inv, Inv', RoomInv, NEW t \in Tabs, RequestStep(t) \/ WriteFails(t)
    PROVE  RoomInv'
<1>1. /\ open' = open
      /\ known' = known \/ \E r : known' = [known EXCEPT ![t] = r]
      /\ notices' = notices \/ notices' = notices \cup Notified(t)
      /\ requests' = requests \/ requests' = [requests EXCEPT ![t] = Tail(@)]
      /\ phase[t] = "idle" => requests[t] # <<>>
  BY RequestStepAnswers
<1>2. /\ DOMAIN requests = Tabs /\ IsSequence(requests[t])
      /\ phase[t] # "idle" => requests[t] # <<>>
  BY DEF Inv, Shapes, TabInv, TabOK, QueueOK, PhaseOK
<1>3. open[t] /\ requests[t] # <<>>
  BY <1>1, <1>2 DEF RoomInv
<1>4. known' \in [Tabs -> Nat]
  <2>1. known'[t] \in Nat
    BY DEF Inv, TabInv, TabOK, AsOf
  <2>2. CASE known' = known
    BY <2>2 DEF RoomInv
  <2>3. CASE \E r : known' = [known EXCEPT ![t] = r]
    <3>1. PICK r : known' = [known EXCEPT ![t] = r]
      BY <2>3
    <3>2. r \in Nat
      BY <2>1, <3>1 DEF RoomInv
    <3> QED
      BY <3>1, <3>2 DEF RoomInv
  <2> QED
    BY <1>1, <2>2, <2>3
<1>5. notices' \subseteq {u \in Tabs : open'[u]}
  BY <1>1 DEF RoomInv, Notified
<1>6. ASSUME NEW u \in Tabs
      PROVE  Len(requests'[u]) <= MaxRequests /\ (~open'[u] => requests'[u] = <<>>)
  <2>1. CASE requests'[u] = requests[u]
    BY <1>1, <2>1 DEF RoomInv
  <2>2. CASE requests'[u] # requests[u]
    <3>1. u = t /\ requests'[t] = Tail(requests[t])
      BY <1>1, <1>2, <2>2
    <3>2. /\ Len(Tail(requests[t])) = Len(requests[t]) - 1
          /\ Len(requests[t]) \in Nat /\ MaxRequests \in Nat
      BY <1>2, <1>3, QueueShrinks, SequenceDomain, InstanceAssumption
    <3> QED
      BY <1>1, <1>3, <3>1, <3>2 DEF RoomInv
  <2> QED
    BY <2>1, <2>2
<1> QED
  BY <1>1, <1>4, <1>5, <1>6 DEF RoomInv

LEMMA RoomAfterCalls ==
    ASSUME Inv, RoomInv, NEW t \in Tabs, NEW request, Append1(t, request), known' = known,
           notices' \subseteq notices,
           \/ RoomFor(t) /\ open' = open
           \/ ~open[t] /\ open' = [open EXCEPT ![t] = TRUE]
    PROVE  RoomInv'
<1>1. DOMAIN requests = Tabs /\ IsSequence(requests[t])
  BY DEF Inv, Shapes, TabInv, TabOK, QueueOK
<1>2. /\ Len(Append(requests[t], request)) = Len(requests[t]) + 1
      /\ Len(requests[t]) \in Nat /\ MaxRequests \in Nat \ {0}
  BY <1>1, QueueGrows, SequenceDomain, InstanceAssumption
<1>3. Len(requests[t]) + 1 <= MaxRequests
  <2>1. CASE RoomFor(t)
    BY <1>2, <2>1 DEF RoomFor
  <2>2. CASE ~open[t]
    <3>1. Len(requests[t]) = 0
      BY <2>2 DEF RoomInv
    <3> QED
      BY <1>2, <3>1
  <2> QED
    BY <2>1, <2>2
<1>4. open' \in [Tabs -> BOOLEAN] /\ open'[t] /\ \A u \in Tabs : open[u] => open'[u]
  BY DEF RoomInv, RoomFor
<1>5. \A u \in Tabs \ {t} : open'[u] = open[u]
  BY DEF RoomInv
<1>6. ASSUME NEW u \in Tabs
      PROVE  Len(requests'[u]) <= MaxRequests /\ (~open'[u] => requests'[u] = <<>>)
  <2>1. CASE u = t
    <3>1. requests'[u] = Append(requests[t], request)
      BY <1>1, <2>1 DEF Append1
    <3> QED
      BY <1>2, <1>3, <1>4, <2>1, <3>1
  <2>2. CASE u # t
    BY <1>1, <1>5, <2>2 DEF Append1, RoomInv
  <2> QED
    BY <2>1, <2>2
<1> QED
  BY <1>4, <1>6 DEF RoomInv

LEMMA RoomAfterClose ==
    ASSUME Inv, RoomInv, NEW t \in Tabs, Close(t)
    PROVE  RoomInv'
<1>1. /\ open' = [open EXCEPT ![t] = FALSE] /\ known' = [known EXCEPT ![t] = NoRevision]
      /\ requests' = [requests EXCEPT ![t] = <<>>] /\ notices' = notices \ {t}
      /\ DOMAIN requests = Tabs
  BY DEF Close, Inv, Shapes
<1>2. open' \in [Tabs -> BOOLEAN] /\ known' \in [Tabs -> Nat]
  BY <1>1 DEF RoomInv, NoRevision
<1>3. notices' \subseteq {u \in Tabs : open'[u]}
  BY <1>1 DEF RoomInv
<1>4. ASSUME NEW u \in Tabs
      PROVE  Len(requests'[u]) <= MaxRequests /\ (~open'[u] => requests'[u] = <<>>)
  <2>1. CASE u = t
    <3>1. requests'[u] = <<>> /\ Len(<<>>) = 0 /\ 0 <= MaxRequests
      BY <1>1, <2>1, InstanceAssumption
    <3> QED
      BY <3>1
  <2>2. CASE u # t
    BY <1>1, <2>2 DEF RoomInv
  <2> QED
    BY <2>1, <2>2
<1> QED
  BY <1>2, <1>3, <1>4 DEF RoomInv

LEMMA StepRoom ==
    ASSUME Inv, Inv', RoomInv, [Next]_vars
    PROVE  RoomInv'
<1>1. ASSUME NEW t \in Tabs, RequestStep(t) \/ WriteFails(t)
      PROVE  RoomInv'
  BY <1>1, RoomAfterAnswers
<1>2. ASSUME NEW t \in Tabs, NoticeArrives(t) \/ Open(t)
      PROVE  RoomInv'
  <2>1. Append1(t, Load) /\ known' = known /\ notices' \subseteq notices
    BY <1>2 DEF NoticeArrives, Open
  <2>2. \/ RoomFor(t) /\ open' = open
        \/ ~open[t] /\ open' = [open EXCEPT ![t] = TRUE]
    BY <1>2 DEF NoticeArrives, Open
  <2> QED
    BY <2>1, <2>2, RoomAfterCalls
<1>3. ASSUME NEW t \in Tabs, Gesture(t)
      PROVE  RoomInv'
  <2>1. PICK gesture, request : Ask(t, gesture, request)
    BY <1>3, GestureAsks
  <2>2. Append1(t, request) /\ known' = known /\ notices' \subseteq notices /\ RoomFor(t)
        /\ open' = open
    BY <2>1 DEF Ask
  <2> QED
    BY <2>2, RoomAfterCalls
<1>4. ASSUME NEW t \in Tabs, Close(t)
      PROVE  RoomInv'
  BY <1>4, RoomAfterClose
<1>5. CASE OldTabWrites \/ UNCHANGED vars
  <2>1. open' = open /\ known' = known /\ notices' = notices /\ requests' = requests
    BY <1>5 DEF OldTabWrites, vars, tabVars
  <2> QED
    BY <2>1 DEF RoomInv
<1> QED
  BY <1>1, <1>2, <1>3, <1>4, <1>5 DEF Next

LEMMA InitRoom ==
    ASSUME Init
    PROVE  RoomInv
<1>1. Len(<<>>) = 0 /\ 0 <= MaxRequests
  BY InstanceAssumption
<1> QED
  BY <1>1 DEF Init, RoomInv, NoRevision

LEMMA LibraryType ==
    ASSUME NEW lib, IsLibrary(lib)
    PROVE  lib \in Library /\ DistinctIds(lib)
<1>1. /\ lib \in Seq(ToSet(lib)) /\ Len(lib) \in Nat /\ DOMAIN lib = 1..Len(lib)
      /\ DistinctIds(lib)
  BY SequenceDomain DEF IsLibrary
<1>2. \A i \in DOMAIN lib : lib[i] \in Playlist
  BY DEF IsLibrary, IsList
<1>3. ToSet(lib) \subseteq Playlist
  BY <1>2 DEF ToSet
<1>4. lib \in Seq(Playlist)
  BY <1>1, <1>3, SeqMonotonic
<1> QED
  BY <1>1, <1>4 DEF Library

(***************************************************************************)
(* Every variable keeps its type, whatever the tabs do: in particular the  *)
(* ids of a library differ, also of the one a restored backup, an undone   *)
(* deletion or the migration brings.                                       *)
(***************************************************************************)
THEOREM TypesAreKept == Spec => []TypeOK
<1>1. Inv /\ RoomInv => TypeOK
  <2> SUFFICES ASSUME Inv, RoomInv
               PROVE  TypeOK
    OBVIOUS
  <2>1. meta = NoMeta \/ meta \in [revision : Nat \ {0}, ids : Seq(Lists)]
    BY DEF Inv, DatabaseOK
  <2>2. \A id \in DOMAIN records : records[id] \in Playlist /\ records[id].id = id
    <3>1. CASE meta = NoMeta
      <4>1. DOMAIN records = {}
        BY <3>1, EmptyLibrary DEF Inv, DatabaseOK
      <4> QED
        BY <4>1
    <3>2. CASE meta # NoMeta
      BY <3>2 DEF Inv, DatabaseOK, IsList
    <3> QED
      BY <3>1, <3>2
  <2>3. legacy \in Unreadable \/ legacy \in Library
    BY LibraryType DEF Inv, LegacyInv, LibraryIn
  <2>4. open \in [Tabs -> BOOLEAN] /\ known \in [Tabs -> Nat]
        /\ notices \subseteq {t \in Tabs : open[t]}
        /\ \A t \in Tabs : Len(requests[t]) <= MaxRequests
    BY DEF RoomInv
  <2>5. hydrated \in [Tabs -> BOOLEAN]
    BY DEF Inv, Shapes
  <2>6. ASSUME NEW t \in Tabs
        PROVE  /\ memory[t] \in Library /\ DistinctIds(memory[t])
               /\ work[t].lib \in Library /\ DistinctIds(work[t].lib)
    <3>1. IsLibrary(memory[t]) /\ IsLibrary(work[t].lib)
      BY DEF Inv, TabInv, TabOK, IsWork
    <3> QED
      BY <3>1, LibraryType
  <2>7. ASSUME NEW t \in Tabs
        PROVE  /\ phase[t] \in {"idle", "migrating", "verifying", "writing", "publishing"}
               /\ phase[t] # "idle" => requests[t] # <<>>
    BY DEF Inv, TabInv, TabOK, PhaseOK
  <2> QED
    BY <2>1, <2>2, <2>3, <2>4, <2>5, <2>6, <2>7 DEF TypeOK
<1>2. Init => Inv /\ LeftInv /\ RoomInv
  BY InitInv, InitLeft, InitRoom
<1>3. Inv /\ LeftInv /\ RoomInv /\ [Next]_vars => Inv' /\ LeftInv' /\ RoomInv'
  BY StepInv, StepLeft, StepRoom
<1> QED
  BY <1>1, <1>2, <1>3, PTL DEF Spec

(***************************************************************************)
(* In a library that is given each song of a list once (GivenOnce) no      *)
(* interleaving of additions, removals, moves, syncs, restored backups and *)
(* undone removals, in one tab or several, puts a song twice into a list   *)
(* (addSongs, restoreRemovedSongs).  The undo of the health check's        *)
(* removals is left out: it puts back what it removed unconditionally.     *)
(***************************************************************************)
THEOREM SongsStayOnce == ASSUME GivenOnce PROVE Spec => []NoSongTwice
<1>1. Inv => NoSongTwice
  <2> SUFFICES ASSUME Inv, meta # NoMeta, NEW i \in DOMAIN SavedLibrary, NEW song \in Songs
               PROVE  Copies(song, SavedLibrary[i].songs) <= 1
    BY DEF NoSongTwice
  <2>1. IsLibrary(SavedLibrary)
    BY SavedIsSaved, SavedIsLibrary DEF Inv
  <2>2. SongsOK(SavedLibrary[i].songs)
    BY <2>1, ListFields DEF IsLibrary
  <2>3. SavedLibrary[i].songs \in Seq(Row) /\ Single(SavedLibrary[i].songs)
    BY <2>2 DEF SongsOK
  <2> QED
    BY <2>3, CopiesOfSingle
<1> QED
  BY <1>1, Invariance, PTL

-----------------------------------------------------------------------------
(***************************************************************************)
(* The lists the current record names are all there (writePlaylistSnapshot *)
(* puts the changed lists and deletes the dropped ones only).              *)
(***************************************************************************)
THEOREM DatabaseStaysWhole == Spec => []SavedLibraryWhole
<1>1. Inv => SavedLibraryWhole
  <2>1. SUFFICES ASSUME Inv, meta # NoMeta
                 PROVE  Readable /\ DOMAIN records = ToSet(meta.ids)
    BY DEF SavedLibraryWhole
  <2>2. DatabaseOK(meta, records)
    BY <2>1 DEF Inv
  <2>3. \A i \in DOMAIN meta.ids : meta.ids[i] \in DOMAIN records
    BY <2>1, <2>2, SavedIsLibrary
  <2> QED
    BY <2>1, <2>2, <2>3 DEF DatabaseOK, Readable
<1> QED
  BY <1>1, Invariance, PTL

(***************************************************************************)
(* A tab that knows the current revision holds the current library, which  *)
(* is why readPlaylistSnapshot may skip the read and the next write may be *)
(* a difference.                                                           *)
(***************************************************************************)
THEOREM CopiesAreCurrent == Spec => []MemoryMatchesRevision
<1>1. Inv => MemoryMatchesRevision
  BY SavedIsSaved DEF MemoryMatchesRevision, Inv, TabInv, TabOK, AsOf
<1> QED
  BY <1>1, Invariance, PTL

(***************************************************************************)
(* With Web Locks no write finds its revision outdated.                    *)
(***************************************************************************)
THEOREM LocksSuffice == Spec => []LockedWritesSucceed
<1>1. Inv => LockedWritesSucceed
  BY DEF Inv, LockInv
<1> QED
  BY <1>1, Invariance, PTL

(***************************************************************************)
(* What the migration removes from localStorage has been archived.         *)
(***************************************************************************)
LEMMA RemovedBytesAreArchived ==
    ASSUME Inv, [Next]_vars, legacy' = NoLegacy, legacy # NoLegacy
    PROVE  legacy \in archive
<1>1. ASSUME NEW t \in Tabs, MigrationVerify(t)
      PROVE  legacy \in archive
  <2>1. SameBytes(t) /\ phase[t] = "verifying"
    BY <1>1 DEF MigrationVerify
  <2>2. work[t].copied \in archive
    BY <2>1 DEF Inv, TabInv, TabOK, PhaseOK
  <2> QED
    BY <2>1, <2>2 DEF SameBytes
<1>2. ~OldTabWrites
  <2>1. \A bytes \in OldTabLibraries : bytes \notin Unreadable
    BY GivenLibraries
  <2> QED
    BY <2>1 DEF OldTabWrites, Unreadable
<1>3. ASSUME NEW t \in Tabs,
             \/ Read(t) \/ StartMigration(t) \/ MigrationWrite(t) \/ Write(t) \/ Publish(t)
             \/ WriteFails(t) \/ NoticeArrives(t) \/ Open(t) \/ Close(t)
      PROVE  FALSE
  <2>1. legacy' = legacy
    BY <1>3 DEF Read, StartMigration, MigrationWrite, Write, Publish, WriteFails,
                NoticeArrives, Open, Close
  <2> QED
    BY <2>1
<1>4. ASSUME NEW t \in Tabs, Gesture(t)
      PROVE  FALSE
  <2>1. legacy' = legacy
    BY <1>4, GestureAsks DEF Ask
  <2> QED
    BY <2>1
<1>5. ~UNCHANGED vars
  BY DEF vars
<1> QED
  BY <1>1, <1>2, <1>3, <1>4, <1>5 DEF Next, RequestStep

THEOREM MigrationKeepsBytes == Spec => LegacyBytesKept
<1>1. Inv /\ [Next]_vars => [legacy' = NoLegacy /\ legacy # NoLegacy => legacy \in archive]_vars
  BY RemovedBytesAreArchived
<1> QED
  BY <1>1, Invariance, PTL DEF Spec, LegacyBytesKept

\* Only a write whose copy is current commits.
LEMMA CommitIsWrite ==
    ASSUME Inv, [Next]_vars, NEW t \in Tabs, Commits(t)
    PROVE  Write(t) /\ Current(known[t])
<1>1. phase[t] = "writing" /\ phase'[t] = "publishing" /\ DOMAIN phase = Tabs
  BY DEF Commits, Inv, Shapes
<1>2. ASSUME NEW u \in Tabs, NEW step, phase' = [phase EXCEPT ![u] = step]
      PROVE  u = t /\ step = "publishing"
  BY <1>1, <1>2
<1>3. phase' # phase
  BY <1>1
<1>4. ASSUME NEW u \in Tabs, NEW answer, Answer(u, answer)
      PROVE  FALSE
  <2>1. phase' = [phase EXCEPT ![u] = "idle"]
    BY <1>4 DEF Answer
  <2> QED
    BY <1>1, <2>1
<1>5. ASSUME NEW u \in Tabs, NEW step, NEW w, Continue(u, step, w)
      PROVE  u = t /\ step = "publishing"
  BY <1>2, <1>5 DEF Continue
<1>6. ASSUME NEW u \in Tabs, NEW lib, NEW revision, NEW fresh, Proceed(u, lib, revision, fresh)
      PROVE  FALSE
  BY <1>4, <1>5, <1>6 DEF Proceed
<1>7. ASSUME NEW u \in Tabs, Read(u)
      PROVE  FALSE
  <2>1. PICK lib, fresh : Proceed(u, lib, meta.revision, fresh)
    BY <1>7 DEF Read
  <2> QED
    BY <1>6, <2>1
<1>8. ASSUME NEW u \in Tabs, MigrationVerify(u)
      PROVE  FALSE
  <2>1. CASE Proceed(u, SavedLibrary, meta.revision, TRUE)
    <3>1. PICK fresh : Proceed(u, SavedLibrary, meta.revision, fresh)
      BY <2>1
    <3> QED
      BY <1>6, <3>1
  <2> QED
    BY <1>4, <1>8, <2>1 DEF MigrationVerify
<1>9. ASSUME NEW u \in Tabs,
             StartMigration(u) \/ MigrationWrite(u) \/ Publish(u) \/ WriteFails(u) \/ Close(u)
      PROVE  FALSE
  <2>1. CASE StartMigration(u)
    BY <1>4, <1>5, <2>1 DEF StartMigration
  <2>2. CASE MigrationWrite(u)
    BY <1>4, <1>5, <2>2 DEF MigrationWrite
  <2>3. CASE Publish(u) \/ WriteFails(u)
    BY <1>4, <2>3 DEF Publish, WriteFails
  <2>4. CASE Close(u)
    <3>1. phase' = [phase EXCEPT ![u] = "idle"]
      BY <2>4 DEF Close
    <3> QED
      BY <1>1, <3>1
  <2> QED
    BY <1>9, <2>1, <2>2, <2>3, <2>4
<1>10. ASSUME NEW u \in Tabs, NoticeArrives(u) \/ Open(u) \/ Gesture(u)
       PROVE  FALSE
  <2>1. phase' = phase
    BY <1>10, GestureAsks DEF NoticeArrives, Open, Ask
  <2> QED
    BY <1>3, <2>1
<1>11. ~OldTabWrites /\ ~UNCHANGED vars
  BY <1>3 DEF OldTabWrites, tabVars, vars
<1>12. ASSUME NEW u \in Tabs, Write(u)
       PROVE  Write(t) /\ Current(known[t])
  <2>1. Current(known[u])
    BY <1>4, <1>12 DEF Write
  <2>2. u = t
    BY <1>4, <1>5, <1>12 DEF Write
  <2> QED
    BY <1>12, <2>1, <2>2
<1> QED
  BY <1>7, <1>8, <1>9, <1>10, <1>11, <1>12 DEF Next, RequestStep

(***************************************************************************)
(* A removal or a move asked for in a tab that has loaded the library and  *)
(* was doing nothing else is carried out on the list the user saw.         *)
(***************************************************************************)
LEMMA SeenPositions ==
    ASSUME Inv, [Next]_vars, NEW t \in Tabs, Commits(t), Committed(t).op \in Positional,
           Committed(t).ahead = {}
    PROVE  SongsOf(SavedLibrary, Committed(t).list) = Committed(t).seen
<1>1. memory[t] = SavedLibrary /\ phase[t] = "writing"
  BY CommitIsWrite, WriteCommits
<1>2. TabOK(meta, records, archive, memory[t], known[t], hydrated[t], requests[t], phase[t],
            work[t], offer[t])
  BY DEF Inv, TabInv
<1>3. requests[t] # <<>> /\ IsSequence(requests[t])
  BY <1>1, <1>2 DEF TabOK, PhaseOK, QueueOK
<1>4. 1 \in DOMAIN requests[t] /\ Head(requests[t]) = requests[t][1]
  BY <1>3, SequenceDomain
<1>5. Prompt(memory[t], hydrated[t], requests[t][1], 1)
  BY <1>2, <1>4 DEF TabOK, QueueOK
<1> QED
  BY <1>1, <1>4, <1>5 DEF Prompt, Committed

THEOREM PositionsAreSeen == Spec => PromptPositionsHold
<1>1. Inv /\ [Next]_vars =>
        [\A t \in Tabs :
            Commits(t) /\ Committed(t).op \in Positional /\ Committed(t).ahead = {}
            => SongsOf(SavedLibrary, Committed(t).list) = Committed(t).seen]_vars
  BY SeenPositions
<1> QED
  BY <1>1, Invariance, PTL DEF Spec, PromptPositionsHold

(***************************************************************************)
(* A restored backup replaces only the library it was prepared on.         *)
(***************************************************************************)
LEMMA ReplacedAsPrepared ==
    ASSUME Inv, [Next]_vars, NEW t \in Tabs, Commits(t), Committed(t).op = "replace"
    PROVE  SavedLibrary = Committed(t).seen
<1>1. /\ meta # NoMeta /\ known[t] = meta.revision /\ phase[t] = "writing"
      /\ Makes(memory[t], known[t], Head(requests[t]), work[t])
  BY CommitIsWrite, WriteCommits
<1>2. TabOK(meta, records, archive, memory[t], known[t], hydrated[t], requests[t], phase[t],
            work[t], offer[t])
  BY DEF Inv, TabInv
<1>3. requests[t] # <<>> /\ IsSequence(requests[t])
  BY <1>1, <1>2 DEF TabOK, PhaseOK, QueueOK
<1>4. 1 \in DOMAIN requests[t] /\ Head(requests[t]) = requests[t][1]
  BY <1>3, SequenceDomain
<1>5. Prepared(meta, records, Head(requests[t])) /\ IsRequest(Head(requests[t]))
  BY <1>2, <1>4 DEF TabOK, QueueOK
<1>6. Head(requests[t]).expected = known[t]
  <2>1. Effect(memory[t], known[t], Head(requests[t])).effect = "saves"
    BY <1>1 DEF Makes
  <2>2. Throws(memory[t]).effect = "throws"
    BY DEF Throws
  <2> QED
    BY <2>1, <2>2 DEF Effect, Committed
<1> QED
  BY <1>1, <1>5, <1>6, SavedIsSaved DEF Prepared, AsOf, Committed

THEOREM RestoresOverwriteNothingNew == Spec => RestoreOverwritesNothingNew
<1>1. Inv /\ [Next]_vars =>
        [\A t \in Tabs :
            Commits(t) /\ Committed(t).op = "replace" => SavedLibrary = Committed(t).seen]_vars
  BY ReplacedAsPrepared
<1> QED
  BY <1>1, Invariance, PTL DEF Spec, RestoreOverwritesNothingNew

-----------------------------------------------------------------------------
(* The refinement of AtomicLibrary.  A request is carried out when its      *)
(* write commits, or when it is answered without one.                       *)

AbsLib == IF meta = NoMeta THEN LibraryIn(legacy) ELSE SavedLibrary
AbsPending == [t \in Tabs |-> IF Published(t) THEN Tail(requests[t]) ELSE requests[t]]
AbsOutcome == [t \in Tabs |-> IF Published(t) THEN work[t].answer ELSE outcome[t]]

LEMMA AbsStutters ==
    ASSUME AbsLib' = AbsLib, NEW t \in Tabs, OthersStay(t),
           AbsPending'[t] = AbsPending[t], AbsOutcome'[t] = AbsOutcome[t]
    PROVE  UNCHANGED Promise!vars
<1>1. \A u \in Tabs \ {t} :
        AbsPending'[u] = AbsPending[u] /\ AbsOutcome'[u] = AbsOutcome[u]
  BY DEF OthersStay, AbsPending, AbsOutcome, Published
<1>2. AbsPending' = AbsPending
  BY <1>1 DEF AbsPending
<1>3. AbsOutcome' = AbsOutcome
  BY <1>1 DEF AbsOutcome
<1> QED
  BY <1>2, <1>3 DEF Promise!vars, AbsLib, AbsPending, AbsOutcome

LEMMA AbsTakes ==
    ASSUME NEW t \in Tabs, OthersStay(t), NEW answer,
           AbsPending'[t] = Tail(AbsPending[t]), AbsOutcome'[t] = answer
    PROVE  Promise!Take(t, answer)
<1>1. \A u \in Tabs \ {t} :
        AbsPending'[u] = AbsPending[u] /\ AbsOutcome'[u] = AbsOutcome[u]
  BY DEF OthersStay, AbsPending, AbsOutcome, Published
<1>2. AbsPending' = [AbsPending EXCEPT ![t] = Tail(@)]
  BY <1>1 DEF AbsPending
<1>3. AbsOutcome' = [AbsOutcome EXCEPT ![t] = answer]
  BY <1>1 DEF AbsOutcome
<1> QED
  BY <1>2, <1>3 DEF Promise!Take, AbsPending, AbsOutcome

\* A request that is refused, or a reload with nothing new.
LEMMA AbsPassesOver ==
    ASSUME NEW t \in Tabs, OthersStay(t), AbsLib' = AbsLib, AbsPending[t] # <<>>, NEW answer,
           AbsPending'[t] = Tail(AbsPending[t]), AbsOutcome'[t] = answer,
           answer = Failed \/ (answer = Done /\ Head(AbsPending[t]).op = "load")
    PROVE  Promise!Next
<1>1. Promise!Take(t, answer)
  BY AbsTakes
<1>2. Promise!PassOver(t)
  BY <1>1 DEF Promise!PassOver, AbsLib, AbsPending
<1> QED
  BY <1>2 DEF Promise!Next

\* A request that is carried out.
LEMMA AbsPerforms ==
    ASSUME NEW t \in Tabs, OthersStay(t), AbsPending[t] # <<>>, NEW result,
           result = Outcome(AbsLib, Head(AbsPending[t])), result.effect # "throws",
           AbsLib' = result.lib,
           AbsPending'[t] = Tail(AbsPending[t]), AbsOutcome'[t] = result.answer
    PROVE  Promise!Next
<1>1. PICK answer : answer = result.answer
  OBVIOUS
<1>2. /\ Outcome(AbsLib, Head(AbsPending[t])).effect # "throws"
      /\ AbsLib' = Outcome(AbsLib, Head(AbsPending[t])).lib
      /\ Promise!Take(t, Outcome(AbsLib, Head(AbsPending[t])).answer)
  <2>1. Promise!Take(t, answer)
    BY <1>1, AbsTakes
  <2>2. answer = Outcome(AbsLib, Head(AbsPending[t])).answer
    BY <1>1
  <2>3. Promise!Take(t, Outcome(AbsLib, Head(AbsPending[t])).answer)
    BY <2>1, <2>2 DEF Promise!Take
  <2>4. /\ Outcome(AbsLib, Head(AbsPending[t])).effect # "throws"
        /\ AbsLib' = Outcome(AbsLib, Head(AbsPending[t])).lib
    OBVIOUS
  <2> QED
    BY <2>3, <2>4
<1>3. Promise!Perform(t)
  BY <1>2 DEF Promise!Perform, AbsLib, AbsPending
<1> QED
  BY <1>3 DEF Promise!Next

LEMMA LibStays ==
    ASSUME UNCHANGED <<meta, records>>, legacy' = legacy \/ meta # NoMeta
    PROVE  AbsLib' = AbsLib
BY DEF AbsLib, SavedLibrary, LibraryIn

\* The head of the queue is answered without having been committed.
LEMMA AbsAnswers ==
    ASSUME Inv, NEW t \in Tabs, phase[t] # "publishing", CopyChanges(t), NEW answer,
           Answer(t, answer)
    PROVE  /\ OthersStay(t) /\ AbsPending[t] = requests[t]
           /\ AbsPending'[t] = Tail(AbsPending[t]) /\ AbsOutcome'[t] = answer
<1>1. /\ requests'[t] = Tail(requests[t]) /\ phase'[t] = "idle" /\ outcome'[t] = answer
      /\ \A u \in Tabs \ {t} :
            /\ requests'[u] = requests[u] /\ phase'[u] = phase[u] /\ work'[u] = work[u]
            /\ outcome'[u] = outcome[u] /\ offer'[u] = offer[u]
  BY AnswerLands DEF Inv
<1>2. OthersStay(t)
  BY <1>1 DEF OthersStay, CopyChanges
<1>3. AbsPending[t] = requests[t] /\ AbsPending'[t] = requests'[t] /\ AbsOutcome'[t] = outcome'[t]
  BY <1>1 DEF AbsPending, AbsOutcome, Published
<1> QED
  BY <1>1, <1>2, <1>3

LEMMA AbsRefuses ==
    ASSUME Inv, NEW t \in Tabs, phase[t] # "publishing", requests[t] # <<>>, CopyChanges(t),
           NEW answer, Answer(t, answer),
           answer = Failed \/ (answer = Done /\ Head(requests[t]).op = "load"),
           UNCHANGED <<meta, records>>, legacy' = legacy \/ meta # NoMeta
    PROVE  Promise!Next
<1>1. /\ OthersStay(t) /\ AbsPending[t] = requests[t]
      /\ AbsPending'[t] = Tail(AbsPending[t]) /\ AbsOutcome'[t] = answer
  BY AbsAnswers
<1>2. AbsLib' = AbsLib
  BY LibStays
<1> QED
  BY <1>1, <1>2, AbsPassesOver

LEMMA ProceedRefines ==
    ASSUME Inv, NEW t \in Tabs, NEW lib, NEW revision, NEW fresh,
           Proceeds(t, lib, revision, fresh)
    PROVE  [Promise!Next]_(Promise!vars)
<1>1. CopyChanges(t) /\ IsLibrary(lib) /\ Ids(lib) = NamesIn(meta)
  BY ProceedCopies
<1>2. PICK result : result = Effect(lib, revision, Head(requests[t]))
  OBVIOUS
<1>3. /\ requests[t] # <<>> /\ phase[t] \notin {"writing", "publishing"}
      /\ UNCHANGED <<meta, records>> /\ meta # NoMeta /\ lib = Saved(meta, records)
  BY DEF Proceeds
<1>4. /\ CreatedBy(Head(requests[t])) \cap Ids(lib) = {}
      /\ Sound(lib, Brought(Head(requests[t])), result)
  BY <1>1, <1>2, <1>3, HeadSound
<1>5. AbsLib' = AbsLib /\ AbsLib = lib
  BY <1>3, LibStays, SavedIsSaved DEF AbsLib
<1>6. ASSUME NEW answer, Answer(t, answer),
             answer = Failed \/ (answer = Done /\ Head(requests[t]).op = "load")
      PROVE  Promise!Next
  BY <1>1, <1>3, <1>6, AbsRefuses
<1>7. CASE Answer(t, Failed)
  BY <1>6, <1>7
<1>8. CASE Head(requests[t]).op = "load" /\ Answer(t, Done)
  BY <1>6, <1>8
<1>9. CASE result.effect = "throws" /\ Answer(t, result.answer)
  BY <1>4, <1>6, <1>9 DEF Sound
<1>10. CASE result.effect = "keeps" /\ Answer(t, result.answer)
  <2>1. /\ OthersStay(t) /\ AbsPending[t] = requests[t]
        /\ AbsPending'[t] = Tail(AbsPending[t]) /\ AbsOutcome'[t] = result.answer
    BY <1>1, <1>3, <1>10, AbsAnswers
  <2>2. result = Outcome(AbsLib, Head(AbsPending[t])) /\ result.lib = lib
    <3>1. Throws(lib).effect = "throws"
      BY DEF Throws
    <3>2. result = Outcome(lib, Head(requests[t]))
      BY <1>2, <1>10, <3>1 DEF Effect
    <3> QED
      BY <1>4, <1>5, <1>10, <2>1, <3>2 DEF Sound
  <2>3. AbsLib' = result.lib /\ AbsPending[t] # <<>> /\ result.effect # "throws"
    BY <1>3, <1>5, <1>10, <2>1, <2>2
  <2> QED
    BY <2>1, <2>2, <2>3, AbsPerforms
<1>11. CASE result.effect = "saves" /\ \E w : Continue(t, "writing", w)
  <2>1. PICK w : Continue(t, "writing", w)
    BY <1>11
  <2>2. Shapes
    BY DEF Inv
  <2>3. OthersStay(t) /\ phase'[t] = "writing"
    BY <1>1, <2>1, <2>2 DEF Continue, Shapes, OthersStay, CopyChanges
  <2>4. AbsPending'[t] = AbsPending[t] /\ AbsOutcome'[t] = AbsOutcome[t]
    BY <1>3, <2>1, <2>3 DEF Continue, AbsPending, AbsOutcome, Published
  <2> QED
    BY <1>5, <2>3, <2>4, AbsStutters
<1>12. result.effect \in {"saves", "keeps", "throws"}
  BY <1>4 DEF Sound
<1> QED
  BY <1>2, <1>7, <1>8, <1>9, <1>10, <1>11, <1>12 DEF Proceeds, Proceed

LEMMA ReadRefines ==
    ASSUME Inv, NEW t \in Tabs, Read(t)
    PROVE  [Promise!Next]_(Promise!vars)
<1> DEFINE fresh == meta.revision # known[t]
<1>1. Proceeds(t, SavedLibrary, meta.revision, fresh)
  BY ReadProceeds
<1> HIDE DEF fresh
<1>2. PICK lib, revision, new : Proceeds(t, lib, revision, new)
  BY <1>1
<1> QED
  BY <1>2, ProceedRefines

LEMMA MigrationVerifyRefines ==
    ASSUME Inv, NEW t \in Tabs, MigrationVerify(t)
    PROVE  [Promise!Next]_(Promise!vars)
<1>1. phase[t] = "verifying" /\ requests[t] # <<>> /\ meta # NoMeta
  BY DEF MigrationVerify, Inv, TabInv, TabOK, PhaseOK
<1>2. UNCHANGED <<meta, records, archive, created>>
  BY DEF MigrationVerify, databaseVars
<1>3. CASE /\ legacy' = IF SameBytes(t) THEN NoLegacy ELSE legacy
           /\ Proceed(t, SavedLibrary, meta.revision, TRUE)
  <2>1. PICK lib, revision, fresh :
            lib = SavedLibrary /\ revision = meta.revision /\ fresh = TRUE
    OBVIOUS
  <2>2. Proceed(t, lib, revision, fresh) /\ fresh
    BY <1>3, <2>1
  <2>3. legacy' = legacy \/ legacy' = NoLegacy
    BY <1>3
  <2>4. Proceeds(t, lib, revision, fresh)
    BY <1>1, <1>2, <2>1, <2>2, <2>3, SavedIsSaved DEF Proceeds
  <2> QED
    BY <2>4, ProceedRefines
<1>4. CASE Answer(t, Failed) /\ UNCHANGED <<legacy, memory, known, hydrated>>
  <2>1. CopyChanges(t)
    BY <1>4, CopyStays
  <2>2. PICK answer : answer = Failed /\ Answer(t, answer)
    BY <1>4
  <2> QED
    BY <1>1, <1>2, <2>1, <2>2, AbsRefuses
<1> QED
  BY <1>3, <1>4 DEF MigrationVerify

\* A step that refuses the head of the queue.
LEMMA RefusalRefines ==
    ASSUME Inv, NEW t \in Tabs, phase[t] # "publishing", requests[t] # <<>>, Answer(t, Failed),
           UNCHANGED <<meta, records, legacy, memory, known, hydrated>>
    PROVE  Promise!Next
<1>1. CopyChanges(t)
  BY CopyStays
<1>2. PICK answer : answer = Failed /\ Answer(t, answer)
  OBVIOUS
<1> QED
  BY <1>1, <1>2, AbsRefuses

LEMMA StartMigrationRefines ==
    ASSUME Inv, NEW t \in Tabs, StartMigration(t)
    PROVE  [Promise!Next]_(Promise!vars)
<1>1. /\ phase[t] = "idle" /\ requests[t] # <<>>
      /\ UNCHANGED <<meta, records, legacy, memory, known, hydrated>>
  BY DEF StartMigration, Waiting, databaseVars
<1>2. CASE Answer(t, Failed)
  BY <1>1, <1>2, RefusalRefines
<1>3. CASE \E w : Continue(t, "migrating", w)
  <2>1. PICK w : Continue(t, "migrating", w)
    BY <1>3
  <2>2. Shapes
    BY DEF Inv
  <2>3. OthersStay(t) /\ phase'[t] = "migrating"
    BY <1>1, <2>1, <2>2 DEF Continue, Shapes, OthersStay
  <2>4. AbsPending'[t] = AbsPending[t] /\ AbsOutcome'[t] = AbsOutcome[t]
    BY <1>1, <2>1, <2>3 DEF Continue, AbsPending, AbsOutcome, Published
  <2>5. AbsLib' = AbsLib
    BY <1>1, LibStays
  <2> QED
    BY <2>3, <2>4, <2>5, AbsStutters
<1> QED
  BY <1>2, <1>3 DEF StartMigration

\* The migration changes where the library is, not what it is.
LEMMA MigrationWriteRefines ==
    ASSUME OldTabLibraries = {}, Inv, NEW t \in Tabs, MigrationWrite(t)
    PROVE  [Promise!Next]_(Promise!vars)
<1>1. /\ phase[t] = "migrating" /\ requests[t] # <<>> /\ work[t].lib = LibraryIn(work[t].copied)
  BY DEF MigrationWrite, Inv, TabInv, TabOK, PhaseOK
<1>2. CASE /\ Current(NoRevision) /\ WriteDelta(work[t].lib, <<>>, Revision + 1)
           /\ archive' = archive \cup {work[t].copied} /\ Continue(t, "verifying", work[t])
  <2>1. Committing(t, "verifying", work[t], <<>>)
    BY <1>2, MigrationCommits
  <2>2. PICK step, w, before : /\ step = "verifying" /\ w = work[t] /\ before = <<>>
                               /\ Committing(t, step, w, before)
    BY <2>1
  <2>3. meta' # NoMeta /\ Saved(meta', records') = work[t].lib
    BY <2>2, CommitSaves
  <2>4. meta = NoMeta
    BY <1>2, SavedIsSaved, RevisionIsNat DEF Current, Inv
  <2>5. work[t].copied = legacy
    BY <1>1, <2>4 DEF Inv, CopyInv
  <2>6. AbsLib' = AbsLib
    BY <1>1, <2>3, <2>4, <2>5 DEF AbsLib, SavedLibrary, Saved
  <2>7. Shapes /\ memory' = memory /\ known' = known /\ hydrated' = hydrated
    BY DEF MigrationWrite, Inv
  <2>8. OthersStay(t) /\ phase'[t] = "verifying"
    BY <1>2, <2>7 DEF Continue, Shapes, OthersStay
  <2>9. AbsPending'[t] = AbsPending[t] /\ AbsOutcome'[t] = AbsOutcome[t]
    BY <1>1, <1>2, <2>8 DEF Continue, AbsPending, AbsOutcome, Published
  <2> QED
    BY <2>6, <2>8, <2>9, AbsStutters
<1>3. CASE ~Current(NoRevision) /\ Answer(t, Failed) /\ UNCHANGED databaseVars
  <2>1. UNCHANGED <<meta, records, legacy, memory, known, hydrated>>
    BY <1>3 DEF MigrationWrite, databaseVars
  <2>2. Promise!Next
    BY <1>1, <1>3, <2>1, RefusalRefines
  <2> QED
    BY <2>2
<1> QED
  BY <1>2, <1>3 DEF MigrationWrite

LEMMA WriteRefines ==
    ASSUME Inv, NEW t \in Tabs, Write(t)
    PROVE  [Promise!Next]_(Promise!vars)
<1>1. phase[t] = "writing" /\ requests[t] # <<>> /\ Shapes
  BY DEF Write, Inv, TabInv, TabOK, PhaseOK
<1>2. CASE /\ Current(known[t]) /\ WriteDelta(work[t].lib, memory[t], Revision + 1)
           /\ Continue(t, "publishing", [work[t] EXCEPT !.revision = Revision + 1])
  <2>1. PICK step, w, before : /\ step = "publishing" /\ before = memory[t]
                               /\ Committing(t, step, w, before)
    BY <1>2, WriteIsCommit
  <2>2. meta' # NoMeta /\ Saved(meta', records') = work[t].lib
    BY <2>1, CommitSaves
  <2>3. /\ Continue(t, step, w) /\ w.answer = work[t].answer
        /\ memory' = memory /\ known' = known /\ hydrated' = hydrated
    BY <2>1 DEF Committing
  <2>4. OthersStay(t) /\ phase'[t] = "publishing" /\ work'[t] = w /\ requests' = requests
    BY <1>1, <2>1, <2>3 DEF Continue, Shapes, OthersStay
  <2>5. /\ AbsPending[t] = requests[t] /\ AbsPending'[t] = Tail(AbsPending[t])
        /\ AbsOutcome'[t] = work[t].answer
    BY <1>1, <2>3, <2>4 DEF AbsPending, AbsOutcome, Published
  <2>6. /\ meta # NoMeta /\ memory[t] = SavedLibrary
        /\ Makes(memory[t], known[t], Head(requests[t]), work[t])
    BY <1>2, WriteCommits
  <2>7. PICK result : result = Outcome(AbsLib, Head(AbsPending[t]))
    OBVIOUS
  <2>8. /\ result.effect = "saves" /\ work[t].lib = result.lib /\ work[t].answer = result.answer
    <3>1. result = Outcome(memory[t], Head(requests[t]))
      BY <2>5, <2>6, <2>7 DEF AbsLib
    <3>2. Throws(memory[t]).effect = "throws"
      BY DEF Throws
    <3>3. Effect(memory[t], known[t], Head(requests[t])) = result
      BY <2>6, <3>1, <3>2 DEF Makes, Effect
    <3> QED
      BY <2>6, <3>3 DEF Makes
  <2>9. AbsLib' = result.lib
    BY <2>2, <2>8 DEF AbsLib, SavedLibrary, Saved
  <2>10. AbsPending[t] # <<>> /\ result.effect # "throws" /\ AbsOutcome'[t] = result.answer
    BY <1>1, <2>5, <2>8
  <2>11. Promise!Next
    BY <2>4, <2>5, <2>7, <2>9, <2>10, AbsPerforms
  <2> QED
    BY <2>11
<1>3. CASE ~Current(known[t]) /\ Answer(t, Failed) /\ UNCHANGED <<meta, records>>
  <2>1. UNCHANGED <<meta, records, legacy, memory, known, hydrated>>
    BY <1>3 DEF Write
  <2>2. Promise!Next
    BY <1>1, <1>3, <2>1, RefusalRefines
  <2> QED
    BY <2>2
<1> QED
  BY <1>2, <1>3 DEF Write

LEMMA WriteFailsRefines ==
    ASSUME Inv, NEW t \in Tabs, WriteFails(t)
    PROVE  Promise!Next
<1>1. requests[t] # <<>> /\ phase[t] # "publishing"
  BY DEF WriteFails, Inv, TabInv, TabOK, PhaseOK
<1>2. Answer(t, Failed) /\ UNCHANGED <<meta, records, legacy, memory, known, hydrated>>
  BY DEF WriteFails, databaseVars
<1> QED
  BY <1>1, <1>2, RefusalRefines

LEMMA PublishRefines ==
    ASSUME Inv, NEW t \in Tabs, Publish(t)
    PROVE  UNCHANGED Promise!vars
<1>1. /\ phase[t] = "publishing" /\ Answer(t, work[t].answer)
      /\ memory' = [memory EXCEPT ![t] = work[t].lib]
      /\ known' = [known EXCEPT ![t] = work[t].revision]
      /\ UNCHANGED <<meta, records>> /\ hydrated' = hydrated /\ legacy' = legacy
  BY DEF Publish, databaseVars
<1>2. PICK answer : answer = work[t].answer /\ Answer(t, answer)
  BY <1>1
<1>3. Shapes
  BY DEF Inv
<1>4. /\ requests'[t] = Tail(requests[t]) /\ phase'[t] = "idle" /\ outcome'[t] = answer
      /\ \A u \in Tabs \ {t} :
            /\ requests'[u] = requests[u] /\ phase'[u] = phase[u] /\ work'[u] = work[u]
            /\ outcome'[u] = outcome[u] /\ offer'[u] = offer[u]
  BY <1>2, <1>3, AnswerLands
<1>5. OthersStay(t)
  BY <1>1, <1>3, <1>4 DEF OthersStay, Shapes
<1>6. AbsPending'[t] = AbsPending[t] /\ AbsOutcome'[t] = AbsOutcome[t]
  BY <1>1, <1>2, <1>4 DEF AbsPending, AbsOutcome, Published
<1>7. AbsLib' = AbsLib
  BY <1>1, LibStays
<1> QED
  BY <1>5, <1>6, <1>7, AbsStutters

\* A tab that asks for something.
LEMMA AskRefines ==
    ASSUME Inv, NEW t \in Tabs, NEW request, Append1(t, request),
           UNCHANGED <<meta, records, legacy, phase, work, outcome>>
    PROVE  Promise!Next
<1>1. Shapes /\ IsSequence(requests[t]) /\ (Published(t) => requests[t] # <<>>)
  BY DEF Inv, TabInv, TabOK, QueueOK, PhaseOK, Published
<1>2. /\ requests'[t] = Append(requests[t], request)
      /\ \A u \in Tabs \ {t} : requests'[u] = requests[u]
  BY <1>1 DEF Append1, Shapes
<1>3. \A u \in Tabs : Published(u)' = Published(u)
  BY DEF Published
<1>4. AbsLib' = AbsLib
  BY LibStays
<1>5. AbsOutcome' = AbsOutcome
  BY <1>3 DEF AbsOutcome
<1>6. \A u \in Tabs \ {t} : AbsPending'[u] = AbsPending[u]
  BY <1>2, <1>3 DEF AbsPending
<1>7. AbsPending'[t] = Append(AbsPending[t], request) /\ IsSequence(AbsPending[t])
  <2>1. CASE Published(t)
    <3>1. AbsPending[t] = Tail(requests[t]) /\ AbsPending'[t] = Tail(Append(requests[t], request))
      BY <1>2, <1>3, <2>1 DEF AbsPending
    <3> QED
      BY <1>1, <2>1, <3>1, HeadAndTailOfGrown, QueueShrinks
  <2>2. CASE ~Published(t)
    BY <1>1, <1>2, <1>3, <2>2 DEF AbsPending
  <2> QED
    BY <2>1, <2>2
<1>8. /\ AbsPending'[t] # <<>> /\ AbsPending'[t][Len(AbsPending'[t])] = request
  BY <1>7, QueueGrows
<1>9. AbsPending' = [AbsPending EXCEPT ![t] = Append(@, AbsPending'[t][Len(AbsPending'[t])])]
  <2>1. AbsPending' = [AbsPending EXCEPT ![t] = Append(AbsPending[t], request)]
    <3>1. /\ DOMAIN AbsPending = Tabs /\ DOMAIN AbsPending' = Tabs
          /\ AbsPending = [u \in Tabs |-> AbsPending[u]]
          /\ AbsPending' = [u \in Tabs |-> AbsPending'[u]]
      BY DEF AbsPending
    <3>2. PICK old, new, longer : /\ old = AbsPending /\ new = AbsPending'
                                  /\ longer = Append(AbsPending[t], request)
      OBVIOUS
    <3>3. new = [old EXCEPT ![t] = longer]
      BY <1>6, <1>7, <3>1, <3>2
    <3> QED
      BY <3>2, <3>3
  <2> QED
    BY <1>8, <2>1
<1>10. Promise!Submit(t)
  BY <1>4, <1>5, <1>8, <1>9 DEF Promise!Submit, AbsLib, AbsPending, AbsOutcome
<1> QED
  BY <1>10 DEF Promise!Next

LEMMA CloseRefines ==
    ASSUME Inv, NEW t \in Tabs, Close(t)
    PROVE  Promise!Next
<1>1. /\ phase' = [phase EXCEPT ![t] = "idle"] /\ requests' = [requests EXCEPT ![t] = <<>>]
      /\ work' = [work EXCEPT ![t] = NoWork] /\ outcome' = [outcome EXCEPT ![t] = Nothing]
      /\ UNCHANGED <<meta, records>> /\ legacy' = legacy
  BY DEF Close, databaseVars
<1>2. Shapes
  BY DEF Inv
<1>3. /\ phase'[t] = "idle" /\ requests'[t] = <<>> /\ outcome'[t] = Nothing
      /\ \A u \in Tabs \ {t} : /\ phase'[u] = phase[u] /\ requests'[u] = requests[u]
                               /\ work'[u] = work[u] /\ outcome'[u] = outcome[u]
  BY <1>1, <1>2 DEF Shapes
<1>4. AbsPending' = [AbsPending EXCEPT ![t] = <<>>]
  BY <1>3 DEF AbsPending, Published
<1>5. AbsOutcome' = [AbsOutcome EXCEPT ![t] = Nothing]
  BY <1>3 DEF AbsOutcome, Published
<1>6. AbsLib' = AbsLib
  BY <1>1, LibStays
<1>7. Promise!Close(t)
  BY <1>4, <1>5, <1>6 DEF Promise!Close, AbsLib, AbsPending, AbsOutcome
<1> QED
  BY <1>7 DEF Promise!Next

LEMMA InitRefines ==
    ASSUME Init
    PROVE  Promise!Init
<1>1. PICK s \in Scenarios : StartsMigrated(s.libraries) \/ StartsLegacy(s.legacy)
  BY DEF Init
<1>2. AbsLib \in Library
  <2>1. CASE StartsMigrated(s.libraries)
    <3>1. PICK lib \in s.libraries :
            /\ meta = [revision |-> 1, ids |-> [i \in DOMAIN lib |-> lib[i].id]]
            /\ records = [id \in Ids(lib) |-> Entry(lib, id)]
      BY <2>1 DEF StartsMigrated
    <3>2. IsLibrary(lib) /\ lib \in Library
      BY GivenLibraries, LibrariesAssumption
    <3>3. meta # NoMeta /\ Saved(meta, records) = lib
      BY <3>1, <3>2, MigratedDatabase
    <3>4. AbsLib = lib
      BY <3>3, SavedIsSaved DEF AbsLib
    <3> QED
      BY <3>2, <3>4
  <2>2. CASE StartsLegacy(s.legacy)
    <3>1. legacy \in s.legacy /\ AbsLib = LibraryIn(legacy)
      BY <2>2 DEF StartsLegacy, AbsLib
    <3>2. CASE legacy \in Unreadable
      <4>1. <<>> \in Seq(Playlist)
        OBVIOUS
      <4> QED
        BY <3>1, <3>2, <4>1 DEF LibraryIn, Library
    <3>3. CASE legacy \notin Unreadable
      <4>1. PICK bytes : bytes = legacy
        OBVIOUS
      <4>2. bytes \in UNION {z.libraries \cup (z.legacy \ Unreadable) : z \in Scenarios}
        BY <3>1, <3>3, <4>1
      <4>3. bytes \in Library
        BY <4>2, LibrariesAssumption
      <4> QED
        BY <3>1, <3>3, <4>1, <4>3 DEF LibraryIn
    <3> QED
      BY <3>2, <3>3
  <2> QED
    BY <1>1, <2>1, <2>2
<1>3. /\ requests = [t \in Tabs |-> <<>>] /\ phase = [t \in Tabs |-> "idle"]
      /\ outcome = [t \in Tabs |-> Nothing]
  BY DEF Init
<1>4. AbsPending = [t \in Tabs |-> <<>>]
  BY <1>3 DEF AbsPending, Published
<1>5. AbsOutcome = [t \in Tabs |-> Nothing]
  BY <1>3 DEF AbsOutcome, Published
<1> QED
  BY <1>2, <1>4, <1>5 DEF Promise!Init, AbsLib, AbsPending, AbsOutcome, Library

LEMMA StepRefines ==
    ASSUME OldTabLibraries = {}, Inv, [Next]_vars
    PROVE  [Promise!Next]_(Promise!vars)
<1>1. ASSUME NEW t \in Tabs, RequestStep(t)
      PROVE  [Promise!Next]_(Promise!vars)
  <2>1. CASE Read(t)
    BY <2>1, ReadRefines
  <2>2. CASE StartMigration(t)
    BY <2>2, StartMigrationRefines
  <2>3. CASE MigrationWrite(t)
    BY <2>3, MigrationWriteRefines
  <2>4. CASE MigrationVerify(t)
    BY <2>4, MigrationVerifyRefines
  <2>5. CASE Write(t)
    BY <2>5, WriteRefines
  <2>6. CASE Publish(t)
    BY <2>6, PublishRefines
  <2> QED
    BY <1>1, <2>1, <2>2, <2>3, <2>4, <2>5, <2>6 DEF RequestStep
<1>2. ASSUME NEW t \in Tabs, WriteFails(t) \/ Close(t)
      PROVE  Promise!Next
  BY <1>2, WriteFailsRefines, CloseRefines
<1>3. ASSUME NEW t \in Tabs, NoticeArrives(t) \/ Open(t) \/ Gesture(t)
      PROVE  Promise!Next
  <2>1. PICK request : Append1(t, request)
    BY <1>3, GestureAsks DEF NoticeArrives, Open, Ask
  <2>2. UNCHANGED <<meta, records, legacy, phase, work, outcome>>
    BY <1>3, GestureAsks DEF NoticeArrives, Open, Ask, databaseVars
  <2> QED
    BY <2>1, <2>2, AskRefines
<1>4. ~OldTabWrites
  BY DEF OldTabWrites
<1>5. CASE UNCHANGED vars
  <2>1. /\ UNCHANGED <<meta, records, legacy>> /\ phase' = phase /\ work' = work
        /\ requests' = requests /\ outcome' = outcome
    BY <1>5 DEF vars, databaseVars, tabVars
  <2>2. AbsLib' = AbsLib /\ AbsPending' = AbsPending /\ AbsOutcome' = AbsOutcome
    BY <2>1, LibStays DEF AbsPending, AbsOutcome, Published
  <2> QED
    BY <2>2 DEF Promise!vars, AbsLib, AbsPending, AbsOutcome
<1> QED
  BY <1>1, <1>2, <1>3, <1>4, <1>5 DEF Next

(***************************************************************************)
(* The library of the tabs is one atomic library, with or without Web      *)
(* Locks, whatever fails or is closed: no edit is lost to another tab's,   *)
(* and a request answered "failed" has done nothing.  Only where tabs of   *)
(* older versions still write localStorage is there a second library,      *)
(* until the migration.                                                    *)
(***************************************************************************)
THEOREM ImplementsOneLibrary ==
    ASSUME OldTabLibraries = {}
    PROVE  Spec => ActsAsOneLibrary
<1>1. Init => Promise!Init
  BY InitRefines
<1>2. Inv /\ [Next]_vars => [Promise!Next]_(Promise!vars)
  BY StepRefines
<1> QED
  BY <1>1, <1>2, Invariance, PTL DEF Spec, ActsAsOneLibrary, Promise!Spec
=============================================================================
