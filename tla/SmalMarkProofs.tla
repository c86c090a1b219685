--------------------------- MODULE SmalMarkProofs ---------------------------
(***************************************************************************)
(* For every heap, every program and every size of the chunks: the mark    *)
(* queue loses nothing, and the marks of a collection are exact.           *)
(***************************************************************************)
EXTENDS SmalMark, SequenceTheorems, TLAPS

-----------------------------------------------------------------------------
(* The mark queue.                                                         *)

(* A queue of chunks that fit. *)
MarkQueue(q) ==
  /\ q \in Seq(Seq(Pairs)) /\ q # <<>>
  /\ \A i \in DOMAIN q : WordsUsed(q[i]) <= mark_queue_SIZE

(* The pairs of one chunk, and of the chunks before the current one. *)
InChunk(c) == {c[j] : j \in DOMAIN c}
Older(q)   == UNION {InChunk(q[i]) : i \in 1..(Len(q) - 1)}

(* The chunk pairs go to and come from. *)
LEMMA CurrentChunk ==
  ASSUME NEW q, MarkQueue(q)
  PROVE  /\ Len(q) \in Nat \ {0} /\ DOMAIN q = 1..Len(q) /\ Len(q) \in DOMAIN q
         /\ \A i \in DOMAIN q : /\ q[i] \in Seq(Pairs)
                                /\ Len(q[i]) \in Nat /\ DOMAIN q[i] = 1..Len(q[i])
         /\ Current(q) = q[Len(q)]
<1>1. /\ Len(q) \in Nat \ {0} /\ DOMAIN q = 1..Len(q)
  BY EmptySeq, LenProperties DEF MarkQueue
<1>2. \A i \in DOMAIN q : q[i] \in Seq(Pairs)
  BY <1>1, ElementOfSeq DEF MarkQueue
<1>3. \A i \in DOMAIN q : Len(q[i]) \in Nat /\ DOMAIN q[i] = 1..Len(q[i])
  BY <1>2, LenProperties
<1>. QED BY <1>1, <1>2, <1>3 DEF Current

(* What is queued is in the current chunk or in an older one. *)
LEMMA QueuedParts ==
  ASSUME NEW q, NEW n \in Nat \ {0}, DOMAIN q = 1..n, Len(q) = n
  PROVE  Queued(q) = Older(q) \cup InChunk(q[n])
<1>1. DOMAIN q = 1..(n - 1) \cup {n}
  OBVIOUS
<1>2. Queued(q) = UNION {InChunk(q[i]) : i \in DOMAIN q}
  BY DEF Queued, InChunk
<1>3. Older(q) = UNION {InChunk(q[i]) : i \in 1..(n - 1)}
  BY DEF Older
<1> HIDE DEF InChunk
<1>. QED BY ONLY <1>1, <1>2, <1>3, Zenon

(* The current chunk becomes "c". *)
LEMMA NewCurrent ==
  ASSUME NEW q, MarkQueue(q), NEW c \in Seq(Pairs), WordsUsed(c) <= mark_queue_SIZE,
         NEW r, r = [q EXCEPT ![Len(q)] = c]
  PROVE  MarkQueue(r) /\ Queued(r) = Older(q) \cup InChunk(c)
<1> DEFINE n == Len(q)
<1>1. /\ n \in Nat \ {0} /\ DOMAIN q = 1..n /\ n \in DOMAIN q
      /\ q \in Seq(Seq(Pairs)) /\ \A i \in 1..n : WordsUsed(q[i]) <= mark_queue_SIZE
  BY CurrentChunk DEF MarkQueue
<1>2. /\ r \in Seq(Seq(Pairs)) /\ Len(r) = n /\ DOMAIN r = 1..n
      /\ \A i \in 1..n : r[i] = IF i = n THEN c ELSE q[i]
  BY <1>1, ExceptSeq, LenProperties
<1> HIDE DEF n
<1>3. \A i \in DOMAIN r : WordsUsed(r[i]) <= mark_queue_SIZE
  BY <1>1, <1>2
<1>4. MarkQueue(r)
  BY <1>1, <1>2, <1>3, EmptySeq DEF MarkQueue
<1>5. \A i \in 1..(n - 1) : r[i] = q[i]
  BY <1>1, <1>2
<1>6. Older(r) = UNION {InChunk(r[i]) : i \in 1..(n - 1)}
  BY <1>2 DEF Older
<1>7. Older(q) = UNION {InChunk(q[i]) : i \in 1..(n - 1)}
  BY DEF Older, n
<1>8. r[n] = c
  BY <1>1, <1>2
<1>9. Queued(r) = Older(r) \cup InChunk(r[n])
  BY <1>1, <1>2, QueuedParts
<1>10. Older(r) = Older(q)
  BY ONLY <1>5, <1>6, <1>7, Zenon
<1>. QED BY <1>4, <1>8, <1>9, <1>10

(* A pair at the end of a chunk; the last pair of a chunk. *)
LEMMA LongerChunk ==
  ASSUME NEW c \in Seq(Pairs), NEW p \in Pairs
  PROVE  /\ Append(c, p) \in Seq(Pairs) /\ Len(Append(c, p)) = Len(c) + 1
         /\ InChunk(Append(c, p)) = InChunk(c) \cup {p}
<1>1. /\ Append(c, p) \in Seq(Pairs) /\ Len(c) \in Nat /\ DOMAIN c = 1..Len(c)
      /\ Len(Append(c, p)) = Len(c) + 1 /\ DOMAIN Append(c, p) = 1..(Len(c) + 1)
      /\ \A j \in 1..Len(c) : Append(c, p)[j] = c[j]
      /\ Append(c, p)[Len(c) + 1] = p
  BY LenProperties
<1>2. DOMAIN Append(c, p) = DOMAIN c \cup {Len(c) + 1}
  BY <1>1
<1>3. InChunk(Append(c, p)) = InChunk(c) \cup {p}
  <2> DEFINE d == Append(c, p)
             k == Len(c) + 1
  <2>1. DOMAIN d = DOMAIN c \cup {k} /\ d[k] = p /\ \A j \in DOMAIN c : d[j] = c[j]
    BY <1>1, <1>2
  <2> HIDE DEF d, k
  <2>2. InChunk(d) = InChunk(c) \cup {p}
    BY ONLY <2>1, ZenonT(30) DEF InChunk
  <2>. QED BY <2>2 DEF d
<1>. QED BY <1>1, <1>3

(* A chunk without its last pair (the pop of smal_mark_queue_mark). *)
LEMMA ShorterChunk ==
  ASSUME NEW c \in Seq(Pairs), c # <<>>
  PROVE  LET d == SubSeq(c, 1, Len(c) - 1)
         IN  /\ d \in Seq(Pairs) /\ Len(d) = Len(c) - 1 /\ c[Len(c)] \in Pairs
             /\ InChunk(c) = InChunk(d) \cup {c[Len(c)]}
<1> DEFINE d == SubSeq(c, 1, Len(c) - 1)
           k == Len(c)
<1>1. k \in Nat \ {0} /\ DOMAIN c = 1..k /\ c[k] \in Pairs
  BY EmptySeq, LenProperties, ElementOfSeq
<1>2. /\ d \in Seq(Pairs) /\ Len(d) = k - 1 /\ DOMAIN d = 1..(k - 1)
      /\ \A j \in 1..(k - 1) : d[j] = c[j]
  BY <1>1, SubSeqProperties, LenProperties
<1>3. DOMAIN c = DOMAIN d \cup {k} /\ \A j \in DOMAIN d : d[j] = c[j]
  BY <1>1, <1>2
<1>4. InChunk(c) = InChunk(d) \cup {c[k]}
  <2> HIDE DEF d, k
  <2>. QED BY ONLY <1>3, Zenon DEF InChunk
<1>. QED BY <1>1, <1>2, <1>4

-----------------------------------------------------------------------------
(* A pair of words fits in a chunk that is not full, since the size is     *)
(* even; a new chunk is made for it otherwise.                             *)
LEMMA QueueAddKeeps ==
  ASSUME MarkAssumption, NEW q, MarkQueue(q),
         NEW referrer \in Objects \cup {NoObject}, NEW p \in Words, p # Null
  PROVE  /\ MarkQueue(QueueAdd(q, referrer, p))
         /\ Queued(QueueAdd(q, referrer, p)) = Queued(q) \cup {[referrer |-> referrer, ptr |-> p]}
<1> DEFINE pair == [referrer |-> referrer, ptr |-> p]
           n    == Len(q)
           r    == QueueAdd(q, referrer, p)
<1>1. pair \in Pairs
  BY DEF Pairs
<1>2. /\ n \in Nat \ {0} /\ DOMAIN q = 1..n /\ n \in DOMAIN q
      /\ q[n] \in Seq(Pairs) /\ Len(q[n]) \in Nat /\ Current(q) = q[n]
  BY CurrentChunk
<1>3. mark_queue_SIZE \in Nat /\ mark_queue_SIZE >= 2 /\ mark_queue_SIZE % 2 = 0
  BY DEF MarkAssumption
<1>4. CASE WordsUsed(Current(q)) >= mark_queue_SIZE
  <2>1. r = Append(q, <<pair>>)
    BY <1>4 DEF QueueAdd
  <2>2. <<pair>> \in Seq(Pairs) /\ Len(<<pair>>) = 1 /\ InChunk(<<pair>>) = {pair}
    BY <1>1 DEF InChunk
  <2>3. /\ r \in Seq(Seq(Pairs)) /\ Len(r) = n + 1 /\ DOMAIN r = 1..(n + 1)
        /\ \A i \in 1..n : r[i] = q[i]
        /\ r[n + 1] = <<pair>>
    BY <1>2, <2>1, <2>2, LenProperties DEF MarkQueue
  <2>4. WordsUsed(r[n + 1]) <= mark_queue_SIZE
    <3>1. Len(r[n + 1]) = 1
      BY <2>2, <2>3
    <3>. QED BY ONLY <1>3, <3>1 DEF WordsUsed
  <2> HIDE DEF r, n, pair
  <2>5. \A i \in DOMAIN r : WordsUsed(r[i]) <= mark_queue_SIZE
    <3>1. \A i \in 1..n : WordsUsed(r[i]) <= mark_queue_SIZE
      BY <1>2, <2>3 DEF MarkQueue
    <3>2. DOMAIN r = 1..n \cup {n + 1}
      BY <1>2, <2>3
    <3>. QED BY ONLY <2>4, <3>1, <3>2
  <2>6. MarkQueue(r)
    BY <1>2, <2>3, <2>5, EmptySeq DEF MarkQueue
  <2>7. Queued(r) = Older(r) \cup InChunk(r[n + 1])
    <3>1. n + 1 \in Nat \ {0}
      BY <1>2
    <3>. QED BY <2>3, <3>1, QueuedParts
  <2>8. Older(r) = UNION {InChunk(r[i]) : i \in 1..n}
    BY <1>2, <2>3 DEF Older
  <2>9. Queued(q) = UNION {InChunk(q[i]) : i \in 1..n}
    BY <1>2 DEF Queued, InChunk
  <2>10. \A i \in 1..n : r[i] = q[i]
    BY <2>3
  <2>11. Older(r) = Queued(q)
    BY ONLY <2>8, <2>9, <2>10, Zenon
  <2>. QED BY <2>2, <2>3, <2>6, <2>7, <2>11 DEF r, pair
<1>5. CASE ~ (WordsUsed(Current(q)) >= mark_queue_SIZE)
  <2> DEFINE c == Append(q[n], pair)
  <2>1. r = [q EXCEPT ![n] = c]
    BY <1>5 DEF QueueAdd
  <2>2. c \in Seq(Pairs) /\ Len(c) = Len(q[n]) + 1 /\ InChunk(c) = InChunk(q[n]) \cup {pair}
    BY <1>1, <1>2, LongerChunk
  <2>3. WordsUsed(c) <= mark_queue_SIZE
    BY <1>2, <1>3, <1>5, <2>2 DEF WordsUsed
  <2> HIDE DEF r, c
  <2>4. MarkQueue(r) /\ Queued(r) = Older(q) \cup InChunk(c)
    BY <2>1, <2>2, <2>3, NewCurrent
  <2>5. Queued(q) = Older(q) \cup InChunk(q[n])
    BY <1>2, QueuedParts
  <2>. QED BY <2>2, <2>4, <2>5 DEF r
<1>. QED BY <1>4, <1>5

(* The pair on top is taken, and no other. *)
LEMMA QueueRestKeeps ==
  ASSUME MarkAssumption, NEW q, MarkQueue(q), Current(q) # <<>>
  PROVE  /\ MarkQueue(QueueRest(q))
         /\ Current(q)[Len(Current(q))] \in Pairs
         /\ Queued(q) = Queued(QueueRest(q)) \cup {Current(q)[Len(Current(q))]}
<1> DEFINE n == Len(q)
           c == SubSeq(q[n], 1, Len(q[n]) - 1)
<1>1. /\ n \in Nat \ {0} /\ DOMAIN q = 1..n /\ n \in DOMAIN q
      /\ q[n] \in Seq(Pairs) /\ Len(q[n]) \in Nat /\ Current(q) = q[n]
  BY CurrentChunk
<1>2. /\ c \in Seq(Pairs) /\ Len(c) = Len(q[n]) - 1 /\ q[n][Len(q[n])] \in Pairs
      /\ InChunk(q[n]) = InChunk(c) \cup {q[n][Len(q[n])]}
  BY <1>1, ShorterChunk
<1>3. 2 * Len(q[n]) <= mark_queue_SIZE /\ mark_queue_SIZE \in Nat
  BY <1>1 DEF MarkQueue, WordsUsed, MarkAssumption
<1>4. WordsUsed(c) <= mark_queue_SIZE
  BY <1>1, <1>2, <1>3 DEF WordsUsed
<1>5. QueueRest(q) = [q EXCEPT ![n] = c]
  BY DEF QueueRest
<1> HIDE DEF c
<1>6. MarkQueue(QueueRest(q)) /\ Queued(QueueRest(q)) = Older(q) \cup InChunk(c)
  BY <1>2, <1>4, <1>5, NewCurrent
<1>7. Queued(q) = Older(q) \cup InChunk(q[n])
  BY <1>1, QueuedParts
<1>. QED BY <1>1, <1>2, <1>6, <1>7

(* An empty chunk can go when there is one before it. *)
LEMMA QueuePrevKeeps ==
  ASSUME NEW q, MarkQueue(q), Current(q) = <<>>, Len(q) > 1
  PROVE  MarkQueue(QueuePrev(q)) /\ Queued(QueuePrev(q)) = Queued(q)
<1> DEFINE n == Len(q)
           r == QueuePrev(q)
<1>1. /\ n \in Nat \ {0} /\ DOMAIN q = 1..n /\ Current(q) = q[n]
  BY CurrentChunk
<1>2. /\ r \in Seq(Seq(Pairs)) /\ Len(r) = n - 1 /\ DOMAIN r = 1..(n - 1)
      /\ \A i \in 1..(n - 1) : r[i] = q[i]
  BY <1>1, SubSeqProperties, LenProperties DEF QueuePrev, MarkQueue
<1>a. \A i \in 1..n : WordsUsed(q[i]) <= mark_queue_SIZE
  BY <1>1 DEF MarkQueue
<1> HIDE DEF r
<1>3. MarkQueue(r)
  <2>1. r # <<>>
    BY <1>1, <1>2, EmptySeq
  <2>2. \A i \in DOMAIN r : WordsUsed(r[i]) <= mark_queue_SIZE
    BY <1>1, <1>2, <1>a
  <2>. QED BY <1>2, <2>1, <2>2 DEF MarkQueue
<1>4. Queued(q) = Older(q) \cup InChunk(q[n])
  BY <1>1, QueuedParts
<1>5. InChunk(q[n]) = {}
  BY <1>1 DEF InChunk
<1>6. Older(q) = UNION {InChunk(q[i]) : i \in 1..(n - 1)}
  BY DEF Older
<1>7. Queued(r) = UNION {InChunk(r[i]) : i \in 1..(n - 1)}
  BY <1>2 DEF Queued, InChunk
<1>8. \A i \in 1..(n - 1) : r[i] = q[i]
  BY <1>2
<1>9. Queued(r) = Older(q)
  <2> HIDE DEF r, n
  <2>. QED BY ONLY <1>6, <1>7, <1>8, Zenon
<1>. QED BY <1>3, <1>4, <1>5, <1>9 DEF r

(* smal_mark_queue_add of any pointer: what the queue leads to. *)
QueuedWords(q) == {x.ptr : x \in Queued(q)}
TargetOf(p)    == Targets({p})

(* It adds the pair to what is queued, unless the pointer is null. *)
LEMMA QueueAddWord ==
  ASSUME MarkAssumption, NEW q, MarkQueue(q),
         NEW referrer \in Objects \cup {NoObject}, NEW p \in Words,
         NEW r, r = QueueAdd(q, referrer, p)
  PROVE  /\ MarkQueue(r)
         /\ Queued(r) \subseteq Queued(q) \cup {[referrer |-> referrer, ptr |-> p]}
         /\ Targets(QueuedWords(r)) = Targets(QueuedWords(q)) \cup TargetOf(p)
<1>1. CASE p = Null
  <2>1. r = q
    BY <1>1 DEF QueueAdd
  <2>2. TargetOf(p) = {}
    BY <1>1 DEF TargetOf, Targets, MarkAssumption
  <2>. QED BY <2>1, <2>2
<1>2. CASE p # Null
  <2> DEFINE pair == [referrer |-> referrer, ptr |-> p]
  <2>1. MarkQueue(r) /\ Queued(r) = Queued(q) \cup {pair}
    BY <1>2, QueueAddKeeps
  <2>2. pair.ptr = p
    OBVIOUS
  <2> HIDE DEF pair
  <2>3. QueuedWords(r) = QueuedWords(q) \cup {p}
    BY ONLY <2>1, <2>2, Zenon DEF QueuedWords
  <2>4. Targets(QueuedWords(r)) = Targets(QueuedWords(q)) \cup TargetOf(p)
    BY <2>3 DEF Targets, TargetOf
  <2>. QED BY <2>1, <2>4 DEF pair
<1>. QED BY <1>1, <1>2

-----------------------------------------------------------------------------
(* The scan of a region.                                                   *)

(* smal_ALIGN gives the first multiple that is not below its argument. *)
LEMMA Alignment ==
  ASSUME NEW a \in Nat
  PROVE  /\ AlignUp(a) \in Nat /\ a <= AlignUp(a) /\ AlignUp(a) % ScanStep = 0
         /\ \A y \in Int : y >= a /\ y % PointerSize = 0 => y >= AlignUp(a)
<1>1. a % 8 \in 0..7
  OBVIOUS
<1>2. PICK k \in Int : a = 8 * k + (a % 8)
  OBVIOUS
<1>3. AlignUp(a) = IF a % 8 = 0 THEN 8 * k ELSE 8 * k + 8
  BY <1>1, <1>2 DEF AlignUp, PointerSize
<1>4. AlignUp(a) \in Nat /\ a <= AlignUp(a)
  BY <1>1, <1>2, <1>3
<1>5. (8 * k) % 4 = 0 /\ (8 * k + 8) % 4 = 0
  OBVIOUS
<1>6. ASSUME NEW y \in Int, y >= a, y % 8 = 0 PROVE y >= AlignUp(a)
  <2>1. PICK l \in Int : y = 8 * l
    BY <1>6
  <2>. QED BY <1>1, <1>2, <1>3, <1>6, <2>1
<1>. QED BY <1>3, <1>4, <1>5, <1>6 DEF ScanStep, PointerSize

(* An aligned word of a region is one of its words. *)
LEMMA AlignedWords ==
  ASSUME NEW a, NEW b
  PROVE  AlignedIn(a, b) \subseteq WordsIn(a, b)
BY DEF AlignedIn, WordsIn

(* A scan from the aligned start misses no aligned word.                   *)
LEMMA FromAligned ==
  ASSUME NEW a \in Nat, NEW b \in Nat
  PROVE  AlignedIn(a, b) = AlignedIn(AlignUp(a), b)
BY Alignment DEF AlignedIn, PointerSize

(* ... nor does a step over one int: what is left are the words behind it. *)
LEMMA NextWord ==
  ASSUME NEW a \in Int, NEW b \in Int, a % ScanStep = 0
  PROVE  /\ AlignedIn(a, b) \subseteq {Stack[a]} \cup AlignedIn(a + ScanStep, b)
         /\ AlignedIn(a + ScanStep, b) \subseteq AlignedIn(a, b)
<1>1. ASSUME NEW y \in a..(b - 8), y % 8 = 0, y # a PROVE y \in (a + 4)..(b - 8)
  <2>1. PICK k \in Int, l \in Int : y = 8 * k /\ a = 4 * l
    BY <1>1 DEF ScanStep
  <2>. QED BY <1>1, <2>1
<1>2. (a + 4)..(b - 8) \subseteq a..(b - 8)
  OBVIOUS
<1>3. AlignedIn(a, b) \subseteq {Stack[a]} \cup AlignedIn(a + ScanStep, b)
  BY <1>1 DEF AlignedIn, ScanStep, PointerSize
<1>4. AlignedIn(a + ScanStep, b) \subseteq AlignedIn(a, b)
  BY <1>2 DEF AlignedIn, ScanStep, PointerSize
<1>. QED BY <1>3, <1>4

(* When the scan stops no aligned word is left in the region. *)
LEMMA NoWordLeft ==
  ASSUME NEW a \in Int, NEW b \in Int, ~ (a < LastByte(b))
  PROVE  AlignedIn(a, b) = {}
BY DEF AlignedIn, LastByte, PointerSize

(* The region of a call: memory that can be read. *)
LEMMA Region ==
  ASSUME MarkAssumption, NEW r \in Ranges
  PROVE  LET a == Lower(r[1], r[2])  b == Upper(r[1], r[2])
         IN  /\ a \in Nat /\ b \in Nat /\ a..(b - 1) \subseteq DOMAIN Stack
             /\ WordsIn(a, b) \subseteq Words
<1> DEFINE a == Lower(r[1], r[2])
           b == Upper(r[1], r[2])
<1>1. /\ r[1] \in Nat /\ r[2] \in Nat
      /\ (r[1]..(r[2] - 1)) \cup (r[2]..(r[1] - 1)) \subseteq DOMAIN Stack
  BY DEF MarkAssumption
<1>2. a \in Nat /\ b \in Nat /\ a..(b - 1) \subseteq DOMAIN Stack
  BY <1>1 DEF Lower, Upper
<1>3. \A x \in a..(b - 8) : x \in a..(b - 1)
  BY <1>2
<1>4. WordsIn(a, b) \subseteq Words
  BY <1>2, <1>3 DEF WordsIn, PointerSize, MarkAssumption
<1>. QED BY <1>2, <1>4

-----------------------------------------------------------------------------
(* What can be reached.                                                    *)

(* What words point to: the union over them, and objects only. *)
LEMMA TargetsUnion ==
  ASSUME NEW V, NEW W
  PROVE  /\ Targets(V \cup W) = Targets(V) \cup Targets(W)
         /\ V \subseteq W => Targets(V) \subseteq Targets(W)
         /\ Targets(V) \subseteq Objects
BY DEF Targets

(* ReachableFrom(words) holds what the words point to, is closed, and is   *)
(* the least such set.                                                     *)
LEMMA Reached ==
  ASSUME NEW words
  PROVE  /\ Targets(words) \subseteq ReachableFrom(words)
         /\ \A o \in ReachableFrom(words) : Children(o) \subseteq ReachableFrom(words)
         /\ \A S \in SUBSET Objects :
               Targets(words) \subseteq S /\ Closed(S) => ReachableFrom(words) \subseteq S
<1>1. Targets(words) \subseteq ReachableFrom(words)
  BY TargetsUnion DEF ReachableFrom
<1>2. \A o : Children(o) \subseteq Objects
  BY DEF Children, Targets
<1>3. ASSUME NEW o \in ReachableFrom(words), NEW c \in Children(o)
      PROVE  c \in ReachableFrom(words)
  <2>1. ASSUME NEW S \in SUBSET Objects, Targets(words) \subseteq S, Closed(S)
        PROVE  c \in S
    <3>1. o \in S
      BY <2>1 DEF ReachableFrom
    <3>. QED BY <1>3, <2>1, <3>1 DEF Closed
  <2>. QED BY <1>2, <1>3, <2>1 DEF ReachableFrom
<1>4. ASSUME NEW S \in SUBSET Objects, Targets(words) \subseteq S, Closed(S)
      PROVE  ReachableFrom(words) \subseteq S
  BY <1>4 DEF ReachableFrom
<1>. QED BY <1>1, <1>3, <1>4

(* More words reach more. *)
LEMMA ReachedFromMore ==
  ASSUME NEW V, NEW W, V \subseteq W
  PROVE  ReachableFrom(V) \subseteq ReachableFrom(W)
<1>1. Targets(V) \subseteq Targets(W)
  BY TargetsUnion
<1>. QED BY <1>1 DEF ReachableFrom

(* Marking writes no object. *)
LEMMA HeapStays ==
  ASSUME heap' = heap
  PROVE  /\ \A o : Children(o)' = Children(o)
         /\ \A S : Closed(S)' = Closed(S)
         /\ \A words : ReachableFrom(words)' = ReachableFrom(words)
<1>1. car' = car /\ cdr' = cdr
  BY DEF heap
<1>2. \A o : Children(o)' = Children(o)
  BY <1>1 DEF Children
<1>3. \A S : Closed(S)' = Closed(S)
  BY <1>2 DEF Closed
<1>4. \A words : ReachableFrom(words)' = ReachableFrom(words)
  BY <1>3 DEF ReachableFrom
<1>. QED BY <1>2, <1>3, <1>4

-----------------------------------------------------------------------------
(* The inductive invariant, part by part.                                  *)

(* What is in use where. *)
PlaceOK ==
  /\ IF at = "tail" THEN tail \in Pairs ELSE tail = NoPair
  /\ at # "add" => args = <<>>
  /\ at \in {"idle", "marked"} => Queued(mark_queue) = {}
  /\ at # "idle" => MarkQueue(mark_queue)
  /\ at = "idle" => given = {} /\ perhaps = {}

(* The scan is inside its region. *)
ScanOK ==
  at = "range" =>
    /\ lo <= ptr /\ ptr % ScanStep = 0 /\ ptr_end = LastByte(hi)
    /\ lo..(hi - 1) \subseteq DOMAIN Stack
    /\ WordsIn(lo, hi) \subseteq perhaps

(* What marking has yet to look at. *)
ArgWords(s) == {s[i] : i \in DOMAIN s}
ToScan == IF at = "range" THEN AlignedIn(ptr, hi) ELSE {}
Grey   == Targets(QueuedWords(mark_queue)) \cup TargetOf(tail.ptr)
            \cup Targets(ArgWords(args)) \cup Targets(ToScan)

(* Nothing is forgotten: what a marked object or a caller's word leads to  *)
(* is marked or still to be looked at.                                     *)
TriColour ==
  /\ Targets(given) \subseteq marks \cup Grey
  /\ \A o \in marks : Children(o) \subseteq marks \cup Grey

(* Nothing else is marked. *)
Justified == at # "idle" => marks \cup Grey \subseteq ReachableFrom(perhaps)

IInv == TypeOK /\ PlaceOK /\ ScanOK /\ TriColour /\ Justified /\ ReferrerHolds

-----------------------------------------------------------------------------
(* The pointers smal_mark_bindings reads. *)
LEMMA DerefWords ==
  ASSUME MarkAssumption, NEW bs \in Bindings
  PROVE  Deref(bs) \in Seq(Words) /\ DOMAIN Deref(bs) = DOMAIN bs
<1>1. bs \in Seq(Words \cup {NoBinding})
  BY DEF MarkAssumption
<1>2. Len(bs) \in Nat /\ DOMAIN bs = 1..Len(bs)
      /\ \A i \in 1..Len(bs) : bs[i] \in Words \cup {NoBinding}
  BY <1>1, LenProperties, ElementOfSeq
<1>3. Deref(bs) \in [1..Len(bs) -> Words]
  BY <1>2 DEF Deref, MarkAssumption
<1>. QED BY <1>2, <1>3, SeqDef DEF Deref

(* The pointers that are still to be queued. *)
LEMMA NextArg ==
  ASSUME NEW s \in Seq(Words), s # <<>>
  PROVE  /\ Head(s) \in Words /\ Tail(s) \in Seq(Words)
         /\ ArgWords(s) = {Head(s)} \cup ArgWords(Tail(s))
<1>1. /\ Len(s) \in Nat \ {0} /\ DOMAIN s = 1..Len(s) /\ s[1] \in Words
  BY EmptySeq, LenProperties, ElementOfSeq
<1>2. /\ Head(s) = s[1] /\ Tail(s) \in Seq(Words) /\ Len(Tail(s)) = Len(s) - 1
      /\ \A i \in 1..Len(Tail(s)) : Tail(s)[i] = s[i + 1]
  BY HeadTailProperties
<1>3. DOMAIN Tail(s) = 1..(Len(s) - 1)
  BY <1>2, LenProperties
<1>4. ASSUME NEW i \in DOMAIN s PROVE s[i] \in {Head(s)} \cup {Tail(s)[j] : j \in DOMAIN Tail(s)}
  <2>1. CASE i = 1
    BY <1>2, <2>1
  <2>2. CASE i # 1
    <3>1. i - 1 \in DOMAIN Tail(s) /\ Tail(s)[i - 1] = s[i]
      BY <1>1, <1>2, <1>3, <2>2
    <3>. QED BY <3>1
  <2>. QED BY <2>1, <2>2
<1>5. ASSUME NEW j \in DOMAIN Tail(s) PROVE Tail(s)[j] \in {s[i] : i \in DOMAIN s}
  <2>1. j + 1 \in DOMAIN s /\ Tail(s)[j] = s[j + 1]
    BY <1>1, <1>2, <1>3
  <2>. QED BY <2>1
<1>6. Head(s) \in {s[i] : i \in DOMAIN s}
  BY <1>1, <1>2
<1>. QED BY <1>1, <1>2, <1>4, <1>5, <1>6 DEF ArgWords

-----------------------------------------------------------------------------
(* Every step keeps the types, the places and the scan.                    *)
TypedInv == TypeOK /\ PlaceOK /\ ScanOK

(* At the start nothing is queued and nobody scans. *)
LEMMA InitTyped == ASSUME Init PROVE TypedInv
<1>1. Queued(<<>>) = {}
  BY DEF Queued
<1>2. mark_queue \in Seq(Seq(Pairs)) /\ DOMAIN mark_queue = {} /\ args \in Seq(Words)
  BY DEF Init
<1>3. TypeOK
  BY <1>2, MarkAssumption DEF Init, TypeOK, Places
<1>4. PlaceOK /\ ScanOK
  BY <1>1 DEF Init, PlaceOK, ScanOK
<1>. QED BY <1>3, <1>4 DEF TypedInv

(* smal_mark_queue_start. *)
LEMMA StartTyped == ASSUME TypedInv, smal_mark_queue_start PROVE TypedInv'
<1> USE DEF TypedInv, smal_mark_queue_start, scan, heap, asked
<1>1. << <<>> >> \in Seq(Seq(Pairs)) /\ DOMAIN << <<>> >> = {1} /\ << <<>> >>[1] = <<>>
  OBVIOUS
<1>2. WordsUsed(<<>>) <= mark_queue_SIZE
  BY MarkAssumption DEF WordsUsed, MarkAssumption
<1>3. MarkQueue(<< <<>> >>)
  BY <1>1, <1>2 DEF MarkQueue
<1>4. TypeOK'
  BY <1>1, <1>2 DEF TypeOK, Places
<1>5. PlaceOK'
  BY <1>3 DEF PlaceOK
<1>6. ScanOK'
  BY DEF ScanOK
<1>. QED BY <1>4, <1>5, <1>6

(* A call of smal_mark_bindings. *)
LEMMA BindingsTyped ==
  ASSUME TypedInv, NEW bs \in Bindings, smal_mark_bindings(bs) PROVE TypedInv'
<1> USE DEF TypedInv, smal_mark_bindings, scan, heap
<1>1. Deref(bs) \in Seq(Words) /\ DOMAIN Deref(bs) = DOMAIN bs
  BY DerefWords, MarkAssumption
<1>2. {Deref(bs)[i] : i \in DOMAIN bs} \subseteq Words
  BY <1>1, ElementOfSeq, LenProperties
<1> HIDE DEF Deref
<1>3. TypeOK'
  BY <1>1, <1>2, MarkAssumption DEF TypeOK, Places, MarkAssumption
<1>4. PlaceOK' /\ ScanOK'
  BY DEF PlaceOK, ScanOK
<1>. QED BY <1>3, <1>4

(* The next of its pointers. *)
LEMMA AddPtrTyped == ASSUME TypedInv, AddPtr PROVE TypedInv'
<1> USE DEF TypedInv, AddPtr, scan, heap, asked
<1>1. MarkQueue(mark_queue)
  BY DEF PlaceOK
<1>2. CASE args = <<>>
  BY <1>1, <1>2 DEF TypeOK, Places, PlaceOK, ScanOK
<1>3. CASE args # <<>>
  <2>1. Head(args) \in Words /\ Tail(args) \in Seq(Words)
    BY <1>3, NextArg DEF TypeOK
  <2>2. MarkQueue(mark_queue')
    BY <1>1, <1>3, <2>1, QueueAddWord, MarkAssumption
  <2>3. TypeOK'
    BY <1>3, <2>1, <2>2 DEF TypeOK, MarkQueue
  <2>4. PlaceOK' /\ ScanOK'
    BY <1>3, <2>2 DEF PlaceOK, ScanOK
  <2>. QED BY <2>3, <2>4
<1>. QED BY <1>2, <1>3

(* A call of smal_mark_ptr_range. *)
LEMMA RangeTyped ==
  ASSUME TypedInv, NEW r \in Ranges, smal_mark_ptr_range(r[1], r[2]) PROVE TypedInv'
<1> USE DEF TypedInv, smal_mark_ptr_range, heap
<1>1. /\ lo' \in Nat /\ hi' \in Nat /\ lo'..(hi' - 1) \subseteq DOMAIN Stack
      /\ WordsIn(lo', hi') \subseteq Words
  BY Region, MarkAssumption
<1>2. ptr' \in Nat /\ lo' <= ptr' /\ ptr' % ScanStep = 0
  BY <1>1, Alignment
<1>3. ptr_end' \in Int /\ AlignedIn(lo', hi') \subseteq Words
  BY <1>1, AlignedWords DEF LastByte, PointerSize
<1>4. TypeOK'
  BY <1>1, <1>2, <1>3, MarkAssumption DEF TypeOK, Places, MarkAssumption
<1>5. PlaceOK'
  BY DEF PlaceOK
<1>6. ScanOK'
  BY <1>1, <1>2 DEF ScanOK
<1>. QED BY <1>4, <1>5, <1>6

(* The word at ptr is inside the region. *)
LEMMA WordRead ==
  ASSUME TypedInv, at = "range", ptr < ptr_end
  PROVE  /\ lo <= ptr /\ ptr + PointerSize <= hi
         /\ Stack[ptr] \in perhaps /\ Stack[ptr] \in Words
<1>1. lo \in Nat /\ hi \in Nat /\ ptr \in Int
  BY DEF TypedInv, TypeOK
<1>2. /\ lo <= ptr /\ ptr_end = LastByte(hi) /\ lo..(hi - 1) \subseteq DOMAIN Stack
      /\ WordsIn(lo, hi) \subseteq perhaps
  BY DEF TypedInv, ScanOK
<1>3. ptr + PointerSize <= hi
  BY <1>1, <1>2 DEF LastByte, PointerSize
<1>4. ptr \in lo..(hi - PointerSize) /\ ptr \in lo..(hi - 1)
  BY <1>1, <1>2, <1>3 DEF PointerSize
<1>5. Stack[ptr] \in perhaps
  BY <1>2, <1>4 DEF WordsIn
<1>6. Stack[ptr] \in Words
  BY <1>2, <1>4, MarkAssumption DEF MarkAssumption
<1>. QED BY <1>2, <1>3, <1>5, <1>6

(* The next word of its scan. *)
LEMMA ScanWordTyped == ASSUME TypedInv, ScanWord PROVE TypedInv'
<1> USE DEF TypedInv, ScanWord, heap, asked
<1>1. MarkQueue(mark_queue)
  BY DEF PlaceOK
<1>2. CASE ptr < ptr_end
  <2>1. MarkQueue(mark_queue')
    BY <1>1, <1>2, WordRead, QueueAddWord, MarkAssumption
  <2>2. ptr \in Int /\ lo \in Nat /\ lo <= ptr /\ ptr % ScanStep = 0
    BY DEF TypeOK, ScanOK
  <2>3. ptr' \in Int /\ lo <= ptr' /\ ptr' % ScanStep = 0
    BY <1>2, <2>2 DEF ScanStep
  <2>4. TypeOK'
    BY <1>2, <2>1, <2>3 DEF TypeOK, MarkQueue
  <2>5. PlaceOK'
    BY <1>2, <2>1 DEF PlaceOK
  <2>6. ScanOK'
    BY <1>2, <2>3 DEF ScanOK
  <2>. QED BY <2>4, <2>5, <2>6
<1>3. CASE ~ (ptr < ptr_end)
  <2>1. TypeOK'
    BY <1>3 DEF TypeOK, Places
  <2>2. PlaceOK' /\ ScanOK'
    BY <1>1, <1>3 DEF PlaceOK, ScanOK
  <2>. QED BY <2>1, <2>2
<1>. QED BY <1>2, <1>3

(* The pop of a pair, with the chunk it empties. *)
LEMMA PopTyped == ASSUME TypedInv, Pop PROVE TypedInv'
<1> USE DEF TypedInv, Pop, heap, asked, scan
<1>1. MarkQueue(mark_queue)
  BY DEF PlaceOK
<1>2. CASE Current(mark_queue) # <<>>
  <2>1. MarkQueue(mark_queue') /\ tail' \in Pairs
    BY <1>1, <1>2, QueueRestKeeps, MarkAssumption
  <2>2. TypeOK'
    BY <1>2, <2>1 DEF TypeOK, MarkQueue, Places
  <2>3. PlaceOK' /\ ScanOK'
    BY <1>2, <2>1 DEF PlaceOK, ScanOK
  <2>. QED BY <2>2, <2>3
<1>3. CASE Current(mark_queue) = <<>> /\ Len(mark_queue) > 1
  <2>1. MarkQueue(mark_queue')
    BY <1>1, <1>3, QueuePrevKeeps
  <2>2. TypeOK'
    BY <1>3, <2>1 DEF TypeOK, MarkQueue
  <2>3. PlaceOK' /\ ScanOK'
    BY <1>3, <2>1 DEF PlaceOK, ScanOK
  <2>. QED BY <2>2, <2>3
<1>4. CASE Current(mark_queue) = <<>> /\ ~ (Len(mark_queue) > 1)
  <2> DEFINE n == Len(mark_queue)
  <2>0. n \in Nat \ {0} /\ DOMAIN mark_queue = 1..n /\ mark_queue[n] = <<>> /\ ~ (n > 1)
    BY <1>1, <1>4, CurrentChunk
  <2>1. DOMAIN mark_queue = {1} /\ mark_queue[1] = <<>>
    <3> HIDE DEF n
    <3>1. n = 1
      BY <2>0
    <3>. QED BY <2>0, <3>1
  <2>2. Queued(mark_queue) = {}
    BY <2>1 DEF Queued
  <2>3. TypeOK'
    BY <1>4 DEF TypeOK, Places
  <2>4. PlaceOK' /\ ScanOK'
    BY <1>1, <1>4, <2>2 DEF PlaceOK, ScanOK
  <2>. QED BY <2>3, <2>4
<1>. QED BY <1>2, <1>3, <1>4

(* An object that is marked for the first time and has a mark_func. *)
LEMMA TailObject ==
  ASSUME TypedInv, at = "tail"
  PROVE  /\ ObjectAt[tail.ptr] \in Objects \cup {NoObject}
         /\ TargetOf(tail.ptr) = {ObjectAt[tail.ptr]} \cap Objects
         /\ \A o \in Markable : car[o] \in Words /\ cdr[o] \in Words /\ o \in Objects
<1>1. tail.ptr \in Words
  BY DEF TypedInv, PlaceOK, Pairs
<1>2. ObjectAt[tail.ptr] \in Objects \cup {NoObject}
  BY <1>1, MarkAssumption DEF MarkAssumption
<1>3. TargetOf(tail.ptr) = {ObjectAt[tail.ptr]} \cap Objects
  BY DEF TargetOf, Targets
<1>4. \A o \in Markable : car[o] \in Words /\ cdr[o] \in Words /\ o \in Objects
  BY MarkAssumption DEF TypedInv, TypeOK, MarkAssumption
<1>. QED BY <1>2, <1>3, <1>4

(* A mark_func and the pointer it returns. *)
LEMMA MarkTailTyped == ASSUME TypedInv, MarkTail PROVE TypedInv'
<1> DEFINE o == ObjectAt[tail.ptr]
<1> USE DEF TypedInv, MarkTail, heap, asked, scan
<1>1. MarkQueue(mark_queue) /\ o \in Objects \cup {NoObject}
  BY TailObject DEF PlaceOK
<1>2. marks' \subseteq Objects
  BY <1>1 DEF TypeOK
<1>3. CASE o \in Markable \ marks
  <2>1. car[o] \in Words /\ cdr[o] \in Words /\ o \in Objects
    BY <1>3, TailObject
  <2>2. MarkQueue(mark_queue')
    <3>1. mark_queue' = QueueAdd(mark_queue, o, car[o])
      BY <1>3
    <3>. QED BY <1>1, <2>1, <3>1, QueueAddWord, MarkAssumption
  <2>3. IF at' = "tail" THEN tail' \in Pairs ELSE at' = "pop" /\ tail' = NoPair
    BY <1>3, <2>1 DEF FollowTail, Pairs
  <2>4. TypeOK'
    BY <1>2, <1>3, <2>2, <2>3 DEF TypeOK, MarkQueue, Places
  <2>5. PlaceOK' /\ ScanOK'
    BY <1>3, <2>2, <2>3 DEF PlaceOK, ScanOK
  <2>. QED BY <2>4, <2>5
<1>4. CASE o \notin Markable \ marks
  <2>1. TypeOK'
    BY <1>2, <1>4 DEF TypeOK, Places
  <2>2. PlaceOK' /\ ScanOK'
    BY <1>1, <1>4 DEF PlaceOK, ScanOK
  <2>. QED BY <2>1, <2>2
<1>. QED BY <1>3, <1>4

(* Every step. *)
LEMMA StepTyped == ASSUME TypedInv, [Next]_vars PROVE TypedInv'
<1>1. CASE smal_mark_queue_mark_all
  BY <1>1 DEF smal_mark_queue_mark_all, TypedInv, TypeOK, Places, PlaceOK, ScanOK,
              heap, scan, asked
<1>2. CASE EndMark
  BY <1>2, MarkAssumption DEF MarkAssumption, EndMark, TypedInv, TypeOK, Places, PlaceOK, ScanOK, heap, scan
<1>3. CASE UNCHANGED vars
  BY <1>3 DEF vars, heap, scan, asked, TypedInv, TypeOK, PlaceOK, ScanOK
<1>4. CASE smal_mark_queue_start
  BY <1>4, StartTyped
<1>5. CASE \E bs \in Bindings : smal_mark_bindings(bs)
  BY <1>5, BindingsTyped
<1>6. CASE \E r \in Ranges : smal_mark_ptr_range(r[1], r[2])
  BY <1>6, RangeTyped
<1>7. CASE AddPtr \/ ScanWord \/ Pop \/ MarkTail
  BY <1>7, AddPtrTyped, ScanWordTyped, PopTyped, MarkTailTyped
<1>. QED BY <1>1, <1>2, <1>3, <1>4, <1>5, <1>6, <1>7 DEF Next, Call, Work

-----------------------------------------------------------------------------
(* What a step does to the marks and to what is still to be looked at.     *)

(* A collection begins or ends. *)
Begins == marks' = {} /\ Grey' = {} /\ given' = {}
Ends   == at' = "idle" /\ marks' = marks /\ Grey' = Grey /\ given' = {}

(* There may be more to look at. *)
Looks ==
  /\ marks' = marks
  /\ Grey \subseteq Grey' /\ Grey' \subseteq Grey \cup Targets(perhaps')
  /\ Targets(given') \subseteq Targets(given) \cup Grey' /\ perhaps \subseteq perhaps'
  /\ at' # "idle" => at # "idle"

(* One object is marked, and what it refers to is looked at. *)
Marks(o) ==
  /\ o \in Grey /\ marks' = marks \cup {o}
  /\ Grey \subseteq Grey' \cup {o} /\ Grey' \subseteq Grey \cup Children(o)
  /\ o \in marks \/ Children(o) \subseteq Grey'
  /\ given' = given /\ perhaps' = perhaps /\ at # "idle"

(* Without words nothing is pointed to. *)
LEMMA NoTargets ==
  ASSUME MarkAssumption
  PROVE  Targets({}) = {} /\ TargetOf(NoPair.ptr) = {} /\ Targets(ArgWords(<<>>)) = {}
BY DEF MarkAssumption, TargetOf, Targets, NoPair, ArgWords

(* smal_mark_queue_start begins. *)
LEMMA StartShape == ASSUME TypedInv, smal_mark_queue_start PROVE Begins
<1>1. tail' = NoPair /\ args' = <<>> /\ ToScan' = {} /\ given' = {}
  BY DEF TypedInv, PlaceOK, smal_mark_queue_start, ToScan, asked
<1>2. QueuedWords(<< <<>> >>) = {}
  BY DEF QueuedWords, Queued
<1>3. mark_queue' = << <<>> >> /\ marks' = {}
  BY DEF smal_mark_queue_start
<1>. QED BY <1>1, <1>2, <1>3, NoTargets, MarkAssumption DEF Begins, Grey

(* smal_mark_bindings gives words to look at. *)
LEMMA BindingsShape ==
  ASSUME TypedInv, NEW bs \in Bindings, smal_mark_bindings(bs) PROVE Looks
<1> DEFINE ws == ArgWords(Deref(bs))
<1>1. /\ args = <<>> /\ args' = Deref(bs) /\ ToScan = {} /\ ToScan' = {}
      /\ mark_queue' = mark_queue /\ tail' = tail /\ marks' = marks /\ at # "idle"
  BY DEF TypedInv, PlaceOK, smal_mark_bindings, ToScan
<1>2. given' = given \cup ws /\ perhaps' = perhaps \cup ws
  BY DerefWords, MarkAssumption DEF smal_mark_bindings, ArgWords
<1>3. Grey' = Grey \cup Targets(ws)
  BY <1>1, NoTargets, MarkAssumption DEF Grey
<1>. QED BY <1>1, <1>2, <1>3, TargetsUnion DEF Looks

(* Each of them is queued. *)
LEMMA AddPtrShape == ASSUME TypedInv, AddPtr PROVE Looks
<1>1. /\ tail' = tail /\ marks' = marks /\ ToScan = {} /\ ToScan' = {}
      /\ given' = given /\ perhaps' = perhaps /\ at # "idle"
  BY DEF AddPtr, ToScan, asked
<1>2. Grey' = Grey
  <2>1. CASE args = <<>>
    BY <1>1, <2>1 DEF AddPtr, Grey
  <2>2. CASE args # <<>>
    <3>1. /\ Head(args) \in Words /\ args' = Tail(args)
          /\ ArgWords(args) = {Head(args)} \cup ArgWords(args')
      BY <2>2, NextArg DEF AddPtr, TypedInv, TypeOK
    <3>2. /\ MarkQueue(mark_queue) /\ mark_queue' = QueueAdd(mark_queue, NoObject, Head(args))
      BY <2>2 DEF AddPtr, TypedInv, PlaceOK
    <3>3. Targets(QueuedWords(mark_queue'))
          = Targets(QueuedWords(mark_queue)) \cup TargetOf(Head(args))
      BY <3>1, <3>2, QueueAddWord, MarkAssumption
    <3>4. Targets(ArgWords(args)) = TargetOf(Head(args)) \cup Targets(ArgWords(args'))
      BY <3>1 DEF TargetOf, Targets
    <3>. QED BY <1>1, <3>3, <3>4 DEF Grey
  <2>. QED BY <2>1, <2>2
<1>. QED BY <1>1, <1>2 DEF Looks

(* smal_mark_ptr_range gives the words of a region. *)
LEMMA RangeShape ==
  ASSUME TypedInv, NEW r \in Ranges, smal_mark_ptr_range(r[1], r[2]) PROVE Looks
<1> DEFINE ws == AlignedIn(lo', hi')
<1>1. /\ args' = args /\ mark_queue' = mark_queue /\ tail' = tail /\ marks' = marks
      /\ at # "idle" /\ at # "range" /\ at' = "range"
      /\ given' = given \cup ws /\ perhaps' = perhaps \cup WordsIn(lo', hi')
  BY DEF smal_mark_ptr_range
<1>2. lo' \in Nat /\ hi' \in Nat /\ ptr' = AlignUp(lo')
  BY Region, MarkAssumption DEF smal_mark_ptr_range
<1>3. ToScan = {} /\ ToScan' = ws
  BY <1>1, <1>2, FromAligned DEF ToScan
<1>4. Grey' = Grey \cup Targets(ws)
  BY <1>1, <1>3, NoTargets, MarkAssumption DEF Grey
<1>5. Targets(ws) \subseteq Targets(perhaps') /\ Targets(given') = Targets(given) \cup Targets(ws)
  BY <1>1, AlignedWords, TargetsUnion
<1>. QED BY <1>1, <1>4, <1>5 DEF Looks

(* Each of them is queued, or was none of the region. *)
LEMMA ScanWordShape == ASSUME TypedInv, ScanWord PROVE Looks
<1>1. /\ args' = args /\ tail' = tail /\ marks' = marks /\ at = "range"
      /\ given' = given /\ perhaps' = perhaps
      /\ hi \in Int /\ ptr \in Int /\ ptr % ScanStep = 0 /\ ptr_end = LastByte(hi)
  BY DEF ScanWord, asked, TypedInv, TypeOK, ScanOK
<1>2. CASE ptr < ptr_end
  <2>1. /\ ptr' = ptr + ScanStep /\ hi' = hi /\ at' = "range"
        /\ mark_queue' = QueueAdd(mark_queue, NoObject, Stack[ptr])
    BY <1>1, <1>2 DEF ScanWord
  <2>2. Stack[ptr] \in Words /\ Stack[ptr] \in perhaps
    BY <1>1, <1>2, WordRead
  <2>3. MarkQueue(mark_queue)
    BY <1>1 DEF TypedInv, PlaceOK
  <2>4. Targets(QueuedWords(mark_queue'))
          = Targets(QueuedWords(mark_queue)) \cup TargetOf(Stack[ptr])
    BY <2>1, <2>2, <2>3, QueueAddWord, MarkAssumption
  <2>5. ToScan \subseteq {Stack[ptr]} \cup ToScan' /\ ToScan' \subseteq ToScan
    BY <1>1, <2>1, NextWord DEF ToScan
  <2>6. /\ Targets(ToScan) \subseteq TargetOf(Stack[ptr]) \cup Targets(ToScan')
        /\ Targets(ToScan') \subseteq Targets(ToScan)
    BY <2>5 DEF TargetOf, Targets
  <2>7. TargetOf(Stack[ptr]) \subseteq Targets(perhaps)
    BY <2>2 DEF TargetOf, Targets
  <2>8. Grey \subseteq Grey' /\ Grey' \subseteq Grey \cup Targets(perhaps)
    BY <1>1, <2>4, <2>6, <2>7 DEF Grey
  <2>. QED BY <1>1, <2>8 DEF Looks
<1>3. CASE ~ (ptr < ptr_end)
  <2>1. mark_queue' = mark_queue /\ at' = "roots"
    BY <1>3 DEF ScanWord
  <2>2. ToScan = {} /\ ToScan' = {}
    BY <1>1, <1>3, <2>1, NoWordLeft DEF ToScan
  <2>. QED BY <1>1, <2>1, <2>2 DEF Looks, Grey
<1>. QED BY <1>2, <1>3

(* A pair goes from the queue to the tail. *)
LEMMA PopShape == ASSUME TypedInv, Pop PROVE Looks
<1>1. /\ args' = args /\ marks' = marks /\ at = "pop" /\ ToScan = {} /\ ToScan' = {}
      /\ given' = given /\ perhaps' = perhaps /\ tail = NoPair /\ MarkQueue(mark_queue)
  BY DEF Pop, asked, TypedInv, PlaceOK, ToScan
<1>2. CASE Current(mark_queue) # <<>>
  <2>1. /\ mark_queue' = QueueRest(mark_queue)
        /\ Queued(mark_queue) = Queued(QueueRest(mark_queue)) \cup {tail'}
    BY <1>1, <1>2, QueueRestKeeps, MarkAssumption DEF Pop
  <2>2. QueuedWords(mark_queue) = QueuedWords(mark_queue') \cup {tail'.ptr}
    BY <2>1, Zenon DEF QueuedWords
  <2>3. Targets(QueuedWords(mark_queue))
          = Targets(QueuedWords(mark_queue')) \cup TargetOf(tail'.ptr)
    BY <2>2 DEF TargetOf, Targets
  <2>4. Grey' = Grey
    BY <1>1, <2>3, NoTargets, MarkAssumption DEF Grey
  <2>. QED BY <1>1, <2>4 DEF Looks
<1>3. CASE Current(mark_queue) = <<>>
  <2>1. tail' = tail /\ Queued(mark_queue') = Queued(mark_queue)
    BY <1>1, <1>3, QueuePrevKeeps DEF Pop
  <2>2. Grey' = Grey
    BY <1>1, <2>1 DEF Grey, QueuedWords
  <2>. QED BY <1>1, <2>2 DEF Looks
<1>. QED BY <1>2, <1>3

(* The tail is looked at, and its object marked if it is new. *)
LEMMA MarkTailShape ==
  ASSUME TypedInv, MarkTail PROVE Looks \/ \E o \in Objects : Marks(o)
<1> DEFINE o == ObjectAt[tail.ptr]
<1>1. /\ args' = args /\ at = "tail" /\ ToScan = {} /\ ToScan' = {} /\ args = <<>>
      /\ given' = given /\ perhaps' = perhaps /\ MarkQueue(mark_queue)
  BY DEF MarkTail, FollowTail, asked, TypedInv, PlaceOK, ToScan
<1>2. o \in Objects \cup {NoObject} /\ TargetOf(tail.ptr) = {o} \cap Objects
  BY <1>1, TailObject
<1>3. NoObject \notin Objects /\ Markable \subseteq Objects
  BY MarkAssumption DEF MarkAssumption
<1>4. /\ Grey = Targets(QueuedWords(mark_queue)) \cup ({o} \cap Objects)
      /\ Grey' = Targets(QueuedWords(mark_queue')) \cup TargetOf(tail'.ptr)
  BY <1>1, <1>2, NoTargets, MarkAssumption DEF Grey
<1>5. CASE o \in Markable \ marks
  <2>1. /\ mark_queue' = QueueAdd(mark_queue, o, car[o]) /\ marks' = marks \cup {o}
        /\ FollowTail(o) /\ o \in Objects
    BY <1>3, <1>5 DEF MarkTail
  <2>2. car[o] \in Words
    BY <1>1, <1>5, TailObject
  <2>3. Targets(QueuedWords(mark_queue'))
          = Targets(QueuedWords(mark_queue)) \cup TargetOf(car[o])
    BY <1>1, <2>1, <2>2, QueueAddWord, MarkAssumption
  <2>4. TargetOf(tail'.ptr) = TargetOf(cdr[o])
    BY <2>1 DEF FollowTail, NoPair
  <2>5. Children(o) = TargetOf(car[o]) \cup TargetOf(cdr[o])
    BY <1>5 DEF Children, TargetOf, Targets
  <2>6. Marks(o)
    BY <1>1, <1>4, <2>1, <2>3, <2>4, <2>5 DEF Marks
  <2>. QED BY <2>1, <2>6
<1>6. CASE o \notin Markable \ marks
  <2>1. /\ mark_queue' = mark_queue /\ tail' = NoPair
        /\ marks' = IF o = NoObject THEN marks ELSE marks \cup {o}
    BY <1>6 DEF MarkTail
  <2>2. Grey' = Targets(QueuedWords(mark_queue))
    BY <1>4, <2>1, NoTargets, MarkAssumption
  <2>3. CASE o = NoObject
    BY <1>1, <1>3, <1>4, <2>1, <2>2, <2>3 DEF Looks
  <2>4. CASE o # NoObject
    <3>1. o \in marks \/ Children(o) = {}
      BY <1>6 DEF Children
    <3>2. Marks(o)
      BY <1>1, <1>2, <1>4, <2>1, <2>2, <2>4, <3>1 DEF Marks
    <3>. QED BY <1>2, <2>4, <3>2
  <2>. QED BY <2>3, <2>4
<1>. QED BY <1>5, <1>6

(* Every step has one of these shapes and writes no object. *)
LEMMA StepShape ==
  ASSUME TypedInv, [Next]_vars
  PROVE  heap' = heap /\ (Begins \/ Ends \/ Looks \/ \E o \in Objects : Marks(o))
<1>1. CASE smal_mark_queue_mark_all
  BY <1>1 DEF smal_mark_queue_mark_all, Looks, Grey, ToScan, asked
<1>2. CASE EndMark
  BY <1>2 DEF EndMark, Ends, Grey, ToScan
<1>3. CASE UNCHANGED vars
  BY <1>3 DEF vars, scan, asked, Looks, Grey, ToScan
<1>4. CASE smal_mark_queue_start
  BY <1>4, StartShape DEF smal_mark_queue_start
<1>5. CASE \E bs \in Bindings : smal_mark_bindings(bs)
  BY <1>5, BindingsShape DEF smal_mark_bindings
<1>6. CASE \E r \in Ranges : smal_mark_ptr_range(r[1], r[2])
  BY <1>6, RangeShape DEF smal_mark_ptr_range
<1>7. CASE AddPtr \/ ScanWord \/ Pop
  BY <1>7, AddPtrShape, ScanWordShape, PopShape DEF AddPtr, ScanWord, Pop
<1>8. CASE MarkTail
  BY <1>8, MarkTailShape DEF MarkTail
<1>9. heap' = heap
  BY DEF vars, Next, Call, Work, smal_mark_queue_start, smal_mark_bindings, AddPtr,
         smal_mark_ptr_range, ScanWord, smal_mark_queue_mark_all, Pop, MarkTail, EndMark
<1>. QED
  BY <1>1, <1>2, <1>3, <1>4, <1>5, <1>6, <1>7, <1>8, <1>9 DEF Next, Call, Work

-----------------------------------------------------------------------------
(* The marks.                                                              *)

(* What a marked object holds stays marked or still to be looked at. *)
LEMMA StepTriColour == ASSUME TypedInv, TriColour, [Next]_vars PROVE TriColour'
<1>1. /\ heap' = heap
      /\ Begins \/ Ends \/ Looks \/ \E o \in Objects : Marks(o)
  BY StepShape
<1>2. \A o : Children(o)' = Children(o)
  BY <1>1, HeapStays
<1>3. CASE Begins \/ Ends
  <2>1. Targets(given') = {}
    BY <1>3 DEF Begins, Ends, Targets
  <2>. QED BY <1>2, <1>3, <2>1 DEF TriColour, Begins, Ends
<1>4. CASE Looks
  BY <1>2, <1>4 DEF TriColour, Looks
<1>5. CASE \E o \in Objects : Marks(o)
  <2>1. PICK o \in Objects : Marks(o)
    BY <1>5
  <2>2. marks \cup Grey \subseteq marks' \cup Grey' /\ given' = given
    BY <2>1 DEF Marks
  <2>3. ASSUME NEW m \in marks' PROVE Children(m) \subseteq marks' \cup Grey'
    <3>1. CASE m \in marks
      BY <2>2, <3>1 DEF TriColour
    <3>2. CASE m \notin marks
      BY <2>1, <3>2 DEF Marks
    <3>. QED BY <3>1, <3>2
  <2>. QED BY <1>2, <2>2, <2>3 DEF TriColour
<1>. QED BY <1>1, <1>3, <1>4, <1>5

(* Only what can be reached is marked or still to be looked at. *)
LEMMA StepJustified == ASSUME TypedInv, Justified, [Next]_vars PROVE Justified'
<1> DEFINE R == ReachableFrom(perhaps)
<1>1. /\ heap' = heap
      /\ Begins \/ Ends \/ Looks \/ \E o \in Objects : Marks(o)
  BY StepShape
<1>2. ReachableFrom(perhaps)' = ReachableFrom(perhaps')
  BY <1>1, HeapStays
<1>3. CASE Begins \/ Ends
  BY <1>3 DEF Justified, Begins, Ends
<1>4. CASE Looks
  <2>1. SUFFICES ASSUME at' # "idle" PROVE marks' \cup Grey' \subseteq ReachableFrom(perhaps')
    BY <1>2 DEF Justified
  <2>2. marks \cup Grey \subseteq R
    BY <1>4, <2>1 DEF Looks, Justified
  <2>3. R \subseteq ReachableFrom(perhaps')
    BY <1>4, ReachedFromMore DEF Looks
  <2>4. Targets(perhaps') \subseteq ReachableFrom(perhaps')
    BY Reached
  <2>. QED BY <1>4, <2>2, <2>3, <2>4 DEF Looks
<1>5. CASE \E o \in Objects : Marks(o)
  <2>1. PICK o \in Objects : Marks(o)
    BY <1>5
  <2>2. marks \cup Grey \subseteq R /\ perhaps' = perhaps
    BY <2>1 DEF Marks, Justified
  <2>3. Children(o) \subseteq R
    BY <2>1, <2>2, Reached DEF Marks
  <2>4. marks' \cup Grey' \subseteq R
    BY <2>1, <2>2, <2>3 DEF Marks
  <2>. QED BY <1>2, <2>2, <2>4 DEF Justified
<1>. QED BY <1>1, <1>3, <1>4, <1>5

(* The referrer of a pair. *)
Holds(p) ==
  p.referrer # NoObject =>
    p.referrer \in marks \cap Markable /\ p.ptr \in {car[p.referrer], cdr[p.referrer]}

(* A referrer keeps its pointer, as marking writes no object. *)
LEMMA HoldsStays ==
  ASSUME heap' = heap, marks \subseteq marks', NEW p, Holds(p) PROVE Holds(p)'
BY DEF Holds, heap

(* The referrer of every pair stays the object that holds the pointer. *)
LEMMA StepReferrer == ASSUME TypedInv, ReferrerHolds, [Next]_vars PROVE ReferrerHolds'
<1>1. SUFFICES ASSUME NEW p \in (Queued(mark_queue) \cup {tail})' PROVE Holds(p)'
  BY DEF ReferrerHolds, Holds
<1>2. \A x \in Queued(mark_queue) \cup {tail} : Holds(x)
  BY DEF ReferrerHolds, Holds
<1>3. heap' = heap
  BY StepShape
<1>4. \A x : x.referrer = NoObject => Holds(x)'
  BY DEF Holds
<1>5. NoPair.referrer = NoObject
  BY DEF NoPair
<1>6. CASE smal_mark_queue_start
  <2>1. tail' = NoPair /\ Queued(mark_queue') = {}
    BY <1>6 DEF smal_mark_queue_start, TypedInv, PlaceOK, Queued
  <2>. QED BY <1>1, <1>4, <1>5, <2>1
<1>7. ASSUME marks \subseteq marks',
             (Queued(mark_queue) \cup {tail})' \subseteq Queued(mark_queue) \cup {tail, NoPair}
      PROVE  Holds(p)'
  BY <1>1, <1>2, <1>3, <1>4, <1>5, <1>7, HoldsStays
<1>8. CASE \/ Call \/ smal_mark_queue_mark_all \/ EndMark \/ UNCHANGED vars
  BY <1>7, <1>8 DEF Call, smal_mark_bindings, smal_mark_ptr_range, smal_mark_queue_mark_all,
                    EndMark, vars
<1>9. CASE AddPtr \/ ScanWord
  <2>1. CASE mark_queue' = mark_queue
    BY <1>7, <1>9, <2>1 DEF AddPtr, ScanWord
  <2>2. CASE mark_queue' # mark_queue
    <3>1. /\ MarkQueue(mark_queue) /\ tail' = tail /\ marks' = marks
          /\ \E w \in Words : mark_queue' = QueueAdd(mark_queue, NoObject, w)
      BY <1>9, <2>2, NextArg, WordRead DEF AddPtr, ScanWord, TypedInv, TypeOK, PlaceOK
    <3>2. PICK w \in Words : mark_queue' = QueueAdd(mark_queue, NoObject, w)
      BY <3>1
    <3> DEFINE new == [referrer |-> NoObject, ptr |-> w]
    <3>3. MarkQueue(mark_queue') /\ Queued(mark_queue') \subseteq Queued(mark_queue) \cup {new}
      BY <3>1, <3>2, QueueAddWord, MarkAssumption
    <3>4. new.referrer = NoObject
      OBVIOUS
    <3> HIDE DEF new
    <3>. QED BY <1>1, <1>2, <1>3, <1>4, <3>1, <3>3, <3>4, HoldsStays
  <2>. QED BY <2>1, <2>2
<1>10. CASE Pop
  <2>1. MarkQueue(mark_queue) /\ marks' = marks
    BY <1>10 DEF Pop, TypedInv, PlaceOK
  <2>2. CASE Current(mark_queue) # <<>>
    BY <1>7, <1>10, <2>1, <2>2, QueueRestKeeps, MarkAssumption DEF Pop
  <2>3. CASE Current(mark_queue) = <<>>
    BY <1>7, <1>10, <2>1, <2>3, QueuePrevKeeps DEF Pop
  <2>. QED BY <2>2, <2>3
<1>11. CASE MarkTail
  <2> DEFINE o == ObjectAt[tail.ptr]
  <2>1. MarkQueue(mark_queue) /\ marks \subseteq marks' /\ Markable \subseteq Objects
        /\ NoObject \notin Objects
    BY <1>11, MarkAssumption DEF MarkTail, TypedInv, PlaceOK, MarkAssumption
  <2>2. CASE o \notin Markable \ marks
    BY <1>7, <1>11, <2>1, <2>2 DEF MarkTail
  <2>3. CASE o \in Markable \ marks
    <3>1. /\ mark_queue' = QueueAdd(mark_queue, o, car[o]) /\ FollowTail(o) /\ o \in marks'
          /\ car[o] \in Words
      BY <1>11, <2>1, <2>3, TailObject DEF MarkTail
    <3> DEFINE new == [referrer |-> o, ptr |-> car[o]]
    <3>2. MarkQueue(mark_queue') /\ Queued(mark_queue') \subseteq Queued(mark_queue) \cup {new}
      BY <2>1, <2>3, <3>1, QueueAddWord, MarkAssumption
    <3>3. \A x : x.referrer = o /\ x.ptr \in {car[o], cdr[o]} => Holds(x)'
      BY <1>3, <2>3, <3>1 DEF Holds, heap
    <3>4. new.referrer = o /\ new.ptr = car[o]
      OBVIOUS
    <3>5. tail' = NoPair \/ (tail'.referrer = o /\ tail'.ptr = cdr[o])
      BY <3>1 DEF FollowTail
    <3> HIDE DEF new, o
    <3>. QED BY <1>1, <1>2, <1>3, <1>4, <1>5, <2>1, <3>2, <3>3, <3>4, <3>5, HoldsStays
  <2>. QED BY <2>2, <2>3
<1>. QED BY <1>6, <1>8, <1>9, <1>10, <1>11 DEF Next, Work

-----------------------------------------------------------------------------
(* The invariant holds at the start. *)
LEMMA InitOK == ASSUME Init PROVE IInv
<1>1. TypedInv
  BY InitTyped
<1>2. /\ at = "idle" /\ marks = {} /\ given = {} /\ tail = NoPair /\ mark_queue = <<>>
  BY DEF Init
<1>3. Targets(given) = {}
  BY <1>2 DEF Targets
<1>4. TriColour /\ Justified
  BY <1>2, <1>3 DEF TriColour, Justified
<1>5. Queued(mark_queue) = {} /\ tail.referrer = NoObject
  BY <1>2 DEF Queued, NoPair
<1>6. ReferrerHolds
  BY <1>5 DEF ReferrerHolds
<1>. QED BY <1>1, <1>4, <1>6 DEF IInv, TypedInv

(* The invariant holds in every reachable state. *)
THEOREM Invariant == Spec => []IInv
<1>1. Init => IInv
  BY InitOK
<1>2. IInv /\ [Next]_vars => IInv'
  BY StepTyped, StepTriColour, StepJustified, StepReferrer DEF IInv, TypedInv
<1>. QED BY <1>1, <1>2, PTL DEF Spec

(* No chunk is ever written past its end, whatever its even size. *)
THEOREM ChunksFit == Spec => []TypeOK
BY Invariant, PTL DEF IInv

(* When the queue is drained, the marks are what the callers' words reach, *)
(* and nothing that no word of theirs reaches.                             *)
THEOREM MarksAreExact == Spec => []MarkExact
<1>1. ASSUME IInv, at = "marked"
      PROVE  ReachableFrom(given) \subseteq marks /\ marks \subseteq ReachableFrom(perhaps)
  <2>1. tail = NoPair /\ args = <<>> /\ QueuedWords(mark_queue) = {} /\ ToScan = {}
    BY <1>1 DEF IInv, PlaceOK, QueuedWords, ToScan
  <2>2. Grey = {}
    BY <2>1, NoTargets, MarkAssumption DEF Grey
  <2>3. Targets(given) \subseteq marks /\ Closed(marks) /\ marks \subseteq Objects
    BY <1>1, <2>2 DEF IInv, TypeOK, TriColour, Closed
  <2>4. ReachableFrom(given) \subseteq marks
    BY <2>3, Reached
  <2>. QED BY <1>1, <2>4 DEF IInv, Justified
<1>2. IInv => MarkExact
  BY <1>1 DEF MarkExact
<1>. QED BY <1>2, Invariant, PTL

(* The remembered sets are told of no referrer that does not refer. *)
THEOREM ReferrersHold == Spec => []ReferrerHolds
BY Invariant, PTL DEF IInv

(* No word outside a region, or across its end, is ever read. *)
THEOREM ScanReadsInside == Spec => []ReadsInside
<1>1. IInv => ReadsInside
  BY WordRead DEF IInv, TypedInv, ReadsInside
<1>. QED BY <1>1, Invariant, PTL

-----------------------------------------------------------------------------
(* Why the draining ends, which MarkAllEnds says and the runs check: what  *)
(* its loop lowers.                                                        *)

(* The objects whose mark_func may still be called; then the chunks, the   *)
(* pairs of the current one, and a pointer that is to be followed.         *)
Unmarked == Markable \ marks

FewerPairs ==
  \/ Len(mark_queue') < Len(mark_queue)
  \/ /\ Len(mark_queue') = Len(mark_queue)
     /\ Len(Current(mark_queue')) < Len(Current(mark_queue))

Smaller ==
  \/ Unmarked' \subseteq Unmarked /\ Unmarked' # Unmarked
  \/ /\ Unmarked' = Unmarked
     /\ \/ FewerPairs
        \/ mark_queue' = mark_queue /\ at = "tail" /\ at' = "pop"

DrainProgress == [][(at \in {"pop", "tail"}) => Smaller \/ at' = "marked"]_vars

(* A pop takes a pair, or frees a chunk, or finds nothing left. *)
LEMMA PopSmaller ==
  ASSUME TypedInv, Pop PROVE Smaller \/ at' = "marked"
<1> DEFINE n == Len(mark_queue)
           q == mark_queue
<1>1. MarkQueue(mark_queue) /\ Unmarked' = Unmarked
  BY DEF TypedInv, PlaceOK, Pop, Unmarked
<1>2. /\ n \in Nat \ {0} /\ DOMAIN q = 1..n /\ n \in DOMAIN q
      /\ q[n] \in Seq(Pairs) /\ Len(q[n]) \in Nat /\ Current(q) = q[n]
  BY <1>1, CurrentChunk
<1>3. CASE Current(q) # <<>>
  <2> DEFINE c == SubSeq(q[n], 1, Len(q[n]) - 1)
  <2>1. c \in Seq(Pairs) /\ Len(c) = Len(q[n]) - 1
    BY <1>2, <1>3, ShorterChunk
  <2>2. q' = [q EXCEPT ![n] = c]
    BY <1>3 DEF Pop, QueueRest
  <2>3. q \in Seq(Seq(Pairs))
    BY <1>1 DEF MarkQueue
  <2>4. Len(q') = n /\ q'[n] = c
    <3> HIDE DEF n, c
    <3>. QED BY <1>2, <2>1, <2>2, <2>3, ExceptSeq
  <2>5. Current(q') = c
    BY <2>4 DEF Current
  <2>6. FewerPairs
    <3>1. Len(Current(q')) < Len(Current(q))
      <4>1. Len(q[n]) \in Nat /\ Len(c) = Len(q[n]) - 1
        BY <1>2, <2>1
      <4> HIDE DEF c, n
      <4>2. Len(c) < Len(q[n])
        BY ONLY <4>1
      <4>. QED BY <1>2, <2>5, <4>2
    <3>. QED BY <2>4, <3>1 DEF FewerPairs
  <2>. QED BY <1>1, <2>6 DEF Smaller
<1>4. CASE Current(q) = <<>> /\ n > 1
  <2>1. q' = SubSeq(q, 1, n - 1) /\ q \in Seq(Seq(Pairs))
    BY <1>1, <1>4 DEF Pop, QueuePrev, MarkQueue
  <2>2. Len(q') = n - 1
    BY <1>2, <2>1, SubSeqProperties
  <2>3. Len(q') < n
    <3>1. n \in Nat
      BY <1>2
    <3> HIDE DEF n
    <3>. QED BY <2>2, <3>1
  <2>4. FewerPairs
    BY <2>3 DEF FewerPairs
  <2>. QED BY <1>1, <2>4 DEF Smaller
<1>5. CASE Current(q) = <<>> /\ ~ (n > 1)
  BY <1>5 DEF Pop
<1>. QED BY <1>3, <1>4, <1>5

(* A turn of _smal_mark_ptr_tail marks an object for the first time, or it *)
(* is the last one for this pointer and queues nothing.                    *)
LEMMA TailSmaller ==
  ASSUME TypedInv, MarkTail PROVE Smaller
<1> DEFINE o == ObjectAt[tail.ptr]
<1>1. CASE o \in Markable \ marks
  <2>1. marks' = marks \cup {o}
    BY <1>1, MarkAssumption DEF MarkTail, MarkAssumption
  <2>2. Unmarked' \subseteq Unmarked /\ o \in Unmarked /\ o \notin Unmarked'
    BY <1>1, <2>1 DEF Unmarked
  <2>. QED BY <2>2 DEF Smaller
<1>2. CASE o \notin Markable \ marks
  <2>1. mark_queue' = mark_queue /\ at = "tail" /\ at' = "pop"
    BY <1>2 DEF MarkTail
  <2>2. marks' = marks \/ marks' = marks \cup {o}
    BY DEF MarkTail
  <2>3. Unmarked' = Unmarked
    BY <1>2, <2>2 DEF Unmarked
  <2>. QED BY <2>1, <2>3 DEF Smaller
<1>. QED BY <1>1, <1>2

(* While the queue is drained, whatever pointers the objects hold, each    *)
(* step of smal_mark_queue_mark_all and _smal_mark_ptr_tail lowers this,   *)
(* object by object first: with finitely many objects the loop ends, and   *)
(* when it does smal_mark_queue_mark_all has returned.                     *)
THEOREM DrainsDown == Spec => DrainProgress
<1>1. ASSUME IInv, [Next]_vars, at \in {"pop", "tail"}, vars' # vars
      PROVE  Smaller \/ at' = "marked"
  <2>1. TypedInv
    BY <1>1 DEF IInv, TypedInv
  <2>2. Pop \/ MarkTail
    BY <1>1 DEF Next, Call, Work, smal_mark_queue_start, smal_mark_bindings,
                smal_mark_ptr_range, AddPtr, ScanWord, smal_mark_queue_mark_all, EndMark
  <2>. QED BY <2>1, <2>2, PopSmaller, TailSmaller
<1>2. IInv /\ [Next]_vars =>
        [(at \in {"pop", "tail"}) => Smaller \/ at' = "marked"]_vars
  BY <1>1
<1>. QED BY <1>2, Invariant, PTL DEF Spec, DrainProgress

=============================================================================
