--------------------------- MODULE SmalTypeProofs ---------------------------
(***************************************************************************)
(* SmalType is correct for every number of pages and objects and every     *)
(* collections_per_sweep: IInv is inductive, and with it every step is a   *)
(* step of ObjectPool.                                                     *)
(*                                                                         *)
(* First the operations of SmalBuffer: each keeps the free list, the free  *)
(* bitmap and the counters of a buffer in agreement, and changes the set   *)
(* of allocated objects in the way its caller expects.                     *)
(***************************************************************************)
EXTENDS SmalType, FiniteSetTheorems, SequenceTheorems, TLAPS

(* smal_buffer_alloc: a fresh buffer is in order and holds no object. *)
LEMMA NewBufferOK ==
  /\ BufferOK(NewBuffer)
  /\ Allocated(NewBuffer) = {}
  BY BufferAssumption, EmptySeq
     DEF BufferOK, smal_buffer, NewBuffer, Slots, FreeListOK, StatsOK, Parceled, Allocated

(* Popping the head of the free list: the list stays free of repetitions   *)
(* and loses exactly its head.                                             *)
LEMMA PopList ==
  ASSUME NEW S, NEW s \in Seq(S), s # << >>,
         \A i, j \in 1 .. Len(s) : s[i] = s[j] => i = j
  PROVE  /\ Head(s) \in S /\ Tail(s) \in Seq(S)
         /\ Len(s) \in Nat \ {0} /\ Len(Tail(s)) = Len(s) - 1
         /\ Head(s) \in {s[i] : i \in 1 .. Len(s)}
         /\ {Tail(s)[i] : i \in 1 .. Len(Tail(s))}
              = {s[i] : i \in 1 .. Len(s)} \ {Head(s)}
         /\ \A i, j \in 1 .. Len(Tail(s)) : Tail(s)[i] = Tail(s)[j] => i = j
<1>1. /\ Len(s) \in Nat \ {0}
      /\ Head(s) = s[1]
      /\ Tail(s) \in Seq(S)
      /\ Len(Tail(s)) = Len(s) - 1
      /\ \A i \in 1 .. Len(Tail(s)) : Tail(s)[i] = s[i + 1]
  BY HeadTailProperties, EmptySeq
<1>2. Head(s) \in S /\ Head(s) \in {s[i] : i \in 1 .. Len(s)}
  BY <1>1, ElementOfSeq
<1>3. \A i, j \in 1 .. Len(Tail(s)) : Tail(s)[i] = Tail(s)[j] => i = j
  <2> SUFFICES ASSUME NEW i \in 1 .. Len(Tail(s)), NEW j \in 1 .. Len(Tail(s)),
                      Tail(s)[i] = Tail(s)[j]
               PROVE  i = j
    OBVIOUS
  <2>1. i + 1 \in 1 .. Len(s) /\ j + 1 \in 1 .. Len(s)
    BY <1>1
  <2>2. s[i + 1] = s[j + 1]
    BY <1>1
  <2>3. i + 1 = j + 1
    BY <2>1, <2>2
  <2> QED  BY <2>3
<1>4. ASSUME NEW x
      PROVE  x \in {Tail(s)[i] : i \in 1 .. Len(Tail(s))}
               <=> x \in {s[i] : i \in 1 .. Len(s)} \ {Head(s)}
  <2>1. ASSUME NEW i \in 1 .. Len(Tail(s)), x = Tail(s)[i]
        PROVE  x \in {s[k] : k \in 1 .. Len(s)} \ {Head(s)}
    <3>1. i + 1 \in 1 .. Len(s) /\ 1 \in 1 .. Len(s) /\ i + 1 # 1
      BY <1>1
    <3>2. x = s[i + 1]
      BY <1>1, <2>1
    <3>3. x # s[1]
      BY <3>1, <3>2
    <3> QED  BY <1>1, <3>1, <3>2, <3>3
  <2>2. ASSUME NEW k \in 1 .. Len(s), x = s[k], x # Head(s)
        PROVE  x \in {Tail(s)[i] : i \in 1 .. Len(Tail(s))}
    <3>1. k # 1
      BY <1>1, <2>2
    <3>2. k - 1 \in 1 .. Len(Tail(s)) /\ (k - 1) + 1 = k
      BY <1>1, <3>1
    <3>3. Tail(s)[k - 1] = x
      BY <1>1, <2>2, <3>2
    <3> QED  BY <3>2, <3>3
  <2> QED  BY <2>1, <2>2
<1> QED  BY <1>1, <1>2, <1>3, <1>4

(* Pushing an object that is not on the free list. *)
LEMMA PushList ==
  ASSUME NEW S, NEW s \in Seq(S), NEW p \in S,
         p \notin {s[i] : i \in 1 .. Len(s)},
         \A i, j \in 1 .. Len(s) : s[i] = s[j] => i = j
  PROVE  /\ <<p>> \o s \in Seq(S)
         /\ Len(s) \in Nat /\ Len(<<p>> \o s) = Len(s) + 1
         /\ {(<<p>> \o s)[i] : i \in 1 .. Len(<<p>> \o s)}
              = {s[i] : i \in 1 .. Len(s)} \cup {p}
         /\ \A i, j \in 1 .. Len(<<p>> \o s) :
               (<<p>> \o s)[i] = (<<p>> \o s)[j] => i = j
<1> DEFINE t == <<p>> \o s
<1>1. <<p>> \in Seq(S) /\ Len(<<p>>) = 1 /\ <<p>>[1] = p /\ Len(s) \in Nat
  BY LenProperties
<1>2. /\ t \in Seq(S) /\ Len(t) = Len(s) + 1
      /\ t[1] = p
      /\ \A i \in 2 .. Len(t) : t[i] = s[i - 1]
  BY <1>1, ConcatProperties
<1> HIDE DEF t
<1>3. \A i, j \in 1 .. Len(t) : t[i] = t[j] => i = j
  <2> SUFFICES ASSUME NEW i \in 1 .. Len(t), NEW j \in 1 .. Len(t), t[i] = t[j]
               PROVE  i = j
    OBVIOUS
  <2>1. \A k \in 2 .. Len(t) : k - 1 \in 1 .. Len(s) /\ t[k] # p
    BY <1>1, <1>2
  <2>2. CASE i = 1
    <3>1. t[j] = p
      BY <1>2, <2>2
    <3>2. j \notin 2 .. Len(t)
      BY <2>1, <3>1
    <3> QED  BY <1>1, <1>2, <2>2, <3>2
  <2>3. CASE j = 1
    <3>1. t[i] = p
      BY <1>2, <2>3
    <3>2. i \notin 2 .. Len(t)
      BY <2>1, <3>1
    <3> QED  BY <1>1, <1>2, <2>3, <3>2
  <2>4. CASE i # 1 /\ j # 1
    <3>1. i \in 2 .. Len(t) /\ j \in 2 .. Len(t)
      BY <1>1, <1>2, <2>4
    <3>2. s[i - 1] = s[j - 1]
      BY <1>2, <3>1
    <3>3. i - 1 = j - 1
      BY <2>1, <3>1, <3>2
    <3> QED  BY <3>1, <3>3
  <2> QED  BY <2>2, <2>3, <2>4
<1>4. {t[i] : i \in 1 .. Len(t)} = {s[i] : i \in 1 .. Len(s)} \cup {p}
  <2>1. ASSUME NEW i \in 1 .. Len(t)
        PROVE  t[i] \in {s[k] : k \in 1 .. Len(s)} \cup {p}
    <3>1. CASE i = 1
      BY <1>2, <3>1
    <3>2. CASE i # 1
      <4>1. i \in 2 .. Len(t) /\ i - 1 \in 1 .. Len(s)
        BY <1>1, <1>2, <3>2
      <4> QED  BY <1>2, <4>1
    <3> QED  BY <3>1, <3>2
  <2>2. ASSUME NEW k \in 1 .. Len(s)
        PROVE  s[k] \in {t[i] : i \in 1 .. Len(t)}
    <3>1. k + 1 \in 2 .. Len(t) /\ k + 1 \in 1 .. Len(t) /\ (k + 1) - 1 = k
      BY <1>1, <1>2
    <3>2. t[k + 1] = s[k]
      BY <1>2, <3>1
    <3> QED  BY <3>1, <3>2
  <2>3. p \in {t[i] : i \in 1 .. Len(t)}
    BY <1>1, <1>2
  <2>4. ASSUME NEW x
        PROVE  x \in {t[i] : i \in 1 .. Len(t)}
                 <=> x \in {s[i] : i \in 1 .. Len(s)} \cup {p}
    BY <2>1, <2>2, <2>3
  <2> QED  BY <2>4
<1> QED  BY <1>1, <1>2, <1>3, <1>4 DEF t
-----------------------------------------------------------------------------
(* smal_buffer_alloc_object hands out an object that was not allocated and *)
(* leaves the buffer in order.                                             *)
LEMMA AllocObjectOK ==
  ASSUME NEW rec, BufferOK(rec), CanAlloc(rec), NEW marked \in BOOLEAN
  PROVE  /\ BufferOK(AllocObject(rec, marked))
         /\ AllocSlot(rec) \in Slots \ Allocated(rec)
         /\ Allocated(AllocObject(rec, marked))
              = Allocated(rec) \cup {AllocSlot(rec)}
<1> USE BufferAssumption
<1>1. CASE rec.free_list # << >>
  <2> DEFINE s == rec.free_list
             new == AllocObject(rec, marked)
  <2>1. s \in Seq(Slots) /\ s # << >>
        /\ \A i, j \in 1 .. Len(s) : s[i] = s[j] => i = j
    BY <1>1 DEF BufferOK, FreeListOK, smal_buffer
  <2>2. /\ Head(s) \in Slots /\ Tail(s) \in Seq(Slots)
        /\ Len(s) \in Nat \ {0} /\ Len(Tail(s)) = Len(s) - 1
        /\ Head(s) \in {s[i] : i \in 1 .. Len(s)}
        /\ {Tail(s)[i] : i \in 1 .. Len(Tail(s))}
             = {s[i] : i \in 1 .. Len(s)} \ {Head(s)}
        /\ \A i, j \in 1 .. Len(Tail(s)) : Tail(s)[i] = Tail(s)[j] => i = j
    BY <2>1, PopList
  <2>3. AllocSlot(rec) = Head(s) /\ Head(s) \in rec.free_bits
    BY <1>1, <2>2 DEF AllocSlot, BufferOK, FreeListOK
  <2>4. new = [rec EXCEPT !.free_list = Tail(s),
                          !.free_bits = rec.free_bits \ {Head(s)},
                          !.free_n    = rec.free_n - 1,
                          !.live_n    = rec.live_n + 1,
                          !.avail_n   = rec.avail_n - 1,
                          !.mark_bits = IF marked THEN rec.mark_bits \cup {Head(s)}
                                        ELSE rec.mark_bits]
    BY <1>1, <2>3 DEF AllocObject, PopFreeList, BufferOK, smal_buffer
  <2>5. /\ new.alloc_ptr = rec.alloc_ptr /\ new.alloc_n = rec.alloc_n
        /\ new.free_list = Tail(s) /\ new.free_bits = rec.free_bits \ {Head(s)}
        /\ new.free_n = rec.free_n - 1 /\ new.avail_n = rec.avail_n - 1
        /\ new.mark_bits \subseteq rec.mark_bits \cup {Head(s)}
    BY <2>4 DEF BufferOK, smal_buffer
  <2>6. Head(s) \in Parceled(rec) /\ Parceled(new) = Parceled(rec)
    BY <2>3, <2>5 DEF BufferOK, FreeListOK, Parceled
  <2>7. rec.avail_n - 1 \in Nat /\ rec.free_n - 1 \in Nat
    <3>1. rec.alloc_ptr \in 0 .. Capacity /\ Len(s) \in Nat \ {0}
      BY <2>2 DEF BufferOK, smal_buffer
    <3>2. rec.free_n = Len(s) /\ rec.avail_n = (Capacity - rec.alloc_ptr) + Len(s)
      BY DEF BufferOK, StatsOK
    <3> HIDE DEF s
    <3> QED  BY <3>1, <3>2
  <2>8. new \in smal_buffer
    <3> DEFINE m == IF marked THEN rec.mark_bits \cup {Head(s)} ELSE rec.mark_bits
    <3>1. m \in SUBSET Slots /\ rec.free_bits \ {Head(s)} \in SUBSET Slots
      BY <2>2 DEF BufferOK, smal_buffer
    <3>2. rec \in smal_buffer /\ rec.live_n + 1 \in Nat
      BY DEF BufferOK, smal_buffer
    <3>3. new = [rec EXCEPT !.free_list = Tail(s), !.free_bits = rec.free_bits \ {Head(s)},
                            !.free_n = rec.free_n - 1, !.live_n = rec.live_n + 1,
                            !.avail_n = rec.avail_n - 1, !.mark_bits = m]
      BY <2>4
    <3>4. Tail(s) \in Seq(Slots)
      BY <2>2
    <3> HIDE DEF m, new, s
    <3> QED  BY <2>7, <3>1, <3>2, <3>3, <3>4 DEF smal_buffer
  <2>9. FreeListOK(new)
    <3>1. new.free_bits = {Tail(s)[i] : i \in 1 .. Len(Tail(s))}
      BY <2>2, <2>5 DEF BufferOK, FreeListOK
    <3>2. new.free_bits \subseteq Parceled(new)
      BY <2>5, <2>6 DEF BufferOK, FreeListOK
    <3>3. \A i, j \in 1 .. Len(Tail(s)) : Tail(s)[i] = Tail(s)[j] => i = j
      BY <2>2
    <3>4. new.free_list = Tail(s)
      BY <2>5
    <3> HIDE DEF s, new
    <3> QED  BY <3>1, <3>2, <3>3, <3>4 DEF FreeListOK
  <2>10. StatsOK(new)
    BY <2>2, <2>5 DEF BufferOK, StatsOK, smal_buffer
  <2>11. new.mark_bits \subseteq Parceled(new)
    BY <2>5, <2>6 DEF BufferOK
  <2>12. Allocated(new) = Allocated(rec) \cup {Head(s)}
    BY <2>5, <2>6 DEF Allocated
  <2> QED  BY <2>2, <2>3, <2>8, <2>9, <2>10, <2>11, <2>12 DEF BufferOK, Allocated
<1>2. CASE rec.free_list = << >>
  <2> DEFINE new == AllocObject(rec, marked)
             p == rec.alloc_ptr
  <2>1. p \in Slots /\ p < Capacity /\ AllocSlot(rec) = p
    BY <1>2 DEF CanAlloc, AllocSlot, BufferOK, smal_buffer, Slots
  <2>2. new = [rec EXCEPT !.alloc_ptr = p + 1,
                          !.alloc_n   = rec.alloc_n + 1,
                          !.live_n    = rec.live_n + 1,
                          !.avail_n   = rec.avail_n - 1,
                          !.mark_bits = IF marked THEN rec.mark_bits \cup {p}
                                        ELSE rec.mark_bits]
    BY <1>2, <2>1 DEF AllocObject, BumpAllocPtr, BufferOK, smal_buffer
  <2>3. /\ new.alloc_ptr = p + 1 /\ new.alloc_n = rec.alloc_n + 1
        /\ new.free_list = rec.free_list /\ new.free_bits = rec.free_bits
        /\ new.free_n = rec.free_n /\ new.avail_n = rec.avail_n - 1
        /\ new.mark_bits \subseteq rec.mark_bits \cup {p}
    BY <2>2 DEF BufferOK, smal_buffer
  <2>4. Parceled(new) = Parceled(rec) \cup {p} /\ p \notin Parceled(rec)
    BY <2>1, <2>3 DEF Parceled, Slots
  <2>5. Len(rec.free_list) = 0 /\ rec.avail_n - 1 \in Nat
    BY <1>2, <2>1 DEF BufferOK, StatsOK, smal_buffer, Slots
  <2>6. new \in smal_buffer
    <3> DEFINE m == IF marked THEN rec.mark_bits \cup {p} ELSE rec.mark_bits
    <3>1. m \in SUBSET Slots /\ p + 1 \in 0 .. Capacity
      <4>1. rec.mark_bits \in SUBSET Slots
        BY DEF BufferOK, smal_buffer
      <4>2. p + 1 \in 0 .. Capacity
        BY <2>1 DEF Slots
      <4> HIDE DEF p
      <4> QED  BY <2>1, <4>1, <4>2
    <3>2. rec \in smal_buffer /\ rec.live_n + 1 \in Nat /\ rec.alloc_n + 1 \in Nat
            /\ rec.avail_n - 1 \in Nat
      BY <2>5 DEF BufferOK, smal_buffer
    <3>3. new = [rec EXCEPT !.alloc_ptr = p + 1, !.alloc_n = rec.alloc_n + 1,
                            !.live_n = rec.live_n + 1, !.avail_n = rec.avail_n - 1,
                            !.mark_bits = m]
      BY <2>2
    <3> HIDE DEF m, new, p
    <3> QED  BY <3>1, <3>2, <3>3 DEF smal_buffer
  <2>7. FreeListOK(new)
    BY <2>3, <2>4 DEF BufferOK, FreeListOK
  <2>8. StatsOK(new)
    BY <2>1, <2>3, <2>5 DEF BufferOK, StatsOK, smal_buffer, Slots
  <2>9. new.mark_bits \subseteq Parceled(new)
    BY <2>3, <2>4 DEF BufferOK
  <2>10. Allocated(new) = Allocated(rec) \cup {p}
    BY <2>3, <2>4 DEF Allocated, BufferOK, FreeListOK
  <2> QED  BY <2>1, <2>4, <2>6, <2>7, <2>8, <2>9, <2>10 DEF BufferOK, Allocated
<1> QED  BY <1>1, <1>2

(* smal_buffer_free_object, applied to an allocated object, takes exactly  *)
(* that object away; its assertion that the free bit is clear is the       *)
(* hypothesis.                                                             *)
LEMMA FreeObjectOK ==
  ASSUME NEW rec, BufferOK(rec), NEW p \in Allocated(rec)
  PROVE  /\ BufferOK(FreeObject(rec, p))
         /\ Allocated(FreeObject(rec, p)) = Allocated(rec) \ {p}
<1> USE BufferAssumption
<1> DEFINE s == rec.free_list
           new == FreeObject(rec, p)
<1>1. /\ s \in Seq(Slots) /\ p \in Slots /\ p \in Parceled(rec)
      /\ p \notin {s[i] : i \in 1 .. Len(s)}
      /\ \A i, j \in 1 .. Len(s) : s[i] = s[j] => i = j
  BY DEF BufferOK, FreeListOK, smal_buffer, Allocated, Parceled, Slots
<1>2. /\ <<p>> \o s \in Seq(Slots)
      /\ Len(s) \in Nat /\ Len(<<p>> \o s) = Len(s) + 1
      /\ {(<<p>> \o s)[i] : i \in 1 .. Len(<<p>> \o s)}
           = {s[i] : i \in 1 .. Len(s)} \cup {p}
      /\ \A i, j \in 1 .. Len(<<p>> \o s) :
            (<<p>> \o s)[i] = (<<p>> \o s)[j] => i = j
  BY <1>1, PushList
<1> DEFINE t == <<p>> \o s
<1>3. /\ t \in Seq(Slots) /\ Len(s) \in Nat /\ Len(t) = Len(s) + 1
      /\ {t[i] : i \in 1 .. Len(t)} = {s[i] : i \in 1 .. Len(s)} \cup {p}
      /\ \A i, j \in 1 .. Len(t) : t[i] = t[j] => i = j
  BY <1>2
<1>4. new = [rec EXCEPT !.free_bits = rec.free_bits \cup {p},
                        !.free_list = t,
                        !.free_n    = rec.free_n + 1,
                        !.avail_n   = rec.avail_n + 1]
  BY DEF FreeObject
<1> HIDE DEF t
<1>5. /\ new.alloc_ptr = rec.alloc_ptr /\ new.alloc_n = rec.alloc_n
      /\ new.free_list = t /\ new.free_bits = rec.free_bits \cup {p}
      /\ new.free_n = rec.free_n + 1 /\ new.avail_n = rec.avail_n + 1
      /\ new.mark_bits = rec.mark_bits
  BY <1>4 DEF BufferOK, smal_buffer
<1>6. Parceled(new) = Parceled(rec)
  BY <1>5 DEF Parceled
<1>7. new \in smal_buffer
  <2>1. /\ rec \in smal_buffer
        /\ rec.free_n + 1 \in Nat /\ rec.avail_n + 1 \in Nat
        /\ rec.free_bits \cup {p} \in SUBSET Slots
    BY <1>1 DEF BufferOK, smal_buffer
  <2> HIDE DEF new
  <2> QED  BY <1>3, <1>4, <2>1 DEF smal_buffer
<1>8. FreeListOK(new)
  <2>1. rec.free_bits = {s[i] : i \in 1 .. Len(s)} /\ rec.free_bits \subseteq Parceled(rec)
    BY DEF BufferOK, FreeListOK
  <2> HIDE DEF new, s
  <2>2. new.free_bits = {t[i] : i \in 1 .. Len(t)}
    BY <1>3, <1>5, <2>1
  <2>3. new.free_bits \subseteq Parceled(new)
    BY <1>1, <1>5, <1>6, <2>1
  <2>4. new.free_list = t
    BY <1>5
  <2>5. new.free_bits = {new.free_list[i] : i \in 1 .. Len(new.free_list)}
    BY <2>2, <2>4
  <2>6. \A i, j \in 1 .. Len(new.free_list) :
           new.free_list[i] = new.free_list[j] => i = j
    BY <1>3, <2>4
  <2> QED  BY <2>3, <2>5, <2>6 DEF FreeListOK
<1>9. StatsOK(new)
  <2>1. /\ rec.alloc_n = rec.alloc_ptr /\ rec.free_n = Len(s)
        /\ rec.avail_n = (Capacity - rec.alloc_ptr) + Len(s)
        /\ rec.alloc_ptr \in 0 .. Capacity
    BY DEF BufferOK, StatsOK, smal_buffer
  <2> HIDE DEF new, s
  <2> QED  BY SMTT(30), <1>3, <1>5, <2>1 DEF StatsOK
<1>10. new.mark_bits \subseteq Parceled(new)
  BY <1>5, <1>6 DEF BufferOK
<1>11. Allocated(new) = Allocated(rec) \ {p}
  BY <1>5, <1>6 DEF Allocated
<1> QED  BY <1>7, <1>8, <1>9, <1>10, <1>11 DEF BufferOK

(* smal_buffer_before_mark moves no object. *)
LEMMA BeforeMarkOK ==
  ASSUME NEW rec, BufferOK(rec)
  PROVE  /\ BufferOK(BeforeMark(rec))
         /\ Allocated(BeforeMark(rec)) = Allocated(rec)
         /\ BeforeMark(rec).alloc_disabled = rec.alloc_disabled + 1
         /\ BeforeMark(rec).live_n = rec.live_n
         /\ BeforeMark(rec).live_before_sweep_n = rec.live_n
         /\ BeforeMark(rec).sweepable => BeforeMark(rec).markable
<1> DEFINE n == (rec.collection_n + 1) % CollectionsPerSweep
           due == n = 0
           new == BeforeMark(rec)
<1>1. n \in 0 .. CollectionsPerSweep - 1
  <2>1. rec.collection_n + 1 \in Nat /\ CollectionsPerSweep \in Nat \ {0}
    BY BufferAssumption DEF BufferOK, smal_buffer
  <2>2. \A i \in Nat, k \in Nat \ {0} : i % k \in 0 .. k - 1
    OBVIOUS
  <2> QED  BY <2>1, <2>2
<1>2. new = [rec EXCEPT !.alloc_disabled      = rec.alloc_disabled + 1,
                        !.collection_n        = n,
                        !.markable            = due,
                        !.sweepable           = due,
                        !.live_before_sweep_n = rec.live_n,
                        !.mark_bits           = IF due THEN {} ELSE rec.mark_bits]
  BY DEF BeforeMark, BufferOK, smal_buffer
<1> HIDE DEF n
<1>3. new \in smal_buffer
  <2> DEFINE m == IF due THEN {} ELSE rec.mark_bits
  <2>1. /\ rec \in smal_buffer
        /\ rec.alloc_disabled + 1 \in Nat /\ rec.live_n \in Nat
        /\ due \in BOOLEAN /\ m \in SUBSET Slots
    BY DEF BufferOK, smal_buffer
  <2>2. new = [rec EXCEPT !.alloc_disabled = rec.alloc_disabled + 1,
                          !.collection_n = n, !.markable = due, !.sweepable = due,
                          !.live_before_sweep_n = rec.live_n, !.mark_bits = m]
    BY <1>2
  <2> HIDE DEF m, due, new
  <2> QED  BY <1>1, <2>1, <2>2 DEF smal_buffer
<1>4. /\ new.alloc_ptr = rec.alloc_ptr /\ new.alloc_n = rec.alloc_n
      /\ new.free_list = rec.free_list /\ new.free_bits = rec.free_bits
      /\ new.free_n = rec.free_n /\ new.avail_n = rec.avail_n
      /\ new.mark_bits \subseteq rec.mark_bits
      /\ new.alloc_disabled = rec.alloc_disabled + 1
      /\ new.live_n = rec.live_n /\ new.live_before_sweep_n = rec.live_n
      /\ new.markable = due /\ new.sweepable = due
  BY <1>2 DEF BufferOK, smal_buffer
<1> HIDE DEF new
<1>5. BufferOK(new)
  BY <1>3, <1>4 DEF BufferOK, FreeListOK, StatsOK, Parceled
<1>6. Allocated(new) = Allocated(rec)
  BY <1>4 DEF Parceled, Allocated
<1> QED  BY <1>4, <1>5, <1>6 DEF new

(* _smal_buffer_mark_ptr on a parceled object. *)
LEMMA MarkObjectOK ==
  ASSUME NEW rec, BufferOK(rec), NEW p \in Parceled(rec)
  PROVE  /\ BufferOK(MarkObject(rec, p))
         /\ Allocated(MarkObject(rec, p)) = Allocated(rec)
<1>1. p \in Slots
  BY BufferAssumption DEF BufferOK, smal_buffer, Parceled, Slots
<1>2. MarkObject(rec, p) \in smal_buffer
  BY <1>1 DEF MarkObject, BufferOK, smal_buffer
<1> DEFINE new == MarkObject(rec, p)
<1>3. /\ new.alloc_ptr = rec.alloc_ptr /\ new.alloc_n = rec.alloc_n
      /\ new.free_list = rec.free_list /\ new.free_bits = rec.free_bits
      /\ new.free_n = rec.free_n /\ new.avail_n = rec.avail_n
      /\ new.mark_bits = rec.mark_bits \cup {p}
  BY DEF MarkObject, BufferOK, smal_buffer
<1> HIDE DEF new
<1>4. BufferOK(new)
  BY <1>2, <1>3 DEF BufferOK, FreeListOK, StatsOK, Parceled, new
<1>5. Allocated(new) = Allocated(rec)
  BY <1>3 DEF Parceled, Allocated
<1> QED  BY <1>4, <1>5 DEF new

(* What these operations leave alone.  An allocation counts in live_n and  *)
(* does not resume or pause the buffer.                                    *)
LEMMA AllocObjectFrame ==
  ASSUME NEW rec \in smal_buffer, NEW marked \in BOOLEAN
  PROVE  /\ AllocObject(rec, marked).live_n = rec.live_n + 1
         /\ AllocObject(rec, marked).alloc_disabled = rec.alloc_disabled
  BY DEF smal_buffer, AllocObject, PopFreeList, BumpAllocPtr

(* A free does neither: it leaves live_n, alloc_ptr and all that a         *)
(* collection reads.                                                       *)
LEMMA FreeObjectFrame ==
  ASSUME NEW rec \in smal_buffer, NEW p
  PROVE  /\ FreeObject(rec, p).live_n = rec.live_n
         /\ FreeObject(rec, p).live_before_sweep_n = rec.live_before_sweep_n
         /\ FreeObject(rec, p).alloc_disabled = rec.alloc_disabled
         /\ FreeObject(rec, p).alloc_ptr = rec.alloc_ptr
         /\ FreeObject(rec, p).mark_bits = rec.mark_bits
         /\ FreeObject(rec, p).markable = rec.markable
         /\ FreeObject(rec, p).sweepable = rec.sweepable
  BY DEF smal_buffer, FreeObject

(* Marking changes the mark bits only.                                     *)
LEMMA MarkObjectFrame ==
  ASSUME NEW rec \in smal_buffer, NEW p
  PROVE  /\ MarkObject(rec, p).live_n = rec.live_n
         /\ MarkObject(rec, p).live_before_sweep_n = rec.live_before_sweep_n
         /\ MarkObject(rec, p).alloc_disabled = rec.alloc_disabled
         /\ MarkObject(rec, p).alloc_ptr = rec.alloc_ptr
         /\ MarkObject(rec, p).mark_bits = rec.mark_bits \cup {p}
         /\ MarkObject(rec, p).markable = rec.markable
         /\ MarkObject(rec, p).sweepable = rec.sweepable
  BY DEF smal_buffer, MarkObject

(* The end of smal_buffer_sweep, for a buffer paused once whose live_n did *)
(* not change since before_mark.                                           *)
LEMMA EndSweepOK ==
  ASSUME NEW rec, BufferOK(rec), NEW counted \in Nat,
         rec.alloc_disabled = 1, rec.live_n = rec.live_before_sweep_n
  PROVE  /\ BufferOK(EndSweep(rec, counted))
         /\ Allocated(EndSweep(rec, counted)) = Allocated(rec)
         /\ EndSweep(rec, counted).alloc_disabled = 0
         /\ EndSweep(rec, counted).live_n = LiveAfterSweep(rec, counted)
<1> DEFINE new == EndSweep(rec, counted)
           l == IF rec.sweepable THEN counted ELSE rec.live_n
<1>1. /\ rec \in smal_buffer /\ l \in Nat
      /\ rec.live_n - rec.live_before_sweep_n + counted = counted
      /\ rec.alloc_disabled - 1 = 0
  BY DEF BufferOK, smal_buffer
<1>2. new = [rec EXCEPT !.live_n = l, !.alloc_disabled = 0]
  BY <1>1 DEF EndSweep
<1>3. l = LiveAfterSweep(rec, counted)
  BY DEF LiveAfterSweep
<1> HIDE DEF l, new
<1>4. new \in smal_buffer
  BY <1>1, <1>2 DEF smal_buffer
<1>5. /\ new.alloc_ptr = rec.alloc_ptr /\ new.alloc_n = rec.alloc_n
      /\ new.free_list = rec.free_list /\ new.free_bits = rec.free_bits
      /\ new.free_n = rec.free_n /\ new.avail_n = rec.avail_n
      /\ new.mark_bits = rec.mark_bits
      /\ new.alloc_disabled = 0 /\ new.live_n = l
  BY <1>1, <1>2 DEF smal_buffer
<1>6. BufferOK(new)
  BY <1>4, <1>5 DEF BufferOK, FreeListOK, StatsOK, Parceled
<1>7. Allocated(new) = Allocated(rec)
  BY <1>5 DEF Parceled, Allocated
<1> QED  BY <1>3, <1>5, <1>6, <1>7 DEF new

-----------------------------------------------------------------------------

(* Every record is in order; a page that is not mapped has a fresh one.    *)
RecordsOK ==
  /\ \A b \in Buffers : BufferOK(buf[b])
  /\ \A b \in Buffers \ mapped : buf[b] = NewBuffer

(* A buffer with a held object is not taken for an empty one, not even by  *)
(* a collection that does not sweep it.                                    *)
HeldLive == \A o \in held : buf[o[1]].live_n # 0

(* Between before_mark and the end of its sweep a buffer's live_n does not *)
(* change, and it is swept only if it was marked.                          *)
CollectingOK ==
  /\ phase = "idle" => unswept = {}
  /\ \A b \in unswept : /\ buf[b].live_before_sweep_n = buf[b].live_n
                        /\ buf[b].sweepable => buf[b].markable

(* Marking is complete when the sweep begins and stays so: nothing is      *)
(* allocated from a buffer that is still to be swept.                      *)
HeldMarked ==
  phase = "sweep" =>
    \A o \in held : o[1] \in unswept /\ buf[o[1]].sweepable
                      => o[2] \in buf[o[1]].mark_bits

(* The scan is inside its buffer, and has counted every mark it passed.    *)
SweepOK ==
  IF sweeping
  THEN /\ phase = "sweep"
       /\ sweep.buf \in unswept
       /\ sweep.alloc_ptr = buf[sweep.buf].alloc_ptr
       /\ sweep.ptr <= sweep.alloc_ptr
       /\ sweep.live_n = 0 =>
            \A p \in buf[sweep.buf].mark_bits : ~ (p < sweep.ptr)
  ELSE sweep = NoSweep

IInv ==
  /\ TypeOK
  /\ RecordsOK
  /\ HeldObjectsIntact
  /\ PausedWhileCollected
  /\ AllocBufferUsable
  /\ HeldLive
  /\ CollectingOK
  /\ HeldMarked
  /\ SweepOK

-----------------------------------------------------------------------------
(* What IInv says of one record. *)
LEMMA RecordTyped ==
  ASSUME RecordsOK, NEW b \in Buffers
  PROVE  BufferOK(buf[b]) /\ buf[b] \in smal_buffer
  BY DEF RecordsOK, BufferOK

(* A record that is in order has its objects among the slots. *)
LEMMA AllocatedSlots ==
  ASSUME NEW r, BufferOK(r)
  PROVE  Allocated(r) \subseteq Slots
  BY SMTT(30), BufferAssumption DEF BufferOK, FreeListOK, smal_buffer, Allocated, Parceled, Slots

(* smal_type_alloc_buffer yields a page or nothing. *)
LEMMA TypeAllocBufferTyped ==
  ASSUME TypeOK
  PROVE  /\ TypeAllocBuffer(alloc_buffer) \subseteq Buffers \cup {NoBuffer}
         /\ TypeAllocBuffer(NoBuffer) \subseteq Buffers \cup {NoBuffer}
  BY DEF TypeOK, TypeAllocBuffer, FindAllocBuffer, Usable

(* smal_alloc reduces to an allocation from some page or a failure. *)
LEMMA AllocCases ==
  ASSUME TypeOK, smal_alloc
  PROVE  /\ UNCHANGED <<phase, unswept, sweep>>
         /\ \/ \E b \in Buffers : AllocFrom(b)
            \/ AllocFails
<1>1. PICK b \in TypeAllocBuffer(alloc_buffer) :
        \/ AllocFrom(b)
        \/ b = NoBuffer /\ AllocFails
        \/ /\ b # NoBuffer /\ ~ CanAlloc(buf[b])
           /\ \E c \in TypeAllocBuffer(NoBuffer) :
                \/ AllocFrom(c)
                \/ c = NoBuffer /\ AllocFails
  BY DEF smal_alloc
<1>2. ASSUME NEW c \in Buffers \cup {NoBuffer}, AllocFrom(c)
      PROVE  \E d \in Buffers : AllocFrom(d)
  BY <1>2 DEF AllocFrom
<1> QED  BY <1>1, <1>2, TypeAllocBufferTyped DEF smal_alloc

(* A buffer that can be allocated from is not being collected. *)
LEMMA AllocNotCollected ==
  ASSUME IInv, NEW b \in Buffers, CanAlloc(buf[b])
  PROVE  b \notin unswept
  BY DEF IInv, TypeOK, PausedWhileCollected, CanAlloc

(* smal_alloc keeps the invariant, and the object it hands out was free.    *)
LEMMA AllocFromOK ==
  ASSUME IInv, NEW b \in Buffers, AllocFrom(b), UNCHANGED <<phase, unswept, sweep>>
  PROVE  /\ IInv'
         /\ AllocSlot(buf[b]) \in Slots
         /\ <<b, AllocSlot(buf[b])>> \notin allocated
         /\ allocated' = allocated \cup {<<b, AllocSlot(buf[b])>>}
         /\ held' = held \cup {<<b, AllocSlot(buf[b])>>}
<1> USE TypeAssumption
<1> DEFINE p == AllocSlot(buf[b])
           new == AllocObject(buf[b], in_collect)
<1>1. BufferOK(buf[b]) /\ CanAlloc(buf[b]) /\ in_collect \in BOOLEAN /\ buf[b] \in smal_buffer
  BY RecordTyped DEF IInv, AllocFrom, in_collect
<1>2. /\ BufferOK(new) /\ p \in Slots \ Allocated(buf[b])
      /\ Allocated(new) = Allocated(buf[b]) \cup {p}
  BY <1>1, AllocObjectOK
<1>3. new.live_n = buf[b].live_n + 1 /\ new.alloc_disabled = buf[b].alloc_disabled
  BY <1>1, AllocObjectFrame
<1>4. b \notin unswept /\ buf[b].alloc_disabled = 0 /\ buf[b].live_n \in Nat
  BY <1>1, AllocNotCollected DEF CanAlloc, smal_buffer
<1>5. /\ mapped' = mapped \cup {b} /\ alloc_buffer' = b
      /\ buf' = [buf EXCEPT ![b] = new]
      /\ held' = held \cup {<<b, p>>}
      /\ phase' = phase /\ unswept' = unswept /\ sweep' = sweep
  BY DEF AllocFrom
<1>6. /\ buf \in [Buffers -> smal_buffer] /\ mapped \subseteq Buffers
      /\ held \subseteq Objects /\ unswept \subseteq mapped
  BY DEF IInv, TypeOK
<1> HIDE DEF new, p
<1>7. buf'[b] = new /\ \A c \in Buffers : c # b => buf'[c] = buf[c]
  BY <1>5, <1>6
<1>8. TypeOK'
  <2>1. new \in smal_buffer
    BY <1>2 DEF BufferOK
  <2> QED  BY <1>2, <1>5, <1>6, <2>1 DEF IInv, TypeOK, Objects
<1>9. RecordsOK'
  BY <1>2, <1>5, <1>6, <1>7 DEF IInv, RecordsOK
<1>10. HeldObjectsIntact'
  <2>1. p \in Allocated(new)
    BY <1>2
  <2>2. ASSUME NEW o \in held
        PROVE  o[1] \in mapped' /\ o[2] \in Allocated(buf'[o[1]])
    <3>1. o[1] \in mapped /\ o[2] \in Allocated(buf[o[1]]) /\ o[1] \in Buffers
      BY <1>6 DEF IInv, HeldObjectsIntact, Objects
    <3> QED  BY <1>2, <1>5, <1>7, <3>1
  <2> QED  BY <1>5, <1>7, <2>1, <2>2 DEF HeldObjectsIntact
<1>11. PausedWhileCollected'
  BY <1>3, <1>4, <1>5, <1>6, <1>7 DEF IInv, PausedWhileCollected
<1>12. AllocBufferUsable'
  BY <1>3, <1>4, <1>5, <1>7 DEF AllocBufferUsable
<1>13. HeldLive'
  <2>1. buf'[b].live_n # 0
    BY <1>3, <1>4, <1>7
  <2>2. ASSUME NEW o \in held
        PROVE  buf'[o[1]].live_n # 0
    <3>1. o[1] \in Buffers /\ buf[o[1]].live_n # 0
      BY <1>6 DEF IInv, HeldLive, Objects
    <3> QED  BY <1>7, <2>1, <3>1
  <2> QED  BY <1>5, <2>1, <2>2 DEF HeldLive
<1>14. CollectingOK'
  BY <1>4, <1>5, <1>6, <1>7 DEF IInv, CollectingOK
<1>15. HeldMarked'
  BY <1>4, <1>5, <1>6, <1>7 DEF IInv, HeldMarked, Objects
<1>16. SweepOK'
  BY <1>4, <1>5, <1>6, <1>7 DEF IInv, SweepOK, sweeping
<1>17. <<b, p>> \notin allocated
  BY <1>2 DEF allocated
<1>18. allocated' = allocated \cup {<<b, p>>}
  <2>1. b \notin mapped => Allocated(buf[b]) = {}
    BY NewBufferOK DEF IInv, RecordsOK
  <2>2. ASSUME NEW o \in Objects
        PROVE  o \in allocated' <=> o \in allocated \/ o = <<b, p>>
    <3>1. o[1] \in Buffers /\ o = <<o[1], o[2]>>
      BY DEF Objects
    <3>2. CASE o[1] = b
      BY <1>2, <1>5, <1>7, <2>1, <3>1, <3>2 DEF allocated
    <3>3. CASE o[1] # b
      BY <1>5, <1>7, <3>1, <3>3 DEF allocated
    <3> QED  BY <3>2, <3>3
  <2>3. <<b, p>> \in Objects
    BY <1>2 DEF Objects
  <2> QED  BY <2>2, <2>3 DEF allocated
<1>19. IInv'
  BY <1>8, <1>9, <1>10, <1>11, <1>12, <1>13, <1>14, <1>15, <1>16 DEF IInv
<1> QED  BY <1>2, <1>5, <1>17, <1>18, <1>19 DEF p

-----------------------------------------------------------------------------
(* An update of one record that frees or marks objects, and what it has to *)
(* respect for the invariant to survive.                                   *)
LEMMA UpdateOK ==
  ASSUME IInv, NEW b \in mapped, NEW new, BufferOK(new),
         new.alloc_disabled = buf[b].alloc_disabled,
         new.live_n = buf[b].live_n,
         new.live_before_sweep_n = buf[b].live_before_sweep_n,
         new.markable = buf[b].markable, new.sweepable = buf[b].sweepable,
         buf[b].mark_bits \subseteq new.mark_bits,
         buf' = [buf EXCEPT ![b] = new],
         UNCHANGED <<mapped, alloc_buffer, phase, unswept>>,
         held' \subseteq held,
         \A o \in held' : o[1] = b => o[2] \in Allocated(new),
         sweep' \in SweepFrame, SweepOK'
  PROVE  /\ IInv'
         /\ \A o \in Objects :
              o \in allocated' <=> IF o[1] = b THEN o[2] \in Allocated(new)
                                              ELSE o \in allocated
<1>1. /\ buf \in [Buffers -> smal_buffer] /\ mapped \subseteq Buffers
      /\ held \subseteq Objects /\ b \in Buffers /\ new \in smal_buffer
  BY DEF IInv, TypeOK, BufferOK
<1>2. buf'[b] = new /\ \A c \in Buffers : c # b => buf'[c] = buf[c]
  BY <1>1
<1>3. TypeOK'
  BY <1>1 DEF IInv, TypeOK
<1>4. RecordsOK'
  BY <1>1, <1>2 DEF IInv, RecordsOK
<1>5. HeldObjectsIntact'
  BY <1>1, <1>2 DEF IInv, HeldObjectsIntact, Objects
<1>6. PausedWhileCollected' /\ AllocBufferUsable'
  BY <1>1, <1>2 DEF IInv, PausedWhileCollected, AllocBufferUsable
<1>7. HeldLive'
  BY <1>1, <1>2 DEF IInv, HeldLive, Objects
<1>8. CollectingOK'
  BY <1>1, <1>2 DEF IInv, CollectingOK
<1>9. HeldMarked'
  BY <1>1, <1>2 DEF IInv, HeldMarked, Objects
<1>10. ASSUME NEW o \in Objects
       PROVE  o \in allocated' <=> IF o[1] = b THEN o[2] \in Allocated(new)
                                               ELSE o \in allocated
  BY <1>1, <1>2 DEF allocated, Objects
<1> QED  BY <1>3, <1>4, <1>5, <1>6, <1>7, <1>8, <1>9, <1>10 DEF IInv

(* smal_free keeps the invariant and gives back one held object.            *)
LEMMA FreeOK ==
  ASSUME IInv, NEW o \in Objects, smal_free(o)
  PROVE  IInv' /\ o \in allocated /\ allocated' = allocated \ {o}
<1> DEFINE b == o[1]
           p == o[2]
           new == FreeObject(buf[b], p)
<1>1. b \in mapped /\ b \in Buffers /\ p \in Allocated(buf[b]) /\ o = <<b, p>>
  BY DEF IInv, HeldObjectsIntact, Objects, smal_free
<1>2. BufferOK(buf[b]) /\ buf[b] \in smal_buffer
  BY <1>1, RecordTyped DEF IInv
<1>3. BufferOK(new) /\ Allocated(new) = Allocated(buf[b]) \ {p}
  BY <1>1, <1>2, FreeObjectOK
<1>4. /\ new.live_n = buf[b].live_n /\ new.alloc_disabled = buf[b].alloc_disabled
      /\ new.live_before_sweep_n = buf[b].live_before_sweep_n
      /\ new.markable = buf[b].markable /\ new.sweepable = buf[b].sweepable
      /\ new.mark_bits = buf[b].mark_bits /\ new.alloc_ptr = buf[b].alloc_ptr
  BY <1>2, FreeObjectFrame
<1>5. /\ buf' = [buf EXCEPT ![b] = new] /\ held' = held \ {o}
      /\ UNCHANGED <<mapped, alloc_buffer, phase, unswept, sweep>>
  BY DEF smal_free
<1> HIDE DEF new
<1>6. buf'[b] = new /\ \A c \in Buffers : c # b => buf'[c] = buf[c]
  BY <1>1, <1>5 DEF IInv, TypeOK
<1>7. SweepOK'
  <2>1. sweeping => sweep.buf \in Buffers
    BY DEF IInv, SweepOK, TypeOK
  <2> QED  BY <1>4, <1>5, <1>6, <2>1 DEF IInv, SweepOK, sweeping
<1>8. \A x \in held' : x[1] = b => x[2] \in Allocated(new)
  BY <1>1, <1>3, <1>5 DEF IInv, HeldObjectsIntact, TypeOK, Objects
<1>9. sweep' \in SweepFrame
  BY <1>5 DEF IInv, TypeOK
<1> HIDE DEF b, p
<1>10. /\ IInv'
       /\ \A x \in Objects :
            x \in allocated' <=> IF x[1] = b THEN x[2] \in Allocated(new)
                                            ELSE x \in allocated
  BY <1>1, <1>3, <1>4, <1>5, <1>7, <1>8, <1>9, UpdateOK
<1>11. o \in allocated
  BY <1>1 DEF allocated
<1>12. allocated' = allocated \ {o}
  <2>1. \A x \in Objects : x[1] = b => (x[2] \in Allocated(new) <=> x \in allocated \ {o})
    BY <1>1, <1>3 DEF allocated, Objects
  <2>2. \A x \in Objects : x[1] # b => x # o
    BY <1>1
  <2> QED  BY <1>10, <2>1, <2>2 DEF allocated
<1> QED  BY <1>10, <1>11, <1>12

(* Forgetting a pointer changes no buffer.                                 *)
LEMMA DropOK ==
  ASSUME IInv, NEW o \in Objects, Drop(o)
  PROVE  IInv' /\ allocated' = allocated
<1>1. /\ held' = held \ {o}
      /\ UNCHANGED <<mapped, buf, alloc_buffer, phase, unswept, sweep>>
  BY DEF Drop
<1>2. TypeOK' /\ RecordsOK' /\ HeldObjectsIntact' /\ HeldLive' /\ HeldMarked'
  BY <1>1 DEF IInv, TypeOK, RecordsOK, HeldObjectsIntact, HeldLive, HeldMarked
<1>3. PausedWhileCollected' /\ AllocBufferUsable' /\ CollectingOK' /\ SweepOK'
  BY <1>1 DEF IInv, PausedWhileCollected, AllocBufferUsable, CollectingOK, SweepOK, sweeping
<1> QED  BY <1>1, <1>2, <1>3 DEF IInv, allocated

-----------------------------------------------------------------------------
(* The steps of the collector.                                             *)

(* The start of a collection pauses every buffer once.                     *)
LEMMA BeginCollectOK ==
  ASSUME IInv, BeginCollect
  PROVE  IInv' /\ allocated' = allocated
<1>1. /\ phase = "idle" /\ phase' = "mark" /\ unswept' = mapped
      /\ buf' = [b \in Buffers |-> IF b \in mapped THEN BeforeMark(buf[b]) ELSE buf[b]]
      /\ alloc_buffer' = IF alloc_buffer \in mapped THEN NoBuffer ELSE alloc_buffer
      /\ mapped' = mapped /\ sweep' = sweep /\ held' = held
  BY DEF BeginCollect
<1>2. ASSUME NEW b \in mapped
      PROVE  /\ BufferOK(buf'[b]) /\ Allocated(buf'[b]) = Allocated(buf[b])
             /\ buf'[b].alloc_disabled = 1
             /\ buf'[b].live_n = buf[b].live_n
             /\ buf'[b].live_before_sweep_n = buf[b].live_n
             /\ buf'[b].sweepable => buf'[b].markable
  <2>1. b \in Buffers /\ buf[b].alloc_disabled = 0
    BY <1>1 DEF IInv, TypeOK, PausedWhileCollected, CollectingOK
  <2>2. buf'[b] = BeforeMark(buf[b])
    BY <1>1, <2>1
  <2>3. BufferOK(buf[b])
    BY <2>1, RecordTyped DEF IInv
  <2> QED  BY <2>1, <2>2, <2>3, BeforeMarkOK
<1>3. \A b \in Buffers \ mapped : buf'[b] = buf[b] /\ BufferOK(buf[b])
  BY <1>1 DEF IInv, RecordsOK
<1>4. held \subseteq Objects /\ mapped \subseteq Buffers
  BY DEF IInv, TypeOK
<1>5. ~ sweeping /\ ~ sweeping'
  BY <1>1 DEF IInv, SweepOK, sweeping
<1>6. RecordsOK'
  BY <1>1, <1>2, <1>3 DEF IInv, RecordsOK
<1>7. TypeOK'
  <2>1. \A b \in Buffers : buf'[b] \in smal_buffer
    BY <1>2, <1>3 DEF BufferOK
  <2>2. buf' \in [Buffers -> smal_buffer]
    BY <1>1, <2>1
  <2> QED  BY <1>1, <2>2 DEF IInv, TypeOK, Phases
<1>8. HeldObjectsIntact' /\ HeldLive'
  BY <1>1, <1>2, <1>4 DEF IInv, HeldObjectsIntact, HeldLive
<1>9. PausedWhileCollected'
  BY <1>1, <1>2 DEF PausedWhileCollected
<1>10. AllocBufferUsable'
  BY <1>1 DEF IInv, AllocBufferUsable
<1>11. CollectingOK' /\ HeldMarked'
  BY <1>1, <1>2 DEF CollectingOK, HeldMarked
<1>12. SweepOK'
  BY <1>1, <1>5 DEF IInv, SweepOK
<1>13. allocated' = allocated
  BY <1>1, <1>2 DEF allocated
<1> QED  BY <1>6, <1>7, <1>8, <1>9, <1>10, <1>11, <1>12, <1>13 DEF IInv

(* Marking an object keeps the invariant and allocates or frees nothing.   *)
LEMMA MarkPtrOK ==
  ASSUME IInv, NEW o \in Objects, MarkPtr(o)
  PROVE  IInv' /\ allocated' = allocated
<1> DEFINE b == o[1]
           p == o[2]
           new == MarkObject(buf[b], p)
<1>1. /\ phase = "mark" /\ b \in unswept /\ b \in mapped /\ b \in Buffers
      /\ p \in Parceled(buf[b])
      /\ buf' = [buf EXCEPT ![b] = new]
      /\ UNCHANGED <<mapped, alloc_buffer, phase, unswept, sweep, held>>
  BY DEF MarkPtr, IInv, TypeOK, Objects
<1>2. BufferOK(buf[b]) /\ buf[b] \in smal_buffer
  BY <1>1, RecordTyped DEF IInv
<1>3. BufferOK(new) /\ Allocated(new) = Allocated(buf[b])
  BY <1>1, <1>2, MarkObjectOK
<1>4. /\ new.live_n = buf[b].live_n /\ new.alloc_disabled = buf[b].alloc_disabled
      /\ new.live_before_sweep_n = buf[b].live_before_sweep_n
      /\ new.markable = buf[b].markable /\ new.sweepable = buf[b].sweepable
      /\ new.mark_bits = buf[b].mark_bits \cup {p}
  BY <1>2, MarkObjectFrame
<1> HIDE DEF new, b, p
<1>5. SweepOK' /\ sweep' \in SweepFrame
  BY <1>1 DEF IInv, SweepOK, sweeping, TypeOK
<1>6. \A x \in held' : x[1] = b => x[2] \in Allocated(new)
  BY <1>1, <1>3 DEF IInv, HeldObjectsIntact
<1>7. /\ IInv'
      /\ \A x \in Objects :
            x \in allocated' <=> IF x[1] = b THEN x[2] \in Allocated(new)
                                            ELSE x \in allocated
  BY <1>1, <1>3, <1>4, <1>5, <1>6, UpdateOK
<1>8. \A x \in Objects : x[1] = b => (x[2] \in Allocated(new) <=> x \in allocated)
  BY <1>1, <1>3 DEF allocated
<1>9. allocated' \subseteq Objects /\ allocated \subseteq Objects
  BY DEF allocated
<1> QED  BY <1>7, <1>8, <1>9

(* At the end of marking HeldMarked becomes true.                          *)
LEMMA EndMarkOK ==
  ASSUME IInv, EndMark
  PROVE  IInv' /\ allocated' = allocated
<1>1. /\ phase = "mark" /\ phase' = "sweep"
      /\ UNCHANGED <<mapped, buf, alloc_buffer, unswept, sweep, held>>
      /\ \A o \in held : /\ o[1] \in unswept
                          /\ buf[o[1]].markable
                          => o[2] \in buf[o[1]].mark_bits
  BY DEF EndMark
<1>2. HeldMarked'
  BY <1>1 DEF IInv, HeldMarked, CollectingOK
<1>3. TypeOK' /\ RecordsOK' /\ HeldObjectsIntact' /\ HeldLive'
  BY <1>1 DEF IInv, TypeOK, RecordsOK, HeldObjectsIntact, HeldLive, Phases
<1>4. PausedWhileCollected' /\ AllocBufferUsable' /\ CollectingOK'
  BY <1>1 DEF IInv, PausedWhileCollected, AllocBufferUsable, CollectingOK
<1>5. SweepOK'
  BY <1>1 DEF IInv, SweepOK, sweeping
<1> QED  BY <1>1, <1>2, <1>3, <1>4, <1>5 DEF IInv, allocated

(* The frame of a new smal_buffer_sweep is in order.                       *)
LEMMA BeginSweepOK ==
  ASSUME IInv, NEW b \in Buffers, BeginSweep(b)
  PROVE  IInv' /\ allocated' = allocated
<1>1. /\ phase = "sweep" /\ b \in unswept
      /\ sweep' = [buf |-> b, ptr |-> 0, live_n |-> 0, alloc_ptr |-> buf[b].alloc_ptr]
      /\ UNCHANGED <<mapped, buf, alloc_buffer, phase, unswept, held>>
  BY DEF BeginSweep
<1>2. buf[b] \in smal_buffer /\ BufferOK(buf[b])
  BY RecordTyped DEF IInv
<1>3. buf[b].alloc_ptr \in 0 .. Capacity /\ 0 \in 0 .. Capacity
  BY <1>2, BufferAssumption DEF smal_buffer
<1>4. TypeOK'
  <2>1. sweep' \in SweepFrame
    BY <1>1, <1>3 DEF SweepFrame
  <2> QED  BY <1>1, <2>1 DEF IInv, TypeOK
<1>5. SweepOK'
  <2>1. \A p \in buf[b].mark_bits : ~ (p < 0)
    BY <1>2, BufferAssumption DEF smal_buffer, Slots
  <2>2. 0 <= buf[b].alloc_ptr
    BY <1>3
  <2>3. b # NoBuffer
    BY TypeAssumption
  <2> QED  BY <1>1, <2>1, <2>2, <2>3 DEF SweepOK, sweeping
<1>6. RecordsOK' /\ HeldObjectsIntact' /\ HeldLive' /\ HeldMarked'
  BY <1>1 DEF IInv, RecordsOK, HeldObjectsIntact, HeldLive, HeldMarked
<1>7. PausedWhileCollected' /\ AllocBufferUsable' /\ CollectingOK'
  BY <1>1 DEF IInv, PausedWhileCollected, AllocBufferUsable, CollectingOK
<1> QED  BY <1>1, <1>4, <1>5, <1>6, <1>7 DEF IInv, allocated

(* A turn of the sweep frees at most one object, and not a held one: a     *)
(* held object of a buffer being swept is marked.                          *)
LEMMA SweepObjectOK ==
  ASSUME IInv, SweepObject
  PROVE  /\ IInv'
         /\ \E garbage \in SUBSET (allocated \ held) : allocated' = allocated \ garbage
<1> DEFINE b == sweep.buf
           p == sweep.ptr
           r == buf[b]
<1>1. /\ sweeping /\ r.sweepable /\ p < sweep.alloc_ptr
      /\ UNCHANGED <<mapped, alloc_buffer, phase, unswept, held>>
  BY DEF SweepObject
<1>2. /\ phase = "sweep" /\ b \in unswept /\ b \in mapped /\ b \in Buffers
      /\ sweep.alloc_ptr = r.alloc_ptr
      /\ sweep.live_n = 0 => \A q \in r.mark_bits : ~ (q < p)
      /\ sweep \in SweepFrame /\ b # NoBuffer
  BY <1>1 DEF IInv, SweepOK, TypeOK, sweeping
<1>3. /\ BufferOK(r) /\ r \in smal_buffer
      /\ p \in Nat /\ p + 1 \in 0 .. Capacity /\ p + 1 <= sweep.alloc_ptr
      /\ p \in Parceled(r) /\ r.mark_bits \subseteq Nat /\ sweep.live_n \in Nat
  <2>1. BufferOK(r) /\ r \in smal_buffer
    BY <1>2, RecordTyped DEF IInv
  <2>2. p \in 0 .. Capacity /\ r.alloc_ptr \in 0 .. Capacity /\ sweep.live_n \in Nat
    BY <1>2, <2>1 DEF SweepFrame, smal_buffer
  <2>3. r.mark_bits \subseteq Nat
    <3>1. r.mark_bits \subseteq Slots
      BY <2>1 DEF smal_buffer
    <3>2. Slots \subseteq Nat
      BY BufferAssumption DEF Slots
    <3> QED  BY <3>1, <3>2
  <2> QED  BY <1>1, <1>2, <2>1, <2>2, <2>3, BufferAssumption DEF Parceled
<1>4. held \subseteq Objects
  BY DEF IInv, TypeOK
<1>5. CASE p \in r.mark_bits
  <2>1. sweep' = [sweep EXCEPT !.ptr = p + 1, !.live_n = sweep.live_n + 1] /\ buf' = buf
    BY <1>5 DEF SweepObject
  <2>2. /\ sweep'.buf = b /\ sweep'.ptr = p + 1 /\ sweep'.live_n = sweep.live_n + 1
        /\ sweep'.alloc_ptr = sweep.alloc_ptr /\ sweep' \in SweepFrame
    <3>1. sweep \in SweepFrame /\ sweep.live_n + 1 \in Nat /\ p + 1 \in 0 .. Capacity
      BY <1>2, <1>3
    <3> HIDE DEF p
    <3> QED  BY <2>1, <3>1 DEF SweepFrame
  <2>3. SweepOK'
    <3>1. sweep'.live_n # 0
      BY <1>3, <2>2
    <3> QED  BY <1>1, <1>2, <1>3, <2>1, <2>2, <3>1 DEF SweepOK, sweeping
  <2>4. TypeOK' /\ RecordsOK' /\ HeldObjectsIntact' /\ HeldLive' /\ HeldMarked'
    BY <1>1, <2>1, <2>2 DEF IInv, TypeOK, RecordsOK, HeldObjectsIntact, HeldLive, HeldMarked
  <2>5. PausedWhileCollected' /\ AllocBufferUsable' /\ CollectingOK'
    BY <1>1, <2>1 DEF IInv, PausedWhileCollected, AllocBufferUsable, CollectingOK
  <2>6. allocated' = allocated \ {}
    BY <1>1, <2>1 DEF allocated
  <2> QED  BY <2>3, <2>4, <2>5, <2>6 DEF IInv
<1>6. CASE p \notin r.mark_bits
  <2>1. sweep' = [sweep EXCEPT !.ptr = p + 1]
    BY <1>6 DEF SweepObject
  <2>2. /\ sweep'.buf = b /\ sweep'.ptr = p + 1 /\ sweep'.live_n = sweep.live_n
        /\ sweep'.alloc_ptr = sweep.alloc_ptr /\ sweep' \in SweepFrame
    BY <1>2, <1>3, <2>1 DEF SweepFrame
  <2>3. sweep.live_n = 0 => \A q \in r.mark_bits : ~ (q < p + 1)
    BY <1>2, <1>3, <1>6
  <2>4. <<b, p>> \notin held
    BY <1>1, <1>2, <1>6 DEF IInv, HeldMarked
  <2>5. CASE p \in r.free_bits
    <3>1. buf' = buf
      BY <1>6, <2>5 DEF SweepObject
    <3>2. SweepOK'
      BY <1>1, <1>2, <1>3, <2>2, <2>3, <3>1 DEF SweepOK, sweeping
    <3>3. TypeOK' /\ RecordsOK' /\ HeldObjectsIntact' /\ HeldLive' /\ HeldMarked'
      BY <1>1, <3>1, <2>2 DEF IInv, TypeOK, RecordsOK, HeldObjectsIntact, HeldLive, HeldMarked
    <3>4. PausedWhileCollected' /\ AllocBufferUsable' /\ CollectingOK'
      BY <1>1, <3>1 DEF IInv, PausedWhileCollected, AllocBufferUsable, CollectingOK
    <3>5. allocated' = allocated \ {}
      BY <1>1, <3>1 DEF allocated
    <3> QED  BY <3>2, <3>3, <3>4, <3>5 DEF IInv
  <2>6. CASE p \notin r.free_bits
    <3> DEFINE new == FreeObject(r, p)
    <3>1. buf' = [buf EXCEPT ![b] = new]
      BY <1>6, <2>6 DEF SweepObject
    <3>2. p \in Allocated(r)
      BY <1>3, <2>6 DEF Allocated
    <3>3. BufferOK(new) /\ Allocated(new) = Allocated(r) \ {p}
      BY <1>3, <3>2, FreeObjectOK
    <3>4. /\ new.live_n = r.live_n /\ new.alloc_disabled = r.alloc_disabled
          /\ new.live_before_sweep_n = r.live_before_sweep_n
          /\ new.markable = r.markable /\ new.sweepable = r.sweepable
          /\ new.mark_bits = r.mark_bits /\ new.alloc_ptr = r.alloc_ptr
      BY <1>3, FreeObjectFrame
    <3> HIDE DEF new
    <3>5. buf'[b] = new
      BY <1>2, <3>1 DEF IInv, TypeOK
    <3>6. SweepOK'
      BY <1>1, <1>2, <1>3, <2>2, <2>3, <3>4, <3>5 DEF SweepOK, sweeping
    <3>7. \A o \in held' : o[1] = b => o[2] \in Allocated(new)
      BY <1>1, <1>4, <2>4, <3>3 DEF IInv, HeldObjectsIntact, Objects
    <3> HIDE DEF b, r
    <3>8. /\ IInv'
          /\ \A o \in Objects :
               o \in allocated' <=> IF o[1] = b THEN o[2] \in Allocated(new)
                                               ELSE o \in allocated
      BY <1>1, <1>2, <2>2, <3>1, <3>3, <3>4, <3>6, <3>7, UpdateOK DEF r
    <3>9. <<b, p>> \in allocated \ held
      BY <1>2, <1>3, <2>4, <3>2, AllocatedSlots DEF allocated, Objects, r
    <3>10. allocated' = allocated \ {<<b, p>>}
      <4>1. \A o \in Objects :
               o[1] = b => (o[2] \in Allocated(new) <=> o \in allocated \ {<<b, p>>})
        BY <1>2, <3>3 DEF allocated, Objects, r
      <4>2. \A o \in Objects : o[1] # b => o # <<b, p>>
        OBVIOUS
      <4>3. allocated \subseteq Objects /\ allocated' \subseteq Objects
        BY DEF allocated
      <4> QED  BY <3>8, <4>1, <4>2, <4>3
    <3> QED  BY <3>8, <3>9, <3>10
  <2> QED  BY <2>5, <2>6
<1> QED  BY <1>5, <1>6

(* After the scan, what is held in the buffer has been counted.            *)
LEMMA SweepDoneCounted ==
  ASSUME IInv, SweepDone, NEW o \in held, o[1] = sweep.buf
  PROVE  LiveAfterSweep(buf[sweep.buf], sweep.live_n) # 0
<1> DEFINE b == sweep.buf
           r == buf[b]
<1>1. sweeping /\ phase = "sweep" /\ b \in unswept /\ b \in Buffers
  BY DEF SweepDone, IInv, SweepOK, TypeOK
<1>2. o[2] \in Allocated(r) /\ r.live_n # 0
  BY DEF IInv, HeldObjectsIntact, HeldLive
<1>3. CASE r.sweepable
  <2>1. o[2] \in r.mark_bits
    BY <1>1, <1>3 DEF IInv, HeldMarked
  <2>2. o[2] < sweep.ptr
    <3>1. r.alloc_ptr \in Int
      BY <1>1, RecordTyped, BufferAssumption DEF IInv, smal_buffer
    <3> QED  BY <1>1, <1>2, <1>3, <3>1 DEF SweepDone, IInv, SweepOK, Allocated, Parceled
  <2>3. sweep.live_n # 0
    BY <1>1, <2>1, <2>2 DEF IInv, SweepOK
  <2> QED  BY <1>3, <2>3 DEF LiveAfterSweep
<1>4. CASE ~ r.sweepable
  BY <1>1, <1>2, <1>4 DEF LiveAfterSweep, IInv, CollectingOK
<1> QED  BY <1>3, <1>4

(* A buffer that is kept is resumed, with live_n covering what is held.    *)
LEMMA SweepKeepOK ==
  ASSUME IInv, SweepKeep
  PROVE  IInv' /\ allocated' = allocated
<1> USE TypeAssumption
<1> DEFINE b == sweep.buf
           new == EndSweep(buf[b], sweep.live_n)
<1>1. /\ sweeping /\ LiveAfterSweep(buf[b], sweep.live_n) # 0
      /\ buf' = [buf EXCEPT ![b] = new]
      /\ unswept' = unswept \ {b} /\ sweep' = NoSweep
      /\ UNCHANGED <<mapped, alloc_buffer, phase, held>>
  BY DEF SweepKeep, SweepDone
<1>2. /\ phase = "sweep" /\ b \in unswept /\ b \in mapped /\ b \in Buffers
      /\ sweep.live_n \in Nat /\ buf[b].alloc_disabled = 1
      /\ buf[b].live_n = buf[b].live_before_sweep_n
  BY <1>1 DEF IInv, SweepOK, TypeOK, SweepFrame, PausedWhileCollected, CollectingOK
<1>3. BufferOK(buf[b])
  BY <1>2, RecordTyped DEF IInv
<1>4. /\ BufferOK(new) /\ Allocated(new) = Allocated(buf[b])
      /\ new.alloc_disabled = 0
      /\ new.live_n = LiveAfterSweep(buf[b], sweep.live_n)
  BY <1>2, <1>3, EndSweepOK
<1>5. /\ buf \in [Buffers -> smal_buffer] /\ mapped \subseteq Buffers
      /\ held \subseteq Objects /\ new \in smal_buffer
  BY <1>4 DEF IInv, TypeOK, BufferOK
<1> HIDE DEF new, b
<1>6. buf'[b] = new /\ \A c \in Buffers : c # b => buf'[c] = buf[c]
  BY <1>1, <1>2, <1>5
<1>7. TypeOK'
  <2>1. NoSweep \in SweepFrame
    BY BufferAssumption DEF NoSweep, SweepFrame
  <2> QED  BY <1>1, <1>5, <2>1 DEF IInv, TypeOK
<1>8. RecordsOK'
  BY <1>1, <1>2, <1>4, <1>6 DEF IInv, RecordsOK
<1>9. HeldObjectsIntact' /\ HeldLive'
  BY <1>1, <1>2, <1>4, <1>5, <1>6 DEF IInv, HeldObjectsIntact, HeldLive, Objects
<1>10. PausedWhileCollected'
  BY <1>1, <1>2, <1>4, <1>5, <1>6 DEF IInv, PausedWhileCollected
<1>11. AllocBufferUsable'
  BY <1>1, <1>2, <1>4, <1>5, <1>6 DEF IInv, AllocBufferUsable
<1>12. CollectingOK' /\ HeldMarked'
  BY <1>1, <1>2, <1>5, <1>6 DEF IInv, CollectingOK, HeldMarked, Objects, TypeOK
<1>13. SweepOK'
  BY <1>1 DEF SweepOK, sweeping, NoSweep
<1>14. allocated' = allocated
  <2>1. \A o \in Objects : o[2] \in Allocated(buf'[o[1]]) <=> o[2] \in Allocated(buf[o[1]])
    BY <1>4, <1>6 DEF Objects
  <2> QED  BY <1>1, <2>1 DEF allocated
<1> QED  BY <1>7, <1>8, <1>9, <1>10, <1>11, <1>12, <1>13, <1>14 DEF IInv

(* Unmapping a page takes back everything that was allocated in it; none   *)
(* of it was held.                                                         *)
LEMMA SweepUnmapOK ==
  ASSUME IInv, SweepUnmap
  PROVE  /\ IInv'
         /\ \E garbage \in SUBSET (allocated \ held) : allocated' = allocated \ garbage
<1> USE TypeAssumption
<1> DEFINE b == sweep.buf
           garbage == {o \in allocated : o[1] = b}
<1>1. /\ sweeping /\ SweepDone /\ LiveAfterSweep(buf[b], sweep.live_n) = 0
      /\ buf' = [buf EXCEPT ![b] = NewBuffer] /\ mapped' = mapped \ {b}
      /\ alloc_buffer' = IF alloc_buffer = b THEN NoBuffer ELSE alloc_buffer
      /\ unswept' = unswept \ {b} /\ sweep' = NoSweep
      /\ UNCHANGED <<phase, held>>
  BY DEF SweepUnmap, SweepDone
<1>2. \A o \in held : o[1] # b
  BY <1>1, SweepDoneCounted
<1>3. b \in mapped /\ b \in Buffers
  BY <1>1 DEF IInv, SweepOK, TypeOK
<1>4. /\ buf \in [Buffers -> smal_buffer] /\ mapped \subseteq Buffers
      /\ held \subseteq Objects /\ NewBuffer \in smal_buffer /\ BufferOK(NewBuffer)
  BY NewBufferOK DEF IInv, TypeOK, BufferOK
<1> HIDE DEF b, garbage
<1>5. buf'[b] = NewBuffer /\ \A c \in Buffers : c # b => buf'[c] = buf[c]
  BY <1>1, <1>3, <1>4
<1>6. TypeOK'
  <2>1. NoSweep \in SweepFrame
    BY BufferAssumption DEF NoSweep, SweepFrame
  <2> QED  BY <1>1, <1>4, <2>1 DEF IInv, TypeOK
<1>7. RecordsOK'
  BY <1>1, <1>3, <1>4, <1>5 DEF IInv, RecordsOK
<1>8. HeldObjectsIntact' /\ HeldLive' /\ HeldMarked'
  BY <1>1, <1>2, <1>4, <1>5 DEF IInv, HeldObjectsIntact, HeldLive, HeldMarked, Objects
<1>9. PausedWhileCollected' /\ AllocBufferUsable'
  BY <1>1, <1>4, <1>5 DEF IInv, PausedWhileCollected, AllocBufferUsable
<1>10. CollectingOK'
  BY <1>1, <1>4, <1>5 DEF IInv, CollectingOK, TypeOK
<1>11. SweepOK'
  BY <1>1 DEF SweepOK, sweeping, NoSweep
<1>12. allocated' = allocated \ garbage
  <2>1. \A o \in Objects : o[1] # b =>
           (o[2] \in Allocated(buf'[o[1]]) <=> o[2] \in Allocated(buf[o[1]]))
    BY <1>5 DEF Objects
  <2>2. ASSUME NEW o \in Objects
        PROVE  o \in allocated' <=> o \in allocated /\ o[1] # b
    BY <1>1, <2>1 DEF allocated
  <2> QED  BY <2>2 DEF allocated, garbage
<1>13. garbage \in SUBSET (allocated \ held)
  BY <1>2 DEF garbage
<1> QED  BY <1>6, <1>7, <1>8, <1>9, <1>10, <1>11, <1>12, <1>13 DEF IInv

(* When a collection ends no buffer is left paused.                        *)
LEMMA EndCollectOK ==
  ASSUME IInv, EndCollect
  PROVE  IInv' /\ allocated' = allocated
<1>1. /\ ~ sweeping /\ unswept = {} /\ phase' = "idle"
      /\ UNCHANGED <<mapped, buf, alloc_buffer, unswept, sweep, held>>
  BY DEF EndCollect
<1>2. TypeOK' /\ RecordsOK' /\ HeldObjectsIntact' /\ HeldLive' /\ HeldMarked'
  BY <1>1 DEF IInv, TypeOK, Phases, RecordsOK, HeldObjectsIntact, HeldLive, HeldMarked
<1>3. PausedWhileCollected' /\ AllocBufferUsable' /\ CollectingOK' /\ SweepOK'
  BY <1>1 DEF IInv, PausedWhileCollected, AllocBufferUsable, CollectingOK, SweepOK, sweeping
<1> QED  BY <1>1, <1>2, <1>3 DEF IInv, allocated

-----------------------------------------------------------------------------
(* The empty heap satisfies the invariant.                                 *)
LEMMA InitOK ==
  ASSUME Init
  PROVE  IInv /\ allocated = {} /\ held = {}
<1>1. NewBuffer \in smal_buffer /\ BufferOK(NewBuffer)
  BY NewBufferOK DEF BufferOK
<1>2. NoSweep \in SweepFrame
  BY BufferAssumption DEF NoSweep, SweepFrame
<1>3. TypeOK /\ RecordsOK
  BY <1>1, <1>2 DEF Init, TypeOK, RecordsOK, Phases
<1>4. /\ HeldObjectsIntact /\ HeldLive /\ HeldMarked
      /\ PausedWhileCollected /\ AllocBufferUsable /\ CollectingOK
  BY DEF Init, HeldObjectsIntact, HeldLive, HeldMarked, PausedWhileCollected,
         AllocBufferUsable, CollectingOK
<1>5. SweepOK
  BY DEF Init, SweepOK, sweeping, NoSweep
<1> QED  BY <1>3, <1>4, <1>5 DEF IInv, Init, allocated

(* A step keeps the invariant and does to the objects what a step of       *)
(* ObjectPool, or nothing, does.                                           *)
LEMMA StepOK ==
  ASSUME IInv, [Next]_vars
  PROVE  IInv' /\ [Pool!Next]_(Pool!vars)
<1> USE DEF Pool!Next, Pool!vars, Pool!Alloc, Pool!Free, Pool!Drop, Pool!Reclaim
<1>1. CASE smal_alloc
  <2>1. UNCHANGED <<phase, unswept, sweep>>
    BY <1>1, AllocCases DEF IInv
  <2>2. CASE \E b \in Buffers : AllocFrom(b)
    <3>1. PICK b \in Buffers : AllocFrom(b)
      BY <2>2
    <3> DEFINE o == <<b, AllocSlot(buf[b])>>
    <3>2. /\ IInv' /\ o \in Objects \ allocated
          /\ allocated' = allocated \cup {o} /\ held' = held \cup {o}
      BY <2>1, <3>1, AllocFromOK DEF Objects
    <3> QED  BY <3>2
  <2>3. CASE AllocFails
    <3>1. /\ alloc_buffer' = NoBuffer
          /\ UNCHANGED <<mapped, buf, held, phase, unswept, sweep>>
      BY <2>1, <2>3 DEF AllocFails
    <3>2. TypeOK' /\ RecordsOK' /\ HeldObjectsIntact' /\ HeldLive' /\ HeldMarked'
      BY <3>1 DEF IInv, TypeOK, RecordsOK, HeldObjectsIntact, HeldLive, HeldMarked
    <3>3. PausedWhileCollected' /\ AllocBufferUsable' /\ CollectingOK' /\ SweepOK'
      BY <3>1 DEF IInv, PausedWhileCollected, AllocBufferUsable, CollectingOK, SweepOK, sweeping
    <3>4. allocated' = allocated /\ held' = held
      BY <3>1 DEF allocated
    <3> QED  BY <3>2, <3>3, <3>4 DEF IInv
  <2> QED  BY <1>1, <2>2, <2>3, AllocCases DEF IInv
<1>2. CASE \E o \in Objects : smal_free(o)
  <2>1. PICK o \in Objects : smal_free(o)
    BY <1>2
  <2>2. o \in held /\ held' = held \ {o}
    BY <2>1 DEF smal_free
  <2> QED  BY <2>1, <2>2, FreeOK
<1>3. CASE \E o \in Objects : Drop(o)
  <2>1. PICK o \in Objects : Drop(o)
    BY <1>3
  <2>2. o \in held /\ held' = held \ {o}
    BY <2>1 DEF Drop
  <2> QED  BY <2>1, <2>2, DropOK
<1>4. CASE SweepObject
  BY <1>4, SweepObjectOK DEF SweepObject
<1>5. CASE SweepUnmap
  BY <1>5, SweepUnmapOK DEF SweepUnmap
<1>6. CASE \/ BeginCollect \/ EndMark \/ SweepKeep \/ EndCollect
           \/ \E o \in Objects : MarkPtr(o)
           \/ \E b \in Buffers : BeginSweep(b)
  <2>1. IInv' /\ allocated' = allocated
    BY <1>6, BeginCollectOK, EndMarkOK, SweepKeepOK, EndCollectOK, MarkPtrOK, BeginSweepOK
  <2>2. held' = held
    BY <1>6 DEF BeginCollect, EndMark, SweepKeep, EndCollect, MarkPtr, BeginSweep
  <2> QED  BY <2>1, <2>2
<1>7. CASE UNCHANGED vars
  <2>1. UNCHANGED <<mapped, buf, alloc_buffer, phase, unswept, sweep, held>>
    BY <1>7 DEF vars
  <2>2. TypeOK' /\ RecordsOK' /\ HeldObjectsIntact' /\ HeldLive' /\ HeldMarked'
    BY <2>1 DEF IInv, TypeOK, RecordsOK, HeldObjectsIntact, HeldLive, HeldMarked
  <2>3. PausedWhileCollected' /\ AllocBufferUsable' /\ CollectingOK' /\ SweepOK'
    BY <2>1 DEF IInv, PausedWhileCollected, AllocBufferUsable, CollectingOK, SweepOK, sweeping
  <2> QED  BY <2>1, <2>2, <2>3 DEF IInv, allocated
<1> QED  BY <1>1, <1>2, <1>3, <1>4, <1>5, <1>6, <1>7 DEF Next, Collector

(* The invariant holds in every reachable state. *)
THEOREM Invariant == Spec => []IInv
<1>1. Init => IInv
  BY InitOK
<1>2. IInv /\ [Next]_vars => IInv'
  BY StepOK
<1> QED  BY <1>1, <1>2, PTL DEF Spec

(* Every variable keeps its type. *)
THEOREM TypeCorrect == Spec => []TypeOK
  BY Invariant, PTL DEF IInv

(* No object the user holds is ever on a free list or in an unmapped page. *)
THEOREM HeldObjectsSafe == Spec => []HeldObjectsIntact
  BY Invariant, PTL DEF IInv

(* Free list, free bitmap and counters of every buffer agree. *)
THEOREM BuffersInOrder == Spec => []BuffersOK
<1>1. IInv => BuffersOK
  BY DEF IInv, TypeOK, RecordsOK, BufferOK, BuffersOK
<1> QED  BY <1>1, Invariant, PTL

(* A buffer is paused exactly while a collection has it. *)
THEOREM PausedExactly == Spec => []PausedWhileCollected
  BY Invariant, PTL DEF IInv

(* The allocator never keeps a pointer to an unmapped page. *)
THEOREM AllocBufferSafe == Spec => []AllocBufferUsable
  BY Invariant, PTL DEF IInv

(* The assertion at the end of smal_buffer_sweep does not fail. *)
THEOREM SweepAssertion == Spec => []NoAllocDuringSweep
<1>1. IInv => NoAllocDuringSweep
  BY DEF IInv, TypeOK, SweepOK, NoAllocDuringSweep
<1> QED  BY <1>1, Invariant, PTL

(* smal_alloc, smal_free and the collector implement ObjectPool. *)
THEOREM Implementation == Spec => PoolSpec
<1>1. Init => IInv /\ Pool!Init
  BY InitOK DEF Pool!Init
<1>2. IInv /\ [Next]_vars => IInv' /\ [Pool!Next]_(Pool!vars)
  BY StepOK
<1> QED  BY <1>1, <1>2, Invariant, PTL DEF Spec, PoolSpec, Pool!Spec

-----------------------------------------------------------------------------
(* live_n covers what is held: an argument about numbers, on top of IInv.  *)

AtMost(S, n) == IsFiniteSet(S) /\ Cardinality(S) <= n

HeldIn(b) == {o \in held : o[1] = b}

(* What a sweep has passed of its buffer it has counted.                   *)
Passed(b) == {o \in HeldIn(b) : o[2] < sweep.ptr}

LiveCounted ==
  \A b \in Buffers :
    /\ AtMost(HeldIn(b), buf[b].live_n)
    /\ sweep.buf = b /\ buf[b].sweepable => AtMost(Passed(b), sweep.live_n)

(* Fewer objects are at most as many; one more is one more. *)
LEMMA AtMostOneMore ==
  ASSUME NEW S, NEW n \in Nat, AtMost(S, n), NEW T, NEW x
  PROVE  /\ T \subseteq S => AtMost(T, n)
         /\ T \subseteq S \cup {x} => AtMost(T, n + 1)
<1>1. ASSUME T \subseteq S PROVE AtMost(T, n)
  <2>1. IsFiniteSet(T) /\ Cardinality(T) <= Cardinality(S)
    BY <1>1, FS_Subset DEF AtMost
  <2>2. Cardinality(T) \in Nat /\ Cardinality(S) \in Nat
    BY <2>1, FS_CardinalityType DEF AtMost
  <2> QED  BY <2>1, <2>2 DEF AtMost
<1>2. ASSUME T \subseteq S \cup {x} PROVE AtMost(T, n + 1)
  <2>1. /\ IsFiniteSet(S \cup {x})
        /\ Cardinality(S \cup {x}) = IF x \in S THEN Cardinality(S) ELSE Cardinality(S) + 1
    BY FS_AddElement DEF AtMost
  <2>2. IsFiniteSet(T) /\ Cardinality(T) <= Cardinality(S \cup {x})
    BY <1>2, <2>1, FS_Subset
  <2>3. Cardinality(T) \in Nat /\ Cardinality(S) \in Nat
    BY <2>2, FS_CardinalityType DEF AtMost
  <2> QED  BY <2>1, <2>2, <2>3 DEF AtMost
<1> QED  BY <1>1, <1>2

(* The empty set has at most any number of elements. *)
LEMMA NoneAtMost == \A n \in Nat : AtMost({}, n)
  BY FS_EmptySet DEF AtMost

(* Steps that take no object for held, count none and end no scan.         *)
LEMMA CountStays ==
  ASSUME IInv, LiveCounted, held' \subseteq held, sweep' = sweep,
         \A b \in Buffers : /\ buf'[b].live_n = buf[b].live_n
                            /\ b \in unswept => buf'[b].sweepable = buf[b].sweepable
  PROVE  LiveCounted'
<1> SUFFICES ASSUME NEW b \in Buffers
             PROVE  /\ AtMost(HeldIn(b)', buf'[b].live_n)
                    /\ sweep.buf = b /\ buf'[b].sweepable => AtMost(Passed(b)', sweep.live_n)
  BY DEF LiveCounted
<1>1. /\ buf[b].live_n \in Nat /\ sweep.live_n \in Nat
      /\ sweep.buf = b => b \in unswept
  BY TypeAssumption DEF IInv, TypeOK, smal_buffer, SweepFrame, SweepOK, sweeping
<1>2. HeldIn(b)' \subseteq HeldIn(b) /\ Passed(b)' \subseteq Passed(b)
  BY DEF HeldIn, Passed
<1>3. AtMost(HeldIn(b)', buf'[b].live_n)
  BY <1>1, <1>2, AtMostOneMore DEF LiveCounted
<1>4. ASSUME sweep.buf = b, buf'[b].sweepable PROVE AtMost(Passed(b)', sweep.live_n)
  <2>1. AtMost(Passed(b), sweep.live_n)
    BY <1>1, <1>4 DEF LiveCounted
  <2> QED  BY <1>1, <1>2, <2>1, AtMostOneMore
<1> QED  BY <1>3, <1>4

(* smal_alloc: one object more is held, and one more counted. *)
LEMMA AllocCounted ==
  ASSUME IInv, LiveCounted, NEW b \in Buffers, AllocFrom(b), UNCHANGED <<phase, unswept, sweep>>
  PROVE  LiveCounted'
<1> DEFINE o == <<b, AllocSlot(buf[b])>>
           new == AllocObject(buf[b], in_collect)
<1>1. /\ buf \in [Buffers -> smal_buffer] /\ buf' = [buf EXCEPT ![b] = new]
      /\ held' = held \cup {o} /\ b \notin unswept
  BY AllocNotCollected DEF AllocFrom, IInv, TypeOK
<1>2. new.live_n = buf[b].live_n + 1
  BY <1>1, AllocObjectFrame DEF in_collect
<1> HIDE DEF new
<1>3. buf'[b] = new /\ \A c \in Buffers \ {b} : buf'[c] = buf[c]
  BY <1>1
<1>4. \A c \in Buffers : buf[c].live_n \in Nat
  BY <1>1 DEF smal_buffer
<1>5. AtMost(HeldIn(b)', buf'[b].live_n)
  <2>1. AtMost(HeldIn(b), buf[b].live_n) /\ buf[b].live_n \in Nat
    BY <1>4 DEF LiveCounted
  <2>2. HeldIn(b)' \subseteq HeldIn(b) \cup {o}
    BY <1>1 DEF HeldIn
  <2>3. AtMost(HeldIn(b)', buf[b].live_n + 1)
    BY <2>1, <2>2, AtMostOneMore
  <2> QED  BY <1>2, <1>3, <2>3
<1>6. b # sweep.buf
  BY <1>1, TypeAssumption DEF IInv, SweepOK, sweeping
<1>7. ASSUME NEW c \in Buffers \ {b}
      PROVE  HeldIn(c)' = HeldIn(c) /\ Passed(c)' = Passed(c)
  BY <1>1 DEF HeldIn, Passed
<1> QED  BY <1>3, <1>5, <1>6, <1>7 DEF LiveCounted

(* A turn of the sweep's loop counts the object it passes if it is held:   *)
(* then it is marked.                                                      *)
LEMMA SweepCounted ==
  ASSUME IInv, LiveCounted, SweepObject
  PROVE  LiveCounted'
<1>1. PICK b \in Buffers : b = sweep.buf
  BY DEF SweepObject, IInv, SweepOK, TypeOK, SweepFrame, sweeping
<1> DEFINE p == sweep.ptr
<1>2. /\ buf[b].sweepable /\ p \in Nat
      /\ sweep.live_n \in Nat /\ b \in unswept /\ phase = "sweep" /\ held' = held
      /\ buf \in [Buffers -> smal_buffer] /\ held \subseteq Objects
  BY <1>1, BufferAssumption DEF SweepObject, IInv, SweepOK, TypeOK, SweepFrame, sweeping
<1>3. AtMost(Passed(b), sweep.live_n)
  BY <1>1, <1>2 DEF LiveCounted
<1>4. /\ sweep'.buf = b /\ sweep'.ptr = p + 1
      /\ sweep'.live_n = IF p \in buf[b].mark_bits THEN sweep.live_n + 1 ELSE sweep.live_n
  BY <1>1 DEF SweepObject, IInv, TypeOK, SweepFrame
<1>5. buf' = buf \/ buf' = [buf EXCEPT ![b] = FreeObject(buf[b], p)]
  BY <1>1 DEF SweepObject
<1>6. \A c \in Buffers : buf'[c].live_n = buf[c].live_n
  BY <1>2, <1>5, FreeObjectFrame
<1>7. \A c \in Buffers : HeldIn(c)' = HeldIn(c)
  BY <1>2 DEF HeldIn
<1>8. Passed(b)' \subseteq IF p \in buf[b].mark_bits THEN Passed(b) \cup {<<b, p>>} ELSE Passed(b)
  <2> SUFFICES ASSUME NEW o \in HeldIn(b), o[2] < p + 1, ~ (o[2] < p)
               PROVE  p \in buf[b].mark_bits /\ o = <<b, p>>
    BY <1>4, <1>7 DEF Passed
  <2>1. o \in held /\ o[1] = b /\ o[2] \in Slots /\ o = <<o[1], o[2]>>
    BY <1>2 DEF HeldIn, Objects
  <2>2. o[2] = p
    BY <1>2, <2>1, BufferAssumption DEF Slots
  <2>3. p \in buf[b].mark_bits
    BY <1>2, <2>1, <2>2 DEF IInv, HeldMarked
  <2> QED  BY <2>1, <2>2, <2>3
<1>9. AtMost(Passed(b)', sweep'.live_n)
  <2>1. CASE p \in buf[b].mark_bits
    <3>1. AtMost(Passed(b)', sweep.live_n + 1)
      BY <1>2, <1>3, <1>8, <2>1, AtMostOneMore
    <3> QED  BY <1>4, <2>1, <3>1
  <2>2. CASE p \notin buf[b].mark_bits
    <3>1. AtMost(Passed(b)', sweep.live_n)
      BY <1>2, <1>3, <1>8, <2>2, AtMostOneMore
    <3> QED  BY <1>4, <2>2, <3>1
  <2> QED  BY <2>1, <2>2
<1> QED  BY <1>4, <1>6, <1>7, <1>9 DEF LiveCounted

(* The end of a sweep: what was counted is what is held, or more. *)
LEMMA KeepCounted ==
  ASSUME IInv, LiveCounted, SweepKeep
  PROVE  LiveCounted'
<1>1. PICK b \in Buffers : b = sweep.buf
  BY DEF SweepKeep, SweepDone, IInv, SweepOK, TypeOK, SweepFrame, sweeping
<1> DEFINE new == EndSweep(buf[b], sweep.live_n)
<1>2. /\ buf[b].sweepable => sweep.ptr = buf[b].alloc_ptr
      /\ buf' = [buf EXCEPT ![b] = new] /\ sweep' = NoSweep /\ held' = held
      /\ b \in unswept /\ b \in mapped /\ sweep.live_n \in Nat
      /\ buf \in [Buffers -> smal_buffer]
  BY <1>1 DEF SweepKeep, SweepDone, IInv, SweepOK, TypeOK, SweepFrame, sweeping
<1>3. /\ BufferOK(buf[b]) /\ buf[b].alloc_disabled = 1
      /\ buf[b].live_n = buf[b].live_before_sweep_n
  BY <1>2, RecordTyped DEF IInv, PausedWhileCollected, CollectingOK
<1>4. new.live_n = IF buf[b].sweepable THEN sweep.live_n ELSE buf[b].live_n
  BY <1>2, <1>3, EndSweepOK DEF LiveAfterSweep
<1> HIDE DEF new
<1>5. AtMost(HeldIn(b), new.live_n)
  <2>1. CASE buf[b].sweepable
    <3>1. ASSUME NEW o \in HeldIn(b) PROVE o[2] < sweep.ptr
      <4>1. o[2] \in 0 .. buf[b].alloc_ptr - 1
        BY DEF HeldIn, IInv, HeldObjectsIntact, Allocated, Parceled
      <4>2. buf[b].alloc_ptr \in Nat
        BY <1>2, BufferAssumption DEF smal_buffer
      <4> QED  BY <1>2, <2>1, <4>1, <4>2
    <3>2. HeldIn(b) = Passed(b)
      BY <3>1 DEF Passed
    <3> QED  BY <1>1, <1>4, <2>1, <3>2 DEF LiveCounted
  <2>2. CASE ~ buf[b].sweepable
    BY <1>4, <2>2 DEF LiveCounted
  <2> QED  BY <2>1, <2>2
<1>6. buf'[b] = new /\ \A c \in Buffers \ {b} : buf'[c] = buf[c]
  BY <1>2
<1>7. \A c \in Buffers : HeldIn(c)' = HeldIn(c)
  BY <1>2 DEF HeldIn
<1>8. sweep'.buf \notin Buffers
  BY <1>2, TypeAssumption DEF NoSweep
<1> QED  BY <1>5, <1>6, <1>7, <1>8 DEF LiveCounted

(* A page without live objects has none that is held. *)
LEMMA UnmapCounted ==
  ASSUME IInv, LiveCounted, SweepUnmap
  PROVE  LiveCounted'
<1>1. PICK b \in Buffers : b = sweep.buf
  BY DEF SweepUnmap, SweepDone, IInv, SweepOK, TypeOK, SweepFrame, sweeping
<1>2. /\ SweepDone /\ LiveAfterSweep(buf[b], sweep.live_n) = 0
      /\ buf' = [buf EXCEPT ![b] = NewBuffer] /\ sweep' = NoSweep /\ held' = held
      /\ buf \in [Buffers -> smal_buffer]
  BY <1>1 DEF SweepUnmap, IInv, TypeOK
<1>3. HeldIn(b) = {}
  BY <1>1, <1>2, SweepDoneCounted DEF HeldIn
<1>4. buf'[b].live_n = 0 /\ \A c \in Buffers \ {b} : buf'[c] = buf[c]
  BY <1>2 DEF NewBuffer
<1>5. \A c \in Buffers : HeldIn(c)' = HeldIn(c)
  BY <1>2 DEF HeldIn
<1>6. sweep'.buf \notin Buffers
  BY <1>2, TypeAssumption DEF NoSweep
<1>7. AtMost(HeldIn(b), 0)
  BY <1>3, NoneAtMost
<1> QED  BY <1>4, <1>5, <1>6, <1>7 DEF LiveCounted

(* The scan of a page begins with nothing passed. *)
LEMMA BeginSweepCounted ==
  ASSUME IInv, LiveCounted, NEW b \in Buffers, BeginSweep(b)
  PROVE  LiveCounted'
<1>1. /\ sweep'.ptr = 0 /\ sweep'.live_n = 0 /\ sweep'.buf = b
      /\ UNCHANGED <<buf, held>>
  BY DEF BeginSweep
<1>2. \A c \in Buffers : HeldIn(c)' = HeldIn(c)
  BY <1>1 DEF HeldIn
<1>3. Passed(b)' = {}
  <2> SUFFICES ASSUME NEW o \in held, o[2] < 0 PROVE FALSE
    BY <1>1 DEF Passed, HeldIn
  <2> QED  BY BufferAssumption DEF IInv, TypeOK, Objects, Slots
<1>4. AtMost(Passed(b)', 0)
  BY <1>3, NoneAtMost
<1> QED  BY <1>1, <1>2, <1>4 DEF LiveCounted

(* Every step. *)
LEMMA StepCounted ==
  ASSUME IInv, LiveCounted, [Next]_vars
  PROVE  LiveCounted'
<1>1. CASE smal_alloc
  <2>1. /\ UNCHANGED <<phase, unswept, sweep>>
        /\ (\E b \in Buffers : AllocFrom(b)) \/ AllocFails
    BY <1>1, AllocCases DEF IInv
  <2>2. CASE AllocFails
    BY <2>1, <2>2, CountStays DEF AllocFails
  <2> QED  BY <2>1, <2>2, AllocCounted
<1>2. ASSUME NEW o \in Objects, smal_free(o) PROVE LiveCounted'
  <2>1. /\ buf' = [buf EXCEPT ![o[1]] = FreeObject(buf[o[1]], o[2])]
        /\ held' = held \ {o} /\ sweep' = sweep
        /\ buf \in [Buffers -> smal_buffer] /\ o[1] \in Buffers
    BY <1>2 DEF smal_free, IInv, TypeOK, Objects
  <2>2. \A c \in Buffers : /\ buf'[c].live_n = buf[c].live_n
                           /\ buf'[c].sweepable = buf[c].sweepable
    BY <2>1, FreeObjectFrame
  <2> QED  BY <2>1, <2>2, CountStays
<1>3. ASSUME NEW o \in Objects, Drop(o) PROVE LiveCounted'
  BY <1>3, CountStays DEF Drop
<1>4. CASE BeginCollect
  <2>1. /\ buf' = [b \in Buffers |-> IF b \in mapped THEN BeforeMark(buf[b]) ELSE buf[b]]
        /\ sweep' = sweep /\ held' = held /\ unswept = {}
    BY <1>4 DEF BeginCollect, IInv, CollectingOK
  <2>2. \A b \in Buffers : buf'[b].live_n = buf[b].live_n
    BY <2>1, RecordTyped, BeforeMarkOK DEF IInv
  <2> QED  BY <2>1, <2>2, CountStays
<1>5. ASSUME NEW o \in Objects, MarkPtr(o) PROVE LiveCounted'
  <2>1. /\ buf' = [buf EXCEPT ![o[1]] = MarkObject(buf[o[1]], o[2])]
        /\ held' = held /\ sweep' = sweep
        /\ buf \in [Buffers -> smal_buffer] /\ o[1] \in Buffers
    BY <1>5 DEF MarkPtr, IInv, TypeOK, Objects
  <2>2. \A c \in Buffers : /\ buf'[c].live_n = buf[c].live_n
                           /\ buf'[c].sweepable = buf[c].sweepable
    BY <2>1, MarkObjectFrame
  <2> QED  BY <2>1, <2>2, CountStays
<1>6. CASE EndMark \/ EndCollect \/ UNCHANGED vars
  BY <1>6, CountStays DEF EndMark, EndCollect, vars
<1> QED  BY <1>1, <1>2, <1>3, <1>4, <1>5, <1>6, BeginSweepCounted, SweepCounted, KeepCounted,
            UnmapCounted DEF Next, Collector

(* live_n never understates what the user holds, although smal_free leaves *)
(* it alone and a sweep sets it to its own count.                          *)
THEOREM LiveNCovers == Spec => []LiveNCoversHeld
<1>1. Init => LiveCounted
  <2> SUFFICES ASSUME Init PROVE LiveCounted
    OBVIOUS
  <2>1. \A b \in Buffers : b # sweep.buf /\ HeldIn(b) = {} /\ buf[b].live_n = 0
    BY TypeAssumption DEF Init, NoSweep, HeldIn, NewBuffer
  <2>2. AtMost({}, 0)
    BY NoneAtMost
  <2> QED  BY <2>1, <2>2 DEF LiveCounted
<1>2. IInv /\ LiveCounted /\ [Next]_vars => LiveCounted'
  BY StepCounted
<1>3. IInv /\ LiveCounted => LiveNCoversHeld
  BY DEF LiveCounted, AtMost, HeldIn, LiveNCoversHeld, IInv, TypeOK
<1> QED  BY <1>1, <1>2, <1>3, Invariant, PTL DEF Spec

=============================================================================
