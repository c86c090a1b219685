--------------------------- MODULE SmalPageProofs ---------------------------
(***************************************************************************)
(* For every page size, object size and alignment: the page that is kept   *)
(* is aligned and nothing of the mapping leaks, objects lie in their page  *)
(* and are found again from a pointer to any of their bytes, their bits    *)
(* are distinct and inside the bitmaps, and no two pages collide in a      *)
(* buffer table that covers the range of their ids.                        *)
(***************************************************************************)
EXTENDS SmalPage, TLAPS

(* Division with a remainder, and its uniqueness. *)
LEMMA DivMod ==
  ASSUME NEW a \in Int, NEW n \in Nat \ {0}
  PROVE  /\ a \div n \in Int /\ a % n \in 0..(n - 1)
         /\ a = n * (a \div n) + (a % n)
BY SMT

(* Multiplication is monotone. *)
LEMMA Times ==
  ASSUME NEW m \in Nat, NEW i \in Int, NEW j \in Int, i <= j
  PROVE  i * m <= j * m
BY SMT

(* The quotient is the only number with its bounds. *)
LEMMA DivUnique ==
  ASSUME NEW a \in Int, NEW n \in Nat \ {0}, NEW q \in Int,
         q * n <= a, a < q * n + n
  PROVE  a \div n = q
<1>1. a = n * (a \div n) + (a % n) /\ a \div n \in Int /\ a % n \in 0..(n - 1)
  BY DivMod
<1>. DEFINE d == a \div n
<1>. HIDE DEF d
<1>2. a = n * d + (a % n) /\ d \in Int
  BY <1>1 DEF d
<1>3. n * d <= a /\ a < n * d + n
  BY <1>1, <1>2
<1>4. CASE d < q
  <2>1. d + 1 <= q
    BY <1>2, <1>4
  <2>2. n * (d + 1) <= n * q
    BY <1>2, <2>1
  <2> QED BY <1>2, <1>3, <2>2
<1>5. CASE d > q
  <2>1. q + 1 <= d
    BY <1>2, <1>5
  <2>2. n * (q + 1) <= n * d
    BY <1>2, <2>1
  <2> QED BY <1>2, <1>3, <2>2
<1> QED BY <1>2, <1>4, <1>5 DEF d

(* A multiple leaves no remainder. *)
LEMMA MultipleMod ==
  ASSUME NEW n \in Nat \ {0}, NEW q \in Int
  PROVE  (q * n) % n = 0
<1>1. q * n \in Int /\ q * n < q * n + n
  OBVIOUS
<1>2. (q * n) \div n = q
  BY <1>1, DivUnique
<1>3. q * n = n * ((q * n) \div n) + ((q * n) % n) /\ (q * n) % n \in 0..(n - 1)
  BY <1>1, DivMod
<1> QED BY <1>2, <1>3

(* What leaves no remainder is a multiple. *)
LEMMA ModMultiple ==
  ASSUME NEW n \in Nat \ {0}, NEW a \in Int, a % n = 0
  PROVE  \E q \in Int : a = q * n
<1>1. a = n * (a \div n) + (a % n) /\ a \div n \in Int
  BY DivMod
<1> WITNESS a \div n \in Int
<1> QED BY <1>1

(* smal_ALIGN moves up by less than n, to a multiple of n. *)
LEMMA AlignedUp ==
  ASSUME NEW n \in Nat \ {0}, NEW a \in Nat
  PROVE  /\ Aligned(a, n) \in Nat
         /\ a <= Aligned(a, n) /\ Aligned(a, n) < a + n
         /\ Aligned(a, n) % n = 0
<1>1. a = n * (a \div n) + (a % n) /\ a \div n \in Int /\ a % n \in 0..(n - 1)
  BY DivMod
<1>2. CASE a % n = 0
  BY <1>2 DEF Aligned
<1>3. CASE a % n # 0
  <2>1. Aligned(a, n) = a + n - (a % n)
    BY <1>3 DEF Aligned
  <2>2. a + n - (a % n) = (a \div n + 1) * n
    BY <1>1
  <2>3. ((a \div n + 1) * n) % n = 0
    BY <1>1, MultipleMod
  <2>4. Aligned(a, n) % n = 0
    BY <2>1, <2>2, <2>3
  <2>5. Aligned(a, n) \in Nat /\ a <= Aligned(a, n) /\ Aligned(a, n) < a + n
    BY <1>1, <1>3, <2>1
  <2> QED BY <2>4, <2>5
<1> QED BY <1>2, <1>3

-----------------------------------------------------------------------------
(* smal_buffer_alloc, the assertions at 588-606 and more: the page that is *)
(* kept is aligned and inside the mapping, and every other byte of the     *)
(* mapping is unmapped once.                                               *)
THEOREM PageKept ==
  ASSUME PageSize \in Nat \ {0}, NEW a \in Nat
  PROVE  LET mapped == a..(a + 2 * PageSize - 1)
             kept   == [addr |-> keep_addr(a), size |-> PageSize]
         IN  /\ page_offset(keep_addr(a)) = 0
             /\ \A x \in Nat : InRegion(x, kept) => x \in mapped
             /\ \A x \in Nat : InRegion(x, free_1(a)) \/ InRegion(x, free_2(a))
                               <=> x \in mapped /\ ~ InRegion(x, kept)
             /\ \A x \in Nat : ~ (InRegion(x, free_1(a)) /\ InRegion(x, free_2(a)))
<1>1. a % PageSize \in 0..(PageSize - 1)
  BY DivMod
<1>2. keep_addr(a) = Aligned(a, PageSize)
  BY <1>1 DEF keep_addr, Aligned, page_offset
<1>3. page_offset(keep_addr(a)) = 0
  BY <1>2, AlignedUp DEF page_offset
<1>4. CASE a % PageSize = 0
  BY <1>3, <1>4 DEF keep_addr, free_1, free_2, InRegion, page_offset
<1>5. CASE a % PageSize # 0
  BY <1>1, <1>3, <1>5 DEF keep_addr, free_1, free_2, InRegion, page_offset
<1> QED BY <1>4, <1>5

(* The layout of a page: objects begin after the pointer to the buffer and *)
(* end inside the page.  An alignment that leaves no room for it would     *)
(* make the difference in object_capacity negative, which C takes for a    *)
(* huge capacity.                                                          *)
LEMMA Layout ==
  ASSUME PageSize \in Nat \ {0}, PointerSize \in Nat,
         NEW base \in Nat, NEW size \in Nat \ {0}, NEW align \in Nat \ {0},
         align + PointerSize <= PageSize
  PROVE  /\ begin_ptr(base, align) \in Nat
         /\ base + PointerSize <= begin_ptr(base, align)
         /\ begin_ptr(base, align) <= base + PageSize
         /\ object_capacity(base, size, align) \in Nat
         /\ begin_ptr(base, align) + object_capacity(base, size, align) * size
              <= base + PageSize
<1>. DEFINE b == begin_ptr(base, align)
            L == base + PageSize - b
<1>1. base + PointerSize \in Nat
  OBVIOUS
<1>2. /\ b \in Nat /\ base + PointerSize <= b /\ b < base + PointerSize + align
  BY <1>1, AlignedUp DEF begin_ptr
<1>. HIDE DEF b
<1>3. L \in Nat /\ b <= base + PageSize
  BY <1>2
<1>. HIDE DEF L
<1>. DEFINE c == L \div size
<1>4. c \in Int /\ L % size \in 0..(size - 1) /\ L = size * c + (L % size)
  BY SMTT(30), <1>3, DivMod
<1>5. object_capacity(base, size, align) = c
  BY DEF object_capacity, b, L
<1>. HIDE DEF c
<1>6. c * size <= L
  BY <1>3, <1>4
<1>7. c \in Nat
  <2>. SUFFICES ASSUME c <= -1 PROVE FALSE
    BY <1>4
  <2>1. c * size <= (-1) * size
    BY <1>4, Times
  <2> QED BY <1>3, <1>4, <2>1
<1>8. b + c * size <= base + PageSize
  BY <1>2, <1>4, <1>6 DEF L
<1>9. begin_ptr(base, align) = b
  BY DEF b
<1> QED BY <1>2, <1>3, <1>5, <1>7, <1>8, <1>9

(* Marking and freeing find an object from a pointer to any of its bytes:  *)
(* the page id of each byte is that of the buffer, smal_buffer_ptr_i is    *)
(* the object's index, and realigning yields the object's first byte.      *)
THEOREM ObjectFound ==
  ASSUME PageSize \in Nat \ {0}, PointerSize \in Nat,
         NEW base \in Nat, NEW size \in Nat \ {0}, NEW align \in Nat \ {0},
         align + PointerSize <= PageSize,
         page_offset(base) = 0,
         NEW i \in Nat, i < object_capacity(base, size, align),
         NEW x \in Nat, ObjectPtr(base, size, align, i) <= x,
         x < ObjectPtr(base, size, align, i) + size
  PROVE  /\ base + PointerSize <= x
         /\ page_id(x) = page_id(base)
         /\ ptr_i(base, size, align, x) = i
         /\ Realigned(base, size, align, x) = ObjectPtr(base, size, align, i)
<1>. DEFINE b == begin_ptr(base, align)
            c == object_capacity(base, size, align)
<1>1. /\ b \in Nat /\ base + PointerSize <= b /\ b <= base + PageSize
      /\ c \in Nat /\ b + c * size <= base + PageSize
  BY Layout
<1>2. i < c /\ b + i * size <= x /\ x < b + i * size + size
  BY DEF ObjectPtr
<1>3. ptr_i(base, size, align, x) = (x - b) \div size
  BY DEF ptr_i
<1>4. Realigned(base, size, align, x) = b + ptr_i(base, size, align, x) * size
  BY DEF Realigned
<1>5. ObjectPtr(base, size, align, i) = b + i * size
  BY DEF ObjectPtr
<1>. HIDE DEF b, c
<1>6. (i + 1) * size <= c * size
  BY <1>1, <1>2, Times
<1>7. i * size \in Nat /\ (i + 1) * size = i * size + size /\ c * size \in Nat
  BY <1>1
<1>8. base + PointerSize <= x /\ x < base + PageSize
  BY <1>1, <1>2, <1>6, <1>7
<1>9. (x - b) \div size = i
  <2>1. x - b \in Int /\ i * size <= x - b /\ x - b < i * size + size
    BY <1>1, <1>2, <1>7
  <2> QED BY <2>1, DivUnique
<1>10. page_id(x) = page_id(base)
  <2>. DEFINE d == base \div PageSize
  <2>1. d \in Int /\ base = PageSize * d
    BY DivMod DEF page_offset
  <2>. HIDE DEF d
  <2>2. d * PageSize <= x /\ x < d * PageSize + PageSize
    BY <1>8, <2>1
  <2>3. x \div PageSize = d
    BY <2>1, <2>2, DivUnique
  <2> QED BY <2>3 DEF page_id, d
<1> QED BY <1>3, <1>4, <1>5, <1>8, <1>9, <1>10

(* The bit of every object lies in mark_bits and free_bits, which are      *)
(* sized by the page and not by the capacity (721-725).                    *)
THEOREM BitsCover ==
  ASSUME PageSize \in Nat \ {0}, PointerSize \in Nat,
         NEW base \in Nat, NEW size \in Nat \ {0}, NEW align \in Nat \ {0},
         align + PointerSize <= PageSize,
         NEW i \in Nat, i < object_capacity(base, size, align)
  PROVE  /\ i < bits_size(size)
         /\ bitmap_i(i) < bitmap_words(bits_size(size))
<1>. DEFINE c == object_capacity(base, size, align)
            d == PageSize \div size
<1>1. c \in Nat /\ c * size <= PageSize
  <2>1. /\ begin_ptr(base, align) \in Nat /\ base + PointerSize <= begin_ptr(base, align)
        /\ c \in Nat /\ begin_ptr(base, align) + c * size <= base + PageSize
    BY Layout
  <2>. HIDE DEF c
  <2> QED BY <2>1
<1>2. d \in Int /\ PageSize = size * d + (PageSize % size) /\ PageSize % size \in 0..(size - 1)
  <2>1. PageSize \in Int
    OBVIOUS
  <2> QED BY <2>1, DivMod, Zenon
<1>3. i < c
  OBVIOUS
<1>4. bits_size(size) = d + 1
  BY DEF bits_size
<1>. HIDE DEF c, d
<1>5. c <= d
  <2>. SUFFICES ASSUME d + 1 <= c PROVE FALSE
    BY <1>1, <1>2
  <2>1. (d + 1) * size <= c * size
    BY <1>1, <1>2, Times
  <2>2. (d + 1) * size = size * d + size
    BY <1>2
  <2> QED BY <1>1, <1>2, <2>1, <2>2
<1>6. i < bits_size(size)
  BY <1>1, <1>2, <1>3, <1>4, <1>5
<1>7. i \div 32 < (d + 1) \div 32 + 1
  BY <1>1, <1>2, <1>3, <1>5
<1> QED BY <1>4, <1>6, <1>7 DEF bitmap_i, bitmap_words, BitsPerWord

(* The object_alignment of a type holds for all of its objects only if it  *)
(* divides their size; smal_type_for_desc rounds the size up to            *)
(* sizeof(double), not to the alignment.                                   *)
THEOREM ObjectsAligned ==
  ASSUME PageSize \in Nat \ {0}, PointerSize \in Nat,
         NEW base \in Nat, NEW size \in Nat \ {0}, NEW align \in Nat \ {0},
         size % align = 0, NEW i \in Nat
  PROVE  ObjectPtr(base, size, align, i) % align = 0
<1>1. begin_ptr(base, align) \in Nat /\ begin_ptr(base, align) % align = 0
  BY AlignedUp DEF begin_ptr
<1>. DEFINE b == begin_ptr(base, align)
<1>2. PICK p \in Int : b = p * align
  <2>1. b \in Int /\ b % align = 0
    BY <1>1
  <2>. HIDE DEF b
  <2> QED BY <2>1, ModMultiple
<1>3. PICK q \in Int : size = q * align
  BY ModMultiple
<1>4. ObjectPtr(base, size, align, i) = p * align + i * (q * align)
  BY <1>2, <1>3 DEF ObjectPtr
<1>5. p * align + i * (q * align) = (p + i * q) * align
  BY SMT
<1>6. p + i * q \in Int
  OBVIOUS
<1> QED BY <1>4, <1>5, <1>6, MultipleMod

(* A descriptor gives objects that can hold what is asked for and the link *)
(* of the free list (smal_buffer_free_object stores it in the object), and *)
(* with the default alignment all of them are aligned (smal.c:1453-1460).  *)
THEOREM DescServed ==
  ASSUME PageSize \in Nat \ {0}, PointerSize \in Nat, DoubleSize \in Nat \ {0},
         NEW base \in Nat, NEW n \in Nat, NEW i \in Nat
  PROVE  /\ n <= desc_size(n) /\ PointerSize <= desc_size(n)
         /\ desc_size(n) % desc_alignment(0) = 0
         /\ desc_size(n) # 0 =>
              ObjectPtr(base, desc_size(n), desc_alignment(0), i) % desc_alignment(0) = 0
<1>. DEFINE m == IF n < PointerSize THEN PointerSize ELSE n
<1>1. m \in Nat /\ n <= m /\ PointerSize <= m
  OBVIOUS
<1>2. /\ Aligned(m, DoubleSize) \in Nat /\ m <= Aligned(m, DoubleSize)
      /\ Aligned(m, DoubleSize) % DoubleSize = 0
  <2>. HIDE DEF m
  <2> QED BY <1>1, AlignedUp
<1>3. desc_size(n) = Aligned(m, DoubleSize) /\ desc_alignment(0) = DoubleSize
  BY DEF desc_size, desc_alignment
<1>4. n <= desc_size(n) /\ PointerSize <= desc_size(n)
  <2>. HIDE DEF m
  <2> QED BY <1>1, <1>2, <1>3
<1>5. desc_size(n) \in Nat /\ desc_size(n) % DoubleSize = 0
  <2>. HIDE DEF m
  <2> QED BY <1>2, <1>3
<1>6. ASSUME desc_size(n) # 0
      PROVE  ObjectPtr(base, desc_size(n), DoubleSize, i) % DoubleSize = 0
  <2>1. desc_size(n) \in Nat \ {0}
    BY <1>5, <1>6
  <2> QED BY <2>1, <1>5, ObjectsAligned
<1> QED BY <1>3, <1>4, <1>5, <1>6

(* README.mediawiki:108, "Because the table is guaranteed to be            *)
(* non-colliding": so it is for the pages between page_id_min and          *)
(* page_id_max.                                                            *)
THEOREM NoCollisionInRange ==
  ASSUME NEW min \in Nat, NEW max \in Nat, min <= max,
         NEW p \in min..max, NEW q \in min..max,
         table_i(p, buffer_table_size(min, max)) = table_i(q, buffer_table_size(min, max))
  PROVE  p = q
<1>. DEFINE n == buffer_table_size(min, max)
<1>1. n \in Nat \ {0} /\ n = max - min + 1
  BY DEF buffer_table_size
<1>2. p % n = q % n
  BY DEF table_i
<1>. HIDE DEF n
<1>3. p \in Int /\ q \in Int /\ p - q < n /\ q - p < n
  BY <1>1
<1>4. /\ p \div n \in Int /\ p % n \in 0..(n - 1) /\ p = n * (p \div n) + (p % n)
      /\ q \div n \in Int /\ q % n \in 0..(n - 1) /\ q = n * (q \div n) + (q % n)
  BY <1>1, <1>3, DivMod
<1>. DEFINE d == p \div n
            e == q \div n
            r == p % n
<1>5. d \in Int /\ e \in Int /\ r \in Int /\ p = n * d + r /\ q = n * e + r
  BY <1>1, <1>2, <1>4
<1>. HIDE DEF d, e, r
<1>6. CASE d < e
  <2>1. (d + 1) * n <= e * n
    BY <1>1, <1>5, <1>6, Times
  <2> QED BY <1>1, <1>3, <1>5, <2>1
<1>7. CASE e < d
  <2>1. (e + 1) * n <= d * n
    BY <1>1, <1>5, <1>7, Times
  <2> QED BY <1>1, <1>3, <1>5, <2>1
<1> QED BY <1>5, <1>6, <1>7
=============================================================================
