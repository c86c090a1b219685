------------------------------ MODULE SmalPage ------------------------------
(***************************************************************************)
(* Addresses: how smal_buffer_alloc cuts an aligned page out of what mmap  *)
(* returns, how smal_buffer_set_object_size lays objects out in it, and    *)
(* how any address finds its buffer, its object and its bit again          *)
(* (src/src/smal.c, src/include/smal/smal.h).  An address is a number;     *)
(* "base" is the mmap_addr of a buffer, "size" and "align" are its         *)
(* object_size and object_alignment.                                       *)
(***************************************************************************)
EXTENDS Integers

CONSTANTS PageSize, PointerSize, DoubleSize

BitsPerWord == 32

page_offset(a) == a % PageSize
page_id(a)     == a \div PageSize

(* A mapping of twice the size, at address a: the page that is kept, and   *)
(* the parts before and after it that are unmapped again.                  *)
keep_addr(a) == IF page_offset(a) = 0 THEN a ELSE a + (PageSize - page_offset(a))

free_1(a) ==
  IF page_offset(a) = 0
  THEN [addr |-> a + PageSize, size |-> 2 * PageSize - PageSize]
  ELSE [addr |-> a, size |-> keep_addr(a) - a]

free_2(a) ==
  IF page_offset(a) = 0
  THEN [addr |-> 0, size |-> 0]
  ELSE [addr |-> keep_addr(a) + PageSize,
        size |-> (a + 2 * PageSize) - (keep_addr(a) + PageSize)]

InRegion(x, r) == r.addr <= x /\ x < r.addr + r.size

(* smal_ALIGN *)
Aligned(a, n) == IF a % n = 0 THEN a ELSE a + n - (a % n)

(* What smal_type_for_desc makes of the object_size and object_alignment   *)
(* of a descriptor; an alignment of 0 stands for the default.              *)
desc_size(n)      == Aligned(IF n < PointerSize THEN PointerSize ELSE n, DoubleSize)
desc_alignment(n) == IF n = 0 THEN DoubleSize ELSE n

(* The page begins with a pointer back to its smal_buffer. *)
begin_ptr(base, align) == Aligned(base + PointerSize, align)

object_capacity(base, size, align) ==
  (base + PageSize - begin_ptr(base, align)) \div size

(* The object with index i. *)
ObjectPtr(base, size, align, i) == begin_ptr(base, align) + i * size

(* smal_buffer_ptr_i, for a pointer to any byte of an object. *)
ptr_i(base, size, align, x) == (x - begin_ptr(base, align)) \div size

(* _smal_mark_ptr: "Realign interior ptrs." *)
Realigned(base, size, align, x) ==
  begin_ptr(base, align) + ptr_i(base, size, align, x) * size

(* The size of mark_bits and free_bits, and the words that hold them. *)
bits_size(size)   == PageSize \div size + 1
bitmap_words(n)   == n \div BitsPerWord + 1
bitmap_i(i)       == i \div BitsPerWord

(* buffer_table covers the ids from page_id_min to page_id_max. *)
buffer_table_size(min, max) == (max - min) + 1
table_i(id, n)              == id % n
=============================================================================
