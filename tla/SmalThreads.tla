---------------------------- MODULE SmalThreads -----------------------------
(***************************************************************************)
(* The locks of src/src/smal.c: threads that add a page to the heap        *)
(* (smal_alloc_p, smal_buffer_alloc, smal_buffer_table_add) and threads    *)
(* that collect it (_smal_collect_inner, _smal_collect_sweep_buffers,      *)
(* smal_buffer_free), lock by lock, with the buffer table and the two      *)
(* lists of buffers the locks protect; and threads that walk the lists     *)
(* (smal_each_object).                                                     *)
(*                                                                         *)
(* A step is what a thread does between two places where it can wait.  A   *)
(* lock that is taken and released between two such places without waiting *)
(* for another one is a condition of the step.  Objects are left out: a    *)
(* page of Pinned keeps live objects, another may lose them at any time.   *)
(* X_Y is X with a deliberate mistake that shows a property can fail.      *)
(***************************************************************************)
EXTENDS Integers, FiniteSets

CONSTANTS
  Threads, NoThread,
  Pages,               (* page ids                                         *)
  Types, TypeOf,       (* the smal_type a page is used for                 *)
  Pinned,              (* pages that never become empty                    *)
  MaxCollectLock       (* bounds _smal_collect_inner_lock                  *)

ASSUME ThreadsAssumption ==
  /\ NoThread \notin Threads /\ IsFiniteSet(Threads)
  /\ Pages \subseteq Nat \ {0}
  /\ TypeOf \in [Pages -> Types]
  /\ Pinned \subseteq Pages
  /\ MaxCollectLock \in Nat

VARIABLES
  pc,                    \* where each thread is, "idle" when not in smal
  page,                  \* the page it adds or frees, 0 if none
  rw,                    \* the read-write locks
  alloc_buffer_mutex,    \* of each type: its owner
  collect_lock,          \* _smal_collect_inner_lock, a counter
  in_collect,
  mapped,                \* the pages in use
  buffer_table,          \* the pages with an entry in buffer_table
  page_id_min, page_id_max, page_id_min_max_valid,
  buffer_list, buffer_collecting,
  unswept,               \* what is left of the sweep's walk
  overlapped             \* a page has been added while a collection ran

locks  == <<rw, alloc_buffer_mutex>>
table  == <<buffer_table, page_id_min, page_id_max, page_id_min_max_valid>>
lists  == <<buffer_list, buffer_collecting, unswept>>
vars   == <<pc, page, locks, collect_lock, in_collect, mapped, table, lists, overlapped>>

RWLocks == {"alloc", "table", "list", "collecting"}

Adding     == {"a_mutex", "a_table", "a_list", "a_collecting", "a_rehash",
               "a_insert", "a_return"}
Walking    == {"e_alloc", "e_list", "e_collecting"}
Collecting == {"c_alloc", "c_list", "c_collecting", "c_before_mark", "c_mark",
               "c_sweep", "c_stop", "c_end", "c_unlock"}

TypeOK ==
  /\ pc \in [Threads -> {"idle", "c_lock"} \cup Adding \cup Walking \cup Collecting]
  /\ page \in [Threads -> Pages \cup {0}]
  /\ rw \in [RWLocks -> [readers : SUBSET Threads, writer : Threads \cup {NoThread}]]
  /\ alloc_buffer_mutex \in [Types -> Threads \cup {NoThread}]
  /\ collect_lock \in 0 .. MaxCollectLock + Cardinality(Threads)
  /\ in_collect \in {0, 1}
  /\ mapped \subseteq Pages
  /\ buffer_table \subseteq mapped
  /\ {page_id_min, page_id_max} \subseteq Pages \cup {0}
  /\ page_id_min_max_valid \in BOOLEAN
  /\ buffer_list \subseteq mapped
  /\ unswept \subseteq buffer_collecting /\ buffer_collecting \subseteq mapped
  /\ overlapped \in BOOLEAN

Init ==
  /\ pc = [t \in Threads |-> "idle"]
  /\ page = [t \in Threads |-> 0]
  /\ rw = [l \in RWLocks |-> [readers |-> {}, writer |-> NoThread]]
  /\ alloc_buffer_mutex = [y \in Types |-> NoThread]
  /\ collect_lock = 0 /\ in_collect = 0
  /\ mapped = {} /\ buffer_table = {}
  /\ page_id_min = 0 /\ page_id_max = 0 /\ page_id_min_max_valid = FALSE
  /\ buffer_list = {} /\ buffer_collecting = {} /\ unswept = {}
  /\ overlapped = FALSE

-----------------------------------------------------------------------------
(* smal_thread_rwlock over pthread_rwlock.                                 *)
CanRead(l)  == rw[l].writer = NoThread
CanWrite(l) == rw[l].writer = NoThread /\ rw[l].readers = {}

ReadLock(l, t)   == rw' = [rw EXCEPT ![l].readers = @ \cup {t}]
WriteLock(l, t)  == rw' = [rw EXCEPT ![l].writer = t]
ReadUnlock(l, t) == rw' = [rw EXCEPT ![l].readers = @ \ {t}]
WriteUnlock(ls)  == rw' = [l \in RWLocks |-> IF l \in ls
                             THEN [rw[l] EXCEPT !.writer = NoThread] ELSE rw[l]]

Goto(t, from, to) == pc[t] = from /\ pc' = [pc EXCEPT ![t] = to]

-----------------------------------------------------------------------------
(* Adding a page.                                                          *)

(* smal_alloc_p takes alloc_lock ...                                       *)
smal_alloc_p(t) ==
  /\ Goto(t, "idle", "a_mutex")
  /\ CanRead("alloc") /\ ReadLock("alloc", t)
  /\ overlapped' = (overlapped \/ in_collect # 0)
  /\ UNCHANGED <<page, alloc_buffer_mutex, collect_lock, in_collect, mapped, table, lists>>

(* ... and the type's mutex, finds no buffer to use and maps page p.       *)
MapPage(t, p) ==
  /\ Goto(t, "a_mutex", "a_table")
  /\ alloc_buffer_mutex[TypeOf[p]] = NoThread
  /\ alloc_buffer_mutex' = [alloc_buffer_mutex EXCEPT ![TypeOf[p]] = t]
  /\ p \notin mapped
  /\ mapped' = mapped \cup {p}
  /\ page' = [page EXCEPT ![t] = p]
  /\ UNCHANGED <<rw, collect_lock, in_collect, table, lists, overlapped>>

(* ... unless there is none: out of memory (the mutex is taken and given   *)
(* back; nothing is left of that).                                         *)
MapFails(t) ==
  /\ Goto(t, "a_mutex", "idle")
  /\ mapped = Pages
  /\ ReadUnlock("alloc", t)
  /\ UNCHANGED <<page, alloc_buffer_mutex, collect_lock, in_collect, mapped, table, lists, overlapped>>

(* Extending the range of page ids by the pages of a set, as the loops of  *)
(* smal_buffer_table_add do.                                               *)
Extend_MinOnly(ps) ==
  /\ \E lo \in {page_id_min} \cup ps :
       (\A p \in {page_id_min} \cup ps : lo <= p) /\ page_id_min' = lo
  /\ page_id_max' = page_id_max

Extend(ps) ==
  /\ \E lo \in {page_id_min} \cup ps :
       (\A p \in {page_id_min} \cup ps : lo <= p) /\ page_id_min' = lo
  /\ \E hi \in {page_id_max} \cup ps :
       (\A p \in {page_id_max} \cup ps : hi >= p) /\ page_id_max' = hi

(* smal_buffer_table_add: with a valid range, only the new page extends it.*)
TableAdd(t) ==
  /\ page_id_min_max_valid
  /\ Goto(t, "a_table", "a_rehash")
  /\ CanWrite("table") /\ WriteLock("table", t)
  /\ Extend({page[t]})
  /\ UNCHANGED <<page, alloc_buffer_mutex, collect_lock, in_collect, mapped,
                 buffer_table, page_id_min_max_valid, lists, overlapped>>

(* Otherwise it is computed again: from the new page,                      *)
TableAddStale(t) ==
  /\ ~ page_id_min_max_valid
  /\ Goto(t, "a_table", "a_list")
  /\ CanWrite("table") /\ WriteLock("table", t)
  /\ page_id_min' = page[t] /\ page_id_max' = page[t]
  /\ UNCHANGED <<page, alloc_buffer_mutex, collect_lock, in_collect, mapped,
                 buffer_table, page_id_min_max_valid, lists, overlapped>>

(* from buffer_list,                                                       *)
ScanList(t) ==
  /\ Goto(t, "a_list", "a_collecting")
  /\ CanRead("list")
  /\ Extend(buffer_list)
  /\ UNCHANGED <<page, locks, collect_lock, in_collect, mapped,
                 buffer_table, page_id_min_max_valid, lists, overlapped>>

(* and from buffer_collecting.                                             *)
ScanCollecting(t) ==
  /\ Goto(t, "a_collecting", "a_rehash")
  /\ CanRead("collecting")
  /\ Extend(buffer_collecting)
  /\ page_id_min_max_valid' = TRUE
  /\ UNCHANGED <<page, locks, collect_lock, in_collect, mapped, buffer_table, lists, overlapped>>

(* Every entry moves to the new table, and the new one is entered.         *)
buffer_table_size == page_id_max - page_id_min + 1

Rehash(t) ==
  /\ Goto(t, "a_rehash", "a_insert")
  /\ buffer_table' = buffer_table \cup {page[t]}
  /\ WriteUnlock({"table"})
  /\ UNCHANGED <<page, alloc_buffer_mutex, collect_lock, in_collect, mapped,
                 page_id_min, page_id_max, page_id_min_max_valid, lists, overlapped>>

(* Last the buffer enters buffer_list.                                     *)
ListInsert(t) ==
  /\ Goto(t, "a_insert", "a_return")
  /\ CanWrite("list")
  /\ buffer_list' = buffer_list \cup {page[t]}
  /\ UNCHANGED <<page, locks, collect_lock, in_collect, mapped, table,
                 buffer_collecting, unswept, overlapped>>

AllocReturns(t) ==
  /\ Goto(t, "a_return", "idle")
  /\ alloc_buffer_mutex' = [alloc_buffer_mutex EXCEPT ![TypeOf[page[t]]] = NoThread]
  /\ ReadUnlock("alloc", t)
  /\ page' = [page EXCEPT ![t] = 0]
  /\ UNCHANGED <<collect_lock, in_collect, mapped, table, lists, overlapped>>

-----------------------------------------------------------------------------
(* Collecting.                                                             *)

(* _smal_collect_inner returns at once during a collection.                *)
smal_collect(t) ==
  /\ in_collect = 0
  /\ collect_lock <= MaxCollectLock
  /\ Goto(t, "idle", "c_lock")
  /\ UNCHANGED <<page, locks, collect_lock, in_collect, mapped, table, lists, overlapped>>

(* smal_thread_lock_lock counts also the thread that does not get it.      *)
CollectLock_Ignored(t) ==
  /\ Goto(t, "c_lock", "c_alloc")
  /\ collect_lock' = collect_lock + 1
  /\ UNCHANGED <<page, locks, in_collect, mapped, table, lists, overlapped>>

CollectLock(t) ==
  /\ Goto(t, "c_lock", IF collect_lock = 0 THEN "c_alloc" ELSE "idle")
  /\ collect_lock' = collect_lock + 1
  /\ UNCHANGED <<page, locks, in_collect, mapped, table, lists, overlapped>>

(* Wait until the allocators are done.                                     *)
StopAllocators_NoWait(t) ==
  /\ Goto(t, "c_alloc", "c_list")
  /\ rw["alloc"].writer = NoThread /\ WriteLock("alloc", t)
  /\ in_collect' = in_collect + 1
  /\ UNCHANGED <<page, alloc_buffer_mutex, collect_lock, mapped, table, lists, overlapped>>

StopAllocators(t) ==
  /\ Goto(t, "c_alloc", "c_list")
  /\ CanWrite("alloc") /\ WriteLock("alloc", t)
  /\ in_collect' = in_collect + 1
  /\ UNCHANGED <<page, alloc_buffer_mutex, collect_lock, mapped, table, lists, overlapped>>

LockList(t) ==
  /\ Goto(t, "c_list", "c_collecting")
  /\ CanWrite("list") /\ WriteLock("list", t)
  /\ UNCHANGED <<page, alloc_buffer_mutex, collect_lock, in_collect, mapped, table, lists, overlapped>>

(* All buffers move to buffer_collecting.                                  *)
MoveToCollecting(t) ==
  /\ Goto(t, "c_collecting", "c_before_mark")
  /\ CanWrite("collecting") /\ WriteLock("collecting", t)
  /\ buffer_collecting' = buffer_collecting \cup buffer_list
  /\ buffer_list' = {}
  /\ UNCHANGED <<page, alloc_buffer_mutex, collect_lock, in_collect, mapped, table, unswept, overlapped>>

(* smal_buffer_before_mark takes the mutex of every type that has a buffer;*)
(* then the three locks are released.                                      *)
BeforeMark_KeepList(t) ==
  /\ Goto(t, "c_before_mark", "c_mark")
  /\ \A p \in buffer_collecting : alloc_buffer_mutex[TypeOf[p]] = NoThread
  /\ WriteUnlock({"alloc", "collecting"})
  /\ UNCHANGED <<page, alloc_buffer_mutex, collect_lock, in_collect, mapped, table, lists, overlapped>>

BeforeMark(t) ==
  /\ Goto(t, "c_before_mark", "c_mark")
  /\ \A p \in buffer_collecting : alloc_buffer_mutex[TypeOf[p]] = NoThread
  /\ WriteUnlock({"alloc", "list", "collecting"})
  /\ UNCHANGED <<page, alloc_buffer_mutex, collect_lock, in_collect, mapped, table, lists, overlapped>>

(* After marking, _smal_collect_sweep_buffers.                             *)
BeginSweep(t) ==
  /\ Goto(t, "c_mark", "c_sweep")
  /\ CanWrite("collecting") /\ WriteLock("collecting", t)
  /\ unswept' = buffer_collecting
  /\ UNCHANGED <<page, alloc_buffer_mutex, collect_lock, in_collect, mapped, table,
                 buffer_list, buffer_collecting, overlapped>>

SweepKeep(t, p) ==
  /\ pc[t] = "c_sweep" /\ p \in unswept
  /\ unswept' = unswept \ {p}
  /\ UNCHANGED <<pc, page, locks, collect_lock, in_collect, mapped, table,
                 buffer_list, buffer_collecting, overlapped>>

(* smal_buffer_free and smal_buffer_table_remove: the page leaves the table*)
(* and the list; if it was an extreme one the range becomes invalid.       *)
SweepFree_NoUnlink(t, p) ==
  /\ Goto(t, "c_sweep", "c_stop")
  /\ p \in unswept \ Pinned
  /\ CanWrite("table")
  /\ buffer_table' = buffer_table \ {p}
  /\ page_id_min_max_valid' = (page_id_min_max_valid /\ p \notin {page_id_min, page_id_max})
  /\ unswept' = unswept \ {p}
  /\ page' = [page EXCEPT ![t] = p]
  /\ UNCHANGED <<locks, collect_lock, in_collect, mapped, page_id_min, page_id_max,
                 buffer_list, buffer_collecting, overlapped>>

SweepFree(t, p) ==
  /\ Goto(t, "c_sweep", "c_stop")
  /\ p \in unswept \ Pinned
  /\ CanWrite("table")
  /\ buffer_table' = buffer_table \ {p}
  /\ page_id_min_max_valid' = (page_id_min_max_valid /\ p \notin {page_id_min, page_id_max})
  /\ unswept' = unswept \ {p}
  /\ buffer_collecting' = buffer_collecting \ {p}
  /\ page' = [page EXCEPT ![t] = p]
  /\ UNCHANGED <<locks, collect_lock, in_collect, mapped, page_id_min, page_id_max,
                 buffer_list, overlapped>>

(* smal_buffer_stop_allocations takes the mutex of the page's type; the    *)
(* page is unmapped at the end.                                            *)
StopAllocations(t) ==
  /\ Goto(t, "c_stop", "c_sweep")
  /\ alloc_buffer_mutex[TypeOf[page[t]]] = NoThread
  /\ mapped' = mapped \ {page[t]}
  /\ page' = [page EXCEPT ![t] = 0]
  /\ UNCHANGED <<locks, collect_lock, in_collect, table, lists, overlapped>>

(* The remaining buffers go back to buffer_list.                           *)
EndSweep(t) ==
  /\ Goto(t, "c_sweep", "c_end")
  /\ unswept = {}
  /\ CanWrite("list")
  /\ buffer_list' = buffer_list \cup buffer_collecting
  /\ buffer_collecting' = {}
  /\ WriteUnlock({"collecting"})
  /\ UNCHANGED <<page, alloc_buffer_mutex, collect_lock, in_collect, mapped, table, unswept, overlapped>>

(* in_collect is reset before the callback smal_collect_after_sweep, the   *)
(* lock released after it.                                                 *)
EndCollect(t) ==
  /\ Goto(t, "c_end", "c_unlock")
  /\ in_collect' = in_collect - 1
  /\ UNCHANGED <<page, locks, collect_lock, mapped, table, lists, overlapped>>

CollectUnlock(t) ==
  /\ Goto(t, "c_unlock", "idle")
  /\ collect_lock' = collect_lock - 1
  /\ UNCHANGED <<page, locks, in_collect, mapped, table, lists, overlapped>>

-----------------------------------------------------------------------------
(* Enumerating.  During a collection smal_each_object aborts the program,  *)
(* so the program calls it only outside one; in_collect is tested without  *)
(* a lock, so that another thread may begin one right after the test.      *)
smal_each_object(t) ==
  /\ in_collect = 0
  /\ Goto(t, "idle", "e_alloc")
  /\ UNCHANGED <<page, locks, collect_lock, in_collect, mapped, table, lists, overlapped>>

EachBegins(t) ==
  /\ Goto(t, "e_alloc", "e_list")
  /\ CanRead("alloc") /\ ReadLock("alloc", t)
  /\ UNCHANGED <<page, alloc_buffer_mutex, collect_lock, in_collect, mapped, table, lists, overlapped>>

(* The walk of buffer_list; a negative result of the function ends it all. *)
EachList(t) ==
  /\ CanRead("list")
  /\ \/ Goto(t, "e_list", "e_collecting") /\ UNCHANGED rw
     \/ Goto(t, "e_list", "idle") /\ ReadUnlock("alloc", t)
  /\ UNCHANGED <<page, alloc_buffer_mutex, collect_lock, in_collect, mapped, table, lists, overlapped>>

(* The walk of buffer_collecting. *)
EachCollecting(t) ==
  /\ Goto(t, "e_collecting", "idle")
  /\ CanRead("collecting")
  /\ ReadUnlock("alloc", t)
  /\ UNCHANGED <<page, alloc_buffer_mutex, collect_lock, in_collect, mapped, table, lists, overlapped>>

-----------------------------------------------------------------------------
Call(t) == smal_alloc_p(t) \/ smal_collect(t) \/ smal_each_object(t)

Step(t) ==
  \/ \E p \in Pages : MapPage(t, p)
  \/ MapFails(t)
  \/ TableAdd(t) \/ TableAddStale(t) \/ ScanList(t) \/ ScanCollecting(t)
  \/ Rehash(t) \/ ListInsert(t) \/ AllocReturns(t)
  \/ CollectLock(t) \/ StopAllocators(t) \/ LockList(t) \/ MoveToCollecting(t)
  \/ BeforeMark(t) \/ BeginSweep(t)
  \/ \E p \in Pages : SweepKeep(t, p) \/ SweepFree(t, p)
  \/ StopAllocations(t) \/ EndSweep(t) \/ EndCollect(t) \/ CollectUnlock(t)
  \/ EachBegins(t) \/ EachList(t) \/ EachCollecting(t)

Next == \E t \in Threads : Call(t) \/ Step(t)

Spec == Init /\ [][Next]_vars

-----------------------------------------------------------------------------
(* Two threads never collect at once.                                      *)
OneCollector ==
  \A t, u \in Threads : pc[t] \in Collecting /\ pc[u] \in Collecting => t = u

(* "the table is guaranteed to be non-colliding" (README): no assertion of *)
(* smal_buffer_table_add fails while it moves the entries to the new table.*)
NoCollision ==
  \A t \in Threads : pc[t] = "a_rehash" =>
    \A p, q \in buffer_table \cup {page[t]} :
      p % buffer_table_size = q % buffer_table_size => p = q /\ page[t] \notin buffer_table

(* Every buffer in the table is in exactly one of the two lists, unless a  *)
(* thread is about to insert it, and the lists have no others: what        *)
(* smal_ptr_to_buffer finds is what collections walk.                      *)
ListsAgreeWithTable ==
  /\ buffer_list \cap buffer_collecting = {}
  /\ buffer_list \cup buffer_collecting =
       buffer_table \ {page[t] : t \in {u \in Threads : pc[u] = "a_insert"}}

(* A collection takes every buffer there is: none is being added when      *)
(* before_mark runs.                                                       *)
CollectsAll ==
  \A t \in Threads : pc[t] = "c_before_mark" =>
    buffer_collecting = buffer_table /\ buffer_list = {}

(* The lock a thread has to take to go on: for reading, for writing, and   *)
(* the pages of whose types it has to take the mutex.  A thread that can   *)
(* go on in another way (map a page for another type, keep a page) needs   *)
(* none.                                                                   *)
NeedsRead(t, l) ==
  \/ l = "alloc" /\ pc[t] = "e_alloc"
  \/ l = "list" /\ pc[t] \in {"a_list", "e_list"}
  \/ l = "collecting" /\ pc[t] \in {"a_collecting", "e_collecting"}

NeedsWrite(t, l) ==
  \/ l = "alloc" /\ pc[t] = "c_alloc"
  \/ l = "table" /\ pc[t] = "a_table"
  \/ l = "list" /\ pc[t] \in {"a_insert", "c_list"}
  \/ l = "list" /\ pc[t] = "c_sweep" /\ unswept = {}
  \/ l = "collecting" /\ pc[t] \in {"c_collecting", "c_mark"}

NeedsMutex(t, p) ==
  \/ pc[t] = "c_stop" /\ p = page[t]
  \/ pc[t] = "c_before_mark" /\ p \in buffer_collecting
  \/ /\ pc[t] = "a_mutex" /\ p \notin mapped
     /\ \A q \in Pages \ mapped : alloc_buffer_mutex[TypeOf[q]] # NoThread

(* Thread u holds a lock that t has to take.                               *)
WaitsFor(t, u) ==
  \/ \E l \in RWLocks : NeedsRead(t, l) /\ rw[l].writer = u
  \/ \E l \in RWLocks : NeedsWrite(t, l) /\ u \in rw[l].readers \cup {rw[l].writer}
  \/ \E p \in Pages : NeedsMutex(t, p) /\ alloc_buffer_mutex[TypeOf[p]] = u

(* Threads do not wait for each other in a circle: among any threads one   *)
(* waits for none of them.                                                 *)
NoDeadlock ==
  \A S \in SUBSET Threads : S # {} => \E t \in S : \A u \in S : ~ WaitsFor(t, u)

(* A thread that is in smal and cannot go on waits for another one: never  *)
(* for itself, since no lock is taken twice or left behind, and never for  *)
(* nothing.  With NoDeadlock, one of the threads in smal can always go on. *)
BlockedByAnother ==
  \A t \in Threads : pc[t] # "idle" /\ ~ ENABLED Step(t) =>
    \E u \in Threads \ {t} : pc[u] # "idle" /\ WaitsFor(t, u)

(* Both hold as long as no page is added while a collection runs.          *)
QuietNoCollision == ~ overlapped => NoCollision
QuietNoDeadlock  == ~ overlapped => NoDeadlock

(* Table, lists and locks do what BufferRegistry promises.                 *)
Registry == INSTANCE BufferRegistry WITH
  buffers    <- buffer_table,
  collectors <- {t \in Threads : pc[t] \in {"c_before_mark", "c_mark", "c_sweep", "c_stop"}},
  taken      <- buffer_collecting
RegistrySpec == Registry!Spec

(* The collection lock is taken only while a thread collects; it can be    *)
(* taken again later.  False: see the findings.                            *)
CollectLockReleased ==
  collect_lock # 0 => \E t \in Threads : pc[t] \in Collecting
=============================================================================
