------------------------- MODULE SmalThreadsProofs --------------------------
(***************************************************************************)
(* For any number of threads and pages: one collector at a time, every     *)
(* buffer of the table in exactly one list, collections that take all      *)
(* buffers; as long as no page is added while a collection runs, a table   *)
(* in which no two pages meet, and no deadlock.  Table, lists and locks    *)
(* implement BufferRegistry.                                               *)
(***************************************************************************)
EXTENDS SmalThreads, FiniteSetTheorems, TLAPS

Typed ==
  /\ pc \in [Threads -> {"idle", "c_lock"} \cup Adding \cup Walking \cup Collecting]
  /\ page \in [Threads -> Pages \cup {0}]
  /\ rw \in [RWLocks -> [readers : SUBSET Threads, writer : Threads \cup {NoThread}]]
  /\ collect_lock \in Nat
  /\ buffer_table \subseteq mapped
  /\ unswept \subseteq buffer_collecting

(* Who collects has the collection lock counted up. *)
LockCounted == \A t \in Threads : pc[t] \in Collecting => collect_lock # 0

(* Where the read-write locks are held. *)
ReadsAlloc   == Adding \cup {"e_list", "e_collecting"}
WritesAlloc  == {"c_list", "c_collecting", "c_before_mark"}
WritesTable  == {"a_list", "a_collecting", "a_rehash"}
WritesList   == {"c_collecting", "c_before_mark"}
WritesCollecting == {"c_before_mark", "c_sweep", "c_stop"}

Writes(l, places) == \A t \in Threads : rw[l].writer = t <=> pc[t] \in places

LocksHeld ==
  /\ rw["alloc"].readers = {t \in Threads : pc[t] \in ReadsAlloc}
  /\ rw["alloc"].writer # NoThread => rw["alloc"].readers = {}
  /\ \A l \in {"table", "list", "collecting"} : rw[l].readers = {}
  /\ Writes("alloc", WritesAlloc)
  /\ Writes("table", WritesTable)
  /\ Writes("list", WritesList)
  /\ Writes("collecting", WritesCollecting)

(* The page a thread adds or frees is its own; it enters the table at the  *)
(* rehash and leaves it when it is freed.                                  *)
Entering == {"a_table", "a_list", "a_collecting", "a_rehash"}
Owning   == Entering \cup {"a_insert", "c_stop"}

PagesOwned ==
  /\ \A t \in Threads : pc[t] \in Owning => page[t] \in mapped
  /\ \A t \in Threads : pc[t] \in Entering \cup {"c_stop"} => page[t] \notin buffer_table
  /\ \A t \in Threads : pc[t] = "a_insert" => page[t] \in buffer_table
  /\ \A t, u \in Threads : pc[t] \in Owning /\ pc[u] \in Owning /\ page[t] = page[u] => t = u

(* While a thread holds what MoveToCollecting locked, nothing is listed    *)
(* outside buffer_collecting.                                              *)
AllMoved == \A t \in Threads : pc[t] = "c_before_mark" => buffer_list = {}

IInv ==
  /\ Typed /\ OneCollector /\ LockCounted /\ LocksHeld
  /\ PagesOwned /\ ListsAgreeWithTable /\ AllMoved

(* At the start nothing is locked, mapped or listed. *)
LEMMA InitOK == Init => IInv
<1> SUFFICES ASSUME Init PROVE IInv
  OBVIOUS
<1>. USE DEF Init, RWLocks, Adding, Walking, Collecting
<1>1. Typed
  BY ThreadsAssumption DEF Typed
<1>2. OneCollector /\ LockCounted
  BY DEF OneCollector, LockCounted
<1>3. LocksHeld
  BY ThreadsAssumption DEF LocksHeld, Writes, ReadsAlloc, WritesAlloc, WritesTable, WritesList, WritesCollecting
<1>4. PagesOwned /\ AllMoved
  BY DEF PagesOwned, AllMoved, Owning, Entering
<1>5. ListsAgreeWithTable
  BY DEF ListsAgreeWithTable
<1> QED BY <1>1, <1>2, <1>3, <1>4, <1>5 DEF IInv

-----------------------------------------------------------------------------
(* The types need that what is entered in the table is mapped, and that a  *)
(* thread that releases the collection lock has counted it.                *)
LEMMA StepTyped ==
  ASSUME IInv, [Next]_vars
  PROVE  Typed'
<1>1. CASE UNCHANGED vars
  BY <1>1 DEF IInv, vars, locks, table, lists, Typed, RWLocks, Adding, Walking, Collecting
<1>2. ASSUME NEW t \in Threads, Call(t) \/ Step(t)
      PROVE  Typed'
  <2>. USE ThreadsAssumption DEF Goto, locks, table, lists,
         Typed, RWLocks, Adding, Walking, Collecting
  <2>0. Typed
    BY DEF IInv
  <2>1. CASE smal_alloc_p(t)
    BY <2>0, <2>1 DEF smal_alloc_p, CanRead, ReadLock
  <2>2. CASE smal_collect(t)
    BY <2>0, <2>2 DEF smal_collect
  <2>3. CASE smal_each_object(t)
    BY <2>0, <2>3 DEF smal_each_object
  <2>4. ASSUME NEW p \in Pages, MapPage(t, p) PROVE Typed'
    BY <2>0, <2>4 DEF MapPage
  <2>5. CASE MapFails(t)
    BY <2>0, <2>5 DEF MapFails, ReadUnlock
  <2>6. CASE TableAdd(t)
    BY <2>0, <2>6 DEF TableAdd, CanWrite, WriteLock
  <2>7. CASE TableAddStale(t)
    BY <2>0, <2>7 DEF TableAddStale, CanWrite, WriteLock
  <2>8. CASE ScanList(t)
    BY <2>0, <2>8 DEF ScanList, CanRead
  <2>9. CASE ScanCollecting(t)
    BY <2>0, <2>9 DEF ScanCollecting, CanRead
  <2>10. CASE Rehash(t)
    BY <2>0, <2>10 DEF Rehash, WriteUnlock, IInv, PagesOwned, Owning, Entering
  <2>11. CASE ListInsert(t)
    BY <2>0, <2>11 DEF ListInsert, CanWrite
  <2>12. CASE AllocReturns(t)
    BY <2>0, <2>12 DEF AllocReturns, ReadUnlock
  <2>13. CASE CollectLock(t)
    BY <2>0, <2>13 DEF CollectLock
  <2>14. CASE StopAllocators(t)
    BY <2>0, <2>14 DEF StopAllocators, CanWrite, WriteLock
  <2>15. CASE LockList(t)
    BY <2>0, <2>15 DEF LockList, CanWrite, WriteLock
  <2>16. CASE MoveToCollecting(t)
    BY <2>0, <2>16 DEF MoveToCollecting, CanWrite, WriteLock
  <2>17. CASE BeforeMark(t)
    BY <2>0, <2>17 DEF BeforeMark, WriteUnlock
  <2>18. CASE BeginSweep(t)
    BY <2>0, <2>18 DEF BeginSweep, CanWrite, WriteLock
  <2>19. ASSUME NEW p \in Pages, SweepKeep(t, p) PROVE Typed'
    BY <2>0, <2>19 DEF SweepKeep
  <2>20. ASSUME NEW p \in Pages, SweepFree(t, p) PROVE Typed'
    BY <2>0, <2>20 DEF SweepFree, CanWrite
  <2>21. CASE StopAllocations(t)
    BY <2>0, <2>21 DEF StopAllocations, IInv, PagesOwned, Owning, Entering
  <2>22. CASE EndSweep(t)
    BY <2>0, <2>22 DEF EndSweep, CanWrite, WriteUnlock
  <2>23. CASE EndCollect(t)
    BY <2>0, <2>23 DEF EndCollect
  <2>24. CASE CollectUnlock(t)
    BY <2>0, <2>24 DEF CollectUnlock, IInv, LockCounted
  <2>25. CASE EachBegins(t)
    BY <2>0, <2>25 DEF EachBegins, CanRead, ReadLock
  <2>26. CASE EachList(t)
    BY <2>0, <2>26 DEF EachList, CanRead, ReadUnlock
  <2>27. CASE EachCollecting(t)
    BY <2>0, <2>27 DEF EachCollecting, CanRead, ReadUnlock
  <2> QED BY <1>2, <2>1, <2>2, <2>3, <2>4, <2>5, <2>6, <2>7, <2>8, <2>9, <2>10, <2>11, <2>12, <2>13,
                <2>14, <2>15, <2>16, <2>17, <2>18, <2>19, <2>20, <2>21, <2>22, <2>23, <2>24, <2>25, <2>26, <2>27 DEF Call, Step
<1> QED BY <1>1, <1>2 DEF Next

(* A thread begins only when the count is 0, and then nobody collects.     *)
LEMMA StepOneCollector ==
  ASSUME IInv, [Next]_vars
  PROVE  (OneCollector /\ LockCounted)'
<1>1. CASE UNCHANGED vars
  BY <1>1 DEF IInv, vars, locks, table, lists, OneCollector, LockCounted, Typed, Adding, Walking, Collecting
<1>2. ASSUME NEW t \in Threads, Call(t) \/ Step(t)
      PROVE  (OneCollector /\ LockCounted)'
  <2>. USE ThreadsAssumption DEF Goto, locks, table, lists,
         OneCollector, LockCounted, Typed, Adding, Walking, Collecting
  <2>0. OneCollector /\ LockCounted /\ Typed
    BY DEF IInv
  <2>1. CASE smal_alloc_p(t)
    BY <2>0, <2>1 DEF smal_alloc_p, CanRead, ReadLock
  <2>2. CASE smal_collect(t)
    BY <2>0, <2>2 DEF smal_collect
  <2>3. CASE smal_each_object(t)
    BY <2>0, <2>3 DEF smal_each_object
  <2>4. ASSUME NEW p \in Pages, MapPage(t, p) PROVE (OneCollector /\ LockCounted)'
    BY <2>0, <2>4 DEF MapPage
  <2>5. CASE MapFails(t)
    BY <2>0, <2>5 DEF MapFails, ReadUnlock
  <2>6. CASE TableAdd(t)
    BY <2>0, <2>6 DEF TableAdd, CanWrite, WriteLock
  <2>7. CASE TableAddStale(t)
    BY <2>0, <2>7 DEF TableAddStale, CanWrite, WriteLock
  <2>8. CASE ScanList(t)
    BY <2>0, <2>8 DEF ScanList, CanRead
  <2>9. CASE ScanCollecting(t)
    BY <2>0, <2>9 DEF ScanCollecting, CanRead
  <2>10. CASE Rehash(t)
    BY <2>0, <2>10 DEF Rehash, WriteUnlock
  <2>11. CASE ListInsert(t)
    BY <2>0, <2>11 DEF ListInsert, CanWrite
  <2>12. CASE AllocReturns(t)
    BY <2>0, <2>12 DEF AllocReturns, ReadUnlock
  <2>13. CASE CollectLock(t)
    BY <2>0, <2>13 DEF CollectLock
  <2>14. CASE StopAllocators(t)
    BY <2>0, <2>14 DEF StopAllocators, CanWrite, WriteLock
  <2>15. CASE LockList(t)
    BY <2>0, <2>15 DEF LockList, CanWrite, WriteLock
  <2>16. CASE MoveToCollecting(t)
    BY <2>0, <2>16 DEF MoveToCollecting, CanWrite, WriteLock
  <2>17. CASE BeforeMark(t)
    BY <2>0, <2>17 DEF BeforeMark, WriteUnlock
  <2>18. CASE BeginSweep(t)
    BY <2>0, <2>18 DEF BeginSweep, CanWrite, WriteLock
  <2>19. ASSUME NEW p \in Pages, SweepKeep(t, p) PROVE (OneCollector /\ LockCounted)'
    BY <2>0, <2>19 DEF SweepKeep
  <2>20. ASSUME NEW p \in Pages, SweepFree(t, p) PROVE (OneCollector /\ LockCounted)'
    BY <2>0, <2>20 DEF SweepFree, CanWrite
  <2>21. CASE StopAllocations(t)
    BY <2>0, <2>21 DEF StopAllocations
  <2>22. CASE EndSweep(t)
    BY <2>0, <2>22 DEF EndSweep, CanWrite, WriteUnlock
  <2>23. CASE EndCollect(t)
    BY <2>0, <2>23 DEF EndCollect
  <2>24. CASE CollectUnlock(t)
    BY <2>0, <2>24 DEF CollectUnlock
  <2>25. CASE EachBegins(t)
    BY <2>0, <2>25 DEF EachBegins, CanRead, ReadLock
  <2>26. CASE EachList(t)
    BY <2>0, <2>26 DEF EachList, CanRead, ReadUnlock
  <2>27. CASE EachCollecting(t)
    BY <2>0, <2>27 DEF EachCollecting, CanRead, ReadUnlock
  <2> QED BY <1>2, <2>1, <2>2, <2>3, <2>4, <2>5, <2>6, <2>7, <2>8, <2>9, <2>10, <2>11, <2>12, <2>13,
                <2>14, <2>15, <2>16, <2>17, <2>18, <2>19, <2>20, <2>21, <2>22, <2>23, <2>24, <2>25, <2>26, <2>27 DEF Call, Step
<1> QED BY <1>1, <1>2 DEF Next

(* Every step keeps the locks in agreement with the places of the threads. *)
LEMMA StepLocks ==
  ASSUME IInv, [Next]_vars
  PROVE  LocksHeld'
<1>1. CASE UNCHANGED vars
  BY <1>1 DEF IInv, vars, locks, table, lists, Typed, RWLocks, OneCollector, Adding, Walking, Collecting,
         LocksHeld, Writes, ReadsAlloc, WritesAlloc, WritesTable, WritesList, WritesCollecting
<1>2. ASSUME NEW t \in Threads, Call(t) \/ Step(t)
      PROVE  LocksHeld'
  <2>. USE ThreadsAssumption DEF Goto, locks, table, lists,
         Typed, RWLocks, OneCollector, Adding, Walking, Collecting,
         LocksHeld, Writes, ReadsAlloc, WritesAlloc, WritesTable, WritesList, WritesCollecting
  <2>0. LocksHeld /\ Typed /\ OneCollector
    BY DEF IInv
  <2>1. CASE smal_alloc_p(t)
    BY <2>0, <2>1 DEF smal_alloc_p, CanRead, ReadLock
  <2>2. CASE smal_collect(t)
    BY <2>0, <2>2 DEF smal_collect
  <2>3. CASE smal_each_object(t)
    BY <2>0, <2>3 DEF smal_each_object
  <2>4. ASSUME NEW p \in Pages, MapPage(t, p) PROVE LocksHeld'
    BY <2>0, <2>4 DEF MapPage
  <2>5. CASE MapFails(t)
    BY <2>0, <2>5 DEF MapFails, ReadUnlock
  <2>6. CASE TableAdd(t)
    BY <2>0, <2>6 DEF TableAdd, CanWrite, WriteLock
  <2>7. CASE TableAddStale(t)
    BY <2>0, <2>7 DEF TableAddStale, CanWrite, WriteLock
  <2>8. CASE ScanList(t)
    BY <2>0, <2>8 DEF ScanList, CanRead
  <2>9. CASE ScanCollecting(t)
    BY <2>0, <2>9 DEF ScanCollecting, CanRead
  <2>10. CASE Rehash(t)
    BY <2>0, <2>10 DEF Rehash, WriteUnlock
  <2>11. CASE ListInsert(t)
    BY <2>0, <2>11 DEF ListInsert, CanWrite
  <2>12. CASE AllocReturns(t)
    BY <2>0, <2>12 DEF AllocReturns, ReadUnlock
  <2>13. CASE CollectLock(t)
    BY <2>0, <2>13 DEF CollectLock
  <2>14. CASE StopAllocators(t)
    BY <2>0, <2>14 DEF StopAllocators, CanWrite, WriteLock
  <2>15. CASE LockList(t)
    BY <2>0, <2>15 DEF LockList, CanWrite, WriteLock
  <2>16. CASE MoveToCollecting(t)
    BY <2>0, <2>16 DEF MoveToCollecting, CanWrite, WriteLock
  <2>17. CASE BeforeMark(t)
    BY <2>0, <2>17 DEF BeforeMark, WriteUnlock
  <2>18. CASE BeginSweep(t)
    BY <2>0, <2>18 DEF BeginSweep, CanWrite, WriteLock
  <2>19. ASSUME NEW p \in Pages, SweepKeep(t, p) PROVE LocksHeld'
    BY <2>0, <2>19 DEF SweepKeep
  <2>20. ASSUME NEW p \in Pages, SweepFree(t, p) PROVE LocksHeld'
    BY <2>0, <2>20 DEF SweepFree, CanWrite
  <2>21. CASE StopAllocations(t)
    BY <2>0, <2>21 DEF StopAllocations
  <2>22. CASE EndSweep(t)
    BY <2>0, <2>22 DEF EndSweep, CanWrite, WriteUnlock
  <2>23. CASE EndCollect(t)
    BY <2>0, <2>23 DEF EndCollect
  <2>24. CASE CollectUnlock(t)
    BY <2>0, <2>24 DEF CollectUnlock
  <2>25. CASE EachBegins(t)
    BY <2>0, <2>25 DEF EachBegins, CanRead, ReadLock
  <2>26. CASE EachList(t)
    BY <2>0, <2>26 DEF EachList, CanRead, ReadUnlock
  <2>27. CASE EachCollecting(t)
    BY <2>0, <2>27 DEF EachCollecting, CanRead, ReadUnlock
  <2> QED BY <1>2, <2>1, <2>2, <2>3, <2>4, <2>5, <2>6, <2>7, <2>8, <2>9, <2>10, <2>11, <2>12, <2>13,
                <2>14, <2>15, <2>16, <2>17, <2>18, <2>19, <2>20, <2>21, <2>22, <2>23, <2>24, <2>25, <2>26, <2>27 DEF Call, Step
<1> QED BY <1>1, <1>2 DEF Next

(* A page that is mapped anew is in nobody's hands and not in the table.   *)
LEMMA StepPages ==
  ASSUME IInv, [Next]_vars
  PROVE  PagesOwned'
<1>1. CASE UNCHANGED vars
  BY <1>1 DEF IInv, vars, locks, table, lists, Typed, PagesOwned, Owning, Entering, ListsAgreeWithTable, OneCollector,
         Adding, Walking, Collecting
<1>2. ASSUME NEW t \in Threads, Call(t) \/ Step(t)
      PROVE  PagesOwned'
  <2>. USE ThreadsAssumption DEF Goto, locks, table, lists,
         Typed, PagesOwned, Owning, Entering, ListsAgreeWithTable, OneCollector,
         Adding, Walking, Collecting
  <2>0. PagesOwned /\ Typed /\ ListsAgreeWithTable /\ OneCollector
    BY DEF IInv
  <2>1. CASE smal_alloc_p(t)
    BY <2>0, <2>1 DEF smal_alloc_p, CanRead, ReadLock
  <2>2. CASE smal_collect(t)
    BY <2>0, <2>2 DEF smal_collect
  <2>3. CASE smal_each_object(t)
    BY <2>0, <2>3 DEF smal_each_object
  <2>4. ASSUME NEW p \in Pages, MapPage(t, p) PROVE PagesOwned'
    BY <2>0, <2>4 DEF MapPage
  <2>5. CASE MapFails(t)
    BY <2>0, <2>5 DEF MapFails, ReadUnlock
  <2>6. CASE TableAdd(t)
    BY <2>0, <2>6 DEF TableAdd, CanWrite, WriteLock
  <2>7. CASE TableAddStale(t)
    BY <2>0, <2>7 DEF TableAddStale, CanWrite, WriteLock
  <2>8. CASE ScanList(t)
    BY <2>0, <2>8 DEF ScanList, CanRead
  <2>9. CASE ScanCollecting(t)
    BY <2>0, <2>9 DEF ScanCollecting, CanRead
  <2>10. CASE Rehash(t)
    BY <2>0, <2>10 DEF Rehash, WriteUnlock
  <2>11. CASE ListInsert(t)
    BY <2>0, <2>11 DEF ListInsert, CanWrite
  <2>12. CASE AllocReturns(t)
    BY <2>0, <2>12 DEF AllocReturns, ReadUnlock
  <2>13. CASE CollectLock(t)
    BY <2>0, <2>13 DEF CollectLock
  <2>14. CASE StopAllocators(t)
    BY <2>0, <2>14 DEF StopAllocators, CanWrite, WriteLock
  <2>15. CASE LockList(t)
    BY <2>0, <2>15 DEF LockList, CanWrite, WriteLock
  <2>16. CASE MoveToCollecting(t)
    BY <2>0, <2>16 DEF MoveToCollecting, CanWrite, WriteLock
  <2>17. CASE BeforeMark(t)
    BY <2>0, <2>17 DEF BeforeMark, WriteUnlock
  <2>18. CASE BeginSweep(t)
    BY <2>0, <2>18 DEF BeginSweep, CanWrite, WriteLock
  <2>19. ASSUME NEW p \in Pages, SweepKeep(t, p) PROVE PagesOwned'
    BY <2>0, <2>19 DEF SweepKeep
  <2>20. ASSUME NEW p \in Pages, SweepFree(t, p) PROVE PagesOwned'
    BY <2>0, <2>20 DEF SweepFree, CanWrite
  <2>21. CASE StopAllocations(t)
    BY <2>0, <2>21 DEF StopAllocations
  <2>22. CASE EndSweep(t)
    BY <2>0, <2>22 DEF EndSweep, CanWrite, WriteUnlock
  <2>23. CASE EndCollect(t)
    BY <2>0, <2>23 DEF EndCollect
  <2>24. CASE CollectUnlock(t)
    BY <2>0, <2>24 DEF CollectUnlock
  <2>25. CASE EachBegins(t)
    BY <2>0, <2>25 DEF EachBegins, CanRead, ReadLock
  <2>26. CASE EachList(t)
    BY <2>0, <2>26 DEF EachList, CanRead, ReadUnlock
  <2>27. CASE EachCollecting(t)
    BY <2>0, <2>27 DEF EachCollecting, CanRead, ReadUnlock
  <2> QED BY <1>2, <2>1, <2>2, <2>3, <2>4, <2>5, <2>6, <2>7, <2>8, <2>9, <2>10, <2>11, <2>12, <2>13,
                <2>14, <2>15, <2>16, <2>17, <2>18, <2>19, <2>20, <2>21, <2>22, <2>23, <2>24, <2>25, <2>26, <2>27 DEF Call, Step
<1> QED BY <1>1, <1>2 DEF Next

(* Every step keeps each buffer of the table in exactly one list. *)
LEMMA StepLists ==
  ASSUME IInv, [Next]_vars
  PROVE  ListsAgreeWithTable'
<1>1. CASE UNCHANGED vars
  BY <1>1 DEF IInv, vars, locks, table, lists, Typed, PagesOwned, Owning, Entering, ListsAgreeWithTable,
         Adding, Walking, Collecting
<1>2. ASSUME NEW t \in Threads, Call(t) \/ Step(t)
      PROVE  ListsAgreeWithTable'
  <2>. USE ThreadsAssumption DEF Goto, locks, table, lists,
         Typed, PagesOwned, Owning, Entering, ListsAgreeWithTable,
         Adding, Walking, Collecting
  <2>0. PagesOwned /\ Typed /\ ListsAgreeWithTable
    BY DEF IInv
  <2>1. CASE smal_alloc_p(t)
    BY <2>0, <2>1 DEF smal_alloc_p, CanRead, ReadLock
  <2>2. CASE smal_collect(t)
    BY <2>0, <2>2 DEF smal_collect
  <2>3. CASE smal_each_object(t)
    BY <2>0, <2>3 DEF smal_each_object
  <2>4. ASSUME NEW p \in Pages, MapPage(t, p) PROVE ListsAgreeWithTable'
    BY <2>0, <2>4 DEF MapPage
  <2>5. CASE MapFails(t)
    BY <2>0, <2>5 DEF MapFails, ReadUnlock
  <2>6. CASE TableAdd(t)
    BY <2>0, <2>6 DEF TableAdd, CanWrite, WriteLock
  <2>7. CASE TableAddStale(t)
    BY <2>0, <2>7 DEF TableAddStale, CanWrite, WriteLock
  <2>8. CASE ScanList(t)
    BY <2>0, <2>8 DEF ScanList, CanRead
  <2>9. CASE ScanCollecting(t)
    BY <2>0, <2>9 DEF ScanCollecting, CanRead
  <2>10. CASE Rehash(t)
    BY <2>0, <2>10 DEF Rehash, WriteUnlock
  <2>11. CASE ListInsert(t)
    BY <2>0, <2>11 DEF ListInsert, CanWrite
  <2>12. CASE AllocReturns(t)
    BY <2>0, <2>12 DEF AllocReturns, ReadUnlock
  <2>13. CASE CollectLock(t)
    BY <2>0, <2>13 DEF CollectLock
  <2>14. CASE StopAllocators(t)
    BY <2>0, <2>14 DEF StopAllocators, CanWrite, WriteLock
  <2>15. CASE LockList(t)
    BY <2>0, <2>15 DEF LockList, CanWrite, WriteLock
  <2>16. CASE MoveToCollecting(t)
    BY <2>0, <2>16 DEF MoveToCollecting, CanWrite, WriteLock
  <2>17. CASE BeforeMark(t)
    BY <2>0, <2>17 DEF BeforeMark, WriteUnlock
  <2>18. CASE BeginSweep(t)
    BY <2>0, <2>18 DEF BeginSweep, CanWrite, WriteLock
  <2>19. ASSUME NEW p \in Pages, SweepKeep(t, p) PROVE ListsAgreeWithTable'
    BY <2>0, <2>19 DEF SweepKeep
  <2>20. ASSUME NEW p \in Pages, SweepFree(t, p) PROVE ListsAgreeWithTable'
    BY <2>0, <2>20 DEF SweepFree, CanWrite
  <2>21. CASE StopAllocations(t)
    BY <2>0, <2>21 DEF StopAllocations
  <2>22. CASE EndSweep(t)
    BY <2>0, <2>22 DEF EndSweep, CanWrite, WriteUnlock
  <2>23. CASE EndCollect(t)
    BY <2>0, <2>23 DEF EndCollect
  <2>24. CASE CollectUnlock(t)
    BY <2>0, <2>24 DEF CollectUnlock
  <2>25. CASE EachBegins(t)
    BY <2>0, <2>25 DEF EachBegins, CanRead, ReadLock
  <2>26. CASE EachList(t)
    BY <2>0, <2>26 DEF EachList, CanRead, ReadUnlock
  <2>27. CASE EachCollecting(t)
    BY <2>0, <2>27 DEF EachCollecting, CanRead, ReadUnlock
  <2> QED BY <1>2, <2>1, <2>2, <2>3, <2>4, <2>5, <2>6, <2>7, <2>8, <2>9, <2>10, <2>11, <2>12, <2>13,
                <2>14, <2>15, <2>16, <2>17, <2>18, <2>19, <2>20, <2>21, <2>22, <2>23, <2>24, <2>25, <2>26, <2>27 DEF Call, Step
<1> QED BY <1>1, <1>2 DEF Next

(* No thread can insert or move a buffer while alloc_lock is held for      *)
(* writing.                                                                *)
LEMMA StepAllMoved ==
  ASSUME IInv, [Next]_vars
  PROVE  AllMoved'
<1>1. CASE UNCHANGED vars
  BY <1>1 DEF IInv, vars, locks, table, lists, Typed, AllMoved, OneCollector, Adding, Walking, Collecting,
         LocksHeld, Writes, ReadsAlloc, WritesAlloc, WritesTable, WritesList, WritesCollecting
<1>2. ASSUME NEW t \in Threads, Call(t) \/ Step(t)
      PROVE  AllMoved'
  <2>. USE ThreadsAssumption DEF Goto, locks, table, lists,
         Typed, AllMoved, OneCollector, Adding, Walking, Collecting,
         LocksHeld, Writes, ReadsAlloc, WritesAlloc, WritesTable, WritesList, WritesCollecting
  <2>0. AllMoved /\ Typed /\ LocksHeld /\ OneCollector
    BY DEF IInv
  <2>1. CASE smal_alloc_p(t)
    BY <2>0, <2>1 DEF smal_alloc_p, CanRead, ReadLock
  <2>2. CASE smal_collect(t)
    BY <2>0, <2>2 DEF smal_collect
  <2>3. CASE smal_each_object(t)
    BY <2>0, <2>3 DEF smal_each_object
  <2>4. ASSUME NEW p \in Pages, MapPage(t, p) PROVE AllMoved'
    BY <2>0, <2>4 DEF MapPage
  <2>5. CASE MapFails(t)
    BY <2>0, <2>5 DEF MapFails, ReadUnlock
  <2>6. CASE TableAdd(t)
    BY <2>0, <2>6 DEF TableAdd, CanWrite, WriteLock
  <2>7. CASE TableAddStale(t)
    BY <2>0, <2>7 DEF TableAddStale, CanWrite, WriteLock
  <2>8. CASE ScanList(t)
    BY <2>0, <2>8 DEF ScanList, CanRead
  <2>9. CASE ScanCollecting(t)
    BY <2>0, <2>9 DEF ScanCollecting, CanRead
  <2>10. CASE Rehash(t)
    BY <2>0, <2>10 DEF Rehash, WriteUnlock
  <2>11. CASE ListInsert(t)
    BY <2>0, <2>11 DEF ListInsert, CanWrite
  <2>12. CASE AllocReturns(t)
    BY <2>0, <2>12 DEF AllocReturns, ReadUnlock
  <2>13. CASE CollectLock(t)
    BY <2>0, <2>13 DEF CollectLock
  <2>14. CASE StopAllocators(t)
    BY <2>0, <2>14 DEF StopAllocators, CanWrite, WriteLock
  <2>15. CASE LockList(t)
    BY <2>0, <2>15 DEF LockList, CanWrite, WriteLock
  <2>16. CASE MoveToCollecting(t)
    BY <2>0, <2>16 DEF MoveToCollecting, CanWrite, WriteLock
  <2>17. CASE BeforeMark(t)
    BY <2>0, <2>17 DEF BeforeMark, WriteUnlock
  <2>18. CASE BeginSweep(t)
    BY <2>0, <2>18 DEF BeginSweep, CanWrite, WriteLock
  <2>19. ASSUME NEW p \in Pages, SweepKeep(t, p) PROVE AllMoved'
    BY <2>0, <2>19 DEF SweepKeep
  <2>20. ASSUME NEW p \in Pages, SweepFree(t, p) PROVE AllMoved'
    BY <2>0, <2>20 DEF SweepFree, CanWrite
  <2>21. CASE StopAllocations(t)
    BY <2>0, <2>21 DEF StopAllocations
  <2>22. CASE EndSweep(t)
    BY <2>0, <2>22 DEF EndSweep, CanWrite, WriteUnlock
  <2>23. CASE EndCollect(t)
    BY <2>0, <2>23 DEF EndCollect
  <2>24. CASE CollectUnlock(t)
    BY <2>0, <2>24 DEF CollectUnlock
  <2>25. CASE EachBegins(t)
    BY <2>0, <2>25 DEF EachBegins, CanRead, ReadLock
  <2>26. CASE EachList(t)
    BY <2>0, <2>26 DEF EachList, CanRead, ReadUnlock
  <2>27. CASE EachCollecting(t)
    BY <2>0, <2>27 DEF EachCollecting, CanRead, ReadUnlock
  <2> QED BY <1>2, <2>1, <2>2, <2>3, <2>4, <2>5, <2>6, <2>7, <2>8, <2>9, <2>10, <2>11, <2>12, <2>13,
                <2>14, <2>15, <2>16, <2>17, <2>18, <2>19, <2>20, <2>21, <2>22, <2>23, <2>24, <2>25, <2>26, <2>27 DEF Call, Step
<1> QED BY <1>1, <1>2 DEF Next

-----------------------------------------------------------------------------
(* IInv holds in every reachable state, for any set of threads and pages. *)
THEOREM Invariant == Spec => []IInv
<1>1. IInv /\ [Next]_vars => IInv'
  <2> SUFFICES ASSUME IInv, [Next]_vars PROVE IInv'
    OBVIOUS
  <2>1. Typed' /\ (OneCollector /\ LockCounted)' /\ LocksHeld'
    BY StepTyped, StepOneCollector, StepLocks
  <2>2. PagesOwned' /\ ListsAgreeWithTable' /\ AllMoved'
    BY StepPages, StepLists, StepAllMoved
  <2> QED BY <2>1, <2>2 DEF IInv
<1> QED BY InitOK, <1>1, PTL DEF Spec

(* _smal_collect_inner_lock admits one thread at a time.                   *)
THEOREM OneThreadCollects == Spec => []OneCollector
<1>1. IInv => OneCollector
  BY DEF IInv
<1> QED BY Invariant, <1>1, PTL

(* Every buffer of buffer_table is in exactly one of the lists.            *)
THEOREM TableListed == Spec => []ListsAgreeWithTable
<1>1. IInv => ListsAgreeWithTable
  BY DEF IInv
<1> QED BY Invariant, <1>1, PTL

(* A collection takes all of the buffers: alloc_lock keeps threads from    *)
(* standing between the table and the list (492-494).                      *)
THEOREM AllCollected == Spec => []CollectsAll
<1>1. IInv => CollectsAll
  <2> SUFFICES ASSUME IInv, NEW t \in Threads, pc[t] = "c_before_mark"
               PROVE  buffer_collecting = buffer_table /\ buffer_list = {}
    BY DEF CollectsAll
  <2>1. buffer_list = {}
    BY DEF IInv, AllMoved
  <2>2. rw["alloc"].writer # NoThread
    BY ThreadsAssumption DEF IInv, LocksHeld, Writes, WritesAlloc
  <2>3. {u \in Threads : pc[u] = "a_insert"} = {}
    BY <2>2 DEF IInv, LocksHeld, ReadsAlloc, Adding
  <2> QED BY <2>1, <2>3 DEF IInv, ListsAgreeWithTable
<1> QED BY Invariant, <1>1, PTL

-----------------------------------------------------------------------------
(* The range of page ids.                                                  *)

Marking == {"c_list", "c_collecting", "c_before_mark", "c_mark", "c_sweep", "c_stop", "c_end"}

(* The other variables, and in_collect and the collection lock.         *)
Counted ==
  /\ mapped \subseteq Pages
  /\ page_id_min \in Pages \cup {0} /\ page_id_max \in Pages \cup {0}
  /\ page_id_min_max_valid \in BOOLEAN /\ overlapped \in BOOLEAN
  /\ alloc_buffer_mutex \in [Types -> Threads \cup {NoThread}]
  /\ in_collect = IF \E t \in Threads : pc[t] \in Marking THEN 1 ELSE 0

Bounded ==
  collect_lock + Cardinality({t \in Threads : pc[t] = "c_lock"})
    <= MaxCollectLock + Cardinality(Threads)

(* Buffers are in buffer_collecting only while a thread has them there.    *)
Moved ==
  buffer_collecting # {} =>
    \E t \in Threads : pc[t] \in {"c_before_mark", "c_mark", "c_sweep", "c_stop"}

(* Unless a page is added while a collection runs, a thread that adds one  *)
(* meets no collection that has begun.                                     *)
Quiet == ~ overlapped => \A t, u \in Threads : pc[t] \in Adding => pc[u] \notin Marking

(* The range covers the table, or is computed again: by one thread, while  *)
(* no other is between the table and the list.                             *)
InRange(S) == \A p \in S : page_id_min <= p /\ p <= page_id_max

RangeOK ==
  ~ overlapped =>
    /\ page_id_min_max_valid => InRange(buffer_table)
    /\ \A t \in Threads :
         /\ pc[t] \in {"a_list", "a_collecting"} => ~ page_id_min_max_valid
         /\ pc[t] \in {"a_rehash", "a_insert"} => page_id_min_max_valid
         /\ pc[t] \in {"a_list", "a_collecting", "a_rehash"} => InRange({page[t]})
         /\ pc[t] = "a_collecting" => InRange(buffer_list)

RangeInv == IInv /\ Counted /\ Bounded /\ Moved /\ Quiet /\ RangeOK

(* The buffers of the lists are mapped. *)
LEMMA Listed ==
  ASSUME RangeInv
  PROVE  buffer_list \cup buffer_collecting \subseteq Pages /\ buffer_table \subseteq Pages
BY DEF RangeInv, IInv, Counted, Typed, ListsAgreeWithTable

(* Only the thread that collects changes in_collect. *)
LEMMA StepCounted ==
  ASSUME RangeInv, [Next]_vars
  PROVE  Counted'
<1>1. CASE UNCHANGED vars
  BY <1>1 DEF RangeInv, IInv, vars, locks, table, lists, Typed, RWLocks, Adding, Walking, Collecting, Marking,
         Counted, Extend, OneCollector, LocksHeld, PagesOwned, Owning, Entering
<1>2. ASSUME NEW t \in Threads, Call(t) \/ Step(t)
      PROVE  Counted'
  <2>. USE ThreadsAssumption DEF Goto, locks, table, lists,
         Typed, RWLocks, Adding, Walking, Collecting, Marking,
         Counted, Extend, OneCollector, LocksHeld, PagesOwned, Owning, Entering
  <2>0. Counted /\ Typed /\ OneCollector /\ PagesOwned
    BY DEF RangeInv, IInv
  <2>1. CASE smal_alloc_p(t)
    BY <2>0, <2>1 DEF smal_alloc_p, CanRead, ReadLock
  <2>2. CASE smal_collect(t)
    BY <2>0, <2>2 DEF smal_collect
  <2>3. CASE smal_each_object(t)
    BY <2>0, <2>3 DEF smal_each_object
  <2>4. ASSUME NEW p \in Pages, MapPage(t, p) PROVE Counted'
    BY <2>0, <2>4 DEF MapPage
  <2>5. CASE MapFails(t)
    BY <2>0, <2>5 DEF MapFails, ReadUnlock
  <2>6. CASE TableAdd(t)
    BY <2>0, <2>6 DEF TableAdd, CanWrite, WriteLock
  <2>7. CASE TableAddStale(t)
    BY <2>0, <2>7 DEF TableAddStale, CanWrite, WriteLock
  <2>8. CASE ScanList(t)
    BY <2>0, <2>8, Listed DEF ScanList, CanRead
  <2>9. CASE ScanCollecting(t)
    BY <2>0, <2>9, Listed DEF ScanCollecting, CanRead
  <2>10. CASE Rehash(t)
    BY <2>0, <2>10 DEF Rehash, WriteUnlock
  <2>11. CASE ListInsert(t)
    BY <2>0, <2>11 DEF ListInsert, CanWrite
  <2>12. CASE AllocReturns(t)
    BY <2>0, <2>12 DEF AllocReturns, ReadUnlock
  <2>13. CASE CollectLock(t)
    BY <2>0, <2>13 DEF CollectLock
  <2>14. CASE StopAllocators(t)
    BY <2>0, <2>14 DEF StopAllocators, CanWrite, WriteLock
  <2>15. CASE LockList(t)
    BY <2>0, <2>15 DEF LockList, CanWrite, WriteLock
  <2>16. CASE MoveToCollecting(t)
    BY <2>0, <2>16 DEF MoveToCollecting, CanWrite, WriteLock
  <2>17. CASE BeforeMark(t)
    BY <2>0, <2>17 DEF BeforeMark, WriteUnlock
  <2>18. CASE BeginSweep(t)
    BY <2>0, <2>18 DEF BeginSweep, CanWrite, WriteLock
  <2>19. ASSUME NEW p \in Pages, SweepKeep(t, p) PROVE Counted'
    BY <2>0, <2>19 DEF SweepKeep
  <2>20. ASSUME NEW p \in Pages, SweepFree(t, p) PROVE Counted'
    BY <2>0, <2>20 DEF SweepFree, CanWrite
  <2>21. CASE StopAllocations(t)
    BY <2>0, <2>21 DEF StopAllocations
  <2>22. CASE EndSweep(t)
    BY <2>0, <2>22 DEF EndSweep, CanWrite, WriteUnlock
  <2>23. CASE EndCollect(t)
    BY <2>0, <2>23 DEF EndCollect
  <2>24. CASE CollectUnlock(t)
    BY <2>0, <2>24 DEF CollectUnlock
  <2>25. CASE EachBegins(t)
    BY <2>0, <2>25 DEF EachBegins, CanRead, ReadLock
  <2>26. CASE EachList(t)
    BY <2>0, <2>26 DEF EachList, CanRead, ReadUnlock
  <2>27. CASE EachCollecting(t)
    BY <2>0, <2>27 DEF EachCollecting, CanRead, ReadUnlock
  <2> QED BY <1>2, <2>1, <2>2, <2>3, <2>4, <2>5, <2>6, <2>7, <2>8, <2>9, <2>10, <2>11, <2>12, <2>13,
                <2>14, <2>15, <2>16, <2>17, <2>18, <2>19, <2>20, <2>21, <2>22, <2>23, <2>24, <2>25, <2>26, <2>27 DEF Call, Step
<1> QED BY <1>1, <1>2 DEF Next

(* It is the one that moves buffers. *)
LEMMA StepMoved ==
  ASSUME RangeInv, [Next]_vars
  PROVE  Moved'
<1>1. CASE UNCHANGED vars
  BY <1>1 DEF RangeInv, IInv, vars, locks, table, lists, Typed, RWLocks, Adding, Walking, Collecting, Marking, Moved, OneCollector
<1>2. ASSUME NEW t \in Threads, Call(t) \/ Step(t)
      PROVE  Moved'
  <2>. USE ThreadsAssumption DEF Goto, locks, table, lists,
         Typed, RWLocks, Adding, Walking, Collecting, Marking, Moved, OneCollector
  <2>0. Moved /\ Typed /\ OneCollector
    BY DEF RangeInv, IInv
  <2>1. CASE smal_alloc_p(t)
    BY <2>0, <2>1 DEF smal_alloc_p, CanRead, ReadLock
  <2>2. CASE smal_collect(t)
    BY <2>0, <2>2 DEF smal_collect
  <2>3. CASE smal_each_object(t)
    BY <2>0, <2>3 DEF smal_each_object
  <2>4. ASSUME NEW p \in Pages, MapPage(t, p) PROVE Moved'
    BY <2>0, <2>4 DEF MapPage
  <2>5. CASE MapFails(t)
    BY <2>0, <2>5 DEF MapFails, ReadUnlock
  <2>6. CASE TableAdd(t)
    BY <2>0, <2>6 DEF TableAdd, CanWrite, WriteLock
  <2>7. CASE TableAddStale(t)
    BY <2>0, <2>7 DEF TableAddStale, CanWrite, WriteLock
  <2>8. CASE ScanList(t)
    BY <2>0, <2>8 DEF ScanList, CanRead
  <2>9. CASE ScanCollecting(t)
    BY <2>0, <2>9 DEF ScanCollecting, CanRead
  <2>10. CASE Rehash(t)
    BY <2>0, <2>10 DEF Rehash, WriteUnlock
  <2>11. CASE ListInsert(t)
    BY <2>0, <2>11 DEF ListInsert, CanWrite
  <2>12. CASE AllocReturns(t)
    BY <2>0, <2>12 DEF AllocReturns, ReadUnlock
  <2>13. CASE CollectLock(t)
    BY <2>0, <2>13 DEF CollectLock
  <2>14. CASE StopAllocators(t)
    BY <2>0, <2>14 DEF StopAllocators, CanWrite, WriteLock
  <2>15. CASE LockList(t)
    BY <2>0, <2>15 DEF LockList, CanWrite, WriteLock
  <2>16. CASE MoveToCollecting(t)
    BY <2>0, <2>16 DEF MoveToCollecting, CanWrite, WriteLock
  <2>17. CASE BeforeMark(t)
    BY <2>0, <2>17 DEF BeforeMark, WriteUnlock
  <2>18. CASE BeginSweep(t)
    BY <2>0, <2>18 DEF BeginSweep, CanWrite, WriteLock
  <2>19. ASSUME NEW p \in Pages, SweepKeep(t, p) PROVE Moved'
    BY <2>0, <2>19 DEF SweepKeep
  <2>20. ASSUME NEW p \in Pages, SweepFree(t, p) PROVE Moved'
    BY <2>0, <2>20 DEF SweepFree, CanWrite
  <2>21. CASE StopAllocations(t)
    BY <2>0, <2>21 DEF StopAllocations
  <2>22. CASE EndSweep(t)
    BY <2>0, <2>22 DEF EndSweep, CanWrite, WriteUnlock
  <2>23. CASE EndCollect(t)
    BY <2>0, <2>23 DEF EndCollect
  <2>24. CASE CollectUnlock(t)
    BY <2>0, <2>24 DEF CollectUnlock
  <2>25. CASE EachBegins(t)
    BY <2>0, <2>25 DEF EachBegins, CanRead, ReadLock
  <2>26. CASE EachList(t)
    BY <2>0, <2>26 DEF EachList, CanRead, ReadUnlock
  <2>27. CASE EachCollecting(t)
    BY <2>0, <2>27 DEF EachCollecting, CanRead, ReadUnlock
  <2> QED BY <1>2, <2>1, <2>2, <2>3, <2>4, <2>5, <2>6, <2>7, <2>8, <2>9, <2>10, <2>11, <2>12, <2>13,
                <2>14, <2>15, <2>16, <2>17, <2>18, <2>19, <2>20, <2>21, <2>22, <2>23, <2>24, <2>25, <2>26, <2>27 DEF Call, Step
<1> QED BY <1>1, <1>2 DEF Next

(* alloc_lock keeps a collection from beginning while a page is added.     *)
LEMMA StepQuiet ==
  ASSUME RangeInv, [Next]_vars
  PROVE  Quiet'
<1>1. CASE UNCHANGED vars
  BY <1>1 DEF RangeInv, IInv, vars, locks, table, lists, Typed, RWLocks, Adding, Walking, Collecting, Marking,
         Quiet, Counted, LocksHeld, ReadsAlloc
<1>2. ASSUME NEW t \in Threads, Call(t) \/ Step(t)
      PROVE  Quiet'
  <2>. USE ThreadsAssumption DEF Goto, locks, table, lists,
         Typed, RWLocks, Adding, Walking, Collecting, Marking,
         Quiet, Counted, LocksHeld, ReadsAlloc
  <2>0. Quiet /\ Counted /\ Typed /\ LocksHeld
    BY DEF RangeInv, IInv
  <2>1. CASE smal_alloc_p(t)
    <3>1. ~ overlapped' => ~ overlapped /\ in_collect = 0
      BY <2>1 DEF smal_alloc_p
    <3>2. in_collect = 0 => \A u \in Threads : pc[u] \notin Marking
      BY <2>0
    <3>. QED BY <2>0, <2>1, <3>1, <3>2 DEF smal_alloc_p
  <2>2. CASE smal_collect(t)
    BY <2>0, <2>2 DEF smal_collect
  <2>3. CASE smal_each_object(t)
    BY <2>0, <2>3 DEF smal_each_object
  <2>4. ASSUME NEW p \in Pages, MapPage(t, p) PROVE Quiet'
    BY <2>0, <2>4 DEF MapPage
  <2>5. CASE MapFails(t)
    BY <2>0, <2>5 DEF MapFails, ReadUnlock
  <2>6. CASE TableAdd(t)
    BY <2>0, <2>6 DEF TableAdd, CanWrite, WriteLock
  <2>7. CASE TableAddStale(t)
    BY <2>0, <2>7 DEF TableAddStale, CanWrite, WriteLock
  <2>8. CASE ScanList(t)
    BY <2>0, <2>8 DEF ScanList, CanRead
  <2>9. CASE ScanCollecting(t)
    BY <2>0, <2>9 DEF ScanCollecting, CanRead
  <2>10. CASE Rehash(t)
    BY <2>0, <2>10 DEF Rehash, WriteUnlock
  <2>11. CASE ListInsert(t)
    BY <2>0, <2>11 DEF ListInsert, CanWrite
  <2>12. CASE AllocReturns(t)
    BY <2>0, <2>12 DEF AllocReturns, ReadUnlock
  <2>13. CASE CollectLock(t)
    BY <2>0, <2>13 DEF CollectLock
  <2>14. CASE StopAllocators(t)
    BY <2>0, <2>14 DEF StopAllocators, CanWrite, WriteLock
  <2>15. CASE LockList(t)
    BY <2>0, <2>15 DEF LockList, CanWrite, WriteLock
  <2>16. CASE MoveToCollecting(t)
    BY <2>0, <2>16 DEF MoveToCollecting, CanWrite, WriteLock
  <2>17. CASE BeforeMark(t)
    BY <2>0, <2>17 DEF BeforeMark, WriteUnlock
  <2>18. CASE BeginSweep(t)
    BY <2>0, <2>18 DEF BeginSweep, CanWrite, WriteLock
  <2>19. ASSUME NEW p \in Pages, SweepKeep(t, p) PROVE Quiet'
    BY <2>0, <2>19 DEF SweepKeep
  <2>20. ASSUME NEW p \in Pages, SweepFree(t, p) PROVE Quiet'
    BY <2>0, <2>20 DEF SweepFree, CanWrite
  <2>21. CASE StopAllocations(t)
    BY <2>0, <2>21 DEF StopAllocations
  <2>22. CASE EndSweep(t)
    BY <2>0, <2>22 DEF EndSweep, CanWrite, WriteUnlock
  <2>23. CASE EndCollect(t)
    BY <2>0, <2>23 DEF EndCollect
  <2>24. CASE CollectUnlock(t)
    BY <2>0, <2>24 DEF CollectUnlock
  <2>25. CASE EachBegins(t)
    BY <2>0, <2>25 DEF EachBegins, CanRead, ReadLock
  <2>26. CASE EachList(t)
    BY <2>0, <2>26 DEF EachList, CanRead, ReadUnlock
  <2>27. CASE EachCollecting(t)
    BY <2>0, <2>27 DEF EachCollecting, CanRead, ReadUnlock
  <2> QED BY <1>2, <2>1, <2>2, <2>3, <2>4, <2>5, <2>6, <2>7, <2>8, <2>9, <2>10, <2>11, <2>12, <2>13,
                <2>14, <2>15, <2>16, <2>17, <2>18, <2>19, <2>20, <2>21, <2>22, <2>23, <2>24, <2>25, <2>26, <2>27 DEF Call, Step
<1> QED BY <1>1, <1>2 DEF Next

(* Only one thread holds buffer_table_lock. *)
LEMMA TableLocked ==
  ASSUME RangeInv, NEW t \in Threads
  PROVE  /\ pc[t] \in WritesTable => \A u \in Threads \ {t} : pc[u] \notin WritesTable
         /\ CanWrite("table") => \A u \in Threads : pc[u] \notin WritesTable
BY ThreadsAssumption DEF RangeInv, IInv, LocksHeld, Writes, CanWrite

(* An extended range covers what the old one did, and the new pages.       *)
LEMMA Extended ==
  ASSUME RangeInv, NEW ps \in SUBSET Pages, Extend(ps)
  PROVE  /\ InRange(ps)'
         /\ \A S \in SUBSET Pages : InRange(S) => InRange(S)'
<1>1. /\ page_id_min \in Nat /\ page_id_max \in Nat /\ Pages \subseteq Nat
      /\ page_id_min' \in Nat /\ page_id_max' \in Nat
  BY ThreadsAssumption DEF RangeInv, Counted, Extend
<1>2. /\ page_id_min' <= page_id_min /\ page_id_max <= page_id_max'
      /\ \A p \in ps : page_id_min' <= p /\ p <= page_id_max'
  BY <1>1 DEF Extend
<1>. QED BY <1>1, <1>2 DEF InRange

(* A page enters the table in range, and the range is computed again from  *)
(* all of the pages in the table.                                          *)
LEMMA StepRange ==
  ASSUME RangeInv, [Next]_vars
  PROVE  RangeOK'
<1>1. CASE UNCHANGED vars
  BY <1>1 DEF RangeInv, IInv, vars, locks, table, lists, Typed, RWLocks, Adding, Walking, Collecting, Marking,
         RangeOK, InRange, Quiet, LocksHeld, Writes, WritesTable, Counted
<1>2. ASSUME NEW t \in Threads, Call(t) \/ Step(t)
      PROVE  RangeOK'
  <2>. USE ThreadsAssumption DEF Goto, locks, table, lists,
         Typed, RWLocks, Adding, Walking, Collecting, Marking,
         RangeOK, InRange, Quiet, LocksHeld, Writes, WritesTable, Counted
  <2>0. RangeOK /\ Quiet /\ Typed /\ LocksHeld /\ Counted
    BY DEF RangeInv, IInv
  <2>1. CASE smal_alloc_p(t)
    BY <2>0, <2>1 DEF smal_alloc_p, CanRead, ReadLock
  <2>2. CASE smal_collect(t)
    BY <2>0, <2>2 DEF smal_collect
  <2>3. CASE smal_each_object(t)
    BY <2>0, <2>3 DEF smal_each_object
  <2>4. ASSUME NEW p \in Pages, MapPage(t, p) PROVE RangeOK'
    BY <2>0, <2>4 DEF MapPage, IInv, PagesOwned, Entering, Owning
  <2>5. CASE MapFails(t)
    BY <2>0, <2>5 DEF MapFails, ReadUnlock
  <2>6. CASE TableAdd(t)
    <3>. SUFFICES ASSUME ~ overlapped PROVE RangeOK'
      BY <2>6 DEF TableAdd
    <3>1. page[t] \in Pages
      BY <2>0, <2>6 DEF TableAdd, RangeInv, IInv, PagesOwned, Entering, Owning
    <3>2. /\ page_id_min' <= page[t] /\ page[t] <= page_id_max'
          /\ \A p \in buffer_table :
               page_id_min <= p /\ p <= page_id_max => page_id_min' <= p /\ p <= page_id_max'
      <4>1. InRange({page[t]})' /\ \A S \in SUBSET Pages : InRange(S) => InRange(S)'
        BY <2>6, <3>1, Extended DEF TableAdd
      <4>2. \A p \in Pages : InRange({p}) => InRange({p})'
        BY <4>1
      <4>. QED BY <2>6, <3>1, <4>1, <4>2, Listed DEF TableAdd
    <3>3. /\ page_id_min_max_valid /\ UNCHANGED <<overlapped, page_id_min_max_valid, page, buffer_table>>
          /\ pc' = [pc EXCEPT ![t] = "a_rehash"]
      BY <2>6 DEF TableAdd
    <3>4. \A u \in Threads : pc'[u] \notin {"a_list", "a_collecting"} /\ (pc'[u] = "a_rehash" => u = t)
      <4>1. \A u \in Threads : pc[u] \notin {"a_list", "a_collecting", "a_rehash"}
        BY <2>6, TableLocked DEF TableAdd
      <4>. QED BY <2>0, <3>3, <4>1
    <3>5. InRange(buffer_table)' /\ InRange({page[t]})'
      <4>1. \A p \in buffer_table : page_id_min <= p /\ p <= page_id_max
        BY <2>0, <3>3
      <4>2. \A p \in buffer_table \cup {page[t]} : page_id_min' <= p /\ p <= page_id_max'
        BY <3>2, <3>3, <4>1
      <4>. QED BY <3>3, <4>2
    <3> HIDE DEF InRange
    <3>. QED BY <3>3, <3>4, <3>5
  <2>7. CASE TableAddStale(t)
    BY <2>0, <2>7 DEF TableAddStale, CanWrite, WriteLock
  <2>8. CASE ScanList(t)
    <3>1. page[t] \in Pages
      BY <2>0, <2>8 DEF ScanList, RangeInv, IInv, PagesOwned, Entering, Owning
    <3>2. \A p \in buffer_list' : page_id_min' <= p /\ p <= page_id_max'
      <4>1. InRange(buffer_list)'
        BY <2>8, Listed, Extended DEF ScanList
      <4>. QED BY <2>8, <4>1 DEF ScanList
    <3>3. page_id_min <= page[t] /\ page[t] <= page_id_max =>
            page_id_min' <= page[t] /\ page[t] <= page_id_max'
      <4>1. InRange({page[t]}) => InRange({page[t]})'
        BY <2>8, <3>1, Listed, Extended DEF ScanList
      <4>. QED BY <2>8, <4>1 DEF ScanList
    <3>4. /\ UNCHANGED <<overlapped, page, page_id_min_max_valid, buffer_table, buffer_list>>
          /\ pc' = [pc EXCEPT ![t] = "a_collecting"] /\ pc[t] = "a_list"
      BY <2>8 DEF ScanList
    <3>. SUFFICES ASSUME ~ overlapped PROVE RangeOK'
      BY <3>4
    <3>5. \A u \in Threads : pc'[u] \notin {"a_list", "a_rehash", "a_insert"} /\ (pc'[u] = "a_collecting" => u = t)
      <4>1. \A u \in Threads \ {t} : pc[u] \notin {"a_list", "a_collecting", "a_rehash"}
        BY <3>4, TableLocked
      <4>2. \A u \in Threads : pc[u] # "a_insert"
        BY <2>0, <3>4
      <4>. QED BY <2>0, <3>4, <4>1, <4>2
    <3>6. ~ page_id_min_max_valid' /\ InRange({page[t]})' /\ InRange(buffer_list)'
      BY <2>0, <3>2, <3>3, <3>4
    <3> HIDE DEF InRange
    <3>. QED BY <3>4, <3>5, <3>6
  <2>9. CASE ScanCollecting(t)
    <3>. SUFFICES ASSUME ~ overlapped PROVE RangeOK'
      BY <2>9 DEF ScanCollecting
    <3>1. page[t] \in Pages
      BY <2>0, <2>9 DEF ScanCollecting, RangeInv, IInv, PagesOwned, Entering, Owning
    <3>2. buffer_collecting = {} /\ \A u \in Threads : pc[u] # "a_insert"
      BY <2>0, <2>9 DEF ScanCollecting, RangeInv, Moved
    <3>3. buffer_table = buffer_list
      <4>1. ListsAgreeWithTable
        BY DEF RangeInv, IInv
      <4>. QED BY <3>2, <4>1 DEF ListsAgreeWithTable
    <3>4. \A p \in buffer_list \cup {page[t]} :
            page_id_min <= p /\ p <= page_id_max => page_id_min' <= p /\ p <= page_id_max'
      <4>1. \A p \in Pages : InRange({p}) => InRange({p})'
        BY <2>9, Listed, Extended DEF ScanCollecting
      <4>. QED BY <3>1, <4>1, Listed
    <3>5. /\ UNCHANGED <<overlapped, page, buffer_table, buffer_list>> /\ page_id_min_max_valid'
          /\ pc' = [pc EXCEPT ![t] = "a_rehash"] /\ pc[t] = "a_collecting"
      BY <2>9 DEF ScanCollecting
    <3>6. \A u \in Threads : pc'[u] \notin {"a_list", "a_collecting"} /\ (pc'[u] = "a_rehash" => u = t)
      <4>1. \A u \in Threads \ {t} : pc[u] \notin {"a_list", "a_collecting", "a_rehash"}
        BY <3>5, TableLocked
      <4>. QED BY <2>0, <3>5, <4>1
    <3>7. InRange(buffer_table)' /\ InRange({page[t]})'
      <4>1. \A p \in buffer_list \cup {page[t]} : page_id_min <= p /\ p <= page_id_max
        BY <2>0, <3>5
      <4>2. \A p \in buffer_list \cup {page[t]} : page_id_min' <= p /\ p <= page_id_max'
        BY <3>4, <4>1
      <4>. QED BY <3>3, <3>5, <4>2
    <3> HIDE DEF InRange
    <3>. QED BY <3>5, <3>6, <3>7
  <2>10. CASE Rehash(t)
    BY <2>0, <2>10 DEF Rehash, WriteUnlock
  <2>11. CASE ListInsert(t)
    BY <2>0, <2>11 DEF ListInsert, CanWrite
  <2>12. CASE AllocReturns(t)
    BY <2>0, <2>12 DEF AllocReturns, ReadUnlock
  <2>13. CASE CollectLock(t)
    BY <2>0, <2>13 DEF CollectLock
  <2>14. CASE StopAllocators(t)
    BY <2>0, <2>14 DEF StopAllocators, CanWrite, WriteLock
  <2>15. CASE LockList(t)
    BY <2>0, <2>15 DEF LockList, CanWrite, WriteLock
  <2>16. CASE MoveToCollecting(t)
    BY <2>0, <2>16 DEF MoveToCollecting, CanWrite, WriteLock
  <2>17. CASE BeforeMark(t)
    BY <2>0, <2>17 DEF BeforeMark, WriteUnlock
  <2>18. CASE BeginSweep(t)
    BY <2>0, <2>18 DEF BeginSweep, CanWrite, WriteLock
  <2>19. ASSUME NEW p \in Pages, SweepKeep(t, p) PROVE RangeOK'
    BY <2>0, <2>19 DEF SweepKeep
  <2>20. ASSUME NEW p \in Pages, SweepFree(t, p) PROVE RangeOK'
    BY <2>0, <2>20 DEF SweepFree, CanWrite
  <2>21. CASE StopAllocations(t)
    BY <2>0, <2>21 DEF StopAllocations
  <2>22. CASE EndSweep(t)
    BY <2>0, <2>22 DEF EndSweep, CanWrite, WriteUnlock
  <2>23. CASE EndCollect(t)
    BY <2>0, <2>23 DEF EndCollect
  <2>24. CASE CollectUnlock(t)
    BY <2>0, <2>24 DEF CollectUnlock
  <2>25. CASE EachBegins(t)
    BY <2>0, <2>25 DEF EachBegins, CanRead, ReadLock
  <2>26. CASE EachList(t)
    BY <2>0, <2>26 DEF EachList, CanRead, ReadUnlock
  <2>27. CASE EachCollecting(t)
    BY <2>0, <2>27 DEF EachCollecting, CanRead, ReadUnlock
  <2> QED BY <1>2, <2>1, <2>2, <2>3, <2>4, <2>5, <2>6, <2>7, <2>8, <2>9, <2>10, <2>11, <2>12, <2>13,
                <2>14, <2>15, <2>16, <2>17, <2>18, <2>19, <2>20, <2>21, <2>22, <2>23, <2>24, <2>25, <2>26, <2>27 DEF Call, Step
<1> QED BY <1>1, <1>2 DEF Next

(* A thread that is about to take the collection lock counts as one that   *)
(* has.                                                                    *)
LEMMA StepBounded ==
  ASSUME RangeInv, [Next]_vars
  PROVE  Bounded'
<1> DEFINE Locking == {t \in Threads : pc[t] = "c_lock"}
<1>1. /\ IsFiniteSet(Threads) /\ MaxCollectLock \in Nat /\ collect_lock \in Nat
      /\ pc \in [Threads -> {"idle", "c_lock"} \cup Adding \cup Walking \cup Collecting]
  BY ThreadsAssumption DEF RangeInv, IInv, Typed
<1>2. IsFiniteSet(Locking) /\ Cardinality(Locking) \in Nat /\ Cardinality(Threads) \in Nat
  BY <1>1, FS_Subset, FS_CardinalityType
<1>3. ASSUME collect_lock' \in Nat, collect_lock' <= collect_lock, Locking' = Locking
      PROVE  Bounded'
  BY SMTT(30), <1>1, <1>2, <1>3 DEF RangeInv, Bounded
<1>4. ASSUME NEW t \in Threads, smal_collect(t) PROVE Bounded'
  <2>1. Locking' \subseteq Threads
    OBVIOUS
  <2>2. Cardinality(Locking') \in Nat /\ Cardinality(Locking') <= Cardinality(Threads)
    BY <1>1, <2>1, FS_Subset, FS_CardinalityType
  <2>. QED BY <1>1, <1>2, <1>4, <2>2 DEF smal_collect, Bounded
<1>5. ASSUME NEW t \in Threads, CollectLock(t) PROVE Bounded'
  <2>1. t \in Locking /\ Locking' = Locking \ {t}
    BY <1>1, <1>5 DEF CollectLock, Goto
  <2>2. Cardinality(Locking \ {t}) = Cardinality(Locking) - 1
    BY <1>2, <2>1, FS_RemoveElement
  <2> HIDE DEF Locking
  <2>3. Cardinality(Locking') = Cardinality(Locking) - 1 /\ collect_lock' = collect_lock + 1
    BY <1>5, <2>1, <2>2 DEF CollectLock
  <2>4. collect_lock + Cardinality(Locking) <= MaxCollectLock + Cardinality(Threads)
    BY DEF RangeInv, Bounded, Locking
  <2>5. collect_lock' + Cardinality(Locking') <= MaxCollectLock + Cardinality(Threads)
    BY <1>1, <1>2, <2>3, <2>4
  <2>. QED BY <2>5 DEF Bounded, Locking
<1>6. ASSUME NEW t \in Threads, CollectUnlock(t) PROVE Bounded'
  <2>1. Locking' = Locking
    BY <1>1, <1>6 DEF CollectUnlock, Goto
  <2>2. collect_lock # 0
    BY <1>6 DEF CollectUnlock, Goto, RangeInv, IInv, LockCounted, Collecting
  <2>. QED BY <1>1, <1>3, <1>6, <2>1, <2>2 DEF CollectUnlock
<1>7. ASSUME NEW t \in Threads, NEW from \in {"idle"} \cup Adding \cup Walking \cup Collecting,
             NEW to \in {"idle"} \cup Adding \cup Walking \cup Collecting,
             Goto(t, from, to) \/ UNCHANGED pc, UNCHANGED collect_lock
      PROVE  Bounded'
  <2>1. Locking' = Locking
    BY <1>1, <1>7 DEF Goto, Adding, Walking, Collecting
  <2>. QED BY <1>1, <1>3, <1>7, <2>1
<1>8. ASSUME NEW t \in Threads,
             \/ smal_alloc_p(t) \/ smal_each_object(t) \/ \E p \in Pages : MapPage(t, p)
             \/ MapFails(t) \/ TableAdd(t) \/ TableAddStale(t) \/ ScanList(t) \/ ScanCollecting(t)
             \/ Rehash(t) \/ ListInsert(t) \/ AllocReturns(t)
             \/ EachBegins(t) \/ EachList(t) \/ EachCollecting(t)
      PROVE  Bounded'
  BY <1>7, <1>8
     DEF smal_alloc_p, smal_each_object, MapPage, MapFails, TableAdd, TableAddStale, ScanList,
         ScanCollecting, Rehash, ListInsert, AllocReturns, EachBegins, EachList, EachCollecting,
         Adding, Walking
<1>9. ASSUME NEW t \in Threads,
             \/ StopAllocators(t) \/ LockList(t) \/ MoveToCollecting(t) \/ BeforeMark(t)
             \/ BeginSweep(t) \/ (\E p \in Pages : SweepKeep(t, p) \/ SweepFree(t, p))
             \/ StopAllocations(t) \/ EndSweep(t) \/ EndCollect(t)
      PROVE  Bounded'
  BY <1>7, <1>9
     DEF StopAllocators, LockList, MoveToCollecting, BeforeMark, BeginSweep, SweepKeep, SweepFree,
         StopAllocations, EndSweep, EndCollect, Collecting
<1>10. CASE UNCHANGED vars
  BY <1>1, <1>3, <1>10 DEF vars
<1>. QED BY <1>4, <1>5, <1>6, <1>8, <1>9, <1>10 DEF Next, Call, Step

(* RangeInv holds for any finite set of threads and any set of pages.      *)
THEOREM RangeInvariant == Spec => []RangeInv
<1>1. Init => RangeInv
  <2>. SUFFICES ASSUME Init PROVE RangeInv
    OBVIOUS
  <2>1. {t \in Threads : pc[t] = "c_lock"} = {} /\ collect_lock = 0
    BY DEF Init
  <2>2. Cardinality({t \in Threads : pc[t] = "c_lock"}) = 0
    BY <2>1, FS_EmptySet
  <2>3. Bounded
    BY <2>1, <2>2, ThreadsAssumption, FS_CardinalityType DEF Bounded
  <2>4. Counted /\ Moved /\ Quiet /\ RangeOK
    BY DEF Init, Counted, Moved, Quiet, RangeOK, Marking, Adding
  <2>. QED BY <2>3, <2>4, InitOK DEF RangeInv
<1>2. RangeInv /\ [Next]_vars => RangeInv'
  <2>. SUFFICES ASSUME RangeInv, [Next]_vars PROVE RangeInv'
    OBVIOUS
  <2>1. IInv'
    BY StepTyped, StepOneCollector, StepLocks, StepPages, StepLists, StepAllMoved
       DEF RangeInv, IInv
  <2>. QED BY <2>1, StepCounted, StepBounded, StepMoved, StepQuiet, StepRange DEF RangeInv
<1>. QED BY <1>1, <1>2, PTL DEF Spec

(* Every variable keeps its type, and what smal_thread_lock_lock counts up *)
(* its bound.                                                              *)
THEOREM TypeCorrect == Spec => []TypeOK
<1>1. RangeInv => TypeOK
  <2>. SUFFICES ASSUME RangeInv PROVE TypeOK
    OBVIOUS
  <2>1. collect_lock \in 0 .. MaxCollectLock + Cardinality(Threads)
    <3>1. /\ Cardinality({t \in Threads : pc[t] = "c_lock"}) \in Nat
          /\ Cardinality(Threads) \in Nat /\ MaxCollectLock \in Nat /\ collect_lock \in Nat
      BY ThreadsAssumption, FS_Subset, FS_CardinalityType DEF RangeInv, IInv, Typed
    <3>. QED BY <3>1 DEF RangeInv, Bounded
  <2>2. buffer_list \subseteq mapped /\ buffer_collecting \subseteq mapped
    BY DEF RangeInv, IInv, Typed, ListsAgreeWithTable
  <2>. QED BY <2>1, <2>2 DEF RangeInv, IInv, Typed, Counted, TypeOK
<1>. QED BY <1>1, RangeInvariant, PTL

(* Quotient and remainder. *)
LEMMA DivMod ==
  ASSUME NEW a \in Nat, NEW n \in Nat \ {0}
  PROVE  /\ a \div n \in Int /\ a % n \in 0..(n - 1)
         /\ a = n * (a \div n) + (a % n)
BY SMT

(* Multiples of different numbers are at least one multiple apart.         *)
LEMMA Apart ==
  ASSUME NEW n \in Nat, NEW i \in Int, NEW j \in Int, i < j
  PROVE  n * i + n <= n * j
BY SMT

(* Two numbers that are less than n apart differ modulo n.                 *)
LEMMA DifferInTable ==
  ASSUME NEW p \in Nat, NEW q \in Nat, NEW n \in Nat \ {0},
         p < q + n, q < p + n, p % n = q % n
  PROVE  p = q
<1> DEFINE d == p \div n
           e == q \div n
           r == p % n
<1>1. d \in Int /\ e \in Int /\ r \in Int /\ p = n * d + r /\ q = n * e + r
  BY DivMod
<1> HIDE DEF d, e, r
<1>2. n * d \in Int /\ n * e \in Int
  BY <1>1
<1>3. CASE d < e
  <2>1. n * d + n <= n * e
    BY <1>1, <1>3, Apart
  <2>. QED BY <1>1, <1>2, <2>1
<1>4. CASE e < d
  <2>1. n * e + n <= n * d
    BY <1>1, <1>4, Apart
  <2>. QED BY <1>1, <1>2, <2>1
<1>. QED BY <1>1, <1>3, <1>4

(* README.mediawiki:108, "Because the table is guaranteed to be            *)
(* non-colliding": as long as no page is added while a collection runs.    *)
THEOREM QuietTableIsFree == Spec => []QuietNoCollision
<1>1. RangeInv => QuietNoCollision
  <2>. SUFFICES ASSUME RangeInv, ~ overlapped, NEW t \in Threads, pc[t] = "a_rehash",
                       NEW p \in buffer_table \cup {page[t]}, NEW q \in buffer_table \cup {page[t]},
                       p % buffer_table_size = q % buffer_table_size
                PROVE  p = q /\ page[t] \notin buffer_table
    BY DEF QuietNoCollision, NoCollision
  <2>1. page[t] \in Pages /\ page[t] \notin buffer_table
    BY DEF RangeInv, IInv, PagesOwned, Counted, Entering, Owning
  <2>2. p \in Nat /\ q \in Nat /\ page_id_min \in Nat /\ page_id_max \in Nat
    <3>1. Pages \subseteq Nat /\ buffer_table \cup {page[t]} \subseteq Pages
      BY <2>1, Listed, ThreadsAssumption
    <3>2. page_id_min \in Pages \cup {0} /\ page_id_max \in Pages \cup {0}
      BY DEF RangeInv, Counted
    <3>3. p \in Pages /\ q \in Pages
      BY <3>1, Zenon
    <3>4. p \in Nat /\ q \in Nat
      BY <3>1, <3>3, Zenon
    <3>. QED BY <3>1, <3>2, <3>4
  <2>3. page_id_min <= p /\ p <= page_id_max /\ page_id_min <= q /\ q <= page_id_max
    BY DEF RangeInv, RangeOK, InRange
  <2> DEFINE n == buffer_table_size
  <2>4. n \in Nat \ {0} /\ p < q + n /\ q < p + n
    BY <2>2, <2>3 DEF buffer_table_size
  <2> HIDE DEF n
  <2>5. p % n = q % n
    BY DEF n
  <2>. QED BY <2>1, <2>2, <2>4, <2>5, DifferInTable
<1>. QED BY <1>1, RangeInvariant, PTL

-----------------------------------------------------------------------------
(* Deadlock.                                                               *)

(* The mutex of a type is held by the thread that adds a page for it.      *)
MutexOwned ==
  \A y \in Types, t \in Threads : alloc_buffer_mutex[y] = t =>
    pc[t] \in Adding \ {"a_mutex"} /\ TypeOf[page[t]] = y

(* The mutex is taken when the page is mapped and released at the return.  *)
LEMMA StepMutex ==
  ASSUME RangeInv, MutexOwned, [Next]_vars
  PROVE  MutexOwned'
<1>1. CASE UNCHANGED vars
  BY <1>1 DEF vars, locks, MutexOwned
<1>2. ASSUME NEW t \in Threads, Call(t) \/ Step(t)
      PROVE  MutexOwned'
  <2>. USE ThreadsAssumption DEF Goto, locks, table, lists,
         Typed, RWLocks, Adding, Walking, Collecting,
         MutexOwned, Counted
  <2>0. MutexOwned /\ Typed /\ Counted
    BY DEF RangeInv, IInv
  <2>1. CASE smal_alloc_p(t)
    BY <2>0, <2>1 DEF smal_alloc_p, CanRead, ReadLock
  <2>2. CASE smal_collect(t)
    BY <2>0, <2>2 DEF smal_collect
  <2>3. CASE smal_each_object(t)
    BY <2>0, <2>3 DEF smal_each_object
  <2>4. ASSUME NEW p \in Pages, MapPage(t, p) PROVE MutexOwned'
    BY <2>0, <2>4 DEF MapPage
  <2>5. CASE MapFails(t)
    BY <2>0, <2>5 DEF MapFails, ReadUnlock
  <2>6. CASE TableAdd(t)
    BY <2>0, <2>6 DEF TableAdd, CanWrite, WriteLock
  <2>7. CASE TableAddStale(t)
    BY <2>0, <2>7 DEF TableAddStale, CanWrite, WriteLock
  <2>8. CASE ScanList(t)
    BY <2>0, <2>8 DEF ScanList, CanRead
  <2>9. CASE ScanCollecting(t)
    BY <2>0, <2>9 DEF ScanCollecting, CanRead
  <2>10. CASE Rehash(t)
    BY <2>0, <2>10 DEF Rehash, WriteUnlock
  <2>11. CASE ListInsert(t)
    BY <2>0, <2>11 DEF ListInsert, CanWrite
  <2>12. CASE AllocReturns(t)
    BY <2>0, <2>12 DEF AllocReturns, ReadUnlock
  <2>13. CASE CollectLock(t)
    BY <2>0, <2>13 DEF CollectLock
  <2>14. CASE StopAllocators(t)
    BY <2>0, <2>14 DEF StopAllocators, CanWrite, WriteLock
  <2>15. CASE LockList(t)
    BY <2>0, <2>15 DEF LockList, CanWrite, WriteLock
  <2>16. CASE MoveToCollecting(t)
    BY <2>0, <2>16 DEF MoveToCollecting, CanWrite, WriteLock
  <2>17. CASE BeforeMark(t)
    BY <2>0, <2>17 DEF BeforeMark, WriteUnlock
  <2>18. CASE BeginSweep(t)
    BY <2>0, <2>18 DEF BeginSweep, CanWrite, WriteLock
  <2>19. ASSUME NEW p \in Pages, SweepKeep(t, p) PROVE MutexOwned'
    BY <2>0, <2>19 DEF SweepKeep
  <2>20. ASSUME NEW p \in Pages, SweepFree(t, p) PROVE MutexOwned'
    BY <2>0, <2>20 DEF SweepFree, CanWrite
  <2>21. CASE StopAllocations(t)
    BY <2>0, <2>21 DEF StopAllocations
  <2>22. CASE EndSweep(t)
    BY <2>0, <2>22 DEF EndSweep, CanWrite, WriteUnlock
  <2>23. CASE EndCollect(t)
    BY <2>0, <2>23 DEF EndCollect
  <2>24. CASE CollectUnlock(t)
    BY <2>0, <2>24 DEF CollectUnlock
  <2>25. CASE EachBegins(t)
    BY <2>0, <2>25 DEF EachBegins, CanRead, ReadLock
  <2>26. CASE EachList(t)
    BY <2>0, <2>26 DEF EachList, CanRead, ReadUnlock
  <2>27. CASE EachCollecting(t)
    BY <2>0, <2>27 DEF EachCollecting, CanRead, ReadUnlock
  <2> QED BY <1>2, <2>1, <2>2, <2>3, <2>4, <2>5, <2>6, <2>7, <2>8, <2>9, <2>10, <2>11, <2>12, <2>13,
                <2>14, <2>15, <2>16, <2>17, <2>18, <2>19, <2>20, <2>21, <2>22, <2>23, <2>24, <2>25, <2>26, <2>27 DEF Call, Step
<1> QED BY <1>1, <1>2 DEF Next

(* Who waits for whom as long as no page is added while a collection runs. *)
LEMMA WaitedFor ==
  ASSUME RangeInv, MutexOwned, ~ overlapped,
         NEW t \in Threads, NEW u \in Threads, WaitsFor(t, u)
  PROVE  \/ pc[t] = "c_alloc" /\ pc[u] \in ReadsAlloc
         \/ pc[t] = "a_mutex" /\ pc[u] \in Adding \ {"a_mutex"}
         \/ pc[t] = "a_table" /\ pc[u] \in WritesTable
         \/ pc[t] = "e_alloc" /\ pc[u] \in WritesAlloc
         \/ pc[t] = "e_collecting" /\ pc[u] \in WritesCollecting
<1>. USE DEF Adding, Walking, Collecting, Marking, RWLocks
<1>1. LocksHeld /\ OneCollector /\ Quiet
  BY DEF RangeInv, IInv
<1>2. ASSUME NEW l \in RWLocks, NeedsRead(t, l), rw[l].writer = u
      PROVE  \/ pc[t] = "e_alloc" /\ pc[u] \in WritesAlloc
             \/ pc[t] = "e_collecting" /\ pc[u] \in WritesCollecting
  BY <1>1, <1>2, ThreadsAssumption DEF NeedsRead, LocksHeld, Writes, OneCollector, Quiet,
     ReadsAlloc, WritesAlloc, WritesList, WritesCollecting
<1>3. ASSUME NEW l \in RWLocks, NeedsWrite(t, l), u \in rw[l].readers \cup {rw[l].writer}
      PROVE  \/ pc[t] = "c_alloc" /\ pc[u] \in ReadsAlloc
             \/ pc[t] = "a_table" /\ pc[u] \in WritesTable
  BY <1>1, <1>3, ThreadsAssumption DEF NeedsWrite, LocksHeld, Writes, OneCollector, Quiet,
     ReadsAlloc, WritesAlloc, WritesTable, WritesList, WritesCollecting
<1>4. ASSUME NEW p \in Pages, NeedsMutex(t, p), alloc_buffer_mutex[TypeOf[p]] = u
      PROVE  pc[t] = "a_mutex" /\ pc[u] \in Adding \ {"a_mutex"}
  <2>1. TypeOf[p] \in Types
    BY ThreadsAssumption
  <2>2. pc[u] \in Adding \ {"a_mutex"}
    BY <1>4, <2>1 DEF MutexOwned
  <2>. QED BY <1>1, <1>4, <2>2 DEF NeedsMutex, Quiet
<1>. QED BY <1>2, <1>3, <1>4 DEF WaitsFor

(* Threads at the other places wait for nobody, and each of these waits    *)
(* for one further down: a circle has no place to be.                      *)
THEOREM QuietIsDeadlockFree == Spec => []QuietNoDeadlock
<1>1. Init => MutexOwned
  BY ThreadsAssumption DEF Init, MutexOwned
<1>2. RangeInv /\ MutexOwned /\ [Next]_vars => MutexOwned'
  BY StepMutex
<1>3. RangeInv /\ MutexOwned => QuietNoDeadlock
  <2>. SUFFICES ASSUME RangeInv, MutexOwned, ~ overlapped, NEW S \in SUBSET Threads, S # {},
                       \A t \in S : \E u \in S : WaitsFor(t, u)
                PROVE  FALSE
    BY DEF QuietNoDeadlock, NoDeadlock
  <2>. USE WaitedFor DEF Adding, ReadsAlloc, WritesAlloc, WritesTable, WritesCollecting
  <2>1. \A t \in S : pc[t] \in {"c_alloc", "a_mutex", "a_table", "e_alloc", "e_collecting"}
    OBVIOUS
  <2>2. \A t \in S : pc[t] \in {"c_alloc", "a_mutex"}
    BY <2>1
  <2>3. \A t \in S : pc[t] = "c_alloc"
    BY <2>2
  <2>. QED BY <2>3
<1>. QED BY <1>1, <1>2, <1>3, RangeInvariant, PTL DEF Spec

-----------------------------------------------------------------------------
(* The buffer registry.                                                    *)

Sweeping   == {"c_before_mark", "c_mark", "c_sweep", "c_stop"}
collectors == {t \in Threads : pc[t] \in Sweeping}

(* A thread that goes from one place to another begins or ends to collect, *)
(* or the collectors are the same.                                         *)
LEMMA CollectorsMoved ==
  ASSUME RangeInv, NEW t \in Threads, NEW from, NEW to, Goto(t, from, to)
  PROVE  /\ (from \in Sweeping <=> to \in Sweeping) => collectors' = collectors
         /\ from \in Collecting \ Sweeping /\ to \in Sweeping => collectors = {} /\ collectors' = {t}
         /\ from \in Sweeping /\ to \notin Sweeping => collectors = {t} /\ collectors' = {}
<1>1. pc[t] = from /\ pc' = [pc EXCEPT ![t] = to] /\ DOMAIN pc = Threads /\ OneCollector
  BY DEF Goto, RangeInv, IInv, Typed
<1>. USE <1>1 DEF collectors, OneCollector
<1>2. Sweeping \subseteq Collecting
  BY DEF Sweeping, Collecting
<1>. HIDE DEF Sweeping, Collecting
<1>3. \A u \in Threads : pc'[u] = IF u = t THEN to ELSE pc[u]
  OBVIOUS
<1>. QED BY <1>2, <1>3

(* Every step of the threads is one of the registry, or changes nothing there. *)
LEMMA StepRegistry ==
  ASSUME RangeInv, [Next]_vars
  PROVE  [Registry!Next]_(Registry!vars)
<1>1. CASE UNCHANGED vars
  BY <1>1 DEF vars, table, lists, Registry!vars
<1>2. ASSUME NEW t \in Threads, Call(t) \/ Step(t)
      PROVE  [Registry!Next]_(Registry!vars)
  <2>. USE ThreadsAssumption DEF Goto, locks, table, lists,
         Sweeping, collectors, Adding, Walking, Collecting, Registry!vars
  <2>0. Typed /\ OneCollector /\ PagesOwned /\ ListsAgreeWithTable /\ Counted /\ LocksHeld
    BY DEF RangeInv, IInv
  <2>1. CASE smal_alloc_p(t)
    BY <2>0, <2>1 DEF smal_alloc_p, CanRead, ReadLock
  <2>2. CASE smal_collect(t)
    BY <2>0, <2>2 DEF smal_collect
  <2>3. CASE smal_each_object(t)
    BY <2>0, <2>3 DEF smal_each_object
  <2>4. ASSUME NEW p \in Pages, MapPage(t, p) PROVE [Registry!Next]_(Registry!vars)
    BY <2>0, <2>4 DEF MapPage
  <2>5. CASE MapFails(t)
    BY <2>0, <2>5 DEF MapFails, ReadUnlock
  <2>6. CASE TableAdd(t)
    BY <2>0, <2>6 DEF TableAdd, CanWrite, WriteLock
  <2>7. CASE TableAddStale(t)
    BY <2>0, <2>7 DEF TableAddStale, CanWrite, WriteLock
  <2>8. CASE ScanList(t)
    BY <2>0, <2>8 DEF ScanList, CanRead
  <2>9. CASE ScanCollecting(t)
    BY <2>0, <2>9 DEF ScanCollecting, CanRead
  <2>10. CASE Rehash(t)
    <3>1. page[t] \in Pages \ buffer_table /\ buffer_table' = buffer_table \cup {page[t]}
      BY <2>0, <2>10 DEF Rehash, PagesOwned, Entering, Owning, Counted
    <3>2. collectors' = collectors /\ buffer_collecting' = buffer_collecting
      BY <2>10, CollectorsMoved DEF Rehash
    <3>3. Registry!Add(page[t])
      BY <3>1, <3>2 DEF Registry!Add
    <3>. QED BY <3>1, <3>3 DEF Registry!Next
  <2>11. CASE ListInsert(t)
    BY <2>0, <2>11 DEF ListInsert, CanWrite
  <2>12. CASE AllocReturns(t)
    BY <2>0, <2>12 DEF AllocReturns, ReadUnlock
  <2>13. CASE CollectLock(t)
    BY <2>0, <2>13 DEF CollectLock
  <2>14. CASE StopAllocators(t)
    BY <2>0, <2>14 DEF StopAllocators, CanWrite, WriteLock
  <2>15. CASE LockList(t)
    BY <2>0, <2>15 DEF LockList, CanWrite, WriteLock
  <2>16. CASE MoveToCollecting(t)
    <3>1. collectors = {} /\ collectors' = {t} /\ buffer_table' = buffer_table
      BY <2>16, CollectorsMoved DEF MoveToCollecting
    <3>2. {u \in Threads : pc[u] = "a_insert"} = {}
      BY <2>0, <2>16 DEF MoveToCollecting, LocksHeld, Writes, ReadsAlloc, WritesAlloc
    <3>3. buffer_collecting' = buffer_table
      BY <2>0, <3>2, <2>16 DEF MoveToCollecting, ListsAgreeWithTable
    <3>4. Registry!Begin(t)
      BY <3>1, <3>3 DEF Registry!Begin
    <3>. QED BY <3>4 DEF Registry!Next
  <2>17. CASE BeforeMark(t)
    BY <2>0, <2>17 DEF BeforeMark, WriteUnlock
  <2>18. CASE BeginSweep(t)
    BY <2>0, <2>18 DEF BeginSweep, CanWrite, WriteLock
  <2>19. ASSUME NEW p \in Pages, SweepKeep(t, p) PROVE [Registry!Next]_(Registry!vars)
    BY <2>0, <2>19 DEF SweepKeep
  <2>20. ASSUME NEW p \in Pages, SweepFree(t, p) PROVE [Registry!Next]_(Registry!vars)
    <3>1. p \in buffer_collecting \ Pinned
      BY <2>0, <2>20 DEF SweepFree, Typed
    <3>2. Goto(t, "c_sweep", "c_stop")
      BY <2>20 DEF SweepFree
    <3>3. collectors' = collectors
      BY <3>2, CollectorsMoved
    <3>4. Registry!Free(p)
      BY <3>1, <3>3, <2>20 DEF SweepFree, Registry!Free
    <3>. QED BY <3>4 DEF Registry!Next
  <2>21. CASE StopAllocations(t)
    BY <2>0, <2>21 DEF StopAllocations
  <2>22. CASE EndSweep(t)
    <3>1. collectors = {t} /\ collectors' = {}
      BY <2>22, CollectorsMoved DEF EndSweep
    <3>2. Registry!End(t)
      BY <3>1, <2>22 DEF EndSweep, Registry!End
    <3>. QED BY <3>2 DEF Registry!Next
  <2>23. CASE EndCollect(t)
    BY <2>0, <2>23 DEF EndCollect
  <2>24. CASE CollectUnlock(t)
    BY <2>0, <2>24 DEF CollectUnlock
  <2>25. CASE EachBegins(t)
    BY <2>0, <2>25 DEF EachBegins, CanRead, ReadLock
  <2>26. CASE EachList(t)
    <3>1. collectors' = collectors
      BY <2>26, CollectorsMoved DEF EachList
    <3>. QED BY <3>1, <2>26 DEF EachList
  <2>27. CASE EachCollecting(t)
    BY <2>0, <2>27 DEF EachCollecting, CanRead, ReadUnlock
  <2> QED BY <1>2, <2>1, <2>2, <2>3, <2>4, <2>5, <2>6, <2>7, <2>8, <2>9, <2>10, <2>11, <2>12, <2>13,
                <2>14, <2>15, <2>16, <2>17, <2>18, <2>19, <2>20, <2>21, <2>22, <2>23, <2>24, <2>25, <2>26, <2>27 DEF Call, Step
<1> QED BY <1>1, <1>2 DEF Next

(* Table, lists and locks implement BufferRegistry: a collection takes all  *)
(* the buffers there are at one moment, none but one thread frees them,    *)
(* and what is added meanwhile it leaves alone.                            *)
THEOREM Implementation == Spec => RegistrySpec
<1>1. Init => Registry!Init
  BY DEF Init, Registry!Init
<1>2. RangeInv /\ [Next]_vars => [Registry!Next]_(Registry!vars)
  BY StepRegistry
<1>. QED BY <1>1, <1>2, RangeInvariant, PTL DEF Spec, RegistrySpec, Registry!Spec

=============================================================================
