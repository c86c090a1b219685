----------------------------- MODULE SmalRoots ------------------------------
(***************************************************************************)
(* The roots a program registers (src/src/roots.c): global ones, callbacks *)
(* (src/src/callback.c) and the frames of each thread, with the registry   *)
(* of threads (src/src/thread.c).                                          *)
(*                                                                         *)
(* A collection walks all of them while the other threads go on.  The      *)
(* callbacks and the threads are walked with their lock held, the global   *)
(* roots and the frames are not.  MayOverlap says which calls the program  *)
(* makes while a collection marks.  X_Y is X with a deliberate mistake     *)
(* that shows a property can fail.                                         *)
(***************************************************************************)
EXTENDS Integers, Sequences, FiniteSets, SmalDllist

CONSTANTS
  Threads, Nil,
  Vars,                   (* the pointer variables that are roots          *)
  NoBinding,
  Entries,                (* the malloced smal_roots of the global list    *)
  Callbacks, DataOf,      (* the malloced smal_callbacks, with their data  *)
  callbacks, thread_list, (* the heads of the rings                        *)
  Frames,                 (* the bindings callers pass                     *)
  MaxFrames,              (* bounds the frames of a thread                 *)
  MayOverlap,
  FirstCallAlone          (* no thread calls while another initialises     *)

Operations == {"begin", "end", "add", "remove", "add_callback", "remove_callback"}

ASSUME RootsAssumption ==
  /\ Nil \notin Threads \cup Entries \cup Callbacks \cup {callbacks, thread_list}
  /\ Threads \cap Callbacks = {} /\ callbacks # thread_list
  /\ {callbacks, thread_list} \cap (Threads \cup Callbacks) = {}
  /\ DataOf \in [Callbacks -> Vars] /\ NoBinding \notin Vars
  /\ Frames \subseteq Seq(Vars)
  /\ MaxFrames \in Nat
  /\ MayOverlap \subseteq Operations
  /\ FirstCallAlone \in BOOLEAN

VARIABLES
  initialized, once,      \* the flag of roots.c, and whether the once ran
  global_roots,           \* the head of the list of global roots
  next, bindings, used,   \* the smal_roots in memory
  global_roots_mutex,     \* who holds it
  callbacks_mutex,
  links,                  \* the rings of the callbacks and of the threads
  kept_cbs,               \* the callbacks that have not been freed
  registered,             \* the threads smal_thread_self knows
  walking_threads,        \* thread_list_lock is held for reading
  frames,                 \* the frames of each thread, the current one last
  pc, var,                \* what each thread does, with its locals
  added,                  \* global bindings added and not removed
  must, marked            \* what this collection has to mark, and has

globals == <<global_roots, next, bindings, used, global_roots_mutex, added>>
cbs     == <<callbacks_mutex, kept_cbs>>
thrs    == <<registered, walking_threads>>
mark    == <<must, marked>>
vars    == <<initialized, once, globals, cbs, links, thrs, frames, pc, var, mark>>

Nodes == Threads \cup Callbacks \cup {callbacks, thread_list}

MarkPlaces == {"mark_start", "mark_callbacks", "mark_globals", "mark_threads", "mark_frames", "marked"}
Places == {"client", "once", "add_lock", "add_head", "remove_lock", "remove_entry",
           "add_callback", "remove_callback"} \cup MarkPlaces

(* The locals of a call; goto is where it goes on once initialised. *)
Locals ==
  [ goto : Places, roots : Frames \cup {<<>>}, r : Entries \cup {Nil}, rp : Entries \cup {Nil},
    entry : Nodes \cup {Nil}, entry_next : Nodes \cup {Nil}, frame : 0..MaxFrames ]
LocalsOf(place, roots, r, entry) ==
  [ goto |-> place, roots |-> roots, r |-> r, rp |-> Nil,
    entry |-> entry, entry_next |-> Nil, frame |-> 0 ]
NoLocals == LocalsOf("client", <<>>, Nil, Nil)

TypeOK ==
  /\ initialized \in BOOLEAN /\ once \in BOOLEAN
  /\ used \subseteq Entries /\ global_roots \in used \cup {Nil}
  /\ next \in [Entries -> Entries \cup {Nil}]
  /\ bindings \in [Entries -> Seq(Vars \cup {NoBinding})]
  /\ global_roots_mutex \in Threads \cup {Nil} /\ callbacks_mutex \in Threads \cup {Nil}
  /\ links \in Links(Nodes, Nil)
  /\ kept_cbs \subseteq Callbacks /\ registered \subseteq Threads
  /\ walking_threads \in BOOLEAN
  /\ frames \in [Threads -> Seq(Frames)]
  /\ pc \in [Threads -> Places] /\ var \in [Threads -> Locals]
  /\ added \subseteq Vars /\ must \subseteq Vars /\ marked \subseteq Vars

Init ==
  /\ initialized = FALSE /\ once = FALSE
  /\ global_roots = Nil /\ used = {} /\ added = {}
  /\ next = [e \in Entries |-> Nil] /\ bindings = [e \in Entries |-> <<>>]
  /\ global_roots_mutex = Nil /\ callbacks_mutex = Nil
  /\ links = [next |-> [n \in Nodes |-> Nil], prev |-> [n \in Nodes |-> Nil]]
  /\ kept_cbs = {} /\ registered = {} /\ walking_threads = FALSE
  /\ frames = [t \in Threads |-> <<>>]
  /\ pc = [t \in Threads |-> "client"] /\ var = [t \in Threads |-> NoLocals]
  /\ must = {} /\ marked = {}

-----------------------------------------------------------------------------
Bound(f) == {f[i] : i \in DOMAIN f} \ {NoBinding}

(* What is registered, of every kind. *)
RootVars ==
  added \cup {DataOf[c] : c \in kept_cbs}
        \cup UNION {UNION {Bound(frames[t][i]) : i \in DOMAIN frames[t]} : t \in Threads}

Marking == \E t \in Threads : pc[t] \in MarkPlaces

(* The program's part: what it leaves alone while a collection marks. *)
May(op) == Marking => op \in MayOverlap

Goto(t, place) == pc' = [pc EXCEPT ![t] = place]
Return(t) == Goto(t, "client") /\ var' = [var EXCEPT ![t] = NoLocals]

(* A call begins: "if ( ! initialized ) initialize()", where initialized   *)
(* is set before the once has run.                                         *)
Enter(t, place, roots, r, entry) ==
  /\ pc[t] = "client"
  /\ FirstCallAlone => (initialized => once)
  /\ initialized' = TRUE
  /\ Goto(t, IF initialized THEN place ELSE "once")
  /\ var' = [var EXCEPT ![t] = LocalsOf(place, roots, r, entry)]

Once(t) ==
  /\ pc[t] = "once"
  /\ once' = TRUE
  /\ links' = IF once THEN links ELSE InitNode(links, callbacks)
  /\ Goto(t, var[t].goto)
  /\ UNCHANGED <<initialized, globals, cbs, thrs, frames, var, mark>>

(* The ring of the threads is made by the first thread that asks for       *)
(* itself (_smal_thread_init), and each thread enters once (thread_init).  *)
ThreadRing == IF registered = {} THEN InitNode(links, thread_list) ELSE links

thread_init(t) ==
  /\ ~ walking_threads
  /\ registered' = registered \cup {t}
  /\ links' = Insert(ThreadRing, thread_list, t)

(* smal_thread_self in a thread the registry does not know yet. *)
smal_thread_self(t) ==
  /\ pc[t] = "client" /\ t \notin registered
  /\ thread_init(t)
  /\ UNCHANGED <<initialized, once, globals, cbs, walking_threads, frames, pc, var, mark>>

(* smal_roots_begin and smal_roots_end: a frame on the thread's own stack. *)
smal_roots_begin(t, f) ==
  /\ pc[t] = "client" /\ t \in registered /\ May("begin")
  /\ Len(frames[t]) < MaxFrames
  /\ frames' = [frames EXCEPT ![t] = Append(@, f)]
  /\ UNCHANGED <<initialized, once, globals, cbs, links, thrs, pc, var, mark>>

smal_roots_end(t) ==
  /\ pc[t] = "client" /\ frames[t] # <<>> /\ May("end")
  /\ frames' = [frames EXCEPT ![t] = SubSeq(@, 1, Len(@) - 1)]
  /\ UNCHANGED <<initialized, once, globals, cbs, links, thrs, pc, var, marked>>
  /\ must' = must \cap RootVars'

(* smal_roots_add_global: a copy, pushed on the list under the mutex.      *)
smal_roots_add_global(t, f) ==
  /\ May("add")
  /\ \E e \in Entries \ used :
       /\ Enter(t, "add_lock", f, e, Nil)
       /\ used' = used \cup {e}
       /\ bindings' = [bindings EXCEPT ![e] = f]
  /\ UNCHANGED <<once, global_roots, next, global_roots_mutex, added,
                 cbs, links, thrs, frames, mark>>

AddLock_NoMutex(t) ==
  /\ pc[t] = "add_lock"
  /\ next' = [next EXCEPT ![var[t].r] = global_roots]
  /\ Goto(t, "add_head")
  /\ UNCHANGED <<initialized, once, global_roots, bindings, used, global_roots_mutex, added, cbs,
                 links, thrs, frames, var, mark>>

AddLock(t) ==
  /\ pc[t] = "add_lock" /\ global_roots_mutex = Nil
  /\ global_roots_mutex' = t
  /\ next' = [next EXCEPT ![var[t].r] = global_roots]
  /\ Goto(t, "add_head")
  /\ UNCHANGED <<initialized, once, global_roots, bindings, used, added, cbs,
                 links, thrs, frames, var, mark>>

AddHead(t) ==
  /\ pc[t] = "add_head"
  /\ global_roots' = var[t].r
  /\ global_roots_mutex' = Nil
  /\ added' = added \cup Bound(var[t].roots)
  /\ Return(t)
  /\ UNCHANGED <<initialized, once, next, bindings, used, cbs, links, thrs, frames, mark>>

(* smal_roots_remove_global: entry by entry, the bindings it was given are *)
(* cleared; an entry in which all were cleared now is taken out and freed. *)
smal_roots_remove_global(t, f) ==
  /\ May("remove")
  /\ Enter(t, "remove_lock", f, Nil, Nil)
  /\ UNCHANGED <<once, globals, cbs, links, thrs, frames, mark>>

RemoveLock(t) ==
  /\ pc[t] = "remove_lock" /\ global_roots_mutex = Nil
  /\ global_roots_mutex' = t
  /\ added' = added \ Bound(var[t].roots)
  /\ Goto(t, "remove_entry")
  /\ UNCHANGED <<initialized, once, global_roots, next, bindings, used, cbs,
                 links, thrs, frames, var, marked>>
  /\ must' = must \cap RootVars'

(* The bindings of entry r that one of these clears. *)
ClearedIn(r, f) == {j \in DOMAIN bindings[r] : bindings[r][j] \in Bound(f)}

(* "r_cleared == r->_bindings_n": all of them, in this call. *)
FreesEntry_Any(r, f) == ClearedIn(r, f) # {}
FreesEntry(r, f) == ClearedIn(r, f) = DOMAIN bindings[r]

(* "*rp = value": rp is the head or the field of the entry before. *)
StoreRp(t, value) ==
  IF var[t].rp = Nil
  THEN global_roots' = value /\ UNCHANGED next
  ELSE next' = [next EXCEPT ![var[t].rp] = value] /\ UNCHANGED global_roots

RemoveEntry(t) ==
  LET r == IF var[t].rp = Nil THEN global_roots ELSE next[var[t].rp] IN
  /\ pc[t] = "remove_entry"
  /\ IF r = Nil
     THEN /\ global_roots_mutex' = Nil
          /\ Return(t)
          /\ UNCHANGED <<global_roots, next, bindings, used>>
     ELSE /\ IF FreesEntry(r, var[t].roots)
             THEN /\ StoreRp(t, next[r])
                  /\ used' = used \ {r}
                  /\ bindings' = [bindings EXCEPT ![r] = <<>>]
                  /\ UNCHANGED var
             ELSE /\ var' = [var EXCEPT ![t].rp = r]
                  /\ bindings' = [bindings EXCEPT ![r] =
                       [j \in DOMAIN @ |-> IF j \in ClearedIn(r, var[t].roots)
                                           THEN NoBinding ELSE @[j]]]
                  /\ UNCHANGED <<global_roots, next, used>>
          /\ UNCHANGED <<global_roots_mutex, pc>>
  /\ UNCHANGED <<initialized, once, added, cbs, links, thrs, frames, mark>>

(* smal_roots_add_callback, smal_roots_remove_callback: one short section  *)
(* under the mutex of the callbacks.  A handle is removed once.            *)
Handles == {var[t].entry : t \in Threads}

smal_roots_add_callback(t) ==
  /\ May("add_callback")
  /\ \E c \in Callbacks \ (kept_cbs \cup Handles) :
       Enter(t, "add_callback", <<>>, Nil, c)
  /\ UNCHANGED <<once, globals, cbs, links, thrs, frames, mark>>

AddCallback(t) ==
  /\ pc[t] = "add_callback" /\ callbacks_mutex = Nil
  /\ LET c == var[t].entry IN
     /\ links' = Insert(InitNode(links, c), callbacks, c)
     /\ kept_cbs' = kept_cbs \cup {c}
  /\ Return(t)
  /\ UNCHANGED <<initialized, once, globals, callbacks_mutex, thrs, frames, mark>>

smal_roots_remove_callback(t) ==
  /\ May("remove_callback")
  /\ \E c \in kept_cbs \ Handles :
       Enter(t, "remove_callback", <<>>, Nil, c)
  /\ UNCHANGED <<once, globals, cbs, links, thrs, frames, mark>>

RemoveCallback_NoLock(t) ==
  /\ pc[t] = "remove_callback"
  /\ LET c == var[t].entry IN
     /\ links' = Delete(links, c)
     /\ kept_cbs' = kept_cbs \ {c}
  /\ Return(t)
  /\ UNCHANGED <<initialized, once, globals, callbacks_mutex, thrs, frames, marked>>
  /\ must' = must \cap RootVars'

RemoveCallback(t) ==
  /\ pc[t] = "remove_callback" /\ callbacks_mutex = Nil
  /\ LET c == var[t].entry IN
     /\ links' = Delete(links, c)
     /\ kept_cbs' = kept_cbs \ {c}
  /\ Return(t)
  /\ UNCHANGED <<initialized, once, globals, callbacks_mutex, thrs, frames, marked>>
  /\ must' = must \cap RootVars'

-----------------------------------------------------------------------------
(* smal_roots_mark_chain, in the thread that collects.                     *)

Set(t, field, value) == [var EXCEPT ![t] = [@ EXCEPT ![field] = value]]

smal_roots_mark_chain(t) ==
  /\ t \in registered
  /\ \A u \in Threads : pc[u] \notin MarkPlaces /\ var[u].goto # "mark_start"
  /\ \A u \in Threads : pc[u] \in {"remove_lock", "remove_entry"} => "remove" \in MayOverlap
  /\ Enter(t, "mark_start", <<>>, Nil, Nil)
  /\ UNCHANGED <<once, globals, cbs, links, thrs, frames, mark>>

(* smal_callbacks_invoke: locks, and takes the first next. *)
LockCallbacks(t) ==
  /\ pc[t] = "mark_start" /\ callbacks_mutex = Nil
  /\ callbacks_mutex' = t
  /\ var' = Set(t, "entry_next", links.next[callbacks])
  /\ must' = RootVars /\ marked' = {}
  /\ Goto(t, "mark_callbacks")
  /\ UNCHANGED <<initialized, once, globals, kept_cbs, links, thrs, frames>>

(* The next of an entry is read before its function is called. *)
InvokeCallback(t) ==
  LET c == var[t].entry_next IN
  /\ pc[t] = "mark_callbacks"
  /\ IF c = callbacks
     THEN /\ callbacks_mutex' = Nil
          /\ Goto(t, "mark_globals")
          /\ var' = Set(t, "r", global_roots)
          /\ UNCHANGED marked
     ELSE /\ var' = Set(t, "entry_next", links.next[c])
          /\ marked' = marked \cup {DataOf[c]}
          /\ UNCHANGED <<callbacks_mutex, pc>>
  /\ UNCHANGED <<initialized, once, globals, kept_cbs, links, thrs, frames, must>>

(* mark_roots(global_roots). *)
MarkGlobal(t) ==
  LET r == var[t].r IN
  /\ pc[t] = "mark_globals"
  /\ IF r = Nil
     THEN /\ walking_threads' = TRUE
          /\ var' = Set(t, "entry_next", links.next[thread_list])
          /\ Goto(t, "mark_threads")
          /\ UNCHANGED marked
     ELSE /\ marked' = marked \cup Bound(bindings[r])
          /\ var' = Set(t, "r", next[r])
          /\ UNCHANGED <<walking_threads, pc>>
  /\ UNCHANGED <<initialized, once, globals, cbs, links, registered, frames, must>>

(* smal_thread_each(mark_thread), with thread_list_lock held. *)
EachEnds_Rootless(u) == u = thread_list \/ frames[u] = <<>>
EachEnds(u) == u = thread_list

MarkThread(t) ==
  LET u == var[t].entry_next IN
  /\ pc[t] = "mark_threads"
  /\ IF EachEnds(u)
     THEN /\ walking_threads' = FALSE
          /\ Goto(t, "marked")
          /\ UNCHANGED var
     ELSE /\ var' = [var EXCEPT ![t] =
                       [@ EXCEPT !.entry = u, !.entry_next = links.next[u],
                                 !.frame = Len(frames[u])]]
          /\ Goto(t, "mark_frames")
          /\ UNCHANGED walking_threads
  /\ UNCHANGED <<initialized, once, globals, cbs, links, registered, frames, mark>>

MarkFrame(t) ==
  LET u == var[t].entry  k == var[t].frame IN
  /\ pc[t] = "mark_frames"
  /\ IF k = 0
     THEN Goto(t, "mark_threads") /\ UNCHANGED <<var, marked>>
     ELSE /\ k \in DOMAIN frames[u]
          /\ marked' = marked \cup Bound(frames[u][k])
          /\ var' = Set(t, "frame", k - 1)
          /\ UNCHANGED pc
  /\ UNCHANGED <<initialized, once, globals, cbs, links, thrs, frames, must>>

Collected(t) ==
  /\ pc[t] = "marked"
  /\ Return(t)
  /\ must' = {} /\ marked' = {}
  /\ UNCHANGED <<initialized, once, globals, cbs, links, thrs, frames>>

Client(t) ==
  \/ smal_thread_self(t)
  \/ \E f \in Frames : \/ smal_roots_begin(t, f)
                       \/ smal_roots_add_global(t, f)
                       \/ smal_roots_remove_global(t, f)
  \/ smal_roots_end(t)
  \/ smal_roots_add_callback(t) \/ smal_roots_remove_callback(t)
  \/ smal_roots_mark_chain(t)

Step(t) ==
  \/ Once(t)
  \/ AddLock(t) \/ AddHead(t) \/ RemoveLock(t) \/ RemoveEntry(t)
  \/ AddCallback(t) \/ RemoveCallback(t)
  \/ LockCallbacks(t) \/ InvokeCallback(t) \/ MarkGlobal(t)
  \/ MarkThread(t) \/ MarkFrame(t) \/ Collected(t)

Next == \E t \in Threads : Client(t) \/ Step(t)

Spec == Init /\ [][Next]_vars

-----------------------------------------------------------------------------
(* A variable that was a root when the marking began and still is one has  *)
(* been marked when it is over, of whatever kind and in whatever thread.   *)
RootsMarked == \A t \in Threads : pc[t] = "marked" => must \subseteq marked

(* No thread follows a pointer into what has been freed, popped or not yet *)
(* initialised.                                                            *)
UseSafe ==
  \A t \in Threads :
    /\ pc[t] \notin {"client", "once"} => once
    /\ pc[t] = "mark_callbacks" => var[t].entry_next \in kept_cbs \cup {callbacks}
    /\ pc[t] = "mark_globals" => var[t].r \in used \cup {Nil}
    /\ pc[t] = "mark_frames" => var[t].frame <= Len(frames[var[t].entry])

(* The nodes from e on, along nx up to "end": the least set closed under   *)
(* nx.                                                                     *)
NodesFrom(nx, e, end) ==
  {x \in DOMAIN nx : \A S \in SUBSET DOMAIN nx :
     (e # end => e \in S) /\ (\A y \in S : nx[y] # end => nx[y] \in S) => x \in S}

(* The entries of the list. *)
Listed == NodesFrom(next, global_roots, Nil)

(* When nobody changes it, the list of global roots has the bindings that  *)
(* were added and not removed, and no entry is lost or freed in it.        *)
GlobalExact ==
  global_roots_mutex = Nil =>
    /\ UNION {Bound(bindings[e]) : e \in Listed} = added
    /\ Listed = used \ {var[t].r : t \in {u \in Threads : var[u].goto = "add_lock"}}
=============================================================================
