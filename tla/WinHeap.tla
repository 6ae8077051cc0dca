------------------------------ MODULE WinHeap ------------------------------
(***************************************************************************)
(* The memory of the win32 emulation (loader/win32.c): every block that    *)
(* the codec allocates has a header in a doubly linked list, so that       *)
(* my_garbagecollection can release what the codec forgot.  The list is    *)
(* guarded by `memmut', which is initialized by the allocation that finds  *)
(* the list empty, and destroyed by the release that leaves it empty.      *)
(*                                                                         *)
(* The codec's threads are foreign code.  They release a block once; the   *)
(* collection runs when they have ended.  They may write over the header   *)
(* of a block, from either side.  `prev' and `next' are what this code has *)
(* stored in a header; a link in `wild' is no longer what is there, and    *)
(* whoever follows it is "lost": the program crashes, or goes on in memory *)
(* of which nothing is known, and the model ends.  Code that is under the  *)
(* mutex in every execution is one step where nothing outside of it looks  *)
(* on.                                                                     *)
(***************************************************************************)
EXTENDS Naturals, FiniteSets

CONSTANTS
  Threads, Main,   \* the threads; Main is the one that is there first
  Blocks, NULL,    \* addresses of headers
  MaxSpoiled       \* bound: headers that are overwritten at a time

ASSUME HeapAssumption ==
  Main \in Threads /\ NULL \notin Blocks /\ NULL \notin Threads
  /\ MaxSpoiled \in Nat

VARIABLES
  last, cnt,     \* last_alloc, alccnt
  prev, next,    \* of each header
  beef,          \* deadbeef is in place
  wild,          \* links that the codec has overwritten
  mem,           \* blocks that malloc has given out
  memmut,        \* who holds the mutex (NULL: nobody)
  held,          \* blocks the codec may use and release
  running,       \* the threads that run
  pc, blk, cur,  \* of each thread: where it is, its block, its place in the list
  gc, loops      \* the collection: "no", "run", "end"; parity of its loops

listVars == <<last, cnt, prev, next>>
gcVars   == <<gc, loops>>
vars == <<listVars, beef, wild, mem, memmut, held, running, pc, blk, cur, gcVars>>

Goto(t, l) == pc' = [pc EXCEPT ![t] = l]
Links(b)   == {<<b, "prev">>, <<b, "next">>}
Idle(t)    == t \in running /\ pc[t] = "idle" /\ gc = "no"
---------------------------------------------------------------------------
(* mreq_private: malloc, then a first look at the list, without the mutex. *)
mreq_private(t) ==
  /\ Idle(t)
  /\ \E b \in Blocks \ mem :
       mem' = mem \cup {b} /\ blk' = [blk EXCEPT ![t] = b]
  /\ Goto(t, IF last = NULL THEN "init" ELSE "lock")
  /\ UNCHANGED <<listVars, beef, wild, memmut, held, running, cur, gcVars>>

(* The list was empty: the mutex is initialized, whoever may hold it.      *)
mreqInit(t) ==
  /\ pc[t] = "init"
  /\ memmut' = NULL
  /\ Goto(t, "lockfirst")
  /\ UNCHANGED <<listVars, beef, wild, mem, held, running, blk, cur, gcVars>>

(* Mutant: the mutex is not taken. *)
mreqLock_not(t) ==
  /\ pc[t] \in {"lockfirst", "lock"}
  /\ Goto(t, IF pc[t] = "lock" THEN "setnext" ELSE "link")
  /\ UNCHANGED <<listVars, beef, wild, mem, memmut, held, running, blk, cur, gcVars>>

mreqLock(t) ==
  /\ pc[t] \in {"lockfirst", "lock"} /\ memmut = NULL
  /\ memmut' = t
  /\ Goto(t, IF pc[t] = "lock" THEN "setnext" ELSE "link")
  /\ UNCHANGED <<listVars, beef, wild, mem, held, running, blk, cur, gcVars>>

(* last_alloc->next = header (a null pointer is written through if the     *)
(* list has become empty)                                                  *)
mreqNext(t) ==
  /\ pc[t] = "setnext"
  /\ IF last = NULL THEN Goto(t, "crash") /\ UNCHANGED <<next, wild>>
     ELSE /\ Goto(t, "link") /\ next' = [next EXCEPT ![last] = blk[t]]
          /\ wild' = wild \ {<<last, "next">>}
  /\ UNCHANGED <<last, cnt, prev, beef, mem, memmut, held, running, blk, cur, gcVars>>

mreqLink(t) ==
  /\ pc[t] = "link"
  /\ prev' = [prev EXCEPT ![blk[t]] = last]
  /\ next' = [next EXCEPT ![blk[t]] = NULL]
  /\ wild' = wild \ Links(blk[t])
  /\ Goto(t, "publish")
  /\ UNCHANGED <<last, cnt, beef, mem, memmut, held, running, blk, cur, gcVars>>

(* Mutant: the block is not counted. *)
mreqPublish_noCount(t) ==
  /\ pc[t] = "publish"
  /\ last' = blk[t] /\ cnt' = cnt
  /\ memmut' = NULL
  /\ Goto(t, "stamp")
  /\ UNCHANGED <<prev, next, beef, wild, mem, held, running, blk, cur, gcVars>>

mreqPublish(t) ==
  /\ pc[t] = "publish"
  /\ last' = blk[t] /\ cnt' = cnt + 1
  /\ memmut' = NULL
  /\ Goto(t, "stamp")
  /\ UNCHANGED <<prev, next, beef, wild, mem, held, running, blk, cur, gcVars>>

(* deadbeef, size and type are stored when the block is in the list and    *)
(* the mutex is free again.                                                *)
mreqStamp(t) ==
  /\ pc[t] = "stamp"
  /\ beef' = [beef EXCEPT ![blk[t]] = TRUE]
  /\ held' = held \cup {blk[t]}
  /\ Goto(t, "idle")
  /\ UNCHANGED <<listVars, wild, mem, memmut, running, blk, cur, gcVars>>
---------------------------------------------------------------------------
(* my_release: a block without deadbeef is reported and left alone.        *)
my_release(t) ==
  /\ Idle(t)
  /\ \E b \in held :
       /\ held' = held \ {b}
       /\ blk' = [blk EXCEPT ![t] = b]
       /\ Goto(t, IF beef[b] THEN "rlock" ELSE "idle")
  /\ UNCHANGED <<listVars, beef, wild, mem, memmut, running, cur, gcVars>>

releaseLock(t) ==
  /\ pc[t] = "rlock" /\ memmut = NULL
  /\ memmut' = t
  /\ Goto(t, "unlink")
  /\ UNCHANGED <<listVars, beef, wild, mem, held, running, blk, cur, gcVars>>

(* Mutant: the header before the released one keeps pointing to it. *)
Unlink_oneWay(b) ==
  /\ next' = next
  /\ prev' = [h \in Blocks |-> IF h = next[b] THEN prev[b] ELSE prev[h]]
  /\ last' = (IF last = b THEN prev[b] ELSE last)
  /\ cnt' = cnt - 1
  /\ beef' = [beef EXCEPT ![b] = FALSE]
  /\ wild' = wild \ (Links(b) \cup {<<prev[b], "next">>, <<next[b], "prev">>})

(* Mutant: last_alloc is not moved. *)
Unlink_keepLast(b) ==
  /\ next' = [h \in Blocks |-> IF h = prev[b] THEN next[b] ELSE next[h]]
  /\ prev' = [h \in Blocks |-> IF h = next[b] THEN prev[b] ELSE prev[h]]
  /\ last' = last
  /\ cnt' = cnt - 1
  /\ beef' = [beef EXCEPT ![b] = FALSE]
  /\ wild' = wild \ (Links(b) \cup {<<prev[b], "next">>, <<next[b], "prev">>})

Unlink(b) ==
  /\ next' = [h \in Blocks |-> IF h = prev[b] THEN next[b] ELSE next[h]]
  /\ prev' = [h \in Blocks |-> IF h = next[b] THEN prev[b] ELSE prev[h]]
  /\ last' = (IF last = b THEN prev[b] ELSE last)
  /\ cnt' = cnt - 1
  /\ beef' = [beef EXCEPT ![b] = FALSE]
  /\ wild' = wild \ (Links(b) \cup {<<prev[b], "next">>, <<next[b], "prev">>})

releaseUnlink(t) ==
  /\ pc[t] = "unlink"
  /\ Links(blk[t]) \cap wild = {}
  /\ Unlink(blk[t])
  /\ Goto(t, "free")
  /\ UNCHANGED <<mem, memmut, held, running, blk, cur, gcVars>>

(* The mutex is unlocked, or destroyed with the list (a mutex destroyed    *)
(* while it is held may stay held); the block goes back to malloc.         *)
releaseFree(t) ==
  /\ pc[t] = "free"
  /\ memmut' = NULL \/ (last = NULL /\ memmut' = memmut)
  /\ mem' = mem \ {blk[t]}
  /\ Goto(t, "idle")
  /\ UNCHANGED <<listVars, beef, wild, held, running, blk, cur, gcVars>>
---------------------------------------------------------------------------
(* GlobalSize reads last_alloc before it takes the mutex, and walks, as    *)
(* far as the block or a header without deadbeef.                          *)
GlobalSize(t) ==
  /\ Idle(t)
  /\ \E b \in held : blk' = [blk EXCEPT ![t] = b]
  /\ cur' = [cur EXCEPT ![t] = last]
  /\ Goto(t, "slock")
  /\ UNCHANGED <<listVars, beef, wild, mem, memmut, held, running, gcVars>>

sizeLock(t) ==
  /\ pc[t] = "slock" /\ memmut = NULL
  /\ memmut' = t
  /\ Goto(t, "walk")
  /\ UNCHANGED <<listVars, beef, wild, mem, held, running, blk, cur, gcVars>>

sizeWalk(t) ==
  /\ pc[t] = "walk"
  /\ IF cur[t] # NULL /\ beef[cur[t]] /\ cur[t] # blk[t]
       THEN /\ <<cur[t], "prev">> \notin wild
            /\ cur' = [cur EXCEPT ![t] = prev[cur[t]]]
            /\ UNCHANGED <<pc, memmut>>
       ELSE /\ memmut' = NULL
            /\ cur' = [cur EXCEPT ![t] = NULL]
            /\ Goto(t, "idle")
  /\ UNCHANGED <<listVars, beef, wild, mem, held, running, blk, gcVars>>

(* my_release writes through an overwritten link, or GlobalSize walks on   *)
(* along it.                                                               *)
lose(t) ==
  /\ \/ pc[t] = "unlink" /\ Links(blk[t]) \cap wild # {}
     \/ /\ pc[t] = "walk" /\ cur[t] \notin {NULL, blk[t]}
        /\ beef[cur[t]] /\ <<cur[t], "prev">> \in wild
  /\ Goto(t, "lost")
  /\ UNCHANGED <<listVars, beef, wild, mem, memmut, held, running, blk, cur, gcVars>>
---------------------------------------------------------------------------
(* CreateThread: the pthread_t of the new thread is a block of its own,    *)
(* which is never released before the collection.                          *)
CreateThread(t) ==
  /\ Idle(Main) /\ t \in Threads \ running
  /\ \E b \in held : held' = held \ {b}
  /\ running' = running \cup {t}
  /\ UNCHANGED <<listVars, beef, wild, mem, memmut, pc, blk, cur, gcVars>>

(* The headers that are overwritten, if this one is too.                   *)
Spoiled(b) ==
  {b} \cup {d \in mem : Links(d) \cap wild # {}} \cup {d \in held : ~beef[d]}

(* The codec writes past the end of the block before, over the first       *)
(* fields of a header: prev, next, deadbeef.                               *)
Overrun ==
  /\ gc = "no"
  /\ \E b \in held :
       /\ Cardinality(Spoiled(b)) <= MaxSpoiled
       /\ \/ wild' = wild \cup {<<b, "prev">>} /\ beef' = beef
          \/ wild' = wild \cup Links(b) /\ beef' \in {beef, [beef EXCEPT ![b] = FALSE]}
  /\ UNCHANGED <<listVars, mem, memmut, held, running, pc, blk, cur, gcVars>>

(* It writes before the start of its block, over the last fields of the    *)
(* header, as far as deadbeef.                                             *)
Underrun ==
  /\ gc = "no"
  /\ \E b \in held :
       /\ Cardinality(Spoiled(b)) <= MaxSpoiled
       /\ beef' = [beef EXCEPT ![b] = FALSE]
  /\ UNCHANGED <<listVars, wild, mem, memmut, held, running, pc, blk, cur, gcVars>>

(* my_garbagecollection, when the other threads have ended.                *)
my_garbagecollection ==
  /\ gc = "no" /\ last # NULL
  /\ \A t \in Threads : pc[t] = "idle"
  /\ gc' = "run" /\ held' = {} /\ running' = {Main}
  /\ UNCHANGED <<listVars, beef, wild, mem, memmut, pc, blk, cur, loops>>

(* my_release of the last block returns 0 whether it released it or not.   *)
collect ==
  /\ gc = "run" /\ last # NULL
  /\ \/ ~beef[last] /\ UNCHANGED <<listVars, beef, wild, mem>>
     \/ /\ beef[last] /\ Links(last) \cap wild = {}
        /\ Unlink(last) /\ mem' = mem \ {last}
  /\ loops' = 1 - loops
  /\ UNCHANGED <<memmut, held, running, pc, blk, cur, gc>>

collectLost ==
  /\ gc = "run" /\ last # NULL
  /\ beef[last] /\ Links(last) \cap wild # {}
  /\ gc' = "lost"
  /\ UNCHANGED <<listVars, beef, wild, mem, memmut, held, running, pc, blk, cur, loops>>

collectEnd ==
  /\ gc = "run" /\ last = NULL
  /\ gc' = "end"
  /\ UNCHANGED <<listVars, beef, wild, mem, memmut, held, running, pc, blk, cur, loops>>
---------------------------------------------------------------------------
Init ==
  /\ last = NULL /\ cnt = 0
  /\ prev = [b \in Blocks |-> NULL] /\ next = [b \in Blocks |-> NULL]
  /\ beef = [b \in Blocks |-> FALSE] /\ wild = {} /\ mem = {} /\ memmut = NULL
  /\ held = {} /\ running = {Main}
  /\ pc = [t \in Threads |-> "idle"] /\ blk = [t \in Threads |-> NULL]
  /\ cur = [t \in Threads |-> NULL]
  /\ gc = "no" /\ loops = 0

Inside(t) ==
  mreqInit(t) \/ mreqLock(t) \/ mreqNext(t) \/ mreqLink(t) \/ mreqPublish(t)
  \/ mreqStamp(t) \/ releaseLock(t) \/ releaseUnlink(t) \/ releaseFree(t)
  \/ sizeLock(t) \/ sizeWalk(t) \/ lose(t)

Lost == gc = "lost" \/ \E t \in Threads : pc[t] = "lost"

Next ==
  /\ ~Lost
  /\ \/ \E t \in Threads : mreq_private(t) \/ my_release(t) \/ GlobalSize(t)
                           \/ CreateThread(t) \/ Inside(t)
     \/ Overrun \/ Underrun \/ my_garbagecollection \/ collect \/ collectLost
     \/ collectEnd

Spec     == Init /\ [][Next]_vars
FairSpec == Spec /\ WF_vars(collect) /\ WF_vars(collectEnd)
---------------------------------------------------------------------------
Locking == {"setnext", "link", "publish", "unlink", "free", "walk"}
Places  == {"idle", "init", "lockfirst", "lock", "stamp", "rlock", "slock", "crash",
            "lost"} \cup Locking

(* Types.                                                                  *)
TypeOK ==
  /\ last \in Blocks \cup {NULL} /\ cnt \in Nat
  /\ prev \in [Blocks -> Blocks \cup {NULL}]
  /\ next \in [Blocks -> Blocks \cup {NULL}]
  /\ beef \in [Blocks -> BOOLEAN] /\ mem \subseteq Blocks
  /\ wild \subseteq Blocks \X {"prev", "next"}
  /\ memmut \in Threads \cup {NULL}
  /\ held \subseteq Blocks /\ running \subseteq Threads
  /\ pc \in [Threads -> Places] /\ blk \in [Threads -> Blocks \cup {NULL}]
  /\ cur \in [Threads -> Blocks \cup {NULL}]
  /\ gc \in {"no", "run", "end", "lost"} /\ loops \in 0 .. 1

(* The mutex that is initialized late and destroyed early does its work:   *)
(* one thread at a time is at the list, and nobody finds it empty after    *)
(* having seen it full.                                                    *)
OneAtTheList ==
  /\ \A t, u \in Threads : pc[t] \in Locking /\ pc[u] \in Locking => t = u
  /\ \A t \in Threads : pc[t] # "crash"

Linked == mem \ {blk[t] : t \in {u \in Threads : pc[u] \in {"init",
                    "lockfirst", "lock", "setnext", "link", "publish", "free"}}}

(* What can be reached from last_alloc along prev: the least set that holds*)
(* last_alloc and the prev of each of its members.                         *)
Reached ==
  {b \in Blocks :
     \A S \in SUBSET Blocks :
       last \in S \cup {NULL} /\ (\A d \in S : prev[d] \in S \cup {NULL}) => b \in S}

(* While nobody holds the mutex, the list holds exactly the blocks that    *)
(* have been allocated and not released, and alccnt counts them: the       *)
(* collection finds every block.                                           *)
ListComplete ==
  memmut = NULL => Reached = Linked /\ cnt = Cardinality(Linked)

(* ... and both directions of the list agree.                              *)
LinksAgree ==
  memmut = NULL =>
    \A b \in Linked :
      /\ prev[b] # NULL => prev[b] \in Linked /\ next[prev[b]] = b
      /\ next[b] # NULL => next[b] \in Linked /\ prev[next[b]] = b
      /\ next[b] = NULL <=> b = last

(* The list as this code has stored it is complete, and can be walked and  *)
(* unlinked from both ways.  Where the codec has overwritten links, that   *)
(* is true of the others; the guard word behind the links saves a thread   *)
(* from following overwritten ones only if the overrun reached it.         *)
ListIntact == ListComplete /\ LinksAgree

(* The collection ends, if no header it meets has been overwritten.  (It   *)
(* does not otherwise: my_release of the last block returns 0 whether it   *)
(* released it or not, so that max_fatal, win32.c:5750-5753, which is to   *)
(* "avoid endless loop when memory is trashed", is never counted down.)    *)
GCEnds == (gc = "run" /\ wild = {} /\ \A b \in mem : beef[b]) ~> (gc = "end")
===========================================================================
