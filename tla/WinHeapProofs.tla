--------------------------- MODULE WinHeapProofs ---------------------------
(***************************************************************************)
(* One thread at a time is at the list of heap blocks, and the links of    *)
(* the list agree, for any number of threads and blocks.  Two facts carry  *)
(* each other.  Order: the list is ordered by the time of its blocks'      *)
(* allocation, so that last_alloc is null only if no block is linked.      *)
(* Pinned: while a second thread runs, the block of its pthread_t is       *)
(* linked and nobody's to release.  Hence a list is empty only while Main  *)
(* is alone, and the mutex is initialized and destroyed by Main alone.     *)
(***************************************************************************)
EXTENDS WinHeap, Integers, FiniteSetTheorems, WellFoundedInduction, TLAPS

Types ==
  /\ last \in Blocks \cup {NULL} /\ cnt \in Int
  /\ prev \in [Blocks -> Blocks \cup {NULL}]
  /\ next \in [Blocks -> Blocks \cup {NULL}]
  /\ beef \in [Blocks -> BOOLEAN] /\ mem \subseteq Blocks
  /\ memmut \in Threads \cup {NULL}
  /\ held \subseteq Blocks /\ running \subseteq Threads
  /\ pc \in [Threads -> Places] /\ blk \in [Threads -> Blocks \cup {NULL}]
  /\ gc \in {"no", "run", "end", "lost"}

Requesting == {"init", "lockfirst", "lock", "setnext", "link", "publish"}
Working    == Requesting \cup {"stamp", "rlock", "unlink", "free"}

(* A thread's block is its own while it requests or releases it.           *)
Owned ==
  /\ held \subseteq mem /\ (gc # "no" => held = {})
  /\ \A t \in Threads : pc[t] \in Working => blk[t] \in mem \ held
  /\ \A t, u \in Threads :
       pc[t] \in Working /\ pc[u] \in Working /\ t # u => blk[t] # blk[u]

(* Who does anything runs, and the collection runs alone.                  *)
Alive ==
  /\ Main \in running
  /\ \A t \in Threads : pc[t] # "idle" => t \in running /\ gc = "no"

Locked ==
  /\ \A t \in Threads : pc[t] \in Locking => memmut = t
  /\ \A t \in Threads : pc[t] \in {"init", "lockfirst"} => last = NULL /\ running = {Main}
  /\ \A t \in Threads : pc[t] \in {"lock", "setnext"} => last # NULL
  /\ \A t \in Threads : pc[t] # "crash"

Busy(b) == \E t \in Threads : pc[t] \in Working /\ blk[t] = b

Pinned ==
  gc = "no" /\ running # {Main} => \E b \in Linked : b \notin held /\ ~Busy(b)

(* r is the time at which a block was linked.                              *)
OrderBy(r) ==
  /\ \A b, d \in Linked : r[b] = r[d] => b = d
  /\ last = NULL => Linked = {}
  /\ last # NULL => last \in Linked /\ \A b \in Linked : r[b] <= r[last]
  /\ \A b \in Linked : prev[b] = NULL => \A d \in Linked : r[b] <= r[d]
  /\ \A b \in Linked : prev[b] # NULL =>
       /\ prev[b] \in Linked /\ r[prev[b]] < r[b]
       /\ \A d \in Linked : r[d] < r[b] => r[d] <= r[prev[b]]
  /\ \A b \in Linked : b # last =>
       /\ next[b] \in Linked /\ r[b] < r[next[b]]
       /\ \A d \in Linked : r[b] < r[d] => r[next[b]] <= r[d]

Order == \E r \in [Blocks -> Nat] : OrderBy(r)

(* The ends of the list, and the header about to be linked.                *)
Ends ==
  /\ last # NULL /\ (\A t \in Threads : pc[t] \notin {"link", "publish"}) => next[last] = NULL
  /\ \A t \in Threads : pc[t] \in {"link", "publish"} /\ last # NULL => next[last] = blk[t]
  /\ \A t \in Threads : pc[t] = "publish" => prev[blk[t]] = last /\ next[blk[t]] = NULL

IInv == Types /\ Owned /\ Alive /\ Locked /\ Pinned /\ Order /\ Ends

(* The headers that malloc has given out and that are not in the list. *)
Unlinked == Requesting \cup {"free"}

LEMMA InLinked ==
  Linked = {b \in mem : \A t \in Threads : pc[t] \in Unlinked => blk[t] # b}
  BY DEF Linked, Unlinked, Requesting

(* Nothing has been allocated at the start. *)
LEMMA InitInv == Init => IInv
<1> SUFFICES ASSUME Init PROVE IInv
  OBVIOUS
<1> USE HeapAssumption DEF Init
<1>1. Linked = {}
  BY DEF Linked
<1>2. Types /\ Owned /\ Alive /\ Locked /\ Pinned /\ Ends
  BY DEF Types, Owned, Alive, Locked, Pinned, Ends, Working, Requesting, Locking, Places
<1>3. Order
  <2> DEFINE r == [b \in Blocks |-> 0]
  <2>1. r \in [Blocks -> Nat] /\ OrderBy(r)
    BY <1>1 DEF OrderBy
  <2>q. QED  BY <2>1 DEF Order
<1>q. QED  BY <1>2, <1>3 DEF IInv

(* Taking a block out of an ordered list leaves the list ordered. *)
LEMMA UnlinkOrder ==
  ASSUME Types, NEW r \in [Blocks -> Nat], OrderBy(r), NEW b \in Linked,
         last # NULL => next[last] = NULL,
         Unlink(b), Linked' = Linked \ {b}
  PROVE  OrderBy(r)' /\ (last' # NULL => next'[last'] = NULL)
<1> USE HeapAssumption DEF Types
<1>0. Linked \subseteq Blocks
  BY DEF Linked
<1>1. /\ last' = (IF last = b THEN prev[b] ELSE last)
      /\ \A h \in Blocks : /\ next'[h] = IF h = prev[b] THEN next[b] ELSE next[h]
                           /\ prev'[h] = IF h = next[b] THEN prev[b] ELSE prev[h]
  BY DEF Unlink
<1>2. /\ last' = NULL => Linked' = {}
      /\ last' # NULL => last' \in Linked' /\ \A d \in Linked' : r[d] <= r[last']
  BY <1>0, <1>1 DEF OrderBy
<1>3. \A d \in Linked' : prev'[d] = NULL => \A e \in Linked' : r[d] <= r[e]
  BY <1>0, <1>1 DEF OrderBy
<1>4. \A d \in Linked' : prev'[d] # NULL =>
        /\ prev'[d] \in Linked' /\ r[prev'[d]] < r[d]
        /\ \A e \in Linked' : r[e] < r[d] => r[e] <= r[prev'[d]]
  <2> SUFFICES ASSUME NEW d \in Linked', prev'[d] # NULL
               PROVE  /\ prev'[d] \in Linked' /\ r[prev'[d]] < r[d]
                      /\ \A e \in Linked' : r[e] < r[d] => r[e] <= r[prev'[d]]
    OBVIOUS
  <2>1. d \in Linked /\ d # b /\ d \in Blocks /\ b \in Blocks
    BY <1>0
  <2>2. CASE d = next[b]
    <3>1. prev'[d] = prev[b] /\ b # last /\ r[b] < r[d]
      BY <1>1, <2>1, <2>2 DEF OrderBy
    <3>2. /\ prev[b] \in Linked /\ r[prev[b]] < r[b] /\ prev[b] \in Blocks
          /\ \A e \in Linked : r[e] < r[b] => r[e] <= r[prev[b]]
      BY <1>0, <3>1 DEF OrderBy
    <3>3. \A e \in Linked : r[e] < r[d] => r[e] <= r[b]
      BY <1>0, <2>1, <2>2, <3>1 DEF OrderBy
    <3>4. \A e \in Linked' : e \in Blocks /\ (r[e] <= r[b] => r[e] < r[b])
      <4> SUFFICES ASSUME NEW e \in Linked', r[e] <= r[b] PROVE r[e] < r[b]
        BY <1>0
      <4>1. e \in Linked /\ b \in Linked /\ e # b
        OBVIOUS
      <4>2. \A x, y \in Linked : r[x] = r[y] => x = y
        BY DEF OrderBy
      <4>3. r[e] # r[b]
        BY <4>1, <4>2
      <4>4. r[e] \in Nat /\ r[b] \in Nat
        BY <1>0, <4>1
      <4> QED  BY <4>3, <4>4
    <3>q. QED  BY <1>0, <2>1, <3>1, <3>2, <3>3, <3>4
  <2>3. CASE d # next[b]
    <3>1. prev'[d] = prev[d]
      BY <1>1, <2>1, <2>3
    <3>2. /\ prev[d] \in Linked /\ r[prev[d]] < r[d]
          /\ \A e \in Linked : r[e] < r[d] => r[e] <= r[prev[d]]
      BY <2>1, <3>1 DEF OrderBy
    <3>3. prev[d] # b
      BY <1>0, <2>1, <2>3, <3>2 DEF OrderBy
    <3>q. QED  BY <3>1, <3>2, <3>3
  <2>q. QED  BY <2>2, <2>3
<1>5. \A d \in Linked' : d # last' =>
        /\ next'[d] \in Linked' /\ r[d] < r[next'[d]]
        /\ \A e \in Linked' : r[d] < r[e] => r[next'[d]] <= r[e]
  <2> SUFFICES ASSUME NEW d \in Linked', d # last'
               PROVE  /\ next'[d] \in Linked' /\ r[d] < r[next'[d]]
                      /\ \A e \in Linked' : r[d] < r[e] => r[next'[d]] <= r[e]
    OBVIOUS
  <2>1. d \in Linked /\ d # b /\ d \in Blocks /\ b \in Blocks
    BY <1>0
  <2>2. CASE d = prev[b]
    <3>1. next'[d] = next[b] /\ b # last /\ r[d] < r[b]
      BY <1>1, <2>1, <2>2 DEF OrderBy
    <3>2. /\ next[b] \in Linked /\ r[b] < r[next[b]] /\ next[b] \in Blocks
          /\ \A e \in Linked : r[b] < r[e] => r[next[b]] <= r[e]
      BY <1>0, <3>1 DEF OrderBy
    <3>3. \A e \in Linked : r[d] < r[e] => r[b] <= r[e]
      <4> SUFFICES ASSUME NEW e \in Linked, r[d] < r[e], r[e] < r[b] PROVE FALSE
        BY <1>0
      <4>1. r[e] <= r[d]
        BY <2>1, <2>2 DEF OrderBy
      <4> QED  BY <1>0, <2>1, <4>1
    <3>4. \A e \in Linked' : e \in Blocks /\ (r[b] <= r[e] => r[b] < r[e])
      <4> SUFFICES ASSUME NEW e \in Linked', r[b] <= r[e] PROVE r[b] < r[e]
        BY <1>0
      <4>1. e \in Linked /\ b \in Linked /\ e # b
        OBVIOUS
      <4>2. \A x, y \in Linked : r[x] = r[y] => x = y
        BY DEF OrderBy
      <4>3. r[e] # r[b]
        BY <4>1, <4>2
      <4>4. r[e] \in Nat /\ r[b] \in Nat
        BY <1>0, <4>1
      <4> QED  BY <4>3, <4>4
    <3>q. QED  BY <1>0, <2>1, <3>1, <3>2, <3>3, <3>4
  <2>3. CASE d # prev[b]
    <3>1. next'[d] = next[d] /\ d # last
      BY <1>1, <2>1, <2>3
    <3>2. /\ next[d] \in Linked /\ r[d] < r[next[d]]
          /\ \A e \in Linked : r[d] < r[e] => r[next[d]] <= r[e]
      BY <2>1, <3>1 DEF OrderBy
    <3>3. next[d] # b
      BY <1>0, <2>1, <2>3, <3>2 DEF OrderBy
    <3>q. QED  BY <3>1, <3>2, <3>3
  <2>q. QED  BY <2>2, <2>3
<1>6. last' # NULL => next'[last'] = NULL
  BY <1>0, <1>1 DEF OrderBy
<1>7. \A d, e \in Linked' : r[d] = r[e] => d = e
  BY DEF OrderBy
<1>q. QED  BY <1>2, <1>3, <1>4, <1>5, <1>6, <1>7 DEF OrderBy

(* Putting a block behind the last one leaves the list ordered. *)
LEMMA PublishOrder ==
  ASSUME Types, Order, NEW b \in Blocks, b \notin Linked, Linked' = Linked \cup {b},
         prev[b] = last, next[b] = NULL, last # NULL => next[last] = b,
         last' = b, prev' = prev, next' = next
  PROVE  Order'
<1> USE HeapAssumption DEF Types
<1>0. Linked \subseteq Blocks
  BY DEF Linked
<1>1. PICK r \in [Blocks -> Nat] : OrderBy(r)
  BY DEF Order
<1>2. PICK s \in [Blocks -> Nat] :
        /\ \A d \in Linked : s[d] = r[d]
        /\ last # NULL => s[b] = r[last] + 1
  <2> DEFINE s == [r EXCEPT ![b] = IF last = NULL THEN 0 ELSE r[last] + 1]
  <2>1. s \in [Blocks -> Nat]
    OBVIOUS
  <2>2. /\ \A d \in Linked : s[d] = r[d]
        /\ last # NULL => s[b] = r[last] + 1
    BY <1>0
  <2>q. QED  BY <2>1, <2>2
<1>3. \A d \in Linked : s[d] < s[b]
  BY <1>0, <1>1, <1>2 DEF OrderBy
<1>4. \A d, e \in Linked' : s[d] = s[e] => d = e
  BY <1>0, <1>1, <1>2, <1>3 DEF OrderBy
<1>5. last' # NULL /\ last' \in Linked' /\ \A d \in Linked' : s[d] <= s[last']
  BY <1>0, <1>2, <1>3
<1>6. \A d \in Linked' : prev'[d] = NULL => \A e \in Linked' : s[d] <= s[e]
  BY <1>0, <1>1, <1>2, <1>3 DEF OrderBy
<1>7. \A d \in Linked' : prev'[d] # NULL =>
        /\ prev'[d] \in Linked' /\ s[prev'[d]] < s[d]
        /\ \A e \in Linked' : s[e] < s[d] => s[e] <= s[prev'[d]]
  BY <1>0, <1>1, <1>2, <1>3 DEF OrderBy
<1>8. \A d \in Linked' : d # last' =>
        /\ next'[d] \in Linked' /\ s[d] < s[next'[d]]
        /\ \A e \in Linked' : s[d] < s[e] => s[next'[d]] <= s[e]
  BY <1>0, <1>1, <1>2, <1>3 DEF OrderBy
<1>9. OrderBy(s)'
  BY <1>4, <1>5, <1>6, <1>7, <1>8 DEF OrderBy
<1>q. QED  BY <1>2, <1>9 DEF Order

(* What a step does to the list. *)
LEMMA LinkedStep ==
  ASSUME IInv, NEW t \in Threads
  PROVE  /\ mreqPublish(t) => Linked' = Linked \cup {blk[t]} /\ blk[t] \notin Linked
         /\ releaseUnlink(t) => Linked' = Linked \ {blk[t]} /\ blk[t] \in Linked
         /\ collect => Linked' = Linked \ {IF beef[last] THEN last ELSE NULL}
<1> USE HeapAssumption DEF IInv, Types, Owned, Working, Requesting, Goto
<1>0. /\ Linked = {b \in mem : \A u \in Threads : pc[u] \in Unlinked => blk[u] # b}
      /\ Linked' = {b \in mem' : \A u \in Threads : pc'[u] \in Unlinked => blk'[u] # b}
  BY DEF Linked, Unlinked
<1>1. ASSUME mreqPublish(t)
      PROVE  Linked' = Linked \cup {blk[t]} /\ blk[t] \notin Linked
  BY <1>0, <1>1 DEF mreqPublish, Unlinked
<1>2. ASSUME releaseUnlink(t)
      PROVE  Linked' = Linked \ {blk[t]} /\ blk[t] \in Linked
  BY <1>0, <1>2 DEF releaseUnlink, Unlinked
<1>3. ASSUME collect
      PROVE  Linked' = Linked \ {IF beef[last] THEN last ELSE NULL}
  <2>1. \A u \in Threads : pc[u] = "idle" /\ pc'[u] = "idle"
    BY <1>3 DEF collect, Alive
  <2>2. Linked = mem /\ Linked' = mem'
    BY <1>0, <2>1 DEF Unlinked
  <2>3. mem' = mem \ {IF beef[last] THEN last ELSE NULL}
    BY <1>3 DEF collect
  <2>q. QED  BY <2>2, <2>3
<1>q. QED  BY <1>1, <1>2, <1>3

(* Types. *)
LEMMA TypesStep ==
  ASSUME IInv, [Next]_vars
  PROVE  Types'
<1> USE HeapAssumption DEF IInv, Types, Owned, Working, Requesting, Idle, Goto, listVars, gcVars, Places, Locking, Unlink
<1>1. ASSUME NEW t \in Threads, mreq_private(t) PROVE Types'
  BY <1>1 DEF mreq_private
<1>2. ASSUME NEW t \in Threads, my_release(t) PROVE Types'
  BY <1>2 DEF my_release
<1>3. ASSUME NEW t \in Threads, GlobalSize(t) PROVE Types'
  BY <1>3 DEF GlobalSize
<1>4. ASSUME NEW t \in Threads, CreateThread(t) PROVE Types'
  BY <1>4 DEF CreateThread
<1>5. ASSUME NEW t \in Threads, mreqInit(t) PROVE Types'
  BY <1>5 DEF mreqInit
<1>6. ASSUME NEW t \in Threads, mreqLock(t) PROVE Types'
  BY <1>6 DEF mreqLock
<1>7. ASSUME NEW t \in Threads, mreqNext(t) PROVE Types'
  BY <1>7 DEF mreqNext
<1>8. ASSUME NEW t \in Threads, mreqLink(t) PROVE Types'
  BY <1>8 DEF mreqLink
<1>9. ASSUME NEW t \in Threads, mreqPublish(t) PROVE Types'
  BY <1>9 DEF mreqPublish
<1>10. ASSUME NEW t \in Threads, mreqStamp(t) PROVE Types'
  BY <1>10 DEF mreqStamp
<1>11. ASSUME NEW t \in Threads, releaseLock(t) PROVE Types'
  BY <1>11 DEF releaseLock
<1>12. ASSUME NEW t \in Threads, releaseUnlink(t) PROVE Types'
  BY <1>12 DEF releaseUnlink
<1>13. ASSUME NEW t \in Threads, releaseFree(t) PROVE Types'
  BY <1>13 DEF releaseFree
<1>14. ASSUME NEW t \in Threads, sizeLock(t) PROVE Types'
  BY <1>14 DEF sizeLock
<1>15. ASSUME NEW t \in Threads, sizeWalk(t) PROVE Types'
  BY <1>15 DEF sizeWalk
<1>21. ASSUME NEW t \in Threads, lose(t) PROVE Types'
  BY <1>21 DEF lose
<1>16. CASE Overrun \/ Underrun
  BY <1>16 DEF Overrun, Underrun, Links
<1>17. CASE my_garbagecollection
  BY <1>17 DEF my_garbagecollection
<1>18. CASE collect
  <2>1. last \in Blocks
    BY <1>18 DEF collect
  <2>2. CASE beef[last]
    <3>1. Unlink(last) /\ mem' = mem \ {last}
      BY <1>18, <2>2 DEF collect
    <3>2. UNCHANGED <<memmut, held, running, pc, blk, gc>>
      BY <1>18 DEF collect
    <3>3. prev' \in [Blocks -> Blocks \cup {NULL}] /\ next' \in [Blocks -> Blocks \cup {NULL}]
      BY <2>1, <3>1
    <3>4. last' \in Blocks \cup {NULL} /\ cnt' \in Int /\ beef' \in [Blocks -> BOOLEAN]
      BY <2>1, <3>1
    <3>q. QED  BY <3>1, <3>2, <3>3, <3>4
  <2>3. CASE ~beef[last]
    BY <1>18, <2>1, <2>3 DEF collect
  <2>q. QED  BY <2>2, <2>3
<1>19. CASE collectEnd \/ collectLost
  BY <1>19 DEF collectEnd, collectLost
<1>20. CASE UNCHANGED vars
  BY <1>20 DEF vars
<1>q. QED
  BY <1>1, <1>2, <1>3, <1>4, <1>5, <1>6, <1>7, <1>8, <1>9, <1>10, <1>11, <1>12, <1>13, <1>14, <1>15, <1>16, <1>17, <1>18, <1>19, <1>20, <1>21
  DEF Next, Inside

(* A block is one thread's while it is requested or released. *)
LEMMA OwnedStep ==
  ASSUME IInv, [Next]_vars
  PROVE  Owned'
<1> USE HeapAssumption DEF IInv, Types, Owned, Alive, Working, Requesting, Idle, Goto, listVars, gcVars
<1>1. ASSUME NEW t \in Threads, mreq_private(t) PROVE Owned'
  BY <1>1 DEF mreq_private
<1>2. ASSUME NEW t \in Threads, my_release(t) PROVE Owned'
  BY <1>2 DEF my_release
<1>3. ASSUME NEW t \in Threads, GlobalSize(t) PROVE Owned'
  BY <1>3 DEF GlobalSize
<1>4. ASSUME NEW t \in Threads, CreateThread(t) PROVE Owned'
  BY <1>4 DEF CreateThread
<1>5. ASSUME NEW t \in Threads, mreqInit(t) PROVE Owned'
  BY <1>5 DEF mreqInit
<1>6. ASSUME NEW t \in Threads, mreqLock(t) PROVE Owned'
  BY <1>6 DEF mreqLock
<1>7. ASSUME NEW t \in Threads, mreqNext(t) PROVE Owned'
  BY <1>7 DEF mreqNext
<1>8. ASSUME NEW t \in Threads, mreqLink(t) PROVE Owned'
  BY <1>8 DEF mreqLink
<1>9. ASSUME NEW t \in Threads, mreqPublish(t) PROVE Owned'
  BY <1>9 DEF mreqPublish
<1>10. ASSUME NEW t \in Threads, mreqStamp(t) PROVE Owned'
  BY <1>10 DEF mreqStamp
<1>11. ASSUME NEW t \in Threads, releaseLock(t) PROVE Owned'
  BY <1>11 DEF releaseLock
<1>12. ASSUME NEW t \in Threads, releaseUnlink(t) PROVE Owned'
  BY <1>12 DEF releaseUnlink
<1>13. ASSUME NEW t \in Threads, releaseFree(t) PROVE Owned'
  BY <1>13 DEF releaseFree
<1>14. ASSUME NEW t \in Threads, sizeLock(t) PROVE Owned'
  BY <1>14 DEF sizeLock
<1>15. ASSUME NEW t \in Threads, sizeWalk(t) PROVE Owned'
  BY <1>15 DEF sizeWalk
<1>21. ASSUME NEW t \in Threads, lose(t) PROVE Owned'
  BY <1>21 DEF lose
<1>16. CASE Overrun \/ Underrun
  BY <1>16 DEF Overrun, Underrun, Links
<1>17. CASE my_garbagecollection
  BY <1>17 DEF my_garbagecollection
<1>18. CASE collect
  BY <1>18 DEF collect
<1>19. CASE collectEnd \/ collectLost
  BY <1>19 DEF collectEnd, collectLost
<1>20. CASE UNCHANGED vars
  BY <1>20 DEF vars
<1>q. QED
  BY <1>1, <1>2, <1>3, <1>4, <1>5, <1>6, <1>7, <1>8, <1>9, <1>10, <1>11, <1>12, <1>13, <1>14, <1>15, <1>16, <1>17, <1>18, <1>19, <1>20, <1>21
  DEF Next, Inside

(* Only threads that run do anything. *)
LEMMA AliveStep ==
  ASSUME IInv, [Next]_vars
  PROVE  Alive'
<1> USE HeapAssumption DEF IInv, Types, Alive, Idle, Goto, listVars, gcVars
<1>1. ASSUME NEW t \in Threads, mreq_private(t) PROVE Alive'
  BY <1>1 DEF mreq_private
<1>2. ASSUME NEW t \in Threads, my_release(t) PROVE Alive'
  BY <1>2 DEF my_release
<1>3. ASSUME NEW t \in Threads, GlobalSize(t) PROVE Alive'
  BY <1>3 DEF GlobalSize
<1>4. ASSUME NEW t \in Threads, CreateThread(t) PROVE Alive'
  BY <1>4 DEF CreateThread
<1>5. ASSUME NEW t \in Threads, mreqInit(t) PROVE Alive'
  BY <1>5 DEF mreqInit
<1>6. ASSUME NEW t \in Threads, mreqLock(t) PROVE Alive'
  BY <1>6 DEF mreqLock
<1>7. ASSUME NEW t \in Threads, mreqNext(t) PROVE Alive'
  BY <1>7 DEF mreqNext
<1>8. ASSUME NEW t \in Threads, mreqLink(t) PROVE Alive'
  BY <1>8 DEF mreqLink
<1>9. ASSUME NEW t \in Threads, mreqPublish(t) PROVE Alive'
  BY <1>9 DEF mreqPublish
<1>10. ASSUME NEW t \in Threads, mreqStamp(t) PROVE Alive'
  BY <1>10 DEF mreqStamp
<1>11. ASSUME NEW t \in Threads, releaseLock(t) PROVE Alive'
  BY <1>11 DEF releaseLock
<1>12. ASSUME NEW t \in Threads, releaseUnlink(t) PROVE Alive'
  BY <1>12 DEF releaseUnlink
<1>13. ASSUME NEW t \in Threads, releaseFree(t) PROVE Alive'
  BY <1>13 DEF releaseFree
<1>14. ASSUME NEW t \in Threads, sizeLock(t) PROVE Alive'
  BY <1>14 DEF sizeLock
<1>15. ASSUME NEW t \in Threads, sizeWalk(t) PROVE Alive'
  BY <1>15 DEF sizeWalk
<1>21. ASSUME NEW t \in Threads, lose(t) PROVE Alive'
  BY <1>21 DEF lose
<1>16. CASE Overrun \/ Underrun
  BY <1>16 DEF Overrun, Underrun, Links
<1>17. CASE my_garbagecollection
  BY <1>17 DEF my_garbagecollection
<1>18. CASE collect
  BY <1>18 DEF collect
<1>19. CASE collectEnd \/ collectLost
  BY <1>19 DEF collectEnd, collectLost
<1>20. CASE UNCHANGED vars
  BY <1>20 DEF vars
<1>q. QED
  BY <1>1, <1>2, <1>3, <1>4, <1>5, <1>6, <1>7, <1>8, <1>9, <1>10, <1>11, <1>12, <1>13, <1>14, <1>15, <1>16, <1>17, <1>18, <1>19, <1>20, <1>21
  DEF Next, Inside

(* The other steps leave the set of linked blocks alone. *)
LEMMA QuietStep ==
  ASSUME IInv, NEW t \in Threads
  PROVE  /\ mreq_private(t) => Linked' = Linked
         /\ my_release(t) => Linked' = Linked
         /\ GlobalSize(t) => Linked' = Linked
         /\ CreateThread(t) => Linked' = Linked
         /\ mreqInit(t) => Linked' = Linked
         /\ mreqLock(t) => Linked' = Linked
         /\ mreqNext(t) => Linked' = Linked
         /\ mreqLink(t) => Linked' = Linked
         /\ mreqStamp(t) => Linked' = Linked
         /\ releaseLock(t) => Linked' = Linked
         /\ releaseFree(t) => Linked' = Linked
         /\ sizeLock(t) => Linked' = Linked
         /\ sizeWalk(t) => Linked' = Linked
         /\ lose(t) => Linked' = Linked
         /\ Overrun \/ Underrun \/ my_garbagecollection \/ collectLost \/ collectEnd \/ UNCHANGED vars => Linked' = Linked
<1> USE HeapAssumption DEF IInv, Types, Owned, Alive, Working, Requesting, Goto, Idle, listVars, gcVars
<1>0. /\ Linked = {b \in mem : \A u \in Threads : pc[u] \in Unlinked => blk[u] # b}
      /\ Linked' = {b \in mem' : \A u \in Threads : pc'[u] \in Unlinked => blk'[u] # b}
  BY DEF Linked, Unlinked
<1>1. mreq_private(t) => Linked' = Linked
  BY <1>0 DEF mreq_private, Unlinked
<1>2. my_release(t) => Linked' = Linked
  BY <1>0 DEF my_release, Unlinked
<1>3. GlobalSize(t) => Linked' = Linked
  BY <1>0 DEF GlobalSize, Unlinked
<1>4. CreateThread(t) => Linked' = Linked
  BY <1>0 DEF CreateThread, Unlinked
<1>5. mreqInit(t) => Linked' = Linked
  BY <1>0 DEF mreqInit, Unlinked
<1>6. mreqLock(t) => Linked' = Linked
  BY <1>0 DEF mreqLock, Unlinked
<1>7. mreqNext(t) => Linked' = Linked
  BY <1>0 DEF mreqNext, Unlinked, Locked
<1>8. mreqLink(t) => Linked' = Linked
  BY <1>0 DEF mreqLink, Unlinked
<1>9. mreqStamp(t) => Linked' = Linked
  BY <1>0 DEF mreqStamp, Unlinked
<1>10. releaseLock(t) => Linked' = Linked
  BY <1>0 DEF releaseLock, Unlinked
<1>11. releaseFree(t) => Linked' = Linked
  BY <1>0 DEF releaseFree, Unlinked
<1>12. sizeLock(t) => Linked' = Linked
  BY <1>0 DEF sizeLock, Unlinked
<1>13. sizeWalk(t) => Linked' = Linked
  BY <1>0 DEF sizeWalk, Unlinked
<1>13l. lose(t) => Linked' = Linked
  BY <1>0 DEF lose, Unlinked
<1>14. Overrun \/ Underrun \/ my_garbagecollection \/ collectLost \/ collectEnd \/ UNCHANGED vars => Linked' = Linked
  BY <1>0 DEF Overrun, Underrun, Links, my_garbagecollection, collectLost, collectEnd, vars
<1>q. QED
  BY <1>1, <1>2, <1>3, <1>4, <1>5, <1>6, <1>7, <1>8, <1>9, <1>10, <1>11, <1>12, <1>13, <1>13l, <1>14

(* One thread at a time, and two of them only while a block is pinned. *)
LEMMA OneLocks ==
  IInv => OneAtTheList
  BY HeapAssumption DEF IInv, Locked, OneAtTheList

LEMMA TwoThreads ==
  ASSUME IInv, NEW t \in Threads, NEW u \in Threads, t # u, pc[t] # "idle", pc[u] # "idle"
  PROVE  /\ running # {Main}
         /\ last # NULL
         /\ \E b \in Linked : b \notin held /\ ~Busy(b)
<1>1. running # {Main} /\ gc = "no"
  BY DEF IInv, Alive
<1>2. PICK b \in Linked : b \notin held /\ ~Busy(b)
  BY <1>1 DEF IInv, Pinned
<1>3. last # NULL
  BY <1>2 DEF IInv, Order, OrderBy
<1>q. QED  BY <1>1, <1>2, <1>3

(* The list stays in order. *)
LEMMA OrderStep ==
  ASSUME IInv, [Next]_vars
  PROVE  Order' /\ Ends'
<1> USE HeapAssumption DEF IInv, Types, Idle, Goto, listVars, gcVars
<1>1. ASSUME NEW t \in Threads, mreq_private(t) PROVE Order' /\ Ends'
  <2>1. Linked' = Linked /\ last' = last /\ prev' = prev /\ next' = next
    BY <1>1, QuietStep DEF mreq_private
  <2>2. Order'
    BY <2>1 DEF Order, OrderBy
  <2>3. Ends'
    BY <1>1, <2>1 DEF mreq_private, Ends
  <2>q. QED  BY <2>2, <2>3
<1>2. ASSUME NEW t \in Threads, my_release(t) PROVE Order' /\ Ends'
  <2>1. Linked' = Linked /\ last' = last /\ prev' = prev /\ next' = next
    BY <1>2, QuietStep DEF my_release
  <2>2. Order'
    BY <2>1 DEF Order, OrderBy
  <2>3. Ends'
    BY <1>2, <2>1 DEF my_release, Ends
  <2>q. QED  BY <2>2, <2>3
<1>3. ASSUME NEW t \in Threads, GlobalSize(t) PROVE Order' /\ Ends'
  <2>1. Linked' = Linked /\ last' = last /\ prev' = prev /\ next' = next
    BY <1>3, QuietStep DEF GlobalSize
  <2>2. Order'
    BY <2>1 DEF Order, OrderBy
  <2>3. Ends'
    BY <1>3, <2>1 DEF GlobalSize, Ends
  <2>q. QED  BY <2>2, <2>3
<1>4. ASSUME NEW t \in Threads, CreateThread(t) PROVE Order' /\ Ends'
  <2>1. Linked' = Linked /\ last' = last /\ prev' = prev /\ next' = next
    BY <1>4, QuietStep DEF CreateThread
  <2>2. Order'
    BY <2>1 DEF Order, OrderBy
  <2>3. Ends'
    BY <1>4, <2>1 DEF CreateThread, Ends
  <2>q. QED  BY <2>2, <2>3
<1>5. ASSUME NEW t \in Threads, mreqInit(t) PROVE Order' /\ Ends'
  <2>1. Linked' = Linked /\ last' = last /\ prev' = prev /\ next' = next
    BY <1>5, QuietStep DEF mreqInit
  <2>2. Order'
    BY <2>1 DEF Order, OrderBy
  <2>3. Ends'
    BY <1>5, <2>1 DEF mreqInit, Ends
  <2>q. QED  BY <2>2, <2>3
<1>6. ASSUME NEW t \in Threads, mreqLock(t) PROVE Order' /\ Ends'
  <2>1. Linked' = Linked /\ last' = last /\ prev' = prev /\ next' = next
    BY <1>6, QuietStep DEF mreqLock
  <2>2. Order'
    BY <2>1 DEF Order, OrderBy
  <2>3. Ends'
    BY <1>6, <2>1 DEF mreqLock, Ends, Locked
  <2>q. QED  BY <2>2, <2>3
<1>7. ASSUME NEW t \in Threads, mreqNext(t) PROVE Order' /\ Ends'
  <2>1. PICK r \in [Blocks -> Nat] : OrderBy(r)
    BY DEF Order
  <2>2. last # NULL /\ last \in Blocks /\ next' = [next EXCEPT ![last] = blk[t]] /\ pc' = [pc EXCEPT ![t] = "link"]
    BY <1>7 DEF mreqNext, Locked
  <2>3. Linked' = Linked /\ last' = last /\ prev' = prev /\ blk' = blk /\ Linked \subseteq Blocks
    BY <1>7, QuietStep DEF mreqNext, Linked
  <2>4. OrderBy(r)'
    BY <2>1, <2>2, <2>3 DEF OrderBy
  <2>5. \A u \in Threads : u # t => pc'[u] \notin {"link", "publish"} /\ pc'[t] = "link"
    BY <1>7, <2>2, OneLocks DEF mreqNext, OneAtTheList, Locking
  <2>6. Ends'
    BY <2>2, <2>3, <2>5 DEF Ends
  <2>q. QED  BY <2>4, <2>6 DEF Order
<1>8. ASSUME NEW t \in Threads, mreqLink(t) PROVE Order' /\ Ends'
  <2>1. PICK r \in [Blocks -> Nat] : OrderBy(r)
    BY DEF Order
  <2>2. blk[t] \notin Linked /\ blk[t] \in Blocks /\ Linked \subseteq Blocks
    BY <1>8 DEF mreqLink, Linked, Owned, Working, Requesting
  <2>3. /\ Linked' = Linked /\ last' = last /\ blk' = blk /\ pc' = [pc EXCEPT ![t] = "publish"]
        /\ prev' = [prev EXCEPT ![blk[t]] = last] /\ next' = [next EXCEPT ![blk[t]] = NULL]
    BY <1>8, QuietStep DEF mreqLink
  <2>4. OrderBy(r)'
    BY <2>1, <2>2, <2>3 DEF OrderBy
  <2>5. \A u \in Threads : u # t => pc'[u] \notin {"link", "publish"}
    BY <1>8, <2>3, OneLocks DEF mreqLink, OneAtTheList, Locking
  <2>6. last # NULL => next[last] = blk[t] /\ last # blk[t]
    BY <1>8, <2>1, <2>2 DEF mreqLink, Ends, OrderBy
  <2>7. pc'[t] = "publish" /\ prev'[blk[t]] = last /\ next'[blk[t]] = NULL
    BY <2>2, <2>3
  <2>8. Ends'
    BY <2>2, <2>3, <2>5, <2>6, <2>7 DEF Ends
  <2>q. QED  BY <2>4, <2>8 DEF Order
<1>9. ASSUME NEW t \in Threads, mreqPublish(t) PROVE Order' /\ Ends'
  <2>1. /\ Linked' = Linked \cup {blk[t]} /\ blk[t] \notin Linked
    BY <1>9, LinkedStep
  <2>2. /\ blk[t] \in Blocks /\ last' = blk[t] /\ prev' = prev /\ next' = next /\ blk' = blk
        /\ pc[t] = "publish" /\ pc' = [pc EXCEPT ![t] = "stamp"]
    BY <1>9 DEF mreqPublish, Owned, Working, Requesting
  <2>3. prev[blk[t]] = last /\ next[blk[t]] = NULL /\ (last # NULL => next[last] = blk[t])
    BY <2>2 DEF Ends
  <2>4. Order'
    BY <2>1, <2>2, <2>3, PublishOrder
  <2>5. \A u \in Threads : pc'[u] \notin {"link", "publish"}
    BY <2>2, OneLocks DEF OneAtTheList, Locking
  <2>6. Ends'
    BY <2>2, <2>3, <2>5 DEF Ends
  <2>q. QED  BY <2>4, <2>6
<1>10. ASSUME NEW t \in Threads, mreqStamp(t) PROVE Order' /\ Ends'
  <2>1. Linked' = Linked /\ last' = last /\ prev' = prev /\ next' = next
    BY <1>10, QuietStep DEF mreqStamp
  <2>2. Order'
    BY <2>1 DEF Order, OrderBy
  <2>3. Ends'
    BY <1>10, <2>1 DEF mreqStamp, Ends
  <2>q. QED  BY <2>2, <2>3
<1>11. ASSUME NEW t \in Threads, releaseLock(t) PROVE Order' /\ Ends'
  <2>1. Linked' = Linked /\ last' = last /\ prev' = prev /\ next' = next
    BY <1>11, QuietStep DEF releaseLock
  <2>2. Order'
    BY <2>1 DEF Order, OrderBy
  <2>3. Ends'
    BY <1>11, <2>1 DEF releaseLock, Ends
  <2>q. QED  BY <2>2, <2>3
<1>12. ASSUME NEW t \in Threads, releaseUnlink(t) PROVE Order' /\ Ends'
  <2>1. /\ Linked' = Linked \ {blk[t]} /\ blk[t] \in Linked
    BY <1>12, LinkedStep
  <2>2. pc[t] = "unlink" /\ pc' = [pc EXCEPT ![t] = "free"] /\ Unlink(blk[t])
    BY <1>12 DEF releaseUnlink
  <2>3. \A u \in Threads : pc[u] \notin {"link", "publish"} /\ pc'[u] \notin {"link", "publish"}
    BY <2>2, OneLocks DEF OneAtTheList, Locking
  <2>4. last # NULL => next[last] = NULL
    BY <2>3 DEF Ends
  <2>5. PICK r \in [Blocks -> Nat] : OrderBy(r)
    BY DEF Order
  <2>6. OrderBy(r)' /\ (last' # NULL => next'[last'] = NULL)
    BY <2>1, <2>2, <2>4, <2>5, UnlinkOrder
  <2>q. QED  BY <2>3, <2>6 DEF Order, Ends
<1>13. ASSUME NEW t \in Threads, releaseFree(t) PROVE Order' /\ Ends'
  <2>1. Linked' = Linked /\ last' = last /\ prev' = prev /\ next' = next
    BY <1>13, QuietStep DEF releaseFree
  <2>2. Order'
    BY <2>1 DEF Order, OrderBy
  <2>3. Ends'
    BY <1>13, <2>1 DEF releaseFree, Ends
  <2>q. QED  BY <2>2, <2>3
<1>14. ASSUME NEW t \in Threads, sizeLock(t) PROVE Order' /\ Ends'
  <2>1. Linked' = Linked /\ last' = last /\ prev' = prev /\ next' = next
    BY <1>14, QuietStep DEF sizeLock
  <2>2. Order'
    BY <2>1 DEF Order, OrderBy
  <2>3. Ends'
    BY <1>14, <2>1 DEF sizeLock, Ends
  <2>q. QED  BY <2>2, <2>3
<1>15. ASSUME NEW t \in Threads, sizeWalk(t) PROVE Order' /\ Ends'
  <2>1. Linked' = Linked /\ last' = last /\ prev' = prev /\ next' = next
    BY <1>15, QuietStep DEF sizeWalk
  <2>2. Order'
    BY <2>1 DEF Order, OrderBy
  <2>3. Ends'
    BY <1>15, <2>1 DEF sizeWalk, Ends
  <2>q. QED  BY <2>2, <2>3
<1>21. ASSUME NEW t \in Threads, lose(t) PROVE Order' /\ Ends'
  <2>1. Linked' = Linked /\ last' = last /\ prev' = prev /\ next' = next
    BY <1>21, QuietStep DEF lose
  <2>2. Order'
    BY <2>1 DEF Order, OrderBy
  <2>3. Ends'
    BY <1>21, <2>1 DEF lose, Ends
  <2>q. QED  BY <2>2, <2>3
<1>16. CASE Overrun \/ Underrun
  <2>1. Linked' = Linked /\ last' = last /\ prev' = prev /\ next' = next
    BY <1>16, QuietStep DEF Overrun, Underrun, Links
  <2>2. Order'
    BY <2>1 DEF Order, OrderBy
  <2>3. Ends'
    BY <1>16, <2>1 DEF Overrun, Underrun, Links, Ends
  <2>q. QED  BY <2>2, <2>3
<1>17. CASE my_garbagecollection
  <2>1. Linked' = Linked /\ last' = last /\ prev' = prev /\ next' = next
    BY <1>17, QuietStep DEF my_garbagecollection
  <2>2. Order'
    BY <2>1 DEF Order, OrderBy
  <2>3. Ends'
    BY <1>17, <2>1 DEF my_garbagecollection, Ends
  <2>q. QED  BY <2>2, <2>3
<1>18. CASE collect
  <2>1. \A u \in Threads : pc[u] = "idle" /\ pc'[u] = "idle"
    BY <1>18 DEF collect, Alive
  <2>2. last # NULL => next[last] = NULL
    BY <2>1 DEF Ends
  <2>3. PICK r \in [Blocks -> Nat] : OrderBy(r)
    BY DEF Order
  <2>4. CASE beef[last]
    <3>1. Linked' = Linked \ {last} /\ Unlink(last) /\ last \in Linked
      BY <1>18, <2>3, <2>4, LinkedStep DEF collect, OrderBy
    <3>2. OrderBy(r)' /\ (last' # NULL => next'[last'] = NULL)
      BY <2>2, <2>3, <3>1, UnlinkOrder
    <3>q. QED  BY <2>1, <3>2 DEF Order, Ends
  <2>5. CASE ~beef[last]
    <3>1. Linked' = Linked \ {NULL} /\ UNCHANGED <<last, prev, next>>
      BY <1>18, <2>5, LinkedStep DEF collect
    <3>2. Linked' = Linked
      BY <3>1 DEF Linked
    <3>3. OrderBy(r)'
      BY <2>3, <3>1, <3>2 DEF OrderBy
    <3>q. QED  BY <2>1, <2>2, <3>1, <3>3 DEF Order, Ends
  <2>q. QED  BY <2>4, <2>5
<1>19. CASE collectEnd \/ collectLost
  <2>1. Linked' = Linked /\ last' = last /\ prev' = prev /\ next' = next
    BY <1>19, QuietStep DEF collectEnd, collectLost
  <2>2. Order'
    BY <2>1 DEF Order, OrderBy
  <2>3. Ends'
    BY <1>19, <2>1 DEF collectEnd, collectLost, Ends
  <2>q. QED  BY <2>2, <2>3
<1>20. CASE UNCHANGED vars
  <2>1. Linked' = Linked
    BY <1>20, QuietStep
  <2>2. Order'
    BY <1>20, <2>1 DEF vars, Order, OrderBy
  <2>3. Ends'
    BY <1>20 DEF vars, Ends
  <2>q. QED  BY <2>2, <2>3
<1>q. QED
  BY <1>1, <1>2, <1>3, <1>4, <1>5, <1>6, <1>7, <1>8, <1>9, <1>10, <1>11, <1>12, <1>13, <1>14, <1>15, <1>16, <1>17, <1>18, <1>19, <1>20, <1>21
  DEF Next, Inside

(* The mutex keeps the threads apart, and the list is not found empty. *)
LEMMA LockedStep ==
  ASSUME IInv, [Next]_vars
  PROVE  Locked'
<1> USE HeapAssumption DEF IInv, Types, Owned, Alive, Locked, Working, Requesting, Idle, Goto, listVars, gcVars, Locking
<1>1. ASSUME NEW t \in Threads, mreq_private(t) PROVE Locked'
  <2>1. last = NULL => running = {Main}
    BY <1>1 DEF mreq_private, Pinned, Order, OrderBy
  <2>2. pc' = [pc EXCEPT ![t] = IF last = NULL THEN "init" ELSE "lock"] /\ UNCHANGED <<last, running, memmut>>
    BY <1>1 DEF mreq_private
  <2>q. QED  BY <2>1, <2>2
<1>2. ASSUME NEW t \in Threads, my_release(t) PROVE Locked'
  BY <1>2 DEF my_release
<1>3. ASSUME NEW t \in Threads, GlobalSize(t) PROVE Locked'
  BY <1>3 DEF GlobalSize
<1>4. ASSUME NEW t \in Threads, CreateThread(t) PROVE Locked'
  BY <1>4 DEF CreateThread
<1>5. ASSUME NEW t \in Threads, mreqInit(t) PROVE Locked'
  BY <1>5 DEF mreqInit
<1>6. ASSUME NEW t \in Threads, mreqLock(t) PROVE Locked'
  BY <1>6 DEF mreqLock
<1>7. ASSUME NEW t \in Threads, mreqNext(t) PROVE Locked'
  BY <1>7 DEF mreqNext
<1>8. ASSUME NEW t \in Threads, mreqLink(t) PROVE Locked'
  BY <1>8 DEF mreqLink
<1>9. ASSUME NEW t \in Threads, mreqPublish(t) PROVE Locked'
  <2>1. \A u \in Threads : u # t => pc[u] \notin {"init", "lockfirst"}
    BY <1>9, TwoThreads DEF mreqPublish
  <2>2. last' # NULL /\ pc' = [pc EXCEPT ![t] = "stamp"] /\ memmut = t /\ UNCHANGED running
    BY <1>9 DEF mreqPublish
  <2>q. QED  BY <2>1, <2>2
<1>10. ASSUME NEW t \in Threads, mreqStamp(t) PROVE Locked'
  BY <1>10 DEF mreqStamp
<1>11. ASSUME NEW t \in Threads, releaseLock(t) PROVE Locked'
  BY <1>11 DEF releaseLock
<1>12. ASSUME NEW t \in Threads, releaseUnlink(t) PROVE Locked'
  <2>1. pc[t] = "unlink" /\ pc' = [pc EXCEPT ![t] = "free"] /\ UNCHANGED <<memmut, running>>
    BY <1>12 DEF releaseUnlink
  <2>2. Linked' = Linked \ {blk[t]}
    BY <1>12, LinkedStep
  <2>3. \A u \in Threads : u # t /\ pc[u] \in {"lock", "setnext"} => last' # NULL
    <3>1. SUFFICES ASSUME NEW u \in Threads, u # t, pc[u] \in {"lock", "setnext"} PROVE last' # NULL
      OBVIOUS
    <3>2. PICK b \in Linked : b \notin held /\ ~Busy(b)
      BY <2>1, <3>1, TwoThreads
    <3>3. b \in Linked'
      BY <2>1, <2>2, <3>2 DEF Busy
    <3>q. QED  BY <1>12, <3>3, OrderStep DEF Next, Inside, Order, OrderBy
  <2>4. \A u \in Threads : u # t => pc[u] \notin {"init", "lockfirst"}
    BY <2>1, TwoThreads
  <2>q. QED  BY <2>1, <2>3, <2>4
<1>13. ASSUME NEW t \in Threads, releaseFree(t) PROVE Locked'
  BY <1>13 DEF releaseFree
<1>14. ASSUME NEW t \in Threads, sizeLock(t) PROVE Locked'
  BY <1>14 DEF sizeLock
<1>15. ASSUME NEW t \in Threads, sizeWalk(t) PROVE Locked'
  BY <1>15 DEF sizeWalk
<1>21. ASSUME NEW t \in Threads, lose(t) PROVE Locked'
  BY <1>21 DEF lose
<1>16. CASE Overrun \/ Underrun
  BY <1>16 DEF Overrun, Underrun, Links
<1>17. CASE my_garbagecollection
  BY <1>17 DEF my_garbagecollection
<1>18. CASE collect
  <2>1. \A u \in Threads : pc[u] = "idle" /\ pc'[u] = "idle"
    BY <1>18 DEF collect
  <2>q. QED  BY <2>1
<1>19. CASE collectEnd \/ collectLost
  BY <1>19 DEF collectEnd, collectLost
<1>20. CASE UNCHANGED vars
  BY <1>20 DEF vars
<1>q. QED
  BY <1>1, <1>2, <1>3, <1>4, <1>5, <1>6, <1>7, <1>8, <1>9, <1>10, <1>11, <1>12, <1>13, <1>14, <1>15, <1>16, <1>17, <1>18, <1>19, <1>20, <1>21
  DEF Next, Inside

(* A second thread keeps a block in the list. *)
LEMMA PinnedStep ==
  ASSUME IInv, [Next]_vars
  PROVE  Pinned'
<1> USE HeapAssumption DEF IInv, Types, Owned, Working, Requesting, Idle, Goto, listVars, gcVars
<1>1. ASSUME NEW t \in Threads, mreq_private(t) PROVE Pinned'
  <2>1. gc' = gc /\ running' = running /\ Linked' = Linked
    BY <1>1, QuietStep DEF mreq_private
  <2>2. ASSUME NEW b \in Linked, b \notin held, ~Busy(b) PROVE b \in Linked' /\ b \notin held' /\ ~Busy(b)'
    BY <1>1, <2>1, <2>2 DEF mreq_private, Busy, Linked
  <2>q. QED  BY <2>1, <2>2 DEF Pinned
<1>2. ASSUME NEW t \in Threads, my_release(t) PROVE Pinned'
  <2>1. gc' = gc /\ running' = running /\ Linked' = Linked
    BY <1>2, QuietStep DEF my_release
  <2>2. ASSUME NEW b \in Linked, b \notin held, ~Busy(b) PROVE b \in Linked' /\ b \notin held' /\ ~Busy(b)'
    BY <1>2, <2>1, <2>2 DEF my_release, Busy
  <2>q. QED  BY <2>1, <2>2 DEF Pinned
<1>3. ASSUME NEW t \in Threads, GlobalSize(t) PROVE Pinned'
  <2>1. gc' = gc /\ running' = running /\ Linked' = Linked
    BY <1>3, QuietStep DEF GlobalSize
  <2>2. ASSUME NEW b \in Linked, b \notin held, ~Busy(b) PROVE b \in Linked' /\ b \notin held' /\ ~Busy(b)'
    BY <1>3, <2>1, <2>2 DEF GlobalSize, Busy
  <2>q. QED  BY <2>1, <2>2 DEF Pinned
<1>4. ASSUME NEW t \in Threads, CreateThread(t) PROVE Pinned'
  <2>1. PICK b \in held : held' = held \ {b}
    BY <1>4 DEF CreateThread
  <2>2. b \in Linked /\ ~Busy(b)
    BY InLinked DEF Owned, Busy, Working, Unlinked
  <2>3. UNCHANGED <<pc, blk, Linked>>
    BY <1>4, QuietStep DEF CreateThread
  <2>q. QED  BY <2>1, <2>2, <2>3 DEF Busy, Pinned
<1>5. ASSUME NEW t \in Threads, mreqInit(t) PROVE Pinned'
  <2>1. gc' = gc /\ running' = running /\ Linked' = Linked
    BY <1>5, QuietStep DEF mreqInit
  <2>2. ASSUME NEW b \in Linked, b \notin held, ~Busy(b) PROVE b \in Linked' /\ b \notin held' /\ ~Busy(b)'
    BY <1>5, <2>1, <2>2 DEF mreqInit, Busy
  <2>q. QED  BY <2>1, <2>2 DEF Pinned
<1>6. ASSUME NEW t \in Threads, mreqLock(t) PROVE Pinned'
  <2>1. gc' = gc /\ running' = running /\ Linked' = Linked
    BY <1>6, QuietStep DEF mreqLock
  <2>2. ASSUME NEW b \in Linked, b \notin held, ~Busy(b) PROVE b \in Linked' /\ b \notin held' /\ ~Busy(b)'
    BY <1>6, <2>1, <2>2 DEF mreqLock, Busy
  <2>q. QED  BY <2>1, <2>2 DEF Pinned
<1>7. ASSUME NEW t \in Threads, mreqNext(t) PROVE Pinned'
  <2>1. gc' = gc /\ running' = running /\ Linked' = Linked
    BY <1>7, QuietStep DEF mreqNext
  <2>2. ASSUME NEW b \in Linked, b \notin held, ~Busy(b) PROVE b \in Linked' /\ b \notin held' /\ ~Busy(b)'
    BY <1>7, <2>1, <2>2 DEF mreqNext, Busy
  <2>q. QED  BY <2>1, <2>2 DEF Pinned
<1>8. ASSUME NEW t \in Threads, mreqLink(t) PROVE Pinned'
  <2>1. gc' = gc /\ running' = running /\ Linked' = Linked
    BY <1>8, QuietStep DEF mreqLink
  <2>2. ASSUME NEW b \in Linked, b \notin held, ~Busy(b) PROVE b \in Linked' /\ b \notin held' /\ ~Busy(b)'
    BY <1>8, <2>1, <2>2 DEF mreqLink, Busy
  <2>q. QED  BY <2>1, <2>2 DEF Pinned
<1>9. ASSUME NEW t \in Threads, mreqPublish(t) PROVE Pinned'
  <2>1. gc' = gc /\ running' = running /\ Linked' = Linked \cup {blk[t]}
    BY <1>9, LinkedStep DEF mreqPublish
  <2>2. ASSUME NEW b \in Linked, b \notin held, ~Busy(b) PROVE b \in Linked' /\ b \notin held' /\ ~Busy(b)'
    BY <1>9, <2>1, <2>2 DEF mreqPublish, Busy
  <2>q. QED  BY <2>1, <2>2 DEF Pinned
<1>10. ASSUME NEW t \in Threads, mreqStamp(t) PROVE Pinned'
  <2>1. gc' = gc /\ running' = running /\ Linked' = Linked
    BY <1>10, QuietStep DEF mreqStamp
  <2>2. ASSUME NEW b \in Linked, b \notin held, ~Busy(b) PROVE b \in Linked' /\ b \notin held' /\ ~Busy(b)'
    BY <1>10, <2>1, <2>2 DEF mreqStamp, Busy
  <2>q. QED  BY <2>1, <2>2 DEF Pinned
<1>11. ASSUME NEW t \in Threads, releaseLock(t) PROVE Pinned'
  <2>1. gc' = gc /\ running' = running /\ Linked' = Linked
    BY <1>11, QuietStep DEF releaseLock
  <2>2. ASSUME NEW b \in Linked, b \notin held, ~Busy(b) PROVE b \in Linked' /\ b \notin held' /\ ~Busy(b)'
    BY <1>11, <2>1, <2>2 DEF releaseLock, Busy
  <2>q. QED  BY <2>1, <2>2 DEF Pinned
<1>12. ASSUME NEW t \in Threads, releaseUnlink(t) PROVE Pinned'
  <2>1. gc' = gc /\ running' = running /\ Linked' = Linked \ {blk[t]}
    BY <1>12, LinkedStep DEF releaseUnlink
  <2>2. ASSUME NEW b \in Linked, b \notin held, ~Busy(b) PROVE b \in Linked' /\ b \notin held' /\ ~Busy(b)'
    BY <1>12, <2>1, <2>2 DEF releaseUnlink, Busy
  <2>q. QED  BY <2>1, <2>2 DEF Pinned
<1>13. ASSUME NEW t \in Threads, releaseFree(t) PROVE Pinned'
  <2>1. gc' = gc /\ running' = running /\ Linked' = Linked
    BY <1>13, QuietStep DEF releaseFree
  <2>2. ASSUME NEW b \in Linked, b \notin held, ~Busy(b) PROVE b \in Linked' /\ b \notin held' /\ ~Busy(b)'
    BY <1>13, <2>1, <2>2 DEF releaseFree, Busy
  <2>q. QED  BY <2>1, <2>2 DEF Pinned
<1>14. ASSUME NEW t \in Threads, sizeLock(t) PROVE Pinned'
  <2>1. gc' = gc /\ running' = running /\ Linked' = Linked
    BY <1>14, QuietStep DEF sizeLock
  <2>2. ASSUME NEW b \in Linked, b \notin held, ~Busy(b) PROVE b \in Linked' /\ b \notin held' /\ ~Busy(b)'
    BY <1>14, <2>1, <2>2 DEF sizeLock, Busy
  <2>q. QED  BY <2>1, <2>2 DEF Pinned
<1>15. ASSUME NEW t \in Threads, sizeWalk(t) PROVE Pinned'
  <2>1. gc' = gc /\ running' = running /\ Linked' = Linked
    BY <1>15, QuietStep DEF sizeWalk
  <2>2. ASSUME NEW b \in Linked, b \notin held, ~Busy(b) PROVE b \in Linked' /\ b \notin held' /\ ~Busy(b)'
    BY <1>15, <2>1, <2>2 DEF sizeWalk, Busy
  <2>q. QED  BY <2>1, <2>2 DEF Pinned
<1>21. ASSUME NEW t \in Threads, lose(t) PROVE Pinned'
  <2>1. gc' = gc /\ running' = running /\ Linked' = Linked
    BY <1>21, QuietStep DEF lose
  <2>2. ASSUME NEW b \in Linked, b \notin held, ~Busy(b) PROVE b \in Linked' /\ b \notin held' /\ ~Busy(b)'
    BY <1>21, <2>1, <2>2 DEF lose, Busy
  <2>q. QED  BY <2>1, <2>2 DEF Pinned
<1>16. CASE Overrun \/ Underrun
  <2>1. gc' = gc /\ running' = running /\ Linked' = Linked
    BY <1>16, QuietStep DEF Overrun, Underrun, Links
  <2>2. ASSUME NEW b \in Linked, b \notin held, ~Busy(b) PROVE b \in Linked' /\ b \notin held' /\ ~Busy(b)'
    BY <1>16, <2>1, <2>2 DEF Overrun, Underrun, Links, Busy
  <2>q. QED  BY <2>1, <2>2 DEF Pinned
<1>17. CASE my_garbagecollection
  BY <1>17 DEF my_garbagecollection, Pinned
<1>18. CASE collect
  BY <1>18 DEF collect, Pinned
<1>19. CASE collectEnd \/ collectLost
  BY <1>19 DEF collectEnd, collectLost, Pinned
<1>20. CASE UNCHANGED vars
  <2>1. UNCHANGED <<gc, running, held, Linked, pc, blk>>
    BY <1>20, QuietStep DEF vars
  <2>q. QED  BY <2>1 DEF Pinned, Busy
<1>q. QED
  BY <1>1, <1>2, <1>3, <1>4, <1>5, <1>6, <1>7, <1>8, <1>9, <1>10, <1>11, <1>12, <1>13, <1>14, <1>15, <1>16, <1>17, <1>18, <1>19, <1>20, <1>21
  DEF Next, Inside

(* The invariant, and what it is for: one thread at a time is at the list, *)
(* and nobody finds it empty after having seen it full.                    *)
THEOREM HeapInvariant == Spec => []IInv
<1>1. Init => IInv
  BY InitInv
<1>2. IInv /\ [Next]_vars => IInv'
  BY TypesStep, OwnedStep, AliveStep, OrderStep, LockedStep, PinnedStep DEF IInv
<1>q. QED  BY <1>1, <1>2, PTL DEF Spec

(* OneAtTheList: the mutex initialized late and destroyed early excludes.  *)
THEOREM ListExclusive == Spec => []OneAtTheList
  BY HeapInvariant, OneLocks, PTL

(* LinksAgree: between two calls both directions of the list agree.        *)
THEOREM LinksAlwaysAgree == Spec => []LinksAgree
<1>1. IInv => LinksAgree
  <2> SUFFICES ASSUME IInv, memmut = NULL, NEW b \in Linked
               PROVE  /\ prev[b] # NULL => prev[b] \in Linked /\ next[prev[b]] = b
                      /\ next[b] # NULL => next[b] \in Linked /\ prev[next[b]] = b
                      /\ next[b] = NULL <=> b = last
    BY DEF LinksAgree
  <2> USE HeapAssumption
  <2>1. \A t \in Threads : pc[t] \notin Locking
    BY DEF IInv, Locked
  <2>2. last # NULL => next[last] = NULL
    BY <2>1 DEF IInv, Ends, Locking
  <2>3. PICK r \in [Blocks -> Nat] : OrderBy(r)
    BY DEF IInv, Order
  <2>4. Linked \subseteq Blocks
    BY DEF IInv, Types, Linked
  <2>5. next[b] = NULL <=> b = last
    BY <2>2, <2>3, <2>4 DEF OrderBy
  <2>6. ASSUME prev[b] # NULL PROVE prev[b] \in Linked /\ next[prev[b]] = b
    <3>1. /\ prev[b] \in Linked /\ r[prev[b]] < r[b] /\ prev[b] # last
          /\ \A d \in Linked : r[d] < r[b] => r[d] <= r[prev[b]]
      BY <2>3, <2>4, <2>6 DEF OrderBy
    <3>2. /\ next[prev[b]] \in Linked /\ r[prev[b]] < r[next[prev[b]]]
          /\ r[next[prev[b]]] <= r[b]
      BY <2>3, <3>1 DEF OrderBy
    <3>3. r[next[prev[b]]] = r[b]
      BY <2>4, <3>1, <3>2
    <3>q. QED  BY <2>3, <3>1, <3>2, <3>3 DEF OrderBy
  <2>7. ASSUME next[b] # NULL PROVE next[b] \in Linked /\ prev[next[b]] = b
    <3>1. /\ next[b] \in Linked /\ r[b] < r[next[b]]
          /\ \A d \in Linked : r[b] < r[d] => r[next[b]] <= r[d]
      BY <2>3, <2>5, <2>7 DEF OrderBy
    <3>2. prev[next[b]] # NULL
      BY <2>3, <2>4, <3>1 DEF OrderBy
    <3>3. /\ prev[next[b]] \in Linked /\ r[prev[next[b]]] < r[next[b]]
          /\ r[b] <= r[prev[next[b]]]
      BY <2>3, <3>1, <3>2 DEF OrderBy
    <3>4. r[prev[next[b]]] = r[b]
      BY <2>4, <3>1, <3>3
    <3>q. QED  BY <2>3, <3>1, <3>3, <3>4 DEF OrderBy
  <2>q. QED  BY <2>5, <2>6, <2>7
<1>q. QED  BY <1>1, HeapInvariant, PTL

(* The blocks of the list, and only they, are reached from last_alloc: one *)
(* that is not has a younger neighbour that is not, up to the youngest.    *)
LEMMA AllReached ==
  ASSUME IInv, NEW r \in [Blocks -> Nat], OrderBy(r), NEW S \in SUBSET Blocks,
         last \in S \cup {NULL}, \A d \in S : prev[d] \in S \cup {NULL}
  PROVE  Linked \subseteq S
<1> USE HeapAssumption
<1>0. Linked \subseteq Blocks
  BY DEF IInv, Types, Linked
<1> SUFFICES ASSUME NEW c \in Linked, c \notin S PROVE FALSE
  OBVIOUS
<1> DEFINE T == {r[last] - r[b] : b \in Linked \ S}
<1>1. last \in Linked /\ last \in S
  BY DEF OrderBy
<1>2. T \subseteq Nat
  BY <1>0, <1>1 DEF OrderBy
<1>3. T # {}
  OBVIOUS
<1>4. PICK x \in T : \A y \in T : ~ (<<y, x>> \in OpToRel(<, Nat))
  BY <1>2, <1>3, WFMin, NatLessThanWellFounded
<1>5. \A y \in T : ~ (y < x)
  BY <1>2, <1>4 DEF OpToRel
<1>6. PICK b \in Linked \ S : x = r[last] - r[b]
  BY <1>4
<1>7. b # last /\ next[b] \in Linked /\ r[b] < r[next[b]]
  BY <1>1, <1>6 DEF OrderBy
<1>8. prev[next[b]] = b
  <2>1. prev[next[b]] # NULL
    BY <1>0, <1>6, <1>7 DEF OrderBy
  <2>2. /\ prev[next[b]] \in Linked /\ r[prev[next[b]]] < r[next[b]]
        /\ r[b] <= r[prev[next[b]]]
    BY <1>6, <1>7, <2>1 DEF OrderBy
  <2>3. /\ r[b] < r[prev[next[b]]] => r[next[b]] <= r[prev[next[b]]]
    BY <1>6, <1>7, <2>2 DEF OrderBy
  <2>4. r[prev[next[b]]] = r[b]
    BY <1>0, <1>6, <1>7, <2>2, <2>3
  <2>q. QED  BY <1>6, <2>2, <2>4 DEF OrderBy
<1>9. next[b] \notin S
  BY <1>0, <1>6, <1>7, <1>8
<1>10. r[last] - r[next[b]] \in T
  BY <1>7, <1>9
<1>11. r[last] - r[next[b]] < x
  BY <1>0, <1>1, <1>6, <1>7
<1>q. QED  BY <1>5, <1>10, <1>11

(* alccnt counts the blocks of the list. *)
Counted == IsFiniteSet(Linked) /\ cnt = Cardinality(Linked)

LEMMA CountedStep ==
  ASSUME IInv, Counted, [Next]_vars
  PROVE  Counted'
<1> USE DEF Counted
<1>1. ASSUME Linked' = Linked, cnt' = cnt PROVE Counted'
  BY <1>1
<1>2. ASSUME NEW t \in Threads, mreqPublish(t) PROVE Counted'
  <2>1. Linked' = Linked \cup {blk[t]} /\ blk[t] \notin Linked /\ cnt' = cnt + 1
    BY <1>2, LinkedStep DEF mreqPublish
  <2>q. QED  BY <2>1, FS_AddElement
<1>3. ASSUME NEW t \in Threads, releaseUnlink(t) PROVE Counted'
  <2>1. Linked' = Linked \ {blk[t]} /\ blk[t] \in Linked /\ cnt' = cnt - 1
    BY <1>3, LinkedStep DEF releaseUnlink, Unlink
  <2>q. QED  BY <2>1, FS_RemoveElement
<1>4. CASE collect
  <2>1. Linked' = Linked \ {IF beef[last] THEN last ELSE NULL}
    BY <1>4, HeapAssumption, LinkedStep
  <2>2. last \in Linked
    BY <1>4 DEF collect, IInv, Order, OrderBy
  <2>3. CASE beef[last]
    <3>1. Linked' = Linked \ {last} /\ cnt' = cnt - 1
      BY <1>4, <2>1, <2>3 DEF collect, Unlink
    <3>q. QED  BY <2>2, <3>1, FS_RemoveElement
  <2>4. CASE ~beef[last]
    <3>1. Linked' = Linked \ {NULL} /\ cnt' = cnt
      BY <1>4, <2>1, <2>4 DEF collect, listVars
    <3>2. Linked' = Linked
      BY <3>1, HeapAssumption DEF Linked, IInv, Types
    <3>q. QED  BY <1>1, <3>1, <3>2
  <2>q. QED  BY <2>3, <2>4
<1>5. ASSUME NEW t \in Threads,
             mreq_private(t) \/ my_release(t) \/ GlobalSize(t) \/ CreateThread(t)
             \/ mreqInit(t) \/ mreqLock(t) \/ mreqNext(t) \/ mreqLink(t) \/ mreqStamp(t)
             \/ releaseLock(t) \/ releaseFree(t) \/ sizeLock(t) \/ sizeWalk(t) \/ lose(t)
      PROVE  Counted'
  <2>1. Linked' = Linked
    BY <1>5, QuietStep
  <2>2. cnt' = cnt
    BY <1>5 DEF mreq_private, my_release, GlobalSize, CreateThread, mreqInit, mreqLock,
                mreqNext, mreqLink, mreqStamp, releaseLock, releaseFree, sizeLock, sizeWalk, lose,
                listVars
  <2>q. QED  BY <1>1, <2>1, <2>2
<1>6. CASE Overrun \/ Underrun \/ my_garbagecollection \/ collectLost \/ collectEnd \/ UNCHANGED vars
  <2>1. Linked' = Linked
    BY <1>6, HeapAssumption, QuietStep
  <2>2. cnt' = cnt
    BY <1>6 DEF Overrun, Underrun, Links, my_garbagecollection, collectLost, collectEnd, vars, listVars
  <2>q. QED  BY <1>1, <2>1, <2>2
<1>q. QED  BY <1>2, <1>3, <1>4, <1>5, <1>6 DEF Next, Inside

LEMMA AlwaysCounted == Spec => []Counted
<1>1. Init => Counted
  BY FS_EmptySet DEF Init, Counted, Linked
<1>q. QED  BY <1>1, CountedStep, HeapInvariant, PTL DEF Spec

(* ListIntact: while nobody is at the list, it holds every block that was  *)
(* allocated and not released, and both directions agree.                  *)
THEOREM ListAlwaysIntact == Spec => []ListIntact
<1>1. ASSUME IInv, Counted PROVE ListComplete
  <2>1. PICK r \in [Blocks -> Nat] : OrderBy(r)
    BY <1>1 DEF IInv, Order
  <2>2. Linked \subseteq Reached
    BY <1>1, <2>1, AllReached DEF Reached, IInv, Types, Linked
  <2>3. Linked \in SUBSET Blocks
    BY <1>1 DEF IInv, Types, Linked
  <2>4. last \in Linked \cup {NULL} /\ \A d \in Linked : prev[d] \in Linked \cup {NULL}
    BY <2>1 DEF OrderBy
  <2>5. Reached \subseteq Linked
    BY <2>3, <2>4 DEF Reached
  <2>q. QED  BY <1>1, <2>2, <2>5 DEF ListComplete, Counted
<1>2. ListComplete /\ LinksAgree => ListIntact
  BY DEF ListIntact
<1>q. QED  BY <1>1, <1>2, HeapInvariant, AlwaysCounted, LinksAlwaysAgree, PTL

(* What the invariant leaves out of TypeOK.                                *)
Rest ==
  /\ cur \in [Threads -> Blocks \cup {NULL}]
  /\ wild \subseteq Blocks \X {"prev", "next"} /\ loops \in 0 .. 1

(* TypeOK: alccnt does not fall below zero, whatever was overwritten.      *)
THEOREM TypeCorrect == Spec => []TypeOK
<1>1. Init => Rest
  BY DEF Init, Rest
<1>2. IInv /\ Rest /\ [Next]_vars => Rest'
  <2> SUFFICES ASSUME IInv, Rest, [Next]_vars PROVE Rest'
    OBVIOUS
  <2>1. ASSUME NEW t \in Threads,
               GlobalSize(t) \/ sizeWalk(t) \/ mreqNext(t) \/ mreqLink(t)
               \/ releaseUnlink(t)
        PROVE  Rest'
    <3>1. CASE GlobalSize(t)
      BY <3>1 DEF GlobalSize, IInv, Types, Rest, listVars, gcVars
    <3>2. CASE sizeWalk(t)
      BY <3>2 DEF sizeWalk, IInv, Types, Rest, listVars, gcVars
    <3>3. CASE mreqNext(t)
      BY <3>3 DEF mreqNext, Rest, gcVars
    <3>4. CASE mreqLink(t)
      BY <3>4 DEF mreqLink, Rest, gcVars
    <3>5. CASE releaseUnlink(t)
      BY <3>5 DEF releaseUnlink, Unlink, Rest, gcVars
    <3>q. QED  BY <2>1, <3>1, <3>2, <3>3, <3>4, <3>5
  <2>2. ASSUME NEW t \in Threads,
               mreq_private(t) \/ my_release(t) \/ CreateThread(t) \/ mreqInit(t)
               \/ mreqLock(t) \/ mreqPublish(t) \/ mreqStamp(t) \/ releaseLock(t)
               \/ releaseFree(t) \/ sizeLock(t) \/ lose(t)
        PROVE  UNCHANGED <<cur, wild, loops>>
    BY <2>2 DEF mreq_private, my_release, CreateThread, mreqInit, mreqLock,
                mreqPublish, mreqStamp, releaseLock, releaseFree, sizeLock, lose, gcVars
  <2>3. CASE Overrun
    <3>1. PICK b \in held : wild' \subseteq wild \cup Links(b)
      BY <2>3 DEF Overrun, Links
    <3>2. Links(b) \subseteq Blocks \X {"prev", "next"}
      BY DEF Links, IInv, Types
    <3>q. QED  BY <2>3, <3>1, <3>2 DEF Overrun, Rest, gcVars
  <2>4. CASE collect
    BY <2>4 DEF collect, Unlink, Rest
  <2>5. CASE Underrun \/ my_garbagecollection \/ collectLost \/ collectEnd \/ UNCHANGED vars
    BY <2>5 DEF Underrun, my_garbagecollection, collectLost, collectEnd, vars, gcVars, Rest
  <2>6. UNCHANGED <<cur, wild, loops>> => Rest'
    BY DEF Rest
  <2>q. QED  BY <2>1, <2>2, <2>3, <2>4, <2>5, <2>6 DEF Next, Inside
<1>3. ASSUME IInv, Counted, Rest PROVE TypeOK
  <2>1. cnt \in Nat
    BY <1>3, FS_CardinalityType DEF Counted
  <2>q. QED  BY <1>3, <2>1 DEF TypeOK, IInv, Types, Rest
<1>q. QED  BY <1>1, <1>2, <1>3, HeapInvariant, AlwaysCounted, PTL DEF Spec
=============================================================================
