------------------------- MODULE MemAllocatorProofs -------------------------
(***************************************************************************)
(* Proofs about MemAllocator, for all sets of samples and of nodes and any *)
(* number of buffers: whatever a client asks for, neither list ever leads  *)
(* to more than one sample, and of that one nothing is lost.               *)
(***************************************************************************)
EXTENDS MemAllocator, TLAPS

(* The list l leads to node n alone: its head points at itself.            *)
Alone(l) == l # NULL => l \in DOMAIN heap /\ heap[l].next = l

(* A sample that is referenced is the one in used_list.                    *)
Referenced ==
  \A s \in Samples :
    refs[s] > 0 <=> used # NULL /\ s = heap[used].member

(* In the loops of Decommit, the references that are left belong to what   *)
(* is still to be destroyed.                                               *)
ReferencedYet ==
  \A s \in Samples : refs[s] > 0 =>
    \/ free # NULL /\ s = heap[free].member
    \/ used # NULL /\ s = heap[used].member

(* The inductive invariant: add_tail never lengthens what a walk comes by, *)
(* so that a walk that starts anywhere is over where it began, and one of  *)
(* the lists is empty.                                                     *)
Inv ==
  /\ TypeOK
  /\ Alone(free) /\ Alone(used)
  /\ free = NULL \/ used = NULL
  /\ free # NULL => heap[free].member \in live
  /\ used # NULL => heap[used].member \in live
  /\ pc = "commit" => used = NULL /\ i < cBuffers
  /\ pc = "decommit" => ~Empty
  /\ IF pc = "decommit" THEN ReferencedYet ELSE Referenced

(* A walk from a node that points at itself comes by nothing else.         *)
LEMMA WalkAlone ==
  ASSUME NEW h, NEW l \in DOMAIN h, h[l].next = l
  PROVE  Walk(h, l) = {l}
<1>1. l \in Walk(h, l)
  BY DEF Walk
<1>2. \A n \in Walk(h, l) : n \in {l}
  BY DEF Walk
<1>q. QED  BY <1>1, <1>2

(* The samples of a list that is empty, or a node that points at itself.   *)
LEMMA MembersAlone ==
  /\ \A h : Members(h, NULL) = {}
  /\ \A h : \A l \in DOMAIN h :
       l # NULL /\ h[l].next = l => Members(h, l) = {h[l].member}
<1>1. \A h : Members(h, NULL) = {}
  BY DEF Members
<1>2. ASSUME NEW h, NEW l \in DOMAIN h, l # NULL, h[l].next = l
      PROVE  Members(h, l) = {h[l].member}
  <2>1. Walk(h, l) = {l}
    BY <1>2, WalkAlone
  <2> QED  BY <1>2, <2>1 DEF Members
<1>q. QED  BY <1>1, <1>2

(* A node added behind a head leaves the head pointing where it did: this  *)
(* is the missing link of avm_list_add_head.                               *)
LEMMA AddBehind ==
  ASSUME NEW h, NEW l \in DOMAIN h, l # NULL, NEW n, n \notin DOMAIN h, NEW s,
         h[l] \in [next : Nodes, prev : Nodes, member : Samples]
  PROVE  LET h2 == AddHead(h, l, n, s) IN
           /\ DOMAIN h2 = DOMAIN h \cup {n}
           /\ h2[n] = [next |-> l, prev |-> h[l].prev, member |-> s]
           /\ h2[l] = [h[l] EXCEPT !.prev = n]
           /\ h2[l].next = h[l].next /\ h2[l].member = h[l].member
           /\ \A x \in DOMAIN h \ {l} : h2[x] = h[x]
<1> DEFINE h2 == AddHead(h, l, n, s)
<1>1. /\ DOMAIN h2 = DOMAIN h \cup {n}
      /\ h2[n] = [next |-> l, prev |-> h[l].prev, member |-> s]
      /\ h2[l] = [h[l] EXCEPT !.prev = n]
      /\ \A x \in DOMAIN h \ {l} : h2[x] = h[x]
  BY DEF AddHead
<1>2. h2[l].next = h[l].next /\ h2[l].member = h[l].member
  BY <1>1
<1>q. QED  BY <1>1, <1>2

(* Deleting the head of a list of one node leaves the empty list.          *)
LEMMA DelAlone ==
  ASSUME NEW h, NEW l \in DOMAIN h, h[l].next = l,
         h \in [DOMAIN h -> [next : Nodes, prev : Nodes, member : Samples]]
  PROVE  /\ SecondOf(h, l) = NULL
         /\ DOMAIN DelHead(h, l) = DOMAIN h \ {l}
         /\ \A x \in DOMAIN h \ {l} : DelHead(h, l)[x] = h[x]
<1>1. SecondOf(h, l) = NULL /\ DOMAIN DelHead(h, l) = DOMAIN h \ {l}
  BY DEF SecondOf, DelHead
<1>2. ASSUME NEW x \in DOMAIN h \ {l}
      PROVE  DelHead(h, l)[x] = h[x]
  <2>1. DelHead(h, l)[x] =
          [next |-> h[x].next, prev |-> h[x].prev, member |-> h[x].member]
    BY DEF DelHead
  <2>2. h[x] \in [next : Nodes, prev : Nodes, member : Samples]
    OBVIOUS
  <2> QED  BY <2>1, <2>2
<1>q. QED  BY <1>1, <1>2
---------------------------------------------------------------------------
(* An allocator is created without samples.                                *)
LEMMA InitInv == Init => Inv
  BY AllocatorAssumption DEF Init, Inv, TypeOK, Alone, Empty, Referenced

(* A sample that Commit creates becomes the one sample, or is lost behind  *)
(* the one there is.                                                       *)
LEMMA CommitOneStep ==
  ASSUME Inv, CommitOne
  PROVE  Inv'
<1>1. CASE pc' = "idle" /\ UNCHANGED <<free, heap, live, i>>
  BY <1>1 DEF CommitOne, Inv, TypeOK, Alone, Empty, Referenced
<1>2. ASSUME NEW s \in Samples \ live, NEW n \in Nodes \ DOMAIN heap,
             live' = live \cup {s},
             free' = AddTail(free, n), heap' = AddHead(heap, free, n, s),
             i' = i + 1,
             pc' = IF i + 1 < cBuffers THEN "commit" ELSE "idle"
      PROVE  Inv'
  <2>1. /\ i < cBuffers /\ used = NULL /\ used' = NULL /\ pc # "decommit" /\ pc' # "decommit"
        /\ UNCHANGED <<cBuffers, refs, result>>
    BY <1>2 DEF CommitOne, Inv
  <2>2. i' \in 0 .. MaxBuffers
    BY <1>2, <2>1, AllocatorAssumption DEF Inv, TypeOK
  <2>3. Referenced'
    BY <1>2, <2>1 DEF Inv, Referenced
  <2>4. CASE free = NULL
    <3>0. NULL \notin DOMAIN heap /\ heap' = AddHead(heap, NULL, n, s)
      BY <1>2, <2>4, AllocatorAssumption DEF Inv, TypeOK
    <3>1. /\ free' = n /\ n # NULL /\ DOMAIN heap' = DOMAIN heap \cup {n}
          /\ heap'[n] = [next |-> n, prev |-> n, member |-> s]
          /\ \A x \in DOMAIN heap : heap'[x] = heap[x]
      <4>1. /\ DOMAIN heap' = DOMAIN heap \cup {n}
            /\ heap'[n] = [next |-> n, prev |-> n, member |-> s]
            /\ \A x \in DOMAIN heap \ {n} : heap'[x] = heap[x]
        BY <3>0 DEF AddHead
      <4> QED  BY <1>2, <2>4, <4>1, AllocatorAssumption DEF AddTail
    <3>2. TypeOK'
      BY <1>2, <2>1, <2>2, <3>1 DEF Inv, TypeOK, AddHead
    <3> QED  BY <1>2, <2>1, <2>3, <3>1, <3>2 DEF Inv, Alone, Empty
  <2>5. CASE free # NULL
    <3>1. free \in DOMAIN heap /\ heap[free].next = free
          /\ heap[free] \in [next : Nodes, prev : Nodes, member : Samples]
      BY <2>5 DEF Inv, Alone, TypeOK
    <3>2. /\ free' = free /\ DOMAIN heap' = DOMAIN heap \cup {n}
          /\ heap'[n] = [next |-> free, prev |-> heap[free].prev, member |-> s]
          /\ heap'[free] = [heap[free] EXCEPT !.prev = n]
          /\ heap'[free].next = free /\ heap'[free].member = heap[free].member
          /\ \A x \in DOMAIN heap \ {free} : heap'[x] = heap[x]
      BY <1>2, <2>5, <3>1, AddBehind DEF AddTail
    <3>3. heap' \in [DOMAIN heap' -> [next : Nodes, prev : Nodes, member : Samples]]
      BY <1>2, <3>1, <3>2 DEF Inv, TypeOK, AddHead
    <3>4. TypeOK'
      BY <1>2, <2>1, <2>2, <3>1, <3>2, <3>3 DEF Inv, TypeOK
    <3> QED  BY <1>2, <2>1, <2>3, <2>5, <3>1, <3>2, <3>4 DEF Inv, Alone, Empty
  <2> QED  BY <2>4, <2>5
<1>q. QED  BY <1>1, <1>2 DEF CommitOne

(* A step that moves the sample of one list into the other, which is       *)
(* empty: what it leaves of both.                                          *)
LEMMA Moved ==
  ASSUME Inv, NEW l \in DOMAIN heap, heap[l].next = l,
         NEW n \in Nodes, n \notin DOMAIN heap \ {l},
         heap' = AddHead(DelHead(heap, l), NULL, n, heap[l].member)
  PROVE  /\ n \in DOMAIN heap' /\ heap'[n].next = n
         /\ heap'[n].member = heap[l].member
         /\ DOMAIN heap' \subseteq Nodes
         /\ heap' \in [DOMAIN heap' -> [next : Nodes, prev : Nodes, member : Samples]]
<1>1. heap \in [DOMAIN heap -> [next : Nodes, prev : Nodes, member : Samples]]
      /\ DOMAIN heap \subseteq Nodes
  BY DEF Inv, TypeOK
<1> DEFINE h == DelHead(heap, l)
<1>2. DOMAIN h = DOMAIN heap \ {l} /\ \A x \in DOMAIN h : h[x] = heap[x]
  BY <1>1, DelAlone
<1> HIDE DEF h
<1>3. /\ DOMAIN heap' = DOMAIN h \cup {n}
      /\ heap'[n] = [next |-> n, prev |-> n, member |-> heap[l].member]
      /\ \A x \in DOMAIN h \ {n} : heap'[x] = h[x]
  <2>1. NULL \notin DOMAIN h /\ heap' = AddHead(h, NULL, n, heap[l].member)
    BY <1>1, <1>2, AllocatorAssumption DEF h
  <2> QED  BY <2>1 DEF AddHead
<1>4. heap' = [x \in DOMAIN heap' |-> heap'[x]]
  BY DEF AddHead
<1>5. ASSUME NEW x \in DOMAIN heap'
      PROVE  heap'[x] \in [next : Nodes, prev : Nodes, member : Samples]
  <2>1. CASE x = n
    BY <1>1, <1>3, <2>1
  <2>2. CASE x # n
    BY <1>1, <1>2, <1>3, <2>2, AllocatorAssumption
  <2> QED  BY <2>1, <2>2
<1>q. QED  BY <1>1, <1>2, <1>3, <1>4, <1>5

(* Decommit moves the sample that is out to the free list,                 *)
LEMMA DecommitUsedStep ==
  ASSUME Inv, DecommitUsed
  PROVE  Inv'
<1>1. PICK n \in Nodes \ DOMAIN heap :
        LET h == AddHead(heap, free, n, heap[used].member) IN
          free' = AddTail(free, n) /\ used' = SecondOf(h, used)
          /\ heap' = DelHead(h, used)
  BY DEF DecommitUsed
<1> DEFINE h == AddHead(heap, free, n, heap[used].member)
<1>2. /\ used # NULL /\ free = NULL /\ used \in DOMAIN heap
      /\ heap[used].next = used /\ heap[used].member \in live
      /\ heap \in [DOMAIN heap -> [next : Nodes, prev : Nodes, member : Samples]]
      /\ DOMAIN heap \subseteq Nodes /\ heap[used].member \in Samples
      /\ UNCHANGED <<cBuffers, live, refs, pc, i, result>> /\ pc = "decommit"
  BY DEF DecommitUsed, Inv, Alone, TypeOK
<1>3. /\ DOMAIN h = DOMAIN heap \cup {n}
      /\ h[n] = [next |-> n, prev |-> n, member |-> heap[used].member]
      /\ \A x \in DOMAIN heap : h[x] = heap[x]
      /\ h = [x \in DOMAIN heap \cup {n} |-> h[x]]
  BY <1>1, <1>2, AllocatorAssumption DEF AddHead
<1> HIDE DEF h
<1>4. h \in [DOMAIN h -> [next : Nodes, prev : Nodes, member : Samples]]
  <2>1. \A x \in DOMAIN h : h[x] \in [next : Nodes, prev : Nodes, member : Samples]
    BY <1>1, <1>2, <1>3
  <2> QED  BY <1>3, <2>1
<1>5. /\ used' = NULL /\ free' = n /\ n # used /\ n # NULL
      /\ DOMAIN heap' = DOMAIN h \ {used}
      /\ \A x \in DOMAIN heap' : heap'[x] = h[x]
  <2>1. heap' = DelHead(h, used) /\ used' = SecondOf(h, used)
    BY <1>1 DEF h
  <2>2. used \in DOMAIN h /\ h[used].next = used
    BY <1>2, <1>3
  <2>3. /\ SecondOf(h, used) = NULL
        /\ DOMAIN DelHead(h, used) = DOMAIN h \ {used}
        /\ \A x \in DOMAIN h \ {used} : DelHead(h, used)[x] = h[x]
    BY <1>4, <2>2, DelAlone
  <2> QED  BY <1>1, <1>2, <2>1, <2>3, AllocatorAssumption DEF AddTail
<1>6. heap' = [x \in DOMAIN heap' |-> heap'[x]]
  BY <1>1 DEF DelHead
<1>7. heap' \in [DOMAIN heap' -> [next : Nodes, prev : Nodes, member : Samples]]
  BY <1>4, <1>5, <1>6
<1>8. TypeOK'
  BY <1>1, <1>2, <1>3, <1>5, <1>7 DEF Inv, TypeOK
<1>9. ReferencedYet'
  <2>1. ReferencedYet
    BY <1>2 DEF Inv
  <2>2. heap'[free'].member = heap[used].member /\ free' # NULL
    BY <1>3, <1>5
  <2> QED  BY <1>2, <2>1, <2>2 DEF ReferencedYet
<1>10. heap'[free'].next = free' /\ free' \in DOMAIN heap'
       /\ heap'[free'].member \in live'
  <2>1. n \in DOMAIN heap' /\ heap'[n] = h[n]
    BY <1>3, <1>5
  <2>2. heap'[n].next = n /\ heap'[n].member = heap[used].member
    BY <1>3, <2>1
  <2> QED  BY <1>2, <1>5, <2>1, <2>2
<1>q. QED  BY <1>2, <1>5, <1>8, <1>9, <1>10 DEF Inv, Alone, Empty

(* and destroys it there.                                                  *)
LEMMA DecommitFreeStep ==
  ASSUME Inv, DecommitFree
  PROVE  Inv'
<1>1. /\ used = NULL /\ free # NULL /\ free \in DOMAIN heap
      /\ heap[free].next = free
      /\ heap \in [DOMAIN heap -> [next : Nodes, prev : Nodes, member : Samples]]
      /\ DOMAIN heap \subseteq Nodes /\ heap[free].member \in Samples
      /\ UNCHANGED <<cBuffers, used, i, result>>
  BY DEF DecommitFree, Inv, Alone, TypeOK, Empty
<1>2. /\ SecondOf(heap, free) = NULL /\ free' = NULL /\ pc' = "idle"
      /\ DOMAIN heap' = DOMAIN heap \ {free}
      /\ \A x \in DOMAIN heap' : heap'[x] = heap[x]
      /\ refs' = [refs EXCEPT ![heap[free].member] = 0]
      /\ live' = live \ {heap[free].member}
  BY <1>1, DelAlone DEF DecommitFree
<1>3. heap' = [x \in DOMAIN heap' |-> heap'[x]]
  BY DEF DecommitFree, DelHead
<1>4. TypeOK'
  BY <1>1, <1>2, <1>3, AllocatorAssumption DEF Inv, TypeOK
<1>5. pc = "decommit"
  BY DEF DecommitFree
<1>6. Referenced'
  BY <1>1, <1>2, <1>5 DEF Inv, TypeOK, Referenced, ReferencedYet
<1>q. QED  BY <1>1, <1>2, <1>4, <1>6 DEF Inv, Alone, Empty

(* GetBuffer moves the sample from free_list to used_list.                 *)
LEMMA GetBufferStep ==
  ASSUME Inv, GetBuffer
  PROVE  Inv' /\ Pool!Get(heap[free].member)
<1>1. PICK n \in Nodes \ DOMAIN DelHead(heap, free) :
        /\ free' = SecondOf(heap, free) /\ used' = AddTail(used, n)
        /\ heap' = AddHead(DelHead(heap, free), used, n, heap[free].member)
  BY DEF GetBuffer
<1>2. /\ free # NULL /\ used = NULL /\ free \in DOMAIN heap
      /\ heap[free].next = free /\ heap[free].member \in live
      /\ heap \in [DOMAIN heap -> [next : Nodes, prev : Nodes, member : Samples]]
      /\ heap[free].member \in Samples /\ pc = "idle" /\ result' = "ok"
      /\ refs' = [refs EXCEPT ![heap[free].member] = @ + 1]
      /\ UNCHANGED <<cBuffers, live, pc, i>>
  BY DEF GetBuffer, Inv, Alone, TypeOK
<1>3. /\ free' = NULL /\ used' = n /\ n # NULL
      /\ n \notin DOMAIN heap \ {free}
  BY <1>1, <1>2, DelAlone, AllocatorAssumption DEF AddTail
<1>4. /\ n \in DOMAIN heap' /\ heap'[n].next = n
      /\ heap'[n].member = heap[free].member /\ DOMAIN heap' \subseteq Nodes
      /\ heap' \in [DOMAIN heap' -> [next : Nodes, prev : Nodes, member : Samples]]
  BY <1>1, <1>2, <1>3, Moved
<1>5. \A s \in Samples : refs[s] = 0
  BY <1>2 DEF Inv, TypeOK, Referenced
<1>6. refs' \in [Samples -> 0 .. MaxRefs]
  BY <1>2, <1>5, AllocatorAssumption DEF Inv, TypeOK
<1>7. TypeOK'
  BY <1>2, <1>3, <1>4, <1>6 DEF Inv, TypeOK
<1>8. Referenced'
  BY <1>2, <1>3, <1>4, <1>5 DEF Referenced, Inv, TypeOK
<1>9. Inv'
  BY <1>2, <1>3, <1>4, <1>7, <1>8 DEF Inv, Alone, Empty
<1>10. /\ Members(heap, free) = {heap[free].member} /\ Members(heap, used) = {}
       /\ Members(heap', free') = {} /\ Members(heap', used') = {heap[free].member}
  BY <1>2, <1>3, <1>4, MembersAlone
<1>11. Pool!Get(heap[free].member)
  BY <1>2, <1>10 DEF Pool!Get
<1>q. QED  BY <1>9, <1>11

(* The last reference: the head of used_list, which ReleaseBuffer deletes  *)
(* whichever it is, is the sample that comes back.                         *)
LEMMA LastRelease ==
  ASSUME Inv, NEW s \in Samples, Release(s), refs[s] = 1
  PROVE  Inv' /\ Pool!Put(s)
<1>1. /\ used # NULL /\ free = NULL /\ used \in DOMAIN heap
      /\ heap[used].next = used /\ s = heap[used].member /\ s \in live
      /\ heap \in [DOMAIN heap -> [next : Nodes, prev : Nodes, member : Samples]]
      /\ pc = "idle" /\ refs' = [refs EXCEPT ![s] = 0]
      /\ UNCHANGED <<cBuffers, live, pc, i>>
  BY DEF Release, Inv, Alone, TypeOK, Referenced
<1>2. s \in Members(heap, used)
  BY <1>1, MembersAlone
<1>3. PICK n \in Nodes \ DOMAIN DelHead(heap, used) :
        /\ used' = SecondOf(heap, used) /\ free' = n
        /\ heap' = AddHead(DelHead(heap, used), NULL, n, s)
        /\ result' = "ok"
  BY <1>1, <1>2 DEF Release, ReleaseBuffer
<1>4. used' = NULL /\ n # NULL /\ n \notin DOMAIN heap \ {used}
  BY <1>1, <1>3, DelAlone, AllocatorAssumption
<1>5. /\ n \in DOMAIN heap' /\ heap'[n].next = n /\ heap'[n].member = s
      /\ DOMAIN heap' \subseteq Nodes
      /\ heap' \in [DOMAIN heap' -> [next : Nodes, prev : Nodes, member : Samples]]
  BY <1>1, <1>3, <1>4, Moved
<1>6. TypeOK'
  BY <1>1, <1>3, <1>4, <1>5, AllocatorAssumption DEF Inv, TypeOK
<1>7. Referenced'
  BY <1>1, <1>4 DEF Referenced, Inv, TypeOK
<1>8. Inv'
  BY <1>1, <1>3, <1>4, <1>5, <1>6, <1>7 DEF Inv, Alone, Empty
<1>9. /\ Members(heap, free) = {} /\ Members(heap, used) = {s}
      /\ Members(heap', free') = {s} /\ Members(heap', used') = {}
  BY <1>1, <1>3, <1>4, <1>5, MembersAlone
<1>10. Pool!Put(s)
  BY <1>1, <1>3, <1>9 DEF Pool!Put
<1>q. QED  BY <1>8, <1>10

(* A step that leaves lists, nodes and samples alone, and no reference     *)
(* count at zero that was not.                                             *)
Quiet ==
  /\ TypeOK' /\ UNCHANGED <<free, used, heap, live>>
  /\ \/ pc' = pc /\ (pc = "commit" => i' < cBuffers')
     \/ pc = "idle" /\ pc' = "commit" /\ Empty /\ i' < cBuffers'
     \/ pc = "idle" /\ pc' = "decommit" /\ ~Empty
  /\ \A s \in Samples : refs'[s] > 0 <=> refs[s] > 0

LEMMA QuietStep ==
  ASSUME Inv, Quiet
  PROVE  Inv'
<1>1. Referenced => Referenced'
  BY DEF Referenced, Quiet
<1>2. ReferencedYet => ReferencedYet'
  BY DEF ReferencedYet, Quiet
<1>3. Referenced => ReferencedYet
  BY DEF Referenced, ReferencedYet
<1>4. IF pc' = "decommit" THEN ReferencedYet' ELSE Referenced'
  BY <1>1, <1>2, <1>3 DEF Inv, Quiet
<1>q. QED  BY <1>4 DEF Inv, Alone, Empty, Quiet

(* Every step keeps the invariant.                                         *)
LEMMA NextInv ==
  ASSUME Inv, [Next]_vars
  PROVE  Inv'
<1>t. TypeOK /\ (pc = "commit" => i < cBuffers)
  BY DEF Inv
<1>1. ASSUME NEW n \in 1 .. MaxBuffers, SetProperties(n) PROVE Quiet
  BY <1>1, <1>t DEF SetProperties, TypeOK, Quiet
<1>2. ASSUME Commit PROVE Quiet
  BY <1>2, <1>t, AllocatorAssumption DEF Commit, TypeOK, Quiet
<1>3. ASSUME Decommit PROVE Quiet
  BY <1>3, <1>t DEF Decommit, TypeOK, Quiet
<1>4. ASSUME GetBufferFails PROVE Quiet
  BY <1>4, <1>t DEF GetBufferFails, TypeOK, Quiet
<1>5. ASSUME NEW s \in Samples, AddRef(s) PROVE Quiet
  <2>1. TypeOK'
    BY <1>5, <1>t, AllocatorAssumption DEF AddRef, TypeOK
  <2>2. \A t \in Samples : refs'[t] > 0 <=> refs[t] > 0
    BY <1>5, <1>t DEF AddRef, TypeOK
  <2> QED  BY <1>5, <1>t, <2>1, <2>2 DEF AddRef, Quiet
<1>6. ASSUME NEW s \in Samples, Release(s), refs[s] # 1 PROVE Quiet
  <2>1. TypeOK'
    BY <1>6, <1>t, AllocatorAssumption DEF Release, TypeOK
  <2>2. \A t \in Samples : refs'[t] > 0 <=> refs[t] > 0
    BY <1>6, <1>t DEF Release, TypeOK
  <2> QED  BY <1>6, <1>t, <2>1, <2>2 DEF Release, Quiet
<1>7. ASSUME UNCHANGED vars PROVE Quiet
  BY <1>7, <1>t DEF vars, TypeOK, Quiet
<1>q. QED  BY <1>1, <1>2, <1>3, <1>4, <1>5, <1>6, <1>7, QuietStep, LastRelease,
              CommitOneStep, DecommitUsedStep, DecommitFreeStep, GetBufferStep
           DEF Next

(* The lists never lead to more than one sample, which is referenced       *)
(* exactly while it is in used_list; the rest of the invariant is what     *)
(* makes that hold through the loops of Commit and Decommit.               *)
THEOREM AllocatorInvariant == Spec => []Inv
<1>1. Inv /\ [Next]_vars => Inv'
  BY NextInv
<1>q. QED  BY InitInv, <1>1, PTL DEF Spec

(* A walk over a list ends at its head, samples in a list exist, and no    *)
(* sample is handed out twice.                                             *)
THEOREM ListsAlwaysAgree == Spec => []ListsAgree
<1>1. Inv => ListsAgree
  <2> SUFFICES ASSUME Inv PROVE ListsAgree
    OBVIOUS
  <2>1. \A l \in {free, used} \ {NULL} :
          l \in DOMAIN heap /\ heap[l].next = l /\ Walk(heap, l) = {l}
    BY WalkAlone DEF Inv, Alone
  <2>2. \A l \in {free, used} \ {NULL} :
          /\ \A n \in Walk(heap, l) : heap[n].next \in DOMAIN heap
          /\ \A n \in Walk(heap, l) : l \in Walk(heap, n)
    BY <2>1
  <2>3. /\ free = NULL => Members(heap, free) = {}
        /\ free # NULL => Members(heap, free) = {heap[free].member}
        /\ used = NULL => Members(heap, used) = {}
        /\ used # NULL => Members(heap, used) = {heap[used].member}
    BY <2>1, MembersAlone
  <2>4. /\ Members(heap, free) \cup Members(heap, used) \subseteq live
        /\ Members(heap, free) \cap Members(heap, used) = {}
    BY <2>3 DEF Inv
  <2>5. pc # "decommit" =>
          \A s \in Samples : refs[s] > 0 <=> s \in Members(heap, used)
    BY <2>3 DEF Inv, Referenced
  <2> QED  BY <2>2, <2>4, <2>5 DEF ListsAgree
<1>q. QED  BY AllocatorInvariant, <1>1, PTL

(* The allocator is a pool of one sample: a client is refused only when it *)
(* is out or there is none, and it is not lost.                            *)
THEOREM AllocatorIsPool == Spec => ImplementsPool
<1>1. Init => Pool!Init
  BY MembersAlone DEF Init, Pool!Init
<1>2. Inv /\ [Next]_vars => [Pool!Next]_(Pool!vars)
  <2> SUFFICES ASSUME Inv, [Next]_vars PROVE [Pool!Next]_(Pool!vars)
    OBVIOUS
  <2>1. CASE GetBuffer
    <3>1. heap[free].member \in Samples
      BY <2>1 DEF GetBuffer, Inv, TypeOK
    <3> QED  BY <2>1, <3>1, GetBufferStep DEF Pool!Next
  <2>2. CASE GetBufferFails
    <3>1. Members(heap, free) = {}
      BY <2>2, MembersAlone DEF GetBufferFails
    <3>2. Pool!Refuse
      BY <2>2, <3>1 DEF GetBufferFails, Pool!Refuse
    <3> QED  BY <3>2 DEF Pool!Next
  <2>3. ASSUME NEW s \in Samples, Release(s)
        PROVE  [Pool!Next]_(Pool!vars)
    <3>1. CASE refs[s] = 1
      BY <2>3, <3>1, LastRelease DEF Pool!Next
    <3>2. CASE refs[s] # 1
      BY <2>3, <3>2 DEF Release, Pool!vars
    <3> QED  BY <3>1, <3>2
  <2>4. CASE Decommit
    <3>1. Pool!Drain
      BY <2>4 DEF Decommit, Pool!Drain
    <3> QED  BY <3>1 DEF Pool!Next
  <2>5. CASE DecommitUsed
    BY <2>5 DEF DecommitUsed, Pool!vars
  <2>6. CASE DecommitFree
    <3>1. CASE pc' = "decommit"
      BY <2>6, <3>1 DEF DecommitFree, Pool!vars
    <3>2. CASE pc' # "decommit"
      <4>1. /\ Members(heap', free') = {} /\ Members(heap', used') = {}
            /\ pc = "decommit" /\ result' = result
        BY <2>6, <3>2, MembersAlone DEF DecommitFree
      <4> QED  BY <3>2, <4>1 DEF Pool!vars
    <3> QED  BY <3>1, <3>2
  <2>7. CASE CommitOne
    <3>1. Inv' /\ pc = "commit" /\ used = NULL /\ used' = NULL /\ pc' # "decommit"
          /\ result' = result
      BY <2>7, CommitOneStep DEF CommitOne, Inv
    <3>2. Members(heap, used) = {} /\ Members(heap', used') = {}
      BY <3>1, MembersAlone
    <3>3. CASE UNCHANGED <<free, heap>>
      BY <3>1, <3>3 DEF Pool!vars
    <3>4. ASSUME NEW s \in Samples \ live, NEW n \in Nodes \ DOMAIN heap,
                 free' = AddTail(free, n), heap' = AddHead(heap, free, n, s)
          PROVE  [Pool!Next]_(Pool!vars)
      <4>1. CASE free = NULL
        <5>1. free' = n /\ n # NULL /\ n \in DOMAIN heap'
              /\ heap'[n] = [next |-> n, prev |-> n, member |-> s]
          BY <3>4, <4>1, AllocatorAssumption DEF AddTail, AddHead
        <5>2. Members(heap, free) = {} /\ Members(heap', free') = {s}
          BY <4>1, <5>1, MembersAlone
        <5>3. Pool!Fill(s)
          BY <3>1, <3>2, <5>2 DEF Pool!Fill
        <5> QED  BY <5>3 DEF Pool!Next
      <4>2. CASE free # NULL
        <5>1. free \in DOMAIN heap /\ heap[free].next = free
              /\ heap[free] \in [next : Nodes, prev : Nodes, member : Samples]
          BY <4>2 DEF Inv, Alone, TypeOK
        <5>2. free' = free /\ free \in DOMAIN heap' /\ heap'[free].next = free
              /\ heap'[free].member = heap[free].member
          BY <3>4, <4>2, <5>1 DEF AddTail, AddHead
        <5>3. Members(heap, free) = Members(heap', free')
          BY <4>2, <5>1, <5>2, MembersAlone
        <5> QED  BY <3>1, <3>2, <5>3 DEF Pool!vars
      <4> QED  BY <4>1, <4>2
    <3> QED  BY <2>7, <3>3, <3>4 DEF CommitOne
  <2>8. CASE Commit
    BY <2>8 DEF Commit, Pool!vars
  <2>9. CASE \E n \in 1 .. MaxBuffers : SetProperties(n)
    BY <2>9 DEF SetProperties, Pool!vars
  <2>10. CASE \E s \in Samples : AddRef(s)
    BY <2>10 DEF AddRef, Pool!vars
  <2>11. CASE UNCHANGED vars
    BY <2>11 DEF vars, Pool!vars
  <2> QED  BY <2>1, <2>2, <2>3, <2>4, <2>5, <2>6, <2>7, <2>8, <2>9, <2>10, <2>11
           DEF Next
<1>q. QED  BY AllocatorInvariant, <1>1, <1>2, PTL DEF Spec, ImplementsPool, Pool!Spec
=============================================================================
