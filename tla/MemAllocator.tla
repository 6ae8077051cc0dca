---------------------------- MODULE MemAllocator ----------------------------
(***************************************************************************)
(* The sample allocator of loader/dshow/allocator.c with the reference     *)
(* counts of loader/dshow/cmediasample.c.  One allocator serves the input  *)
(* pin (the server is its client), another one the output pin (the codec   *)
(* is).  Samples move between free_list and used_list, circular lists of   *)
(* nodes: `free' and `used' point at their first nodes, `heap' is what the *)
(* nodes that are allocated hold, lost ones included, and `live' are the   *)
(* samples created and not yet destroyed.                                  *)
(*                                                                         *)
(* avm_list_add_head never makes the old last node point at the new one.   *)
(* With two samples or more the first node goes on pointing at itself, and *)
(* what was added behind it is never reached again: the lists work as the  *)
(* lists of at most one sample, which is what the properties say.          *)
(*                                                                         *)
(* The client is external code.  It releases references it holds; it may   *)
(* decommit at any time, and does not touch what that destroyed.           *)
(* new_pointer/modified_sample are left out: nothing in the repository     *)
(* calls SetPointer.                                                       *)
(***************************************************************************)
EXTENDS Naturals

CONSTANTS
  Samples,     \* addresses a CMediaSample may get
  Nodes,       \* addresses an avm_list_t may get
  NULL,
  MaxBuffers,  \* bound: the largest cBuffers a client asks for
  MaxRefs      \* bound: references to one sample

ASSUME AllocatorAssumption ==
  MaxBuffers \in Nat \ {0} /\ MaxRefs \in Nat \ {0} /\ NULL \notin Nodes

VARIABLES
  cBuffers,    \* props.cBuffers
  free, used,  \* free_list, used_list
  heap,
  live,
  refs,        \* refcount of each sample
  pc,          \* "idle", or the call that is in its loop: "commit", "decommit"
  i,           \* of the loop of Commit
  result       \* of the last GetBuffer or ReleaseBuffer: "ok", "none" (E_FAIL,
               \* no sample) or "unknown" (E_FAIL, unknown buffer)

vars == <<cBuffers, free, used, heap, live, refs, pc, i, result>>

Empty == free = NULL /\ used = NULL
---------------------------------------------------------------------------
(* avm_list_add_head(l, s), malloc having returned n, which is the result: *)
(* the heap it leaves in place of h.                                       *)
AddHead(h, l, n, s) ==
  [x \in DOMAIN h \cup {n} |->
     CASE x = n /\ l = NULL -> [next |-> n, prev |-> n, member |-> s]
       [] x = n /\ l # NULL -> [next |-> l, prev |-> h[l].prev, member |-> s]
       [] x = l /\ l # n    -> [h[l] EXCEPT !.prev = n]
       [] OTHER             -> h[x]]

(* avm_list_add_tail keeps the head there was.                             *)
AddTail(l, n) == IF l = NULL THEN n ELSE l

(* avm_list_del_head: the new head, and the heap it leaves.                *)
SecondOf(h, l) == IF h[l].next = l THEN NULL ELSE h[l].next

DelHead(h, l) ==
  [x \in DOMAIN h \ {l} |->
     [next   |-> IF h[l].next # l /\ x = h[l].prev THEN h[l].next ELSE h[x].next,
      prev   |-> IF h[l].next # l /\ x = h[l].next THEN h[l].prev ELSE h[x].prev,
      member |-> h[x].member]]

(* The nodes of heap h that a walk from l along `next' comes by, and their *)
(* samples: avm_list_find finds these.                                     *)
Walk(h, l) ==
  {n \in DOMAIN h :
     \A W \in SUBSET DOMAIN h :
       l \in W /\ (\A m \in W : h[m].next \in W) => n \in W}

Members(h, l) == IF l = NULL THEN {} ELSE {h[n].member : n \in Walk(h, l)}
---------------------------------------------------------------------------
(* SetProperties fails while there are samples.                            *)
SetProperties(n) ==
  /\ pc = "idle" /\ Empty
  /\ cBuffers' = n
  /\ UNCHANGED <<free, used, heap, live, refs, pc, i, result>>

Commit ==
  /\ pc = "idle" /\ Empty
  /\ pc' = "commit" /\ i' = 0
  /\ UNCHANGED <<cBuffers, free, used, heap, live, refs, result>>

(* The loop of Commit creates cBuffers samples, or as many as memory       *)
(* allows: on E_OUTOFMEMORY those already created stay.                    *)
CommitOne ==
  /\ pc = "commit"
  /\ \/ pc' = "idle" /\ UNCHANGED <<free, heap, live, i>>
     \/ \E s \in Samples \ live, n \in Nodes \ DOMAIN heap :
          /\ live' = live \cup {s}
          /\ free' = AddTail(free, n) /\ heap' = AddHead(heap, free, n, s)
          /\ i' = i + 1
          /\ pc' = IF i + 1 < cBuffers THEN "commit" ELSE "idle"
  /\ UNCHANGED <<cBuffers, used, refs, result>>

(* Decommit moves what is in used_list to free_list, one by one,           *)
Decommit ==
  /\ pc = "idle" /\ ~Empty
  /\ pc' = "decommit"
  /\ UNCHANGED <<cBuffers, free, used, heap, live, refs, i, result>>

DecommitUsed ==
  /\ pc = "decommit" /\ used # NULL
  /\ \E n \in Nodes \ DOMAIN heap :
       LET h == AddHead(heap, free, n, heap[used].member) IN
         /\ free' = AddTail(free, n)
         /\ used' = SecondOf(h, used) /\ heap' = DelHead(h, used)
  /\ UNCHANGED <<cBuffers, live, refs, pc, i, result>>

(* and then destroys what is there, referenced or not.                     *)
DecommitFree ==
  /\ pc = "decommit" /\ used = NULL
  /\ live' = live \ {heap[free].member}
  /\ refs' = [refs EXCEPT ![heap[free].member] = 0]
  /\ free' = SecondOf(heap, free) /\ heap' = DelHead(heap, free)
  /\ pc' = IF SecondOf(heap, free) = NULL THEN "idle" ELSE "decommit"
  /\ UNCHANGED <<cBuffers, used, i, result>>

(* Mutant: the sample handed out is not referenced. *)
GetBuffer_noAddRef ==
  /\ pc = "idle" /\ free # NULL
  /\ LET h == DelHead(heap, free) IN
       \E n \in Nodes \ DOMAIN h :
         /\ free' = SecondOf(heap, free)
         /\ used' = AddTail(used, n)
         /\ heap' = AddHead(h, used, n, heap[free].member)
  /\ result' = "ok"
  /\ UNCHANGED <<cBuffers, live, refs, pc, i>>

GetBuffer ==
  /\ pc = "idle" /\ free # NULL
  /\ LET h == DelHead(heap, free) IN
       \E n \in Nodes \ DOMAIN h :
         /\ free' = SecondOf(heap, free)
         /\ used' = AddTail(used, n)
         /\ heap' = AddHead(h, used, n, heap[free].member)
  /\ refs' = [refs EXCEPT ![heap[free].member] = @ + 1]
  /\ result' = "ok"
  /\ UNCHANGED <<cBuffers, live, pc, i>>

GetBufferFails ==
  /\ pc = "idle" /\ free = NULL
  /\ result' = "none"
  /\ UNCHANGED <<cBuffers, free, used, heap, live, refs, pc, i>>

AddRef(s) ==
  /\ pc = "idle" /\ refs[s] \in 1 .. MaxRefs - 1
  /\ refs' = [refs EXCEPT ![s] = @ + 1]
  /\ UNCHANGED <<cBuffers, free, used, heap, live, pc, i, result>>

(* Mutant: the sample that came back is not put into free_list. *)
ReleaseBuffer_dropped(s) ==
  IF s \in Members(heap, used)
    THEN /\ used' = SecondOf(heap, used) /\ heap' = DelHead(heap, used)
         /\ UNCHANGED free /\ result' = "ok"
    ELSE UNCHANGED <<used, free, heap>> /\ result' = "unknown"

(* ReleaseBuffer looks the sample up, and then deletes the HEAD of         *)
(* used_list, whichever sample that is.                                    *)
ReleaseBuffer(s) ==
  IF s \in Members(heap, used)
    THEN LET h == DelHead(heap, used) IN
           \E n \in Nodes \ DOMAIN h :
             /\ used' = SecondOf(heap, used)
             /\ free' = n /\ heap' = AddHead(h, free, n, s)
             /\ result' = "ok"
    ELSE UNCHANGED <<used, free, heap>> /\ result' = "unknown"

(* CMediaSample_Release: the last reference gives the sample back.         *)
Release(s) ==
  /\ pc = "idle" /\ refs[s] > 0
  /\ refs' = [refs EXCEPT ![s] = @ - 1]
  /\ IF refs[s] = 1 THEN ReleaseBuffer(s)
                    ELSE UNCHANGED <<free, used, heap, result>>
  /\ UNCHANGED <<cBuffers, live, pc, i>>
---------------------------------------------------------------------------
(* MemAllocatorCreate *)
Init ==
  /\ cBuffers = 1 /\ free = NULL /\ used = NULL /\ live = {}
  /\ heap = [n \in {} |-> NULL]
  /\ refs = [s \in Samples |-> 0]
  /\ pc = "idle" /\ i = 0 /\ result = "ok"

Next ==
  \/ \E n \in 1 .. MaxBuffers : SetProperties(n)
  \/ Commit \/ CommitOne
  \/ Decommit \/ DecommitUsed \/ DecommitFree
  \/ GetBuffer \/ GetBufferFails
  \/ \E s \in Samples : AddRef(s) \/ Release(s)

Spec == Init /\ [][Next]_vars
---------------------------------------------------------------------------
(* Types; no reference count becomes negative, and no list starts at a     *)
(* node that has been freed.                                               *)
TypeOK ==
  /\ cBuffers \in 1 .. MaxBuffers
  /\ DOMAIN heap \subseteq Nodes
  /\ heap \in [DOMAIN heap -> [next : Nodes, prev : Nodes, member : Samples]]
  /\ {free, used} \subseteq DOMAIN heap \cup {NULL}
  /\ live \subseteq Samples /\ refs \in [Samples -> 0 .. MaxRefs]
  /\ pc \in {"idle", "commit", "decommit"} /\ i \in 0 .. MaxBuffers
  /\ result \in {"ok", "none", "unknown"}

(* Lists, reference counts and the samples that exist agree: a walk over   *)
(* either list stays in nodes that exist and comes back to its head (or    *)
(* avm_list_find would not end), samples in a list exist, no sample is in  *)
(* both, and a sample is in used_list exactly while somebody holds a       *)
(* reference: none is handed out twice.  (allocator.c keeps these facts    *)
(* in places that GetBuffer, Release and Decommit update separately.)      *)
ListsAgree ==
  /\ \A l \in {free, used} \ {NULL} :
       /\ \A n \in Walk(heap, l) : heap[n].next \in DOMAIN heap
       /\ \A n \in Walk(heap, l) : l \in Walk(heap, n)
  /\ Members(heap, free) \cup Members(heap, used) \subseteq live
  /\ Members(heap, free) \cap Members(heap, used) = {}
  /\ pc # "decommit" => \A s \in Samples : refs[s] > 0 <=> s \in Members(heap, used)

(* To its clients the allocator is a pool of one sample, however many were *)
(* asked for: nobody is refused while that sample is idle, it does not get *)
(* lost, and when it comes back it is known (allocator.c:282 "releasing    *)
(* unknown buffer!!!!").  The others that Commit created are out of        *)
(* everybody's reach.                                                      *)
Pool == INSTANCE SamplePool
          WITH idle <- IF pc = "decommit" THEN {} ELSE Members(heap, free),
               out  <- IF pc = "decommit" THEN {} ELSE Members(heap, used)

ImplementsPool == Pool!Spec
===========================================================================
