----------------------------- MODULE FrameStore -----------------------------
(***************************************************************************)
(* Decoded pictures inside the server: the pool of shared pages            *)
(* (memstruct, loader/dshow/cmediasample.c), the ring sampleProcData the   *)
(* codec's pictures are noted in (DS_Filter_CopySample) and the commands   *)
(* that take them out (loader/dshow/DS_VideoDecoder.c).                    *)
(*                                                                         *)
(* A block is the own_block of a sample, of the input pin or the output.   *)
(* It lies in a page of the pool or on the heap.  An address is the number *)
(* of a page (only the first byte of a page is ever the address of a       *)
(* block) or HEAP: malloc's addresses are outside [base, end].  Pictures   *)
(* are numbered as they are delivered; the number stands for the pts too.  *)
(*                                                                         *)
(* The codec is external.  With Threads = FALSE it delivers at most        *)
(* `burst' pictures, and only inside the Receive call of DecodeInternal;   *)
(* with Threads = TRUE a streaming thread delivers whenever it likes,      *)
(* except while the pins are being flushed.                                *)
(***************************************************************************)
EXTENDS Integers, Sequences, FiniteSets

CONSTANTS
  PageCount,  \* pagecount, at most 32
  Blocks,     \* own_blocks of the samples
  Slots,      \* PD_MAX_FRAMES
  Bursts,     \* how many pictures one Receive may deliver: one for each codec
  Threads,    \* TRUE: pictures are delivered by another thread
  Realloc,    \* TRUE: the codec reallocates its samples while it runs
  MaxPics     \* bound: pictures delivered

ASSUME FrameAssumption ==
  /\ PageCount \in 0 .. 32 /\ Slots \in Nat \ {0, 1}
  /\ Bursts \subseteq Nat /\ MaxPics \in Nat
  /\ Threads \in BOOLEAN /\ Realloc \in BOOLEAN

Pages == 0 .. PageCount - 1
HEAP  == -1
NONE  == -2        \* the address of a block that is not allocated

FREE_SLOT == 0
PD_SET    == 1
PD_SENT   == 2

VARIABLES
  used, locked,    \* memstruct: pages with used[i] # NULL, with locked[i] # 0
  addr,            \* the address of every block
  lastFrame,       \* sampleProcData.lastFrame
  state, pointer, pts,   \* sampleProcData.frame[i]
  pc,              \* the server: "idle", "advance", "receive", "report", "pts",
                   \* or "exited"
  burst,           \* the codec's, it never changes
  sent,            \* the pictures delivered since the last Receive began
  slot, hand,      \* the slot CopySample chose (-1: none) for which block
  stale,           \* slots whose picture's block was freed before its report
  count,           \* the pictures delivered so far
  reply,           \* what the last VD_DECODE answered: page and pts
  picture          \* the picture it answered with (0: none since a seek)

poolVars == <<used, locked, addr>>
ringVars == <<lastFrame, state, pointer, pts>>
vars == <<poolVars, ringVars, pc, burst, sent, slot, hand, stale, count, reply,
          picture>>

NoReply == [page |-> NONE, pts |-> 0]
---------------------------------------------------------------------------
(* The pool.                                                               *)

(* The page that MALLOC takes: the first one neither used nor locked.      *)
FirstFree == CHOOSE p \in Pages \ (used \cup locked) :
               \A q \in Pages \ (used \cup locked) : p <= q

(* Mutant: the page is the one after that. *)
PageNum_next(ptr) == ptr + 1

(* get_memstruct_pagenum, and the loop of FREE: the first i with           *)
(* ptr < used[i].  An unused page is NULL there, so this is the next used  *)
(* page if ptr's own page is not used any more, and pagecount after that.  *)
PageNum(ptr) == CHOOSE i \in used \cup {PageCount} :
                  i >= ptr /\ \A j \in used : j >= ptr => i <= j

(* Mutant: a locked page is given out again. *)
MALLOC_locked(b, fits) ==
  IF fits /\ Pages \ used # {}
    THEN LET p == CHOOSE q \in Pages \ used : \A r \in Pages \ used : q <= r
         IN used' = used \cup {p} /\ addr' = [addr EXCEPT ![b] = p]
    ELSE used' = used /\ addr' = [addr EXCEPT ![b] = HEAP]

MALLOC(b, fits) ==
  IF fits /\ Pages \ (used \cup locked) # {}
    THEN used' = used \cup {FirstFree} /\ addr' = [addr EXCEPT ![b] = FirstFree]
    ELSE used' = used /\ addr' = [addr EXCEPT ![b] = HEAP]

(* Mutant: a freed page stays used. *)
FREE_keepUsed(b) == used' = used /\ addr' = [addr EXCEPT ![b] = NONE]

FREE(b) ==
  /\ used' = IF addr[b] = HEAP THEN used ELSE used \ {PageNum(addr[b])}
  /\ addr' = [addr EXCEPT ![b] = NONE]

(* A block that outgrows a page moves to the heap; it is not copied.       *)
REALLOC(b) ==
  /\ used' = used \ {PageNum(addr[b])}
  /\ addr' = [addr EXCEPT ![b] = HEAP]

(* memstruct_setlock has no break: it sets every used page from ptr's own  *)
(* on, and leaves ptr's page alone if its block has been freed.            *)
setlock(ptr, value) ==
  LET reached == IF ptr = HEAP THEN {} ELSE {i \in used : i >= ptr}
  IN locked' = IF value THEN locked \cup reached ELSE locked \ reached
---------------------------------------------------------------------------
(* The codec.                                                              *)

(* Output samples are created and destroyed (Commit, Decommit) at the      *)
(* start, and again if the codec changes its format: whenever its code     *)
(* runs, whatever pictures it has delivered.  Only the sample that         *)
(* CopySample was called with stays while that call lasts.                 *)
CodecRuns == Threads \/ (pc \in {"idle", "receive"} /\ slot = -1)

create ==
  /\ CodecRuns
  /\ Realloc \/ count = 0
  /\ \E b \in Blocks, fits \in BOOLEAN : addr[b] = NONE /\ MALLOC(b, fits)
  /\ UNCHANGED <<burst, locked, ringVars, pc, sent, slot, hand, stale, count, reply,
                 picture>>

destroy ==
  /\ CodecRuns /\ Realloc
  /\ \E b \in Blocks :
       /\ addr[b] # NONE /\ ~(slot # -1 /\ hand = b)
       /\ FREE(b)
       /\ stale' = stale \cup {i \in 0 .. Slots - 1 : /\ state[i] = PD_SET
                                                      /\ pointer[i] = addr[b]
                                                      /\ addr[b] \in Pages}
  /\ UNCHANGED <<burst, locked, ringVars, pc, sent, slot, hand, count, reply,
                 picture>>

HoldsPicture(b) ==
  \/ slot # -1 /\ hand = b
  \/ \E i \in 0 .. Slots - 1 :
       i \notin stale /\ state[i] # FREE_SLOT /\ pointer[i] = addr[b]

(* DecodeInternal's SetActualDataLength, of a frame that is longer than a  *)
(* page, on the input sample; then it calls Receive.                       *)
SetActualDataLength ==
  /\ pc = "receive" /\ sent = 0
  /\ \E b \in Blocks : addr[b] \in Pages /\ ~HoldsPicture(b) /\ REALLOC(b)
  /\ UNCHANGED <<burst, locked, ringVars, pc, sent, slot, hand, stale, count, reply,
                 picture>>

At(d) == (lastFrame + d) % Slots

(* Mutant: the ring is searched from slot 0. *)
Choose_zero ==
  LET free == {i \in 0 .. Slots - 1 : state[i] = FREE_SLOT}
  IN IF free = {} THEN At(Slots - 1)
     ELSE CHOOSE i \in free : \A j \in free : i <= j

(* The slot CopySample finds under page_mutex: the first empty one from    *)
(* lastFrame on, and the one before lastFrame when none is empty.          *)
Choose ==
  At(CHOOSE d \in 0 .. Slots - 1 :
       /\ state[At(d)] = FREE_SLOT \/ d = Slots - 1
       /\ \A e \in 0 .. d - 1 : state[At(e)] # FREE_SLOT)

CopySample ==
  /\ slot = -1 /\ count < MaxPics
  /\ IF Threads THEN TRUE ELSE pc = "receive" /\ sent < burst
  /\ \E b \in Blocks : addr[b] # NONE /\ hand' = b
  /\ slot' = Choose
  /\ sent' = (IF Threads THEN sent ELSE sent + 1)
  /\ UNCHANGED <<burst, poolVars, ringVars, pc, stale, count, reply, picture>>

(* Outside the mutex: time, lock, pointer, and the state last.             *)
CopySampleFill ==
  /\ slot # -1
  /\ setlock(addr[hand], TRUE)
  /\ pts' = [pts EXCEPT ![slot] = count + 1]
  /\ pointer' = [pointer EXCEPT ![slot] = addr[hand]]
  /\ state' = [state EXCEPT ![slot] = PD_SET]
  /\ count' = count + 1 /\ slot' = -1
  /\ stale' = stale \ {slot}
  /\ UNCHANGED <<burst, used, addr, lastFrame, pc, sent, hand, reply, picture>>
---------------------------------------------------------------------------
(* The commands.                                                           *)

(* VD_DECODE begins with FreeFrame: the slot is emptied and its page       *)
(* unlocked, both without page_mutex ...                                   *)
FreeFrame ==
  /\ pc = "idle"
  /\ IF state[lastFrame] = PD_SENT
       THEN /\ state' = [state EXCEPT ![lastFrame] = FREE_SLOT]
            /\ setlock(pointer[lastFrame], FALSE)
            /\ pc' = "advance" /\ sent' = sent
       ELSE /\ UNCHANGED <<state, locked>>
            /\ pc' = "receive" /\ sent' = 0
  /\ reply' = NoReply
  /\ UNCHANGED <<burst, used, addr, lastFrame, pointer, pts, slot, hand, stale,
                 count, picture>>

(* Mutant: the index does not wrap. *)
FreeFrameAdvance_noWrap ==
  /\ pc = "advance" /\ pc' = "receive" /\ sent' = 0
  /\ lastFrame' = lastFrame + 1
  /\ UNCHANGED <<burst, poolVars, state, pointer, pts, slot, hand, stale, count,
                 reply, picture>>

(* ... and lastFrame moves on.                                             *)
FreeFrameAdvance ==
  /\ pc = "advance" /\ pc' = "receive" /\ sent' = 0
  /\ lastFrame' = At(1)
  /\ UNCHANGED <<burst, poolVars, state, pointer, pts, slot, hand, stale, count,
                 reply, picture>>

(* The allocator has no sample for the frame: SetPTS releases NULL, which  *)
(* kills the server (if the sample was taken only after that, the command  *)
(* returns -1, and the server exits when it has answered).                 *)
NoSample ==
  /\ pc = "receive" /\ sent = 0
  /\ Threads \/ slot = -1
  /\ pc' = "exited"
  /\ UNCHANGED <<burst, poolVars, ringVars, sent, slot, hand, stale, count, reply,
                 picture>>

(* DecodeInternal: the codec is given the frame, and has returned.         *)
Receive ==
  /\ pc = "receive"
  /\ Threads \/ slot = -1
  /\ pc' = "report"
  /\ UNCHANGED <<burst, poolVars, ringVars, sent, slot, hand, stale, count, reply,
                 picture>>

(* The picture at lastFrame is reported: its page, or (HEAP) a copy of it  *)
(* in `picture'.                                                           *)
DecodeInternal ==
  /\ pc = "report" /\ pc' = "pts"
  /\ IF state[lastFrame] = PD_SET
       THEN /\ state' = [state EXCEPT ![lastFrame] = PD_SENT]
            /\ reply' = [reply EXCEPT !.page =
                 IF pointer[lastFrame] = HEAP THEN HEAP
                 ELSE PageNum(pointer[lastFrame])]
            /\ picture' = pts[lastFrame]
       ELSE UNCHANGED <<state, reply, picture>>
  /\ UNCHANGED <<burst, poolVars, lastFrame, pointer, pts, sent, slot, hand, stale,
                 count>>

GetPTS ==
  /\ pc = "pts" /\ pc' = "idle"
  /\ reply' = [reply EXCEPT !.pts = pts[lastFrame]]
  /\ sent' = 0
  /\ UNCHANGED <<burst, poolVars, ringVars, slot, hand, stale, count, picture>>

Cleared == [i \in 0 .. Slots - 1 |-> 0]

(* SeekInternal: while the pins are flushed the codec delivers nothing;    *)
(* then the whole ring is zeroed.  No page is unlocked.                    *)
SeekInternal ==
  /\ pc = "idle" /\ slot = -1
  /\ state' = Cleared /\ lastFrame' = 0 /\ pts' = Cleared
  /\ pointer' = [i \in 0 .. Slots - 1 |-> HEAP]
  /\ reply' = NoReply /\ picture' = 0 /\ stale' = {}
  /\ UNCHANGED <<burst, poolVars, pc, sent, slot, hand, count>>
---------------------------------------------------------------------------
Init ==
  /\ used = {} /\ locked = {} /\ addr = [b \in Blocks |-> NONE]
  /\ lastFrame = 0 /\ state = Cleared /\ pts = Cleared
  /\ pointer = [i \in 0 .. Slots - 1 |-> HEAP]
  /\ pc = "idle" /\ sent = 0 /\ slot = -1 /\ count = 0
  /\ hand \in Blocks /\ burst \in Bursts /\ stale = {}
  /\ reply = NoReply /\ picture = 0

Next ==
  \/ create \/ destroy \/ SetActualDataLength \/ CopySample \/ CopySampleFill
  \/ FreeFrame \/ FreeFrameAdvance \/ NoSample \/ Receive \/ DecodeInternal
  \/ GetPTS \/ SeekInternal

Spec == Init /\ [][Next]_vars
---------------------------------------------------------------------------
(* Types; no index leaves the ring, no page the pool.                      *)
TypeOK ==
  /\ used \subseteq Pages /\ locked \subseteq Pages
  /\ addr \in [Blocks -> Pages \cup {HEAP, NONE}]
  /\ lastFrame \in 0 .. Slots - 1
  /\ state \in [0 .. Slots - 1 -> {FREE_SLOT, PD_SET, PD_SENT}]
  /\ pointer \in [0 .. Slots - 1 -> Pages \cup {HEAP}]
  /\ pts \in [0 .. Slots - 1 -> Nat]
  /\ pc \in {"idle", "advance", "receive", "report", "pts", "exited"}
  /\ burst \in Bursts /\ sent \in Nat /\ slot \in -1 .. Slots - 1 /\ hand \in Blocks
  /\ stale \subseteq 0 .. Slots - 1
  /\ count \in Nat /\ picture \in Nat
  /\ reply \in [page : 0 .. PageCount \cup {HEAP, NONE}, pts : Nat]

(* The pool: the used pages are exactly the pages of the live blocks, and  *)
(* no two blocks share one.                                                *)
PoolSound ==
  /\ used = {addr[b] : b \in Blocks} \cap Pages
  /\ \A a, b \in Blocks : addr[a] = addr[b] /\ addr[a] \in Pages => a = b

(* What the locks are for: the page a picture was reported in is not given *)
(* to another block before the player's next command, even if the codec    *)
(* frees the block of the picture after the report.  (memstruct_setlock    *)
(* takes no care of that if two pictures are queued: freeing one unlocks   *)
(* all later pages.  So this is for codecs with a burst of one.  A picture *)
(* whose block is freed before the report is answered with some other page *)
(* or with pagecount, which no lock of its own protects.)                  *)
PageKept ==
  [][(reply.page \in Pages /\ pc' = "idle" /\ burst <= 1 /\ lastFrame \notin stale)
       => \A b \in Blocks : addr'[b] = reply.page => addr[b] = reply.page]_vars

(* The player is sent to the page the picture lies in, whatever the codec  *)
(* allocates, frees and delivers meanwhile, if the picture's block was     *)
(* still there at the report.                                              *)
PageReported ==
  state[lastFrame] = PD_SENT /\ reply.page # NONE /\ lastFrame \notin stale =>
    reply.page = pointer[lastFrame]

(* The pictures still to be handed out, oldest first. *)
Queued ==
  LET set   == {d \in 0 .. Slots - 1 : state[At(d)] = PD_SET}
      first == CHOOSE d \in set : \A e \in set : d <= e
  IN [i \in 1 .. Cardinality(set) |-> pts[At(first + i - 1)]]

(* The ring is a queue of pictures: nothing is skipped, repeated or        *)
(* reordered, except that a full ring loses its newest picture.            *)
Queue == INSTANCE PictureQueue WITH queue <- Queued, Capacity <- Slots

ImplementsQueue == Queue!Spec
===========================================================================
