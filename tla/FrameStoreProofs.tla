-------------------------- MODULE FrameStoreProofs --------------------------
(***************************************************************************)
(* Proofs about FrameStore, for every number of pages and slots, every set *)
(* of blocks, and a codec that delivers from any thread.                   *)
(***************************************************************************)
EXTENDS FrameStore, TLAPS, WellFoundedInduction, FiniteSetTheorems

(* A set of naturals that is not empty has a least element.                *)
LEMMA Least ==
  ASSUME NEW S, S \subseteq Nat, S # {}
  PROVE  \E x \in S : \A y \in S : x <= y
<1>1. PICK x \in S : \A y \in S : ~ (<<y, x>> \in OpToRel(<, Nat))
  BY NatLessThanWellFounded, WFMin
<1>2. \A y \in S : ~ (y < x)
  BY <1>1 DEF OpToRel
<1>q. QED  BY <1>2

(* MALLOC finds a page that is neither used nor locked if there is one.    *)
LEMMA FirstFreeFound ==
  ASSUME Pages \ (used \cup locked) # {}
  PROVE  FirstFree \in Pages \ (used \cup locked)
<1> DEFINE S == Pages \ (used \cup locked)
<1>1. S \subseteq Nat
  BY FrameAssumption DEF Pages
<1>2. \E p \in S : \A q \in S : p <= q
  BY <1>1, Least
<1>q. QED  BY <1>2 DEF FirstFree

(* The page number computed for an address is a used page or pagecount,    *)
(* and it is the page itself when that page is used.                       *)
LEMMA PageNumFound ==
  ASSUME TypeOK, NEW ptr \in Pages
  PROVE  /\ PageNum(ptr) \in used \cup {PageCount}
         /\ ptr \in used => PageNum(ptr) = ptr
<1> DEFINE S == {i \in used \cup {PageCount} : i >= ptr}
<1>1. /\ PageCount \in Nat /\ ptr \in Nat /\ ptr < PageCount
      /\ used \subseteq Nat /\ \A j \in used : j < PageCount
  BY FrameAssumption DEF TypeOK, Pages
<1>2. S \subseteq Nat /\ PageCount \in S
  <2>1. used \cup {PageCount} \subseteq Nat
    BY <1>1
  <2>2. PageCount >= ptr
    BY <1>1
  <2> QED  BY <2>1, <2>2
<1>3. PICK i \in S : \A j \in S : i <= j
  <2> HIDE DEF S
  <2> QED  BY <1>2, Least
<1>4. \E n \in used \cup {PageCount} :
        n >= ptr /\ \A j \in used : j >= ptr => n <= j
  BY <1>3
<1>5. /\ PageNum(ptr) \in used \cup {PageCount}
      /\ PageNum(ptr) >= ptr
      /\ \A j \in used : j >= ptr => PageNum(ptr) <= j
  BY <1>4 DEF PageNum
<1>6. ptr \in used => PageNum(ptr) <= ptr
  BY <1>1, <1>5
<1> HIDE DEF PageNum
<1>7. PageNum(ptr) \in Nat
  BY <1>1, <1>5
<1>q. QED  BY <1>1, <1>5, <1>6, <1>7

(* An index of the ring wraps around.                                      *)
LEMMA AtInRing ==
  ASSUME TypeOK, NEW d \in Nat
  PROVE  At(d) \in 0 .. Slots - 1
<1>1. Slots \in Nat /\ Slots > 0 /\ lastFrame + d \in Nat
  BY FrameAssumption DEF TypeOK
<1>2. (lastFrame + d) % Slots \in 0 .. Slots - 1
  BY <1>1
<1>q. QED  BY <1>2 DEF At

(* CopySample's search ends, whatever the ring holds.                      *)
LEMMA ChooseFound ==
  ASSUME TypeOK
  PROVE  Choose \in 0 .. Slots - 1
<1> DEFINE S == {d \in 0 .. Slots - 1 : state[At(d)] = FREE_SLOT \/ d = Slots - 1}
<1>1. Slots \in Nat /\ Slots > 1
  BY FrameAssumption
<1>2. S \subseteq Nat /\ Slots - 1 \in S
  BY <1>1
<1>3. \E d \in S : \A e \in S : d <= e
  <2> HIDE DEF S
  <2> QED  BY <1>2, Least
<1>4. \E d \in 0 .. Slots - 1 :
        /\ state[At(d)] = FREE_SLOT \/ d = Slots - 1
        /\ \A e \in 0 .. d - 1 : state[At(e)] # FREE_SLOT
  BY <1>1, <1>3
<1> DEFINE d0 == CHOOSE d \in 0 .. Slots - 1 :
                   /\ state[At(d)] = FREE_SLOT \/ d = Slots - 1
                   /\ \A e \in 0 .. d - 1 : state[At(e)] # FREE_SLOT
<1>5. d0 \in 0 .. Slots - 1
  BY <1>4
<1>6. d0 \in Nat
  BY <1>5, <1>1
<1>7. At(d0) \in 0 .. Slots - 1
  <2> HIDE DEF d0
  <2> QED  BY <1>6, AtInRing
<1>q. QED  BY <1>7 DEF Choose

(* An address of a block, or of a picture, is a page or outside the pool.  *)
LEMMA Addresses == HEAP \notin Pages /\ NONE \notin Pages /\ HEAP # NONE
  BY FrameAssumption DEF HEAP, NONE, Pages
---------------------------------------------------------------------------
(* The picture in the hands of CopySample lies in a block that is not      *)
(* destroyed meanwhile.                                                    *)
HandLive == slot # -1 => addr[hand] # NONE

Inv == TypeOK /\ PoolSound /\ HandLive

(* Nothing is allocated before the codec is opened.                        *)
LEMMA InitInv == Init => Inv
<1>1. 0 \in 0 .. Slots - 1
  BY FrameAssumption
<1>2. Init => TypeOK
  BY <1>1, FrameAssumption DEF Init, TypeOK, Cleared, NoReply,
     FREE_SLOT, PD_SET, PD_SENT, HEAP, NONE
<1>3. Init => PoolSound
  BY Addresses DEF Init, PoolSound
<1>4. Init => HandLive
  BY DEF Init, HandLive
<1>q. QED  BY <1>2, <1>3, <1>4 DEF Inv

(* setlock stays within the pool.                                          *)
LEMMA SetlockType ==
  ASSUME TypeOK, NEW ptr, NEW value \in BOOLEAN, setlock(ptr, value)
  PROVE  locked' \subseteq Pages
  BY DEF TypeOK, setlock

(* What a step of the codec's allocator does to types and pool.            *)
LEMMA CreateStep ==
  ASSUME Inv, create
  PROVE  Inv'
<1>1. PICK b \in Blocks, fits \in BOOLEAN : addr[b] = NONE /\ MALLOC(b, fits)
  BY DEF create
<1>h. HandLive'
  <2>1. addr \in [Blocks -> Pages \cup {HEAP, NONE}] /\ hand \in Blocks
    BY DEF Inv, TypeOK
  <2>2. \A a \in Blocks : a # b => addr'[a] = addr[a]
    BY <1>1, <2>1 DEF MALLOC
  <2>3. UNCHANGED <<slot, hand>>
    BY DEF create
  <2> QED  BY <1>1, <2>1, <2>2, <2>3 DEF HandLive, Inv
<1>2. CASE fits /\ Pages \ (used \cup locked) # {}
  <2>1. /\ FirstFree \in Pages \ used
        /\ used' = used \cup {FirstFree}
        /\ addr' = [addr EXCEPT ![b] = FirstFree]
    BY <1>1, <1>2, FirstFreeFound DEF MALLOC
  <2>2. TypeOK'
    BY <2>1 DEF Inv, TypeOK, create, ringVars
  <2>3. PoolSound'
    <3> HIDE DEF FirstFree
    <3>1. addr \in [Blocks -> Pages \cup {HEAP, NONE}]
      BY DEF Inv, TypeOK
    <3> QED  BY <1>1, <2>1, <3>1, Addresses DEF Inv, PoolSound
  <2> QED  BY <1>h, <2>2, <2>3 DEF Inv
<1>3. CASE ~(fits /\ Pages \ (used \cup locked) # {})
  <2>1. used' = used /\ addr' = [addr EXCEPT ![b] = HEAP]
    BY <1>1, <1>3 DEF MALLOC
  <2>2. TypeOK'
    BY <2>1 DEF Inv, TypeOK, create, ringVars
  <2>3. PoolSound'
    <3>1. addr \in [Blocks -> Pages \cup {HEAP, NONE}]
      BY DEF Inv, TypeOK
    <3> QED  BY <1>1, <2>1, <3>1, Addresses DEF Inv, PoolSound
  <2> QED  BY <1>h, <2>2, <2>3 DEF Inv
<1>q. QED  BY <1>2, <1>3

(* FREE gives back exactly the page of the block, whose address is at the  *)
(* start of a used page.                                                   *)
LEMMA DestroyStep ==
  ASSUME Inv, destroy
  PROVE  Inv'
<1>1. PICK b \in Blocks : addr[b] # NONE /\ ~(slot # -1 /\ hand = b) /\ FREE(b)
  BY DEF destroy
<1>2. /\ addr \in [Blocks -> Pages \cup {HEAP, NONE}]
      /\ addr' = [addr EXCEPT ![b] = NONE]
  BY <1>1 DEF FREE, Inv, TypeOK
<1>3. used' = used \ {addr[b]}
  <2>1. CASE addr[b] = HEAP
    BY <1>1, <2>1, Addresses DEF FREE, Inv, TypeOK
  <2>2. CASE addr[b] # HEAP
    <3>1. addr[b] \in Pages /\ addr[b] \in used
      BY <1>1, <1>2, <2>2 DEF Inv, PoolSound
    <3>2. PageNum(addr[b]) = addr[b]
      BY <3>1, PageNumFound DEF Inv
    <3> QED  BY <1>1, <2>2, <3>2 DEF FREE
  <2> QED  BY <2>1, <2>2
<1>4. TypeOK'
  <2>1. stale' \subseteq 0 .. Slots - 1
    BY DEF destroy, Inv, TypeOK
  <2> QED  BY <1>2, <1>3, <2>1 DEF Inv, TypeOK, destroy, ringVars
<1>5. PoolSound'
  BY <1>1, <1>2, <1>3, Addresses DEF Inv, PoolSound
<1>6. HandLive'
  BY <1>1, <1>2 DEF HandLive, destroy, Inv, TypeOK
<1>q. QED  BY <1>4, <1>5, <1>6 DEF Inv

(* A block that grows gives back exactly its own page.                     *)
LEMMA GrowStep ==
  ASSUME Inv, SetActualDataLength
  PROVE  Inv'
<1>1. PICK b \in Blocks : addr[b] \in Pages /\ ~HoldsPicture(b) /\ REALLOC(b)
  BY DEF SetActualDataLength
<1>2. /\ addr \in [Blocks -> Pages \cup {HEAP, NONE}]
      /\ addr' = [addr EXCEPT ![b] = HEAP]
  BY <1>1 DEF REALLOC, Inv, TypeOK
<1>3. used' = used \ {addr[b]}
  <2>1. addr[b] \in used
    BY <1>1, <1>2 DEF Inv, PoolSound
  <2>2. PageNum(addr[b]) = addr[b]
    BY <1>1, <2>1, PageNumFound DEF Inv
  <2> QED  BY <1>1, <2>2 DEF REALLOC
<1>4. TypeOK'
  BY <1>2, <1>3 DEF Inv, TypeOK, SetActualDataLength, ringVars
<1>5. PoolSound'
  BY <1>1, <1>2, <1>3, Addresses DEF Inv, PoolSound
<1>6. HandLive'
  BY <1>2, Addresses DEF HandLive, Inv, TypeOK, SetActualDataLength
<1>q. QED  BY <1>4, <1>5, <1>6 DEF Inv

(* Delivering a picture keeps every index inside the ring, and the block   *)
(* it lies in alive.                                                       *)
LEMMA CopySampleStep ==
  ASSUME Inv, CopySample
  PROVE  Inv'
<1>1. Choose \in -1 .. Slots - 1
  BY ChooseFound, FrameAssumption DEF Inv
<1> HIDE DEF Choose
<1>2. hand' \in Blocks /\ slot' = Choose /\ sent' \in Nat
  BY DEF CopySample, Inv, TypeOK
<1>3. TypeOK'
  BY <1>1, <1>2 DEF CopySample, Inv, TypeOK, poolVars, ringVars
<1>4. PoolSound' /\ HandLive'
  BY DEF CopySample, Inv, PoolSound, HandLive, poolVars
<1>q. QED  BY <1>3, <1>4 DEF Inv

(* Noting a picture down stores the page of a block that is still alive.   *)
LEMMA CopySampleFillStep ==
  ASSUME Inv, CopySampleFill
  PROVE  Inv'
<1>1. locked' \subseteq Pages
  BY SetlockType DEF CopySampleFill, Inv
<1>2. slot \in 0 .. Slots - 1
  BY FrameAssumption DEF CopySampleFill, Inv, TypeOK
<1>3. addr[hand] \in Pages \cup {HEAP}
  BY DEF CopySampleFill, Inv, TypeOK, HandLive
<1>4. /\ slot' \in -1 .. Slots - 1
      /\ count' \in Nat
  BY FrameAssumption DEF CopySampleFill, Inv, TypeOK
<1>5. /\ pts' \in [0 .. Slots - 1 -> Nat]
      /\ state' \in [0 .. Slots - 1 -> {FREE_SLOT, PD_SET, PD_SENT}]
  BY <1>2 DEF CopySampleFill, Inv, TypeOK
<1>6. pointer' \in [0 .. Slots - 1 -> Pages \cup {HEAP}]
  BY <1>2, <1>3 DEF CopySampleFill, Inv, TypeOK
<1>7. TypeOK'
  BY <1>1, <1>4, <1>5, <1>6 DEF CopySampleFill, Inv, TypeOK
<1>8. PoolSound' /\ HandLive'
  BY DEF CopySampleFill, Inv, PoolSound, HandLive
<1>q. QED  BY <1>7, <1>8 DEF Inv

(* The commands do not touch the pool, and stay inside the ring.           *)
LEMMA FreeFrameStep ==
  ASSUME Inv, FreeFrame
  PROVE  Inv'
<1>1. locked' \subseteq Pages
  BY SetlockType DEF FreeFrame, Inv, TypeOK
<1>2. /\ state' \in [0 .. Slots - 1 -> {FREE_SLOT, PD_SET, PD_SENT}]
      /\ pc' \in {"advance", "receive"} /\ sent' \in Nat
  <2>1. CASE state[lastFrame] = PD_SENT
    BY <2>1 DEF FreeFrame, Inv, TypeOK
  <2>2. CASE state[lastFrame] # PD_SENT
    BY <2>2 DEF FreeFrame, Inv, TypeOK
  <2> QED  BY <2>1, <2>2
<1>3. reply' \in [page : 0 .. PageCount \cup {HEAP, NONE}, pts : Nat]
  BY DEF FreeFrame, NoReply
<1>4. TypeOK'
  BY <1>1, <1>2, <1>3 DEF FreeFrame, Inv, TypeOK
<1>5. PoolSound' /\ HandLive'
  BY DEF FreeFrame, Inv, PoolSound, HandLive
<1>q. QED  BY <1>4, <1>5 DEF Inv

(* What is reported is a page of the pool, or that the picture was copied. *)
LEMMA DecodeInternalStep ==
  ASSUME Inv, DecodeInternal
  PROVE  Inv'
<1>1. PoolSound' /\ HandLive'
  BY DEF DecodeInternal, Inv, PoolSound, HandLive, poolVars
<1>2. CASE state[lastFrame] = PD_SET
  <2> DEFINE page == IF pointer[lastFrame] = HEAP THEN HEAP
                     ELSE PageNum(pointer[lastFrame])
  <2>1. page \in 0 .. PageCount \cup {HEAP, NONE}
    <3>1. CASE pointer[lastFrame] = HEAP
      BY <3>1
    <3>2. CASE pointer[lastFrame] # HEAP
      <4>1. pointer[lastFrame] \in Pages
        BY <3>2 DEF Inv, TypeOK
      <4>2. PageNum(pointer[lastFrame]) \in used \cup {PageCount}
        BY <4>1, PageNumFound DEF Inv
      <4>3. used \subseteq 0 .. PageCount /\ PageCount \in 0 .. PageCount
        BY FrameAssumption DEF Inv, TypeOK, Pages
      <4> QED  BY <3>2, <4>2, <4>3
    <3> QED  BY <3>1, <3>2
  <2>2. reply' = [reply EXCEPT !.page = page]
    BY <1>2 DEF DecodeInternal
  <2> HIDE DEF page
  <2>3. reply' \in [page : 0 .. PageCount \cup {HEAP, NONE}, pts : Nat]
    BY <2>1, <2>2 DEF Inv, TypeOK
  <2>4. /\ state' \in [0 .. Slots - 1 -> {FREE_SLOT, PD_SET, PD_SENT}]
        /\ picture' \in Nat
    BY <1>2 DEF DecodeInternal, Inv, TypeOK
  <2>5. TypeOK'
    BY <2>3, <2>4 DEF DecodeInternal, Inv, TypeOK, poolVars
  <2> QED  BY <1>1, <2>5 DEF Inv
<1>3. CASE state[lastFrame] # PD_SET
  <2>1. TypeOK'
    BY <1>3 DEF DecodeInternal, Inv, TypeOK, poolVars
  <2> QED  BY <1>1, <2>1 DEF Inv
<1>q. QED  BY <1>2, <1>3

(* The rest of a command, and a seek, leave the pool alone and the index   *)
(* of the ring in its range.                                               *)
LEMMA OtherCommands ==
  ASSUME Inv, FreeFrameAdvance \/ NoSample \/ Receive \/ GetPTS \/ SeekInternal
  PROVE  Inv'
<1>1. CASE FreeFrameAdvance
  <2>1. lastFrame' \in 0 .. Slots - 1
    BY <1>1, AtInRing DEF FreeFrameAdvance, Inv
  <2> QED  BY <1>1, <2>1
           DEF FreeFrameAdvance, Inv, TypeOK, PoolSound, HandLive, poolVars
<1>2. CASE NoSample \/ Receive
  BY <1>2 DEF NoSample, Receive, Inv, TypeOK, PoolSound, HandLive, poolVars, ringVars
<1>3. CASE GetPTS
  <2>1. reply' \in [page : 0 .. PageCount \cup {HEAP, NONE}, pts : Nat]
    BY <1>3 DEF GetPTS, Inv, TypeOK
  <2> QED  BY <1>3, <2>1
           DEF GetPTS, Inv, TypeOK, PoolSound, HandLive, poolVars, ringVars
<1>4. CASE SeekInternal
  <2>1. 0 \in 0 .. Slots - 1
    BY FrameAssumption
  <2>2. /\ state' \in [0 .. Slots - 1 -> {FREE_SLOT, PD_SET, PD_SENT}]
        /\ pts' \in [0 .. Slots - 1 -> Nat]
        /\ pointer' \in [0 .. Slots - 1 -> Pages \cup {HEAP}]
    BY <1>4 DEF SeekInternal, Cleared, FREE_SLOT
  <2>3. reply' \in [page : 0 .. PageCount \cup {HEAP, NONE}, pts : Nat]
    BY <1>4 DEF SeekInternal, NoReply
  <2> QED  BY <1>4, <2>1, <2>2, <2>3
           DEF SeekInternal, Inv, TypeOK, PoolSound, HandLive, poolVars
<1>q. QED  BY <1>1, <1>2, <1>3, <1>4

(* The invariant of the frame store.                                       *)
THEOREM FrameInvariant == Spec => []Inv
<1>1. Inv /\ [Next]_vars => Inv'
  <2> SUFFICES ASSUME Inv, [Next]_vars PROVE Inv'
    OBVIOUS
  <2>1. CASE Next
    BY <2>1, CreateStep, DestroyStep, GrowStep, CopySampleStep, CopySampleFillStep,
       FreeFrameStep, DecodeInternalStep, OtherCommands DEF Next
  <2>2. CASE UNCHANGED vars
    BY <2>2 DEF vars, poolVars, ringVars, Inv, TypeOK, PoolSound, HandLive
  <2> QED  BY <2>1, <2>2
<1>q. QED  BY InitInv, <1>1, PTL DEF Spec

(* Every value stays in its type: no index leaves the ring or the pool.    *)
THEOREM TypeCorrect == Spec => []TypeOK
<1>1. Inv => TypeOK
  BY DEF Inv
<1>q. QED  BY FrameInvariant, <1>1, PTL

(* No two blocks are ever given the same page, whatever is freed, locked   *)
(* and allocated again, and no page stays used by nobody.                  *)
THEOREM PoolIsSound == Spec => []PoolSound
<1>1. Inv => PoolSound
  BY DEF Inv
<1>q. QED  BY FrameInvariant, <1>1, PTL
---------------------------------------------------------------------------
(* What the locks achieve, when the codec delivers at most one picture,    *)
(* and that inside Receive.                                                *)
OneAtATime == ~Threads /\ burst <= 1

Ring == 0 .. Slots - 1

(* Outside a VD_DECODE the ring holds at most the picture sent last, and   *)
(* its page is locked.                                                     *)
AtRest ==
  pc \in {"idle", "pts"} =>
    /\ \A i \in Ring : state[i] # PD_SET
    /\ \A i \in Ring : state[i] = PD_SENT => i = lastFrame
    /\ reply.page \in Pages /\ lastFrame \notin stale => reply.page \in locked

(* Between FreeFrame and the report the ring holds at most the picture     *)
(* delivered meanwhile, whose page is locked, and used unless its block    *)
(* has been freed.                                                         *)
InDecode ==
  pc \in {"advance", "receive", "report"} =>
    /\ \A i \in Ring : state[i] # PD_SENT
    /\ \A i \in Ring : state[i] = PD_SET =>
         /\ i = lastFrame /\ sent = 1 /\ slot = -1 /\ pc # "advance"
         /\ pointer[i] \in Pages => pointer[i] \in locked
         /\ pointer[i] \in Pages /\ i \notin stale => pointer[i] \in used
    /\ reply = NoReply

(* CopySample runs inside Receive, and fills the slot at lastFrame.        *)
Filling ==
  slot # -1 =>
    /\ pc = "receive" /\ sent = 1 /\ slot = lastFrame
    /\ \A i \in Ring : state[i] = FREE_SLOT

Delivery == AtRest /\ InDecode /\ Filling

(* In an empty ring CopySample chooses the slot at lastFrame.              *)
LEMMA ChooseEmpty ==
  ASSUME TypeOK, \A i \in Ring : state[i] = FREE_SLOT
  PROVE  Choose = lastFrame
<1>1. Slots \in Nat /\ Slots > 1 /\ lastFrame \in 0 .. Slots - 1
  BY FrameAssumption DEF TypeOK
<1>2. At(0) = lastFrame
  BY <1>1 DEF At
<1>3. state[At(0)] = FREE_SLOT
  BY <1>1, <1>2 DEF Ring
<1> DEFINE First(d) == /\ state[At(d)] = FREE_SLOT \/ d = Slots - 1
                       /\ \A e \in 0 .. d - 1 : state[At(e)] # FREE_SLOT
<1>4. 0 \in 0 .. Slots - 1 /\ First(0)
  BY <1>1, <1>3
<1>5. \A d \in 0 .. Slots - 1 : First(d) => d = 0
  BY <1>1, <1>3
<1> HIDE DEF First
<1>6. (CHOOSE d \in 0 .. Slots - 1 : First(d)) = 0
  BY <1>4, <1>5
<1>q. QED  BY <1>2, <1>6 DEF Choose, First

(* A block created or freed leaves the locks alone; if a picture lies in   *)
(* the block freed, it is a stale one from then on.                        *)
LEMMA AllocatorDelivery ==
  ASSUME Inv, Delivery, OneAtATime, create \/ destroy
  PROVE  Delivery'
<1>1. /\ UNCHANGED <<locked, ringVars, pc, sent, slot, hand, count, reply, picture>>
      /\ slot = -1
  BY DEF create, destroy, CodecRuns, OneAtATime
<1>2. stale \subseteq stale'
  BY DEF create, destroy
<1>3. AtRest'
  BY <1>1, <1>2 DEF Delivery, AtRest, ringVars
<1>4. \A i \in Ring : /\ state[i] = PD_SET /\ i \notin stale' /\ pointer[i] \in used
                      => pointer[i] \in used' \/ pointer[i] \notin Pages
  <2>1. CASE create
    BY <2>1 DEF create, MALLOC
  <2>2. CASE destroy
    <3>1. PICK b \in Blocks :
            /\ addr[b] # NONE /\ FREE(b)
            /\ stale' = stale \cup {i \in 0 .. Slots - 1 : /\ state[i] = PD_SET
                                                          /\ pointer[i] = addr[b]
                                                          /\ addr[b] \in Pages}
      BY <2>2 DEF destroy
    <3>2. used' = used \ {addr[b]} \/ used' = used
      BY <3>1, PageNumFound DEF FREE, Inv, PoolSound, TypeOK
    <3> QED  BY <3>1, <3>2 DEF Ring
  <2> QED  BY <2>1, <2>2
<1>5. InDecode'
  BY <1>1, <1>2, <1>4 DEF Delivery, InDecode, ringVars
<1>6. Filling'
  BY <1>1 DEF Filling
<1>q. QED  BY <1>3, <1>5, <1>6 DEF Delivery

(* No picture is in the ring when the input sample grows.                  *)
LEMMA GrowDelivery ==
  ASSUME Inv, Delivery, SetActualDataLength
  PROVE  Delivery'
<1>1. /\ UNCHANGED <<locked, ringVars, pc, sent, slot, hand, stale, reply>>
      /\ pc = "receive" /\ sent = 0
  BY DEF SetActualDataLength
<1>2. \A i \in Ring : state[i] # PD_SET
  BY <1>1 DEF Delivery, InDecode
<1>q. QED  BY <1>1, <1>2 DEF Delivery, AtRest, InDecode, Filling, ringVars

(* The first picture of a Receive finds the ring empty.                    *)
LEMMA CopySampleDelivery ==
  ASSUME Inv, Delivery, OneAtATime, CopySample
  PROVE  Delivery'
<1>1. /\ pc = "receive" /\ sent = 0
      /\ UNCHANGED <<poolVars, ringVars, pc, stale, reply>>
      /\ slot' = Choose /\ sent' = 1
  BY FrameAssumption DEF CopySample, OneAtATime, Inv, TypeOK
<1>2. \A i \in Ring : state[i] = FREE_SLOT
  BY <1>1 DEF Delivery, InDecode, Inv, TypeOK, Ring
<1>3. Choose = lastFrame
  BY <1>2, ChooseEmpty DEF Inv
<1>4. AtRest'
  BY <1>1 DEF AtRest
<1>5. InDecode'
  BY <1>1, <1>2 DEF Delivery, InDecode, ringVars, poolVars, FREE_SLOT, PD_SET, PD_SENT
<1>6. Filling'
  BY <1>1, <1>2, <1>3 DEF Filling, ringVars
<1>q. QED  BY <1>4, <1>5, <1>6 DEF Delivery

(* The page of a picture just delivered is used, hence setlock locks it.   *)
LEMMA CopySampleFillDelivery ==
  ASSUME Inv, Delivery, CopySampleFill
  PROVE  Delivery'
<1>1. /\ pc = "receive" /\ sent = 1 /\ slot = lastFrame /\ slot \in Ring
      /\ \A i \in Ring : state[i] = FREE_SLOT
  BY DEF CopySampleFill, Delivery, Filling, Inv, TypeOK, Ring
<1>2. /\ state' = [state EXCEPT ![lastFrame] = PD_SET]
      /\ pointer' = [pointer EXCEPT ![lastFrame] = addr[hand]]
      /\ slot' = -1 /\ UNCHANGED <<used, addr, lastFrame, pc, sent, reply>>
      /\ setlock(addr[hand], TRUE)
  BY <1>1 DEF CopySampleFill
<1>3. addr[hand] \in Pages => addr[hand] \in used \cap locked'
  <2> SUFFICES ASSUME addr[hand] \in Pages PROVE addr[hand] \in used \cap locked'
    OBVIOUS
  <2>1. addr[hand] \in used
    BY DEF Inv, PoolSound, TypeOK
  <2>2. addr[hand] # HEAP /\ addr[hand] \in Nat
    BY Addresses, FrameAssumption DEF Pages
  <2> QED  BY <1>2, <2>1, <2>2 DEF setlock
<1>4. AtRest' /\ Filling'
  BY <1>1, <1>2 DEF AtRest, Filling
<1>5. InDecode'
  <2>1. reply = NoReply
    BY <1>1 DEF Delivery, InDecode
  <2>2. /\ state' \in [Ring -> {FREE_SLOT, PD_SET, PD_SENT}]
        /\ state'[lastFrame] = PD_SET /\ pointer'[lastFrame] = addr[hand]
        /\ \A i \in Ring : i # lastFrame => state'[i] = FREE_SLOT
    BY <1>1, <1>2 DEF Inv, TypeOK, Ring, FREE_SLOT, PD_SET, PD_SENT
  <2> QED  BY <1>1, <1>2, <1>3, <2>1, <2>2 DEF InDecode, FREE_SLOT, PD_SET, PD_SENT
<1>q. QED  BY <1>4, <1>5 DEF Delivery

(* The picture the player was shown is given up: the ring is empty now.    *)
LEMMA FreeFrameDelivery ==
  ASSUME Inv, Delivery, FreeFrame
  PROVE  Delivery'
<1>1. /\ \A i \in Ring : state[i] # PD_SET
      /\ \A i \in Ring : state[i] = PD_SENT => i = lastFrame
      /\ slot = -1 /\ slot' = -1
      /\ state \in [Ring -> {FREE_SLOT, PD_SET, PD_SENT}] /\ lastFrame \in Ring
      /\ UNCHANGED <<lastFrame, pointer, used>> /\ reply' = NoReply
      /\ pc' \in {"advance", "receive"}
  BY DEF FreeFrame, Delivery, AtRest, Filling, Inv, TypeOK, Ring
<1>2. \A i \in Ring : state'[i] # PD_SET /\ state'[i] # PD_SENT
  <2>1. CASE state[lastFrame] = PD_SENT
    BY <1>1, <2>1 DEF FreeFrame, FREE_SLOT, PD_SET, PD_SENT
  <2>2. CASE state[lastFrame] # PD_SENT
    BY <1>1, <2>2 DEF FreeFrame
  <2> QED  BY <2>1, <2>2
<1>q. QED  BY <1>1, <1>2 DEF Delivery, AtRest, InDecode, Filling

(* The page reported is locked.                                            *)
LEMMA DecodeInternalDelivery ==
  ASSUME Inv, Delivery, DecodeInternal
  PROVE  Delivery'
<1>1. /\ slot = -1 /\ slot' = -1 /\ pc' = "pts"
      /\ UNCHANGED <<poolVars, lastFrame, pointer, stale>>
      /\ state \in [Ring -> {FREE_SLOT, PD_SET, PD_SENT}] /\ lastFrame \in Ring
      /\ \A i \in Ring : state[i] # PD_SENT
      /\ \A i \in Ring : state[i] = PD_SET => i = lastFrame
      /\ state[lastFrame] = PD_SET /\ pointer[lastFrame] \in Pages =>
           /\ pointer[lastFrame] \in locked
           /\ lastFrame \notin stale => pointer[lastFrame] \in used
      /\ reply = NoReply
  BY DEF DecodeInternal, Delivery, InDecode, Filling, Inv, TypeOK, Ring
<1>2. CASE state[lastFrame] = PD_SET
  <2>1. /\ state' = [state EXCEPT ![lastFrame] = PD_SENT]
        /\ reply' = [reply EXCEPT !.page =
               IF pointer[lastFrame] = HEAP THEN HEAP
               ELSE PageNum(pointer[lastFrame])]
    BY <1>2 DEF DecodeInternal
  <2>2. pointer[lastFrame] \in Pages \cup {HEAP}
    BY DEF Inv, TypeOK
  <2>3. reply'.page \in Pages /\ lastFrame \notin stale => reply'.page \in locked
    <3>1. CASE pointer[lastFrame] = HEAP
      BY <1>1, <2>1, <3>1, Addresses DEF NoReply
    <3>2. CASE pointer[lastFrame] # HEAP /\ lastFrame \notin stale
      <4>1. PageNum(pointer[lastFrame]) = pointer[lastFrame]
        BY <1>1, <1>2, <2>2, <3>2, PageNumFound DEF Inv
      <4>2. pointer[lastFrame] \in locked
        BY <1>1, <1>2, <2>2, <3>2
      <4> QED  BY <1>1, <2>1, <3>2, <4>1, <4>2 DEF NoReply
    <3> QED  BY <3>1, <3>2
  <2>4. \A i \in Ring : state'[i] # PD_SET /\ (state'[i] = PD_SENT => i = lastFrame)
    BY <1>1, <2>1 DEF FREE_SLOT, PD_SET, PD_SENT
  <2> QED  BY <1>1, <2>3, <2>4 DEF Delivery, AtRest, InDecode, Filling, poolVars
<1>3. CASE state[lastFrame] # PD_SET
  <2>1. UNCHANGED <<state, reply>>
    BY <1>3 DEF DecodeInternal
  <2>2. reply.page = NONE
    BY <1>1 DEF NoReply
  <2> QED  BY <1>1, <1>3, <2>1, <2>2, Addresses
           DEF Delivery, AtRest, InDecode, Filling, poolVars
<1>q. QED  BY <1>2, <1>3

(* The steps in between keep the ring empty before Receive and hold at     *)
(* most one picture after it.                                              *)
LEMMA OtherDelivery ==
  ASSUME Inv, Delivery, OneAtATime,
         FreeFrameAdvance \/ NoSample \/ Receive \/ GetPTS \/ SeekInternal
  PROVE  Delivery'
<1>1. CASE FreeFrameAdvance
  <2>1. \A i \in Ring : state[i] # PD_SET /\ state[i] # PD_SENT
    BY <1>1 DEF FreeFrameAdvance, Delivery, InDecode
  <2>2. slot = -1 /\ reply = NoReply
    BY <1>1 DEF FreeFrameAdvance, Delivery, InDecode, Filling
  <2> QED  BY <1>1, <2>1, <2>2
           DEF FreeFrameAdvance, Delivery, AtRest, InDecode, Filling
<1>2. CASE NoSample \/ Receive
  <2>1. slot = -1
    BY <1>2 DEF NoSample, Receive, OneAtATime
  <2> QED  BY <1>2, <2>1
           DEF NoSample, Receive, Delivery, AtRest, InDecode, Filling, poolVars, ringVars
<1>3. CASE GetPTS
  <2>1. slot = -1
    BY <1>3 DEF GetPTS, Delivery, Filling
  <2>2. reply'.page = reply.page
    BY <1>3 DEF GetPTS, Inv, TypeOK
  <2> QED  BY <1>3, <2>1, <2>2
           DEF GetPTS, Delivery, AtRest, InDecode, Filling, poolVars, ringVars
<1>4. CASE SeekInternal
  <2>1. \A i \in Ring : state'[i] # PD_SET /\ state'[i] # PD_SENT
    BY <1>4 DEF SeekInternal, Cleared, Ring, PD_SET, PD_SENT
  <2>2. reply'.page = NONE
    BY <1>4 DEF SeekInternal, NoReply
  <2> QED  BY <1>4, <2>1, <2>2, Addresses
           DEF SeekInternal, Delivery, AtRest, InDecode, Filling, poolVars
<1>q. QED  BY <1>1, <1>2, <1>3, <1>4

(* Delivery holds of an empty ring.                                        *)
LEMMA InitDelivery == Init => Delivery
  BY Addresses DEF Init, Delivery, AtRest, InDecode, Filling, Cleared, NoReply,
     Ring, PD_SET, PD_SENT

(* A codec does not change its habits.                                     *)
LEMMA BurstRigid == [Next]_vars => burst' = burst
  BY DEF Next, create, destroy, SetActualDataLength, CopySample, CopySampleFill, FreeFrame, FreeFrameAdvance,
     NoSample, Receive, DecodeInternal, GetPTS, SeekInternal, vars

(* The invariant behind PageKept.                                          *)
THEOREM DeliveryInvariant == Spec => [](Inv /\ (OneAtATime => Delivery))
<1>1. Inv /\ (OneAtATime => Delivery) /\ [Next]_vars => (OneAtATime => Delivery)'
  <2> SUFFICES ASSUME Inv, Delivery, OneAtATime, [Next]_vars PROVE Delivery'
    BY BurstRigid DEF OneAtATime
  <2>1. CASE Next
    BY <2>1, AllocatorDelivery, GrowDelivery, CopySampleDelivery,
       CopySampleFillDelivery, FreeFrameDelivery, DecodeInternalDelivery,
       OtherDelivery DEF Next
  <2>2. CASE UNCHANGED vars
    BY <2>2 DEF vars, poolVars, ringVars, Delivery, AtRest, InDecode, Filling
  <2> QED  BY <2>1, <2>2
<1>q. QED  BY FrameInvariant, InitDelivery, <1>1, PTL DEF Spec

(* A picture not handed out yet whose block has not been freed lies in a   *)
(* used page or on the heap, and between FreeFrame and the report there is *)
(* no reply.                                                               *)
Reported ==
  /\ \A i \in Ring : state[i] = PD_SET /\ i \notin stale =>
       pointer[i] \in used \cup {HEAP}
  /\ pc \in {"advance", "receive", "report"} => reply.page = NONE
  /\ PageReported

(* The allocator and a growing sample leave the pages of pictures alone.   *)
LEMMA AllocatorReported ==
  ASSUME Inv, Reported, create \/ destroy \/ SetActualDataLength
  PROVE  Reported'
<1>1. UNCHANGED <<state, pointer, lastFrame, pc, reply>> /\ stale \subseteq stale'
  BY DEF create, destroy, SetActualDataLength, ringVars
<1>2. CASE create
  <2>1. used \subseteq used'
    BY <1>2 DEF create, MALLOC
  <2> QED  BY <1>1, <2>1 DEF Reported, PageReported
<1>3. CASE destroy
  <2>1. PICK b \in Blocks :
          /\ addr[b] # NONE /\ FREE(b)
          /\ stale' = stale \cup {i \in 0 .. Slots - 1 : /\ state[i] = PD_SET
                                                        /\ pointer[i] = addr[b]
                                                        /\ addr[b] \in Pages}
    BY <1>3 DEF destroy
  <2>2. used' = used \ {addr[b]} \/ used' = used
    BY <2>1, PageNumFound DEF FREE, Inv, PoolSound, TypeOK
  <2>3. used \subseteq Pages
    BY DEF Inv, TypeOK
  <2>4. \A i \in Ring : state[i] = PD_SET /\ i \notin stale' =>
          pointer[i] \in used' \cup {HEAP}
    BY <2>1, <2>2, <2>3 DEF Reported, Ring
  <2> QED  BY <1>1, <2>4 DEF Reported, PageReported
<1>4. CASE SetActualDataLength
  <2>1. PICK b \in Blocks : addr[b] \in Pages /\ ~HoldsPicture(b) /\ REALLOC(b)
    BY <1>4 DEF SetActualDataLength
  <2>2. used' = used \ {addr[b]}
    BY <2>1, PageNumFound DEF REALLOC, Inv, PoolSound
  <2>3. \A i \in Ring : state[i] = PD_SET /\ i \notin stale => pointer[i] # addr[b]
    BY <2>1 DEF HoldsPicture, Ring, FREE_SLOT, PD_SET
  <2> QED  BY <1>1, <2>2, <2>3 DEF Reported, PageReported
<1>q. QED  BY <1>2, <1>3, <1>4

(* The picture delivered lies in a block.                                  *)
LEMMA FillReported ==
  ASSUME Inv, Reported, CopySampleFill
  PROVE  Reported'
<1>1. /\ slot \in Ring /\ UNCHANGED <<used, lastFrame, pc, reply>>
      /\ pointer' = [pointer EXCEPT ![slot] = addr[hand]]
      /\ state' = [state EXCEPT ![slot] = PD_SET] /\ stale' = stale \ {slot}
  BY FrameAssumption DEF CopySampleFill, Inv, TypeOK, Ring
<1>2. state \in [Ring -> {FREE_SLOT, PD_SET, PD_SENT}] /\ pointer \in [Ring -> Pages \cup {HEAP}]
      /\ lastFrame \in Ring
  BY DEF Inv, TypeOK, Ring
<1>3. addr[hand] \in used \cup {HEAP}
  BY DEF CopySampleFill, Inv, HandLive, PoolSound, TypeOK
<1>4. \A i \in Ring : /\ state'[i] = IF i = slot THEN PD_SET ELSE state[i]
                      /\ pointer'[i] = IF i = slot THEN addr[hand] ELSE pointer[i]
  BY <1>1, <1>2
<1>q. QED  BY <1>1, <1>2, <1>3, <1>4 DEF Reported, PageReported, PD_SET, PD_SENT

(* The page reported is the one the picture lies in.                       *)
LEMMA DecodeReported ==
  ASSUME Inv, Reported, DecodeInternal
  PROVE  Reported'
<1>1. /\ pc = "report" /\ pc' = "pts" /\ UNCHANGED <<used, lastFrame, pointer, stale>>
      /\ lastFrame \in Ring /\ reply.page = NONE
      /\ state \in [Ring -> {FREE_SLOT, PD_SET, PD_SENT}]
  BY DEF DecodeInternal, poolVars, Inv, TypeOK, Ring, Reported
<1>2. CASE state[lastFrame] = PD_SET
  <2>1. /\ state' = [state EXCEPT ![lastFrame] = PD_SENT]
        /\ reply' = [reply EXCEPT !.page =
             IF pointer[lastFrame] = HEAP THEN HEAP ELSE PageNum(pointer[lastFrame])]
    BY <1>2 DEF DecodeInternal
  <2>2. lastFrame \notin stale => pointer[lastFrame] \in used \cup {HEAP}
    BY <1>1, <1>2 DEF Reported
  <2>3. lastFrame \notin stale /\ pointer[lastFrame] # HEAP => PageNum(pointer[lastFrame]) = pointer[lastFrame]
    <3>1. used \subseteq Pages /\ TypeOK
      BY DEF Inv, TypeOK
    <3> QED  BY <2>2, <3>1, PageNumFound
  <2>4. lastFrame \notin stale => reply'.page = pointer[lastFrame]
    BY <2>1, <2>3 DEF Inv, TypeOK
  <2>5. \A i \in Ring : state'[i] = PD_SET => state[i] = PD_SET
    BY <1>1, <2>1 DEF PD_SET, PD_SENT
  <2> QED  BY <1>1, <2>4, <2>5 DEF Reported, PageReported
<1>3. CASE state[lastFrame] # PD_SET
  BY <1>1, <1>3 DEF DecodeInternal, Reported, PageReported
<1>q. QED  BY <1>2, <1>3

(* The other commands.                                                     *)
LEMMA OtherReported ==
  ASSUME Inv, Reported,
         \/ CopySample \/ FreeFrame \/ FreeFrameAdvance \/ NoSample \/ Receive \/ GetPTS
         \/ SeekInternal \/ UNCHANGED vars
  PROVE  Reported'
<1>0. /\ state \in [Ring -> {FREE_SLOT, PD_SET, PD_SENT}] /\ lastFrame \in Ring
      /\ reply \in [page : 0 .. PageCount \cup {HEAP, NONE}, pts : Nat]
  BY DEF Inv, TypeOK, Ring
<1>1. CASE CopySample \/ UNCHANGED vars
  BY <1>1 DEF CopySample, vars, poolVars, ringVars, Reported, PageReported
<1>2. CASE FreeFrame
  <2>1. UNCHANGED <<used, lastFrame, pointer, stale>> /\ reply'.page = NONE
    BY <1>2 DEF FreeFrame, NoReply
  <2>2. \A i \in Ring : state'[i] = PD_SET => state[i] = PD_SET
    <3>1. state' = state \/ state' = [state EXCEPT ![lastFrame] = FREE_SLOT]
      BY <1>2 DEF FreeFrame
    <3> QED  BY <1>0, <3>1 DEF FREE_SLOT, PD_SET
  <2> QED  BY <2>1, <2>2 DEF Reported, PageReported
<1>3. CASE FreeFrameAdvance
  <2>1. UNCHANGED <<used, state, pointer, stale, reply>> /\ reply.page = NONE
    BY <1>3 DEF FreeFrameAdvance, poolVars, Reported
  <2> QED  BY <2>1 DEF Reported, PageReported
<1>4. CASE NoSample \/ Receive \/ GetPTS
  <2>1. UNCHANGED <<used, state, pointer, lastFrame, stale>> /\ reply'.page = reply.page
        /\ (pc' = "report" => pc = "receive") /\ pc' \in {"report", "idle", "exited"}
    BY <1>0, <1>4 DEF NoSample, Receive, GetPTS, poolVars, ringVars
  <2> QED  BY <2>1 DEF Reported, PageReported
<1>5. CASE SeekInternal
  <2>1. reply'.page = NONE /\ \A i \in Ring : state'[i] # PD_SET
    BY <1>5 DEF SeekInternal, NoReply, Cleared, Ring, PD_SET
  <2> QED  BY <2>1 DEF Reported, PageReported
<1>q. QED  BY <1>1, <1>2, <1>3, <1>4, <1>5

(* The player is told the page its picture lies in, whatever thread        *)
(* delivers pictures and however many, and whatever blocks are created and *)
(* freed meanwhile, unless the picture's own block was freed before the    *)
(* report.                                                                 *)
THEOREM PageIsReported == Spec => []PageReported
<1>1. Init => Reported
  BY DEF Init, Reported, PageReported, Cleared, NoReply, Ring, PD_SET, PD_SENT
<1>2. Inv /\ Reported /\ [Next]_vars => Reported'
  <2> SUFFICES ASSUME Inv, Reported, [Next]_vars PROVE Reported'
    OBVIOUS
  <2> QED  BY AllocatorReported, FillReported, DecodeReported, OtherReported DEF Next
<1>3. Reported => PageReported
  BY DEF Reported
<1>q. QED  BY <1>1, <1>2, <1>3, FrameInvariant, PTL DEF Spec

(* While the player looks at its picture, no other block gets the page.    *)
THEOREM PageIsKept == ASSUME ~Threads PROVE Spec => PageKept
<1> DEFINE Kept == (/\ reply.page \in Pages /\ pc' = "idle" /\ burst <= 1
                   /\ lastFrame \notin stale) =>
              \A b \in Blocks : addr'[b] = reply.page => addr[b] = reply.page
<1>1. Inv /\ (OneAtATime => Delivery) /\ [Next]_vars => [Kept]_vars
  <2> SUFFICES ASSUME Inv, Delivery, Next, ~Threads, reply.page \in Pages,
                      pc' = "idle", lastFrame \notin stale, NEW b \in Blocks, addr'[b] = reply.page
               PROVE  addr[b] = reply.page
    BY DEF OneAtATime
  <2>1. CASE create
    <3>1. reply.page \in locked
      BY <2>1 DEF create, Delivery, AtRest
    <3>2. PICK c \in Blocks, fits \in BOOLEAN : addr[c] = NONE /\ MALLOC(c, fits)
      BY <2>1 DEF create
    <3>3. CASE fits /\ Pages \ (used \cup locked) # {}
      <4>1. FirstFree \notin locked /\ addr' = [addr EXCEPT ![c] = FirstFree]
        BY <3>2, <3>3, FirstFreeFound DEF MALLOC
      <4> HIDE DEF FirstFree
      <4> QED  BY <3>1, <4>1 DEF Inv, TypeOK
    <3>4. CASE ~(fits /\ Pages \ (used \cup locked) # {})
      <4>1. addr' = [addr EXCEPT ![c] = HEAP]
        BY <3>2, <3>4 DEF MALLOC
      <4> QED  BY <4>1, Addresses DEF Inv, TypeOK
    <3> QED  BY <3>3, <3>4
  <2>2. CASE destroy
    <3>1. PICK c \in Blocks : FREE(c)
      BY <2>2 DEF destroy
    <3> QED  BY <3>1, Addresses DEF FREE, Inv, TypeOK
  <2>4. CASE SetActualDataLength
    BY <2>4 DEF SetActualDataLength
  <2>3. CASE ~(create \/ destroy \/ SetActualDataLength)
    BY <2>3 DEF Next, CopySample, CopySampleFill, FreeFrame, FreeFrameAdvance,
       NoSample, Receive, DecodeInternal, GetPTS, SeekInternal, poolVars
  <2> QED  BY <2>1, <2>2, <2>3, <2>4
<1>q. QED  BY DeliveryInvariant, <1>1, PTL DEF PageKept, Spec
---------------------------------------------------------------------------
(* The ring is a queue.  When the codec delivers inside Receive, the       *)
(* pictures not handed out yet lie in one window of the ring.  It begins   *)
(* at lastFrame until the picture there has been handed out, and one slot  *)
(* after it from then on until FreeFrame has moved lastFrame.              *)
Offset == IF pc \in {"receive", "report", "exited"} THEN 0 ELSE 1

Window(n) ==
  /\ n \in Nat /\ Offset + n <= Slots
  /\ \A d \in Ring : state[At(d)] = PD_SET <=> Offset <= d /\ d < Offset + n
  /\ \A d \in Ring : state[At(d)] = PD_SENT => d = 0 /\ pc \in {"idle", "pts"}
  /\ pc \in {"idle", "pts"} /\ n > 0 => state[lastFrame] = PD_SENT
  /\ slot # -1 => pc = "receive" /\ slot = At(IF n < Slots THEN n ELSE Slots - 1)

Listing(n) == [i \in 1 .. n |-> pts[At(Offset + i - 1)]]

(* An index wraps around once at most.                                     *)
LEMMA Wrap ==
  ASSUME NEW l \in Ring, NEW d \in 0 .. Slots
  PROVE  (l + d) % Slots = IF l + d < Slots THEN l + d ELSE l + d - Slots
<1>1. Slots \in Nat \ {0} /\ l \in Nat /\ l < Slots /\ d \in Nat /\ d <= Slots
  BY FrameAssumption DEF Ring
<1>2. CASE l + d < Slots
  BY <1>1, <1>2
<1>3. CASE l + d >= Slots
  <2> DEFINE e == l + d - Slots
  <2>1. e \in 0 .. Slots - 1 /\ l + d = e + Slots
    BY <1>1, <1>3
  <2> HIDE DEF e
  <2>2. (e + Slots) % Slots = e
    BY <1>1, <2>1
  <2> QED  BY <1>1, <1>3, <2>1, <2>2 DEF e
<1>q. QED  BY <1>1, <1>2, <1>3

(* An interval has as many elements as its length, and a least one.        *)
LEMMA Interval ==
  ASSUME NEW o \in Nat, NEW n \in Nat
  PROVE  /\ Cardinality(o .. o + n - 1) = n
         /\ n > 0 => (CHOOSE d \in o .. o + n - 1 : \A e \in o .. o + n - 1 : d <= e) = o
<1>1. Cardinality(o .. o + n - 1) = n
  BY FS_Interval
<1>2. ASSUME n > 0
      PROVE  (CHOOSE d \in o .. o + n - 1 : \A e \in o .. o + n - 1 : d <= e) = o
  <2>1. o \in o .. o + n - 1 /\ \A e \in o .. o + n - 1 : o <= e
    BY <1>2
  <2>2. \A d \in o .. o + n - 1 : (\A e \in o .. o + n - 1 : d <= e) => d = o
    BY <2>1
  <2> QED  BY <2>1, <2>2
<1>q. QED  BY <1>1, <1>2

(* What is in the window is what is queued.                                *)
WindowQueued == \A n : TypeOK /\ Window(n) => Queued = Listing(n)

LEMMA QueuedIsListing == WindowQueued
<1> SUFFICES ASSUME NEW n, TypeOK, Window(n) PROVE Queued = Listing(n)
  BY DEF WindowQueued
<1> DEFINE set == {d \in 0 .. Slots - 1 : state[At(d)] = PD_SET}
           first == CHOOSE d \in set : \A e \in set : d <= e
<1>1. Slots \in Nat /\ n \in Nat /\ Offset \in Nat /\ Offset + n <= Slots
  BY FrameAssumption DEF Window, Offset
<1>2. set = Offset .. Offset + n - 1
  BY <1>1 DEF Window, Ring
<1>3. Queued = [i \in 1 .. Cardinality(set) |-> pts[At(first + i - 1)]]
  BY DEF Queued
<1> HIDE DEF set
<1>4. Cardinality(set) = n /\ (n > 0 => first = Offset)
  BY <1>1, <1>2, Interval
<1>5. CASE n = 0
  BY <1>3, <1>4, <1>5 DEF Listing
<1>6. CASE n > 0
  BY <1>3, <1>4, <1>6 DEF Listing
<1>q. QED  BY <1>1, <1>5, <1>6

LEMMA QueuedIsListingNext == WindowQueued'
  BY QueuedIsListing, PTL

(* The indexes counted from lastFrame.                                     *)
LEMMA AtWraps ==
  ASSUME TypeOK
  PROVE  /\ Slots \in Nat /\ Slots > 1 /\ lastFrame \in Nat /\ lastFrame < Slots
         /\ \A d \in 0 .. Slots : At(d) = IF lastFrame + d < Slots THEN lastFrame + d
                                          ELSE lastFrame + d - Slots
         /\ \A d \in Ring : At(d) \in Ring
         /\ \A d, e \in Ring : At(d) = At(e) => d = e
         /\ \A i \in Ring : \E d \in Ring : At(d) = i
<1>1. Slots \in Nat /\ Slots > 1 /\ lastFrame \in Ring /\ lastFrame \in Nat /\ lastFrame < Slots
  BY FrameAssumption DEF TypeOK, Ring
<1>2. \A d \in 0 .. Slots : At(d) = IF lastFrame + d < Slots THEN lastFrame + d
                                    ELSE lastFrame + d - Slots
  BY <1>1, Wrap DEF At
<1>3. \A d, e \in Ring : At(d) \in Ring /\ (At(d) = At(e) => d = e)
  BY <1>1, <1>2 DEF Ring
<1>4. ASSUME NEW i \in Ring PROVE \E d \in Ring : At(d) = i
  <2> DEFINE d == IF i >= lastFrame THEN i - lastFrame ELSE i + Slots - lastFrame
  <2>1. d \in Ring /\ i \in Nat /\ i < Slots
    BY <1>1 DEF Ring
  <2>2. At(d) = i
    BY <1>1, <1>2, <2>1 DEF Ring
  <2> QED  BY <2>1, <2>2
<1>q. QED  BY <1>1, <1>2, <1>3, <1>4

(* CopySample chooses the slot behind the window, or the last of it.       *)
LEMMA ChooseBehind ==
  ASSUME TypeOK, NEW n, Window(n), pc = "receive"
  PROVE  Choose = At(IF n < Slots THEN n ELSE Slots - 1)
<1> DEFINE k == IF n < Slots THEN n ELSE Slots - 1
           First(d) == /\ state[At(d)] = FREE_SLOT \/ d = Slots - 1
                       /\ \A e \in 0 .. d - 1 : state[At(e)] # FREE_SLOT
<1>1. Slots \in Nat /\ Slots > 1 /\ n \in Nat /\ n <= Slots /\ k \in Ring
  BY AtWraps DEF Window, Offset, Ring
<1>2. /\ \A d \in Ring : d < n => state[At(d)] = PD_SET
      /\ \A d \in Ring : d >= n => state[At(d)] = FREE_SLOT
  <2>1. \A d \in Ring : state[At(d)] \in {FREE_SLOT, PD_SET, PD_SENT}
    BY AtWraps DEF TypeOK, Ring
  <2> QED  BY <1>1, <2>1 DEF Window, Offset, Ring
<1>3. First(k)
  BY <1>1, <1>2 DEF Ring, FREE_SLOT, PD_SET
<1>4. \A d \in Ring : First(d) => d = k
  BY <1>1, <1>2 DEF Ring, FREE_SLOT, PD_SET
<1> HIDE DEF First
<1>5. (CHOOSE d \in 0 .. Slots - 1 : First(d)) = k
  BY <1>1, <1>3, <1>4 DEF Ring
<1>q. QED  BY <1>5 DEF Choose, First

(* The ring is empty at first.                                             *)
LEMMA InitWindow == Init => Window(0)
<1> SUFFICES ASSUME Init PROVE Window(0)
  OBVIOUS
<1>1. TypeOK
  BY InitInv DEF Inv
<1>2. \A d \in Ring : state[At(d)] = FREE_SLOT
  BY <1>1, AtWraps DEF Init, Cleared, Ring, FREE_SLOT
<1>3. pc = "idle" /\ slot = -1 /\ Offset = 1 /\ Slots \in Nat /\ Slots > 1
  BY FrameAssumption DEF Init, Offset
<1>4. \A d \in Ring : ~(1 <= d /\ d < 1 + 0)
  BY <1>3 DEF Ring
<1>q. QED  BY <1>2, <1>3, <1>4 DEF Window, FREE_SLOT, PD_SET, PD_SENT

(* The steps that move no picture.                                         *)
LEMMA QuietWindow ==
  ASSUME TypeOK, ~Threads, NEW n, Window(n),
         \/ create \/ destroy \/ SetActualDataLength
         \/ CopySample \/ NoSample \/ Receive \/ GetPTS \/ UNCHANGED vars
  PROVE  Window(n)' /\ Listing(n)' = Listing(n) /\ UNCHANGED <<count, picture>>
<1>1. UNCHANGED <<state, lastFrame, pts, count, picture>>
  BY DEF create, destroy, SetActualDataLength, CopySample, NoSample, Receive, GetPTS,
         vars, ringVars
<1>2. Offset' = Offset /\ (pc' \in {"idle", "pts"} <=> pc \in {"idle", "pts"})
  BY DEF create, destroy, SetActualDataLength, CopySample, NoSample, Receive, GetPTS,
         vars, Offset
<1>3. \A d : At(d)' = At(d)
  BY <1>1 DEF At
<1>4. Listing(n)' = Listing(n)
  BY <1>1, <1>2, <1>3 DEF Listing
<1>5. slot' # -1 => pc' = "receive" /\ slot' = At(IF n < Slots THEN n ELSE Slots - 1)
  <2>1. CASE CopySample
    BY <2>1, ChooseBehind DEF CopySample
  <2>2. CASE NoSample \/ Receive
    BY <2>2 DEF NoSample, Receive
  <2>3. CASE create \/ destroy \/ SetActualDataLength \/ GetPTS \/ UNCHANGED vars
    BY <2>3 DEF create, destroy, SetActualDataLength, GetPTS, vars, Window
  <2> QED  BY <2>1, <2>2, <2>3
<1>6. Window(n)'
  BY <1>1, <1>2, <1>3, <1>5 DEF Window
<1>q. QED  BY <1>1, <1>4, <1>6

(* A picture is delivered: behind the others, or over the newest.          *)
LEMMA FillWindow ==
  ASSUME TypeOK, NEW n, Window(n), CopySampleFill
  PROVE  \E m : /\ Window(m)'
                /\ Listing(m)' = IF n < Slots THEN Append(Listing(n), count + 1)
                                 ELSE [Listing(n) EXCEPT ![Slots] = count + 1]
<1> DEFINE k == IF n < Slots THEN n ELSE Slots - 1
<1>1. /\ slot # -1 /\ slot' = -1 /\ UNCHANGED <<lastFrame, pc>>
      /\ state' = [state EXCEPT ![slot] = PD_SET] /\ pts' = [pts EXCEPT ![slot] = count + 1]
  BY DEF CopySampleFill
<1>2. /\ n \in Nat /\ n <= Slots /\ slot = At(k) /\ pc = "receive" /\ Offset = 0
      /\ \A d \in Ring : state[At(d)] = PD_SET <=> d < n
      /\ \A d \in Ring : state[At(d)] # PD_SENT
  BY <1>1 DEF Window, Offset, Ring
<1>3. /\ Slots \in Nat /\ Slots > 1 /\ k \in Ring
      /\ \A d \in Ring : At(d) \in Ring
      /\ \A d, e \in Ring : At(d) = At(e) => d = e
  BY <1>2, AtWraps DEF Ring
<1>4. \A d : At(d)' = At(d)
  BY <1>1 DEF At
<1>5. /\ state \in [Ring -> {FREE_SLOT, PD_SET, PD_SENT}] /\ pts \in [Ring -> Nat]
  BY DEF TypeOK, Ring
<1>6. Offset' = 0 /\ pc' = "receive"
  BY <1>1, <1>2 DEF Offset
<1> HIDE DEF k
<1>7. \A d \in Ring : /\ state'[At(d)] = IF d = k THEN PD_SET ELSE state[At(d)]
                      /\ pts'[At(d)] = IF d = k THEN count + 1 ELSE pts[At(d)]
  BY <1>1, <1>2, <1>3, <1>5
<1>8. Window(k + 1)'
  <2>1. k + 1 \in Nat /\ k + 1 <= Slots /\ \A d \in Ring : d < k + 1 <=> d < n \/ d = k
    BY <1>2, <1>3 DEF Ring, k
  <2>2. \A d \in Ring : state'[At(d)'] = PD_SET <=> d < k + 1
    BY <1>2, <1>4, <1>7, <2>1
  <2>3. \A d \in Ring : state'[At(d)'] # PD_SENT
    BY <1>2, <1>4, <1>7 DEF PD_SET, PD_SENT
  <2>4. \A d \in Ring : 0 <= d
    BY <1>3 DEF Ring
  <2>5. 0 + (k + 1) <= Slots
    BY <2>1
  <2> QED  BY <1>1, <1>6, <2>1, <2>2, <2>3, <2>4, <2>5 DEF Window
<1>9. Listing(k + 1)' = [i \in 1 .. k + 1 |-> IF i = k + 1 THEN count + 1 ELSE pts[At(i - 1)]]
  <2>1. \A i \in 1 .. k + 1 : i - 1 \in Ring /\ (i - 1 = k <=> i = k + 1) /\ 0 + i - 1 = i - 1
    BY <1>3 DEF Ring
  <2>2. \A i \in 1 .. k + 1 : pts'[At(0 + i - 1)'] = IF i = k + 1 THEN count + 1 ELSE pts[At(i - 1)]
    BY <1>4, <1>7, <2>1
  <2> QED  BY <1>6, <2>2 DEF Listing
<1>10. Listing(n) = [i \in 1 .. n |-> pts[At(i - 1)]]
  <2>1. \A i \in 1 .. n : 0 + i - 1 = i - 1
    OBVIOUS
  <2> QED  BY <1>2, <2>1 DEF Listing
<1>11. Listing(k + 1)' = IF n < Slots THEN Append(Listing(n), count + 1)
                         ELSE [Listing(n) EXCEPT ![Slots] = count + 1]
  <2>1. CASE n < Slots
    <3>1. k = n
      BY <2>1 DEF k
    <3>2. Listing(n) \in Seq(Nat) /\ Len(Listing(n)) = n
      <4>1. \A i \in 1 .. n : pts[At(i - 1)] \in Nat
        BY <1>2, <1>3, <1>5 DEF Ring
      <4> QED  BY <1>2, <1>10, <4>1
    <3> QED  BY <1>2, <1>9, <1>10, <2>1, <3>1, <3>2
  <2>2. CASE ~(n < Slots)
    <3>1. n = Slots /\ k + 1 = Slots
      BY <1>2, <1>3, <2>2 DEF k
    <3> QED  BY <1>9, <1>10, <2>2, <3>1
  <2> QED  BY <2>1, <2>2
<1>q. QED  BY <1>8, <1>11

(* FreeFrame empties the slot that was handed out, or finds an empty ring. *)
LEMMA FreeWindow ==
  ASSUME TypeOK, NEW n, Window(n), FreeFrame
  PROVE  Window(n)' /\ Listing(n)' = Listing(n)
<1>1. pc = "idle" /\ UNCHANGED <<lastFrame, pts, slot>> /\ Offset = 1 /\ slot = -1
  BY DEF FreeFrame, Window, Offset
<1>2. \A d : At(d)' = At(d)
  BY <1>1 DEF At
<1>3. /\ Slots \in Nat /\ Slots > 1 /\ At(0) = lastFrame /\ 0 \in Ring
      /\ \A d \in Ring : At(d) \in Ring /\ (At(d) = lastFrame => d = 0)
      /\ n \in Nat /\ 1 + n <= Slots
  <2>1. Slots \in Nat /\ Slots > 1 /\ 0 \in Ring
    BY AtWraps DEF Ring
  <2>2. At(0) = lastFrame
    BY <2>1, AtWraps
  <2>3. \A d \in Ring : At(d) \in Ring /\ (At(d) = At(0) => d = 0)
    BY <2>1, AtWraps
  <2> QED  BY <1>1, <2>1, <2>2, <2>3 DEF Window
<1>4. CASE state[lastFrame] = PD_SENT
  <2>1. state' = [state EXCEPT ![lastFrame] = FREE_SLOT] /\ pc' = "advance"
    BY <1>4 DEF FreeFrame
  <2>2. Offset' = 1
    BY <2>1 DEF Offset
  <2>3. \A d \in Ring : state'[At(d)] = IF d = 0 THEN FREE_SLOT ELSE state[At(d)]
    BY <1>3, <2>1 DEF TypeOK, Ring
  <2>4. \A d \in Ring : (state'[At(d)] = PD_SET <=> 1 <= d /\ d < 1 + n) /\ state'[At(d)] # PD_SENT
    BY <1>1, <1>3, <2>3 DEF Window, FREE_SLOT, PD_SET, PD_SENT
  <2>5. Window(n)'
    BY <1>1, <1>2, <1>3, <2>1, <2>2, <2>4 DEF Window
  <2>6. Listing(n)' = Listing(n)
    BY <1>1, <1>2, <2>2 DEF Listing
  <2> QED  BY <2>5, <2>6
<1>5. CASE state[lastFrame] # PD_SENT
  <2>1. state' = state /\ pc' = "receive" /\ n = 0
    BY <1>1, <1>3, <1>5 DEF FreeFrame, Window
  <2>2. Offset' = 0
    BY <2>1 DEF Offset
  <2>3. \A d \in Ring : state[At(d)] # PD_SET /\ state[At(d)] # PD_SENT
    BY <1>1, <1>3, <1>5, <2>1 DEF Window, Ring
  <2>4. \A d \in Ring : ~(0 <= d /\ d < 0 + n)
    BY <1>3, <2>1 DEF Ring
  <2>5. Window(n)'
    BY <1>1, <1>2, <1>3, <2>1, <2>2, <2>3, <2>4 DEF Window
  <2>6. Listing(n)' = Listing(n)
    BY <2>1 DEF Listing
  <2> QED  BY <2>5, <2>6
<1>q. QED  BY <1>4, <1>5

(* ... and the window begins at lastFrame again.                           *)
LEMMA AdvanceWindow ==
  ASSUME TypeOK, TypeOK', NEW n, Window(n), FreeFrameAdvance
  PROVE  Window(n)' /\ Listing(n)' = Listing(n)
<1>1. /\ pc = "advance" /\ pc' = "receive" /\ lastFrame' = At(1)
      /\ UNCHANGED <<state, pts, slot>> /\ Offset = 1 /\ Offset' = 0 /\ slot = -1
  BY DEF FreeFrameAdvance, Window, Offset
<1>2. /\ Slots \in Nat /\ Slots > 1 /\ n \in Nat /\ 1 + n <= Slots
      /\ lastFrame \in Nat /\ lastFrame < Slots
      /\ At(1) \in Ring /\ At(Slots) = At(0)
      /\ \A d \in 0 .. Slots : At(d) = IF lastFrame + d < Slots THEN lastFrame + d
                                       ELSE lastFrame + d - Slots
  <2>1. /\ Slots \in Nat /\ Slots > 1 /\ lastFrame \in Nat /\ lastFrame < Slots /\ 1 \in Ring
        /\ \A d \in 0 .. Slots : At(d) = IF lastFrame + d < Slots THEN lastFrame + d
                                         ELSE lastFrame + d - Slots
    BY AtWraps DEF Ring
  <2>2. At(1) \in Ring
    BY <2>1, AtWraps
  <2>3. At(Slots) = At(0)
    BY <2>1
  <2> QED  BY <1>1, <2>1, <2>2, <2>3 DEF Window
<1>3. \A d \in Ring : At(d)' = At(d + 1)
  <2> TAKE d \in Ring
  <2>1. At(d)' = (At(1) + d) % Slots
    BY <1>1 DEF At
  <2>2. (At(1) + d) % Slots = IF At(1) + d < Slots THEN At(1) + d ELSE At(1) + d - Slots
    <3>1. d \in 0 .. Slots
      BY <1>2 DEF Ring
    <3>2. At(1) \in Ring
      BY <1>2
    <3> QED  BY <3>1, <3>2, Wrap
  <2>3. d \in Nat /\ d + 1 \in 0 .. Slots /\ 1 \in 0 .. Slots
    BY <1>2 DEF Ring
  <2>4. /\ At(1) = IF lastFrame + 1 < Slots THEN lastFrame + 1 ELSE lastFrame + 1 - Slots
        /\ At(d + 1) = IF lastFrame + (d + 1) < Slots THEN lastFrame + (d + 1)
                       ELSE lastFrame + (d + 1) - Slots
    BY <1>2, <2>3
  <2> HIDE DEF At
  <2>5. d < Slots
    BY <1>2 DEF Ring
  <2> QED  BY <1>2, <2>1, <2>2, <2>3, <2>4, <2>5
<1>4. \A d \in Ring : d + 1 \in Ring \/ d + 1 = Slots
  BY <1>2 DEF Ring
<1>5. \A d \in Ring : (state[At(d + 1)] = PD_SET <=> d < n) /\ state[At(d + 1)] # PD_SENT
  <2>1. 0 \in Ring /\ \A d \in Ring : d \in Nat
    BY <1>2 DEF Ring
  <2>2. \A d \in Ring : (state[At(d)] = PD_SET <=> 1 <= d /\ d < 1 + n) /\ state[At(d)] # PD_SENT
    BY <1>1 DEF Window
  <2> HIDE DEF At
  <2> TAKE d \in Ring
  <2>3. CASE d + 1 \in Ring
    BY <1>2, <2>1, <2>2, <2>3
  <2>4. CASE d + 1 = Slots
    BY <1>2, <2>1, <2>2, <2>4
  <2> QED  BY <1>4, <2>3, <2>4
<1>6. Window(n)'
  <2>1. \A d \in Ring : 0 <= d /\ 0 + n <= Slots /\ 0 + n = n
    BY <1>2 DEF Ring
  <2>2. \A d \in Ring : (state'[At(d)'] = PD_SET <=> d < n) /\ state'[At(d)'] # PD_SENT
    BY <1>1, <1>3, <1>5
  <2>3. 0 + n <= Slots /\ 0 + n = n
    BY <1>2
  <2> QED  BY <1>1, <1>2, <2>1, <2>2, <2>3 DEF Window
<1>7. Listing(n)' = Listing(n)
  <2>1. \A i \in 1 .. n : 0 + i - 1 \in Ring /\ (0 + i - 1) + 1 = 1 + i - 1
    BY <1>2 DEF Ring
  <2>2. \A i \in 1 .. n : At(0 + i - 1)' = At(1 + i - 1)
    BY <1>3, <2>1
  <2> QED  BY <1>1, <2>2 DEF Listing
<1>q. QED  BY <1>6, <1>7

(* DecodeInternal hands out the first picture of the window, if any.       *)
LEMMA DecodeWindow ==
  ASSUME TypeOK, NEW n, Window(n), DecodeInternal
  PROVE  \/ n = 0 /\ Window(0)' /\ picture' = picture
         \/ /\ n > 0 /\ Window(n - 1)'
            /\ Listing(n) # <<>> /\ picture' = Head(Listing(n))
            /\ Listing(n - 1)' = Tail(Listing(n))
<1>1. /\ pc = "report" /\ pc' = "pts" /\ UNCHANGED <<lastFrame, pts, slot>>
      /\ Offset = 0 /\ Offset' = 1 /\ slot = -1
  BY DEF DecodeInternal, Window, Offset
<1>2. \A d : At(d)' = At(d)
  BY <1>1 DEF At
<1>3. /\ Slots \in Nat /\ Slots > 1 /\ At(0) = lastFrame /\ 0 \in Ring
      /\ \A d \in Ring : At(d) \in Ring /\ (At(d) = lastFrame => d = 0)
      /\ n \in Nat /\ n <= Slots
      /\ \A d \in Ring : d \in Nat /\ (state[At(d)] = PD_SET <=> d < n) /\ state[At(d)] # PD_SENT
  <2>1. Slots \in Nat /\ Slots > 1 /\ 0 \in Ring /\ \A d \in Ring : d \in Nat
    BY AtWraps DEF Ring
  <2>2. At(0) = lastFrame
    BY <2>1, AtWraps
  <2>3. \A d \in Ring : At(d) \in Ring /\ (At(d) = At(0) => d = 0)
    BY <2>1, AtWraps
  <2>4. n \in Nat /\ 0 + n <= Slots
    BY <1>1 DEF Window
  <2>5. \A d \in Ring : (state[At(d)] = PD_SET <=> d < n) /\ state[At(d)] # PD_SENT
    <3>1. \A d \in Ring : (state[At(d)] = PD_SET <=> 0 <= d /\ d < 0 + n) /\ state[At(d)] # PD_SENT
      BY <1>1 DEF Window
    <3> QED  BY <2>1, <2>4, <3>1
  <2>6. n <= Slots
    BY <2>4
  <2> QED  BY <2>1, <2>2, <2>3, <2>4, <2>5, <2>6
<1>4. CASE n = 0
  <2>1. state' = state /\ picture' = picture
    BY <1>3, <1>4 DEF DecodeInternal
  <2>2. \A d \in Ring : ~(1 <= d /\ d < 1 + 0) /\ state[At(d)] # PD_SET
    BY <1>3, <1>4
  <2>3. Window(0)'
    BY <1>1, <1>2, <1>3, <2>1, <2>2 DEF Window
  <2> QED  BY <1>4, <2>1, <2>3
<1>5. CASE n > 0
  <2>1. /\ state' = [state EXCEPT ![lastFrame] = PD_SENT] /\ picture' = pts[lastFrame]
    BY <1>3, <1>5 DEF DecodeInternal
  <2>2. \A d \in Ring : state'[At(d)] = IF d = 0 THEN PD_SENT ELSE state[At(d)]
    BY <1>3, <2>1 DEF TypeOK, Ring
  <2>3. \A d \in Ring : /\ state'[At(d)] = PD_SET <=> 1 <= d /\ d < 1 + (n - 1)
                        /\ state'[At(d)] = PD_SENT => d = 0
    BY <1>3, <1>5, <2>2 DEF PD_SET, PD_SENT
  <2>4. n - 1 \in Nat /\ 1 + (n - 1) <= Slots /\ state'[lastFrame] = PD_SENT
    BY <1>3, <1>5, <2>2
  <2>5. Window(n - 1)'
    BY <1>1, <1>2, <2>3, <2>4 DEF Window
  <2>6. Listing(n) = [i \in 1 .. n |-> pts[At(i - 1)]]
    <3>1. \A i \in 1 .. n : 0 + i - 1 = i - 1
      OBVIOUS
    <3> QED  BY <1>1, <3>1 DEF Listing
  <2>7. Listing(n - 1)' = [i \in 1 .. n - 1 |-> pts[At(i)]]
    <3>1. \A i \in 1 .. n - 1 : 1 + i - 1 = i
      OBVIOUS
    <3> QED  BY <1>1, <1>2, <3>1 DEF Listing
  <2>8. Listing(n) \in Seq(Nat) /\ Len(Listing(n)) = n
    <3>1. \A i \in 1 .. n : pts[At(i - 1)] \in Nat
      <4>1. \A i \in 1 .. n : i - 1 \in Ring
        BY <1>3 DEF Ring
      <4> QED  BY <1>3, <4>1 DEF TypeOK, Ring
    <3> QED  BY <1>3, <2>6, <3>1
  <2>9. Listing(n) # <<>> /\ Head(Listing(n)) = pts[At(0)]
    BY <1>3, <1>5, <2>6, <2>8
  <2>10. Tail(Listing(n)) = [i \in 1 .. n - 1 |-> pts[At(i)]]
    <3>1. Tail(Listing(n)) = [i \in 1 .. n - 1 |-> Listing(n)[i + 1]]
      <4> DEFINE q == Listing(n)
      <4>1. q \in Seq(Nat) /\ Len(q) = n /\ n > 0 /\ n \in Nat
        BY <1>3, <1>5, <2>8
      <4> HIDE DEF q
      <4>2. /\ Tail(q) \in Seq(Nat) /\ Len(Tail(q)) = n - 1
            /\ \A i \in 1 .. n - 1 : Tail(q)[i] = q[i + 1]
        BY <4>1
      <4>3. Tail(q) = [i \in 1 .. n - 1 |-> q[i + 1]]
        <5>1. PICK t : t = Tail(q)
          OBVIOUS
        <5>2. t \in Seq(Nat) /\ Len(t) = n - 1 /\ \A i \in 1 .. n - 1 : t[i] = q[i + 1]
          BY <4>2, <5>1
        <5>3. t = [i \in 1 .. n - 1 |-> t[i]]
          BY <4>1, <5>2
        <5>4. t = [i \in 1 .. n - 1 |-> q[i + 1]]
          BY <5>2, <5>3
        <5> QED  BY <5>1, <5>4
      <4> QED  BY <4>3 DEF q
    <3>2. \A i \in 1 .. n - 1 : i + 1 \in 1 .. n /\ (i + 1) - 1 = i
      BY <1>3
    <3> QED  BY <2>6, <3>1, <3>2
  <2> QED  BY <1>3, <1>5, <2>1, <2>5, <2>7, <2>9, <2>10
<1>q. QED  BY <1>3, <1>4, <1>5

(* A seek empties the ring.                                                *)
LEMMA SeekWindow ==
  ASSUME TypeOK', SeekInternal
  PROVE  Window(0)'
<1>1. pc' = "idle" /\ slot' = -1 /\ state' = Cleared /\ lastFrame' = 0 /\ Offset' = 1
  BY DEF SeekInternal, Offset
<1>2. Slots \in Nat /\ Slots > 1
  BY FrameAssumption
<1>3. \A d \in Ring : d \in Ring /\ At(d)' = d /\ state'[d] = FREE_SLOT
  <2>1. 0 \in Ring
    BY <1>2 DEF Ring
  <2>2. \A d \in Ring : d \in 0 .. Slots /\ d < Slots /\ d \in Nat
    BY <1>2 DEF Ring
  <2>3. \A d \in Ring : (0 + d) % Slots = d
    BY <1>2, <2>1, <2>2, Wrap
  <2> QED  BY <1>1, <2>3 DEF At, Cleared, Ring, FREE_SLOT
<1>4. \A d \in Ring : ~(1 <= d /\ d < 1 + 0)
  BY <1>2 DEF Ring
<1>q. QED  BY <1>1, <1>2, <1>3, <1>4 DEF Window, FREE_SLOT, PD_SET, PD_SENT

(* With a codec that delivers inside Receive only, however many pictures   *)
(* at once, there always is a window.                                      *)
THEOREM WindowInvariant == ASSUME ~Threads PROVE Spec => [](\E n : Window(n))
<1>1. Init => \E n : Window(n)
  BY InitWindow
<1>2. TypeOK /\ TypeOK' /\ (\E n : Window(n)) /\ [Next]_vars => (\E n : Window(n))'
  <2> SUFFICES ASSUME TypeOK, TypeOK', NEW n, Window(n), [Next]_vars
               PROVE  \E m : Window(m)'
    OBVIOUS
  <2>1. CASE \/ create \/ destroy \/ SetActualDataLength
             \/ CopySample \/ NoSample \/ Receive \/ GetPTS \/ UNCHANGED vars
    BY <2>1, QuietWindow
  <2>2. CASE CopySampleFill
    BY <2>2, FillWindow
  <2>3. CASE FreeFrame \/ FreeFrameAdvance
    BY <2>3, FreeWindow, AdvanceWindow
  <2>4. CASE DecodeInternal
    BY <2>4, DecodeWindow
  <2>5. CASE SeekInternal
    BY <2>5, SeekWindow
  <2> QED  BY <2>1, <2>2, <2>3, <2>4, <2>5 DEF Next
<1>q. QED  BY <1>1, <1>2, TypeCorrect, PTL DEF Spec

(* The ring implements the queue of pictures: every picture the codec      *)
(* delivers is handed out once and in its order, except that a full ring   *)
(* loses its newest one.                                                   *)
THEOREM RingIsQueue == ASSUME ~Threads PROVE Spec => ImplementsQueue
<1>1. Init => Queue!Init
  <2> SUFFICES ASSUME Init PROVE Queue!Init
    OBVIOUS
  <2>1. Queued = Listing(0)
    BY InitWindow, InitInv, QueuedIsListing DEF WindowQueued, Inv
  <2>2. Listing(0) = <<>>
    BY DEF Listing
  <2> QED  BY <2>1, <2>2 DEF Init, Queue!Init
<1>2. TypeOK /\ TypeOK' /\ (\E n : Window(n)) /\ [Next]_vars => [Queue!Next]_(Queue!vars)
  <2> SUFFICES ASSUME TypeOK, TypeOK', NEW n, Window(n), [Next]_vars
               PROVE  Queue!Next \/ UNCHANGED <<Queued, count, picture>>
    BY DEF Queue!vars
  <2>1. Queued = Listing(n)
    BY QueuedIsListing DEF WindowQueued
  <2>2. \A m : Window(m)' => Queued' = Listing(m)'
    BY QueuedIsListingNext DEF WindowQueued
  <2>3. n \in Nat /\ Slots \in Nat /\ n <= Slots /\ Len(Listing(n)) = n
    BY FrameAssumption DEF Window, Offset, Listing
  <2>4. CASE \/ create \/ destroy \/ SetActualDataLength
             \/ CopySample \/ NoSample \/ Receive \/ GetPTS \/ UNCHANGED vars
    BY <2>1, <2>2, <2>4, QuietWindow
  <2>5. CASE CopySampleFill
    <3>1. Queued' = IF n < Slots THEN Append(Listing(n), count + 1)
                    ELSE [Listing(n) EXCEPT ![Slots] = count + 1]
      BY <2>2, <2>5, FillWindow
    <3>2. count' = count + 1 /\ picture' = picture
      BY <2>5 DEF CopySampleFill
    <3> QED  BY <2>1, <2>3, <3>1, <3>2 DEF Queue!Next, Queue!Deliver
  <2>6. CASE FreeFrame \/ FreeFrameAdvance
    <3>1. Queued' = Listing(n)
      BY <2>2, <2>6, FreeWindow, AdvanceWindow
    <3> QED  BY <2>1, <2>6, <3>1 DEF FreeFrame, FreeFrameAdvance
  <2>7. CASE DecodeInternal
    <3>1. count' = count
      BY <2>7 DEF DecodeInternal
    <3>2. CASE n = 0 /\ Window(0)' /\ picture' = picture
      <4>1. Listing(0) = <<>> /\ Listing(0)' = <<>>
        BY DEF Listing
      <4> QED  BY <2>1, <2>2, <3>1, <3>2, <4>1
    <3>3. CASE /\ n > 0 /\ Window(n - 1)'
               /\ Listing(n) # <<>> /\ picture' = Head(Listing(n))
               /\ Listing(n - 1)' = Tail(Listing(n))
      BY <2>1, <2>2, <3>1, <3>3 DEF Queue!Next, Queue!HandOut
    <3> QED  BY <2>7, <3>2, <3>3, DecodeWindow
  <2>8. CASE SeekInternal
    <3>1. Listing(0)' = <<>>
      BY DEF Listing
    <3>2. Queued' = <<>>
      BY <2>2, <2>8, <3>1, SeekWindow
    <3> QED  BY <2>8, <3>2 DEF SeekInternal, Queue!Next, Queue!Flush
  <2> QED  BY <2>4, <2>5, <2>6, <2>7, <2>8 DEF Next
<1>q. QED  BY <1>1, <1>2, TypeCorrect, WindowInvariant, PTL DEF Spec, ImplementsQueue, Queue!Spec
=============================================================================
