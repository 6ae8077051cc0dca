------------------------- MODULE DshowFilterProofs -------------------------
(***************************************************************************)
(* The decoder inside the server, for any formats and allocators: counts   *)
(* of references are exact, no pointer leads to a freed object, the DLL    *)
(* goes when it is quiet, a decoder at work has samples and the pictures   *)
(* come in the format that was negotiated.  The codec may refuse each call,*)
(* walk along every pointer and take any number of references.             *)
(***************************************************************************)
EXTENDS DshowFilter, TLAPS

Early   == DOMAIN After \cup {"connectIn"}
Loaded  == {"Open", "SetDestFmt", "reconnect", "reconnectIn", "reconnectOut", "Start", "idle",
            "crashed"}
Linkers == Loaded \cup {"GetAllocator", "connectOut"}

Pins == {"m_iHandle", "m_pInputPin", "m_pOutputPin"}

(* The fields that DS_Filter_Destroy has given up when it is at a step.    *)
Given == [Disconnect |-> {"m_pOurInput"},
          m_pFilter |-> {"m_pOurInput"},
          m_pOutputPin |-> {"m_pOurInput", "m_pFilter"},
          m_pInputPin |-> {"m_pOurInput", "m_pFilter", "m_pOutputPin"},
          m_pImp |-> {"m_pOurInput", "m_pFilter", "m_pOutputPin", "m_pInputPin"},
          m_pOurOutput |-> {"m_pOurInput", "m_pFilter", "m_pOutputPin", "m_pInputPin", "m_pImp"},
          m_pParentFilter |-> {"m_pOurInput", "m_pFilter", "m_pOutputPin", "m_pInputPin",
                               "m_pImp", "m_pOurOutput"},
          m_pSrcFilter |-> {"m_pOurInput", "m_pFilter", "m_pOutputPin", "m_pInputPin",
                            "m_pImp", "m_pOurOutput", "m_pParentFilter"},
          m_iHandle |-> {"m_pOurInput", "m_pFilter", "m_pOutputPin", "m_pInputPin", "m_pImp",
                         "m_pOurOutput", "m_pParentFilter", "m_pSrcFilter"},
          gone |-> {"m_pOurInput", "m_pFilter", "m_pOutputPin", "m_pInputPin", "m_pImp",
                    "m_pOurOutput", "m_pParentFilter", "m_pSrcFilter", "m_iHandle"}]

Parted == DOMAIN Given \ {"Disconnect"}

(* Which fields are set, by the step the server is at.                     *)
Fields ==
  /\ has \subseteq Given["gone"]
  /\ at \in Early => has \cap {"m_pParentFilter", "m_pSrcFilter", "m_pOurInput", "m_pOurOutput"} = {}
  /\ at \in {"GetAllocator", "connectOut"} => "m_pOurOutput" \notin has
  /\ at \in (Early \ {"LoadLibrary"}) \cup Linkers => "m_iHandle" \in has
  /\ at \in {"IID_IMemInputPin", "QueryAccept", "connectIn"} \cup Linkers => Pins \subseteq has
  /\ at \in Linkers => {"m_pParentFilter", "m_pSrcFilter", "m_pOurInput"} \subseteq has
  /\ at \in Loaded => "m_pOurOutput" \in has
  /\ at \in DOMAIN Given => has \cap Given[at] = {}

(* The codec holds nothing across a connection that does not exist ...     *)
Grip == \A o \in Ours : codec[o] > 0 => (IF o = "out" THEN "out" ELSE "in") \in linked

(* ... and this is what is connected, by the step the server is at.        *)
Links ==
  /\ linked # {} => Pins \cup {"m_pParentFilter", "m_pSrcFilter"} \subseteq has
  /\ at \in Early \cup {"reconnectIn"} \cup Parted => linked = {}
  /\ at \in {"GetAllocator", "connectOut", "reconnectOut"} => linked = {"in"}

Connections == Links /\ Grip

(* When the decoder works, and with which allocator.                       *)
Feeding ==
  /\ StartedFed
  /\ state = "START" => at \in {"idle", "SetDestFmt", "crashed"} /\ booted
  /\ ~booted => ~stopped
  /\ at = "idle" => booted
  /\ at \in Early \cup {"GetAllocator", "m_pOurInput"} \cup DOMAIN Given => all = NULL
  /\ at \in Early \cup {"GetAllocator", "connectOut", "Open", "Start"} => ~booted
  /\ at \in Linkers \ {"GetAllocator", "Start", "crashed"} /\ ~booted => all # NULL
  /\ at = "reconnectOut" => all # NULL
  /\ "in" \in linked /\ all # NULL => notified = all
  /\ at \in {"idle", "SetDestFmt"} /\ stopped /\ linked = {"in", "out"} => state = "START"

Formatted == FormatKept /\ (pinFmt # RGB24 => restricted)

Inv == TypeOK /\ CountsExact /\ Fields /\ Connections /\ Feeding /\ Formatted

(* At the start there is nothing.                                          *)
LEMMA InitInv == Init => Inv
<1> SUFFICES ASSUME Init PROVE Inv
  OBVIOUS
<1> USE FilterAssumption DEF Init
<1>1. TypeOK
  BY DEF TypeOK, Steps, After, Ours, Objects
<1>2. CountsExact
  BY DEF CountsExact, Holds, Field, Lives, Ours, Objects
<1>3. Fields /\ Connections
  BY DEF Fields, Connections, Links, Grip, Early, Loaded, Linkers, Given, Parted, After, Ours, Objects
<1>4. Feeding /\ Formatted
  BY DEF Feeding, StartedFed, Formatted, FormatKept, Early, Loaded, Linkers, After, Given
<1>q. QED  BY <1>1, <1>2, <1>3, <1>4 DEF Inv

(* Each step sets or clears the fields of the step.                        *)
LEMMA FieldsStep ==
  ASSUME Inv, [Next]_vars
  PROVE  Fields'
<1> USE DEF Inv, Fields, Early, Loaded, Linkers, Pins, Given, After, Order, Gains
<1>1. CASE Obtain
  BY <1>1 DEF Obtain
<1>2. CASE ObtainFails
  BY <1>2 DEF ObtainFails
<1>3. CASE connectIn
  BY <1>3 DEF connectIn
<1>4. CASE GetAllocator
  BY <1>4 DEF GetAllocator
<1>5. CASE connectOut
  BY <1>5 DEF connectOut
<1>6. CASE Open
  BY <1>6 DEF Open
<1>7. CASE SetDestFmtRefused
  BY <1>7 DEF SetDestFmtRefused, Return, Feeding
<1>8. CASE SetDestFmt
  BY <1>8 DEF SetDestFmt
<1>9. CASE disconnectBoth
  BY <1>9 DEF disconnectBoth
<1>10. CASE reconnectIn
  BY <1>10 DEF reconnectIn, Return
<1>11. CASE reconnectOut
  BY <1>11 DEF reconnectOut, Return
<1>12. CASE Start
  BY <1>12 DEF Start
<1>13. CASE StartCrashes \/ Decode
  BY <1>13 DEF StartCrashes, Decode
<1>14. CASE SeekInternal
  BY <1>14 DEF SeekInternal
<1>15. CASE Reload
  BY <1>15 DEF Reload
<1>16. CASE End
  BY <1>16 DEF End
<1>17. CASE destroyStop
  BY <1>17 DEF destroyStop
<1>18. CASE destroyDisconnect
  BY <1>18 DEF destroyDisconnect
<1>19. CASE destroyRelease
  BY <1>19 DEF destroyRelease
<1>20. CASE codecWalks
  BY <1>20 DEF codecWalks
<1>21. CASE codecReleases
  BY <1>21 DEF codecReleases
<1>22. CASE codecChangesType
  BY <1>22 DEF codecChangesType
<1>23. CASE codecReturnsSample
  BY <1>23 DEF codecReturnsSample
<1>24. CASE UNCHANGED vars
  BY <1>24 DEF vars
<1>q. QED
  BY <1>1, <1>2, <1>3, <1>4, <1>5, <1>6, <1>7, <1>8, <1>9, <1>10, <1>11, <1>12, <1>13, <1>14, <1>15, <1>16, <1>17, <1>18, <1>19, <1>20, <1>21, <1>22, <1>23, <1>24 DEF Next

(* r counts h holders of each object and, of a pin, its filter.            *)
Exact(r, h) ==
  \A o \in Ours : r[o] = h[o] + (IF Owner(o) \in Ours /\ r[Owner(o)] > 0 THEN 1 ELSE 0)

(* Who holds an object: the codec and the fields of DS_Filter.             *)
Held == [o \in Ours |-> codec[o] + (IF Holds(o) THEN 1 ELSE 0)]

(* After the releases of some of the holders the counts are those of the   *)
(* others, filters that were destroyed on the way included.                *)
LEMMA ReleasedExact ==
  ASSUME NEW r \in [Ours -> Nat], NEW h \in [Ours -> Nat], NEW less \in [Ours -> Nat],
         Exact(r, [o \in Ours |-> h[o] + less[o]])
  PROVE  Released(r, less) \in [Ours -> Nat] /\ Exact(Released(r, less), h)
<1> DEFINE left == [o \in Ours |-> r[o] - less[o]]
           dead == {o \in Ours : less[o] > 0 /\ left[o] = 0}
           q == Released(r, less)
<1>1. q = [o \in Ours |-> IF Owner(o) \in dead THEN left[o] - 1 ELSE left[o]]
  BY DEF Released
<1>2. \A o \in Ours : r[o] = h[o] + less[o] + (IF Owner(o) \in Ours /\ r[Owner(o)] > 0 THEN 1 ELSE 0)
  BY DEF Exact
<1>3. \A o \in Ours : Owner(o) \in Ours => Owner(Owner(o)) \notin Ours
  BY FilterAssumption DEF Owner, Ours, Objects
<1>4. ASSUME NEW p \in Ours, Owner(p) \notin Ours
      PROVE  q[p] = h[p] /\ q[p] = left[p] /\ r[p] = h[p] + less[p]
  BY <1>1, <1>2, <1>4
<1>5. ASSUME NEW o \in Ours
      PROVE  q[o] = h[o] + (IF Owner(o) \in Ours /\ q[Owner(o)] > 0 THEN 1 ELSE 0)
  <2>1. CASE Owner(o) \notin Ours
    BY <1>4, <2>1
  <2>2. CASE Owner(o) \in Ours
    <3> DEFINE p == Owner(o)
    <3>1. q[p] = h[p] /\ q[p] = left[p] /\ r[p] = h[p] + less[p] /\ left[p] = r[p] - less[p]
      BY <1>3, <1>4, <2>2
    <3>2. CASE p \in dead
      <4>1. q[p] = 0 /\ r[p] > 0
        BY <3>1, <3>2
      <4>2. q[o] = r[o] - less[o] - 1
        BY <1>1, <3>2
      <4>q. QED  BY <1>2, <2>2, <4>1, <4>2
    <3>3. CASE p \notin dead
      <4>1. q[p] > 0 <=> r[p] > 0
        BY <2>2, <3>1, <3>3
      <4>2. q[o] = r[o] - less[o]
        BY <1>1, <3>3
      <4>q. QED  BY <1>2, <2>2, <4>1, <4>2
    <3>q. QED  BY <3>2, <3>3
  <2>q. QED  BY <2>1, <2>2
<1>6. q \in [Ours -> Nat]
  <2>1. ASSUME NEW o \in Ours PROVE q[o] \in Nat
    <3> HIDE DEF q
    <3>1. h[o] \in Nat /\ h[o] + 1 \in Nat
      OBVIOUS
    <3>q. QED  BY <1>5, <3>1
  <2>2. q = [o \in Ours |-> q[o]]
    BY <1>1
  <2> HIDE DEF q
  <2>q. QED  BY <2>1, <2>2
<1> HIDE DEF left, dead, q
<1>7. Exact(q, h)
  BY <1>5 DEF Exact
<1>q. QED  BY <1>6, <1>7 DEF q

LEMMA ExactIsExact ==
  ASSUME TypeOK
  PROVE  (CountsExact <=> Exact(ref, Held)) /\ Held \in [Ours -> Nat]
BY DEF CountsExact, Exact, Held, Lives, TypeOK

(* More holders of an object that is there, or that owns no pins.          *)
LEMMA AddExact ==
  ASSUME NEW r \in [Ours -> Nat], NEW h \in [Ours -> Nat], Exact(r, h),
         NEW p \in Ours, NEW n \in Nat, r[p] > 0 \/ p \notin {"src", "parent"}
  PROVE  /\ [r EXCEPT ![p] = @ + n] \in [Ours -> Nat]
         /\ Exact([r EXCEPT ![p] = @ + n], [h EXCEPT ![p] = @ + n])
<1> DEFINE q == [r EXCEPT ![p] = @ + n]
<1>1. q \in [Ours -> Nat] /\ \A o \in Ours : q[o] = IF o = p THEN r[p] + n ELSE r[o]
  OBVIOUS
<1>2. \A o \in Ours : Owner(o) \in Ours => Owner(o) \in {"src", "parent"}
  BY FilterAssumption DEF Owner, Ours, Objects
<1>3. \A o \in {"src", "parent"} : q[o] > 0 <=> r[o] > 0
  BY <1>1 DEF Ours, Objects
<1> HIDE DEF q
<1>4. Exact(q, [h EXCEPT ![p] = @ + n])
  BY <1>1, <1>2, <1>3 DEF Exact
<1>q. QED  BY <1>1, <1>4 DEF q

(* What the codec holds and where it can go.                               *)
LEMMA WalkIsSafe == Inv => WalkSafe
<1> SUFFICES ASSUME Inv, NEW o \in Objects, codec[o] > 0, NEW p \in Points(o)
             PROVE  ref[p] > 0
  BY DEF WalkSafe
<1> USE DEF Inv
<1>1. o # "out" /\ p \in Objects \ {"out"}
  BY DEF Points, Objects
<1>0. o \in Ours
  BY DEF Ours
<1>2. "in" \in linked
  BY <1>0, <1>1 DEF Connections, Links, Grip
<1>3. {"m_pParentFilter", "m_pSrcFilter"} \subseteq has
  BY <1>2 DEF Connections, Links, Grip
<1>4. ref["parent"] > 0 /\ ref["src"] > 0
  <2>1. Holds("parent") /\ Holds("src")
    BY <1>3, FilterAssumption DEF Holds, Field, Ours, Objects
  <2>q. QED  BY <2>1 DEF CountsExact, TypeOK, Ours, Objects, Owner, Lives
<1>5. ref["in"] > 0 /\ ref["unused"] > 0 /\ ref["remote"] > 0
  BY <1>4 DEF CountsExact, TypeOK, Ours, Objects, Owner, Lives
<1>q. QED  BY <1>1, <1>4, <1>5 DEF Objects

Counted == ref \in [Ours -> Nat] /\ codec \in [Ours -> Nat] /\ Exact(ref, Held)

LEMMA InvCounted == Inv => Counted /\ Held \in [Ours -> Nat]
  BY ExactIsExact DEF Inv, Counted, TypeOK

(* Without m_pAll nothing, with it one reference to the allocator.         *)
LEMMA StopCounts ==
  ASSUME Inv, Stop, UNCHANGED <<has, codec>>
  PROVE  Counted'
<1> USE FilterAssumption, InvCounted DEF Counted
<1>1. CASE all = NULL
  BY <1>1 DEF Stop, Held, Holds, Exact
<1>2. CASE all # NULL
  <2>1. all \in Allocs /\ all' = NULL /\ ref' = Released(ref, One(all))
    BY <1>2 DEF Stop, Inv, TypeOK
  <2>2. One(all) \in [Ours -> Nat] /\ Held' \in [Ours -> Nat]
    BY DEF One, Held
  <2>3. \A o \in Ours : Held[o] = Held'[o] + One(all)[o]
    BY <2>1 DEF Held, Holds, One, Ours, Objects
  <2>4. Exact(ref, [o \in Ours |-> Held'[o] + One(all)[o]])
    BY <2>3 DEF Exact
  <2>q. QED  BY <2>1, <2>2, <2>4, ReleasedExact
<1>q. QED  BY <1>1, <1>2

(* A pin that is disconnected gives up all of the codec's references.      *)
LEMMA DisconnectCounts ==
  ASSUME Inv, NEW pins, Disconnect(pins), UNCHANGED <<has, all>>
  PROVE  Counted'
<1> USE FilterAssumption, InvCounted DEF Counted
<1>1. CASE running
  BY <1>1 DEF Disconnect, comVars, Held, Holds, Exact
<1>2. CASE ~ running
  <2> DEFINE gone == UNION {Side(p) : p \in pins \cap linked}
             less == [o \in Ours |-> IF o \in gone THEN codec[o] ELSE 0]
  <2>1. codec' = [o \in Ours |-> codec[o] - less[o]] /\ ref' = Released(ref, less)
    BY <1>2 DEF Disconnect
  <2> HIDE DEF gone
  <2>2. less \in [Ours -> Nat] /\ codec' \in [Ours -> Nat]
    BY <2>1
  <2>3. Held' \in [Ours -> Nat]
    BY <2>2 DEF Held
  <2>4. \A o \in Ours : Held[o] = Held'[o] + less[o]
    BY <2>1, <2>2 DEF Held, Holds
  <2>5. Exact(ref, [o \in Ours |-> Held'[o] + less[o]])
    BY <2>4 DEF Exact
  <2>q. QED  BY <2>1, <2>2, <2>3, <2>5, ReleasedExact
<1>q. QED  BY <1>1, <1>2

(* The input pin is connected again: what the counts are, and what is held *)
(* of every object, when the old allocator is released.                    *)
Again   == [ref EXCEPT !["in"] = @ + 1]
WithOld == [Held EXCEPT !["in"] = @ + 1]
Bare    == IF all = NULL THEN Again ELSE Released(Again, One(all))
Rest    == [o \in Ours |-> IF o \in Allocs THEN codec[o] ELSE WithOld[o]]

(* Releasing the old allocator, if there is one, leaves exact counts.      *)
LEMMA OldAllocatorGone ==
  ASSUME Inv
  PROVE  /\ WithOld \in [Ours -> Nat] /\ Rest \in [Ours -> Nat]
         /\ Bare \in [Ours -> Nat] /\ Exact(Bare, Rest)
<1> USE FilterAssumption, InvCounted DEF Counted
<1>1. "in" \in Ours \ {"src", "parent"} /\ "in" \notin Allocs /\ Allocs \subseteq Ours
  BY DEF Ours, Objects
<1>2. Again \in [Ours -> Nat] /\ WithOld \in [Ours -> Nat] /\ Exact(Again, WithOld)
  <2>1. ref \in [Ours -> Nat] /\ Held \in [Ours -> Nat] /\ Exact(ref, Held)
    OBVIOUS
  <2>2. WithOld \in [Ours -> Nat]
    BY <1>1, <2>1 DEF WithOld
  <2>3. Again = [ref EXCEPT !["in"] = @ + 1] /\ WithOld = [Held EXCEPT !["in"] = @ + 1]
    BY DEF Again, WithOld
  <2>4. Again \in [Ours -> Nat] /\ Exact(Again, WithOld)
    BY <1>1, <2>1, <2>3, AddExact
  <2>q. QED  BY <2>2, <2>4
<1>3. Rest \in [Ours -> Nat]
  BY <1>2 DEF Rest
<1>4. Bare \in [Ours -> Nat] /\ Exact(Bare, Rest)
  <2>0. \A o \in Allocs : WithOld[o] = codec[o] + (IF o = all THEN 1 ELSE 0)
    BY <1>1 DEF WithOld, Held, Holds
  <2>1. CASE all = NULL
    <3>1. \A o \in Allocs : WithOld[o] = codec[o]
      BY <1>1, <2>0, <2>1 DEF Inv, TypeOK
    <3>2. Rest = WithOld
      BY <1>2, <3>1 DEF Rest
    <3>q. QED  BY <1>2, <2>1, <3>2 DEF Bare
  <2>2. CASE all # NULL
    <3>1. all \in Allocs /\ One(all) \in [Ours -> Nat]
      BY <2>2 DEF Inv, TypeOK, One
    <3>2. \A o \in Ours : WithOld[o] = Rest[o] + One(all)[o]
      BY <1>1, <1>2, <2>0, <3>1 DEF Rest, One, Inv, TypeOK
    <3>3. Exact(Again, [o \in Ours |-> Rest[o] + One(all)[o]])
      BY <1>2, <3>2 DEF Exact
    <3>4. Released(Again, One(all)) \in [Ours -> Nat] /\ Exact(Released(Again, One(all)), Rest)
      BY <1>2, <1>3, <3>1, <3>3, ReleasedExact
    <3>q. QED  BY <2>2, <3>4 DEF Bare
  <2>q. QED  BY <2>1, <2>2
<1>q. QED  BY <1>2, <1>3, <1>4

(* There is no memory for another allocator: the counts are exact.         *)
LEMMA NoAllocatorCounts ==
  ASSUME Inv, UNCHANGED has, noAllocator([ref EXCEPT !["in"] = @ + 1])
  PROVE  Counted'
<1> USE FilterAssumption, InvCounted, OldAllocatorGone DEF Counted
<1>1. "in" \in Ours /\ "in" \notin Allocs /\ Allocs \subseteq Ours
  BY DEF Ours, Objects
<1>2. ref' = Bare /\ all' = NULL /\ codec' = [codec EXCEPT !["in"] = @ + 1]
  BY DEF noAllocator, Bare, Again
<1>3. codec' \in [Ours -> Nat]
  BY <1>1, <1>2
<1>4. Held' = Rest
  <2>1. \A o \in Allocs : Held'[o] = codec[o]
    BY <1>1, <1>2, <1>3 DEF Held, Holds
  <2>2. \A o \in Ours \ Allocs : Held'[o] = WithOld[o]
    BY <1>1, <1>2, <1>3 DEF Held, Holds, WithOld
  <2>q. QED  BY <2>1, <2>2 DEF Rest, Held
<1>q. QED  BY <1>2, <1>3, <1>4

(* The new allocator comes, with a reference of ours and one of the codec; *)
(* the old one goes.                                                       *)
LEMMA ReconnectCounts ==
  ASSUME Inv, NEW a \in Allocs, Free(a), UNCHANGED has,
         NewAllocator([ref EXCEPT !["in"] = @ + 1], a)
  PROVE  Counted'
<1> USE FilterAssumption, InvCounted, OldAllocatorGone DEF Counted
<1>1. "in" \in Ours \ {"src", "parent"} /\ "in" \notin Allocs /\ a \in Ours \ {"src", "parent"}
      /\ Allocs \subseteq Ours
  BY DEF Ours, Objects
<1>5. ref[a] = 0 /\ codec[a] = 0
  BY <1>1 DEF Free, Exact, Held
<1>6. Bare[a] = 0 /\ Rest[a] = 0
  <2>1. Rest[a] = 0
    BY <1>1, <1>5 DEF Rest
  <2>2. Owner(a) = "none" /\ "none" \notin Ours
    BY DEF Owner, Ours, Objects
  <2>q. QED  BY <1>1, <2>1, <2>2 DEF Exact
<1>7. /\ ref' = [Bare EXCEPT ![a] = 2] /\ all' = a
      /\ codec' = [codec EXCEPT ![a] = @ + 1, !["in"] = @ + 1]
  BY DEF NewAllocator, Bare, Again
<1>8. ref' = [Bare EXCEPT ![a] = @ + 2]
  BY <1>1, <1>6, <1>7
<1>9. codec' \in [Ours -> Nat]
  BY <1>1, <1>7
<1>10. Held' = [Rest EXCEPT ![a] = @ + 2]
  <2>1. \A o \in Allocs : Held'[o] = IF o = a THEN 2 ELSE codec[o]
    BY <1>1, <1>5, <1>7, <1>9 DEF Held, Holds
  <2>2. \A o \in Ours \ Allocs : Held'[o] = WithOld[o]
    BY <1>1, <1>7, <1>9 DEF Held, Holds, WithOld
  <2>3. \A o \in Ours : Held'[o] = [Rest EXCEPT ![a] = @ + 2][o]
    BY <1>1, <1>5, <1>6, <2>1, <2>2 DEF Rest
  <2>q. QED  BY <2>3 DEF Held, Rest
<1>q. QED  BY <1>1, <1>8, <1>9, <1>10, AddExact

(* Every step keeps the counts exact.                                      *)
LEMMA CountsStep ==
  ASSUME Inv, [Next]_vars
  PROVE  Counted'
<1> USE FilterAssumption, InvCounted
<1>out. "out" \in Ours /\ "out" \notin {"src", "parent"} /\ Owner("out") \notin Ours /\ "out" \notin Allocs
  BY DEF Owner, Ours, Objects
<1>0. ASSUME ref' = ref, codec' = codec, \A o \in Ours : Holds(o)' <=> Holds(o)
      PROVE  Counted'
  BY <1>0 DEF Counted, Exact, Held
<1>1. CASE Obtain \/ ObtainFails
  <2>1. ref' = ref /\ codec' = codec /\ all' = all
    BY <1>1 DEF Obtain, ObtainFails, comVars, runVars
  <2>2. \E new \in SUBSET {"m_iHandle", "m_pFilter", "m_pInputPin", "m_pOutputPin", "m_pImp"} :
           has' = has \cup new
    BY <1>1 DEF Obtain, ObtainFails, After, Gains
  <2>3. \A o \in Ours : Holds(o)' <=> Holds(o)
    BY <2>1, <2>2 DEF Holds, Field
  <2>q. QED  BY <1>0, <2>1, <2>3
<1>2. CASE connectIn
  <2>1. /\ all = NULL /\ all' = all /\ has' = has \cup {"m_pParentFilter", "m_pSrcFilter", "m_pOurInput"}
        /\ {"m_pParentFilter", "m_pSrcFilter", "m_pOurInput", "m_pOurOutput"} \cap has = {}
        /\ linked = {} /\ "none" \notin has
    BY <1>2 DEF connectIn, runVars, Inv, Feeding, Fields, Connections, Links, Grip, Early, Given
  <2>2. \A o \in Ours : codec[o] = 0
    BY <2>1 DEF Inv, Connections, Links, Grip, TypeOK
  <2>3. \A o \in Ours : ~ Holds(o)
    BY <2>1 DEF Holds, Field
  <2>4. \A o \in Ours : Owner(o) \notin Ours => ref[o] = 0
    BY <2>2, <2>3 DEF Counted, Exact, Held
  <2>5. \A o \in Ours \ Objects : ref[o] = 0
    BY <2>4 DEF Owner, Ours, Objects
  <2>6. ref["out"] = 0
    BY <2>4 DEF Owner, Ours, Objects
  <2>7. \A o \in Ours : Holds(o)' <=> o \in {"parent", "src", "in"}
    BY <2>1 DEF Holds, Field, Ours, Objects
  <2>8. /\ Created \in [Ours -> Nat] /\ Created["parent"] = 1 /\ Created["src"] = 1
        /\ Created["in"] = 2 /\ Created["unused"] = 1 /\ Created["remote"] = 1
        /\ \A o \in Ours \ {"parent", "src", "in", "unused", "remote"} : Created[o] = 0
    BY <2>5, <2>6 DEF Created, Counted, Objects, Ours
  <2>9. CASE ref' = Created /\ codec' = codec
    BY <2>2, <2>7, <2>8, <2>9 DEF Counted, Exact, Held, Owner, Ours, Objects
  <2>10. CASE ref' = [Created EXCEPT !["in"] = @ + 1] /\ codec' = [codec EXCEPT !["in"] = @ + 1]
    BY <2>2, <2>7, <2>8, <2>10 DEF Counted, Exact, Held, Owner, Ours, Objects
  <2>q. QED  BY <1>2, <2>9, <2>10 DEF connectIn
<1>3. CASE GetAllocator
  <2>1. CASE UNCHANGED <<ref, codec, all, has>>
    BY <1>0, <2>1 DEF Holds
  <2>2. ASSUME NEW a \in Allocs, Free(a), all' = a, has' = has,
               ref' = [ref EXCEPT ![a] = 2], codec' = [codec EXCEPT ![a] = 1]
        PROVE  Counted'
    <3>1. all = NULL /\ a # NULL /\ a \in Ours \ {"src", "parent"}
      BY <1>3 DEF GetAllocator, Inv, Feeding, Ours
    <3>2. ref[a] = 0 /\ codec[a] = 0 /\ ~ Holds(a)
      BY <2>2, <3>1 DEF Free, Counted, Exact, Held, Holds
    <3>3. ref' = [ref EXCEPT ![a] = @ + 2] /\ codec' \in [Ours -> Nat]
      BY <2>2, <3>1, <3>2 DEF Counted
    <3>4. Held' = [Held EXCEPT ![a] = @ + 2]
      <4>1. \A o \in Ours : Held'[o] = IF o = a THEN Held[o] + 2 ELSE Held[o]
        BY <2>2, <3>1, <3>2, <3>3 DEF Held, Holds, Counted
      <4>q. QED  BY <4>1 DEF Held
    <3>5. Counted'
      BY <3>1, <3>3, <3>4, AddExact DEF Counted
    <3>q. QED  BY <3>5
  <2>q. QED  BY <1>3, <2>1, <2>2 DEF GetAllocator, comVars
<1>4. CASE connectOut
  <2>1. ref["out"] = 0 /\ codec["out"] = 0 /\ ~ Holds("out") /\ "none" \notin has
    <3>1. linked = {"in"} /\ "m_pOurOutput" \notin has /\ "none" \notin has
      BY <1>4 DEF connectOut, Inv, Connections, Links, Grip, Fields, Given
    <3>2. codec["out"] = 0 /\ ~ Holds("out")
      BY <3>1 DEF Inv, Connections, Links, Grip, TypeOK, Holds, Field, Ours, Objects
    <3>q. QED  BY <1>out, <3>1, <3>2 DEF Counted, Exact, Held
  <2>2. has' = has \cup {"m_pOurOutput"} /\ all' = all
    BY <1>4 DEF connectOut, runVars
  <2>3. \A o \in Ours : Holds(o)' <=> Holds(o) \/ o = "out"
    BY <2>1, <2>2 DEF Holds, Field, Ours, Objects
  <2>4. CASE ref' = [ref EXCEPT !["out"] = 1] /\ codec' = codec
    <3>1. ref' = [ref EXCEPT !["out"] = @ + 1] /\ codec' \in [Ours -> Nat]
      BY <1>out, <2>1, <2>4 DEF Counted
    <3>2. Held' = [Held EXCEPT !["out"] = @ + 1]
      BY <1>out, <2>1, <2>3, <2>4 DEF Held, Counted
    <3>q. QED  BY <1>out, <3>1, <3>2, AddExact DEF Counted
  <2>5. CASE ref' = [ref EXCEPT !["out"] = 2] /\ codec' = [codec EXCEPT !["out"] = @ + 1]
    <3>1. ref' = [ref EXCEPT !["out"] = @ + 2] /\ codec' \in [Ours -> Nat]
      BY <1>out, <2>1, <2>5 DEF Counted
    <3>2. Held' = [Held EXCEPT !["out"] = @ + 2]
      <4>1. \A o \in Ours : Held'[o] = IF o = "out" THEN Held[o] + 2 ELSE Held[o]
        BY <1>out, <2>1, <2>3, <2>5, <3>1 DEF Held, Counted
      <4>q. QED  BY <4>1 DEF Held
    <3>q. QED  BY <1>out, <3>1, <3>2, AddExact DEF Counted
  <2>q. QED  BY <1>4, <2>4, <2>5 DEF connectOut
<1>5. CASE Open \/ SetDestFmtRefused \/ Start \/ StartCrashes \/ Decode
          \/ SeekInternal \/ Reload \/ codecChangesType \/ codecReturnsSample \/ UNCHANGED vars
  <2>1. UNCHANGED <<ref, codec, has, all>>
    BY <1>5 DEF Open, SetDestFmtRefused, Start, StartCrashes, Decode, SeekInternal, Reload,
                codecChangesType, codecReturnsSample, vars, comVars, runVars
  <2>q. QED  BY <1>0, <2>1 DEF Holds
<1>6. CASE SetDestFmt
  <2>1. UNCHANGED <<has, codec>>
    BY <1>6 DEF SetDestFmt
  <2>2. CASE state = "START"
    BY <1>6, <2>1, <2>2, StopCounts DEF SetDestFmt
  <2>3. CASE state # "START"
    BY <1>0, <1>6, <2>1, <2>3 DEF SetDestFmt, Holds
  <2>q. QED  BY <2>2, <2>3
<1>7. CASE disconnectBoth
  BY <1>7, DisconnectCounts DEF disconnectBoth
<1>9. CASE reconnectOut
  <2>1. UNCHANGED <<has, all>>
    BY <1>9 DEF reconnectOut
  <2>2. CASE UNCHANGED comVars
    BY <1>0, <2>1, <2>2 DEF comVars, Holds
  <2>3. CASE ref' = [ref EXCEPT !["out"] = @ + 1] /\ codec' = [codec EXCEPT !["out"] = @ + 1]
    <3>1. codec' \in [Ours -> Nat]
      BY <1>out, <2>3 DEF Counted
    <3>2. Held' = [Held EXCEPT !["out"] = @ + 1]
      <4>1. \A o \in Ours : Held'[o] = IF o = "out" THEN Held[o] + 1 ELSE Held[o]
        BY <1>out, <2>1, <2>3, <3>1 DEF Held, Counted, Holds
      <4>q. QED  BY <4>1 DEF Held
    <3>q. QED  BY <1>out, <2>3, <3>1, <3>2, AddExact DEF Counted
  <2>q. QED  BY <1>9, <2>2, <2>3 DEF reconnectOut
<1>10. CASE End \/ destroyStop
  BY <1>10, StopCounts DEF End, destroyStop
<1>11. CASE destroyDisconnect
  BY <1>11, DisconnectCounts DEF destroyDisconnect
<1>12. CASE destroyRelease
  <2> DEFINE less == [o \in Ours |-> IF Field(o) = at /\ at \in has THEN 1 ELSE 0]
  <2>1. ref' = Released(ref, less) /\ has' = has \ {at} /\ codec' = codec /\ all' = all
    BY <1>12 DEF destroyRelease, runVars
  <2>2. at # "none"
    BY <1>12 DEF destroyRelease, Order
  <2>3. less \in [Ours -> Nat] /\ Held' \in [Ours -> Nat]
    BY <2>1 DEF Held, Counted
  <2>4. \A o \in Ours : Held[o] = Held'[o] + less[o]
    <3>1. \A o \in Allocs : (Holds(o)' <=> Holds(o)) /\ Field(o) # at
      BY <2>1, <2>2 DEF Holds, Field
    <3>2. \A o \in Objects : o \notin Allocs
      BY DEF Objects
    <3>q. QED  BY <2>1, <3>1, <3>2 DEF Held, Counted, Holds, Ours
  <2>5. Exact(ref, [o \in Ours |-> Held'[o] + less[o]])
    BY <2>4 DEF Exact, Counted
  <2>q. QED  BY <2>1, <2>3, <2>5, ReleasedExact DEF Counted
<1>13. CASE codecWalks
  <2>1. PICK o \in Objects : codec[o] > 0 /\
           \E p \in Points(o) : /\ ref' = [ref EXCEPT ![p] = @ + 1]
                                /\ codec' = [codec EXCEPT ![p] = @ + 1]
    BY <1>13 DEF codecWalks
  <2>2. PICK p \in Points(o) : /\ ref' = [ref EXCEPT ![p] = @ + 1]
                               /\ codec' = [codec EXCEPT ![p] = @ + 1]
    BY <2>1
  <2>3. p \in Ours /\ ref[p] > 0
    BY <2>1, WalkIsSafe DEF WalkSafe, Points, Ours, Objects
  <2>4. codec' \in [Ours -> Nat]
    BY <2>2, <2>3 DEF Counted
  <2>5. Held' = [Held EXCEPT ![p] = @ + 1]
    BY <1>13, <2>2, <2>3 DEF codecWalks, runVars, Held, Counted, Holds
  <2>q. QED  BY <2>2, <2>3, <2>4, <2>5, AddExact DEF Counted
<1>14. CASE codecReleases
  <2>1. PICK o \in Objects : /\ codec[o] > Keeps(o) /\ ref' = Released(ref, One(o))
                             /\ codec' = [codec EXCEPT ![o] = @ - 1]
    BY <1>14 DEF codecReleases
  <2>2. o \in Ours /\ codec[o] > 0 /\ codec[o] \in Nat
    BY <2>1 DEF Keeps, Counted, Ours
  <2>3. codec' \in [Ours -> Nat] /\ One(o) \in [Ours -> Nat]
    BY <2>1, <2>2 DEF Counted, One
  <2>4. \A p \in Ours : Held[p] = Held'[p] + One(o)[p]
    BY <1>14, <2>1, <2>2 DEF codecReleases, runVars, Held, Counted, Holds, One
  <2>5. Held' \in [Ours -> Nat]
    BY <2>3 DEF Held
  <2>6. Exact(ref, [p \in Ours |-> Held'[p] + One(o)[p]])
    BY <2>4 DEF Exact, Counted
  <2>q. QED  BY <2>1, <2>3, <2>5, <2>6, ReleasedExact DEF Counted
<1>8. CASE reconnectIn
  <2>1. has' = has
    BY <1>8 DEF reconnectIn
  <2>2. CASE UNCHANGED <<comVars, all>>
    BY <1>0, <2>1, <2>2 DEF comVars, Holds
  <2>3. CASE \E a \in Allocs : Free(a) /\ NewAllocator([ref EXCEPT !["in"] = @ + 1], a)
    BY <2>1, <2>3, ReconnectCounts
  <2>4. CASE noAllocator([ref EXCEPT !["in"] = @ + 1])
    BY <2>1, <2>4, NoAllocatorCounts
  <2>q. QED  BY <1>8, <2>2, <2>3, <2>4 DEF reconnectIn
<1>q. QED
  BY <1>1, <1>2, <1>3, <1>4, <1>5, <1>6, <1>7, <1>8, <1>9, <1>10, <1>11, <1>12, <1>13, <1>14
     DEF Next

(* Types, but for the counts.                                              *)
Types ==
  /\ at \in Steps /\ booted \in BOOLEAN /\ linked \subseteq {"in", "out"}
  /\ all \in Allocs \cup {NULL} /\ notified \in Allocs \cup {NULL}
  /\ committed \subseteq Allocs /\ short \in BOOLEAN /\ running \in BOOLEAN /\ state \in {"START", "STOP"}
  /\ stopped \in BOOLEAN /\ kept \in BOOLEAN /\ capable \in BOOLEAN /\ restricted \in BOOLEAN
  /\ {fmt, pinFmt, linkFmt} \subseteq Formats

LEMMA TypesStep ==
  ASSUME Inv, [Next]_vars
  PROVE  Types'
<1> USE FilterAssumption DEF Inv, TypeOK, Types, Steps, After, Order, runVars, fmtVars
<1>1. CASE Obtain
  BY <1>1 DEF Obtain
<1>2. CASE ObtainFails
  BY <1>2 DEF ObtainFails
<1>3. CASE connectIn
  BY <1>3 DEF connectIn
<1>4. CASE GetAllocator
  BY <1>4 DEF GetAllocator
<1>5. CASE connectOut
  BY <1>5 DEF connectOut, Connections, Links, Grip
<1>6. CASE Open
  BY <1>6 DEF Open
<1>7. CASE SetDestFmtRefused
  BY <1>7 DEF SetDestFmtRefused, Return
<1>8. CASE SetDestFmt
  BY <1>8 DEF SetDestFmt, Stop
<1>9. CASE disconnectBoth
  BY <1>9 DEF disconnectBoth, Disconnect, SetNewFormat
<1>10. CASE reconnectIn
  BY <1>10 DEF reconnectIn, Return, NewAllocator, noAllocator
<1>11. CASE reconnectOut
  BY <1>11 DEF reconnectOut, Return, StartInternal, Feeding
<1>12. CASE Start
  BY <1>12 DEF Start, StartInternal, Feeding, Early, Loaded, Linkers
<1>13. CASE StartCrashes \/ Decode
  BY <1>13 DEF StartCrashes, Decode
<1>14. CASE SeekInternal
  BY <1>14 DEF SeekInternal
<1>15. CASE Reload
  BY <1>15 DEF Reload
<1>16. CASE End
  BY <1>16 DEF End, Stop
<1>17. CASE destroyStop
  BY <1>17 DEF destroyStop, Stop
<1>18. CASE destroyDisconnect
  BY <1>18 DEF destroyDisconnect, Disconnect
<1>19. CASE destroyRelease
  BY <1>19 DEF destroyRelease
<1>20. CASE codecWalks
  BY <1>20 DEF codecWalks
<1>21. CASE codecReleases
  BY <1>21 DEF codecReleases
<1>22. CASE codecChangesType
  BY <1>22 DEF codecChangesType
<1>23. CASE codecReturnsSample
  <2>1. kept' \in BOOLEAN
    BY <1>23 DEF codecReturnsSample
  <2>2. /\ at' = at /\ booted' = booted /\ linked' = linked /\ all' = all
        /\ notified' = notified /\ committed' = committed /\ short' = short
        /\ running' = running /\ state' = state /\ stopped' = stopped /\ fmtVars' = fmtVars
    BY <1>23 DEF codecReturnsSample
  <2>q. QED  BY <2>1, <2>2
<1>24. CASE UNCHANGED vars
  BY <1>24 DEF vars
<1>q. QED
  BY <1>1, <1>2, <1>3, <1>4, <1>5, <1>6, <1>7, <1>8, <1>9, <1>10, <1>11, <1>12,
     <1>13, <1>14, <1>15, <1>16, <1>17, <1>18, <1>19, <1>20, <1>21, <1>22, <1>23, <1>24 DEF Next

(* When the decoder works, and with which allocator.                       *)
LEMMA FeedingStep ==
  ASSUME Inv, [Next]_vars
  PROVE  Feeding'
<1> USE FilterAssumption DEF Inv, TypeOK, Feeding, StartedFed, Early, Loaded, Linkers, After, Order, Given,
        runVars, fmtVars
<1>1. CASE Obtain
  BY <1>1 DEF Obtain
<1>2. CASE ObtainFails
  BY <1>2 DEF ObtainFails
<1>3. CASE connectIn
  BY <1>3 DEF connectIn
<1>4. CASE GetAllocator
  BY <1>4 DEF GetAllocator
<1>5. CASE connectOut
  BY <1>5 DEF connectOut, Connections, Links, Grip
<1>6. CASE Open
  BY <1>6 DEF Open
<1>7. CASE SetDestFmtRefused
  BY <1>7 DEF SetDestFmtRefused, Return
<1>8. CASE SetDestFmt
  BY <1>8 DEF SetDestFmt, Stop
<1>9. CASE disconnectBoth
  BY <1>9 DEF disconnectBoth, Disconnect, SetNewFormat, Connections, Links, Grip
<1>10. CASE reconnectIn
  BY <1>10 DEF reconnectIn, Return, NewAllocator, noAllocator, Connections, Links, Grip
<1>11. CASE reconnectOut
  BY <1>11 DEF reconnectOut, Return, StartInternal, Connections, Links, Grip
<1>12. CASE Start
  BY <1>12 DEF Start, StartInternal
<1>13. CASE StartCrashes \/ Decode
  <2>0. "crashed" \notin Early \cup DOMAIN Given
    OBVIOUS
  <2>1. CASE StartCrashes
    <3>1. /\ UNCHANGED <<booted, has, linked, all, notified, committed, short, running, state, stopped>>
          /\ at = "Start" /\ at' = "crashed"
      BY <2>1 DEF StartCrashes
    <3>2. state = "STOP" /\ running = FALSE
      BY <3>1
    <3>3. StartedFed'
      BY <3>1, <3>2
    <3>q. QED  BY <2>0, <3>1, <3>2, <3>3
  <2>2. CASE Decode
    <3>1. /\ UNCHANGED <<booted, has, linked, all, notified, committed, short, running, state, stopped>>
          /\ at = "idle"
      BY <2>2 DEF Decode
    <3>2. CASE at' = "idle"
      BY <3>1, <3>2
    <3>3. CASE at' # "idle"
      <4>1. at' = "crashed" /\ kept' = kept /\ ~ (all # NULL /\ all \in committed /\ ~ kept)
        BY <2>2, <3>3 DEF Decode, SampleThere
      <4>2. StartedFed'
        BY <3>1, <4>1
      <4>q. QED  BY <2>0, <3>1, <4>1, <4>2
    <3>q. QED  BY <3>2, <3>3
  <2>q. QED  BY <1>13, <2>1, <2>2
<1>14. CASE SeekInternal
  BY <1>14 DEF SeekInternal
<1>15. CASE Reload
  BY <1>15 DEF Reload
<1>16. CASE End
  BY <1>16 DEF End, Stop
<1>17. CASE destroyStop
  BY <1>17 DEF destroyStop, Stop
<1>18. CASE destroyDisconnect
  BY <1>18 DEF destroyDisconnect, Disconnect
<1>19. CASE destroyRelease
  BY <1>19 DEF destroyRelease
<1>20. CASE codecWalks
  BY <1>20 DEF codecWalks
<1>21. CASE codecReleases
  BY <1>21 DEF codecReleases
<1>22. CASE codecChangesType
  BY <1>22 DEF codecChangesType
<1>23. CASE codecReturnsSample
  BY <1>23 DEF codecReturnsSample, Over
<1>24. CASE UNCHANGED vars
  BY <1>24 DEF vars
<1>q. QED
  BY <1>1, <1>2, <1>3, <1>4, <1>5, <1>6, <1>7, <1>8, <1>9, <1>10, <1>11, <1>12,
     <1>13, <1>14, <1>15, <1>16, <1>17, <1>18, <1>19, <1>20, <1>21, <1>22, <1>23, <1>24 DEF Next

(* The format of the pictures.                                             *)
LEMMA FormattedStep ==
  ASSUME Inv, [Next]_vars
  PROVE  Formatted'
<1> USE FilterAssumption DEF Inv, TypeOK, Formatted, FormatKept, runVars, fmtVars
<1>1. CASE Obtain
  BY <1>1 DEF Obtain
<1>2. CASE ObtainFails
  BY <1>2 DEF ObtainFails
<1>3. CASE connectIn
  BY <1>3 DEF connectIn
<1>4. CASE GetAllocator
  BY <1>4 DEF GetAllocator
<1>5. CASE connectOut
  BY <1>5 DEF connectOut
<1>6. CASE Open
  BY <1>6 DEF Open
<1>7. CASE SetDestFmtRefused
  BY <1>7 DEF SetDestFmtRefused, Return
<1>8. CASE SetDestFmt
  BY <1>8 DEF SetDestFmt, Stop
<1>9. CASE disconnectBoth
  BY <1>9 DEF disconnectBoth, Disconnect, SetNewFormat, Feeding, StartedFed
<1>10. CASE reconnectIn
  BY <1>10 DEF reconnectIn, Return, NewAllocator, noAllocator
<1>11. CASE reconnectOut
  BY <1>11 DEF reconnectOut, Return, StartInternal
<1>12. CASE Start
  BY <1>12 DEF Start, StartInternal
<1>13. CASE StartCrashes \/ Decode
  BY <1>13 DEF StartCrashes, Decode
<1>14. CASE SeekInternal
  BY <1>14 DEF SeekInternal
<1>15. CASE Reload
  BY <1>15 DEF Reload
<1>16. CASE End
  BY <1>16 DEF End, Stop
<1>17. CASE destroyStop
  BY <1>17 DEF destroyStop, Stop
<1>18. CASE destroyDisconnect
  BY <1>18 DEF destroyDisconnect, Disconnect
<1>19. CASE destroyRelease
  BY <1>19 DEF destroyRelease
<1>20. CASE codecWalks
  BY <1>20 DEF codecWalks
<1>21. CASE codecReleases
  BY <1>21 DEF codecReleases
<1>22. CASE codecChangesType
  BY <1>22 DEF codecChangesType
<1>23. CASE codecReturnsSample
  BY <1>23 DEF codecReturnsSample, Over
<1>24. CASE UNCHANGED vars
  BY <1>24 DEF vars
<1>q. QED
  BY <1>1, <1>2, <1>3, <1>4, <1>5, <1>6, <1>7, <1>8, <1>9, <1>10, <1>11, <1>12,
     <1>13, <1>14, <1>15, <1>16, <1>17, <1>18, <1>19, <1>20, <1>21, <1>22, <1>23, <1>24 DEF Next

(* What is connected.                                                      *)
LEMMA LinksStep ==
  ASSUME Inv, [Next]_vars
  PROVE  Links'
<1>0. /\ linked \subseteq {"in", "out"} /\ Links /\ Fields /\ (running => state = "START")
      /\ (state = "START" => at \in {"idle", "SetDestFmt", "crashed"})
  BY DEF Inv, TypeOK, Connections, Feeding, StartedFed
<1> HIDE DEF Inv
<1> USE <1>0 DEF Links, Fields, Early, Loaded, Linkers, Parted, Pins, Given, After, Order, Gains
<1>1. CASE Obtain
  BY <1>1 DEF Obtain
<1>2. CASE ObtainFails
  BY <1>2 DEF ObtainFails
<1>3. CASE connectIn
  BY <1>3 DEF connectIn
<1>4. CASE GetAllocator
  BY <1>4 DEF GetAllocator
<1>5. CASE connectOut
  BY <1>5 DEF connectOut
<1>6. CASE Open
  BY <1>6 DEF Open
<1>7. CASE SetDestFmtRefused
  BY <1>7 DEF SetDestFmtRefused, Return
<1>8. CASE SetDestFmt
  BY <1>8 DEF SetDestFmt
<1>9. CASE disconnectBoth
  BY <1>9 DEF disconnectBoth, Disconnect
<1>10. CASE reconnectIn
  BY <1>10 DEF reconnectIn, Return
<1>11. CASE reconnectOut
  BY <1>11 DEF reconnectOut, Return
<1>12. CASE Start
  BY <1>12 DEF Start
<1>13. CASE StartCrashes \/ Decode
  BY <1>13 DEF StartCrashes, Decode
<1>14. CASE SeekInternal
  BY <1>14 DEF SeekInternal
<1>15. CASE Reload
  BY <1>15 DEF Reload
<1>16. CASE End
  BY <1>16 DEF End
<1>17. CASE destroyStop
  BY <1>17 DEF destroyStop
<1>18. CASE destroyDisconnect
  BY <1>18 DEF destroyDisconnect, Disconnect
<1>19. CASE destroyRelease
  <2>1. at \in DOMAIN Order /\ at' = Order[at] /\ has' = has \ {at} /\ linked' = linked
    BY <1>19 DEF destroyRelease
  <2>2. CASE at = "m_pOurInput"
    BY <2>1, <2>2
  <2>3. CASE at # "m_pOurInput"
    <3>1. linked = {}
      BY <2>1, <2>3
    <3>2. at' \notin {"GetAllocator", "connectOut", "reconnectOut"}
      BY <2>1
    <3>q. QED  BY <2>1, <3>1, <3>2
  <2>q. QED  BY <2>2, <2>3
<1>20. CASE codecWalks
  BY <1>20 DEF codecWalks
<1>21. CASE codecReleases
  BY <1>21 DEF codecReleases
<1>22. CASE codecChangesType
  BY <1>22 DEF codecChangesType
<1>23. CASE codecReturnsSample
  BY <1>23 DEF codecReturnsSample
<1>24. CASE UNCHANGED vars
  BY <1>24 DEF vars
<1>q. QED
  BY <1>1, <1>2, <1>3, <1>4, <1>5, <1>6, <1>7, <1>8, <1>9, <1>10, <1>11, <1>12,
     <1>13, <1>14, <1>15, <1>16, <1>17, <1>18, <1>19, <1>20, <1>21, <1>22, <1>23, <1>24 DEF Next

(* A pin that is disconnected leaves nothing with the codec.               *)
LEMMA DisconnectGrip ==
  ASSUME Inv, NEW pins, Disconnect(pins)
  PROVE  Grip'
<1>0. Grip /\ codec \in [Ours -> Nat]
  BY DEF Inv, Connections, TypeOK
<1>1. CASE running
  BY <1>0, <1>1 DEF Disconnect, comVars, Grip
<1>2. CASE ~ running
  <2> DEFINE gone == UNION {Side(p) : p \in pins \cap linked}
  <2>1. /\ codec' = [o \in Ours |-> codec[o] - (IF o \in gone THEN codec[o] ELSE 0)]
        /\ linked' = linked \ pins
    BY <1>2 DEF Disconnect
  <2> SUFFICES ASSUME NEW o \in Ours, codec'[o] > 0
               PROVE  (IF o = "out" THEN "out" ELSE "in") \in linked'
    BY DEF Grip
  <2> DEFINE p == IF o = "out" THEN "out" ELSE "in"
  <2>2. o \notin gone /\ codec[o] > 0
    <3> HIDE DEF gone
    <3>q. QED  BY <1>0, <2>1
  <2>3. p \in linked /\ o \in Side(p)
    BY <1>0, <2>2 DEF Grip, Side
  <2>4. p \notin pins
    BY <2>2, <2>3
  <2>q. QED  BY <2>1, <2>3, <2>4
<1>q. QED  BY <1>1, <1>2

(* What the codec holds.                                                   *)
LEMMA GripStep ==
  ASSUME Inv, [Next]_vars
  PROVE  Grip'
<1>0. Grip /\ Links /\ codec \in [Ours -> Nat] /\ "out" \notin Allocs
  BY FilterAssumption DEF Inv, Connections, TypeOK
<1>1. ASSUME codec' = codec, linked' = linked PROVE Grip'
  BY <1>0, <1>1 DEF Grip
<1>2. CASE Obtain \/ ObtainFails \/ Open \/ SetDestFmtRefused \/ SetDestFmt \/ Start \/ StartCrashes
           \/ Decode \/ SeekInternal \/ Reload \/ End \/ destroyStop \/ destroyRelease
           \/ codecChangesType \/ codecReturnsSample \/ UNCHANGED vars
  <2>1. codec' = codec /\ linked' = linked
    BY <1>2 DEF Obtain, ObtainFails, Open, SetDestFmtRefused, SetDestFmt, Start, StartCrashes,
                Decode, SeekInternal, Reload, End, destroyStop, destroyRelease, codecChangesType,
                codecReturnsSample, vars, comVars
  <2>q. QED  BY <1>1, <2>1
<1>3. CASE connectIn
  <2>1. linked = {} /\ \A o \in Ours : codec[o] = 0
    BY <1>0, <1>3 DEF connectIn, Links, Grip, Early
  <2>q. QED  BY <1>0, <1>3, <2>1 DEF connectIn, Grip
<1>4. CASE GetAllocator
  <2>1. linked = {"in"} /\ linked' = {"in"}
    BY <1>0, <1>4 DEF GetAllocator, Links
  <2>q. QED  BY <1>0, <1>4, <2>1 DEF GetAllocator, comVars, Grip
<1>5. CASE connectOut
  <2>1. linked = {"in"}
    BY <1>0, <1>5 DEF connectOut, Links
  <2>q. QED  BY <1>0, <1>5, <2>1 DEF connectOut, Grip
<1>6. CASE disconnectBoth \/ destroyDisconnect
  BY <1>6, DisconnectGrip DEF disconnectBoth, destroyDisconnect
<1>7. CASE reconnectIn
  <2>1. linked = {} /\ \A o \in Ours : codec[o] = 0
    BY <1>0, <1>7 DEF reconnectIn, Links, Grip
  <2>q. QED  BY <1>0, <1>1, <1>7, <2>1 DEF reconnectIn, NewAllocator, noAllocator, comVars, Grip
<1>8. CASE reconnectOut
  <2>1. linked = {"in"}
    BY <1>0, <1>8 DEF reconnectOut, Links
  <2>q. QED  BY <1>0, <1>8, <2>1 DEF reconnectOut, comVars, Grip
<1>9. CASE codecWalks
  <2>1. \E o \in Objects : codec[o] > 0 /\
          \E p \in Points(o) : codec' = [codec EXCEPT ![p] = @ + 1]
    BY <1>9 DEF codecWalks
  <2>2. PICK o \in Objects : codec[o] > 0 /\
          \E p \in Points(o) : codec' = [codec EXCEPT ![p] = @ + 1]
    BY <2>1
  <2>3. o # "out" /\ o \in Ours /\ \A p \in Points(o) : p # "out"
    BY <2>2 DEF Points, Ours
  <2>4. "in" \in linked /\ linked' = linked
    BY <1>0, <1>9, <2>2, <2>3 DEF codecWalks, Grip
  <2>q. QED  BY <1>0, <2>2, <2>3, <2>4 DEF Grip
<1>10. CASE codecReleases
  <2>1. PICK o \in Objects : codec[o] > Keeps(o) /\ codec' = [codec EXCEPT ![o] = @ - 1]
    BY <1>10 DEF codecReleases
  <2>2. linked' = linked /\ o \in Ours /\ codec[o] > 0
    BY <1>0, <1>10, <2>1 DEF codecReleases, Keeps, Ours
  <2>q. QED  BY <1>0, <2>1, <2>2 DEF Grip
<1>q. QED
  BY <1>2, <1>3, <1>4, <1>5, <1>6, <1>7, <1>8, <1>9, <1>10 DEF Next

(* The invariant of the decoder.                                           *)
THEOREM FilterInvariant == Spec => []Inv
<1>1. ASSUME Inv, [Next]_vars PROVE Inv'
  <2>1. Counted' /\ Types' /\ Fields' /\ Links' /\ Grip' /\ Feeding' /\ Formatted'
    BY <1>1, CountsStep, TypesStep, FieldsStep, LinksStep, GripStep, FeedingStep, FormattedStep
  <2>2. TypeOK'
    <3>1. has' \subseteq (UNION {Gains[t] : t \in DOMAIN Gains}) \cup {Field(o) : o \in Objects}
      <4>1. {"m_pParentFilter", "m_pSrcFilter", "m_pOurInput", "m_pOurOutput"}
              \subseteq {Field(o) : o \in Objects}
        <5>1. /\ Field("parent") = "m_pParentFilter" /\ Field("src") = "m_pSrcFilter"
              /\ Field("in") = "m_pOurInput" /\ Field("out") = "m_pOurOutput"
          BY DEF Field
        <5>q. QED  BY <5>1 DEF Objects
      <4>2. {"m_iHandle", "m_pFilter", "m_pInputPin", "m_pOutputPin", "m_pImp"}
              \subseteq UNION {Gains[t] : t \in DOMAIN Gains}
        <5>1. /\ {"LoadLibrary", "IID_IBaseFilter", "Next", "IID_IMemInputPin"} \subseteq DOMAIN Gains
              /\ "m_iHandle" \in Gains["LoadLibrary"] /\ "m_pFilter" \in Gains["IID_IBaseFilter"]
              /\ {"m_pInputPin", "m_pOutputPin"} \subseteq Gains["Next"]
              /\ "m_pImp" \in Gains["IID_IMemInputPin"]
          BY DEF Gains
        <5>q. QED  BY <5>1
      <4>3. has' \subseteq Given["gone"]
        BY <2>1 DEF Fields
      <4>q. QED  BY <4>1, <4>2, <4>3 DEF Given
    <3>2. ref' \in [Ours -> Nat] /\ codec' \in [Ours -> Nat]
      BY <2>1 DEF Counted
    <3>q. QED  BY <2>1, <3>1, <3>2 DEF TypeOK, Types
  <2>3. CountsExact'
    BY <2>1 DEF CountsExact, Counted, Exact, Held, Lives
  <2>q. QED  BY <2>1, <2>2, <2>3 DEF Inv, Connections
<1>2. Inv /\ UNCHANGED vars => Inv'
  BY <1>1
<1>q. QED  BY InitInv, <1>1, PTL DEF Spec

(* TypeOK: no reference count falls below zero.                            *)
THEOREM TypeCorrect == Spec => []TypeOK
<1>1. Inv => TypeOK
  BY DEF Inv
<1>q. QED  BY FilterInvariant, <1>1, PTL

(* CountsExact: every count is the number of those who will release.       *)
THEOREM CountsAreExact == Spec => []CountsExact
<1>1. Inv => CountsExact
  BY DEF Inv
<1>q. QED  BY FilterInvariant, <1>1, PTL

(* NothingDangles: no pointer is followed into what is gone.               *)
THEOREM PointersAreGood == Spec => []NothingDangles
<1>1. ASSUME Inv PROVE UnloadedQuiet
  <2> USE <1>1 DEF Inv
  <2>1. ASSUME "m_iHandle" \notin has
        PROVE  ~ running /\ linked = {} /\ \A o \in Ours : codec[o] = 0
    <3>1. linked = {}
      BY <2>1 DEF Connections, Links, Pins
    <3>2. \A o \in Ours : codec[o] = 0
      BY <3>1 DEF Connections, Grip, TypeOK
    <3>3. ~ running
      BY <2>1 DEF Feeding, StartedFed, Fields, Loaded, Linkers
    <3>q. QED  BY <3>1, <3>2, <3>3
  <2>2. ASSUME at = "gone" PROVE has = {} /\ \A o \in Ours : ref[o] = 0
    <3>1. has = {}
      BY <2>2 DEF Fields, Given
    <3>2. all = NULL /\ \A o \in Ours : codec[o] = 0
      BY <2>1, <2>2, <3>1 DEF Feeding, Given
    <3>3. \A o \in Ours : ~ Holds(o)
      BY <3>1, <3>2, FilterAssumption DEF Holds
    <3>4. \A o \in Ours : Owner(o) \notin Ours => ref[o] = 0
      BY <3>2, <3>3 DEF CountsExact, Lives, TypeOK
    <3>5. \A o \in Ours : Owner(Owner(o)) \notin Ours
      BY FilterAssumption DEF Owner, Ours, Objects
    <3>6. \A o \in Ours : ~ Lives(Owner(o))
      BY <3>4, <3>5 DEF Lives
    <3>q. QED  BY <3>1, <3>2, <3>3, <3>6 DEF CountsExact, TypeOK
  <2>q. QED  BY <2>1, <2>2 DEF UnloadedQuiet
<1>2. Inv => NothingDangles
  BY <1>1, WalkIsSafe DEF NothingDangles
<1>q. QED  BY FilterInvariant, <1>2, PTL

(* Working: a decoder at work has samples, and is at work after a reload   *)
(* that has connected it.                                                  *)
THEOREM DecoderWorks == Spec => []Working
<1>1. Inv => Working
  BY DEF Inv, Feeding, Working, ResumesWork
<1>q. QED  BY FilterInvariant, <1>1, PTL

(* FormatKept: the pictures come in the format that was negotiated.        *)
THEOREM FormatIsKept == Spec => []FormatKept
<1>1. Inv => FormatKept
  BY DEF Inv, Formatted
<1>q. QED  BY FilterInvariant, <1>1, PTL
=============================================================================
