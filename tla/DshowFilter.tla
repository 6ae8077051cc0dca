----------------------------- MODULE DshowFilter -----------------------------
(***************************************************************************)
(* The decoder inside the server: DS_Filter, which finds the codec's filter*)
(* and its two pins and connects them to objects of ours                   *)
(* (loader/dshow/DS_Filter.c, inputpin.c, outputpin.c), and                *)
(* DS_VideoDecoder, which negotiates the output format, starts, stops and  *)
(* reconnects it as the server's commands require (DS_VideoDecoder.c,      *)
(* dshowserver/server.c).                                                  *)
(*                                                                         *)
(* The codec is external.  It is called at every step and may refuse, and  *)
(* it may follow the pointers of our objects and count references whenever *)
(* it holds one of them: from a call of ours or from a thread of its own.  *)
(* It is a filter that obeys the rules of DirectShow: it releases what it  *)
(* took, and when one of its pins is disconnected it holds nothing of the  *)
(* objects on the other side; a pin of a running filter is not             *)
(* disconnected.                                                           *)
(*                                                                         *)
(* Memory may be short for the allocators and their samples; the few bytes *)
(* of our other objects are always found.                                  *)
(***************************************************************************)
EXTENDS Integers

CONSTANTS
  Formats,     \* output formats (subtypes)
  RGB24,       \* the one DS_VideoDecoder_Open asks for first
  Allocs,      \* allocators
  NULL,
  MaxRefs      \* bound: references the codec takes to one object

ASSUME FilterAssumption ==
  /\ RGB24 \in Formats /\ NULL \notin Allocs /\ MaxRefs \in Nat \ {0}
  /\ Allocs \cap {"parent", "remote", "src", "in", "unused", "out", "none"} = {}

VARIABLES
  at,          \* where the server is
  booted,      \* it has reached its command loop
  has,         \* the pointers of DS_Filter that are not NULL, m_pAll excepted
  ref,         \* refcount of our objects; 0: freed, or not created
  codec,       \* how many of them the codec holds
  linked,      \* the codec's pins that are connected, "in" and "out"
  all,         \* m_pAll
  notified,    \* the allocator the codec's input pin was told to use
  committed,   \* allocators that have their samples
  short,       \* there was no memory for the samples at the last start
  running,     \* the codec's filter runs
  state,       \* iv.m_State
  stopped,     \* SetDestFmt's local variable
  fmt,         \* the format the server wants, its option -o
  capable,     \* what m_Caps says of it
  pinFmt, restricted,  \* COutputPin: type, restrict_media_type
  linkFmt,     \* the type of the output connection
  kept         \* the codec has not returned the sample of the last frame

comVars == <<ref, codec>>
fmtVars == <<fmt, capable, pinFmt, restricted, linkFmt>>
runVars == <<all, notified, committed, short, running, state, kept>>
vars == <<at, booted, has, comVars, linked, runVars, stopped, fmtVars>>

(* The filters and pins we present to the codec.  CBaseFilter has two pins,*)
(* CBaseFilter2 one.  COutputPin and its IMemInputPin share one count.     *)
Objects == {"parent", "remote", "src", "in", "unused", "out"}
Ours    == Objects \cup Allocs

(* The filter a pin belongs to, which releases it when it is destroyed.    *)
Owner(o) == CASE o \in {"in", "unused"} -> "src"
              [] o = "remote"          -> "parent"
              [] OTHER                 -> "none"

(* Where the codec gets from an object, with a reference of its own: from  *)
(* a pin to its filter (QueryPinInfo), from a filter to its pins (EnumPins *)
(* and Next), from the unused pin to the one it is "connected" to          *)
(* (ConnectedTo).  These pointers are not counted.                         *)
Points(o) == CASE o = "in"     -> {"src"}
               [] o = "src"    -> {"in", "unused"}
               [] o = "unused" -> {"src", "remote"}
               [] o = "remote" -> {"parent"}
               [] o = "parent" -> {"remote"}
               [] OTHER        -> {}

(* The side of the codec each object is on. *)
Side(pin) == IF pin = "in" THEN Ours \ {"out"} ELSE {"out"}

(* The fields of DS_Filter that hold a counted object of ours. *)
Field(o) == CASE o = "parent" -> "m_pParentFilter"
              [] o = "src"    -> "m_pSrcFilter"
              [] o = "in"     -> "m_pOurInput"
              [] o = "out"    -> "m_pOurOutput"
              [] OTHER        -> "none"

Holds(o) == IF o \in Allocs THEN o = all ELSE Field(o) \in has

(* The counts r after `less[o]' releases of every object o: a filter that  *)
(* is destroyed releases its pins.                                         *)
Released(r, less) ==
  LET left == [o \in Ours |-> r[o] - less[o]]
      dead == {o \in Ours : less[o] > 0 /\ left[o] = 0}
  IN [o \in Ours |-> IF Owner(o) \in dead THEN left[o] - 1 ELSE left[o]]

One(o)   == [p \in Ours |-> IF p = o THEN 1 ELSE 0]
Free(a)  == ref[a] = 0
---------------------------------------------------------------------------
(* DS_FilterCreate, up to the first object of ours: what each call gains   *)
(* if it succeeds, and what comes after it.                                *)
Gains == [LoadLibrary |-> {"m_iHandle"}, GetProcAddress |-> {}, func |-> {},
          CreateInstance |-> {}, IID_IBaseFilter |-> {"m_pFilter"}, EnumPins |-> {},
          Next |-> {"m_pInputPin", "m_pOutputPin"}, IID_IMemInputPin |-> {"m_pImp"},
          QueryAccept |-> {}]

After == [LoadLibrary |-> "GetProcAddress", GetProcAddress |-> "func",
          func |-> "CreateInstance", CreateInstance |-> "IID_IBaseFilter",
          IID_IBaseFilter |-> "EnumPins", EnumPins |-> "Next",
          Next |-> "IID_IMemInputPin", IID_IMemInputPin |-> "QueryAccept",
          QueryAccept |-> "connectIn"]

Obtain ==
  /\ at \in DOMAIN After
  /\ at' = After[at] /\ has' = has \cup Gains[at]
  /\ UNCHANGED <<booted, comVars, linked, runVars, stopped, fmtVars>>

(* A call fails, having found one of the two pins perhaps.                 *)
ObtainFails ==
  /\ at \in DOMAIN After
  /\ at' = "Stop"
  /\ \E some \in SUBSET Gains[at] :
       (some = {} \/ at = "Next") /\ some # Gains["Next"] /\ has' = has \cup some
  /\ UNCHANGED <<booted, comVars, linked, runVars, stopped, fmtVars>>

(* Mutant: m_pOurInput is not counted. *)
Created_once ==
  [o \in Ours |-> IF o \in Objects \ {"out"} THEN 1 ELSE ref[o]]

(* CBaseFilter2Create, CBaseFilterCreate; m_pOurInput is a second          *)
(* reference to its pin.                                                   *)
Created ==
  [o \in Ours |-> IF o = "in" THEN 2 ELSE IF o \in Objects \ {"out"} THEN 1 ELSE ref[o]]

connectIn ==
  /\ at = "connectIn"
  /\ has' = has \cup {"m_pParentFilter", "m_pSrcFilter", "m_pOurInput"}
  /\ \/ at' = "Stop" /\ ref' = Created /\ UNCHANGED <<codec, linked>>
     \/ /\ at' = "GetAllocator" /\ linked' = {"in"}
        /\ ref' = [Created EXCEPT !["in"] = @ + 1]
        /\ codec' = [codec EXCEPT !["in"] = @ + 1]
  /\ UNCHANGED <<booted, runVars, stopped, fmtVars>>

(* The codec's input pin gives an allocator of its own, which is a         *)
(* MemAllocator too (the codec gets it from CoCreateInstance), and keeps   *)
(* it: NotifyAllocator tells it nothing new.                               *)
GetAllocator ==
  /\ at = "GetAllocator"
  /\ \/ at' = "Stop" /\ UNCHANGED <<comVars, all, notified>>
     \/ \E a \in Allocs :
          /\ Free(a)          \* nothing was committed yet
          /\ at' = "connectOut" /\ all' = a /\ notified' = a
          /\ ref' = [ref EXCEPT ![a] = 2] /\ codec' = [codec EXCEPT ![a] = 1]
  /\ UNCHANGED <<booted, has, linked, committed, short, running, state, kept, stopped, fmtVars>>

(* The output pin is connected if its type is accepted; if it is not, that *)
(* is left to SetDestFmt.                                                  *)
connectOut ==
  /\ at = "connectOut"
  /\ has' = has \cup {"m_pOurOutput"}
  /\ pinFmt' = RGB24 /\ restricted' = FALSE
  /\ \/ /\ at' \in {"Stop", "Open"}
        /\ ref' = [ref EXCEPT !["out"] = 1] /\ UNCHANGED <<codec, linked, linkFmt>>
     \/ /\ at' = "Open" /\ linked' = {"in", "out"} /\ linkFmt' = RGB24
        /\ ref' = [ref EXCEPT !["out"] = 2] /\ codec' = [codec EXCEPT !["out"] = @ + 1]
  /\ UNCHANGED <<booted, runVars, stopped, fmt, capable>>

(* DS_VideoDecoder_Open tries every YUV format; RGB needs no capability.   *)
Open ==
  /\ at = "Open" /\ at' = "SetDestFmt"
  /\ capable' \in IF fmt = RGB24 THEN {TRUE} ELSE BOOLEAN
  /\ UNCHANGED <<booted, has, comVars, linked, runVars, stopped, fmt, pinFmt, restricted, linkFmt>>
---------------------------------------------------------------------------
(* DS_Filter_Stop: without m_pAll the filter is taken to be stopped.  The  *)
(* codec's input pin decommits its allocator and gives up its samples.     *)
Stop ==
  IF all = NULL THEN UNCHANGED <<ref, all, committed, running, kept>>
  ELSE /\ running' = FALSE /\ kept' = FALSE
       /\ committed' = committed \ {notified}
       /\ ref' = Released(ref, One(all)) /\ all' = NULL

(* Mutant: the allocator is not committed. *)
StartInternal_uncommitted ==
  /\ state' = "START" /\ running' \in BOOLEAN /\ short' = FALSE /\ UNCHANGED committed

(* DS_VideoDecoder_StartInternal: whether Commit found the memory is not   *)
(* looked at; that Run fails is only reported.                             *)
StartInternal ==
  /\ short' \in BOOLEAN
  /\ committed' = IF short' THEN committed ELSE committed \cup {all}
  /\ running' \in BOOLEAN
  /\ state' = "START"

(* SetDestFmt returns to the start of the server or to its loop.  Neither  *)
(* looks at the result.                                                    *)
Return == IF booted THEN "idle" ELSE "Start"

(* The codec (or m_Caps) does not accept the format: the header is put     *)
(* back, nothing is reconnected.                                           *)
SetDestFmtRefused ==
  /\ at = "SetDestFmt" /\ at' = Return
  /\ UNCHANGED <<booted, has, comVars, linked, runVars, stopped, fmtVars>>

(* It is accepted: a decoder at work is stopped first.                     *)
SetDestFmt ==
  /\ at = "SetDestFmt" /\ capable /\ at' = "reconnect"
  /\ stopped' = (state = "START") /\ state' = "STOP"
  /\ IF state = "START" THEN Stop ELSE UNCHANGED <<ref, all, committed, running, kept>>
  /\ UNCHANGED <<booted, has, codec, linked, notified, short, fmtVars>>

(* Disconnect of the codec's pins `pins', with the allocator that belongs  *)
(* to the input.                                                           *)
Disconnect(pins) ==
  IF running THEN UNCHANGED <<comVars, linked, notified>>
  ELSE LET gone == UNION {Side(p) : p \in pins \cap linked}
           less == [o \in Ours |-> IF o \in gone THEN codec[o] ELSE 0]
       IN /\ codec' = [o \in Ours |-> codec[o] - less[o]]
          /\ ref' = Released(ref, less)
          /\ linked' = linked \ pins
          /\ notified' = IF "in" \in pins THEN NULL ELSE notified

(* Mutant: the pin does not hold the codec to the new type. *)
SetNewFormat_open == pinFmt' = fmt /\ restricted' = restricted

(* COutputPin_SetNewFormat. *)
SetNewFormat == pinFmt' = fmt /\ restricted' = TRUE

disconnectBoth ==
  /\ at = "reconnect" /\ at' = "reconnectIn"
  /\ Disconnect({"in", "out"})
  /\ SetNewFormat
  /\ UNCHANGED <<booted, has, all, committed, short, running, state, kept, stopped, fmt,
                 capable, linkFmt>>

(* Mutant: the old allocator stays m_pAll's. *)
NewAllocator_keep(r, a) ==
  /\ all' = a /\ notified' = a
  /\ ref' = [r EXCEPT ![a] = 2]
  /\ codec' = [codec EXCEPT ![a] = @ + 1, !["in"] = @ + 1]
  /\ committed' = committed \ {a}

(* There is no memory for another allocator: the old one has gone already. *)
noAllocator(r) ==
  /\ all' = NULL
  /\ ref' = IF all = NULL THEN r ELSE Released(r, One(all))
  /\ codec' = [codec EXCEPT !["in"] = @ + 1]
  /\ UNCHANGED <<notified, committed>>

(* Another allocator, which the codec is told of.                          *)
NewAllocator(r, a) ==
  /\ all' = a /\ notified' = a
  /\ ref' = [(IF all = NULL THEN r ELSE Released(r, One(all))) EXCEPT ![a] = 2]
  /\ codec' = [codec EXCEPT ![a] = @ + 1, !["in"] = @ + 1]
  /\ committed' = committed \ {a}

reconnectIn ==
  /\ at = "reconnectIn"
  /\ \/ at' = Return /\ UNCHANGED <<comVars, linked, all, notified, committed>>
     \/ at' = Return /\ linked' = {"in"} /\ noAllocator([ref EXCEPT !["in"] = @ + 1])
     \/ /\ at' = "reconnectOut" /\ linked' = {"in"}
        /\ \E a \in Allocs :
             Free(a) /\ NewAllocator([ref EXCEPT !["in"] = @ + 1], a)
  /\ UNCHANGED <<booted, has, short, running, state, kept, stopped, fmtVars>>

reconnectOut ==
  /\ at = "reconnectOut" /\ at' = Return
  /\ \/ UNCHANGED <<comVars, linked, committed, short, running, state, linkFmt>>
     \/ /\ linked' = {"in", "out"} /\ linkFmt' = fmt
        /\ ref' = [ref EXCEPT !["out"] = @ + 1] /\ codec' = [codec EXCEPT !["out"] = @ + 1]
        /\ IF stopped THEN StartInternal ELSE UNCHANGED <<committed, short, running, state>>
  /\ UNCHANGED <<booted, has, all, notified, kept, stopped, fmt, capable, pinFmt, restricted>>
---------------------------------------------------------------------------
(* The server. *)

Start ==
  /\ at = "Start" /\ all # NULL /\ at' = "idle" /\ booted' = TRUE
  /\ StartInternal
  /\ UNCHANGED <<has, comVars, linked, all, notified, kept, stopped, fmtVars>>

(* StartInternal does not test m_pAll.                                     *)
StartCrashes ==
  /\ at = "Start" /\ all = NULL /\ at' = "crashed"
  /\ UNCHANGED <<booted, has, comVars, linked, runVars, stopped, fmtVars>>

(* GetBuffer finds a sample: m_pAll is there and has samples, of which     *)
(* there is one, and the codec has given it back.                          *)
SampleThere == all # NULL /\ all \in committed /\ ~ kept

(* VD_DECODE: SetPTS and DecodeInternal; neither tests m_pAll, SetPTS not  *)
(* the sample.  Only a codec that runs keeps what it receives.             *)
Decode ==
  /\ at = "idle"
  /\ IF SampleThere THEN at' = at /\ kept' \in {FALSE, running}
     ELSE at' = "crashed" /\ kept' = kept
  /\ UNCHANGED <<booted, has, comVars, linked, all, notified, committed, short, running, state,
                 stopped, fmtVars>>

(* VD_SEEK: flushed pins give up their samples. *)
SeekInternal ==
  /\ at = "idle" /\ kept /\ kept' = FALSE
  /\ UNCHANGED <<at, booted, has, comVars, linked, all, notified, committed, short, running, state,
                 stopped, fmtVars>>

(* VD_RELOAD_BIH, of a picture of the same size. *)
Reload ==
  /\ at = "idle" /\ at' = "SetDestFmt"
  /\ UNCHANGED <<booted, has, comVars, linked, runVars, stopped, fmtVars>>

(* VD_END: DS_VideoDecoder_Destroy stops the filter before it destroys it, *)
(* which stops it again.                                                   *)
End ==
  /\ at = "idle" /\ at' = "Stop" /\ Stop /\ state' = "STOP"
  /\ UNCHANGED <<booted, has, codec, linked, notified, short, stopped, fmtVars>>
---------------------------------------------------------------------------
(* Mutant: our filters go before the codec is disconnected from them. *)
Order_oursFirst ==
         [m_pOurInput |-> "m_pParentFilter", m_pParentFilter |-> "Disconnect",
          m_pFilter |-> "m_pOutputPin",
          m_pOutputPin |-> "m_pInputPin", m_pInputPin |-> "m_pImp",
          m_pImp |-> "m_pOurOutput", m_pOurOutput |-> "m_pSrcFilter",
          m_pSrcFilter |-> "m_iHandle", m_iHandle |-> "gone"]

(* DS_Filter_Destroy, of a filter as far as it was created.  Each step     *)
(* calls into the codec or destroys an object.                             *)
Order == [m_pOurInput |-> "Disconnect", m_pFilter |-> "m_pOutputPin",
          m_pOutputPin |-> "m_pInputPin", m_pInputPin |-> "m_pImp",
          m_pImp |-> "m_pOurOutput", m_pOurOutput |-> "m_pParentFilter",
          m_pParentFilter |-> "m_pSrcFilter", m_pSrcFilter |-> "m_iHandle",
          m_iHandle |-> "gone"]

destroyStop ==
  /\ at = "Stop" /\ at' = "m_pOurInput" /\ Stop
  /\ UNCHANGED <<booted, has, codec, linked, notified, short, state, stopped, fmtVars>>

destroyDisconnect ==
  /\ at = "Disconnect" /\ at' = "m_pFilter"
  /\ Disconnect({p \in {"in", "out"} :
       (IF p = "in" THEN "m_pInputPin" ELSE "m_pOutputPin") \in has})
  /\ UNCHANGED <<booted, has, all, committed, short, running, state, kept, stopped, fmtVars>>

destroyRelease ==
  /\ at \in DOMAIN Order /\ at' = Order[at]
  /\ has' = has \ {at}
  /\ ref' = Released(ref, [o \in Ours |-> IF Field(o) = at /\ at \in has THEN 1 ELSE 0])
  /\ UNCHANGED <<booted, codec, linked, runVars, stopped, fmtVars>>
---------------------------------------------------------------------------
(* The codec. *)

Over == at \in {"gone", "crashed"}

(* The references the codec keeps as long as it is connected. *)
Keeps(o) == IF o = notified \/ o \in linked THEN 1 ELSE 0

codecWalks ==
  /\ ~ Over
  /\ \E o \in Objects : codec[o] > 0 /\
       \E p \in Points(o) :
         /\ codec[p] < MaxRefs + Keeps(p)
         /\ ref' = [ref EXCEPT ![p] = @ + 1] /\ codec' = [codec EXCEPT ![p] = @ + 1]
  /\ UNCHANGED <<at, booted, has, linked, runVars, stopped, fmtVars>>

codecReleases ==
  /\ ~ Over
  /\ \E o \in Objects : codec[o] > Keeps(o) /\
       ref' = Released(ref, One(o)) /\ codec' = [codec EXCEPT ![o] = @ - 1]
  /\ UNCHANGED <<at, booted, has, linked, runVars, stopped, fmtVars>>

(* COutputPin_QueryAccept and ReceiveConnection: the codec's output pin    *)
(* wants another type on the connection it has.                            *)
codecChangesType ==
  /\ ~ Over /\ "out" \in linked
  /\ \E f \in Formats : (restricted => f = pinFmt) /\ linkFmt' = f
  /\ UNCHANGED <<at, booted, has, comVars, linked, runVars, stopped, fmt, capable, pinFmt, restricted>>

codecReturnsSample ==
  /\ ~ Over /\ kept /\ kept' = FALSE
  /\ UNCHANGED <<at, booted, has, comVars, linked, all, notified, committed, short, running, state,
                 stopped, fmtVars>>
---------------------------------------------------------------------------
Init ==
  /\ at = "LoadLibrary" /\ booted = FALSE /\ has = {}
  /\ ref = [o \in Ours |-> 0] /\ codec = [o \in Ours |-> 0] /\ linked = {}
  /\ all = NULL /\ notified = NULL /\ committed = {} /\ short = FALSE /\ running = FALSE
  /\ state = "STOP" /\ stopped = FALSE /\ kept = FALSE
  /\ fmt \in Formats /\ capable = FALSE
  /\ pinFmt = RGB24 /\ restricted = FALSE /\ linkFmt = RGB24

Next ==
  \/ Obtain \/ ObtainFails \/ connectIn \/ GetAllocator \/ connectOut \/ Open
  \/ SetDestFmtRefused \/ SetDestFmt \/ disconnectBoth \/ reconnectIn \/ reconnectOut
  \/ Start \/ StartCrashes \/ Decode \/ SeekInternal \/ Reload \/ End
  \/ destroyStop \/ destroyDisconnect \/ destroyRelease
  \/ codecWalks \/ codecReleases \/ codecChangesType \/ codecReturnsSample

Spec == Init /\ [][Next]_vars
---------------------------------------------------------------------------
Steps == DOMAIN After \cup DOMAIN Order \cup
  {"connectIn", "GetAllocator", "connectOut", "Open", "SetDestFmt", "reconnect",
   "reconnectIn", "reconnectOut", "Start", "idle", "Stop", "Disconnect", "gone", "crashed"}

(* Types; no count falls below zero.                                       *)
TypeOK ==
  /\ at \in Steps /\ booted \in BOOLEAN
  /\ has \subseteq (UNION {Gains[s] : s \in DOMAIN Gains}) \cup {Field(o) : o \in Objects}
  /\ ref \in [Ours -> Nat] /\ codec \in [Ours -> Nat]
  /\ linked \subseteq {"in", "out"}
  /\ all \in Allocs \cup {NULL} /\ notified \in Allocs \cup {NULL}
  /\ committed \subseteq Allocs /\ short \in BOOLEAN /\ running \in BOOLEAN
  /\ state \in {"START", "STOP"}
  /\ stopped \in BOOLEAN /\ kept \in BOOLEAN /\ capable \in BOOLEAN /\ restricted \in BOOLEAN
  /\ {fmt, pinFmt, linkFmt} \subseteq Formats

Lives(o) == o \in Ours /\ ref[o] > 0

(* Every count is the number of those who will release: fields of          *)
(* DS_Filter, the filter a pin belongs to, the codec.  Nothing is freed    *)
(* under a holder and nothing is held by nobody, whatever call failed and  *)
(* wherever the codec has walked.                                          *)
CountsExact ==
  \A o \in Ours :
    ref[o] = codec[o] + (IF Holds(o) THEN 1 ELSE 0) + (IF Lives(Owner(o)) THEN 1 ELSE 0)

(* The pointers that are not counted: an object the codec may reach from   *)
(* one it holds has not been freed.                                        *)
WalkSafe == \A o \in Objects : codec[o] > 0 => \A p \in Points(o) : ref[p] > 0

(* The DLL goes when its code has no reason to run: the filter is stopped, *)
(* disconnected, and holds nothing of ours; in the end nothing of ours is  *)
(* left.                                                                   *)
UnloadedQuiet ==
  /\ "m_iHandle" \notin has =>
       ~ running /\ linked = {} /\ \A o \in Ours : codec[o] = 0
  /\ at = "gone" => has = {} /\ \A o \in Ours : ref[o] = 0

(* Nobody follows a pointer into what is gone, neither the codec into our  *)
(* objects nor we into its DLL.                                            *)
NothingDangles == WalkSafe /\ UnloadedQuiet

(* A decoder in state START has an allocator, the one the codec was told   *)
(* of when it was connected, and the allocator has its sample unless there *)
(* was no memory for it.  This is what VD_DECODE relies on, where nothing  *)
(* is tested: the server dies of a null pointer only if the last           *)
(* reconnection failed, which left the decoder stopped, if the codec has   *)
(* kept the only sample, or if Commit failed when it was started.          *)
StartedFed ==
  /\ state = "START" =>
       /\ all # NULL
       /\ all \in committed \/ short
       /\ "in" \in linked => notified = all
  /\ running => state = "START"
  /\ at = "crashed" => state = "STOP" \/ kept \/ short

(* A reload does not stop a decoder that was working (`stopped' is what    *)
(* the last one found): it works again, unless a pin is left unconnected.  *)
(* A decoder that was found stopped is left stopped.                       *)
ResumesWork ==
  at = "idle" /\ stopped /\ linked = {"in", "out"} => state = "START"

(* At work when it should be, and then with samples.                       *)
Working == StartedFed /\ ResumesWork

(* Once the server's format was negotiated, the pictures come in it,       *)
(* whatever the codec proposes later.  (If it is the one the pin had in the*)
(* beginning, the pin may not have been restricted to it.)                 *)
FormatKept == fmt # RGB24 /\ pinFmt = fmt /\ "out" \in linked => linkFmt = fmt
=============================================================================
