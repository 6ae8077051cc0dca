----------------------------- MODULE ModuleList -----------------------------
(***************************************************************************)
(* The DLLs of the process: loader/module.c, the parts of pe_image.c that  *)
(* create and destroy a module, the drivers of driver.c and the filters of *)
(* DS_Filter.c, which hold one DLL each, and LookupExternal of win32.c,    *)
(* which loads the DLLs another one imports.                               *)
(*                                                                         *)
(* Everything happens in one thread, but DllMain and DriverProc, or the    *)
(* objects of a filter, are foreign code and may load and free modules     *)
(* themselves: `stack' holds the calls that have not returned, the last    *)
(* one on top.  Foreign code frees what it has loaded, as often as it has  *)
(* loaded it.                                                              *)
(*                                                                         *)
(* A module is the number of its PE_CreateModule; its handle is the        *)
(* address of its image, so the same number.                               *)
(***************************************************************************)
EXTENDS Integers, Sequences, FiniteSets

CONSTANTS
  Dlls,        \* names
  Within,      \* [Dlls -> SUBSET Dlls]: file names with that name in them
  Imports,     \* [Dlls -> SUBSET Dlls]: DLLs that LookupExternal loads
  PatchedDlls, \* DLLs that are patched when they are loaded, if they can be
  Drivers,     \* drivers (DRVR) and filters (DS_Filter)
  MaxLoads,    \* bound: modules created
  MaxHeld,     \* bound: how often a DLL loads another without freeing it
  MaxDepth     \* bound: calls under way when DllMain calls

NONE == 0

ASSUME ModuleAssumption ==
  /\ Within \in [Dlls -> SUBSET Dlls] /\ \A n \in Dlls : n \in Within[n]
  /\ Imports \in [Dlls -> SUBSET Dlls] /\ MaxLoads \in Nat /\ MaxHeld \in Nat /\ MaxDepth \in Nat
  /\ \A d \in Drivers : d \notin Nat

VARIABLES
  names,       \* the file name of each module created
  live,        \* modules not freed by PE_UnloadLibrary
  list,        \* local_wm is the last one
  attached,    \* modules with PROCESS_ATTACHED, in the order they got it
  held,        \* held[o][m]: how often module o has loaded m and not freed it
  over,        \* modules freed by one holder while another one had them
  stale,       \* modules whose WINE_MODREF was garbage collected
  acounter,
  opened,      \* the module of each driver, NONE if it is closed
  stack, ret   \* the calls under way, and the result of the last one

listVars   == <<names, live, list, attached, held, over, stale>>
drvVars    == <<acounter, opened>>
moduleVars == <<listVars, drvVars, stack, ret>>

Modules == 1 .. MaxLoads

(* A call under way: of a module's loading or DllMain, of a driver, or of  *)
(* its DriverProc.                                                         *)
Frame(op, m, todo) == [op |-> op, mod |-> m, todo |-> todo, drv |-> NONE]
Call(op, d)        == [op |-> op, mod |-> NONE, todo |-> {}, drv |-> d]
Proc(op, m, d)     == [op |-> op, mod |-> m, todo |-> {}, drv |-> d]

Top       == stack[Len(stack)]
Below     == SubSeq(stack, 1, Len(stack) - 1)
OnTop(op) == stack # <<>> /\ Top.op = op

Detaching   == {"failed", "free", "collect"}
Driving     == {"message", "closing"}
Frames(s)   == {s[k] : k \in DOMAIN s}
Importing   == {f.mod : f \in {g \in Frames(stack) : g.op \in {"import", "resolve"}}}
Busy(s)     == {f.mod : f \in Frames(s)} \ {NONE}

(* After that, anything may happen.                                        *)
Crashed == stale # {} \/ (stack # <<>> /\ Top.mod # NONE /\ Top.mod \notin live)

(* DllMain or DriverProc is running. *)
Foreign == /\ stack # <<>> /\ Top.op \in Detaching \cup Driving \cup {"attach"}
           /\ Len(stack) <= MaxDepth
---------------------------------------------------------------------------
(* MODULE_FindModule: the newest whose file name has the name n somewhere  *)
(* in it; MODULE32_LookupHMODULE.                                          *)
Loaded(n) == {m \in {list[i] : i \in DOMAIN list} : names[m] \in Within[n]}
Find(n)   == LET At(m) == CHOOSE i \in DOMAIN list : list[i] = m
             IN CHOOSE m \in Loaded(n) : \A o \in Loaded(n) : At(o) <= At(m)
Known(m)  == \E i \in DOMAIN list : list[i] = m

(* The sequence s without its last m. *)
Without(s, m) ==
  LET i == CHOOSE i \in DOMAIN s : s[i] = m /\ \A j \in i + 1 .. Len(s) : s[j] # m
  IN IF \E j \in DOMAIN s : s[j] = m
       THEN [k \in 1 .. Len(s) - 1 |-> IF k < i THEN s[k] ELSE s[k + 1]] ELSE s

(* Mutant: the list is left as it is if it has one element. *)
RemoveFromList_two(m) ==
  IF Len(list) <= 1 THEN list ELSE Without(list, m)

(* MODULE_RemoveFromList: the only element goes, whichever it is.          *)
RemoveFromList(m) ==
  IF Len(list) <= 1 THEN <<>> ELSE Without(list, m)

(* The caller of a LoadLibrary, on top of the stack s, has the module m: a *)
(* driver notes that in `opened'.                                          *)
Hold(s, m) == LET o == s[Len(s)].mod
              IN held' = IF o = NONE THEN held ELSE [held EXCEPT ![o][m] = @ + 1]

(* LoadLibraryExA, called with the stack s: the module is there, or it     *)
(* cannot be found or is no PE image, or it is created and its imports are *)
(* next.  A module that is there is not counted again.                     *)
LoadLibrary(n, s) ==
  \/ /\ Loaded(n) # {}
     /\ stack' = s /\ ret' = Find(n) /\ Hold(s, Find(n))
     /\ UNCHANGED <<names, live>>
  \/ /\ Loaded(n) = {}
     /\ stack' = s /\ ret' = NONE /\ UNCHANGED <<names, live, held>>
  \/ /\ Loaded(n) = {} /\ Len(names) < MaxLoads
     /\ names' = Append(names, n)
     /\ live' = live \cup {Len(names) + 1}
     /\ stack' = Append(s, Frame("import", Len(names) + 1, Imports[n]))
     /\ UNCHANGED <<held, ret>>

(* fixup_imports: LookupExternal loads a DLL and looks the function up in  *)
(* it.  A DLL that does not have it is freed again.                        *)
fixupImports ==
  /\ OnTop("import")
  /\ \E n \in Top.todo :
       LoadLibrary(n, Append(Below, Frame("resolve", Top.mod, Top.todo \ {n})))
  /\ UNCHANGED <<list, attached, over, stale, drvVars>>

(* FreeLibrary, up to the DETACH notification, called with the stack s: no *)
(* count is looked at.                                                     *)
Holders(m) == {o \in Modules : held[o][m] > 0} \cup {d \in Drivers : opened[d] = m}

FreeLibrary(m, s) ==
  LET o == s[Len(s)].mod
      caller == IF o = NONE THEN s[Len(s)].drv ELSE o
      shared == Holders(m) \ {caller} # {} \/ m \in Busy(s) \/ (o # NONE /\ held[o][m] > 1)
  IN
  /\ over' = IF shared THEN over \cup {m} ELSE over
  /\ held' = IF o = NONE THEN held ELSE [held EXCEPT ![o][m] = @ - 1]
  /\ IF Known(m)
       THEN /\ attached' = Without(attached, m)
            /\ stack' = Append(s, Frame("free", m, {}))
       ELSE UNCHANGED attached /\ stack' = s
  /\ UNCHANGED <<names, live, list, stale, ret>>

resolved ==
  /\ OnTop("resolve")
  /\ LET s == Append(Below, [Top EXCEPT !.op = "import"]) IN
     \/ stack' = s /\ UNCHANGED <<listVars, ret>>
     \/ ret # NONE /\ FreeLibrary(ret, s)
  /\ UNCHANGED drvVars

(* MODULE_DllProcessAttach: the module becomes the newest of the list, and *)
(* DllMain is called.                                                      *)
DllProcessAttach ==
  /\ OnTop("import") /\ Top.todo = {}
  /\ list' = Append(list, Top.mod)
  /\ stack' = Append(Below, Frame("attach", Top.mod, {}))
  /\ UNCHANGED <<names, live, attached, held, over, stale, drvVars, ret>>

(* ... which accepts, or is called again to detach.                        *)
attachReturns ==
  /\ OnTop("attach")
  /\ \/ /\ attached' = Append(attached, Top.mod)
        /\ stack' = Below /\ ret' = Top.mod /\ Hold(Below, Top.mod)
     \/ /\ stack' = Append(Below, Frame("failed", Top.mod, {}))
        /\ UNCHANGED <<attached, held, ret>>
  /\ UNCHANGED <<names, live, list, over, stale, drvVars>>

(* ... which accepts, but LoadLibraryExA does not know the version it has  *)
(* to patch: it answers that nothing was loaded and leaves the module.     *)
unsupported ==
  /\ OnTop("attach") /\ names[Top.mod] \in PatchedDlls
  /\ attached' = Append(attached, Top.mod)
  /\ stack' = Below /\ ret' = NONE
  /\ UNCHANGED <<names, live, list, held, over, stale, drvVars>>

(* MODULE_FreeLibrary after the DETACH notification, and RemoveFromList.   *)
(* The callers take the module from the list again: while it is alive, it  *)
(* is there (ListExact).                                                   *)
Unload(m) ==
  /\ live' = live \ {m} /\ list' = RemoveFromList(m)
  /\ held' = [held EXCEPT ![m] = [o \in Modules |-> 0]]
  /\ UNCHANGED <<names, over, drvVars>>

(* my_garbagecollection, when the list l is empty, releases all that was   *)
(* allocated, the WINE_MODREFs of modules still alive included.            *)
GarbageCollection(l, alive) == stale' = IF l = <<>> THEN stale \cup alive ELSE stale

(* CodecRelease goes on with the newest module of the list l.              *)
Collect(l, s) ==
  IF l # <<>>
    THEN /\ stack' = Append(s, Frame("collect", l[Len(l)], {}))
         /\ attached' = Without(attached, l[Len(l)])
    ELSE stack' = s /\ UNCHANGED attached

(* DllMain has returned from DETACH to LoadLibraryExA, which has failed,   *)
(* to FreeLibrary, or to the loop of CodecRelease.                         *)
failedReturns ==
  /\ OnTop("failed") /\ Unload(Top.mod)
  /\ ret' = NONE /\ stack' = Below /\ UNCHANGED <<attached, stale>>

freeReturns ==
  /\ OnTop("free") /\ Unload(Top.mod)
  /\ GarbageCollection(RemoveFromList(Top.mod), live \ {Top.mod})
  /\ stack' = Below /\ UNCHANGED <<attached, ret>>

collectReturns ==
  /\ OnTop("collect") /\ Unload(Top.mod)
  /\ GarbageCollection(RemoveFromList(Top.mod), live \ {Top.mod})
  /\ Collect(RemoveFromList(Top.mod), Below) /\ UNCHANGED ret
---------------------------------------------------------------------------
(* The code of a DLL.                                                      *)
DllLoads ==
  /\ Foreign
  /\ \E n \in Dlls :
       /\ \A m \in Loaded(n) : held[Top.mod][m] < MaxHeld
       /\ LoadLibrary(n, stack)
  /\ UNCHANGED <<list, attached, over, stale, drvVars>>

DllFrees ==
  /\ Foreign
  /\ \E m \in 1 .. Len(names) : held[Top.mod][m] > 0 /\ FreeLibrary(m, stack)
  /\ UNCHANGED drvVars
---------------------------------------------------------------------------
(* Mutant: the modules of the drivers that are still open are freed too. *)
Release_any(s) == acounter' = acounter - 1 /\ Collect(list, s)

(* Mutant: only what the driver has freed itself is gone. *)
Release_none(s) ==
  acounter' = acounter - 1 /\ stack' = s /\ UNCHANGED attached

(* Mutant: a driver that could not be opened is counted out twice. *)
Release_twice(s) ==
  acounter' = acounter - 2 /\ Collect(IF acounter = 1 THEN list ELSE <<>>, s)

(* CodecRelease: without a driver all modules are freed, the newest first. *)
Release(s) ==
  acounter' = acounter - 1 /\ Collect(IF acounter = 1 THEN list ELSE <<>>, s)

(* DrvOpen, DS_FilterCreate: CodecAlloc and LoadLibraryA.                  *)
DrvOpen(d) ==
  /\ stack = <<>> /\ opened[d] = NONE
  /\ acounter' = acounter + 1
  /\ \E n \in Dlls : LoadLibrary(n, <<Call("open", d)>>)
  /\ UNCHANGED <<list, attached, over, stale, opened>>

(* The DLL has DriverProc, which is called, or a function that the filter  *)
(* calls; or it has not, and DrvClose only frees it.  A filter that fails  *)
(* later closes as one that was open.                                      *)
openReturns ==
  /\ OnTop("open") /\ ret # NONE
  /\ \/ /\ opened' = [opened EXCEPT ![Top.drv] = ret]
        /\ stack' = Append(Below, Proc("message", ret, Top.drv))
        /\ UNCHANGED <<listVars, ret, acounter>>
     \/ /\ FreeLibrary(ret, Append(Below, Call("close", Top.drv)))
        /\ UNCHANGED drvVars

openFails ==
  /\ OnTop("open") /\ ret = NONE
  /\ Release(Below)
  /\ UNCHANGED <<names, live, list, held, over, stale, opened, ret>>

SendDriverMessage(d, op) ==
  /\ stack = <<>> /\ opened[d] # NONE
  /\ stack' = <<Proc(op, opened[d], d)>>
  /\ UNCHANGED <<listVars, drvVars, ret>>

messageReturns ==
  OnTop("message") /\ stack' = Below /\ UNCHANGED <<listVars, drvVars, ret>>

(* DrvClose, DS_Filter_Destroy: the DLL is told first.                     *)
DrvClose(d) == SendDriverMessage(d, "closing")

closingReturns ==
  /\ OnTop("closing")
  /\ FreeLibrary(Top.mod, Append(Below, Call("close", Top.drv)))
  /\ opened' = [opened EXCEPT ![Top.drv] = NONE]
  /\ UNCHANGED acounter

closeReturns ==
  /\ OnTop("close")
  /\ Release(Below)
  /\ UNCHANGED <<names, live, list, held, over, stale, opened, ret>>
---------------------------------------------------------------------------
ModuleInit ==
  /\ names = <<>> /\ live = {} /\ list = <<>> /\ attached = <<>>
  /\ held = [o \in Modules |-> [m \in Modules |-> 0]] /\ over = {} /\ stale = {}
  /\ acounter = 0 /\ opened = [d \in Drivers |-> NONE]
  /\ stack = <<>> /\ ret = NONE

ModuleNext ==
  /\ ~Crashed
  /\ \/ fixupImports \/ resolved \/ DllProcessAttach \/ attachReturns
     \/ unsupported \/ failedReturns \/ freeReturns \/ collectReturns
     \/ DllLoads \/ DllFrees
     \/ openReturns \/ openFails \/ messageReturns \/ closingReturns \/ closeReturns
     \/ \E d \in Drivers : DrvOpen(d) \/ SendDriverMessage(d, "message") \/ DrvClose(d)

ModuleSpec == ModuleInit /\ [][ModuleNext]_moduleVars
---------------------------------------------------------------------------
ModuleTypeOK ==
  /\ names \in Seq(Dlls) /\ Len(names) <= MaxLoads
  /\ live \subseteq 1 .. Len(names)
  /\ list \in Seq(1 .. Len(names)) /\ attached \in Seq(1 .. Len(names))
  /\ held \in [Modules -> [Modules -> Nat]] /\ over \subseteq Modules /\ stale \subseteq Modules
  /\ acounter \in Nat /\ opened \in [Drivers -> Modules \cup {NONE}]
  /\ stack \in Seq([op : {"import", "resolve", "attach", "open", "close"} \cup Detaching \cup Driving,
                    mod : Modules \cup {NONE}, todo : SUBSET Dlls,
                    drv : Drivers \cup {NONE}])
  /\ ret \in Modules \cup {NONE}

(* The list names no module that is gone, although it is changed while     *)
(* DllMain, which may change it too, is running; a module is in it from    *)
(* its attach to the end of its detach, once.                              *)
ListExact ==
  /\ \A i, j \in DOMAIN list : list[i] = list[j] => i = j
  /\ {list[i] : i \in DOMAIN list} = live \ Importing

(* The module of an open driver is there, and so is the one whose DllMain  *)
(* is running or whose imports are loaded, unless another holder of the    *)
(* same module has freed it.  What the collection takes with it is at most *)
(* a module whose imports are being loaded.                                *)
UsersAlive ==
  /\ \A d \in Drivers : opened[d] \in live \cup over \cup {NONE}
  /\ \A m \in Busy(stack) : m \in live \cup over
  /\ stale \subseteq Importing

(* With the last driver everything is gone, however opening it failed and  *)
(* whatever its DLL has loaded and not freed.                              *)
AllGone == stack = <<>> /\ acounter = 0 /\ ~Crashed => live = {} /\ list = <<>>

(* module.c:210 "the detach notifications are called in the reverse of the *)
(* sequence the attach notifications *returned*": CodecRelease detaches    *)
(* first the module that was attached last.                                *)
DetachOrder ==
  [][\A m \in Modules :
       Len(stack') > 0 /\ stack'[Len(stack')] = Frame("collect", m, {}) /\ Len(attached') < Len(attached)
         => attached[Len(attached)] = m]_moduleVars
=============================================================================
