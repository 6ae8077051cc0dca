--------------------------- MODULE CriticalSection ---------------------------
(***************************************************************************)
(* Critical sections of the win32 emulation (loader/win32.c), as the       *)
(* codec's threads use them.  `c' is the CRITICAL_SECTION of the codec: a  *)
(* pointer to the struct CRITSECT now in use.  `locked' and `id' of that   *)
(* struct are read and written outside of its mutex as well as inside, so  *)
(* every access is a step of its own.                                      *)
(*                                                                         *)
(* The client is foreign code: it leaves as often as it enters, and        *)
(* deletes a section that nobody uses.  With Recursive = TRUE it enters a  *)
(* section it is in; with Lazy = TRUE it enters one that is zeroed but     *)
(* not initialized.                                                        *)
(***************************************************************************)
EXTENDS Naturals

CONSTANTS
  Threads,
  Structs,     \* addresses a struct CRITSECT may get
  NULL,
  Recursive, Lazy,
  Dirty,       \* TRUE: memory is recycled with what an older section left in it
  MaxVisits    \* bound: how often a thread enters

ASSUME CritAssumption ==
  /\ NULL \notin Structs /\ NULL \notin Threads
  /\ Recursive \in BOOLEAN /\ Lazy \in BOOLEAN /\ Dirty \in BOOLEAN
  /\ MaxVisits \in Nat

VARIABLES
  c,           \* *(struct CRITSECT**)c
  usable,      \* FALSE: not initialized (and Lazy not allowed), or deleted
  fresh,       \* addresses not yet used
  locked, id, mutex,   \* of each struct; `mutex' is the thread holding it
  pc, cs,      \* where each thread is, and the struct it looks at
  nest,        \* how often it has entered and not left
  visits

objVars    == <<c, usable, fresh>>
threadVars == <<nest, visits>>
vars       == <<objVars, locked, id, mutex, pc, cs, threadVars>>

Goto(t, l) == pc' = [pc EXCEPT ![t] = l]

(* A struct fresh from mreq_private, which does not clear it: `id' holds   *)
(* what the memory held.                                                   *)
NewStruct(s) ==
  /\ s \in fresh /\ fresh' = fresh \ {s}
  /\ locked' = [locked EXCEPT ![s] = FALSE]
  /\ \E any \in (IF Dirty THEN Threads ELSE {}) \cup {NULL} : id' = [id EXCEPT ![s] = any]
  /\ mutex' = [mutex EXCEPT ![s] = NULL]
  /\ c' = s
---------------------------------------------------------------------------
InitializeCriticalSection ==
  /\ ~usable \/ (Lazy /\ c = NULL)
  /\ \A t \in Threads : pc[t] = "out" /\ nest[t] = 0
  /\ \E s \in Structs : NewStruct(s)
  /\ usable' = TRUE
  /\ UNCHANGED <<pc, cs, threadVars>>

(* Mutant: a section that is not initialized is not noticed. *)
Enter_noTest(t) ==
  /\ usable /\ visits[t] < MaxVisits
  /\ pc[t] = "out" /\ (nest[t] > 0 => Recursive)
  /\ visits' = [visits EXCEPT ![t] = @ + 1]
  /\ cs' = [cs EXCEPT ![t] = c]
  /\ Goto(t, "check")
  /\ UNCHANGED <<objVars, locked, id, mutex, nest>>

(* EnterCriticalSection: look at the pointer ...                           *)
Enter(t) ==
  /\ usable /\ visits[t] < MaxVisits
  /\ pc[t] = "out" /\ (nest[t] > 0 => Recursive)
  /\ visits' = [visits EXCEPT ![t] = @ + 1]
  /\ cs' = [cs EXCEPT ![t] = c]
  /\ Goto(t, IF c = NULL THEN "init" ELSE "check")
  /\ UNCHANGED <<objVars, locked, id, mutex, nest>>

(* ... initialize the section if there is none, and look again ...         *)
EnterInit(t) ==
  /\ pc[t] = "init"
  /\ \E s \in Structs : NewStruct(s)
  /\ Goto(t, "reload")
  /\ UNCHANGED <<usable, cs, threadVars>>

EnterReload(t) ==
  /\ pc[t] = "reload"
  /\ cs' = [cs EXCEPT ![t] = c]
  /\ Goto(t, "check")
  /\ UNCHANGED <<objVars, locked, id, mutex, threadVars>>

(* ... if it is locked, and by this thread, that is all ...                *)
EnterLocked(t) ==
  /\ pc[t] = "check"
  /\ Goto(t, IF locked[cs[t]] THEN "mine" ELSE "lock")
  /\ UNCHANGED <<objVars, locked, id, mutex, cs, threadVars>>

(* Mutant: the owner is not recognized when it comes again. *)
EnterMine_never(t) ==
  /\ pc[t] = "mine"
  /\ Goto(t, "lock")
  /\ UNCHANGED <<objVars, locked, id, mutex, cs, threadVars>>

EnterMine(t) ==
  /\ pc[t] = "mine"
  /\ IF id[cs[t]] = t
       THEN Goto(t, "out") /\ nest' = [nest EXCEPT ![t] = @ + 1]
       ELSE Goto(t, "lock") /\ nest' = nest
  /\ UNCHANGED <<objVars, locked, id, mutex, cs, visits>>

(* ... or else take the mutex, then set `locked', then `id'.               *)
EnterLock(t) ==
  /\ pc[t] = "lock" /\ mutex[cs[t]] = NULL
  /\ mutex' = [mutex EXCEPT ![cs[t]] = t]
  /\ Goto(t, "set")
  /\ UNCHANGED <<objVars, locked, id, cs, threadVars>>

EnterSet(t) ==
  /\ pc[t] = "set"
  /\ locked' = [locked EXCEPT ![cs[t]] = TRUE]
  /\ Goto(t, "setid")
  /\ UNCHANGED <<objVars, id, mutex, cs, threadVars>>

EnterSetId(t) ==
  /\ pc[t] = "setid"
  /\ id' = [id EXCEPT ![cs[t]] = t]
  /\ Goto(t, "out") /\ nest' = [nest EXCEPT ![t] = @ + 1]
  /\ UNCHANGED <<objVars, locked, mutex, cs, visits>>

(* LeaveCriticalSection: no question is asked about the owner.             *)
Leave(t) ==
  /\ pc[t] = "out" /\ nest[t] > 0
  /\ cs' = [cs EXCEPT ![t] = c]
  /\ Goto(t, "leave")
  /\ UNCHANGED <<objVars, locked, id, mutex, threadVars>>

LeaveLocked(t) ==
  /\ pc[t] = "leave"
  /\ IF locked[cs[t]]
       THEN Goto(t, "clear") /\ nest' = nest
       ELSE Goto(t, "out") /\ nest' = [nest EXCEPT ![t] = @ - 1]
  /\ UNCHANGED <<objVars, locked, id, mutex, cs, visits>>

LeaveClear(t) ==
  /\ pc[t] = "clear"
  /\ locked' = [locked EXCEPT ![cs[t]] = FALSE]
  /\ Goto(t, "unlock")
  /\ UNCHANGED <<objVars, id, mutex, cs, threadVars>>

(* Mutant: the mutex is unlocked by its owner only. *)
LeaveUnlock_owner(t) ==
  /\ pc[t] = "unlock"
  /\ mutex' = [mutex EXCEPT ![cs[t]] = IF @ = t THEN NULL ELSE @]
  /\ Goto(t, "out") /\ nest' = [nest EXCEPT ![t] = @ - 1]
  /\ UNCHANGED <<objVars, locked, id, cs, visits>>

(* An ordinary pthread mutex is unlocked by whoever says so.               *)
LeaveUnlock(t) ==
  /\ pc[t] = "unlock"
  /\ mutex' = [mutex EXCEPT ![cs[t]] = NULL]
  /\ Goto(t, "out") /\ nest' = [nest EXCEPT ![t] = @ - 1]
  /\ UNCHANGED <<objVars, locked, id, cs, visits>>

(* DeleteCriticalSection of a section in nobody's use: the struct is       *)
(* released, and the pointer to it left in place.                          *)
DeleteCriticalSection ==
  /\ usable /\ c # NULL
  /\ \A t \in Threads : pc[t] = "out" /\ nest[t] = 0
  /\ mutex' = [mutex EXCEPT ![c] = IF locked[c] THEN NULL ELSE @]
  /\ usable' = FALSE
  /\ UNCHANGED <<c, fresh, locked, id, pc, cs, threadVars>>
---------------------------------------------------------------------------
Init ==
  /\ c = NULL /\ usable = Lazy /\ fresh = Structs
  /\ locked = [s \in Structs |-> FALSE]
  /\ id = [s \in Structs |-> NULL]
  /\ mutex = [s \in Structs |-> NULL]
  /\ pc = [t \in Threads |-> "out"] /\ cs = [t \in Threads |-> NULL]
  /\ nest = [t \in Threads |-> 0] /\ visits = [t \in Threads |-> 0]

Inside(t) ==
  EnterInit(t) \/ EnterReload(t) \/ EnterLocked(t) \/ EnterMine(t)
  \/ EnterLock(t) \/ EnterSet(t) \/ EnterSetId(t)
  \/ LeaveLocked(t) \/ LeaveClear(t) \/ LeaveUnlock(t)

Next ==
  \/ InitializeCriticalSection \/ DeleteCriticalSection
  \/ \E t \in Threads : Enter(t) \/ Leave(t) \/ Inside(t)

Spec == Init /\ [][Next]_vars

(* Every thread runs, and leaves what it has entered.                      *)
Fairness == \A t \in Threads : WF_vars(Inside(t)) /\ WF_vars(Leave(t))
FairSpec == Spec /\ Fairness
---------------------------------------------------------------------------
(* Types; nobody looks into a struct that is not there.                    *)
TypeOK ==
  /\ c \in Structs \cup {NULL} /\ usable \in BOOLEAN /\ fresh \subseteq Structs
  /\ locked \in [Structs -> BOOLEAN]
  /\ id \in [Structs -> Threads \cup {NULL}]
  /\ mutex \in [Structs -> Threads \cup {NULL}]
  /\ pc \in [Threads -> {"out", "init", "reload", "check", "mine", "lock",
                         "set", "setid", "leave", "clear", "unlock"}]
  /\ cs \in [Threads -> Structs \cup {NULL}]
  /\ \A t \in Threads : pc[t] \notin {"out", "init", "reload"} => cs[t] # NULL
  /\ nest \in [Threads -> Nat] /\ visits \in [Threads -> Nat]

(* outputpin.c:732 "Developer must use critical sections for thread-safing *)
(* work": two threads are never inside a section at once.                  *)
MutualExclusion ==
  \A t, u \in Threads : nest[t] > 0 /\ nest[u] > 0 => t = u

(* Whatever the unsynchronised reads of `locked' and `id' let through, the *)
(* section is not left locked: when everybody is out, `locked' is clear    *)
(* and the mutex is free, so that the next thread gets in.  (A Leave that  *)
(* finds `locked' clear skips the unlock: then another one must do it.)    *)
NeverStuck ==
  c # NULL /\ (\A t \in Threads : pc[t] = "out" /\ nest[t] = 0)
    => ~locked[c] /\ mutex[c] = NULL

(* A thread that waits for the mutex of the section gets it in the end,    *)
(* also if it is the one that has entered before; unless the section got   *)
(* another struct meanwhile, from a second thread that found it not yet    *)
(* initialized.  (Visits are bounded: among threads that come back for     *)
(* ever a pthread mutex promises no turn.)                                 *)
EnterReturns ==
  \A t \in Threads : (pc[t] = "lock" /\ cs[t] = c) ~> (pc[t] = "out" \/ cs[t] # c)
=============================================================================
