------------------------------ MODULE WinSync ------------------------------
(***************************************************************************)
(* Events, semaphores and mutexes of the win32 emulation (loader/win32.c). *)
(* An object is a mutex_list: a state, a pthread mutex `pm' and a          *)
(* condition `pc' on which threads sleep.  Every call works under pm, so   *)
(* that it is one step, except where it sleeps.  A Windows mutex is a      *)
(* semaphore that starts at 1; page_mutex and mem_mutex of the decoder are *)
(* such mutexes.                                                           *)
(*                                                                         *)
(* Objects have no names here (a name is looked up in the list of          *)
(* objects, which is otherwise only asked if an object exists), and        *)
(* WaitForSingleObject is not applied to threads.  WaitForMultipleObjects  *)
(* waits for its first object, or for one after the other.                 *)
(***************************************************************************)
EXTENDS Integers

CONSTANTS
  Threads, Objects, NULL,
  Kinds,       \* what is created: "event", "semaphore", "mutex"
  Durations,   \* "poll" (0), "infinite" (-1), "timed"
  Reenter,     \* TRUE: a thread may wait for a mutex it has
  MaxCount,    \* bound: up to here a semaphore is released
  MaxWaits     \* bound: how often a thread waits

ASSUME SyncAssumption ==
  /\ NULL \notin Objects
  /\ Kinds \subseteq {"event", "semaphore", "mutex"}
  /\ Durations \subseteq {"poll", "infinite", "timed"}
  /\ Reenter \in BOOLEAN /\ MaxCount \in Nat /\ MaxWaits \in Nat

VARIABLES
  type, state, semaphore, reset,   \* of each object (type "none": not created)
  pc,          \* of each thread: "run", "asleep", "woken", or "late" (timed out)
  obj,         \* what it waits for
  duration, waits,
  ret,         \* what its last wait returned
  holders      \* of a mutex: the threads whose wait for it has returned

objVars    == <<type, state, semaphore, reset, holders>>
threadVars == <<pc, obj, duration, waits, ret>>
vars       == <<objVars, threadVars>>

Asleep(o) == {t \in Threads : pc[t] = "asleep" /\ obj[t] = o}
Wake(S)   == pc' = [t \in Threads |-> IF t \in S THEN "woken" ELSE pc[t]]
Return(t, r) == pc' = [pc EXCEPT ![t] = "run"] /\ ret' = [ret EXCEPT ![t] = r]
Sleep(t)  == pc' = [pc EXCEPT ![t] = "asleep"] /\ UNCHANGED ret
---------------------------------------------------------------------------
CreateEventA(o) ==
  /\ "event" \in Kinds /\ type[o] = "none"
  /\ type' = [type EXCEPT ![o] = "event"]
  /\ \E s \in 0 .. 1 : state' = [state EXCEPT ![o] = s]
  /\ \E manual \in BOOLEAN : reset' = [reset EXCEPT ![o] = manual]
  /\ UNCHANGED <<semaphore, holders, threadVars>>

(* max_count is not kept.                                                  *)
CreateSemaphoreA(o) ==
  /\ "semaphore" \in Kinds /\ type[o] = "none"
  /\ type' = [type EXCEPT ![o] = "semaphore"]
  /\ \E n \in 0 .. MaxCount : semaphore' = [semaphore EXCEPT ![o] = n]
  /\ state' = [state EXCEPT ![o] = 0] /\ reset' = [reset EXCEPT ![o] = FALSE]
  /\ UNCHANGED <<holders, threadVars>>

CreateMutexA(t, o) ==
  /\ "mutex" \in Kinds /\ type[o] = "none" /\ pc[t] = "run"
  /\ type' = [type EXCEPT ![o] = "mutex"]
  /\ \E bInitialOwner \in BOOLEAN :
       /\ semaphore' = [semaphore EXCEPT ![o] = IF bInitialOwner THEN 0 ELSE 1]
       /\ holders' = [holders EXCEPT ![o] = IF bInitialOwner THEN {t} ELSE {}]
  /\ state' = [state EXCEPT ![o] = 0] /\ reset' = [reset EXCEPT ![o] = FALSE]
  /\ UNCHANGED threadVars

(* pthread_cond_signal wakes at least one of those who sleep.              *)
SetEvent(o) ==
  /\ type[o] = "event"
  /\ state' = [state EXCEPT ![o] = 1]
  /\ \E S \in SUBSET Asleep(o) :
       /\ S = {} <=> Asleep(o) = {} \/ state[o] # 0
       /\ Wake(S)
  /\ UNCHANGED <<type, semaphore, reset, holders, obj, duration, waits, ret>>

ResetEvent(o) ==
  /\ type[o] = "event"
  /\ state' = [state EXCEPT ![o] = 0]
  /\ UNCHANGED <<type, semaphore, reset, holders, threadVars>>

(* Mutant: the count is raised before it is compared. *)
Release_swapped(o, n) ==
  /\ semaphore' = [semaphore EXCEPT ![o] = @ + n]
  /\ Wake(IF semaphore[o] + n = 0 THEN Asleep(o) ELSE {})
  /\ UNCHANGED <<type, state, reset, obj, duration, waits, ret>>

(* ReleaseSemaphore: from zero, everybody who sleeps is woken.             *)
Release(o, n) ==
  /\ semaphore' = [semaphore EXCEPT ![o] = @ + n]
  /\ Wake(IF semaphore[o] = 0 THEN Asleep(o) ELSE {})
  /\ UNCHANGED <<type, state, reset, obj, duration, waits, ret>>

ReleaseSemaphore(o) ==
  /\ type[o] = "semaphore"
  /\ \E increment \in 1 .. MaxCount - semaphore[o] : Release(o, increment)
  /\ UNCHANGED holders

ReleaseMutex(t, o) ==
  /\ type[o] = "mutex" /\ pc[t] = "run" /\ t \in holders[o]
  /\ holders' = [holders EXCEPT ![o] = @ \ {t}]
  /\ Release(o, 1)
---------------------------------------------------------------------------
(* WaitForSingleObject.  An event is let through as `state' says, and is   *)
(* reset if `reset' says so; a poll tells the opposite of `state'.         *)
WaitEvent(t, o, d) ==
  /\ type[o] = "event"
  /\ IF d = "poll" THEN Return(t, IF state[o] = 1 THEN "failed" ELSE "object_0")
     ELSE IF state[o] = 0 THEN Sleep(t) ELSE Return(t, "object_0")
  /\ state' = (IF d # "poll" /\ reset[o] THEN [state EXCEPT ![o] = 0] ELSE state)
  /\ UNCHANGED <<type, semaphore, reset, holders>>

(* What a wait that is granted takes.                                      *)
Take(t, o) ==
  /\ semaphore' = [semaphore EXCEPT ![o] = @ - 1]
  /\ holders' = IF type[o] = "mutex" THEN [holders EXCEPT ![o] = @ \cup {t}] ELSE holders

WaitSemaphore(t, o, d) ==
  /\ type[o] \in {"semaphore", "mutex"}
  /\ t \in holders[o] => Reenter
  /\ IF semaphore[o] # 0 THEN Take(t, o) /\ Return(t, "object_0")
     ELSE /\ UNCHANGED <<semaphore, holders>>
          /\ IF d = "poll" THEN Return(t, "failed") ELSE Sleep(t)
  /\ UNCHANGED <<type, state, reset>>

WaitForSingleObject(t) ==
  /\ pc[t] = "run" /\ waits[t] < MaxWaits
  /\ waits' = [waits EXCEPT ![t] = @ + 1]
  /\ \E o \in Objects, d \in Durations :
       /\ obj' = [obj EXCEPT ![t] = o] /\ duration' = [duration EXCEPT ![t] = d]
       /\ WaitEvent(t, o, d) \/ WaitSemaphore(t, o, d)

(* Mutant: a thread that has been woken does not reset the event. *)
EventWoken_keep(t, o) ==
  /\ type[o] = "event"
  /\ Return(t, "object_0")
  /\ UNCHANGED objVars

(* A thread that has been woken does not look at `state' again.            *)
EventWoken(t, o) ==
  /\ type[o] = "event"
  /\ state' = (IF reset[o] THEN [state EXCEPT ![o] = 0] ELSE state)
  /\ Return(t, "object_0")
  /\ UNCHANGED <<type, semaphore, reset, holders>>

(* Mutant: the count is not looked at again. *)
SemaphoreWoken_if(t, o) ==
  /\ type[o] \in {"semaphore", "mutex"}
  /\ Take(t, o) /\ Return(t, "object_0")
  /\ UNCHANGED <<type, state, reset>>

SemaphoreWoken(t, o) ==
  /\ type[o] \in {"semaphore", "mutex"}
  /\ IF semaphore[o] # 0 THEN Take(t, o) /\ Return(t, "object_0")
     ELSE Sleep(t) /\ UNCHANGED <<semaphore, holders>>
  /\ UNCHANGED <<type, state, reset>>

(* pthread_cond_timedwait gives up ...                                     *)
TimeOut(t) ==
  /\ pc[t] = "asleep" /\ duration[t] = "timed"
  /\ pc' = [pc EXCEPT ![t] = "late"]
  /\ UNCHANGED <<objVars, obj, duration, waits, ret>>

(* ... and has pm again: an event is reset even so.                        *)
Late(t, o) ==
  /\ state' = (IF type[o] = "event" /\ reset[o] THEN [state EXCEPT ![o] = 0] ELSE state)
  /\ Return(t, "timeout")
  /\ UNCHANGED <<type, semaphore, reset, holders>>

Resume(t) ==
  /\ \/ pc[t] = "woken" /\ (EventWoken(t, obj[t]) \/ SemaphoreWoken(t, obj[t]))
     \/ pc[t] = "late" /\ Late(t, obj[t])
  /\ UNCHANGED <<obj, duration, waits>>
---------------------------------------------------------------------------
Init ==
  /\ type = [o \in Objects |-> "none"] /\ state = [o \in Objects |-> 0]
  /\ semaphore = [o \in Objects |-> 0] /\ reset = [o \in Objects |-> FALSE]
  /\ holders = [o \in Objects |-> {}]
  /\ pc = [t \in Threads |-> "run"] /\ obj = [t \in Threads |-> NULL]
  /\ duration = [t \in Threads |-> "infinite"] /\ waits = [t \in Threads |-> 0]
  /\ ret = [t \in Threads |-> "failed"]

Next ==
  \/ \E o \in Objects : \/ CreateEventA(o) \/ CreateSemaphoreA(o)
                        \/ SetEvent(o) \/ ResetEvent(o) \/ ReleaseSemaphore(o)
                        \/ \E t \in Threads : CreateMutexA(t, o) \/ ReleaseMutex(t, o)
  \/ \E t \in Threads : WaitForSingleObject(t) \/ TimeOut(t) \/ Resume(t)

Spec == Init /\ [][Next]_vars

(* Threads run, and release a mutex in the end.                            *)
Fairness == \A t \in Threads : WF_vars(Resume(t)) /\ \A o \in Objects : WF_vars(ReleaseMutex(t, o))
FairSpec == Spec /\ Fairness
---------------------------------------------------------------------------
(* Types; above all, no count falls below zero.                            *)
TypeOK ==
  /\ type \in [Objects -> {"none", "event", "semaphore", "mutex"}]
  /\ state \in [Objects -> 0 .. 1] /\ semaphore \in [Objects -> Nat]
  /\ reset \in [Objects -> BOOLEAN] /\ holders \in [Objects -> SUBSET Threads]
  /\ pc \in [Threads -> {"run", "asleep", "woken", "late"}]
  /\ obj \in [Threads -> Objects \cup {NULL}]
  /\ duration \in [Threads -> {"poll", "infinite", "timed"}]
  /\ waits \in [Threads -> Nat]
  /\ ret \in [Threads -> {"object_0", "timeout", "failed"}]
  /\ \A t \in Threads : pc[t] # "run" => obj[t] # NULL /\ type[obj[t]] # "none"

(* A mutex made of a semaphore (page_mutex, mem_mutex) excludes: it is     *)
(* free, or one thread has it.                                             *)
MutexExclusive ==
  \A o \in Objects : type[o] = "mutex" =>
    /\ semaphore[o] = IF holders[o] = {} THEN 1 ELSE 0
    /\ \A t, u \in holders[o] : t = u

(* No wake-up of a semaphore is lost: nobody sleeps while it has something *)
(* to give (ReleaseSemaphore wakes only when it starts from zero).         *)
NoSleeperLeft ==
  \A o \in Objects :
    type[o] \in {"semaphore", "mutex"} /\ semaphore[o] > 0 => Asleep(o) = {}

(* Nor of an event that is reset by a wait: if it is set and threads       *)
(* sleep, one has been woken and is on its way.                            *)
NoSignalLost ==
  \A o \in Objects :
    type[o] = "event" /\ reset[o] /\ state[o] = 1 /\ Asleep(o) # {} =>
      \E t \in Threads : pc[t] = "woken" /\ obj[t] = o

(* Neither kind of object leaves a thread asleep that it could let go.     *)
NoneForgotten == NoSleeperLeft /\ NoSignalLost

(* Who waits for a mutex gets it in the end.                               *)
MutexGranted ==
  \A t \in Threads :
    (pc[t] = "asleep" /\ type[obj[t]] = "mutex") ~> pc[t] = "run"
===========================================================================
