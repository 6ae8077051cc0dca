--------------------------- MODULE WinSyncProofs ---------------------------
(***************************************************************************)
(* The semaphores, mutexes and events of the win32 emulation, for any      *)
(* number of threads, objects, releases and waits, timed ones included:    *)
(* no count below zero, mutexes that exclude, and no wake-up lost.         *)
(***************************************************************************)
EXTENDS WinSync, TLAPS

Inv == TypeOK /\ MutexExclusive /\ NoSleeperLeft /\ NoSignalLost

(* What the two ways of waking and of sleeping do to the sleepers.         *)
LEMMA WakeSleepers ==
  ASSUME TypeOK, NEW S \in SUBSET Threads, Wake(S), obj' = obj
  PROVE  /\ pc' \in [Threads -> {"run", "asleep", "woken", "late"}]
         /\ \A o \in Objects : Asleep(o)' = Asleep(o) \ S
         /\ \A t \in Threads : pc'[t] = IF t \in S THEN "woken" ELSE pc[t]
  BY DEF TypeOK, Wake, Asleep

LEMMA InitInv == Init => Inv
  BY SyncAssumption DEF Init, Inv, TypeOK, MutexExclusive, NoSleeperLeft, NoSignalLost, Asleep

(* A new object: nobody sleeps on it. *)
LEMMA CreateStep ==
  ASSUME Inv, NEW o \in Objects,
         CreateEventA(o) \/ CreateSemaphoreA(o) \/ \E t \in Threads : CreateMutexA(t, o)
  PROVE  Inv'
<1> USE SyncAssumption DEF Inv, TypeOK
<1>0. \A t \in Threads : pc[t] # "run" => obj[t] # o
  BY DEF CreateEventA, CreateSemaphoreA, CreateMutexA
<1>1. CASE CreateEventA(o)
  <2>1. TypeOK'
    BY <1>0, <1>1 DEF CreateEventA, threadVars
  <2>2. MutexExclusive' /\ NoSleeperLeft'
    BY <1>0, <1>1 DEF CreateEventA, threadVars, MutexExclusive, NoSleeperLeft, Asleep
  <2>3. NoSignalLost'
    <3>1. Asleep(o)' = {} /\ \A p \in Objects : Asleep(p)' = Asleep(p)
      BY <1>0, <1>1 DEF CreateEventA, threadVars, Asleep
    <3>2. \A p \in Objects : p # o => UNCHANGED <<type[p], state[p], reset[p]>>
      BY <1>1 DEF CreateEventA
    <3>q. QED  BY <1>1, <3>1, <3>2 DEF CreateEventA, threadVars, NoSignalLost
  <2>q. QED  BY <2>1, <2>2, <2>3
<1>2. CASE CreateSemaphoreA(o)
  <2>1. TypeOK'
    BY <1>0, <1>2 DEF CreateSemaphoreA, threadVars
  <2>2. Asleep(o)' = {} /\ \A p \in Objects : Asleep(p)' = Asleep(p)
    BY <1>0, <1>2 DEF CreateSemaphoreA, threadVars, Asleep
  <2>3. MutexExclusive' /\ NoSleeperLeft'
    BY <1>2, <2>2 DEF CreateSemaphoreA, MutexExclusive, NoSleeperLeft
  <2>4. NoSignalLost'
    <3>1. UNCHANGED <<pc, obj>> /\ \A p \in Objects : p # o => UNCHANGED <<type[p], state[p], reset[p]>>
      BY <1>2 DEF CreateSemaphoreA, threadVars
    <3>q. QED  BY <2>2, <3>1 DEF NoSignalLost
  <2>q. QED  BY <2>1, <2>3, <2>4
<1>3. ASSUME NEW t \in Threads, CreateMutexA(t, o) PROVE Inv'
  <2>1. TypeOK'
    BY <1>0, <1>3 DEF CreateMutexA, threadVars
  <2>2. Asleep(o)' = {} /\ \A p \in Objects : Asleep(p)' = Asleep(p)
    BY <1>0, <1>3 DEF CreateMutexA, threadVars, Asleep
  <2>3. MutexExclusive' /\ NoSleeperLeft'
    <3>1. /\ semaphore'[o] = IF holders'[o] = {} THEN 1 ELSE 0
          /\ \A u, v \in holders'[o] : u = v
      BY <1>3 DEF CreateMutexA
    <3>2. \A p \in Objects : p # o => UNCHANGED <<type[p], semaphore[p], holders[p]>>
      BY <1>3 DEF CreateMutexA
    <3>3. MutexExclusive'
      BY <3>1, <3>2 DEF MutexExclusive
    <3>4. NoSleeperLeft'
      BY <2>2, <3>2 DEF NoSleeperLeft
    <3>q. QED  BY <3>3, <3>4
  <2>4. NoSignalLost'
    <3>1. UNCHANGED <<pc, obj>> /\ \A p \in Objects : p # o => UNCHANGED <<type[p], state[p], reset[p]>>
      BY <1>3 DEF CreateMutexA, threadVars
    <3>q. QED  BY <2>2, <3>1 DEF NoSignalLost
  <2>q. QED  BY <2>1, <2>3, <2>4
<1>q. QED  BY <1>1, <1>2, <1>3

(* Setting and resetting an event. *)
LEMMA EventStep ==
  ASSUME Inv, NEW o \in Objects, SetEvent(o) \/ ResetEvent(o)
  PROVE  Inv'
<1> USE SyncAssumption DEF Inv, TypeOK
<1>1. CASE SetEvent(o)
  <2>1. PICK S \in SUBSET Asleep(o) : (S = {} <=> Asleep(o) = {} \/ state[o] # 0) /\ Wake(S)
    BY <1>1 DEF SetEvent
  <2>2. S \in SUBSET Threads
    BY DEF Asleep
  <2>3. /\ pc' \in [Threads -> {"run", "asleep", "woken", "late"}]
        /\ \A p \in Objects : Asleep(p)' = Asleep(p) \ S
        /\ \A t \in Threads : pc'[t] = IF t \in S THEN "woken" ELSE pc[t]
    BY <1>1, <2>1, <2>2, WakeSleepers DEF SetEvent
  <2>4. TypeOK'
    BY <1>1, <2>1, <2>3 DEF SetEvent, Asleep
  <2>5. MutexExclusive' /\ NoSleeperLeft'
    BY <1>1, <2>3 DEF SetEvent, MutexExclusive, NoSleeperLeft
  <2>6. NoSignalLost'
    <3>1. SUFFICES ASSUME NEW p \in Objects, type[p] = "event", reset[p], state'[p] = 1, Asleep(p)' # {}
                   PROVE  \E t \in Threads : pc'[t] = "woken" /\ obj'[t] = p
      BY <1>1 DEF SetEvent, NoSignalLost
    <3>2. Asleep(p) # {} /\ obj' = obj
      BY <1>1, <2>3, <3>1 DEF SetEvent
    <3>3. CASE S # {} /\ p = o
      BY <2>1, <2>3, <3>2, <3>3 DEF Asleep
    <3>4. CASE S = {} \/ p # o
      <4>1. state[p] = 1
        BY <1>1, <2>1, <3>1, <3>2, <3>4 DEF SetEvent
      <4>2. PICK t \in Threads : pc[t] = "woken" /\ obj[t] = p
        BY <3>1, <3>2, <4>1 DEF NoSignalLost
      <4>q. QED  BY <2>3, <3>2, <4>2
    <3>q. QED  BY <3>3, <3>4
  <2>q. QED  BY <2>4, <2>5, <2>6
<1>2. CASE ResetEvent(o)
  BY <1>2 DEF ResetEvent, threadVars, MutexExclusive, NoSleeperLeft, NoSignalLost, Asleep
<1>q. QED  BY <1>1, <1>2

(* Releasing: the count goes up, and from zero nobody stays asleep. *)
LEMMA ReleaseStep ==
  ASSUME Inv, NEW o \in Objects, ReleaseSemaphore(o) \/ \E t \in Threads : ReleaseMutex(t, o)
  PROVE  Inv'
<1> USE SyncAssumption DEF Inv, TypeOK
<1>0. PICK n \in Nat : n > 0 /\ Release(o, n) /\ (type[o] = "mutex" => n = 1)
  BY DEF ReleaseSemaphore, ReleaseMutex
<1> DEFINE S == IF semaphore[o] = 0 THEN Asleep(o) ELSE {}
<1>1. S \in SUBSET Threads /\ Wake(S)
  BY <1>0 DEF Release, Asleep
<1> HIDE DEF S
<1>2. /\ pc' \in [Threads -> {"run", "asleep", "woken", "late"}]
      /\ \A p \in Objects : Asleep(p)' = Asleep(p) \ S
      /\ \A t \in Threads : pc'[t] = IF t \in S THEN "woken" ELSE pc[t]
  BY <1>0, <1>1, WakeSleepers DEF Release
<1>3. /\ type[o] \in {"semaphore", "mutex"} /\ holders' \in [Objects -> SUBSET Threads]
      /\ \A p \in Objects : p # o => holders'[p] = holders[p]
  BY DEF ReleaseSemaphore, ReleaseMutex
<1>4. TypeOK'
  <2>1. semaphore' \in [Objects -> Nat] /\ UNCHANGED <<type, state, reset, obj, duration, waits, ret>>
    BY <1>0 DEF Release
  <2>2. \A t \in S : pc[t] = "asleep"
    BY DEF S, Asleep
  <2>q. QED  BY <1>2, <1>3, <2>1, <2>2
<1>5. MutexExclusive'
  <2>1. CASE ReleaseSemaphore(o)
    BY <1>0, <2>1 DEF ReleaseSemaphore, Release, MutexExclusive
  <2>2. ASSUME NEW t \in Threads, ReleaseMutex(t, o) PROVE MutexExclusive'
    <3>1. semaphore[o] \in Nat /\ semaphore'[o] = semaphore[o] + 1
      BY <2>2 DEF ReleaseMutex, Release
    <3>2. type' = type /\ type[o] = "mutex" /\ semaphore[o] = 0 /\ \A u \in holders[o] : u = t
      BY <2>2 DEF ReleaseMutex, Release, MutexExclusive
    <3>3. holders'[o] = {}
      BY <2>2, <3>2 DEF ReleaseMutex
    <3>4. \A p \in Objects : p # o => semaphore'[p] = semaphore[p] /\ holders'[p] = holders[p]
      BY <1>0, <1>3 DEF Release
    <3>q. QED  BY <3>1, <3>2, <3>3, <3>4 DEF MutexExclusive
  <2>q. QED  BY <2>1, <2>2
<1>6. NoSleeperLeft'
  <2>1. \A p \in Objects : p # o => semaphore'[p] = semaphore[p]
    BY <1>0 DEF Release
  <2>2. Asleep(o)' = {}
    BY <1>2, <1>3 DEF NoSleeperLeft, S
  <2>q. QED  BY <1>0, <1>2, <2>1, <2>2 DEF Release, NoSleeperLeft
<1>7. NoSignalLost'
  BY <1>0, <1>2 DEF Release, NoSignalLost
<1>q. QED  BY <1>4, <1>5, <1>6, <1>7

(* What becomes of the sleepers when one thread returns, or goes to sleep. *)
LEMMA Returned ==
  ASSUME TypeOK, NEW t \in Threads, NEW r, Return(t, r),
         \A u \in Threads \ {t} : obj'[u] = obj[u]
  PROVE  \A o \in Objects : Asleep(o)' = Asleep(o) \ {t}
  BY DEF TypeOK, Asleep, Return

LEMMA FellAsleep ==
  ASSUME TypeOK, NEW t \in Threads, Sleep(t), NEW p \in Objects, obj'[t] = p,
         \A u \in Threads \ {t} : obj'[u] = obj[u]
  PROVE  \A o \in Objects : o # p => Asleep(o)' = Asleep(o) \ {t}
  BY DEF TypeOK, Asleep, Sleep

(* A wait for a semaphore or mutex: it takes, or sleeps where nothing is left. *)
LEMMA SemaphoreWait ==
  ASSUME Inv, NEW t \in Threads, NEW o \in Objects, type[o] \in {"semaphore", "mutex"},
         obj'[t] = o, \A u \in Threads \ {t} : obj'[u] = obj[u],
         UNCHANGED <<type, state, reset>>,
         \/ semaphore[o] # 0 /\ Take(t, o) /\ Return(t, "object_0")
         \/ semaphore[o] = 0 /\ UNCHANGED <<semaphore, holders>> /\ (Sleep(t) \/ Return(t, "failed")),
         pc[t] # "woken" \/ obj[t] = o
  PROVE  /\ semaphore' \in [Objects -> Nat] /\ holders' \in [Objects -> SUBSET Threads]
         /\ MutexExclusive' /\ NoSleeperLeft' /\ NoSignalLost'
<1> USE SyncAssumption DEF Inv, TypeOK
<1>1. CASE semaphore[o] # 0 /\ Take(t, o) /\ Return(t, "object_0")
  <2>1. \A p \in Objects : Asleep(p)' = Asleep(p) \ {t}
    BY <1>1, Returned
  <2>2. /\ semaphore' = [semaphore EXCEPT ![o] = semaphore[o] - 1]
        /\ holders' = IF type[o] = "mutex" THEN [holders EXCEPT ![o] = holders[o] \cup {t}] ELSE holders
    BY <1>1 DEF Take
  <2>3. semaphore[o] \in Nat /\ semaphore[o] - 1 \in Nat
    BY <1>1
  <2>4. semaphore' \in [Objects -> Nat] /\ holders' \in [Objects -> SUBSET Threads]
    BY <2>2, <2>3
  <2>5. MutexExclusive'
    <3>1. SUFFICES ASSUME NEW p \in Objects, type[p] = "mutex"
                   PROVE  /\ semaphore'[p] = IF holders'[p] = {} THEN 1 ELSE 0
                          /\ \A u, v \in holders'[p] : u = v
      BY DEF MutexExclusive
    <3>2. CASE p = o
      <4>1. holders[o] = {} /\ semaphore[o] = 1
        BY <1>1, <3>1, <3>2 DEF MutexExclusive
      <4>q. QED  BY <2>2, <3>1, <3>2, <4>1
    <3>3. CASE p # o
      BY <2>2, <3>1, <3>3 DEF MutexExclusive
    <3>q. QED  BY <3>2, <3>3
  <2>6. NoSleeperLeft'
    BY <2>1, <2>2, <2>3 DEF NoSleeperLeft
  <2>7. NoSignalLost'
    BY <1>1, <2>1 DEF Return, NoSignalLost
  <2>q. QED  BY <2>4, <2>5, <2>6, <2>7
<1>2. CASE semaphore[o] = 0 /\ UNCHANGED <<semaphore, holders>> /\ (Sleep(t) \/ Return(t, "failed"))
  <2>1. \A p \in Objects : p # o => Asleep(p)' = Asleep(p) \ {t}
    BY <1>2, Returned, FellAsleep
  <2>2. \A u \in Threads : pc[u] = "woken" /\ u # t => pc'[u] = "woken" /\ obj'[u] = obj[u]
    BY <1>2 DEF Sleep, Return
  <2>3. NoSignalLost'
    BY <2>1, <2>2 DEF NoSignalLost
  <2>4. MutexExclusive' /\ NoSleeperLeft'
    BY <1>2, <2>1 DEF MutexExclusive, NoSleeperLeft
  <2>q. QED  BY <1>2, <2>3, <2>4
<1>q. QED  BY <1>1, <1>2

(* A wait for an event, that sleeps where the event is not set, or resets it. *)
LEMMA EventWait ==
  ASSUME Inv, NEW t \in Threads, NEW o \in Objects,
         obj'[t] = o, \A u \in Threads \ {t} : obj'[u] = obj[u],
         UNCHANGED <<type, semaphore, reset, holders>>,
         state' = state \/ state' = [state EXCEPT ![o] = 0],
         \/ Sleep(t) /\ type[o] = "event" /\ state[o] = 0
         \/ \E r \in {"object_0", "timeout", "failed"} : Return(t, r),
         pc[t] = "woken" => obj[t] = o /\ (reset[o] => state'[o] = 0)
  PROVE  state' \in [Objects -> 0 .. 1] /\ MutexExclusive' /\ NoSleeperLeft' /\ NoSignalLost'
<1> USE SyncAssumption DEF Inv, TypeOK
<1>1. state' \in [Objects -> 0 .. 1] /\ \A p \in Objects : state'[p] = state[p] \/ (p = o /\ state'[p] = 0)
  OBVIOUS
<1>2. \A p \in Objects : Asleep(p)' \subseteq Asleep(p)
                          \/ (p = o /\ type[o] = "event" /\ state[o] = 0)
  BY Returned, FellAsleep
<1>3. \A u \in Threads : pc[u] = "woken" /\ u # t => pc'[u] = "woken" /\ obj'[u] = obj[u]
  BY DEF Sleep, Return
<1>4. MutexExclusive' /\ NoSleeperLeft'
  BY <1>2 DEF MutexExclusive, NoSleeperLeft
<1>5. NoSignalLost'
  <2>1. SUFFICES ASSUME NEW p \in Objects, type[p] = "event", reset[p], state'[p] = 1, Asleep(p)' # {}
                 PROVE  \E u \in Threads : pc'[u] = "woken" /\ obj'[u] = p
    BY DEF NoSignalLost
  <2>2. state[p] = 1 /\ Asleep(p) # {}
    BY <1>1, <1>2, <2>1
  <2>3. PICK u \in Threads : pc[u] = "woken" /\ obj[u] = p
    BY <2>1, <2>2 DEF NoSignalLost
  <2>4. u # t
    BY <2>1, <2>3
  <2>q. QED  BY <1>3, <2>3, <2>4
<1>q. QED  BY <1>1, <1>4, <1>5


(* WaitForSingleObject. *)
LEMMA WaitStep ==
  ASSUME Inv, NEW t \in Threads, WaitForSingleObject(t)
  PROVE  Inv'
<1> USE SyncAssumption DEF Inv
<1>1. PICK o \in Objects, d \in Durations :
        /\ obj' = [obj EXCEPT ![t] = o] /\ duration' = [duration EXCEPT ![t] = d]
        /\ WaitEvent(t, o, d) \/ WaitSemaphore(t, o, d)
  BY DEF WaitForSingleObject
<1>2. /\ pc[t] = "run" /\ obj'[t] = o /\ \A u \in Threads \ {t} : obj'[u] = obj[u]
      /\ obj' \in [Threads -> Objects \cup {NULL}]
      /\ duration' \in [Threads -> {"poll", "infinite", "timed"}]
      /\ waits' \in [Threads -> Nat]
  BY <1>1 DEF WaitForSingleObject, TypeOK
<1>3. type' = type /\ reset' = reset /\ type[o] # "none"
  BY <1>1 DEF WaitEvent, WaitSemaphore
<1>4. /\ pc' \in [Threads -> {"run", "asleep", "woken", "late"}]
      /\ ret' \in [Threads -> {"object_0", "timeout", "failed"}]
      /\ \A u \in Threads \ {t} : pc'[u] = pc[u]
  BY <1>1 DEF WaitEvent, WaitSemaphore, Return, Sleep, TypeOK
<1>5. CASE WaitEvent(t, o, d)
  <2>1. state' = state \/ state' = [state EXCEPT ![o] = 0]
    BY <1>5 DEF WaitEvent
  <2>2. \/ Sleep(t) /\ type[o] = "event" /\ state[o] = 0
        \/ \E r \in {"object_0", "timeout", "failed"} : Return(t, r)
    BY <1>5 DEF WaitEvent
  <2>3. UNCHANGED <<type, semaphore, reset, holders>>
    BY <1>5 DEF WaitEvent
  <2>4. state' \in [Objects -> 0 .. 1] /\ MutexExclusive' /\ NoSleeperLeft' /\ NoSignalLost'
    BY <1>2, <2>1, <2>2, <2>3, EventWait
  <2>q. QED  BY <1>2, <1>3, <1>4, <2>3, <2>4 DEF TypeOK
<1>6. CASE WaitSemaphore(t, o, d)
  <2>1. /\ UNCHANGED <<type, state, reset>> /\ type[o] \in {"semaphore", "mutex"}
        /\ \/ semaphore[o] # 0 /\ Take(t, o) /\ Return(t, "object_0")
           \/ semaphore[o] = 0 /\ UNCHANGED <<semaphore, holders>> /\ (Sleep(t) \/ Return(t, "failed"))
    BY <1>6 DEF WaitSemaphore
  <2>2. /\ semaphore' \in [Objects -> Nat] /\ holders' \in [Objects -> SUBSET Threads]
        /\ MutexExclusive' /\ NoSleeperLeft' /\ NoSignalLost'
    BY <1>2, <2>1, SemaphoreWait
  <2>q. QED  BY <1>2, <1>3, <1>4, <2>1, <2>2 DEF TypeOK
<1>q. QED  BY <1>1, <1>5, <1>6

(* A wait that is given up, and the return of a sleeper. *)
LEMMA TimeOutStep ==
  ASSUME Inv, NEW t \in Threads, TimeOut(t)
  PROVE  Inv'
<1> USE SyncAssumption DEF Inv, TypeOK
<1>1. /\ \A o \in Objects : Asleep(o)' \subseteq Asleep(o)
      /\ \A u \in Threads : pc[u] = "woken" => pc'[u] = "woken"
      /\ UNCHANGED <<objVars, obj>>
  BY DEF TimeOut, Asleep
<1>2. TypeOK'
  BY DEF TimeOut, objVars
<1>3. MutexExclusive' /\ NoSleeperLeft'
  BY <1>1 DEF objVars, MutexExclusive, NoSleeperLeft
<1>4. NoSignalLost'
  BY <1>1 DEF objVars, NoSignalLost
<1>q. QED  BY <1>2, <1>3, <1>4

LEMMA ResumeStep ==
  ASSUME Inv, NEW t \in Threads, Resume(t)
  PROVE  Inv'
<1> USE SyncAssumption DEF Inv
<1> DEFINE o == obj[t]
<1>1. /\ o \in Objects /\ obj' = obj /\ UNCHANGED <<duration, waits>>
      /\ pc[t] \in {"woken", "late"}
  BY DEF Resume, TypeOK
<1>2. EventWoken(t, o) \/ SemaphoreWoken(t, o) \/ (pc[t] = "late" /\ Late(t, o))
  BY DEF Resume
<1> HIDE DEF o
<1>3. type' = type /\ reset' = reset
  BY <1>2 DEF EventWoken, SemaphoreWoken, Late
<1>4. /\ pc' \in [Threads -> {"run", "asleep", "woken", "late"}]
      /\ ret' \in [Threads -> {"object_0", "timeout", "failed"}]
      /\ \A u \in Threads \ {t} : pc'[u] = pc[u]
  BY <1>2 DEF EventWoken, SemaphoreWoken, Late, Return, Sleep, TypeOK
<1>5. obj[t] = o
  BY DEF o
<1>6. CASE SemaphoreWoken(t, o)
  <2>1. /\ UNCHANGED <<type, state, reset>> /\ type[o] \in {"semaphore", "mutex"}
        /\ \/ semaphore[o] # 0 /\ Take(t, o) /\ Return(t, "object_0")
           \/ semaphore[o] = 0 /\ UNCHANGED <<semaphore, holders>> /\ (Sleep(t) \/ Return(t, "failed"))
    BY <1>6 DEF SemaphoreWoken
  <2>2. /\ semaphore' \in [Objects -> Nat] /\ holders' \in [Objects -> SUBSET Threads]
        /\ MutexExclusive' /\ NoSleeperLeft' /\ NoSignalLost'
    BY <1>1, <1>5, <2>1, SemaphoreWait
  <2>q. QED  BY <1>1, <1>3, <1>4, <1>5, <2>1, <2>2 DEF TypeOK
<1>7. CASE EventWoken(t, o) \/ (pc[t] = "late" /\ Late(t, o))
  <2>1. /\ state' = state \/ state' = [state EXCEPT ![o] = 0]
        /\ \E r \in {"object_0", "timeout", "failed"} : Return(t, r)
        /\ UNCHANGED <<type, semaphore, reset, holders>>
    BY <1>7 DEF EventWoken, Late
  <2>2. pc[t] = "woken" => (reset[o] => state'[o] = 0)
    BY <1>1, <1>7 DEF EventWoken, TypeOK
  <2>3. state' \in [Objects -> 0 .. 1] /\ MutexExclusive' /\ NoSleeperLeft' /\ NoSignalLost'
    BY <1>1, <1>5, <2>1, <2>2, EventWait
  <2>q. QED  BY <1>1, <1>3, <1>4, <2>1, <2>3 DEF TypeOK
<1>q. QED  BY <1>2, <1>6, <1>7

(* All of it, in every state.                                              *)
THEOREM SyncInvariant == Spec => []Inv
<1>1. Init => Inv
  BY InitInv
<1>2. Inv /\ [Next]_vars => Inv'
  <2> SUFFICES ASSUME Inv, [Next]_vars PROVE Inv'
    OBVIOUS
  <2>1. CASE UNCHANGED vars
    <3>1. UNCHANGED <<type, state, semaphore, reset, holders, pc, obj, duration, waits, ret>>
      BY <2>1 DEF vars, objVars, threadVars
    <3>2. TypeOK' /\ MutexExclusive'
      BY <3>1 DEF Inv, TypeOK, MutexExclusive
    <3>3. \A o \in Objects : Asleep(o)' = Asleep(o)
      BY <3>1 DEF Asleep
    <3>4. NoSleeperLeft' /\ NoSignalLost'
      BY <3>1, <3>3 DEF Inv, NoSleeperLeft, NoSignalLost
    <3>q. QED  BY <3>2, <3>4 DEF Inv
  <2>2. CASE Next
    BY <2>2, CreateStep, EventStep, ReleaseStep, WaitStep, TimeOutStep, ResumeStep DEF Next
  <2>q. QED  BY <2>1, <2>2
<1>q. QED  BY <1>1, <1>2, PTL DEF Spec

(* TypeOK: no semaphore is taken below zero.                               *)
THEOREM TypeCorrect == Spec => []TypeOK
<1>1. Inv => TypeOK
  BY DEF Inv
<1>q. QED  BY <1>1, SyncInvariant, PTL

(* MutexExclusive: a mutex made of a semaphore excludes.                   *)
THEOREM MutexesExclude == Spec => []MutexExclusive
<1>1. Inv => MutexExclusive
  BY DEF Inv
<1>q. QED  BY <1>1, SyncInvariant, PTL

(* NoSleeperLeft: nobody sleeps at a semaphore that has something to give. *)
THEOREM SemaphoresWake == Spec => []NoSleeperLeft
<1>1. Inv => NoSleeperLeft
  BY DEF Inv
<1>q. QED  BY <1>1, SyncInvariant, PTL

(* NoSignalLost: a set event has somebody on his way to reset it.          *)
THEOREM EventsWake == Spec => []NoSignalLost
<1>1. Inv => NoSignalLost
  BY DEF Inv
<1>q. QED  BY <1>1, SyncInvariant, PTL

(* NoneForgotten: neither kind of object leaves a thread asleep that it    *)
(* could let go.                                                           *)
THEOREM NobodyForgotten == Spec => []NoneForgotten
<1>1. NoSleeperLeft /\ NoSignalLost => NoneForgotten
  BY DEF NoneForgotten
<1>q. QED  BY <1>1, SemaphoresWake, EventsWake, PTL
=============================================================================
