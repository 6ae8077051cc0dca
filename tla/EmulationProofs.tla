-------------------------- MODULE EmulationProofs --------------------------
(***************************************************************************)
(* Theorems about three parts of the win32 emulation that share no state:  *)
(* a critical section is never left locked, the list of the modules is     *)
(* what is loaded, and the registry keeps what was written and saved.  Each*)
(* part is proved from its own invariant, for every value of its constants.*)
(***************************************************************************)
EXTENDS CriticalSection, ModuleList, Registry,
        FiniteSetTheorems, SequenceTheorems, WellFoundedInduction, TLAPS

---------------------------------------------------------------------------
(* Critical sections, for any number of threads and visits, recursion and  *)
(* late initialization included.  Mutual exclusion is not proved: it does  *)
(* not hold.                                                               *)

(* Nothing has been entered before there is a struct, and who leaves has   *)
(* entered.                                                                *)
Started ==
  /\ c = NULL => \A t \in Threads : pc[t] \in {"out", "init"} /\ nest[t] = 0
  /\ \A t \in Threads : pc[t] \in {"leave", "clear", "unlock"} => nest[t] > 0

(* Thread t will still test or clear `locked' of the section. *)
WillLeave(t) ==
  /\ cs[t] = c
  /\ pc[t] \in {"setid", "leave", "clear"} \/ (nest[t] > 0 /\ pc[t] # "unlock")

(* The section is locked only as long as somebody will leave it ... *)
LockedByOne == c # NULL /\ locked[c] => \E t \in Threads : WillLeave(t)

(* ... and its mutex held only as long as it is locked, or is about to be  *)
(* locked or freed.                                                        *)
HeldIfLocked ==
  c # NULL /\ mutex[c] # NULL /\ ~locked[c] =>
    \E t \in Threads : cs[t] = c /\ pc[t] \in {"set", "unlock"}

SectionInv == TypeOK /\ Started /\ LockedByOne /\ HeldIfLocked

(* There is no section at the start. *)
LEMMA SectionStart == Init => SectionInv
  BY CritAssumption DEF Init, SectionInv, TypeOK, Started, LockedByOne, HeldIfLocked

(* A new struct is neither locked nor held. *)
LEMMA NewStructStep ==
  ASSUME SectionInv, NEW s \in Structs, NewStruct(s)
  PROVE  /\ c' = s /\ s # NULL /\ fresh' \subseteq Structs
         /\ locked' \in [Structs -> BOOLEAN]
         /\ id' \in [Structs -> Threads \cup {NULL}]
         /\ mutex' \in [Structs -> Threads \cup {NULL}]
         /\ LockedByOne' /\ HeldIfLocked'
<1>1. c' = s /\ s # NULL /\ fresh' \subseteq Structs
  BY CritAssumption DEF NewStruct, SectionInv, TypeOK
<1>2. /\ locked' \in [Structs -> BOOLEAN]
      /\ mutex' \in [Structs -> Threads \cup {NULL}]
      /\ ~locked'[s] /\ mutex'[s] = NULL
  BY DEF NewStruct, SectionInv, TypeOK
<1>3. id' \in [Structs -> Threads \cup {NULL}]
  BY DEF NewStruct, SectionInv, TypeOK
<1>4. LockedByOne' /\ HeldIfLocked'
  BY <1>1, <1>2 DEF LockedByOne, HeldIfLocked
<1>q. QED  BY <1>1, <1>2, <1>3, <1>4

(* Initializing and deleting, when nobody is inside. *)
LEMMA OwnerSteps ==
  ASSUME SectionInv, InitializeCriticalSection \/ DeleteCriticalSection
  PROVE  SectionInv'
<1>1. CASE InitializeCriticalSection
  <2>1. PICK s \in Structs : NewStruct(s)
    BY <1>1 DEF InitializeCriticalSection
  <2>2. /\ c' = s /\ s # NULL /\ fresh' \subseteq Structs
        /\ locked' \in [Structs -> BOOLEAN]
        /\ id' \in [Structs -> Threads \cup {NULL}]
        /\ mutex' \in [Structs -> Threads \cup {NULL}]
        /\ LockedByOne' /\ HeldIfLocked'
    BY <2>1, NewStructStep
  <2>3. TypeOK' /\ Started'
    BY <1>1, <2>2 DEF InitializeCriticalSection, SectionInv, TypeOK, Started, threadVars
  <2> QED  BY <2>2, <2>3 DEF SectionInv
<1>2. CASE DeleteCriticalSection
  <2>1. TypeOK'
    BY <1>2 DEF DeleteCriticalSection, SectionInv, TypeOK, threadVars
  <2>2. Started' /\ LockedByOne' /\ HeldIfLocked'
    BY <1>2 DEF DeleteCriticalSection, SectionInv, TypeOK, threadVars, Started,
                LockedByOne, HeldIfLocked, WillLeave
  <2> QED  BY <2>1, <2>2 DEF SectionInv
<1>q. QED  BY <1>1, <1>2

(* Each step of a thread keeps the types, and c once there is one. *)
LEMMA ThreadTypes ==
  ASSUME SectionInv, NEW t \in Threads, Enter(t) \/ Leave(t) \/ Inside(t)
  PROVE  TypeOK' /\ Started'
<1> USE CritAssumption DEF SectionInv, TypeOK, Started, Goto, objVars, threadVars
<1>1. CASE Enter(t)  BY <1>1 DEF Enter
<1>2. CASE Leave(t)  BY <1>2 DEF Leave
<1>3. CASE EnterInit(t)
  <2>1. PICK s \in Structs : NewStruct(s)
    BY <1>3 DEF EnterInit
  <2>3. /\ c' = s /\ s # NULL /\ fresh' \subseteq Structs
        /\ locked' \in [Structs -> BOOLEAN]
        /\ id' \in [Structs -> Threads \cup {NULL}]
        /\ mutex' \in [Structs -> Threads \cup {NULL}]
    BY <1>3, <2>1, NewStructStep DEF EnterInit
  <2> QED  BY <1>3, <2>3 DEF EnterInit
<1>4. CASE EnterReload(t)  BY <1>4 DEF EnterReload
<1>5. CASE EnterLocked(t)  BY <1>5 DEF EnterLocked
<1>6. CASE EnterMine(t)    BY <1>6 DEF EnterMine
<1>7. CASE EnterLock(t)    BY <1>7 DEF EnterLock
<1>8. CASE EnterSet(t)     BY <1>8 DEF EnterSet
<1>9. CASE EnterSetId(t)   BY <1>9 DEF EnterSetId
<1>10. CASE LeaveLocked(t) BY <1>10 DEF LeaveLocked
<1>11. CASE LeaveClear(t)  BY <1>11 DEF LeaveClear
<1>12. CASE LeaveUnlock(t) BY <1>12 DEF LeaveUnlock
<1>q. QED
  BY <1>1, <1>2, <1>3, <1>4, <1>5, <1>6, <1>7, <1>8, <1>9, <1>10, <1>11, <1>12
     DEF Inside

(* A thread that has set `locked' stays responsible for it until it clears *)
(* it; and who has cleared it frees the mutex.                             *)
LEMMA ThreadLocks ==
  ASSUME SectionInv, NEW t \in Threads, Enter(t) \/ Leave(t) \/ Inside(t)
  PROVE  LockedByOne' /\ HeldIfLocked'
<1> USE CritAssumption DEF SectionInv, TypeOK, Started, Goto, objVars, threadVars,
                           LockedByOne, HeldIfLocked, WillLeave
<1>1. CASE Enter(t)  BY <1>1 DEF Enter
<1>2. CASE Leave(t)  BY <1>2 DEF Leave
<1>3. CASE EnterInit(t)
  <2>1. PICK s \in Structs : NewStruct(s)
    BY <1>3 DEF EnterInit
  <2> QED
    BY <1>3, <2>1, NewStructStep DEF EnterInit
<1>4. CASE EnterReload(t)  BY <1>4 DEF EnterReload
<1>5. CASE EnterLocked(t)  BY <1>5 DEF EnterLocked
<1>6. CASE EnterMine(t)    BY <1>6 DEF EnterMine
<1>7. CASE EnterLock(t)    BY <1>7 DEF EnterLock
<1>8. CASE EnterSet(t)     BY <1>8 DEF EnterSet
<1>9. CASE EnterSetId(t)   BY <1>9 DEF EnterSetId
<1>10. CASE LeaveLocked(t) BY <1>10 DEF LeaveLocked
<1>11. CASE LeaveClear(t)  BY <1>11 DEF LeaveClear
<1>12. CASE LeaveUnlock(t) BY <1>12 DEF LeaveUnlock
<1>q. QED
  BY <1>1, <1>2, <1>3, <1>4, <1>5, <1>6, <1>7, <1>8, <1>9, <1>10, <1>11, <1>12
     DEF Inside

(* The invariant of a critical section. *)
THEOREM SectionInvariant == Spec => []SectionInv
<1>1. SectionInv /\ [Next]_vars => SectionInv'
  <2> SUFFICES ASSUME SectionInv, [Next]_vars PROVE SectionInv'
    OBVIOUS
  <2>1. CASE InitializeCriticalSection \/ DeleteCriticalSection
    BY <2>1, OwnerSteps
  <2>2. ASSUME NEW t \in Threads, Enter(t) \/ Leave(t) \/ Inside(t) PROVE SectionInv'
    BY <2>2, ThreadTypes, ThreadLocks DEF SectionInv
  <2>3. CASE UNCHANGED vars
    BY <2>3 DEF vars, objVars, threadVars, SectionInv, TypeOK, Started, LockedByOne,
                HeldIfLocked, WillLeave
  <2> QED  BY <2>1, <2>2, <2>3 DEF Next
<1>q. QED  BY SectionStart, <1>1, PTL DEF Spec

(* A section that everybody has left lets the next thread in. *)
THEOREM SectionNeverStuck == Spec => []NeverStuck
<1>1. SectionInv => NeverStuck
  BY DEF SectionInv, TypeOK, LockedByOne, HeldIfLocked, WillLeave, NeverStuck
<1>q. QED  BY SectionInvariant, <1>1, PTL

(* TypeOK: no thread is where it has not entered, no count below zero.     *)
THEOREM SectionTypesCorrect == Spec => []TypeOK
<1>1. SectionInv => TypeOK
  BY DEF SectionInv
<1>q. QED  BY SectionInvariant, <1>1, PTL

---------------------------------------------------------------------------
(* Modules: the calls of LoadLibrary, FreeLibrary and DllMain that have    *)
(* not returned lie on a stack, which says who still needs which module.   *)

FrameType == [op : {"import", "resolve", "attach", "open", "close"} \cup Detaching \cup Driving,
              mod : Modules \cup {NONE}, todo : SUBSET Dlls, drv : Drivers \cup {NONE}]

Importer(f) == f.op \in {"import", "resolve"}
Bottom      == {"open", "close", "collect"} \cup Driving

(* What may lie on the stack st, when n modules were created, the drivers  *)
(* have the modules opn and the modules ovr were taken from somebody.      *)
Named(f, n, opn, ovr) ==
  /\ f.mod = NONE <=> f.op \in {"open", "close"}
  /\ f.mod <= n
  /\ f.mod = NONE => f.drv \in Drivers /\ opn[f.drv] = NONE
  /\ f.mod # NONE /\ f.op \notin Driving => f.mod \in ovr \/ \A d \in Drivers : opn[d] # f.mod

Framed(st, n, opn, ovr) ==
  /\ st \in Seq(FrameType)
  /\ \A k \in DOMAIN st :
       /\ k = 1 <=> st[k].op \in Bottom
       /\ st[k].op = "free" => st[k - 1].op \notin {"open", "resolve"}
       /\ Named(st[k], n, opn, ovr)
  /\ \A j, k \in DOMAIN st : st[j].mod = st[k].mod /\ Importer(st[k]) => j = k
  /\ \A j, k \in DOMAIN st : j < k /\ st[j].mod = st[k].mod => st[k].mod \in ovr

(* The call on top of a stack has returned.                                *)
LEMMA BelowIs ==
  ASSUME NEW S, NEW st \in Seq(S), st # <<>>
  PROVE  /\ Len(st) \in Nat \ {0} /\ DOMAIN st = 1 .. Len(st)
         /\ SubSeq(st, 1, Len(st) - 1) \in Seq(S)
         /\ Len(SubSeq(st, 1, Len(st) - 1)) = Len(st) - 1
         /\ DOMAIN SubSeq(st, 1, Len(st) - 1) = 1 .. Len(st) - 1
         /\ \A k \in 1 .. Len(st) - 1 : SubSeq(st, 1, Len(st) - 1)[k] = st[k]
<1> DEFINE n == Len(st) - 1
<1>1. /\ Len(st) \in Nat \ {0} /\ DOMAIN st = 1 .. Len(st)
      /\ n \in Nat /\ \A i \in 1 .. n : st[i] \in S /\ 1 + i - 1 = i
  OBVIOUS
<1> HIDE DEF n
<1>2. /\ SubSeq(st, 1, n) \in Seq(S)
      /\ Len(SubSeq(st, 1, n)) = IF 1 <= n THEN n - 1 + 1 ELSE 0
      /\ \A i \in 1 .. n - 1 + 1 : SubSeq(st, 1, n)[i] = st[1 + i - 1]
  BY <1>1, SubSeqProperties
<1>3. Len(SubSeq(st, 1, n)) = n /\ DOMAIN SubSeq(st, 1, n) = 1 .. n /\ n - 1 + 1 = n
  BY <1>1, <1>2
<1>4. \A i \in 1 .. n : SubSeq(st, 1, n)[i] = st[i]
  BY <1>1, <1>2, <1>3
<1>q. QED  BY <1>1, <1>2, <1>3, <1>4 DEF n

(* What is left of a stack when the call on top returns.                   *)
LEMMA FramedBelow ==
  ASSUME NEW st, st # <<>>, NEW n, NEW opn, NEW ovr, Framed(st, n, opn, ovr)
  PROVE  Framed(SubSeq(st, 1, Len(st) - 1), n, opn, ovr)
<1>1. st \in Seq(FrameType)
  BY DEF Framed
<1> DEFINE b == SubSeq(st, 1, Len(st) - 1)
<1>2. /\ Len(st) \in Nat \ {0} /\ DOMAIN st = 1 .. Len(st)
      /\ b \in Seq(FrameType) /\ DOMAIN b = 1 .. Len(st) - 1
      /\ \A k \in 1 .. Len(st) - 1 : b[k] = st[k]
  BY <1>1, BelowIs
<1> HIDE DEF b
<1>3. \A k \in DOMAIN b : k \in DOMAIN st /\ b[k] = st[k] /\ (k # 1 => b[k - 1] = st[k - 1])
  BY <1>2
<1>4. \A k \in DOMAIN b :
        /\ k = 1 <=> b[k].op \in Bottom
        /\ b[k].op = "free" => b[k - 1].op \notin {"open", "resolve"}
        /\ Named(b[k], n, opn, ovr)
  <2> TAKE k \in DOMAIN b
  <2>1. /\ k = 1 <=> b[k].op \in Bottom
        /\ Named(b[k], n, opn, ovr)
    BY <1>3 DEF Framed
  <2>2. b[k].op = "free" => k # 1
    BY <2>1 DEF Bottom, Driving
  <2>3. b[k].op = "free" => b[k - 1].op \notin {"open", "resolve"}
    BY <1>3, <2>2 DEF Framed
  <2> QED  BY <2>1, <2>3
<1>5. /\ \A j, k \in DOMAIN b : b[j].mod = b[k].mod /\ Importer(b[k]) => j = k
      /\ \A j, k \in DOMAIN b : j < k /\ b[j].mod = b[k].mod => b[k].mod \in ovr
  BY <1>3 DEF Framed
<1>6. Framed(b, n, opn, ovr)
  BY <1>2, <1>4, <1>5 DEF Framed
<1>q. QED  BY <1>6 DEF b

(* A call is made.  Nobody else who is at its module is importing it, or   *)
(* is left without knowing.                                                *)
LEMMA FramedOn ==
  ASSUME NEW st, NEW n, NEW opn, NEW ovr, Framed(st, n, opn, ovr),
         NEW f \in FrameType, Named(f, n, opn, ovr),
         st = <<>> <=> f.op \in Bottom,
         f.op = "free" => st[Len(st)].op \notin {"open", "resolve"},
         \A k \in DOMAIN st : st[k].mod = f.mod =>
            f.mod \in ovr /\ ~Importer(f) /\ ~Importer(st[k])
  PROVE  Framed(Append(st, f), n, opn, ovr)
<1> DEFINE w == Append(st, f)
<1>1. /\ st \in Seq(FrameType) /\ Len(st) \in Nat /\ DOMAIN st = 1 .. Len(st)
      /\ st = <<>> <=> Len(st) = 0
  BY DEF Framed
<1>2. /\ w \in Seq(FrameType) /\ DOMAIN w = 1 .. Len(st) + 1
      /\ w[Len(st) + 1] = f /\ \A k \in DOMAIN st : w[k] = st[k]
  BY <1>1, AppendProperties
<1> HIDE DEF w
<1>3. \A k \in DOMAIN w : k \in DOMAIN st \/ k = Len(st) + 1
  BY <1>1, <1>2
<1>4. ASSUME NEW k \in DOMAIN w
      PROVE  /\ k = 1 <=> w[k].op \in Bottom
             /\ w[k].op = "free" => w[k - 1].op \notin {"open", "resolve"}
             /\ Named(w[k], n, opn, ovr)
  <2>1. CASE k \in DOMAIN st
    <3>1. w[k] = st[k] /\ (k = 1 <=> w[k].op \in Bottom) /\ Named(w[k], n, opn, ovr)
      BY <1>2, <2>1 DEF Framed
    <3>2. w[k].op = "free" => k - 1 \in DOMAIN st
      BY <1>1, <2>1, <3>1 DEF Bottom, Driving
    <3>3. w[k].op = "free" => w[k - 1].op \notin {"open", "resolve"}
      BY <1>2, <2>1, <3>1, <3>2 DEF Framed
    <3> QED  BY <3>1, <3>3
  <2>2. CASE k = Len(st) + 1
    <3>1. w[k] = f /\ (k = 1 <=> f.op \in Bottom)
      BY <1>1, <1>2, <2>2
    <3>2. f.op = "free" => Len(st) \in DOMAIN st /\ k - 1 = Len(st)
      BY <1>1, <2>2, <3>1 DEF Bottom, Driving
    <3>3. f.op = "free" => w[k - 1] = st[Len(st)]
      BY <1>2, <3>2
    <3> QED  BY <3>1, <3>3
  <2> QED  BY <1>3, <2>1, <2>2
<1>5. ASSUME NEW j \in DOMAIN w, NEW k \in DOMAIN w, w[j].mod = w[k].mod, Importer(w[k])
      PROVE  j = k
  BY <1>1, <1>2, <1>3, <1>5 DEF Framed
<1>6. ASSUME NEW j \in DOMAIN w, NEW k \in DOMAIN w, j < k, w[j].mod = w[k].mod
      PROVE  w[k].mod \in ovr
  <2>1. j \in DOMAIN st
    BY <1>1, <1>2, <1>3, <1>6
  <2> QED  BY <1>1, <1>2, <1>3, <1>6, <2>1 DEF Framed
<1>7. Framed(w, n, opn, ovr)
  BY <1>2, <1>4, <1>5, <1>6 DEF Framed
<1>q. QED  BY <1>7 DEF w

(* The call on top goes on as another one about the same module.           *)
LEMMA FramedAs ==
  ASSUME NEW st, st # <<>>, NEW n, NEW opn, NEW ovr, Framed(st, n, opn, ovr),
         NEW f \in FrameType, f.op # "free", Named(f, n, opn, ovr),
         f.mod = st[Len(st)].mod,
         f.op \in Bottom <=> st[Len(st)].op \in Bottom,
         Importer(f) => Importer(st[Len(st)])
  PROVE  Framed(Append(SubSeq(st, 1, Len(st) - 1), f), n, opn, ovr)
<1>1. st \in Seq(FrameType)
  BY DEF Framed
<1> DEFINE b == SubSeq(st, 1, Len(st) - 1)
<1>2. /\ Len(st) \in Nat \ {0} /\ DOMAIN st = 1 .. Len(st)
      /\ b \in Seq(FrameType) /\ Len(b) = Len(st) - 1 /\ DOMAIN b = 1 .. Len(st) - 1
      /\ \A k \in 1 .. Len(st) - 1 : b[k] = st[k]
  BY <1>1, BelowIs
<1>3. Framed(b, n, opn, ovr)
  BY FramedBelow
<1> HIDE DEF b
<1>4. b = <<>> <=> f.op \in Bottom
  <2>1. b = <<>> <=> Len(st) = 1
    BY <1>2
  <2>2. Len(st) = 1 <=> st[Len(st)].op \in Bottom
    BY <1>2 DEF Framed
  <2> QED  BY <2>1, <2>2
<1>5. \A k \in DOMAIN b : st[k] = b[k] /\ k \in DOMAIN st /\ Len(st) \in DOMAIN st /\ k < Len(st)
  BY <1>2
<1>6. \A k \in DOMAIN b : b[k].mod = f.mod => f.mod \in ovr /\ ~Importer(f) /\ ~Importer(b[k])
  BY <1>5 DEF Framed
<1>7. Framed(Append(b, f), n, opn, ovr)
  BY <1>3, <1>4, <1>6, FramedOn
<1>q. QED  BY <1>7 DEF b

(* More modules are created or taken, and drivers give theirs up.          *)
LEMMA FramedLater ==
  ASSUME NEW st, NEW n \in Int, NEW opn, NEW ovr, Framed(st, n, opn, ovr),
         NEW m \in Int, n <= m, NEW opm, NEW ovm, ovr \subseteq ovm,
         \A d \in Drivers : opm[d] = opn[d] \/ opm[d] = NONE
  PROVE  Framed(st, m, opm, ovm)
<1>1. ASSUME NEW f \in FrameType, Named(f, n, opn, ovr) PROVE Named(f, m, opm, ovm)
  BY <1>1, ModuleAssumption DEF Named, FrameType, Modules, NONE
<1>2. \A k \in DOMAIN st : st[k] \in FrameType
  BY DEF Framed
<1>q. QED  BY <1>1, <1>2 DEF Framed

(* Nothing is on an empty stack.                                           *)
LEMMA NothingFramed ==
  ASSUME NEW n, NEW opn, NEW ovr
  PROVE  Framed(<<>>, n, opn, ovr)
  BY DEF Framed
---------------------------------------------------------------------------
InList(l) == {l[i] : i \in DOMAIN l}
Unique(l) == \A i, j \in DOMAIN l : l[i] = l[j] => i = j

(* A set of naturals that is not empty has a least element.                *)
LEMMA LeastOf ==
  ASSUME NEW S, S \subseteq Nat, S # {}
  PROVE  \E x \in S : \A y \in S : x <= y
<1>1. PICK x \in S : \A y \in S : ~ (<<y, x>> \in OpToRel(<, Nat))
  BY NatLessThanWellFounded, WFMin
<1>2. \A y \in S : ~ (y < x)
  BY <1>1 DEF OpToRel
<1>q. QED  BY <1>2

(* The modules of a list without its last m.                               *)
LEMMA WithoutSeq ==
  ASSUME NEW S, NEW s \in Seq(S), NEW m
  PROVE  Without(s, m) \in Seq(S)
<1> DEFINE i == CHOOSE i \in DOMAIN s : s[i] = m /\ \A j \in i + 1 .. Len(s) : s[j] # m
           w == [k \in 1 .. Len(s) - 1 |-> IF k < i THEN s[k] ELSE s[k + 1]]
<1>1. Without(s, m) = IF \E j \in DOMAIN s : s[j] = m THEN w ELSE s
  BY DEF Without
<1>2. CASE \E j \in DOMAIN s : s[j] = m
  <2>1. Len(s) - 1 \in Nat /\ \A k \in 1 .. Len(s) - 1 : s[k] \in S /\ s[k + 1] \in S
    BY <1>2
  <2> HIDE DEF i
  <2>2. w \in [1 .. Len(s) - 1 -> S]
    BY <2>1
  <2>3. w \in Seq(S)
    BY <2>1, <2>2, SeqDef
  <2> QED  BY <1>1, <1>2, <2>3
<1>3. CASE ~ \E j \in DOMAIN s : s[j] = m
  BY <1>1, <1>3
<1>q. QED  BY <1>2, <1>3

(* remove_from_list takes one element out of a list that has each once.    *)
LEMMA WithoutOnce ==
  ASSUME NEW S, NEW s \in Seq(S), NEW m \in InList(s), Unique(s)
  PROVE  Unique(Without(s, m)) /\ InList(Without(s, m)) = InList(s) \ {m}
<1> DEFINE Last(i) == s[i] = m /\ \A j \in i + 1 .. Len(s) : s[j] # m
           i == CHOOSE i \in DOMAIN s : Last(i)
           w == [k \in 1 .. Len(s) - 1 |-> IF k < i THEN s[k] ELSE s[k + 1]]
<1>1. Len(s) \in Nat /\ DOMAIN s = 1 .. Len(s)
  OBVIOUS
<1>2. PICK a \in DOMAIN s : s[a] = m
  BY DEF InList
<1>3. Last(a)
  <2>1. \A j \in a + 1 .. Len(s) : j \in DOMAIN s /\ j # a
    BY <1>1
  <2> QED  BY <1>2, <2>1 DEF Unique
<1>4. i \in DOMAIN s /\ Last(i)
  BY <1>3
<1>5. Without(s, m) = w
  BY <1>2 DEF Without
<1> HIDE DEF i
<1>6. DOMAIN w = 1 .. Len(s) - 1
  OBVIOUS
<1>7. \A k \in DOMAIN w : w[k] = s[IF k < i THEN k ELSE k + 1]
  OBVIOUS
<1> HIDE DEF w
<1>8. \A k \in DOMAIN w : (IF k < i THEN k ELSE k + 1) \in DOMAIN s \ {i}
  BY <1>1, <1>4, <1>6
<1>9. Unique(w)
  <2>1. \A k, l \in DOMAIN w : (IF k < i THEN k ELSE k + 1) = (IF l < i THEN l ELSE l + 1) => k = l
    BY <1>1, <1>4, <1>6
  <2> QED  BY <1>7, <1>8, <2>1 DEF Unique
<1>10. InList(w) = InList(s) \ {m}
  <2>1. ASSUME NEW x \in InList(w) PROVE x \in InList(s) \ {m}
    <3>1. PICK k \in DOMAIN w : x = w[k]
      BY <2>1 DEF InList
    <3>2. PICK l \in DOMAIN s \ {i} : x = s[l]
      BY <1>7, <1>8, <3>1
    <3>3. x # m
      BY <1>4, <3>2 DEF Unique
    <3> QED  BY <3>2, <3>3 DEF InList
  <2>2. ASSUME NEW x \in InList(s) \ {m} PROVE x \in InList(w)
    <3>1. PICK l \in DOMAIN s : x = s[l]
      BY <2>2 DEF InList
    <3>2. l # i
      BY <1>4, <2>2, <3>1
    <3>3. \E k \in DOMAIN w : l = IF k < i THEN k ELSE k + 1
      <4>1. CASE l < i
        BY <1>1, <1>4, <1>6, <4>1
      <4>2. CASE l > i
        <5>1. l - 1 \in DOMAIN w /\ ~(l - 1 < i) /\ l = (l - 1) + 1
          BY <1>1, <1>4, <1>6, <4>2
        <5> QED  BY <5>1
      <4> QED  BY <1>1, <1>4, <3>2, <4>1, <4>2
    <3> QED  BY <1>7, <3>1, <3>3 DEF InList
  <2> QED  BY <2>1, <2>2
<1>q. QED  BY <1>5, <1>9, <1>10

(* MODULE_FindModule finds a module of the list.                           *)
LEMMA FindFound ==
  ASSUME NEW S, list \in Seq(S), Unique(list), NEW n, Loaded(n) # {}
  PROVE  Find(n) \in Loaded(n) /\ Loaded(n) \subseteq InList(list)
<1> DEFINE At(m) == CHOOSE i \in DOMAIN list : list[i] = m
           D     == {Len(list) - At(m) : m \in Loaded(n)}
<1>1. Len(list) \in Nat /\ DOMAIN list = 1 .. Len(list)
  OBVIOUS
<1>2. Loaded(n) \subseteq InList(list)
  BY DEF Loaded, InList
<1>3. \A m \in Loaded(n) : At(m) \in DOMAIN list
  BY <1>2 DEF InList
<1>4. D \subseteq Nat /\ D # {}
  <2> HIDE DEF At
  <2> QED  BY <1>1, <1>3
<1>5. PICK x \in D : \A y \in D : x <= y
  <2> HIDE DEF D
  <2> QED  BY <1>4, LeastOf
<1>6. PICK m \in Loaded(n) : x = Len(list) - At(m)
  BY <1>5
<1>7. \A o \in Loaded(n) : At(o) <= At(m)
  <2> TAKE o \in Loaded(n)
  <2>1. Len(list) - At(m) <= Len(list) - At(o)
    <3>1. Len(list) - At(o) \in D
      OBVIOUS
    <3> HIDE DEF D, At
    <3> QED  BY <1>5, <1>6, <3>1
  <2> HIDE DEF At
  <2>2. At(m) \in 1 .. Len(list) /\ At(o) \in 1 .. Len(list)
    BY <1>1, <1>3
  <2> QED  BY <1>1, <2>1, <2>2
<1>8. Find(n) \in Loaded(n)
  <2>1. Find(n) = CHOOSE q \in Loaded(n) : \A o \in Loaded(n) : At(o) <= At(q)
    BY DEF Find
  <2> HIDE DEF At
  <2> QED  BY <1>7, <2>1
<1>q. QED  BY <1>2, <1>8
---------------------------------------------------------------------------
(* The inductive invariant.                                                *)
Mods(st) == {st[k].mod : k \in DOMAIN st}
Imps(st) == {st[k].mod : k \in {j \in DOMAIN st : Importer(st[j])}}

(* Drivers have modules that exist, and a counted reference of their own;  *)
(* while the last one is being released there is none, and without one     *)
(* nothing is loaded.                                                      *)
Opened == {d \in Drivers : opened[d] # NONE}
Called(st) == IF st # <<>> /\ st[1].op \in {"open", "close"} THEN 1 ELSE 0

Counted ==
  /\ \A d \in Drivers : opened[d] \in 1 .. Len(names) \cup {NONE}
  /\ IsFiniteSet(Opened) /\ acounter = Cardinality(Opened) + Called(stack)
  /\ stack # <<>> /\ stack[1].op = "collect" => acounter = 0
  /\ stack # <<>> /\ stack[1].op \in Driving =>
        stack[1].drv \in Drivers /\ opened[stack[1].drv] = stack[1].mod
  /\ stack = <<>> /\ acounter = 0 => list = <<>>

(* What a LoadLibrary has just answered is there, and its caller has it.   *)
Result ==
  stack # <<>> /\ ret # NONE =>
    /\ Top.op \in {"open", "resolve"} => ret \in live
    /\ Top.op = "resolve" => held[Top.mod][ret] > 0

(* The list.                                                               *)
Listed ==
  /\ ModuleTypeOK
  /\ Unique(list) /\ InList(list) = live \ Imps(stack)
  /\ \A d \in Drivers : opened[d] \in live \cup over \cup {NONE}
  /\ Mods(stack) \subseteq live \cup over \cup {NONE}
  /\ stale \subseteq Imps(stack)

ModuleInv ==
  Listed /\ Framed(stack, Len(names), opened, over) /\ Counted /\ Result

(* The sets the model names are those of the stack.                        *)
LEMMA StackNames ==
  Importing = Imps(stack) /\ \A s : Busy(s) = Mods(s) \ {NONE}
<1>1. Importing = Imps(stack)
  BY DEF Importing, Imps, Importer, Frames
<1>2. \A s : Busy(s) = Mods(s) \ {NONE}
  BY DEF Busy, Mods, Frames
<1>q. QED  BY <1>1, <1>2

(* The invariants that are checked follow.                                 *)
LEMMA InvariantsFollow ==
  ASSUME ModuleInv
  PROVE  ModuleTypeOK /\ ListExact /\ UsersAlive /\ AllGone
<1>1. ListExact
  BY StackNames DEF ModuleInv, Listed, ListExact, Unique, InList
<1>2. UsersAlive
  BY StackNames DEF ModuleInv, Listed, UsersAlive
<1>3. AllGone
  <2> SUFFICES ASSUME stack = <<>>, acounter = 0 PROVE live = {} /\ list = <<>>
    BY DEF AllGone
  <2>1. list = <<>>
    BY DEF ModuleInv, Counted
  <2>2. InList(list) = {} /\ Imps(stack) = {}
    BY <2>1 DEF InList, Imps
  <2> QED  BY <2>1, <2>2 DEF ModuleInv, Listed
<1>q. QED  BY <1>1, <1>2, <1>3 DEF ModuleInv, Listed

(* What is on a stack that grows or shrinks.                               *)
LEMMA ModsOn ==
  ASSUME NEW st \in Seq(FrameType), NEW f
  PROVE  /\ Mods(Append(st, f)) = Mods(st) \cup {f.mod}
         /\ Imps(Append(st, f)) = Imps(st) \cup (IF Importer(f) THEN {f.mod} ELSE {})
         /\ Append(st, f) # <<>> /\ Append(st, f)[Len(Append(st, f))] = f
         /\ st # <<>> => Append(st, f)[1] = st[1]
         /\ st = <<>> => Append(st, f)[1] = f
<1> DEFINE w == Append(st, f)
<1>1. /\ Len(st) \in Nat /\ DOMAIN st = 1 .. Len(st) /\ DOMAIN w = 1 .. Len(st) + 1
      /\ Len(w) = Len(st) + 1
      /\ w[Len(st) + 1] = f /\ \A k \in DOMAIN st : w[k] = st[k]
      /\ st = <<>> <=> Len(st) = 0
  BY AppendProperties
<1>2. w # <<>>
  BY AppendProperties
<1> HIDE DEF w
<1>3. DOMAIN w = DOMAIN st \cup {Len(st) + 1}
  BY <1>1
<1>4. Mods(w) = Mods(st) \cup {f.mod}
  BY <1>1, <1>3 DEF Mods
<1>5. Imps(w) = Imps(st) \cup (IF Importer(f) THEN {f.mod} ELSE {})
  BY <1>1, <1>3 DEF Imps
<1>q. QED  BY <1>1, <1>2, <1>4, <1>5 DEF w

(* The modules of a stack are those below the top, and that on top.        *)
LEMMA ModsBelow ==
  ASSUME NEW st \in Seq(FrameType), st # <<>>
  PROVE  LET b == SubSeq(st, 1, Len(st) - 1)
             t == st[Len(st)]
         IN /\ Mods(st) = Mods(b) \cup {t.mod}
            /\ Imps(st) = Imps(b) \cup (IF Importer(t) THEN {t.mod} ELSE {})
            /\ b # <<>> => b[1] = st[1]
            /\ b \in Seq(FrameType) /\ t \in FrameType
<1> DEFINE b == SubSeq(st, 1, Len(st) - 1)
           t == st[Len(st)]
<1>1. /\ Len(st) \in Nat \ {0} /\ DOMAIN st = 1 .. Len(st)
      /\ b \in Seq(FrameType) /\ Len(b) = Len(st) - 1 /\ DOMAIN b = 1 .. Len(st) - 1
      /\ \A k \in 1 .. Len(st) - 1 : b[k] = st[k]
  BY BelowIs
<1>2. t \in FrameType
  BY <1>1
<1>3. DOMAIN st = DOMAIN b \cup {Len(st)} /\ \A k \in DOMAIN b : st[k] = b[k]
  BY <1>1
<1>4. b # <<>> => 1 \in DOMAIN b
  BY <1>1
<1> HIDE DEF b, t
<1>5. Mods(st) = Mods(b) \cup {t.mod}
  BY <1>3 DEF Mods, t
<1>6. Imps(st) = Imps(b) \cup (IF Importer(t) THEN {t.mod} ELSE {})
  BY <1>3 DEF Imps, t
<1>q. QED  BY <1>1, <1>2, <1>3, <1>4, <1>5, <1>6 DEF b, t

(* Nobody else is at the module of an importing call.                      *)
LEMMA ImporterAlone ==
  ASSUME NEW st, NEW n, NEW opn, NEW ovr, Framed(st, n, opn, ovr), st # <<>>
  PROVE  LET b == SubSeq(st, 1, Len(st) - 1)
             t == st[Len(st)]
         IN /\ Importer(t) => t.mod \notin Mods(b)
            /\ t.mod \notin Imps(b)
            /\ t.mod \in Mods(b) => t.mod \in ovr
            /\ b = <<>> <=> t.op \in Bottom
            /\ Named(t, n, opn, ovr)
<1> DEFINE b == SubSeq(st, 1, Len(st) - 1)
           t == st[Len(st)]
<1>0. st \in Seq(FrameType)
  BY DEF Framed
<1>1. /\ Len(st) \in Nat \ {0} /\ DOMAIN st = 1 .. Len(st)
      /\ b \in Seq(FrameType) /\ Len(b) = Len(st) - 1 /\ DOMAIN b = 1 .. Len(st) - 1
      /\ \A k \in 1 .. Len(st) - 1 : b[k] = st[k]
  BY <1>0, BelowIs
<1> HIDE DEF b
<1>2. \A k \in DOMAIN b : k \in DOMAIN st /\ b[k] = st[k] /\ k < Len(st) /\ k # Len(st)
  BY <1>1
<1>3. Len(st) \in DOMAIN st
  BY <1>1
<1>4. \A k \in DOMAIN b : b[k].mod = t.mod => ~Importer(t) /\ ~Importer(b[k]) /\ t.mod \in ovr
  BY <1>2, <1>3 DEF Framed
<1>5. b = <<>> <=> t.op \in Bottom
  <2>1. b = <<>> <=> Len(st) = 1
    BY <1>1
  <2> QED  BY <1>3, <2>1 DEF Framed
<1>6. Named(t, n, opn, ovr)
  BY <1>3 DEF Framed
<1> HIDE DEF t
<1>7. /\ Importer(t) => t.mod \notin Mods(b)
      /\ t.mod \notin Imps(b)
      /\ t.mod \in Mods(b) => t.mod \in ovr
  BY <1>4 DEF Mods, Imps
<1>q. QED  BY <1>5, <1>6, <1>7 DEF b, t
---------------------------------------------------------------------------
(* A call that is not the first one comes or goes.                         *)
LEMMA CountedStays ==
  ASSUME Counted, stack # <<>>, stack' # <<>>, UNCHANGED drvVars,
         Len(names) \in Nat, Len(names') \in Nat, Len(names) <= Len(names'),
         stack'[1].op \in {"open", "close"} <=> stack[1].op \in {"open", "close"},
         stack'[1].op = "collect" <=> stack[1].op = "collect",
         stack'[1].op \in Driving => stack'[1] = stack[1]
  PROVE  Counted'
<1>1. opened' = opened /\ acounter' = acounter
  BY DEF drvVars
<1>2. Opened' = Opened /\ Called(stack') = Called(stack)
  BY <1>1 DEF Opened, Called
<1>3. \A d \in Drivers : opened'[d] \in 1 .. Len(names') \cup {NONE}
  BY <1>1 DEF Counted
<1>4. IsFiniteSet(Opened') /\ acounter' = Cardinality(Opened') + Called(stack')
  BY <1>1, <1>2 DEF Counted
<1>q. QED  BY <1>1, <1>3, <1>4 DEF Counted

(* LoadLibraryExA: the caller gets a module of the list, or the import of  *)
(* a new one begins.                                                       *)
LEMMA LoadLibraryStep ==
  ASSUME ModuleInv, NEW n \in Dlls, NEW s, s # <<>>,
         Framed(s, Len(names), opened, over),
         Mods(s) \subseteq Mods(stack) \cup {NONE}, Imps(s) = Imps(stack),
         LoadLibrary(n, s), UNCHANGED <<list, attached, over, stale, opened>>, acounter' \in Nat
  PROVE  /\ Listed' /\ Framed(stack', Len(names'), opened', over') /\ Result'
         /\ stack' # <<>> /\ stack'[1] = s[1]
         /\ Len(names) \in Nat /\ Len(names') \in Nat /\ Len(names) <= Len(names')
<1>0. UNCHANGED list /\ UNCHANGED attached /\ UNCHANGED over /\ UNCHANGED stale /\ UNCHANGED opened
  OBVIOUS
<1>1. ModuleTypeOK /\ Unique(list) /\ InList(list) = live \ Imps(stack)
  BY DEF ModuleInv, Listed
<1>2. /\ names \in Seq(Dlls) /\ Len(names) \in Nat /\ Len(names) <= MaxLoads /\ MaxLoads \in Nat
      /\ live \subseteq 1 .. Len(names) /\ 1 .. Len(names) \subseteq Modules
  BY <1>1, ModuleAssumption DEF ModuleTypeOK, Modules
<1>3. list \in Seq(1 .. Len(names)) /\ attached \in Seq(1 .. Len(names))
  BY <1>1 DEF ModuleTypeOK
<1>4. held \in [Modules -> [Modules -> Nat]]
  BY <1>1 DEF ModuleTypeOK
<1>5. s \in Seq(FrameType) /\ Len(s) \in Nat \ {0} /\ Len(s) \in DOMAIN s
  BY DEF Framed
<1>6. s[Len(s)] \in FrameType
  BY <1>5
<1> DEFINE o == s[Len(s)].mod
<1>7. o \in Modules \cup {NONE}
  BY <1>6 DEF FrameType
<1>8. (s[Len(s)].op = "resolve" => o # NONE) /\ NONE \notin Modules
  BY <1>5 DEF Framed, Named, NONE, Modules
<1>9. ASSUME UNCHANGED <<names, live>>, stack' = s, held' \in [Modules -> [Modules -> Nat]],
             ret' \in Modules \cup {NONE}
      PROVE  Listed' /\ Framed(stack', Len(names'), opened', over')
  <2>1. ModuleTypeOK'
    BY <1>0, <1>1, <1>5, <1>9 DEF ModuleTypeOK, FrameType
  <2>2. Listed'
    BY <1>0, <1>1, <1>9, <2>1 DEF Listed, ModuleInv
  <2> QED  BY <1>0, <1>9, <2>2
<1>10. CASE /\ Loaded(n) # {}
            /\ stack' = s /\ ret' = Find(n) /\ Hold(s, Find(n))
            /\ UNCHANGED <<names, live>>
  <2>1. Find(n) \in live
    <3>1. Find(n) \in InList(list)
      BY <1>1, <1>3, <1>10, FindFound
    <3> QED  BY <1>1, <3>1
  <2>2. Find(n) \in Modules
    BY <1>2, <2>1
  <2>3. held' = IF o = NONE THEN held ELSE [held EXCEPT ![o][Find(n)] = @ + 1]
    BY <1>10 DEF Hold
  <2> HIDE DEF o
  <2>4. held' \in [Modules -> [Modules -> Nat]] /\ (o # NONE => held'[o][Find(n)] > 0)
    BY <1>4, <1>7, <2>2, <2>3
  <2>5. Result'
    BY <1>8, <1>10, <2>1, <2>4 DEF Result, Top, o
  <2> QED  BY <1>2, <1>9, <1>10, <2>2, <2>4, <2>5
<1>11. CASE Loaded(n) = {} /\ stack' = s /\ ret' = NONE /\ UNCHANGED <<names, live, held>>
  <2>1. Result'
    BY <1>11 DEF Result
  <2> QED  BY <1>2, <1>4, <1>9, <1>11, <2>1
<1>12. CASE /\ Loaded(n) = {} /\ Len(names) < MaxLoads
            /\ names' = Append(names, n)
            /\ live' = live \cup {Len(names) + 1}
            /\ stack' = Append(s, Frame("import", Len(names) + 1, Imports[n]))
            /\ UNCHANGED <<held, ret>>
  <2>1. PICK p : p = Len(names) + 1
    OBVIOUS
  <2>2. PICK f : f = Frame("import", p, Imports[n])
    OBVIOUS
  <2>3. p \in Modules /\ p # NONE /\ p \notin live /\ Len(names) < p /\ p \in Nat
    BY <1>2, <1>12, <2>1 DEF Modules, NONE
  <2>4. f \in FrameType /\ f.mod = p /\ f.op = "import" /\ Importer(f)
    BY <2>2, <2>3, ModuleAssumption DEF Frame, FrameType, NONE, Importer
  <2>5. names' \in Seq(Dlls) /\ Len(names') = p
    BY <1>2, <1>12, <2>1, AppendProperties
  <2>6. stack' = Append(s, f) /\ stack' \in Seq(FrameType)
    BY <1>5, <1>12, <2>1, <2>2, <2>4, AppendProperties
  <2>7. /\ Mods(stack') = Mods(s) \cup {p} /\ Imps(stack') = Imps(s) \cup {p}
        /\ stack' # <<>> /\ stack'[1] = s[1] /\ stack'[Len(stack')] = f
    BY <1>5, <2>4, <2>6, ModsOn
  <2>8. Framed(s, p, opened, over)
    BY <1>2, <2>3, FramedLater
  <2>9. \A d \in Drivers : opened[d] # p
    BY <1>2, <2>3 DEF ModuleInv, Counted, NONE
  <2>10. \A k \in DOMAIN s : s[k].mod # p
    <3>1. \A k \in DOMAIN s : s[k].mod <= Len(names) /\ s[k] \in FrameType
      BY DEF Framed, Named
    <3> QED  BY <1>2, <2>3, <3>1 DEF FrameType
  <2>11. Named(f, p, opened, over)
    BY <2>3, <2>4, <2>9 DEF Named
  <2>12. Framed(Append(s, f), p, opened, over)
    BY <2>4, <2>8, <2>10, <2>11, FramedOn DEF Bottom, Driving
  <2>13. Framed(stack', Len(names'), opened', over')
    BY <1>0, <2>5, <2>6, <2>12
  <2>14. live' \subseteq 1 .. p /\ list' \in Seq(1 .. p) /\ attached' \in Seq(1 .. p)
    <3>1. 1 .. Len(names) \subseteq 1 .. p
      BY <1>2, <2>3
    <3>2. \A q \in Seq(1 .. Len(names)) : q \in Seq(1 .. p)
      BY <3>1, SeqMonotonic
    <3>3. live' \subseteq 1 .. p
      <4>1. live' = live \cup {p} /\ p \in 1 .. p
        BY <1>12, <2>1, <2>3
      <4> QED  BY <1>2, <3>1, <4>1
    <3> QED  BY <1>0, <1>3, <3>2, <3>3
  <2>15. ModuleTypeOK'
    <3>1. Len(names') <= MaxLoads
      BY <1>2, <1>12, <2>1, <2>5
    <3>2. UNCHANGED held /\ UNCHANGED ret
      BY <1>12
    <3> QED  BY <1>0, <1>1, <2>5, <2>6, <2>14, <3>1, <3>2 DEF ModuleTypeOK, FrameType
  <2>16. InList(list') = live' \ Imps(stack')
    BY <1>0, <1>1, <1>12, <2>1, <2>3, <2>7
  <2>17. Mods(stack') \subseteq live' \cup over' \cup {NONE}
    BY <1>0, <1>12, <2>1, <2>7 DEF ModuleInv, Listed
  <2>18. /\ \A d \in Drivers : opened'[d] \in live' \cup over' \cup {NONE}
         /\ stale' \subseteq Imps(stack')
    BY <1>0, <1>12, <2>7 DEF ModuleInv, Listed
  <2>19. Listed'
    BY <1>0, <1>1, <2>15, <2>16, <2>17, <2>18 DEF Listed
  <2>20. Result'
    BY <2>4, <2>7 DEF Result, Top
  <2> QED  BY <1>2, <2>3, <2>5, <2>7, <2>13, <2>19, <2>20
<1>q. QED  BY <1>10, <1>11, <1>12 DEF LoadLibrary

(* FreeLibrary: the detach of a module of the list begins.                 *)
LEMMA FreeLibraryStep ==
  ASSUME ModuleInv, NEW m \in 1 .. Len(names), NEW s, s # <<>>,
         Framed(s, Len(names), opened', over),
         Mods(s) \subseteq Mods(stack) \cup {NONE}, Imps(s) = Imps(stack),
         s[Len(s)].op \notin {"open", "resolve"},
         s[Len(s)].mod # NONE => held[s[Len(s)].mod][m] > 0,
         opened' \in [Drivers -> Modules \cup {NONE}],
         \A d \in Drivers : opened'[d] \in {opened[d], NONE},
         FreeLibrary(m, s), acounter' \in Nat
  PROVE  /\ Listed' /\ Framed(stack', Len(names'), opened', over') /\ Result'
         /\ stack' # <<>> /\ stack'[1] = s[1] /\ names' = names /\ list' = list
<1> DEFINE o == s[Len(s)].mod
           caller == IF o = NONE THEN s[Len(s)].drv ELSE o
           shared == Holders(m) \ {caller} # {} \/ m \in Busy(s) \/ (o # NONE /\ held[o][m] > 1)
<1>0. /\ over' = (IF shared THEN over \cup {m} ELSE over)
      /\ held' = (IF o = NONE THEN held ELSE [held EXCEPT ![o][m] = @ - 1])
      /\ IF Known(m)
           THEN /\ attached' = Without(attached, m)
                /\ stack' = Append(s, Frame("free", m, {}))
           ELSE UNCHANGED attached /\ stack' = s
      /\ UNCHANGED names /\ UNCHANGED live /\ UNCHANGED list /\ UNCHANGED stale /\ UNCHANGED ret
  BY DEF FreeLibrary
<1>1. ModuleTypeOK /\ Unique(list) /\ InList(list) = live \ Imps(stack)
  BY DEF ModuleInv, Listed
<1>2. /\ Len(names) \in Nat /\ Len(names) <= MaxLoads /\ MaxLoads \in Nat
      /\ 1 .. Len(names) \subseteq Modules /\ m \in Modules /\ m # NONE
  <2>1. names \in Seq(Dlls) /\ Len(names) <= MaxLoads /\ MaxLoads \in Nat
    BY <1>1, ModuleAssumption DEF ModuleTypeOK
  <2>2. Len(names) \in Nat
    BY <2>1
  <2> QED  BY <2>1, <2>2 DEF Modules, NONE
<1>3. held \in [Modules -> [Modules -> Nat]] /\ attached \in Seq(1 .. Len(names))
  BY <1>1 DEF ModuleTypeOK
<1>4. s \in Seq(FrameType) /\ Len(s) \in Nat \ {0} /\ Len(s) \in DOMAIN s
  BY DEF Framed
<1>5. s[Len(s)] \in FrameType /\ Named(s[Len(s)], Len(names), opened', over)
  BY <1>4 DEF Framed
<1>6. o \in Modules \cup {NONE}
  BY <1>5 DEF FrameType
<1> HIDE DEF shared, o
<1>7. over' \subseteq Modules /\ over \subseteq over'
  BY <1>0, <1>1, <1>2 DEF ModuleTypeOK
<1>8. held' \in [Modules -> [Modules -> Nat]]
  <2>1. CASE o = NONE
    BY <1>0, <1>3, <2>1
  <2>2. CASE o # NONE
    <3>1. o \in Modules /\ held[o] \in [Modules -> Nat] /\ held[o][m] \in Nat
      BY <1>2, <1>3, <1>6, <2>2
    <3>2. held[o][m] - 1 \in Nat
      BY <2>2, <3>1 DEF o
    <3>3. held' = [held EXCEPT ![o] = [held[o] EXCEPT ![m] = held[o][m] - 1]]
      BY <1>0, <1>3, <2>2, <3>1
    <3>4. [held[o] EXCEPT ![m] = held[o][m] - 1] \in [Modules -> Nat]
      BY <3>1, <3>2
    <3> QED  BY <1>3, <3>3, <3>4
  <2> QED  BY <2>1, <2>2
<1>9. Without(attached, m) \in Seq(1 .. Len(names))
  BY <1>3, WithoutSeq
<1>10. Framed(s, Len(names), opened', over')
  <2>1. Len(names) \in Int /\ Len(names) <= Len(names) /\ names' = names
    BY <1>0, <1>2
  <2>2. \A d \in Drivers : opened'[d] = opened'[d] \/ opened'[d] = NONE
    OBVIOUS
  <2>3. Framed(s, Len(names), opened', over')
    BY ONLY <1>7, <2>1, <2>2, Framed(s, Len(names), opened', over), FramedLater
  <2> QED  BY <2>1, <2>3
<1>11. ASSUME stack' \in Seq(FrameType), attached' \in Seq(1 .. Len(names)),
              Mods(stack') \subseteq Mods(stack) \cup {NONE} \cup live, Imps(stack') = Imps(stack)
       PROVE  Listed'
  <2>1. ModuleTypeOK'
    BY <1>0, <1>1, <1>7, <1>8, <1>11 DEF ModuleTypeOK, FrameType
  <2>2. /\ Unique(list') /\ InList(list') = live' \ Imps(stack')
        /\ stale' \subseteq Imps(stack')
    BY <1>0, <1>1, <1>11 DEF ModuleInv, Listed
  <2>3. /\ \A d \in Drivers : opened'[d] \in live' \cup over' \cup {NONE}
        /\ Mods(stack') \subseteq live' \cup over' \cup {NONE}
    BY <1>0, <1>7, <1>11 DEF ModuleInv, Listed
  <2> QED  BY <2>1, <2>2, <2>3 DEF Listed
<1>12. CASE Known(m)
  <2>1. PICK f : f = Frame("free", m, {})
    OBVIOUS
  <2>2. /\ f \in FrameType /\ f.mod = m /\ f.op = "free" /\ ~Importer(f) /\ f.op \notin Bottom
    BY <1>2, <2>1 DEF Frame, FrameType, Importer, Detaching, Bottom, Driving
  <2>3. stack' = Append(s, f) /\ stack' \in Seq(FrameType)
    BY <1>0, <1>4, <1>12, <2>1, <2>2, AppendProperties
  <2>4. m \in live /\ m \notin Imps(s)
    <3>1. m \in InList(list)
      BY <1>12 DEF Known, InList
    <3> QED  BY <1>1, <3>1
  <2>5. m \in over' \/ \A d \in Drivers : opened'[d] # m
    <3>1. CASE shared
      BY <1>0, <3>1
    <3>2. CASE ~shared
      <4>1. \A d \in Drivers : opened[d] = m => d = caller
        BY <3>2 DEF shared, Holders
      <4>2. CASE o = NONE
        <5>1. caller = s[Len(s)].drv /\ opened'[caller] = NONE
          BY <1>5, <4>2 DEF Named, o
        <5> QED  BY <1>2, <4>1, <5>1
      <4>3. CASE o # NONE
        <5>1. caller = o /\ o \in Nat
          BY <1>6, <4>3 DEF Modules
        <5>2. \A d \in Drivers : d # caller
          BY <5>1, ModuleAssumption
        <5> QED  BY <1>2, <4>1, <5>2
      <4> QED  BY <4>2, <4>3
    <3> QED  BY <3>1, <3>2
  <2>6. Named(f, Len(names), opened', over')
    BY <1>2, <2>2, <2>5 DEF Named, NONE
  <2>7. \A k \in DOMAIN s : s[k].mod = m => m \in over' /\ ~Importer(s[k])
    <3> TAKE k \in DOMAIN s
    <3> HAVE s[k].mod = m
    <3>1. m \in Mods(s)
      BY DEF Mods
    <3>2. m \in Busy(s)
      BY <1>2, <3>1, StackNames
    <3>3. m \in over'
      BY <1>0, <3>2 DEF shared
    <3>4. Importer(s[k]) => m \in Imps(s)
      BY DEF Imps
    <3> QED  BY <2>4, <3>3, <3>4
  <2>8. Framed(Append(s, f), Len(names), opened', over')
    BY <1>10, <2>2, <2>6, <2>7, FramedOn
  <2>9. /\ Mods(stack') = Mods(s) \cup {m} /\ Imps(stack') = Imps(s)
        /\ stack' # <<>> /\ stack'[1] = s[1] /\ stack'[Len(stack')] = f
    <3>1. Imps(stack') = Imps(s) \cup {} /\ Mods(stack') = Mods(s) \cup {m}
      BY <1>4, <2>2, <2>3, ModsOn
    <3>2. stack' # <<>> /\ stack'[1] = s[1] /\ stack'[Len(stack')] = f
      BY <1>4, <2>3, ModsOn
    <3> QED  BY <3>1, <3>2
  <2>10. Listed'
    BY <1>0, <1>9, <1>11, <1>12, <2>3, <2>4, <2>9
  <2>11. Result'
    BY <2>2, <2>9 DEF Result, Top
  <2> QED  BY <1>0, <2>3, <2>8, <2>9, <2>10, <2>11
<1>13. CASE ~Known(m)
  <2>1. stack' = s /\ attached' = attached
    BY <1>0, <1>13
  <2>2. Listed'
    BY <1>3, <1>4, <1>11, <2>1
  <2>3. Result'
    BY <2>1 DEF Result, Top
  <2> QED  BY <1>0, <1>10, <2>1, <2>2, <2>3
<1>q. QED  BY <1>12, <1>13
---------------------------------------------------------------------------
(* What the invariant says of the call on top.                             *)
LEMMA TopIs ==
  ASSUME ModuleInv, stack # <<>>
  PROVE  /\ stack \in Seq(FrameType) /\ Top \in FrameType /\ Below \in Seq(FrameType)
         /\ Framed(Below, Len(names), opened, over) /\ Named(Top, Len(names), opened, over)
         /\ Mods(stack) = Mods(Below) \cup {Top.mod}
         /\ Imps(stack) = Imps(Below) \cup (IF Importer(Top) THEN {Top.mod} ELSE {})
         /\ Importer(Top) => Top.mod \notin Mods(Below)
         /\ Top.mod \notin Imps(Below)
         /\ Top.mod \in Mods(Below) => Top.mod \in over
         /\ Below # <<>> => Below[1] = stack[1]
         /\ Below = <<>> => stack[1] = Top
         /\ Below = <<>> <=> Top.op \in Bottom
         /\ Top.op = "free" => Below[Len(Below)].op \notin {"open", "resolve"}
<1>1. stack \in Seq(FrameType) /\ Framed(stack, Len(names), opened, over)
  BY DEF ModuleInv, Framed
<1>2. /\ Len(stack) \in Nat \ {0} /\ DOMAIN stack = 1 .. Len(stack)
      /\ Len(Below) = Len(stack) - 1
      /\ \A k \in 1 .. Len(stack) - 1 : Below[k] = stack[k]
      /\ Below = <<>> => Len(Below) = 0
  BY <1>1, BelowIs DEF Below
<1>3. Framed(Below, Len(names), opened, over)
  BY <1>1, FramedBelow DEF Below
<1>4. /\ Mods(stack) = Mods(Below) \cup {Top.mod}
      /\ Imps(stack) = Imps(Below) \cup (IF Importer(Top) THEN {Top.mod} ELSE {})
      /\ Below # <<>> => Below[1] = stack[1]
      /\ Below \in Seq(FrameType) /\ Top \in FrameType
  BY <1>1, ModsBelow DEF Below, Top
<1>5. /\ Importer(Top) => Top.mod \notin Mods(Below)
      /\ Top.mod \notin Imps(Below)
      /\ Top.mod \in Mods(Below) => Top.mod \in over
      /\ Below = <<>> <=> Top.op \in Bottom
      /\ Named(Top, Len(names), opened, over)
  BY <1>1, ImporterAlone DEF Below, Top
<1>6. Below = <<>> => stack[1] = Top
  BY <1>2 DEF Top
<1>7. Top.op = "free" => Below[Len(Below)].op \notin {"open", "resolve"}
  <2> SUFFICES ASSUME Top.op = "free" PROVE Below[Len(Below)].op \notin {"open", "resolve"}
    OBVIOUS
  <2>1. Len(stack) \in DOMAIN stack /\ stack[Len(stack)] = Top
    BY <1>2 DEF Top
  <2>2. Len(stack) # 1
    BY <1>1, <2>1 DEF Framed, Bottom, Driving
  <2>3. Below[Len(Below)] = stack[Len(stack) - 1]
    BY <1>2, <2>2
  <2> QED  BY <1>1, <2>1, <2>3 DEF Framed
<1>q. QED  BY <1>1, <1>3, <1>4, <1>5, <1>6, <1>7

(* The stack when the call on top goes on as another one about its module. *)
LEMMA TopBecomes ==
  ASSUME ModuleInv, stack # <<>>,
         NEW f \in FrameType, f.op # "free", Named(f, Len(names), opened, over),
         f.mod = Top.mod, f.op \in Bottom <=> Top.op \in Bottom, Importer(f) => Importer(Top)
  PROVE  LET s == Append(Below, f)
         IN /\ s \in Seq(FrameType) /\ Framed(s, Len(names), opened, over)
            /\ Mods(s) = Mods(stack)
            /\ Imps(s) = Imps(Below) \cup (IF Importer(f) THEN {f.mod} ELSE {})
            /\ s # <<>> /\ s[Len(s)] = f
            /\ Below # <<>> => s[1] = stack[1]
            /\ Below = <<>> => s[1] = f
<1>1. Below \in Seq(FrameType) /\ Mods(stack) = Mods(Below) \cup {Top.mod}
      /\ (Below # <<>> => Below[1] = stack[1])
  BY TopIs
<1>2. Framed(Append(Below, f), Len(names), opened, over)
  BY FramedAs DEF ModuleInv, Below, Top
<1>3. /\ Mods(Append(Below, f)) = Mods(Below) \cup {f.mod}
      /\ Imps(Append(Below, f)) = Imps(Below) \cup (IF Importer(f) THEN {f.mod} ELSE {})
      /\ Append(Below, f) # <<>> /\ Append(Below, f)[Len(Append(Below, f))] = f
      /\ Below # <<>> => Append(Below, f)[1] = Below[1]
      /\ Below = <<>> => Append(Below, f)[1] = f
  BY <1>1, ModsOn
<1>4. Append(Below, f) \in Seq(FrameType)
  BY <1>2 DEF Framed
<1>q. QED  BY <1>1, <1>2, <1>3, <1>4

(* A call of the host, alone on the stack.                                 *)
LEMMA FirstCall ==
  ASSUME NEW f \in FrameType, f.op \in Bottom, NEW n, NEW opn, NEW ovr, Named(f, n, opn, ovr)
  PROVE  LET s == Append(<<>>, f)
         IN /\ s # <<>> /\ s \in Seq(FrameType) /\ Framed(s, n, opn, ovr)
            /\ Mods(s) = {f.mod} /\ Imps(s) = {} /\ s[1] = f /\ s[Len(s)] = f /\ s = <<f>>
<1>1. ~Importer(f) /\ f.op # "free"
  BY DEF Importer, Bottom, Driving
<1>2. Framed(<<>>, n, opn, ovr) /\ <<>> \in Seq(FrameType) /\ DOMAIN <<>> = {}
  BY NothingFramed
<1>3. Framed(Append(<<>>, f), n, opn, ovr)
  BY <1>1, <1>2, FramedOn
<1>4. Mods(<<>>) = {} /\ Imps(<<>>) = {}
  BY DEF Mods, Imps
<1>5. /\ Mods(Append(<<>>, f)) = Mods(<<>>) \cup {f.mod}
      /\ Imps(Append(<<>>, f)) = Imps(<<>>) \cup (IF Importer(f) THEN {f.mod} ELSE {})
      /\ Append(<<>>, f) # <<>> /\ Append(<<>>, f)[Len(Append(<<>>, f))] = f
      /\ Append(<<>>, f)[1] = f
  BY <1>2, ModsOn
<1>6. Mods(Append(<<>>, f)) = {f.mod} /\ Imps(Append(<<>>, f)) = {}
  BY <1>1, <1>4, <1>5
<1>7. Append(<<>>, f) \in Seq(FrameType) /\ Append(<<>>, f) = <<f>>
  BY <1>3 DEF Framed
<1>q. QED  BY <1>3, <1>5, <1>6, <1>7

(* A driver's call.                                                        *)
LEMMA DriverCalls ==
  ASSUME NEW g \in {"open", "close"}, NEW d \in Drivers, NEW n \in Nat, NEW opn, NEW ovr,
         opn[d] = NONE
  PROVE  LET s == <<Call(g, d)>>
         IN /\ s # <<>> /\ Framed(s, n, opn, ovr) /\ Mods(s) = {NONE} /\ Imps(s) = {}
            /\ s[1] = Call(g, d) /\ s[Len(s)] = Call(g, d) /\ s = Append(<<>>, Call(g, d))
<1>1. PICK f : f = Call(g, d)
  OBVIOUS
<1>2. f \in FrameType /\ f.mod = NONE /\ f.drv = d /\ f.op = g /\ f.op \in Bottom
  BY <1>1 DEF Call, FrameType, Bottom
<1>3. Named(f, n, opn, ovr)
  BY <1>2 DEF Named, NONE
<1>4. /\ Framed(<<f>>, n, opn, ovr) /\ Mods(<<f>>) = {NONE} /\ Imps(<<f>>) = {}
      /\ <<f>> = Append(<<>>, f)
  BY <1>2, <1>3, FirstCall
<1>5. <<f>> # <<>> /\ <<f>>[1] = f /\ <<f>>[Len(<<f>>)] = f
  OBVIOUS
<1>q. QED  BY <1>1, <1>4, <1>5

(* The DLL of a driver is called.                                          *)
LEMMA ProcCalls ==
  ASSUME NEW g \in Driving, NEW m \in Modules, NEW d \in Drivers, NEW n \in Nat, m <= n,
         NEW opn, NEW ovr
  PROVE  LET f == Proc(g, m, d)
             s == Append(<<>>, f)
         IN /\ s # <<>> /\ s \in Seq(FrameType) /\ Framed(s, n, opn, ovr)
            /\ Mods(s) = {m} /\ Imps(s) = {} /\ s[1] = f /\ s[Len(s)] = f /\ s = <<f>>
            /\ f.op = g /\ f.mod = m /\ f.drv = d
<1>1. PICK f : f = Proc(g, m, d)
  OBVIOUS
<1>2. /\ f \in FrameType /\ f.mod = m /\ f.op = g /\ f.drv = d /\ m # NONE
      /\ f.op \in Bottom /\ f.op \notin {"open", "close"}
  BY <1>1 DEF Proc, FrameType, Bottom, Driving, NONE, Modules
<1>3. Named(f, n, opn, ovr)
  BY <1>2 DEF Named
<1>q. QED  BY <1>1, <1>2, <1>3, FirstCall

(* One of the modules that are detached when no driver is left.            *)
LEMMA Collects ==
  ASSUME NEW m \in Modules, NEW n \in Nat, m <= n, NEW opn, NEW ovr, \A d \in Drivers : opn[d] = NONE
  PROVE  LET f == Frame("collect", m, {})
             s == Append(<<>>, f)
         IN /\ s # <<>> /\ s \in Seq(FrameType) /\ Framed(s, n, opn, ovr)
            /\ Mods(s) = {m} /\ Imps(s) = {} /\ s[1] = f /\ s[Len(s)] = f
<1>1. PICK f : f = Frame("collect", m, {})
  OBVIOUS
<1>2. /\ f \in FrameType /\ f.mod = m /\ f.op = "collect" /\ m # NONE
      /\ f.op \in Bottom
  BY <1>1 DEF Frame, FrameType, Bottom, Detaching, NONE, Modules
<1>3. Named(f, n, opn, ovr)
  BY <1>2 DEF Named
<1>q. QED  BY <1>1, <1>2, <1>3, FirstCall

(* Without open drivers acounter counts the call that is under way.        *)
LEMMA NoneOpened ==
  ASSUME Counted, acounter = Called(stack)
  PROVE  \A d \in Drivers : opened[d] = NONE
<1>1. IsFiniteSet(Opened) /\ acounter = Cardinality(Opened) + Called(stack)
  BY DEF Counted
<1>2. Cardinality(Opened) \in Nat /\ Called(stack) \in Nat
  BY <1>1, FS_CardinalityType DEF Called
<1>3. Cardinality(Opened) = 0
  BY <1>1, <1>2
<1>4. Opened = {}
  BY <1>1, <1>3, FS_EmptySet
<1>q. QED  BY <1>4 DEF Opened

(* Only calls and holders change.                                          *)
LEMMA ListedStays ==
  ASSUME ModuleInv, UNCHANGED <<names, live, list, over, stale, opened>>,
         attached' \in Seq(1 .. Len(names)), held' \in [Modules -> [Modules -> Nat]],
         acounter' \in Nat, ret' \in Modules \cup {NONE}, stack' \in Seq(FrameType),
         Mods(stack') \subseteq Mods(stack) \cup {NONE} \cup live, Imps(stack') = Imps(stack)
  PROVE  Listed'
<1>0. UNCHANGED names /\ UNCHANGED live /\ UNCHANGED list /\ UNCHANGED over /\ UNCHANGED stale
      /\ UNCHANGED opened
  OBVIOUS
<1>1. ModuleTypeOK /\ Unique(list) /\ InList(list) = live \ Imps(stack)
  BY DEF ModuleInv, Listed
<1>2. ModuleTypeOK'
  BY <1>0, <1>1 DEF ModuleTypeOK, FrameType
<1>3. /\ Unique(list') /\ InList(list') = live' \ Imps(stack') /\ stale' \subseteq Imps(stack')
  BY <1>0, <1>1 DEF ModuleInv, Listed
<1>4. /\ \A d \in Drivers : opened'[d] \in live' \cup over' \cup {NONE}
      /\ Mods(stack') \subseteq live' \cup over' \cup {NONE}
  BY <1>0 DEF ModuleInv, Listed
<1>q. QED  BY <1>2, <1>3, <1>4 DEF Listed
---------------------------------------------------------------------------
(* Every step keeps the invariant: the code of the loader.                 *)
LEMMA FixupImportsStep ==
  ASSUME ModuleInv, fixupImports
  PROVE  ModuleInv'
<1>1. OnTop("import") /\ stack # <<>> /\ Top.op = "import"
  BY DEF fixupImports, OnTop
<1>2. PICK n \in Top.todo :
        LoadLibrary(n, Append(Below, Frame("resolve", Top.mod, Top.todo \ {n})))
  BY DEF fixupImports
<1>3. /\ UNCHANGED <<list, attached, over, stale, opened>> /\ UNCHANGED drvVars
      /\ acounter' = acounter
  BY DEF fixupImports, drvVars
<1>4. /\ Top \in FrameType /\ Named(Top, Len(names), opened, over) /\ Below # <<>>
      /\ Imps(stack) = Imps(Below) \cup {Top.mod}
  BY <1>1, TopIs DEF Bottom, Importer, Driving
<1> DEFINE f == Frame("resolve", Top.mod, Top.todo \ {n})
           s == Append(Below, f)
<1>5. n \in Dlls /\ f \in FrameType /\ f.op = "resolve" /\ f.mod = Top.mod /\ f.drv = NONE
  BY <1>4 DEF Frame, FrameType
<1>6. Named(f, Len(names), opened, over)
  BY <1>1, <1>4, <1>5 DEF Named, Driving
<1>7. /\ Framed(s, Len(names), opened, over) /\ Mods(s) = Mods(stack)
      /\ Imps(s) = Imps(stack) /\ s # <<>> /\ s[1] = stack[1]
  <2> HIDE DEF f
  <2>1. /\ Framed(s, Len(names), opened, over) /\ Mods(s) = Mods(stack)
        /\ Imps(s) = Imps(Below) \cup (IF Importer(f) THEN {f.mod} ELSE {})
        /\ s # <<>> /\ s[1] = stack[1]
    BY <1>1, <1>4, <1>5, <1>6, TopBecomes DEF Importer, Bottom, Driving
  <2> QED  BY <1>4, <1>5, <2>1 DEF Importer
<1>8. LoadLibrary(n, s)
  BY <1>2
<1> HIDE DEF s, f
<1>9. acounter' \in Nat
  BY <1>3 DEF ModuleInv, Listed, ModuleTypeOK
<1>10. /\ Listed' /\ Framed(stack', Len(names'), opened', over') /\ Result'
       /\ stack' # <<>> /\ stack'[1] = s[1]
       /\ Len(names) \in Nat /\ Len(names') \in Nat /\ Len(names) <= Len(names')
  BY <1>3, <1>5, <1>7, <1>8, <1>9, LoadLibraryStep
<1>11. Counted'
  BY <1>1, <1>3, <1>7, <1>10, CountedStays DEF ModuleInv
<1>q. QED  BY <1>10, <1>11 DEF ModuleInv

(* fixup_imports has a module, or has none and fails.                      *)
LEMMA ResolvedStep ==
  ASSUME ModuleInv, resolved
  PROVE  ModuleInv'
<1>1. stack # <<>> /\ Top.op = "resolve" /\ UNCHANGED drvVars
  BY DEF resolved, OnTop
<1>2. acounter' = acounter /\ opened' = opened
  BY <1>1 DEF drvVars
<1>3. /\ Top \in FrameType /\ Named(Top, Len(names), opened, over) /\ Below # <<>>
      /\ Imps(stack) = Imps(Below) \cup {Top.mod}
  BY <1>1, TopIs DEF Bottom, Importer, Driving
<1> DEFINE f == [Top EXCEPT !.op = "import"]
           s == Append(Below, f)
<1>4. f \in FrameType /\ f.op = "import" /\ f.mod = Top.mod /\ f.drv = Top.drv
  BY <1>3 DEF FrameType
<1>5. Named(f, Len(names), opened, over)
  BY <1>1, <1>3, <1>4 DEF Named, Driving
<1>6. /\ Framed(s, Len(names), opened, over) /\ Mods(s) = Mods(stack) /\ s \in Seq(FrameType)
      /\ Imps(s) = Imps(stack) /\ s # <<>> /\ s[1] = stack[1] /\ s[Len(s)] = f
  <2> HIDE DEF f
  <2>1. /\ Framed(s, Len(names), opened, over) /\ Mods(s) = Mods(stack) /\ s \in Seq(FrameType)
        /\ Imps(s) = Imps(Below) \cup (IF Importer(f) THEN {f.mod} ELSE {})
        /\ s # <<>> /\ s[1] = stack[1] /\ s[Len(s)] = f
    BY <1>1, <1>3, <1>4, <1>5, TopBecomes DEF Importer, Bottom, Driving
  <2> QED  BY <1>3, <1>4, <2>1 DEF Importer
<1>7. (stack' = s /\ UNCHANGED <<listVars, ret>>) \/ (ret # NONE /\ FreeLibrary(ret, s))
  BY DEF resolved
<1> HIDE DEF s, f
<1>8. names \in Seq(Dlls) /\ Len(names) \in Nat /\ live \subseteq 1 .. Len(names) /\ ModuleTypeOK
  BY DEF ModuleInv, Listed, ModuleTypeOK
<1>9. CASE stack' = s /\ UNCHANGED <<listVars, ret>>
  <2>1. UNCHANGED <<names, live, list, over, stale, opened>> /\ UNCHANGED attached
        /\ UNCHANGED held /\ UNCHANGED ret /\ names' = names
    BY <1>2, <1>9 DEF listVars
  <2>2. Listed'
    BY <1>2, <1>6, <1>8, <1>9, <2>1, ListedStays DEF ModuleTypeOK
  <2>3. Counted'
    BY <1>1, <1>6, <1>8, <1>9, <2>1, CountedStays DEF ModuleInv
  <2>4. Result'
    BY <1>4, <1>6, <1>9 DEF Result, Top
  <2>5. Framed(stack', Len(names'), opened', over')
    BY <1>6, <1>9, <2>1
  <2> QED  BY <2>2, <2>3, <2>4, <2>5 DEF ModuleInv
<1>10. CASE ret # NONE /\ FreeLibrary(ret, s)
  <2>1. ret \in live /\ held[Top.mod][ret] > 0
    BY <1>1, <1>10 DEF ModuleInv, Result
  <2>2. ret \in 1 .. Len(names)
    BY <1>8, <2>1
  <2>3. opened' \in [Drivers -> Modules \cup {NONE}] /\ acounter' \in Nat
    BY <1>2, <1>8 DEF ModuleTypeOK
  <2>4. \A d \in Drivers : opened'[d] \in {opened[d], NONE}
    BY <1>2
  <2>5. Framed(s, Len(names), opened', over)
    BY <1>2, <1>6
  <2>6. /\ Listed' /\ Framed(stack', Len(names'), opened', over') /\ Result'
        /\ stack' # <<>> /\ stack'[1] = s[1] /\ names' = names
    BY <1>4, <1>6, <1>10, <2>1, <2>2, <2>3, <2>4, <2>5, FreeLibraryStep
  <2>7. Counted'
    BY <1>1, <1>6, <1>8, <2>6, CountedStays DEF ModuleInv
  <2> QED  BY <2>6, <2>7 DEF ModuleInv
<1>q. QED  BY <1>7, <1>9, <1>10

(* add_to_list adds one element.                                           *)
LEMMA AppendInList ==
  ASSUME NEW S, NEW l \in Seq(S), NEW m
  PROVE  /\ InList(Append(l, m)) = InList(l) \cup {m}
         /\ Unique(l) /\ m \notin InList(l) => Unique(Append(l, m))
<1> DEFINE w == Append(l, m)
<1>1. /\ Len(l) \in Nat /\ DOMAIN l = 1 .. Len(l) /\ DOMAIN w = 1 .. Len(l) + 1
      /\ w[Len(l) + 1] = m /\ \A k \in DOMAIN l : w[k] = l[k]
  OBVIOUS
<1> HIDE DEF w
<1>2. DOMAIN w = DOMAIN l \cup {Len(l) + 1}
  BY <1>1
<1>3. InList(w) = InList(l) \cup {m}
  BY <1>1, <1>2 DEF InList
<1>4. Unique(l) /\ m \notin InList(l) => Unique(w)
  BY <1>1, <1>2 DEF Unique, InList
<1>q. QED  BY <1>3, <1>4 DEF w

(* The module enters the list and DllMain is called.                       *)
LEMMA DllProcessAttachStep ==
  ASSUME ModuleInv, ~Crashed, DllProcessAttach
  PROVE  ModuleInv'
<1>1. /\ stack # <<>> /\ Top.op = "import" /\ list' = Append(list, Top.mod)
      /\ stack' = Append(Below, Frame("attach", Top.mod, {}))
      /\ UNCHANGED names /\ UNCHANGED live /\ UNCHANGED attached /\ UNCHANGED held
      /\ UNCHANGED over /\ UNCHANGED stale /\ UNCHANGED drvVars /\ UNCHANGED ret
  BY DEF DllProcessAttach, OnTop
<1>2. opened' = opened /\ acounter' = acounter
  BY <1>1 DEF drvVars
<1>3. ModuleTypeOK /\ Unique(list) /\ InList(list) = live \ Imps(stack)
  BY DEF ModuleInv, Listed
<1>4. /\ Top \in FrameType /\ Named(Top, Len(names), opened, over) /\ Below # <<>>
      /\ Imps(stack) = Imps(Below) \cup {Top.mod} /\ Top.mod \notin Imps(Below)
  BY <1>1, TopIs DEF Bottom, Importer, Driving
<1> DEFINE m == Top.mod
<1>5. m # NONE /\ m \in live /\ stale = {}
  BY <1>1, <1>4 DEF Crashed, Named
<1>6. PICK f : f = Frame("attach", m, {})
  OBVIOUS
<1>7. f \in FrameType /\ f.op = "attach" /\ f.mod = m /\ ~Importer(f)
  BY <1>4, <1>6 DEF Frame, FrameType, Detaching, Importer
<1>8. Named(f, Len(names), opened, over)
  BY <1>1, <1>4, <1>7 DEF Named, Driving
<1> HIDE DEF m
<1>9. /\ Framed(stack', Len(names), opened, over) /\ Mods(stack') = Mods(stack)
      /\ stack' \in Seq(FrameType) /\ Imps(stack') = Imps(Below) \cup {}
      /\ stack' # <<>> /\ stack'[1] = stack[1] /\ stack'[Len(stack')] = f
  <2>1. stack' = Append(Below, f)
    BY <1>1, <1>6 DEF m
  <2>2. f.mod = Top.mod
    BY <1>7 DEF m
  <2>3. /\ Framed(stack', Len(names), opened, over) /\ Mods(stack') = Mods(stack)
        /\ stack' \in Seq(FrameType)
        /\ Imps(stack') = Imps(Below) \cup (IF Importer(f) THEN {f.mod} ELSE {})
        /\ stack' # <<>> /\ stack'[1] = stack[1] /\ stack'[Len(stack')] = f
    BY <1>1, <1>4, <1>7, <1>8, <2>1, <2>2, TopBecomes DEF Bottom, Driving
  <2> QED  BY <1>7, <2>3
<1>10. list \in Seq(1 .. Len(names)) /\ live \subseteq 1 .. Len(names)
  BY <1>3 DEF ModuleTypeOK
<1>11. list' \in Seq(1 .. Len(names)) /\ InList(list') = InList(list) \cup {m} /\ Unique(list')
  <2>1. list' = Append(list, m) /\ m \notin InList(list)
    BY <1>1, <1>3, <1>4 DEF m
  <2>2. list' \in Seq(1 .. Len(names))
    BY <1>5, <1>10, <2>1, AppendProperties
  <2> QED  BY <1>3, <1>10, <2>1, <2>2, AppendInList
<1>12. ModuleTypeOK'
  BY <1>1, <1>2, <1>3, <1>9, <1>11 DEF ModuleTypeOK, FrameType
<1>13. InList(list') = live' \ Imps(stack')
  BY <1>1, <1>3, <1>4, <1>5, <1>9, <1>11 DEF m
<1>14. Listed'
  BY <1>1, <1>2, <1>5, <1>9, <1>11, <1>12, <1>13 DEF ModuleInv, Listed
<1>15. Result'
  BY <1>7, <1>9 DEF Result, Top
<1>16. Counted'
  <2>1. Len(names) \in Nat /\ Len(names') = Len(names)
    BY <1>1, <1>3 DEF ModuleTypeOK
  <2> QED  BY <1>1, <1>9, <2>1, CountedStays DEF ModuleInv
<1>17. Framed(stack', Len(names'), opened', over')
  BY <1>1, <1>2, <1>9
<1>q. QED  BY <1>14, <1>15, <1>16, <1>17 DEF ModuleInv

(* DllMain has returned: it attached the module, or the module is given up. *)
LEMMA AttachReturnsStep ==
  ASSUME ModuleInv, ~Crashed, attachReturns
  PROVE  ModuleInv'
<1>1. /\ stack # <<>> /\ Top.op = "attach"
      /\ UNCHANGED names /\ UNCHANGED live /\ UNCHANGED list
      /\ UNCHANGED over /\ UNCHANGED stale /\ UNCHANGED drvVars
  BY DEF attachReturns, OnTop
<1>2. opened' = opened /\ acounter' = acounter /\ UNCHANGED <<names, live, list, over, stale, opened>>
  BY <1>1 DEF drvVars
<1>3. /\ ModuleTypeOK /\ Len(names) \in Nat /\ Len(names') = Len(names) /\ acounter \in Nat
      /\ attached \in Seq(1 .. Len(names)) /\ live \subseteq 1 .. Len(names)
      /\ held \in [Modules -> [Modules -> Nat]] /\ ret \in Modules \cup {NONE}
  BY <1>1 DEF ModuleInv, Listed, ModuleTypeOK
<1>4. /\ Top \in FrameType /\ Named(Top, Len(names), opened, over) /\ Below # <<>>
      /\ Below \in Seq(FrameType) /\ Framed(Below, Len(names), opened, over)
      /\ Mods(stack) = Mods(Below) \cup {Top.mod} /\ Imps(stack) = Imps(Below)
      /\ Below[1] = stack[1]
  <2>1. Imps(stack) = Imps(Below) \cup {}
    BY <1>1, TopIs DEF Importer
  <2> QED  BY <1>1, <2>1, TopIs DEF Bottom, Driving
<1> DEFINE m == Top.mod
<1>5. m # NONE /\ m \in live /\ m \in Modules
  BY <1>1, <1>4 DEF Crashed, Named, FrameType
<1>6. CASE attached' = Append(attached, m) /\ stack' = Below /\ ret' = m /\ Hold(Below, m)
  <2> DEFINE t == Below[Len(Below)]
  <2>1. Len(Below) \in DOMAIN Below /\ t \in FrameType
    BY <1>4
  <2>2. Named(t, Len(names), opened, over)
    BY <1>4, <2>1 DEF Framed
  <2>3. held' = IF t.mod = NONE THEN held ELSE [held EXCEPT ![t.mod][m] = @ + 1]
    BY <1>6 DEF Hold
  <2>4. t.mod \in Modules \cup {NONE} /\ (t.op = "resolve" => t.mod # NONE)
    BY <2>1, <2>2 DEF FrameType, Named
  <2>5. Top' = t
    BY <1>6 DEF Top
  <2> HIDE DEF t, m
  <2>6. held' \in [Modules -> [Modules -> Nat]] /\ (t.mod # NONE => held'[t.mod][m] > 0)
    <3>1. CASE t.mod = NONE
      BY <1>3, <2>3, <3>1
    <3>2. CASE t.mod # NONE
      <4>1. t.mod \in Modules /\ m \in Modules
        BY <1>5, <2>4, <3>2 DEF m
      <4>2. held[t.mod] \in [Modules -> Nat] /\ held[t.mod][m] + 1 \in Nat \ {0}
        <5>1. held[t.mod] \in [Modules -> Nat]
          BY <1>3, <4>1
        <5>2. held[t.mod][m] \in Nat
          BY <4>1, <5>1
        <5> QED  BY <5>1, <5>2
      <4>3. held' = [held EXCEPT ![t.mod] = [held[t.mod] EXCEPT ![m] = held[t.mod][m] + 1]]
        BY <1>3, <2>3, <3>2, <4>1
      <4>4. [held[t.mod] EXCEPT ![m] = held[t.mod][m] + 1] \in [Modules -> Nat]
        BY <4>1, <4>2
      <4>5. held' \in [Modules -> [Modules -> Nat]]
        BY <1>3, <4>1, <4>3, <4>4
      <4>6. held'[t.mod][m] = held[t.mod][m] + 1
        BY <1>3, <4>1, <4>3
      <4> QED  BY <4>2, <4>5, <4>6
    <3> QED  BY <3>1, <3>2
  <2>7. Result'
    BY <1>1, <1>5, <1>6, <2>4, <2>5, <2>6 DEF Result
  <2>8. attached' \in Seq(1 .. Len(names))
    BY <1>3, <1>5, <1>6, AppendProperties
  <2>9. Listed'
    BY <1>2, <1>3, <1>4, <1>5, <1>6, <2>6, <2>8, ListedStays
  <2>10. Counted'
    BY <1>1, <1>3, <1>4, <1>6, CountedStays DEF ModuleInv
  <2>11. Framed(stack', Len(names'), opened', over')
    BY <1>1, <1>2, <1>4, <1>6
  <2> QED  BY <2>7, <2>9, <2>10, <2>11 DEF ModuleInv
<1>7. CASE stack' = Append(Below, Frame("failed", m, {})) /\ UNCHANGED <<attached, held, ret>>
  <2>1. PICK f : f = Frame("failed", m, {})
    OBVIOUS
  <2>2. f \in FrameType /\ f.op = "failed" /\ f.mod = Top.mod /\ ~Importer(f)
    BY <1>5, <2>1 DEF Frame, FrameType, Detaching, Importer
  <2>3. Named(f, Len(names), opened, over)
    BY <1>1, <1>4, <1>5, <2>2 DEF Named, Driving
  <2>4. stack' = Append(Below, f)
    BY <1>7, <2>1
  <2> HIDE DEF m
  <2>5. /\ Framed(stack', Len(names), opened, over) /\ Mods(stack') = Mods(stack)
        /\ stack' \in Seq(FrameType) /\ Imps(stack') = Imps(stack)
        /\ stack' # <<>> /\ stack'[1] = stack[1] /\ stack'[Len(stack')] = f
    <3>1. /\ Framed(stack', Len(names), opened, over) /\ Mods(stack') = Mods(stack)
          /\ stack' \in Seq(FrameType)
          /\ Imps(stack') = Imps(Below) \cup (IF Importer(f) THEN {f.mod} ELSE {})
          /\ stack' # <<>> /\ stack'[1] = stack[1] /\ stack'[Len(stack')] = f
      BY <1>1, <1>4, <2>2, <2>3, <2>4, TopBecomes DEF Bottom, Driving
    <3>2. Imps(stack') = Imps(Below) \cup {}
      BY <2>2, <3>1
    <3> QED  BY <1>4, <3>1, <3>2
  <2>6. attached' = attached /\ held' = held /\ ret' = ret
    BY <1>7
  <2>7. Listed'
    BY <1>2, <1>3, <2>5, <2>6, ListedStays
  <2>8. Counted'
    BY <1>1, <1>3, <2>5, CountedStays DEF ModuleInv
  <2>9. Result'
    BY <2>2, <2>5 DEF Result, Top
  <2>10. Framed(stack', Len(names'), opened', over')
    BY <1>1, <1>2, <2>5
  <2> QED  BY <2>7, <2>8, <2>9, <2>10 DEF ModuleInv
<1>q. QED  BY <1>6, <1>7 DEF attachReturns

(* ... or left, although its caller is told that it is not there.          *)
LEMMA UnsupportedStep ==
  ASSUME ModuleInv, ~Crashed, unsupported
  PROVE  ModuleInv'
<1>1. /\ stack # <<>> /\ Top.op = "attach" /\ attached' = Append(attached, Top.mod)
      /\ stack' = Below /\ ret' = NONE
      /\ UNCHANGED names /\ UNCHANGED live /\ UNCHANGED list /\ UNCHANGED held
      /\ UNCHANGED over /\ UNCHANGED stale /\ UNCHANGED drvVars
  BY DEF unsupported, OnTop
<1>2. opened' = opened /\ acounter' = acounter /\ UNCHANGED <<names, live, list, over, stale, opened>>
  BY <1>1 DEF drvVars
<1>3. /\ ModuleTypeOK /\ Len(names) \in Nat /\ Len(names') = Len(names) /\ acounter \in Nat
      /\ attached \in Seq(1 .. Len(names)) /\ live \subseteq 1 .. Len(names)
      /\ held \in [Modules -> [Modules -> Nat]]
  BY <1>1 DEF ModuleInv, Listed, ModuleTypeOK
<1>4. /\ Top \in FrameType /\ Named(Top, Len(names), opened, over) /\ Below # <<>>
      /\ Below \in Seq(FrameType) /\ Framed(Below, Len(names), opened, over)
      /\ Mods(stack) = Mods(Below) \cup {Top.mod} /\ Imps(stack) = Imps(Below)
      /\ Below[1] = stack[1]
  <2>1. Imps(stack) = Imps(Below) \cup {}
    BY <1>1, TopIs DEF Importer
  <2> QED  BY <1>1, <2>1, TopIs DEF Bottom, Driving
<1>5. Top.mod # NONE /\ Top.mod \in live
  BY <1>1, <1>4 DEF Crashed, Named
<1>6. attached' \in Seq(1 .. Len(names))
  BY <1>1, <1>3, <1>5, AppendProperties
<1>7. Listed'
  BY <1>1, <1>2, <1>3, <1>4, <1>6, ListedStays
<1>8. Counted'
  BY <1>1, <1>3, <1>4, CountedStays DEF ModuleInv
<1>9. Result'
  BY <1>1 DEF Result
<1>10. Framed(stack', Len(names'), opened', over')
  BY <1>1, <1>2, <1>4
<1>q. QED  BY <1>7, <1>8, <1>9, <1>10 DEF ModuleInv

(* MODULE_RemoveFromList takes the module out, also when it is the only    *)
(* one and nobody looks which one it is.                                   *)
LEMMA RemoveFromListIs ==
  ASSUME NEW S, list \in Seq(S), Unique(list), NEW m \in InList(list)
  PROVE  /\ RemoveFromList(m) \in Seq(S) /\ Unique(RemoveFromList(m))
         /\ InList(RemoveFromList(m)) = InList(list) \ {m}
<1>1. CASE Len(list) <= 1
  <2>1. RemoveFromList(m) = <<>>
    BY <1>1 DEF RemoveFromList
  <2>2. InList(list) = {m}
    <3>1. Len(list) \in Nat /\ DOMAIN list = 1 .. Len(list)
      OBVIOUS
    <3>2. \A i, j \in DOMAIN list : i = j
      BY <1>1, <3>1
    <3> QED  BY <3>2 DEF InList
  <2>3. InList(<<>>) = {} /\ Unique(<<>>) /\ <<>> \in Seq(S)
    BY DEF InList, Unique
  <2> QED  BY <2>1, <2>2, <2>3
<1>2. CASE ~(Len(list) <= 1)
  <2>1. RemoveFromList(m) = Without(list, m)
    BY <1>2 DEF RemoveFromList
  <2> QED  BY <2>1, WithoutSeq, WithoutOnce
<1>q. QED  BY <1>1, <1>2

(* The last call of a DllMain has returned.                                *)
LEMMA DetachReturnsStep ==
  ASSUME ModuleInv, ~Crashed, failedReturns \/ freeReturns \/ collectReturns
  PROVE  ModuleInv'
<1> DEFINE m == Top.mod
           l == RemoveFromList(m)
<1>1. /\ stack # <<>> /\ Top.op \in Detaching /\ live' = live \ {m} /\ list' = l
      /\ IF Top.op = "failed" THEN ret' = NONE /\ stale' = stale
         ELSE ret' = ret /\ GarbageCollection(l, live \ {m})
      /\ held' = [held EXCEPT ![m] = [o \in Modules |-> 0]]
      /\ UNCHANGED names /\ UNCHANGED over /\ UNCHANGED drvVars
  BY DEF failedReturns, freeReturns, collectReturns, OnTop, Unload, Detaching
<1>2. IF Top.op = "collect" /\ l # <<>>
        THEN /\ stack' = Append(Below, Frame("collect", l[Len(l)], {}))
             /\ attached' = Without(attached, l[Len(l)])
        ELSE stack' = Below /\ UNCHANGED attached
  BY DEF failedReturns, freeReturns, collectReturns, OnTop, Collect
<1>3. opened' = opened /\ acounter' = acounter
  BY <1>1 DEF drvVars
<1>4. /\ ModuleTypeOK /\ Unique(list) /\ InList(list) = live \ Imps(stack)
      /\ Len(names) \in Nat /\ Len(names') = Len(names) /\ Len(names) <= MaxLoads
      /\ acounter \in Nat /\ list \in Seq(1 .. Len(names)) /\ MaxLoads \in Nat
      /\ attached \in Seq(1 .. Len(names)) /\ live \subseteq 1 .. Len(names)
      /\ held \in [Modules -> [Modules -> Nat]] /\ ret \in Modules \cup {NONE}
  BY <1>1, ModuleAssumption DEF ModuleInv, Listed, ModuleTypeOK
<1>5. /\ Top \in FrameType /\ Named(Top, Len(names), opened, over)
      /\ Below \in Seq(FrameType) /\ Framed(Below, Len(names), opened, over)
      /\ Mods(stack) = Mods(Below) \cup {m} /\ Imps(stack) = Imps(Below) \cup {}
      /\ m \notin Imps(Below) /\ (m \in Mods(Below) => m \in over)
      /\ (Below # <<>> => Below[1] = stack[1]) /\ (Below = <<>> => stack[1] = Top)
      /\ (Below = <<>> <=> Top.op = "collect")
      /\ (Top.op = "free" => Below[Len(Below)].op \notin {"open", "resolve"})
  <2>1. ~Importer(Top) /\ (Top.op \in Bottom <=> Top.op = "collect")
    BY <1>1 DEF Importer, Detaching, Bottom, Driving
  <2> QED  BY <1>1, <2>1, TopIs
<1>6. m # NONE /\ m \in live /\ stale = {} /\ m \in Modules
  BY <1>1, <1>5 DEF Crashed, Named, FrameType, Detaching
<1>7. m \in InList(list)
  BY <1>4, <1>5, <1>6
<1>8. l \in Seq(1 .. Len(names)) /\ Unique(l) /\ InList(l) = InList(list) \ {m}
  BY <1>4, <1>7, RemoveFromListIs
<1>9. InList(l) = live' \ Imps(Below)
  BY <1>1, <1>4, <1>5, <1>8
<1> HIDE DEF m, l
<1>10. /\ stack' \in Seq(FrameType) /\ Framed(stack', Len(names), opened, over)
       /\ Imps(stack') = Imps(Below) /\ Mods(stack') \subseteq Mods(Below) \cup live'
       /\ attached' \in Seq(1 .. Len(names)) /\ Counted' /\ Result'
  <2>1. CASE Top.op = "collect" /\ l # <<>>
    <3>1. PICK g : g = l[Len(l)]
      OBVIOUS
    <3>2. g \in InList(l) /\ g \in 1 .. Len(names) /\ g \in Modules /\ g <= Len(names)
      <4>1. Len(l) \in DOMAIN l
        BY <1>8, <2>1
      <4>2. g \in InList(l) /\ g \in 1 .. Len(names)
        BY <1>8, <3>1, <4>1 DEF InList
      <4> QED  BY <1>4, <4>2 DEF Modules
    <3>3. PICK f : f = Frame("collect", g, {})
      OBVIOUS
    <3>4. f.op = "collect"
      BY <3>3 DEF Frame
    <3>5. stack' = Append(<<>>, f) /\ attached' = Without(attached, g) /\ Below = <<>>
      BY <1>2, <1>5, <2>1, <3>1, <3>3
    <3>6. acounter = 0 /\ Called(stack) = 0 /\ stack[1].op = "collect"
      BY <1>1, <1>5, <2>1 DEF ModuleInv, Counted, Called
    <3>7. \A d \in Drivers : opened[d] = NONE
      BY <3>6, NoneOpened DEF ModuleInv
    <3>8. /\ stack' # <<>> /\ stack' \in Seq(FrameType)
          /\ Framed(stack', Len(names), opened, over)
          /\ Mods(stack') = {g} /\ Imps(stack') = {} /\ stack'[1] = f /\ stack'[Len(stack')] = f
      BY <1>4, <3>2, <3>3, <3>5, <3>7, Collects
    <3>9. Imps(Below) = {}
      BY <3>5 DEF Imps
    <3>10. attached' \in Seq(1 .. Len(names))
      BY <1>4, <3>5, WithoutSeq
    <3>11. Counted'
      BY <1>1, <1>4, <3>4, <3>6, <3>8, CountedStays DEF ModuleInv, Driving
    <3>12. Result'
      BY <3>4, <3>8 DEF Result, Top
    <3> QED  BY <1>9, <3>2, <3>8, <3>9, <3>10, <3>11, <3>12
  <2>2. CASE ~(Top.op = "collect" /\ l # <<>>)
    <3>1. stack' = Below /\ attached' = attached
      BY <1>2, <2>2
    <3>2. CASE Below = <<>>
      <4>1. list' = <<>> /\ stack' = <<>> /\ stack[1].op = "collect"
        BY <1>1, <1>5, <2>2, <3>1, <3>2
      <4>2. Called(stack) = 0 /\ Called(stack') = 0 /\ Opened' = Opened
        BY <1>3, <4>1 DEF Called, Opened
      <4>3. Counted'
        BY <1>1, <1>3, <4>1, <4>2 DEF ModuleInv, Counted
      <4>4. Result'
        BY <4>1 DEF Result
      <4> QED  BY <1>4, <1>5, <3>1, <4>3, <4>4
    <3>3. CASE Below # <<>>
      <4>1. stack' # <<>> /\ stack'[1] = stack[1]
        BY <1>5, <3>1, <3>3
      <4>2. Counted'
        BY <1>1, <1>4, <4>1, CountedStays DEF ModuleInv
      <4>3. Top.op = "failed" \/ Top.op = "free"
        BY <1>1, <1>5, <3>3 DEF Detaching
      <4>4. Top.op = "free" => Top'.op \notin {"open", "resolve"}
        BY <1>5, <3>1 DEF Top
      <4>5. Result'
        BY <1>1, <4>3, <4>4 DEF Result
      <4> QED  BY <1>4, <1>5, <3>1, <4>2, <4>5
    <3> QED  BY <3>2, <3>3
  <2> QED  BY <2>1, <2>2
<1>11. stale' \subseteq Imps(stack')
  <2>1. stale' = {} \/ (l = <<>> /\ stale' = live')
    BY <1>1, <1>6 DEF GarbageCollection
  <2>2. l = <<>> => InList(l) = {}
    BY DEF InList
  <2> QED  BY <1>9, <1>10, <2>1, <2>2
<1>12. stale' \subseteq Modules /\ ret' \in Modules \cup {NONE} /\ held' \in [Modules -> [Modules -> Nat]]
  <2>1. stale' \subseteq Modules
    <3>1. 1 .. Len(names) \subseteq Modules
      BY <1>4 DEF Modules
    <3>2. stale' = {} \/ stale' = live \ {m}
      BY <1>1, <1>6 DEF GarbageCollection
    <3> QED  BY <1>4, <3>1, <3>2
  <2>2. held' \in [Modules -> [Modules -> Nat]]
    <3>1. [o \in Modules |-> 0] \in [Modules -> Nat]
      OBVIOUS
    <3> QED  BY <1>1, <1>4, <1>6, <3>1
  <2> QED  BY <1>1, <1>4, <2>1, <2>2
<1>13. ModuleTypeOK'
  <2>1. live' \subseteq 1 .. Len(names') /\ list' \in Seq(1 .. Len(names'))
        /\ attached' \in Seq(1 .. Len(names'))
    BY <1>1, <1>4, <1>8, <1>10
  <2> QED  BY <1>1, <1>3, <1>4, <1>10, <1>12, <2>1 DEF ModuleTypeOK, FrameType
<1>14. Unique(list') /\ InList(list') = live' \ Imps(stack')
  BY <1>1, <1>8, <1>9, <1>10
<1>15. \A d \in Drivers : opened'[d] \in live' \cup over' \cup {NONE}
  <2> TAKE d \in Drivers
  <2>1. opened[d] \in live \cup over \cup {NONE}
    BY DEF ModuleInv, Listed
  <2>2. opened[d] = m => m \in over
    BY <1>1, <1>5, <1>6 DEF Named, m, Detaching, Driving
  <2> QED  BY <1>1, <1>3, <2>1, <2>2
<1>16. Mods(stack') \subseteq live' \cup over' \cup {NONE}
  <2>1. Mods(Below) \subseteq live \cup over \cup {NONE}
    BY <1>5 DEF ModuleInv, Listed
  <2> QED  BY <1>1, <1>5, <1>10, <2>1
<1>17. Listed'
  BY <1>11, <1>13, <1>14, <1>15, <1>16 DEF Listed
<1>18. Framed(stack', Len(names'), opened', over')
  BY <1>1, <1>3, <1>4, <1>10
<1>q. QED  BY <1>10, <1>17, <1>18 DEF ModuleInv
---------------------------------------------------------------------------
(* ... the code of a DLL ...                                               *)
LEMMA DllLoadsStep ==
  ASSUME ModuleInv, DllLoads
  PROVE  ModuleInv'
<1>1. /\ stack # <<>> /\ UNCHANGED drvVars
      /\ UNCHANGED <<list, attached, over, stale, opened>> /\ acounter' = acounter
  BY DEF DllLoads, Foreign, drvVars
<1>2. PICK n \in Dlls : LoadLibrary(n, stack)
  BY DEF DllLoads
<1>3. acounter' \in Nat
  BY <1>1 DEF ModuleInv, Listed, ModuleTypeOK
<1>4. Framed(stack, Len(names), opened, over) /\ Mods(stack) \subseteq Mods(stack) \cup {NONE}
  BY DEF ModuleInv
<1>5. /\ Listed' /\ Framed(stack', Len(names'), opened', over') /\ Result'
      /\ stack' # <<>> /\ stack'[1] = stack[1]
      /\ Len(names) \in Nat /\ Len(names') \in Nat /\ Len(names) <= Len(names')
  BY <1>1, <1>2, <1>3, <1>4, LoadLibraryStep
<1>6. Counted'
  BY <1>1, <1>5, CountedStays DEF ModuleInv
<1>q. QED  BY <1>5, <1>6 DEF ModuleInv

(* DllMain frees a module.                                                 *)
LEMMA DllFreesStep ==
  ASSUME ModuleInv, DllFrees
  PROVE  ModuleInv'
<1>1. stack # <<>> /\ Top.op \in Detaching \cup Driving \cup {"attach"} /\ UNCHANGED drvVars
  BY DEF DllFrees, Foreign
<1>2. PICK m \in 1 .. Len(names) : held[Top.mod][m] > 0 /\ FreeLibrary(m, stack)
  BY DEF DllFrees
<1>3. opened' = opened /\ acounter' = acounter
  BY <1>1 DEF drvVars
<1>4. /\ Len(names) \in Nat /\ acounter' \in Nat /\ opened' \in [Drivers -> Modules \cup {NONE}]
      /\ \A d \in Drivers : opened'[d] \in {opened[d], NONE}
  BY <1>3 DEF ModuleInv, Listed, ModuleTypeOK
<1>5. Framed(stack, Len(names), opened', over) /\ Mods(stack) \subseteq Mods(stack) \cup {NONE}
  BY <1>3 DEF ModuleInv
<1>6. stack[Len(stack)].op \notin {"open", "resolve"} /\ held[stack[Len(stack)].mod][m] > 0
  BY <1>1, <1>2 DEF Top, Detaching, Driving
<1>7. /\ Listed' /\ Framed(stack', Len(names'), opened', over') /\ Result'
      /\ stack' # <<>> /\ stack'[1] = stack[1] /\ names' = names
  BY <1>1, <1>2, <1>4, <1>5, <1>6, FreeLibraryStep
<1>8. Counted'
  BY <1>1, <1>4, <1>7, CountedStays DEF ModuleInv
<1>q. QED  BY <1>7, <1>8 DEF ModuleInv
---------------------------------------------------------------------------
(* ... and the drivers.                                                    *)
LEMMA EmptyStack ==
  stack = <<>> => Mods(stack) = {} /\ Imps(stack) = {} /\ Called(stack) = 0
BY DEF Mods, Imps, Called

(* A driver loads its module, or finds it.                                 *)
LEMMA DrvOpenStep ==
  ASSUME ModuleInv, NEW d \in Drivers, ~Crashed, DrvOpen(d)
  PROVE  ModuleInv'
<1>1. /\ stack = <<>> /\ opened[d] = NONE /\ acounter' = acounter + 1
      /\ UNCHANGED <<list, attached, over, stale, opened>> /\ opened' = opened
  BY DEF DrvOpen
<1> DEFINE s == <<Call("open", d)>>
<1>2. PICK n \in Dlls : LoadLibrary(n, s)
  BY DEF DrvOpen
<1>3. Len(names) \in Nat /\ acounter \in Nat /\ acounter' \in Nat
  BY <1>1 DEF ModuleInv, Listed, ModuleTypeOK
<1>4. /\ s # <<>> /\ Framed(s, Len(names), opened, over) /\ Mods(s) = {NONE} /\ Imps(s) = {}
      /\ s[1] = Call("open", d)
  BY <1>1, <1>3, DriverCalls
<1> HIDE DEF s
<1>5. Mods(s) \subseteq Mods(stack) \cup {NONE} /\ Imps(s) = Imps(stack)
  BY <1>1, <1>4, EmptyStack
<1>6. /\ Listed' /\ Framed(stack', Len(names'), opened', over') /\ Result'
      /\ stack' # <<>> /\ stack'[1] = s[1]
      /\ Len(names) \in Nat /\ Len(names') \in Nat /\ Len(names) <= Len(names')
  BY <1>1, <1>2, <1>3, <1>4, <1>5, LoadLibraryStep
<1>7. Called(stack) = 0 /\ Called(stack') = 1 /\ stack'[1].op = "open" /\ Opened' = Opened
  BY <1>1, <1>4, <1>6, EmptyStack DEF Call, Called, Opened
<1>8. Counted'
  <2>1. \A e \in Drivers : opened'[e] \in 1 .. Len(names') \cup {NONE}
    BY <1>1, <1>6 DEF ModuleInv, Counted
  <2>2. IsFiniteSet(Opened) /\ acounter = Cardinality(Opened) + Called(stack)
    BY DEF ModuleInv, Counted
  <2>3. acounter' = Cardinality(Opened') + Called(stack')
    BY <1>1, <1>7, <2>2, FS_CardinalityType
  <2> QED  BY <1>6, <1>7, <2>1, <2>2, <2>3 DEF Counted, Driving
<1>q. QED  BY <1>6, <1>8 DEF ModuleInv

(* The DLL of an open driver is called.                                    *)
LEMMA SendDriverMessageStep ==
  ASSUME ModuleInv, NEW d \in Drivers, NEW g \in Driving, SendDriverMessage(d, g)
  PROVE  ModuleInv'
<1>1. /\ stack = <<>> /\ opened[d] # NONE /\ stack' = <<Proc(g, opened[d], d)>>
      /\ UNCHANGED <<names, live, list, over, stale, opened>> /\ UNCHANGED attached
      /\ UNCHANGED held /\ UNCHANGED ret /\ opened' = opened /\ acounter' = acounter
      /\ names' = names /\ over' = over
  BY DEF SendDriverMessage, listVars, drvVars
<1>2. /\ ModuleTypeOK /\ Len(names) \in Nat /\ acounter \in Nat /\ MaxLoads \in Nat
      /\ Len(names) <= MaxLoads
  BY ModuleAssumption DEF ModuleInv, Listed, ModuleTypeOK
<1>3. PICK m : m = opened[d]
  OBVIOUS
<1>4. m \in 1 .. Len(names) /\ m \in Modules /\ m <= Len(names) /\ m \in live \cup over \cup {NONE}
  BY <1>1, <1>2, <1>3 DEF ModuleInv, Counted, Listed, Modules
<1>5. PICK f : f = Proc(g, m, d)
  OBVIOUS
<1>6. /\ stack' # <<>> /\ stack' \in Seq(FrameType) /\ Framed(stack', Len(names), opened, over)
      /\ Mods(stack') = {m} /\ Imps(stack') = {} /\ stack'[1] = f /\ stack'[Len(stack')] = f
      /\ f.op = g /\ f.mod = m /\ f.drv = d
  <2>1. stack' = <<f>>
    BY <1>1, <1>3, <1>5
  <2> QED  BY <1>2, <1>4, <1>5, <2>1, ProcCalls
<1>7. Mods(stack) = {} /\ Imps(stack) = {} /\ Called(stack) = 0
  BY <1>1, EmptyStack
<1>8. ModuleTypeOK'
  BY <1>1, <1>2, <1>6 DEF ModuleTypeOK, FrameType
<1>9. /\ Unique(list') /\ InList(list') = live' \ Imps(stack') /\ stale' \subseteq Imps(stack')
      /\ \A e \in Drivers : opened'[e] \in live' \cup over' \cup {NONE}
  BY <1>1, <1>6, <1>7 DEF ModuleInv, Listed
<1>10. Mods(stack') \subseteq live' \cup over' \cup {NONE}
  BY <1>1, <1>4, <1>6
<1>11. Listed'
  BY <1>8, <1>9, <1>10 DEF Listed
<1>12. Called(stack') = 0 /\ Opened' = Opened
  BY <1>1, <1>6 DEF Called, Opened, Driving
<1>13. Counted'
  <2>1. stack'[1].op \in Driving => stack'[1].drv \in Drivers /\ opened'[stack'[1].drv] = stack'[1].mod
    BY <1>1, <1>3, <1>6
  <2>2. stack'[1].op # "collect"
    BY <1>6 DEF Driving
  <2>3. /\ \A e \in Drivers : opened'[e] \in 1 .. Len(names') \cup {NONE}
        /\ IsFiniteSet(Opened') /\ acounter' = Cardinality(Opened') + Called(stack')
    BY <1>1, <1>7, <1>12 DEF ModuleInv, Counted
  <2> QED  BY <1>6, <2>1, <2>2, <2>3 DEF Counted
<1>14. Result'
  BY <1>6 DEF Result, Top, Driving
<1>15. Framed(stack', Len(names'), opened', over')
  BY <1>1, <1>6
<1>q. QED  BY <1>11, <1>13, <1>14, <1>15 DEF ModuleInv

(* What a call of a driver's DLL says when it returns.                     *)
LEMMA ProcIs ==
  ASSUME ModuleInv, stack # <<>>, Top.op \in Driving
  PROVE  /\ Below = <<>> /\ stack[1] = Top /\ Imps(stack) = {} /\ Called(stack) = 0
         /\ Top.drv \in Drivers /\ opened[Top.drv] = Top.mod /\ Top.mod # NONE
         /\ Top.drv \in Opened /\ acounter # 0
<1>1. ~Importer(Top) /\ Top.op \in Bottom /\ Top.op \notin {"open", "close"}
  BY DEF Importer, Bottom, Driving
<1>2. /\ Below = <<>> /\ stack[1] = Top /\ Imps(stack) = Imps(Below) \cup {}
      /\ Named(Top, Len(names), opened, over)
  BY <1>1, TopIs
<1>3. Imps(stack) = {} /\ Called(stack) = 0 /\ Top.mod # NONE
  <2>1. Imps(Below) = {}
    BY <1>2 DEF Imps
  <2>2. Called(stack) = 0
    BY <1>1, <1>2 DEF Called
  <2>3. Top.mod # NONE
    BY <1>1, <1>2 DEF Named
  <2> QED  BY <1>2, <2>1, <2>2, <2>3
<1>4. Top.drv \in Drivers /\ opened[Top.drv] = Top.mod
  BY <1>2 DEF ModuleInv, Counted
<1>5. Top.drv \in Opened
  BY <1>3, <1>4 DEF Opened
<1>6. acounter # 0
  <2>1. IsFiniteSet(Opened) /\ acounter = Cardinality(Opened) + 0
    BY <1>3 DEF ModuleInv, Counted
  <2>2. Cardinality(Opened) \in Nat /\ Cardinality(Opened) # 0
    BY <1>5, <2>1, FS_CardinalityType, FS_EmptySet
  <2> QED  BY <2>1, <2>2
<1>q. QED  BY <1>2, <1>3, <1>4, <1>5, <1>6

(* DriverProc returns.                                                     *)
LEMMA MessageReturnsStep ==
  ASSUME ModuleInv, messageReturns
  PROVE  ModuleInv'
<1>1. /\ stack # <<>> /\ Top.op \in Driving /\ stack' = Below
      /\ UNCHANGED <<names, live, list, over, stale, opened>> /\ UNCHANGED attached
      /\ UNCHANGED held /\ UNCHANGED ret /\ opened' = opened /\ acounter' = acounter
      /\ names' = names /\ over' = over
  BY DEF messageReturns, OnTop, listVars, drvVars, Driving
<1>2. Below = <<>> /\ Imps(stack) = {} /\ Called(stack) = 0 /\ acounter # 0
  BY <1>1, ProcIs
<1>3. /\ stack' = <<>> /\ Mods(stack') = {} /\ Imps(stack') = {} /\ Called(stack') = 0
      /\ stack' \in Seq(FrameType)
  BY <1>1, <1>2 DEF Mods, Imps, Called
<1>4. /\ attached \in Seq(1 .. Len(names)) /\ held \in [Modules -> [Modules -> Nat]]
      /\ acounter \in Nat /\ ret \in Modules \cup {NONE}
  BY DEF ModuleInv, Listed, ModuleTypeOK
<1>5. Listed'
  BY <1>1, <1>2, <1>3, <1>4, ListedStays
<1>6. Opened' = Opened
  BY <1>1 DEF Opened
<1>7. Counted'
  BY <1>1, <1>2, <1>3, <1>6 DEF ModuleInv, Counted
<1>8. Result'
  BY <1>3 DEF Result
<1>9. Framed(stack', Len(names'), opened', over')
  BY <1>3, NothingFramed
<1>q. QED  BY <1>5, <1>7, <1>8, <1>9 DEF ModuleInv

(* A driver frees its module, and the last one everything.                 *)
LEMMA ClosingReturnsStep ==
  ASSUME ModuleInv, closingReturns
  PROVE  ModuleInv'
<1>1. /\ stack # <<>> /\ Top.op \in Driving
      /\ FreeLibrary(Top.mod, Append(Below, Call("close", Top.drv)))
      /\ opened' = [opened EXCEPT ![Top.drv] = NONE] /\ acounter' = acounter
  BY DEF closingReturns, OnTop, Driving
<1>2. /\ Len(names) \in Nat /\ acounter' \in Nat /\ opened \in [Drivers -> Modules \cup {NONE}]
  BY <1>1 DEF ModuleInv, Listed, ModuleTypeOK
<1>3. /\ Below = <<>> /\ Imps(stack) = {} /\ Called(stack) = 0 /\ Top.mod # NONE
      /\ Top.drv \in Drivers /\ opened[Top.drv] = Top.mod /\ Top.drv \in Opened
  BY <1>1, ProcIs
<1>4. PICK d \in Drivers : d = Top.drv
  BY <1>3
<1>5. /\ opened' \in [Drivers -> Modules \cup {NONE}] /\ opened'[d] = NONE
      /\ \A e \in Drivers : e # d => opened'[e] = opened[e]
      /\ \A e \in Drivers : opened'[e] \in {opened[e], NONE}
  BY <1>1, <1>2, <1>4
<1>6. PICK m \in 1 .. Len(names) : m = Top.mod
  BY <1>3 DEF ModuleInv, Counted
<1> DEFINE s == <<Call("close", d)>>
<1>7. /\ s # <<>> /\ Framed(s, Len(names), opened', over) /\ Mods(s) = {NONE} /\ Imps(s) = {}
      /\ s[1] = Call("close", d) /\ s[Len(s)] = Call("close", d)
      /\ s = Append(<<>>, Call("close", d))
  BY <1>2, <1>5, DriverCalls
<1> HIDE DEF s
<1>8. FreeLibrary(m, s)
  BY <1>1, <1>3, <1>4, <1>6, <1>7
<1>9. Mods(s) \subseteq Mods(stack) \cup {NONE} /\ Imps(s) = Imps(stack)
  BY <1>3, <1>7
<1>10. s[Len(s)].op \notin {"open", "resolve"} /\ s[Len(s)].mod = NONE
  BY <1>7 DEF Call
<1>11. /\ Listed' /\ Framed(stack', Len(names'), opened', over') /\ Result'
       /\ stack' # <<>> /\ stack'[1] = s[1] /\ names' = names
  BY <1>2, <1>5, <1>7, <1>8, <1>9, <1>10, FreeLibraryStep
<1>12. Called(stack') = 1 /\ stack'[1].op = "close"
  BY <1>7, <1>11 DEF Call, Called
<1>13. Opened' = Opened \ {d} /\ d \in Opened
  BY <1>3, <1>4, <1>5 DEF Opened
<1>14. Counted'
  <2>1. \A e \in Drivers : opened'[e] \in 1 .. Len(names') \cup {NONE}
    BY <1>5, <1>11 DEF ModuleInv, Counted
  <2>2. IsFiniteSet(Opened) /\ acounter = Cardinality(Opened) + Called(stack)
    BY DEF ModuleInv, Counted
  <2>3. /\ IsFiniteSet(Opened \ {d}) /\ Cardinality(Opened \ {d}) = Cardinality(Opened) - 1
        /\ Cardinality(Opened) \in Nat
    BY <1>13, <2>2, FS_RemoveElement, FS_CardinalityType
  <2>4. IsFiniteSet(Opened') /\ acounter' = Cardinality(Opened') + Called(stack')
    BY <1>1, <1>3, <1>12, <1>13, <2>2, <2>3
  <2> QED  BY <1>11, <1>12, <2>1, <2>4 DEF Counted, Driving
<1>q. QED  BY <1>11, <1>14 DEF ModuleInv

(* CodecRelease, when LoadLibrary or FreeLibrary has returned.             *)
LEMMA ReleaseStep ==
  ASSUME ModuleInv, stack # <<>>, Top.op \in {"open", "close"}, Release(Below),
         UNCHANGED <<names, live, list, held, over, stale, opened, ret>>
  PROVE  ModuleInv'
<1>1. UNCHANGED names /\ UNCHANGED live /\ UNCHANGED list /\ UNCHANGED held /\ UNCHANGED over
      /\ UNCHANGED stale /\ UNCHANGED opened /\ UNCHANGED ret
  OBVIOUS
<1>2. /\ acounter' = acounter - 1
      /\ IF acounter = 1 /\ list # <<>>
           THEN /\ stack' = Append(Below, Frame("collect", list[Len(list)], {}))
                /\ attached' = Without(attached, list[Len(list)])
           ELSE stack' = Below /\ UNCHANGED attached
  <2>1. acounter' = acounter - 1 /\ Collect(IF acounter = 1 THEN list ELSE <<>>, Below)
    BY DEF Release
  <2> QED  BY <2>1 DEF Collect
<1>3. /\ ModuleTypeOK /\ Len(names) \in Nat /\ InList(list) = live \ Imps(stack)
      /\ acounter \in Nat /\ list \in Seq(1 .. Len(names)) /\ Len(names) <= MaxLoads
      /\ attached \in Seq(1 .. Len(names)) /\ ret \in Modules \cup {NONE}
      /\ held \in [Modules -> [Modules -> Nat]] /\ MaxLoads \in Nat
  BY ModuleAssumption DEF ModuleInv, Listed, ModuleTypeOK
<1>4. /\ Below = <<>> /\ stack[1] = Top /\ Imps(stack) = Imps(Below) \cup {}
  <2>1. ~Importer(Top) /\ Top.op \in Bottom
    BY DEF Importer, Bottom, Driving
  <2> QED  BY <2>1, TopIs
<1>5. Imps(stack) = {} /\ InList(list) = live /\ Called(stack) = 1
  <2>1. Imps(Below) = {}
    BY <1>4 DEF Imps
  <2>2. Imps(stack) = {}
    BY <1>4, <2>1
  <2>3. Called(stack) = 1
    BY <1>4 DEF Called
  <2> QED  BY <1>3, <2>2, <2>3
<1>6. IsFiniteSet(Opened) /\ acounter = Cardinality(Opened) + 1 /\ Opened' = Opened
  BY <1>1, <1>5 DEF ModuleInv, Counted, Opened
<1>7. acounter' = Cardinality(Opened') /\ acounter' \in Nat /\ Cardinality(Opened) \in Nat
  BY <1>2, <1>6, FS_CardinalityType
<1>8. \A d \in Drivers : opened'[d] \in 1 .. Len(names') \cup {NONE}
  BY <1>1 DEF ModuleInv, Counted
<1>9. CASE acounter = 1 /\ list # <<>>
  <2>1. PICK g : g = list[Len(list)]
    OBVIOUS
  <2>2. g \in live /\ g \in 1 .. Len(names) /\ g \in Modules /\ g <= Len(names)
    <3>1. Len(list) \in DOMAIN list
      BY <1>3, <1>9
    <3>2. g \in InList(list) /\ g \in 1 .. Len(names)
      BY <1>3, <2>1, <3>1 DEF InList
    <3> QED  BY <1>3, <1>5, <3>2 DEF Modules
  <2>3. PICK f : f = Frame("collect", g, {})
    OBVIOUS
  <2>4. f.op = "collect"
    BY <2>3 DEF Frame
  <2>5. stack' = Append(<<>>, f) /\ attached' = Without(attached, g)
    BY <1>2, <1>4, <1>9, <2>1, <2>3
  <2>6. \A d \in Drivers : opened[d] = NONE
    BY <1>5, <1>9, NoneOpened DEF ModuleInv
  <2>7. /\ stack' # <<>> /\ stack' \in Seq(FrameType)
        /\ Framed(stack', Len(names), opened, over)
        /\ Mods(stack') = {g} /\ Imps(stack') = {} /\ stack'[1] = f /\ stack'[Len(stack')] = f
    BY <1>3, <2>2, <2>3, <2>5, <2>6, Collects
  <2>8. attached' \in Seq(1 .. Len(names))
    BY <1>3, <2>5, WithoutSeq
  <2>9. Listed'
    BY <1>1, <1>3, <1>5, <1>7, <2>2, <2>7, <2>8, ListedStays
  <2>10. Called(stack') = 0
    BY <2>4, <2>7 DEF Called
  <2>11. Counted'
    <3>1. acounter' = 0 /\ stack'[1].op \notin Driving
      BY <1>2, <1>9, <2>4, <2>7 DEF Driving
    <3> QED  BY <1>6, <1>7, <1>8, <2>7, <2>10, <3>1 DEF Counted
  <2>12. Result'
    BY <2>4, <2>7 DEF Result, Top
  <2>13. Framed(stack', Len(names'), opened', over')
    BY <1>1, <2>7
  <2> QED  BY <2>9, <2>11, <2>12, <2>13 DEF ModuleInv
<1>10. CASE ~(acounter = 1 /\ list # <<>>)
  <2>1. stack' = <<>> /\ attached' = attached
    BY <1>2, <1>4, <1>10
  <2>2. /\ Mods(stack') = {} /\ Imps(stack') = {} /\ Called(stack') = 0
        /\ stack' \in Seq(FrameType)
    BY <2>1 DEF Mods, Imps, Called
  <2>3. Listed'
    BY <1>1, <1>3, <1>5, <1>7, <2>1, <2>2, ListedStays
  <2>4. Counted'
    BY <1>1, <1>2, <1>6, <1>7, <1>8, <1>10, <2>1, <2>2 DEF Counted
  <2>5. Result'
    BY <2>1 DEF Result
  <2>6. Framed(stack', Len(names'), opened', over')
    BY <2>1, NothingFramed
  <2> QED  BY <2>3, <2>4, <2>5, <2>6 DEF ModuleInv
<1>q. QED  BY <1>9, <1>10

(* LoadLibrary returns to the driver.                                      *)
LEMMA OpenReturnsStep ==
  ASSUME ModuleInv, openReturns
  PROVE  ModuleInv'
<1>1. stack # <<>> /\ Top.op = "open" /\ ret # NONE
  BY DEF openReturns, OnTop
<1>2. /\ ModuleTypeOK /\ Len(names) \in Nat /\ InList(list) = live \ Imps(stack)
      /\ acounter \in Nat /\ live \subseteq 1 .. Len(names)
      /\ opened \in [Drivers -> Modules \cup {NONE}] /\ ret \in Modules \cup {NONE}
  BY DEF ModuleInv, Listed, ModuleTypeOK
<1>3. /\ Below = <<>> /\ stack[1] = Top /\ Imps(stack) = Imps(Below) \cup {}
      /\ Top \in FrameType /\ Named(Top, Len(names), opened, over)
  <2>1. ~Importer(Top) /\ Top.op \in Bottom
    BY <1>1 DEF Importer, Bottom, Driving
  <2> QED  BY <1>1, <2>1, TopIs
<1>4. Top.mod = NONE /\ Top.drv \in Drivers /\ opened[Top.drv] = NONE
  BY <1>1, <1>3 DEF Named
<1>5. ret \in live /\ ret \in 1 .. Len(names) /\ ret \in Modules
  BY <1>1, <1>2 DEF ModuleInv, Result
<1>6. Imps(stack) = {} /\ Called(stack) = 1
  <2>1. Imps(Below) = {}
    BY <1>3 DEF Imps
  <2>2. Called(stack) = 1
    BY <1>1, <1>3 DEF Called
  <2> QED  BY <1>3, <2>1, <2>2
<1>7. CASE /\ opened' = [opened EXCEPT ![Top.drv] = ret]
           /\ stack' = Append(Below, Proc("message", ret, Top.drv))
           /\ UNCHANGED <<listVars, ret, acounter>>
  <2>1. PICK d \in Drivers : d = Top.drv
    BY <1>4
  <2>2. PICK f : f = Proc("message", ret, d)
    OBVIOUS
  <2>3. /\ UNCHANGED names /\ UNCHANGED live /\ UNCHANGED list /\ UNCHANGED attached
        /\ UNCHANGED held /\ UNCHANGED over /\ UNCHANGED stale /\ UNCHANGED ret
        /\ UNCHANGED acounter /\ stack' = Append(<<>>, f) /\ opened' = [opened EXCEPT ![d] = ret]
    BY <1>3, <1>7, <2>1, <2>2 DEF listVars
  <2>4. /\ opened' \in [Drivers -> Modules \cup {NONE}] /\ opened'[d] = ret
        /\ \A e \in Drivers : e # d => opened'[e] = opened[e]
    BY <1>2, <1>5, <2>3
  <2>5. /\ stack' # <<>> /\ stack' \in Seq(FrameType) /\ Framed(stack', Len(names), opened', over)
        /\ Mods(stack') = {ret} /\ Imps(stack') = {} /\ stack'[1] = f /\ stack'[Len(stack')] = f
        /\ f.op = "message" /\ f.mod = ret /\ f.drv = d
    <3>1. "message" \in Driving /\ ret <= Len(names)
      BY <1>2, <1>5 DEF Driving
    <3> QED  BY <1>2, <1>5, <2>2, <2>3, <3>1, ProcCalls
  <2>6. ModuleTypeOK'
    BY <1>2, <2>3, <2>4, <2>5 DEF ModuleTypeOK, FrameType
  <2>7. \A e \in Drivers : opened'[e] \in live' \cup over' \cup {NONE}
    BY <1>5, <2>3, <2>4 DEF ModuleInv, Listed
  <2>8. Unique(list') /\ InList(list') = live' \ Imps(stack') /\ stale' \subseteq Imps(stack')
    BY <1>2, <1>6, <2>3, <2>5 DEF ModuleInv, Listed
  <2>9. Mods(stack') \subseteq live' \cup over' \cup {NONE}
    BY <1>5, <2>3, <2>5
  <2>10. Listed'
    BY <2>6, <2>7, <2>8, <2>9 DEF Listed
  <2>11. Opened' = Opened \cup {d} /\ d \notin Opened /\ Called(stack') = 0
    BY <1>1, <1>4, <2>1, <2>4, <2>5 DEF Opened, Called
  <2>12. Counted'
    <3>1. IsFiniteSet(Opened) /\ acounter = Cardinality(Opened) + 1
      BY <1>6 DEF ModuleInv, Counted
    <3>2. /\ IsFiniteSet(Opened \cup {d}) /\ Cardinality(Opened \cup {d}) = Cardinality(Opened) + 1
          /\ Cardinality(Opened) \in Nat
      BY <2>11, <3>1, FS_AddElement, FS_CardinalityType
    <3>3. \A e \in Drivers : opened'[e] \in 1 .. Len(names') \cup {NONE}
      BY <1>5, <2>3, <2>4 DEF ModuleInv, Counted
    <3>4. acounter' = Cardinality(Opened') + Called(stack') /\ IsFiniteSet(Opened')
      BY <2>3, <2>11, <3>1, <3>2
    <3>5. stack'[1].op # "collect" /\ stack'[1].drv \in Drivers /\ opened'[stack'[1].drv] = stack'[1].mod
      BY <2>4, <2>5
    <3> QED  BY <2>5, <3>3, <3>4, <3>5 DEF Counted
  <2>13. Result'
    BY <2>5 DEF Result, Top
  <2>14. Framed(stack', Len(names'), opened', over')
    BY <2>3, <2>5
  <2> QED  BY <2>10, <2>12, <2>13, <2>14 DEF ModuleInv
<1>8. CASE FreeLibrary(ret, Append(Below, Call("close", Top.drv))) /\ UNCHANGED drvVars
  <2> DEFINE f == Call("close", Top.drv)
             s == Append(Below, f)
  <2>1. f \in FrameType /\ f.op = "close" /\ f.mod = NONE /\ f.drv = Top.drv
    BY <1>4 DEF Call, FrameType
  <2>2. Named(f, Len(names), opened, over)
    BY <1>2, <1>4, <2>1 DEF Named, NONE
  <2>3. FreeLibrary(ret, s) /\ opened' = opened /\ acounter' = acounter
    BY <1>8 DEF drvVars
  <2> HIDE DEF f
  <2>4. /\ Framed(s, Len(names), opened, over) /\ Mods(s) = Mods(stack) /\ Imps(s) = {}
        /\ s # <<>> /\ s[1] = f /\ s[Len(s)] = f
    <3>1. /\ Framed(s, Len(names), opened, over) /\ Mods(s) = Mods(stack)
          /\ Imps(s) = Imps(Below) \cup (IF Importer(f) THEN {f.mod} ELSE {})
          /\ s # <<>> /\ s[1] = f /\ s[Len(s)] = f
      BY <1>1, <1>3, <1>4, <2>1, <2>2, TopBecomes DEF Bottom, Importer, Driving
    <3>2. ~Importer(f) /\ Imps(Below) = {}
      BY <1>3, <2>1 DEF Importer, Imps
    <3> QED  BY <3>1, <3>2
  <2> HIDE DEF s
  <2>5. /\ opened' \in [Drivers -> Modules \cup {NONE}] /\ acounter' \in Nat
        /\ \A d \in Drivers : opened'[d] \in {opened[d], NONE}
        /\ Framed(s, Len(names), opened', over) /\ Mods(s) \subseteq Mods(stack) \cup {NONE}
    BY <1>2, <2>3, <2>4
  <2>6. s[Len(s)].op \notin {"open", "resolve"} /\ s[Len(s)].mod = NONE
    BY <2>1, <2>4
  <2>7. /\ Listed' /\ Framed(stack', Len(names'), opened', over') /\ Result'
        /\ stack' # <<>> /\ stack'[1] = s[1] /\ names' = names
    BY <1>5, <1>6, <2>3, <2>4, <2>5, <2>6, FreeLibraryStep
  <2>8. Counted'
    BY <1>1, <1>2, <1>3, <1>8, <2>1, <2>4, <2>7, CountedStays DEF ModuleInv, Driving
  <2> QED  BY <2>7, <2>8 DEF ModuleInv
<1>q. QED  BY <1>7, <1>8 DEF openReturns
---------------------------------------------------------------------------
(* Nothing is loaded at first.                                             *)
LEMMA ModuleStart ==
  ModuleInit => ModuleInv
<1> SUFFICES ASSUME ModuleInit PROVE ModuleInv
  OBVIOUS
<1>1. /\ names = <<>> /\ live = {} /\ list = <<>> /\ attached = <<>>
      /\ held = [o \in Modules |-> [m \in Modules |-> 0]] /\ over = {} /\ stale = {}
      /\ acounter = 0 /\ opened = [d \in Drivers |-> NONE] /\ stack = <<>> /\ ret = NONE
  BY DEF ModuleInit
<1>2. Mods(stack) = {} /\ Imps(stack) = {} /\ Called(stack) = 0
  BY <1>1, EmptyStack
<1>3. Len(names) = 0 /\ MaxLoads \in Nat
  BY <1>1, ModuleAssumption
<1>4. ModuleTypeOK
  <2>1. held \in [Modules -> [Modules -> Nat]]
    <3>1. [m \in Modules |-> 0] \in [Modules -> Nat]
      OBVIOUS
    <3> QED  BY <1>1, <3>1
  <2>2. opened \in [Drivers -> Modules \cup {NONE}]
    BY <1>1
  <2>3. /\ names \in Seq(Dlls) /\ list \in Seq(1 .. Len(names)) /\ attached \in Seq(1 .. Len(names))
        /\ stack \in Seq(FrameType)
    BY <1>1
  <2>4. Len(names) <= MaxLoads
    BY <1>3
  <2> QED  BY <1>1, <2>1, <2>2, <2>3, <2>4 DEF ModuleTypeOK, FrameType
<1>5. Listed
  <2>1. Unique(list) /\ InList(list) = {}
    BY <1>1 DEF Unique, InList
  <2> QED  BY <1>1, <1>2, <1>4, <2>1 DEF Listed
<1>6. Counted
  <2>1. Opened = {}
    BY <1>1 DEF Opened
  <2>2. IsFiniteSet(Opened) /\ Cardinality(Opened) = 0
    BY <2>1, FS_EmptySet
  <2> QED  BY <1>1, <1>2, <2>2 DEF Counted
<1>7. Result
  BY <1>1 DEF Result
<1>8. Framed(stack, Len(names), opened, over)
  BY <1>1, NothingFramed
<1>q. QED  BY <1>5, <1>6, <1>7, <1>8 DEF ModuleInv

(* The same for every step, and for none.                                  *)
LEMMA ModuleStep ==
  ModuleInv /\ [ModuleNext]_moduleVars => ModuleInv'
<1> SUFFICES ASSUME ModuleInv, [ModuleNext]_moduleVars PROVE ModuleInv'
  OBVIOUS
<1>1. CASE UNCHANGED moduleVars
  <2>1. /\ UNCHANGED names /\ UNCHANGED live /\ UNCHANGED list /\ UNCHANGED attached
        /\ UNCHANGED held /\ UNCHANGED over /\ UNCHANGED stale /\ UNCHANGED ret
        /\ UNCHANGED acounter /\ UNCHANGED opened /\ UNCHANGED stack
    BY <1>1 DEF moduleVars, listVars, drvVars
  <2>2. Listed'
    BY <2>1 DEF ModuleInv, Listed, ModuleTypeOK
  <2>3. Counted'
    BY <2>1 DEF ModuleInv, Counted, Opened
  <2>4. Result'
    BY <2>1 DEF ModuleInv, Result, Top
  <2>5. Framed(stack', Len(names'), opened', over')
    BY <2>1 DEF ModuleInv
  <2> QED  BY <2>2, <2>3, <2>4, <2>5 DEF ModuleInv
<1>2. CASE ModuleNext
  <2>0. ~Crashed
    BY <1>2 DEF ModuleNext
  <2>1. CASE fixupImports
    BY <2>1, FixupImportsStep
  <2>2. CASE resolved
    BY <2>2, ResolvedStep
  <2>3. CASE DllProcessAttach
    BY <2>0, <2>3, DllProcessAttachStep
  <2>4. CASE attachReturns
    BY <2>0, <2>4, AttachReturnsStep
  <2>5. CASE failedReturns \/ freeReturns \/ collectReturns
    BY <2>0, <2>5, DetachReturnsStep
  <2>6. CASE DllLoads
    BY <2>6, DllLoadsStep
  <2>7. CASE DllFrees
    BY <2>7, DllFreesStep
  <2>8. CASE openReturns
    BY <2>8, OpenReturnsStep
  <2>9. CASE openFails
    <3>1. stack # <<>> /\ Top.op \in {"open", "close"} /\ Release(Below)
          /\ UNCHANGED <<names, live, list, held, over, stale, opened, ret>>
      BY <2>9 DEF openFails, OnTop
    <3> QED  BY <3>1, ReleaseStep
  <2>10. CASE closeReturns
    <3>1. stack # <<>> /\ Top.op \in {"open", "close"} /\ Release(Below)
          /\ UNCHANGED <<names, live, list, held, over, stale, opened, ret>>
      BY <2>10 DEF closeReturns, OnTop
    <3> QED  BY <3>1, ReleaseStep
  <2>11. CASE \E d \in Drivers : DrvOpen(d)
    BY <2>0, <2>11, DrvOpenStep
  <2>12. CASE \E d \in Drivers : SendDriverMessage(d, "message") \/ DrvClose(d)
    <3>1. "message" \in Driving /\ "closing" \in Driving
      BY DEF Driving
    <3> QED  BY <2>12, <3>1, SendDriverMessageStep DEF DrvClose
  <2>13. CASE unsupported
    BY <2>0, <2>13, UnsupportedStep
  <2>14. CASE messageReturns
    BY <2>14, MessageReturnsStep
  <2>15. CASE closingReturns
    BY <2>15, ClosingReturnsStep
  <2> QED  BY <1>2, <2>1, <2>2, <2>3, <2>4, <2>5, <2>6, <2>7, <2>8, <2>9, <2>10, <2>11, <2>12,
              <2>13, <2>14, <2>15 DEF ModuleNext
<1>q. QED  BY <1>1, <1>2

(* The invariant of the modules, for any DLLs, imports, drivers and depth  *)
(* of calls.                                                               *)
THEOREM ModuleInvariant == ModuleSpec => []ModuleInv
  BY ModuleStart, ModuleStep, PTL DEF ModuleSpec

(* The variables keep their types.                                         *)
THEOREM ModuleTypesCorrect == ModuleSpec => []ModuleTypeOK
  BY ModuleInvariant, InvariantsFollow, PTL

(* The list has each module that is attached or detached once, and no      *)
(* other, whatever DllMain does to it.                                     *)
THEOREM ListIsExact == ModuleSpec => []ListExact
  BY ModuleInvariant, InvariantsFollow, PTL

(* Whoever uses a module finds it, unless it was taken from him.           *)
THEOREM UsersFindTheirs == ModuleSpec => []UsersAlive
  BY ModuleInvariant, InvariantsFollow, PTL

(* Nothing outlives the last driver.                                       *)
THEOREM LastTakesAll == ModuleSpec => []AllGone
  BY ModuleInvariant, InvariantsFollow, PTL

---------------------------------------------------------------------------
(* The registry.                                                           *)

(* The first entry of a name.                                              *)
First(s, n, i) == i \in DOMAIN s /\ s[i].name = n /\ \A j \in 1 .. i - 1 : s[j].name # n

(* The entry the search finds is the first one of that name.               *)
LEMMA FirstIs ==
  ASSUME NEW s \in Seq(Entries), NEW n, NEW i, First(s, n, i)
  PROVE  Found(s, n) /\ Index(s, n) = i /\ Query(s, n) = s[i].value
<1>1. Len(s) \in Nat /\ DOMAIN s = 1 .. Len(s) /\ i \in DOMAIN s /\ Found(s, n)
  BY DEF First, Found
<1>2. ASSUME NEW j \in DOMAIN s, First(s, n, j) PROVE j = i
  <2>1. ~(j < i) /\ ~(i < j)
    BY <1>1, <1>2 DEF First
  <2> QED  BY <1>1, <2>1
<1>3. Index(s, n) = CHOOSE j \in DOMAIN s : First(s, n, j)
  BY DEF Index, First
<1>4. Index(s, n) = i
  BY <1>1, <1>2, <1>3
<1>q. QED  BY <1>1, <1>4 DEF Query

(* The search ends at a first entry if there is one.                       *)
LEMMA FirstExists ==
  ASSUME NEW s \in Seq(Entries), NEW n, Found(s, n)
  PROVE  First(s, n, Index(s, n))
<1> DEFINE S == {i \in DOMAIN s : s[i].name = n}
<1>1. Len(s) \in Nat /\ DOMAIN s = 1 .. Len(s)
  OBVIOUS
<1>2. S \subseteq Nat /\ S # {}
  BY <1>1 DEF Found
<1> HIDE DEF S
<1>3. PICK i \in S : \A j \in S : i <= j
  BY <1>2, LeastOf
<1>4. First(s, n, i)
  <2>1. i \in DOMAIN s /\ s[i].name = n
    BY DEF S
  <2>2. \A j \in 1 .. i - 1 : j \in DOMAIN s /\ ~(i <= j)
    BY <1>1, <2>1
  <2>3. \A j \in 1 .. i - 1 : s[j].name # n
    BY <1>3, <2>2 DEF S
  <2> QED  BY <2>1, <2>3 DEF First
<1>q. QED  BY <1>4, FirstIs

(* A name is read in another array where it begins as well.                *)
LEMMA QuerySame ==
  ASSUME NEW s \in Seq(Entries), NEW t \in Seq(Entries), NEW n, NEW i, NEW j,
         First(s, n, i), First(t, n, j), t[j].value = s[i].value
  PROVE  Query(t, n) = Query(s, n)
BY FirstIs

(* insert_reg_value: the entry that is replaced or added, and the others.  *)
LEMMA InsertIs ==
  ASSUME NEW s \in Seq(Entries), NEW n \in Names, NEW v \in Values \cup {DIR, BLANK},
         Found(s, n) \/ ~frayed
  PROVE  LET new == Insert(s, n, v)
             r   == Index(new, n)
         IN /\ new \in Seq(Entries) /\ First(new, n, r) /\ new[r] = [name |-> n, value |-> v]
            /\ Len(s) \in Nat /\ Len(new) \in Nat
            /\ IF Found(s, n) THEN First(s, n, r) /\ Len(new) = Len(s)
               ELSE r = Len(s) + 1 /\ Len(new) = Len(s) + 1
            /\ \A i \in DOMAIN s : i # r => new[i] = s[i]
<1> DEFINE new == Insert(s, n, v)
<1>0. PICK e : e = [name |-> n, value |-> v]
  OBVIOUS
<1>1. /\ Len(s) \in Nat /\ DOMAIN s = 1 .. Len(s) /\ e \in Entries /\ e.name = n
      /\ \A i \in DOMAIN s : s[i] \in Entries
  <2>1. Len(s) \in Nat /\ DOMAIN s = 1 .. Len(s) /\ \A i \in DOMAIN s : s[i] \in Entries
    OBVIOUS
  <2> QED  BY <1>0, <2>1 DEF Entries
<1>2. CASE Found(s, n)
  <2>1. PICK r : r = Index(s, n)
    OBVIOUS
  <2>2. First(s, n, r) /\ r \in DOMAIN s
    BY <1>2, <2>1, FirstExists DEF First
  <2>3. new = [s EXCEPT ![r] = e]
    BY <1>0, <1>2, <2>1 DEF Insert
  <2> HIDE DEF new
  <2>4. /\ new \in Seq(Entries) /\ Len(new) = Len(s) /\ DOMAIN new = DOMAIN s /\ new[r] = e
        /\ \A i \in DOMAIN s : i # r => new[i] = s[i]
    BY <1>1, <2>2, <2>3
  <2>5. First(new, n, r)
    <3>1. \A j \in 1 .. r - 1 : j \in DOMAIN s /\ j # r
      BY <1>1, <2>2
    <3> QED  BY <1>1, <2>2, <2>4, <3>1 DEF First
  <2>6. Index(new, n) = r
    BY <2>4, <2>5, FirstIs
  <2> QED  BY <1>0, <1>1, <1>2, <2>2, <2>4, <2>5, <2>6 DEF new
<1>3. CASE ~Found(s, n)
  <2>1. PICK r : r = Len(s) + 1
    OBVIOUS
  <2>2. new = Append(s, e)
    BY <1>0, <1>3 DEF Insert
  <2> HIDE DEF new
  <2>3. /\ new \in Seq(Entries) /\ Len(new) = r /\ DOMAIN new = 1 .. r /\ new[r] = e
        /\ \A i \in DOMAIN s : new[i] = s[i]
    BY <1>1, <2>1, <2>2, AppendProperties
  <2>4. First(new, n, r)
    <3>1. \A j \in 1 .. r - 1 : j \in DOMAIN s
      BY <1>1, <2>1
    <3>2. \A j \in 1 .. r - 1 : new[j].name # n
      BY <1>3, <2>3, <3>1 DEF Found
    <3>3. r \in DOMAIN new
      BY <1>1, <2>1, <2>3
    <3> QED  BY <1>1, <2>3, <3>2, <3>3 DEF First
  <2>5. Index(new, n) = r
    BY <2>3, <2>4, FirstIs
  <2>6. Len(new) \in Nat /\ Len(new) = Len(s) + 1
    BY <1>1, <2>1, <2>3
  <2> QED  BY <1>0, <1>1, <1>3, <2>1, <2>3, <2>4, <2>5, <2>6 DEF new
<1>q. QED  BY <1>2, <1>3

(* The value that was set is read for its name, the other names read what  *)
(* they did.                                                               *)
LEMMA InsertReads ==
  ASSUME NEW s \in Seq(Entries), NEW n \in Names, NEW v \in Values \cup {DIR, BLANK}
  PROVE  /\ Insert(s, n, v) \in Seq(Entries)
         /\ Found(s, n) \/ ~frayed => Query(Insert(s, n, v), n) = v
         /\ \A m : m # n /\ Found(s, m) => Query(Insert(s, n, v), m) = Query(s, m)
<1>0. CASE ~(Found(s, n) \/ ~frayed)
  BY <1>0 DEF Insert
<1>r. CASE Found(s, n) \/ ~frayed
  <2> DEFINE new == Insert(s, n, v)
             r   == Index(new, n)
  <2>1. /\ new \in Seq(Entries) /\ First(new, n, r) /\ new[r] = [name |-> n, value |-> v]
        /\ Len(s) \in Nat /\ Len(new) \in Nat
        /\ IF Found(s, n) THEN First(s, n, r) /\ Len(new) = Len(s)
           ELSE r = Len(s) + 1 /\ Len(new) = Len(s) + 1
        /\ \A i \in DOMAIN s : i # r => new[i] = s[i]
    BY <1>r, InsertIs
  <2> HIDE DEF new, r
  <2>2. Query(new, n) = v
    BY <2>1, FirstIs
  <2>3. ASSUME NEW m, m # n, Found(s, m) PROVE Query(new, m) = Query(s, m)
    <3>1. PICK i : First(s, m, i)
      BY <2>3, FirstExists
    <3>2. DOMAIN s = 1 .. Len(s) /\ DOMAIN new = 1 .. Len(new) /\ Len(s) <= Len(new)
      <4>1. Len(s) <= Len(new)
        BY <2>1
      <4> QED  BY <2>1, <4>1
    <3>3. i \in DOMAIN new /\ \A j \in 1 .. i : j \in DOMAIN s
      <4>1. i \in 1 .. Len(s)
        BY <3>1, <3>2 DEF First
      <4>2. Len(s) \in Nat /\ Len(new) \in Nat
        BY <2>1
      <4> QED  BY <3>2, <4>1, <4>2
    <3>4. i # r /\ new[i] = s[i]
      <4>1. r \in DOMAIN s => s[r].name = n
        <5>1. CASE Found(s, n)
          BY <2>1, <5>1 DEF First
        <5>2. CASE ~Found(s, n)
          <6>1. r = Len(s) + 1
            BY <2>1, <5>2
          <6>2. Len(s) \in Nat
            BY <2>1
          <6> QED  BY <3>2, <6>1, <6>2
        <5> QED  BY <5>1, <5>2
      <4> QED  BY <2>1, <2>3, <3>1, <4>1 DEF First
    <3>5. \A j \in 1 .. i - 1 : new[j].name # m
      <4> TAKE j \in 1 .. i - 1
      <4>1. j \in DOMAIN s /\ s[j].name # m
        BY <3>1, <3>2 DEF First
      <4> QED  BY <2>1, <2>3, <4>1
    <3>6. First(new, m, i)
      BY <3>1, <3>3, <3>4, <3>5 DEF First
    <3> QED  BY <2>1, <3>1, <3>4, <3>6, QuerySame
  <2>q. QED  BY <2>1, <2>2, <2>3 DEF new
<1>q. QED  BY <1>0, <1>r

(* An array that was not written to the end reads as it would have, but for*)
(* the names of the entries that are missing.                              *)
LEMMA PrefixReads ==
  ASSUME NEW s \in Seq(Entries), NEW j \in 0 .. Len(s)
  PROVE  /\ SubSeq(s, 1, j) \in Seq(Entries)
         /\ \A m : m \notin NamesFrom(s, j + 1) => Query(SubSeq(s, 1, j), m) = Query(s, m)
<1>1. PICK t : t = SubSeq(s, 1, j)
  OBVIOUS
<1>2. /\ Len(s) \in Nat /\ DOMAIN s = 1 .. Len(s) /\ j \in Nat /\ j <= Len(s)
      /\ \A i \in DOMAIN s : s[i] \in Entries
  OBVIOUS
<1>3. t \in Seq(Entries) /\ DOMAIN t = 1 .. j /\ \A i \in 1 .. j : t[i] = s[i]
  <2>1. t = [i \in 1 .. j |-> s[i]]
    BY <1>1, <1>2
  <2>2. \A i \in 1 .. j : i \in DOMAIN s
    BY <1>2
  <2>3. t \in [1 .. j -> Entries]
    BY <1>2, <2>1, <2>2
  <2> QED  BY <1>2, <2>1, <2>3, SeqDef
<1>4. ASSUME NEW m, m \notin NamesFrom(s, j + 1)
      PROVE  Query(t, m) = Query(s, m)
  <2>1. CASE Found(s, m)
    <3>1. PICK i : First(s, m, i)
      BY <2>1, FirstExists
    <3>2. i \in DOMAIN s /\ s[i].name = m
      BY <3>1 DEF First
    <3>3. i \in 1 .. j
      <4>1. ~(i >= j + 1)
        BY <1>4, <3>2 DEF NamesFrom
      <4> QED  BY <1>2, <3>2, <4>1
    <3>4. \A x \in 1 .. i - 1 : x \in 1 .. j
      BY <1>2, <3>3
    <3>5. \A x \in 1 .. i - 1 : t[x].name # m
      BY <1>3, <3>1, <3>4 DEF First
    <3>6. First(t, m, i)
      BY <1>3, <3>2, <3>3, <3>5 DEF First
    <3> QED  BY <1>3, <3>1, <3>3, <3>6, QuerySame
  <2>2. CASE ~Found(s, m)
    <3>1. \A i \in 1 .. j : i \in DOMAIN s
      BY <1>2
    <3>2. ~Found(t, m)
      BY <1>3, <2>2, <3>1 DEF Found
    <3> QED  BY <2>2, <3>2 DEF Query
  <2> QED  BY <2>1, <2>2
<1>q. QED  BY <1>1, <1>3, <1>4

(* One entry whose value is not known costs only its own name.             *)
LEMMA SpoiledReads ==
  ASSUME NEW s \in Seq(Entries), NEW n, Found(s, n)
  PROVE  LET t == [s EXCEPT ![Index(s, n)].value = BLANK]
         IN t \in Seq(Entries) /\ \A m : m # n => Query(t, m) = Query(s, m)
<1>1. PICK r : r = Index(s, n)
  OBVIOUS
<1>2. PICK e : e = [s[r] EXCEPT !.value = BLANK]
  OBVIOUS
<1>3. PICK t : t = [s EXCEPT ![Index(s, n)].value = BLANK]
  OBVIOUS
<1>4. First(s, n, r)
  BY <1>1, FirstExists
<1>5. Len(s) \in Nat /\ DOMAIN s = 1 .. Len(s) /\ \A i \in DOMAIN s : s[i] \in Entries
  OBVIOUS
<1>6. r \in DOMAIN s /\ s[r].name = n
  BY <1>4 DEF First
<1>7. e \in Entries /\ e.name = n
  <2>1. s[r] \in [name : Names, value : Values \cup {DIR, BLANK}]
    BY <1>5, <1>6 DEF Entries
  <2> QED  BY <1>2, <1>6, <2>1 DEF Entries
<1>8. t = [s EXCEPT ![r] = e]
  BY <1>1, <1>2, <1>3
<1>9. t \in [1 .. Len(s) -> Entries] /\ t[r] = e /\ \A i \in DOMAIN s : i # r => t[i] = s[i]
  BY <1>5, <1>6, <1>7, <1>8
<1>10. t \in Seq(Entries) /\ DOMAIN t = DOMAIN s
  BY <1>5, <1>9, SeqDef
<1>11. \A i \in DOMAIN s : t[i].name = s[i].name
  BY <1>6, <1>7, <1>9
<1>12. ASSUME NEW m, m # n PROVE Query(t, m) = Query(s, m)
  <2>1. CASE Found(s, m)
    <3>1. PICK i : First(s, m, i)
      BY <2>1, FirstExists
    <3>2. i \in DOMAIN s /\ s[i].name = m /\ i # r
      BY <1>6, <1>12, <3>1 DEF First
    <3>3. \A x \in 1 .. i - 1 : x \in DOMAIN s /\ s[x].name # m
      BY <1>5, <3>1, <3>2 DEF First
    <3>4. First(t, m, i)
      BY <1>10, <1>11, <3>2, <3>3 DEF First
    <3> QED  BY <1>9, <1>10, <3>1, <3>2, <3>4, QuerySame
  <2>2. CASE ~Found(s, m)
    <3>1. ~Found(t, m)
      BY <1>10, <1>11, <2>2 DEF Found
    <3> QED  BY <2>2, <3>1 DEF Query
  <2> QED  BY <2>1, <2>2
<1>q. QED  BY <1>3, <1>10, <1>12
---------------------------------------------------------------------------
(* The inductive invariant: handles are numbered from 1, the roots' are    *)
(* their names, and what was written is read, from the array and, if it    *)
(* was saved, from the file.                                               *)
HandlesAre(hs, z) ==
  /\ hs \subseteq [h : Roots \cup Nat, name : Names]
  /\ \A s, t \in hs : s.h = t.h => s = t
  /\ \A t \in hs : t.h \in Roots \cup 1 .. z

RegistryInv == RegistryTypeOK /\ ValuesKept /\ HandlesAre(handles, zz)

(* create_registry writes an entry for each root.                          *)
LEMMA RootEntriesAre ==
  RootEntries \in Seq(Entries)
<1> DEFINE N == Cardinality(Roots)
           T == {[name |-> <<r>>, value |-> BLANK] : r \in Roots}
           P(s) == \A i, j \in DOMAIN s : s[i] = s[j] => i = j
<1>1. IsFiniteSet(Roots) /\ N \in Nat
  BY RegistryAssumption, FS_CardinalityType
<1>2. PICK f \in Bijection(1 .. N, Roots) : TRUE
  <2>1. PICK n \in Nat : ExistsBijection(1 .. n, Roots)
    BY <1>1, FS_NatBijection
  <2>2. N = n
    BY <2>1, FS_CountingElements
  <2> QED  BY <2>1, <2>2 DEF ExistsBijection
<1>3. f \in [1 .. N -> Roots] /\ \A a, b \in 1 .. N : f[a] = f[b] => a = b
  BY <1>2 DEF Bijection, Injection, IsInjective
<1>4. \E s \in [1 .. N -> T] : P(s)
  <2> DEFINE s == [i \in 1 .. N |-> [name |-> <<f[i]>>, value |-> BLANK]]
  <2>1. s \in [1 .. N -> T]
    BY <1>3
  <2>2. P(s)
    <3> TAKE i, j \in DOMAIN s
    <3> HAVE s[i] = s[j]
    <3>1. s[i].name = s[j].name /\ i \in 1 .. N /\ j \in 1 .. N
      OBVIOUS
    <3>2. s[i].name = <<f[i]>> /\ s[j].name = <<f[j]>>
      BY <3>1
    <3>3. <<f[i]>>[1] = <<f[j]>>[1]
      BY <3>1, <3>2
    <3>4. f[i] = f[j]
      BY <3>3
    <3> QED  BY <1>3, <3>1, <3>4
  <2> QED  BY <2>1, <2>2
<1>5. RootEntries = CHOOSE s \in [1 .. N -> T] : P(s)
  BY DEF RootEntries
<1> HIDE DEF P, N
<1>6. RootEntries \in [1 .. N -> T]
  BY <1>4, <1>5
<1>7. T \subseteq Entries
  <2>1. SUFFICES ASSUME NEW r \in Roots PROVE [name |-> <<r>>, value |-> BLANK] \in Entries
    OBVIOUS
  <2>2. <<r>> \in Names
    BY DEF Names
  <2> QED  BY <2>1, <2>2 DEF Entries
<1> HIDE DEF T
<1>8. RootEntries \in [1 .. N -> Entries]
  BY <1>6, <1>7
<1>q. QED  BY <1>1, <1>8, SeqDef

(* The handles of the roots.                                               *)
LEMMA RootHandlesAre ==
  ASSUME NEW z
  PROVE  HandlesAre(RootHandles, z)
<1>1. \A t \in RootHandles : t \in [h : Roots \cup Nat, name : Names] /\ t.h \in Roots /\ t.name = <<t.h>>
  <2> TAKE t \in RootHandles
  <2>1. PICK r \in Roots : t = [h |-> r, name |-> <<r>>]
    BY DEF RootHandles
  <2>2. <<r>> \in Names
    BY DEF Names
  <2> QED  BY <2>1, <2>2
<1>2. \A s, t \in RootHandles : s.h = t.h => s = t
  <2> TAKE s, t \in RootHandles
  <2>1. PICK r \in Roots, q \in Roots : s = [h |-> r, name |-> <<r>>] /\ t = [h |-> q, name |-> <<q>>]
    BY DEF RootHandles
  <2> QED  BY <2>1
<1>q. QED  BY <1>1, <1>2 DEF HandlesAre

(* build_keyname: the name below a handle's.                               *)
LEMMA KeyNameIs ==
  ASSUME RegistryInv, NEW h, NEW k \in Keys, Valid(h), InDepth(h)
  PROVE  KeyName(h, k) \in Names /\ KeyName(h, k) \in Depth /\ KeyName(h, k) # <<>>
<1>1. PICK p : p = (CHOOSE t \in handles : t.h = h).name
  OBVIOUS
<1>2. p \in Names
  <2>1. (CHOOSE t \in handles : t.h = h) \in handles
    BY DEF Valid
  <2>2. handles \subseteq [h : Roots \cup Nat, name : Names]
    BY DEF HandlesAre, RegistryInv
  <2> QED  BY <1>1, <2>1, <2>2
<1>3. Len(p) \in Nat /\ Len(p) < MaxPath /\ MaxPath \in Nat /\ p \in Seq(Roots \cup Keys)
  BY <1>1, <1>2, RegistryAssumption DEF InDepth, Names
<1>4. KeyName(h, k) = Append(p, k)
  BY <1>1 DEF KeyName
<1>5. PICK w : w = Append(p, k)
  OBVIOUS
<1>6. w \in Seq(Roots \cup Keys) /\ Len(w) = Len(p) + 1 /\ w # <<>>
  BY <1>3, <1>5, AppendProperties
<1>7. w \in [1 .. Len(p) + 1 -> Roots \cup Keys]
  BY <1>3, <1>6
<1>8. Len(p) + 1 \in 0 .. MaxPath
  BY <1>3
<1>9. w \in Depth
  BY <1>7, <1>8 DEF Depth
<1>q. QED  BY <1>4, <1>5, <1>6, <1>9 DEF Names

(* What is to be shown of the array and its process after a step ...       *)
InMemory(l, r, fr, hs, z) ==
  /\ l \in BOOLEAN /\ r \in Seq(Entries) /\ fr \in BOOLEAN /\ z \in Nat
  /\ HandlesAre(hs, z) /\ (l => RootHandles \subseteq hs) /\ (~l => hs = {})

(* ... of the file, when `ack' is what was written ...                     *)
OnDisk(e, f, tn, u, ack) ==
  /\ e \in BOOLEAN /\ tn \in BOOLEAN /\ f \in Seq(Entries) /\ u \subseteq Names
  /\ \A m \in Depth \ u : ack[m] # BLANK => Query(f, m) = ack[m]

(* ... and of what was written, when r is the array.                       *)
InArray(r, ack) == \A m \in Depth : ack[m] # BLANK => Query(r, m) = ack[m]

Written(ack) == ack \in [Depth -> Values \cup {DIR, BLANK}]

(* That is what the invariant says.                                        *)
LEMMA InvParts ==
  RegistryInv <=> /\ InMemory(loaded, regs, frayed, handles, zz)
                  /\ Written(acked) /\ OnDisk(exists, file, torn, unsaved, acked)
                  /\ loaded => InArray(regs, acked)
<1>1. Written(acked) => DOMAIN acked = Depth
  BY DEF Written
<1>q. QED  BY <1>1 DEF RegistryInv, RegistryTypeOK, ValuesKept, ReadBack, Durable, Answers,
         HandlesDistinct, InMemory, Written, OnDisk, InArray, HandlesAre

(* The same after a step.                                                  *)
LEMMA InvPartsAfter ==
  ASSUME InMemory(loaded', regs', frayed', handles', zz'), Written(acked'),
         OnDisk(exists', file', torn', unsaved', acked'), loaded' => InArray(regs', acked')
  PROVE  RegistryInv'
<1>1. DOMAIN acked' = Depth
  BY DEF Written
<1>2. RegistryTypeOK'
  BY DEF RegistryTypeOK, InMemory, Written, OnDisk, HandlesAre, Depth, Entries, Names
<1>3. ReadBack'
  BY <1>1 DEF ReadBack, InArray, Query, Found, Index
<1>4. Durable'
  BY <1>1 DEF Durable, Answers, OnDisk, Query, Found, Index
<1>5. HandlesDistinct'
  BY DEF HandlesDistinct, InMemory, HandlesAre, RootHandles
<1>6. HandlesAre(handles, zz)'
  BY DEF InMemory, HandlesAre, Names
<1>q. QED  BY <1>2, <1>3, <1>4, <1>5, <1>6 DEF RegistryInv, ValuesKept

(* The names in an array are names.                                        *)
LEMMA NamesAre ==
  ASSUME NEW s \in Seq(Entries), NEW i
  PROVE  NamesFrom(s, i) \subseteq Names
<1> SUFFICES ASSUME NEW j \in DOMAIN s PROVE s[j].name \in Names
  BY DEF NamesFrom
<1>1. s[j] \in Entries
  OBVIOUS
<1>q. QED  BY <1>1 DEF Entries

(* save_registry, of the array r in which the values of ns have changed:   *)
(* whichever way it ends, what is known to be in the file answers.         *)
LEMMA SaveKeeps ==
  ASSUME RegistryInv, NEW r \in Seq(Entries), NEW ns \in SUBSET Names, Save(r, ns),
         InArray(r, acked'), Written(acked'),
         \A m \in Depth \ ns : acked'[m] # BLANK => acked'[m] = acked[m]
  PROVE  OnDisk(exists', file', torn', unsaved', acked')
<1>0. OnDisk(exists, file, torn, unsaved, acked) /\ frayed \in BOOLEAN
  BY InvParts DEF InMemory
<1>1. CASE Saved(r)
  BY <1>0, <1>1 DEF Saved, OnDisk, InArray
<1>2. CASE NotOpened(ns)
  <2>1. exists' = exists /\ file' = file /\ torn' = torn /\ unsaved' = unsaved \cup ns
    BY <1>2 DEF NotOpened
  <2>2. \A m \in Depth \ (unsaved \cup ns) : acked'[m] # BLANK => Query(file, m) = acked'[m]
    BY <1>0 DEF OnDisk
  <2> QED  BY <1>0, <2>1, <2>2 DEF OnDisk
<1>3. CASE NotWritten(r)
  <2>1. PICK j \in 0 .. Len(r) : /\ exists' = TRUE /\ file' = SubSeq(r, 1, j) /\ torn' = TRUE
                                 /\ unsaved' = NamesFrom(r, j + 1)
    BY <1>3 DEF NotWritten
  <2>2. /\ SubSeq(r, 1, j) \in Seq(Entries)
        /\ \A m : m \notin NamesFrom(r, j + 1) => Query(SubSeq(r, 1, j), m) = Query(r, m)
    BY PrefixReads
  <2>3. NamesFrom(r, j + 1) \subseteq Names
    BY NamesAre
  <2> QED  BY <2>1, <2>2, <2>3 DEF OnDisk, InArray
<1>q. QED  BY <1>1, <1>2, <1>3 DEF Save

(* hier_remove_key keeps the other entries in their order: t is s without  *)
(* what is under p, and f tells where an entry was.                        *)
Kept(s, p, f, N, t) ==
  /\ N \in Nat /\ f \in [1 .. N -> DOMAIN s] /\ t \in [1 .. N -> Entries]
  /\ \A i, j \in 1 .. N : i < j => f[i] < f[j]
  /\ \A i \in DOMAIN s : ~Under(p, s[i].name) => \E j \in 1 .. N : f[j] = i
  /\ \A i \in 1 .. N : t[i] = s[f[i]]

(* What is not below the key that was removed reads as before.             *)
LEMMA RemainingReads ==
  ASSUME NEW s \in Seq(Entries), NEW p, NEW f, NEW N, NEW t, Kept(s, p, f, N, t)
  PROVE  /\ t \in Seq(Entries)
         /\ \A m : Found(s, m) /\ ~Under(p, m) => Found(t, m) /\ Query(t, m) = Query(s, m)
<1>0. /\ N \in Nat /\ f \in [1 .. N -> DOMAIN s] /\ t \in [1 .. N -> Entries]
      /\ \A i, j \in 1 .. N : i < j => f[i] < f[j]
  BY DEF Kept
<1>1. /\ DOMAIN f = 1 .. N /\ DOMAIN s = 1 .. Len(s) /\ Len(s) \in Nat
      /\ \A i \in DOMAIN s : s[i] \in Entries
  BY <1>0
<1>3. t \in Seq(Entries) /\ DOMAIN t = 1 .. N
  BY <1>0, SeqDef
<1>4. ASSUME NEW m, Found(s, m), ~Under(p, m)
      PROVE  Found(t, m) /\ Query(t, m) = Query(s, m)
  <2>1. PICK i : First(s, m, i)
    BY <1>4, FirstExists
  <2>2. i \in DOMAIN s /\ s[i].name = m
    BY <2>1 DEF First
  <2>3. PICK j \in DOMAIN f : f[j] = i
    BY <1>1, <1>4, <2>2 DEF Kept
  <2>4. t[j] = s[i]
    BY <1>1, <2>3 DEF Kept
  <2>5. \A k \in 1 .. j - 1 : t[k].name # m
    <3> TAKE k \in 1 .. j - 1
    <3>1. k \in 1 .. N /\ k < j /\ f[k] \in DOMAIN s
      BY <1>0, <1>1, <2>3
    <3>2. f[k] < i /\ f[k] \in 1 .. i - 1
      BY <1>0, <1>1, <2>2, <2>3, <3>1
    <3>3. t[k] = s[f[k]]
      BY <3>1 DEF Kept
    <3> QED  BY <2>1, <3>2, <3>3 DEF First
  <2>6. First(t, m, j)
    BY <1>1, <1>3, <2>2, <2>3, <2>4, <2>5 DEF First
  <2> QED  BY <1>3, <2>1, <2>4, <2>6, FirstIs, QuerySame
<1>q. QED  BY <1>3, <1>4
---------------------------------------------------------------------------
(* Every step keeps the invariant.                                         *)
LEMMA NewHandleIs ==
  ASSUME RegistryInv, loaded, NEW n \in Names, NewHandle(n)
  PROVE  zz' \in Nat /\ HandlesAre(handles', zz') /\ RootHandles \subseteq handles'
<1>1. /\ zz \in Nat /\ HandlesAre(handles, zz) /\ RootHandles \subseteq handles
  BY DEF RegistryInv, RegistryTypeOK, ValuesKept, HandlesDistinct
<1>2. PICK z : z = zz + 1
  OBVIOUS
<1>3. PICK e : e = [h |-> z, name |-> n]
  OBVIOUS
<1>4. zz' = z /\ handles' = handles \cup {e} /\ z \in Nat /\ 1 .. zz \subseteq 1 .. z /\ z \in 1 .. z
      /\ z \notin 1 .. zz
  BY <1>1, <1>2, <1>3 DEF NewHandle
<1>5. e \in [h : Roots \cup Nat, name : Names] /\ e.h = z
  BY <1>3, <1>4
<1>6. \A t \in handles : t.h # z
  BY <1>1, <1>4, RegistryAssumption DEF HandlesAre
<1>7. \A s, t \in handles' : s.h = t.h => s = t
  BY <1>1, <1>4, <1>5, <1>6 DEF HandlesAre
<1>8. \A t \in handles' : t.h \in Roots \cup 1 .. z
  BY <1>1, <1>4, <1>5 DEF HandlesAre
<1>9. handles' \subseteq [h : Roots \cup Nat, name : Names]
  BY <1>1, <1>4, <1>5 DEF HandlesAre
<1>q. QED  BY <1>1, <1>4, <1>7, <1>8, <1>9 DEF HandlesAre

(* A process that has no array has no handles.                             *)
LEMMA NoHandles ==
  ASSUME NEW z
  PROVE  HandlesAre({}, z)
BY DEF HandlesAre

(* The first call reads the file or makes one,                             *)
LEMMA InitRegistryStep ==
  ASSUME RegistryInv, init_registry
  PROVE  RegistryInv'
<1>0. /\ InMemory(loaded, regs, frayed, handles, zz) /\ Written(acked)
      /\ OnDisk(exists, file, torn, unsaved, acked) /\ DOMAIN acked = Depth
  BY InvParts DEF Written
<1>1. loaded' = TRUE /\ handles' = RootHandles /\ zz' = zz
  BY DEF init_registry
<1>2. HandlesAre(handles', zz') /\ zz' \in Nat
  BY <1>0, <1>1, RootHandlesAre DEF InMemory
<1>3. CASE /\ regs' = file /\ frayed' = torn /\ Forget(unsaved) /\ unsaved' = {}
           /\ UNCHANGED <<exists, file, torn>>
  <2>1. acked' = [m \in Depth |-> IF m \in unsaved THEN BLANK ELSE acked[m]]
    BY <1>0, <1>3 DEF Forget
  <2>2. Written(acked')
    BY <1>0, <2>1 DEF Written
  <2>3. InArray(file, acked')
    BY <1>0, <2>1 DEF OnDisk, InArray
  <2>4. OnDisk(exists', file', torn', unsaved', acked')
    BY <1>0, <1>3, <2>3 DEF OnDisk, InArray
  <2>5. InMemory(loaded', regs', frayed', handles', zz')
    BY <1>0, <1>1, <1>2, <1>3 DEF InMemory, OnDisk
  <2> QED  BY <1>3, <2>2, <2>3, <2>4, <2>5, InvPartsAfter
<1>4. CASE /\ regs' = RootEntries /\ frayed' = FALSE /\ Forget(DOMAIN acked)
           /\ \/ exists' = TRUE /\ file' = RootEntries /\ torn' = FALSE /\ unsaved' = {}
              \/ NotOpened({}) \/ NotWritten(RootEntries)
  <2>1. acked' = [m \in Depth |-> BLANK]
    BY <1>0, <1>4 DEF Forget
  <2>2. Written(acked') /\ \A r : InArray(r, acked')
    BY <2>1 DEF Written, InArray
  <2>3. PICK r \in Seq(Entries) : r = RootEntries
    BY RootEntriesAre
  <2>4. exists' \in BOOLEAN /\ torn' \in BOOLEAN /\ file' \in Seq(Entries) /\ unsaved' \subseteq Names
    <3>1. CASE exists' = TRUE /\ file' = RootEntries /\ torn' = FALSE /\ unsaved' = {}
      BY <2>3, <3>1
    <3>2. CASE NotOpened({})
      BY <1>0, <3>2 DEF NotOpened, OnDisk
    <3>3. CASE NotWritten(RootEntries)
      <4>1. PICK j \in 0 .. Len(r) : /\ exists' = TRUE /\ file' = SubSeq(r, 1, j) /\ torn' = TRUE
                                     /\ unsaved' = NamesFrom(r, j + 1)
        BY <2>3, <3>3 DEF NotWritten
      <4> QED  BY <4>1, PrefixReads, NamesAre
    <3> QED  BY <1>4, <3>1, <3>2, <3>3
  <2>5. OnDisk(exists', file', torn', unsaved', acked')
    BY <2>1, <2>4 DEF OnDisk
  <2>6. InMemory(loaded', regs', frayed', handles', zz')
    BY <1>1, <1>2, <1>4, <2>3 DEF InMemory
  <2> QED  BY <1>4, <2>2, <2>5, <2>6, InvPartsAfter
<1>q. QED  BY <1>3, <1>4 DEF init_registry

(* opening a key adds a handle,                                            *)
LEMMA RegOpenKeyStep ==
  ASSUME RegistryInv, NEW h, NEW k \in Keys, RegOpenKeyExA(h, k)
  PROVE  RegistryInv'
<1>0. /\ InMemory(loaded, regs, frayed, handles, zz) /\ Written(acked)
      /\ OnDisk(exists, file, torn, unsaved, acked) /\ (loaded => InArray(regs, acked))
  BY InvParts
<1>1. /\ loaded /\ Valid(h) /\ InDepth(h) /\ NewHandle(KeyName(h, k))
      /\ loaded' = loaded /\ regs' = regs /\ frayed' = frayed /\ acked' = acked
      /\ exists' = exists /\ file' = file /\ torn' = torn /\ unsaved' = unsaved
  BY DEF RegOpenKeyExA, fileVars
<1>2. KeyName(h, k) \in Names
  BY <1>1, KeyNameIs
<1>3. zz' \in Nat /\ HandlesAre(handles', zz') /\ RootHandles \subseteq handles'
  BY <1>1, <1>2, NewHandleIs
<1>4. InMemory(loaded', regs', frayed', handles', zz')
  BY <1>0, <1>1, <1>3 DEF InMemory
<1>q. QED  BY <1>0, <1>1, <1>4, InvPartsAfter

(* a value that is written is in the array, and in the file if it was saved.*)
LEMMA WriteKeeps ==
  ASSUME RegistryInv, loaded, NEW n \in Names, n \in Depth, NEW v \in Values \cup {DIR}, Write(n, v)
  PROVE  /\ regs' \in Seq(Entries) /\ Written(acked') /\ InArray(regs', acked')
         /\ OnDisk(exists', file', torn', unsaved', acked')
<1>0. /\ regs \in Seq(Entries) /\ Written(acked) /\ InArray(regs, acked)
  BY InvParts DEF InMemory
<1>1. PICK r : r = Insert(regs, n, v)
  OBVIOUS
<1>2. /\ regs' = r /\ Save(r, {n})
      /\ acked' = [acked EXCEPT ![n] = IF Found(regs, n) \/ ~frayed THEN v ELSE BLANK]
  BY <1>1 DEF Write
<1>3. /\ r \in Seq(Entries) /\ (Found(regs, n) \/ ~frayed => Query(r, n) = v)
      /\ \A m : m # n /\ Found(regs, m) => Query(r, m) = Query(regs, m)
  BY <1>0, <1>1, InsertReads
<1>4. /\ Written(acked') /\ acked'[n] = (IF Found(regs, n) \/ ~frayed THEN v ELSE BLANK)
      /\ \A m \in Depth : m # n => acked'[m] = acked[m]
  BY <1>0, <1>2 DEF Written
<1>5. InArray(r, acked')
  <2> SUFFICES ASSUME NEW m \in Depth, acked'[m] # BLANK PROVE Query(r, m) = acked'[m]
    BY DEF InArray
  <2>1. CASE m = n
    BY <1>3, <1>4, <2>1
  <2>2. CASE m # n
    <3>1. acked'[m] = acked[m] /\ Query(regs, m) = acked[m]
      BY <1>0, <1>4, <2>2 DEF InArray
    <3>2. Found(regs, m)
      BY <3>1 DEF Query
    <3> QED  BY <1>3, <2>2, <3>1, <3>2
  <2> QED  BY <2>1, <2>2
<1>6. \A m \in Depth \ {n} : acked'[m] # BLANK => acked'[m] = acked[m]
  BY <1>4
<1>7. OnDisk(exists', file', torn', unsaved', acked')
  BY <1>2, <1>3, <1>4, <1>5, <1>6, SaveKeeps
<1>q. QED  BY <1>2, <1>3, <1>4, <1>5, <1>7

(* Creating a key adds a handle, and an entry if there is none,            *)
LEMMA RegCreateKeyStep ==
  ASSUME RegistryInv, NEW h, NEW k \in Keys, RegCreateKeyExA(h, k)
  PROVE  RegistryInv'
<1>0. /\ InMemory(loaded, regs, frayed, handles, zz) /\ Written(acked)
      /\ OnDisk(exists, file, torn, unsaved, acked) /\ (loaded => InArray(regs, acked))
  BY InvParts
<1>1. PICK n : n = KeyName(h, k)
  OBVIOUS
<1>2. /\ loaded /\ Valid(h) /\ InDepth(h) /\ NewHandle(n) /\ loaded' = loaded /\ frayed' = frayed
      /\ Write(n, DIR) \/ UNCHANGED <<regs, fileVars, acked>>
  BY <1>1 DEF RegCreateKeyExA
<1>3. n \in Names /\ n \in Depth
  BY <1>1, <1>2, KeyNameIs
<1>4. zz' \in Nat /\ HandlesAre(handles', zz') /\ RootHandles \subseteq handles'
  BY <1>2, <1>3, NewHandleIs
<1>5. /\ regs' \in Seq(Entries) /\ Written(acked') /\ InArray(regs', acked')
      /\ OnDisk(exists', file', torn', unsaved', acked')
  <2>1. CASE Write(n, DIR)
    BY <1>2, <1>3, <2>1, WriteKeeps
  <2>2. CASE UNCHANGED <<regs, fileVars, acked>>
    <3>1. /\ regs' = regs /\ acked' = acked
          /\ exists' = exists /\ file' = file /\ torn' = torn /\ unsaved' = unsaved
      BY <2>2 DEF fileVars
    <3> QED  BY <1>0, <1>2, <3>1 DEF InMemory
  <2> QED  BY <1>2, <2>1, <2>2
<1>6. InMemory(loaded', regs', frayed', handles', zz')
  BY <1>0, <1>2, <1>4, <1>5 DEF InMemory
<1>q. QED  BY <1>5, <1>6, InvPartsAfter

(* and setting a value changes an entry.                                   *)
LEMMA RegSetValueStep ==
  ASSUME RegistryInv, NEW h, NEW k \in Keys, NEW v \in Values, RegSetValueExA(h, k, v)
  PROVE  RegistryInv'
<1>0. InMemory(loaded, regs, frayed, handles, zz)
  BY InvParts
<1>1. PICK n : n = KeyName(h, k)
  OBVIOUS
<1>2. /\ loaded /\ Valid(h) /\ InDepth(h) /\ Write(n, v)
      /\ loaded' = loaded /\ frayed' = frayed /\ handles' = handles /\ zz' = zz
  BY <1>1 DEF RegSetValueExA
<1>3. n \in Names /\ n \in Depth
  BY <1>1, <1>2, KeyNameIs
<1>4. /\ regs' \in Seq(Entries) /\ Written(acked') /\ InArray(regs', acked')
      /\ OnDisk(exists', file', torn', unsaved', acked')
  BY <1>2, <1>3, WriteKeeps
<1>5. InMemory(loaded', regs', frayed', handles', zz')
  BY <1>0, <1>2, <1>4 DEF InMemory
<1>q. QED  BY <1>4, <1>5, InvPartsAfter

(* Closing takes the handle away.                                          *)
LEMMA RegCloseKeyStep ==
  ASSUME RegistryInv, NEW h, RegCloseKey(h)
  PROVE  RegistryInv'
<1>0. /\ InMemory(loaded, regs, frayed, handles, zz) /\ Written(acked)
      /\ OnDisk(exists, file, torn, unsaved, acked) /\ (loaded => InArray(regs, acked))
  BY InvParts
<1>1. /\ h \notin Roots /\ handles' = {t \in handles : t.h # h}
      /\ loaded' = loaded /\ regs' = regs /\ frayed' = frayed /\ zz' = zz /\ acked' = acked
      /\ exists' = exists /\ file' = file /\ torn' = torn /\ unsaved' = unsaved
  BY DEF RegCloseKey, fileVars
<1>2. HandlesAre(handles', zz')
  BY <1>0, <1>1 DEF InMemory, HandlesAre
<1>3. loaded' => RootHandles \subseteq handles'
  <2>1. \A t \in RootHandles : t.h # h
    BY <1>1 DEF RootHandles
  <2> QED  BY <1>0, <1>1, <2>1 DEF InMemory
<1>4. InMemory(loaded', regs', frayed', handles', zz')
  BY <1>0, <1>1, <1>2, <1>3 DEF InMemory
<1>q. QED  BY <1>0, <1>1, <1>4, InvPartsAfter

(* The array is freed, or the process is gone.                             *)
LEMMA GoneIs ==
  ASSUME Gone, zz' \in Nat
  PROVE  InMemory(loaded', regs', frayed', handles', zz') /\ ~loaded'
<1>1. loaded' = FALSE /\ regs' = <<>> /\ frayed' = FALSE /\ handles' = {}
  BY DEF Gone
<1>2. HandlesAre(handles', zz')
  BY <1>1, NoHandles
<1>3. regs' \in Seq(Entries)
  BY <1>1
<1>q. QED  BY <1>1, <1>2, <1>3 DEF InMemory

(* It goes between two calls,                                              *)
LEMMA ReleasesStep ==
  ASSUME RegistryInv, free_registry \/ Restart
  PROVE  RegistryInv'
<1>0. zz \in Nat /\ Written(acked) /\ OnDisk(exists, file, torn, unsaved, acked)
  BY InvParts DEF InMemory
<1>1. /\ Gone /\ zz' \in {zz, 0} /\ acked' = acked
      /\ exists' = exists /\ file' = file /\ torn' = torn /\ unsaved' = unsaved
  BY DEF free_registry, Restart, fileVars
<1>2. InMemory(loaded', regs', frayed', handles', zz') /\ ~loaded'
  BY <1>0, <1>1, GoneIs
<1>q. QED  BY <1>0, <1>1, <1>2, InvPartsAfter

(* or while it saves a value,                                              *)
LEMMA CrashInSaveStep ==
  ASSUME RegistryInv, NEW h, NEW k \in Keys, NEW v \in Values \cup {DIR}, CrashInSave(h, k, v)
  PROVE  RegistryInv'
<1>1. PICK n : n = KeyName(h, k)
  OBVIOUS
<1>2. PICK r : r = Insert(regs, n, v)
  OBVIOUS
<1>3. loaded /\ Valid(h) /\ InDepth(h) /\ Gone /\ zz' = 0 /\ acked' = acked
  BY DEF CrashInSave
<1>0. /\ regs \in Seq(Entries) /\ Written(acked) /\ InArray(regs, acked)
      /\ OnDisk(exists, file, torn, unsaved, acked)
  BY <1>3, InvParts DEF InMemory
<1>4. n \in Names
  BY <1>1, <1>3, KeyNameIs
<1>5. InMemory(loaded', regs', frayed', handles', zz') /\ ~loaded'
  BY <1>3, GoneIs
<1>6. CASE /\ exists /\ Patched(file, r, n)
           /\ file' = [file EXCEPT ![Index(file, n)].value = BLANK]
           /\ unsaved' = unsaved \cup {n} /\ exists' = exists /\ torn' = torn
  <2>1. Found(file, n) /\ file \in Seq(Entries)
    BY <1>0, <1>6 DEF Patched, OnDisk
  <2>2. file' \in Seq(Entries) /\ \A m : m # n => Query(file', m) = Query(file, m)
    BY <1>6, <2>1, SpoiledReads
  <2>3. OnDisk(exists', file', torn', unsaved', acked')
    BY <1>0, <1>3, <1>4, <1>6, <2>2 DEF OnDisk
  <2> QED  BY <1>0, <1>3, <1>5, <2>3, InvPartsAfter
<1>7. CASE \E j \in 0 .. Len(r) : /\ exists' = TRUE /\ file' = SubSeq(r, 1, j) /\ torn' = TRUE
                                  /\ unsaved' = {n} \cup NamesFrom(r, j + 1)
  <2>1. PICK j \in 0 .. Len(r) : /\ exists' = TRUE /\ file' = SubSeq(r, 1, j) /\ torn' = TRUE
                                 /\ unsaved' = {n} \cup NamesFrom(r, j + 1)
    BY <1>7
  <2>2. /\ r \in Seq(Entries)
        /\ \A m : m # n /\ Found(regs, m) => Query(r, m) = Query(regs, m)
    BY <1>0, <1>2, <1>4, InsertReads
  <2>3. /\ SubSeq(r, 1, j) \in Seq(Entries)
        /\ \A m : m \notin NamesFrom(r, j + 1) => Query(SubSeq(r, 1, j), m) = Query(r, m)
    BY <2>2, PrefixReads
  <2>4. ASSUME NEW m \in Depth \ unsaved', acked[m] # BLANK PROVE Query(file', m) = acked[m]
    <3>1. Query(regs, m) = acked[m]
      BY <1>0, <2>4 DEF InArray
    <3>2. Found(regs, m)
      BY <2>4, <3>1 DEF Query
    <3> QED  BY <2>1, <2>2, <2>3, <2>4, <3>1, <3>2
  <2>5. unsaved' \subseteq Names
    BY <1>4, <2>1, <2>2, NamesAre
  <2>6. OnDisk(exists', file', torn', unsaved', acked')
    BY <1>3, <2>1, <2>3, <2>4, <2>5 DEF OnDisk
  <2> QED  BY <1>0, <1>3, <1>5, <2>6, InvPartsAfter
<1>q. QED  BY <1>1, <1>2, <1>6, <1>7 DEF CrashInSave

(* or when modify_reg has removed a key and what has a longer name.        *)
LEMMA HierRemoveKeyStep ==
  ASSUME RegistryInv, NEW r, NEW k, HierRemoveKey(r, k)
  PROVE  RegistryInv'
<1> DEFINE p == <<r, k>>
           N == Cardinality({i \in DOMAIN regs : ~Under(p, regs[i].name)})
<1>1. /\ loaded /\ Forget({n \in DOMAIN acked : Under(p, n)}) /\ Gone /\ zz' = zz
  BY DEF HierRemoveKey
<1>0. /\ regs \in Seq(Entries) /\ Written(acked) /\ InArray(regs, acked) /\ zz \in Nat
      /\ DOMAIN acked = Depth
  BY <1>1, InvParts DEF InMemory, Written
<1>2. PICK f \in [1 .. N -> DOMAIN regs] :
              Remaining(regs, p, f) /\ Save([i \in DOMAIN f |-> regs[f[i]]], {})
  BY DEF HierRemoveKey
<1>3. PICK s \in Seq(Entries) : s = regs
  BY <1>0
<1>4. PICK t : t = [i \in DOMAIN f |-> s[f[i]]]
  OBVIOUS
<1>5. N \in Nat
  <2>1. IsFiniteSet(1 .. Len(s)) /\ DOMAIN s = 1 .. Len(s)
    BY FS_Interval
  <2>2. IsFiniteSet({i \in DOMAIN s : ~Under(p, s[i].name)})
    BY <2>1, FS_Subset
  <2> QED  BY <1>3, <2>2, FS_CardinalityType
<1> HIDE DEF p, N
<1>6. /\ \A i, j \in DOMAIN f : i < j => f[i] < f[j]
      /\ \A i \in DOMAIN s : ~Under(p, s[i].name) => \E j \in DOMAIN f : f[j] = i
  BY <1>2, <1>3 DEF Remaining
<1>7. /\ t \in Seq(Entries)
      /\ \A m : Found(s, m) /\ ~Under(p, m) => Found(t, m) /\ Query(t, m) = Query(s, m)
  <2>1. f \in [1 .. N -> DOMAIN s]
    BY <1>2, <1>3
  <2>2. \A i, j \in DOMAIN f : i < j => f[i] < f[j]
    BY <1>6
  <2>3. \A i \in DOMAIN s : ~Under(p, s[i].name) => \E j \in DOMAIN f : f[j] = i
    BY <1>6
  <2>4. DOMAIN t = 1 .. N /\ \A i \in 1 .. N : t[i] = s[f[i]]
    BY <1>4, <2>1
  <2>5. t \in [1 .. N -> Entries]
    <3>1. \A i \in DOMAIN s : s[i] \in Entries
      OBVIOUS
    <3> QED  BY <1>4, <2>1, <3>1
  <2>6. Kept(s, p, f, N, t)
    BY <1>5, <2>1, <2>2, <2>3, <2>4, <2>5 DEF Kept
  <2> QED  BY <2>6, RemainingReads
<1>8. /\ Written(acked')
      /\ \A m \in Depth : acked'[m] # BLANK => ~Under(p, m) /\ acked'[m] = acked[m]
  <2>1. acked' = [m \in Depth |-> IF m \in {n \in Depth : Under(p, n)} THEN BLANK ELSE acked[m]]
    BY <1>0, <1>1 DEF Forget
  <2> QED  BY <1>0, <2>1 DEF Written
<1>9. InArray(t, acked')
  <2> SUFFICES ASSUME NEW m \in Depth, acked'[m] # BLANK PROVE Query(t, m) = acked'[m]
    BY DEF InArray
  <2>1. ~Under(p, m) /\ acked'[m] = acked[m] /\ Query(s, m) = acked[m]
    BY <1>0, <1>3, <1>8 DEF InArray
  <2>2. Found(s, m)
    BY <2>1 DEF Query
  <2> QED  BY <1>7, <2>1, <2>2
<1>10. OnDisk(exists', file', torn', unsaved', acked')
  <2>1. Save(t, {})
    BY <1>2, <1>3, <1>4
  <2>2. \A m \in Depth \ {} : acked'[m] # BLANK => acked'[m] = acked[m]
    BY <1>8
  <2> QED  BY <1>7, <1>8, <1>9, <2>1, <2>2, SaveKeeps
<1>11. InMemory(loaded', regs', frayed', handles', zz') /\ ~loaded'
  BY <1>0, <1>1, GoneIs
<1>q. QED  BY <1>8, <1>10, <1>11, InvPartsAfter
---------------------------------------------------------------------------
(* There is neither an array nor a file.                                   *)
LEMMA RegistryStart ==
  RegistryInit => RegistryInv
<1> SUFFICES ASSUME RegistryInit PROVE RegistryInv
  OBVIOUS
<1>1. /\ loaded = FALSE /\ regs = <<>> /\ frayed = FALSE /\ handles = {} /\ zz = 0
      /\ exists = FALSE /\ file = <<>> /\ torn = FALSE /\ unsaved = {}
      /\ acked = [n \in Depth |-> BLANK]
  BY DEF RegistryInit
<1>2. Written(acked) /\ \A n \in Depth : acked[n] = BLANK
  BY <1>1 DEF Written
<1>3. regs \in Seq(Entries) /\ file \in Seq(Entries)
  BY <1>1
<1>4. HandlesAre(handles, zz)
  BY <1>1, NoHandles
<1>q. QED  BY <1>1, <1>2, <1>3, <1>4, InvParts DEF InMemory, OnDisk

(* Every step keeps the invariant, and so does none.                       *)
LEMMA RegistryStep ==
  RegistryInv /\ [RegistryNext]_registryVars => RegistryInv'
<1> SUFFICES ASSUME RegistryInv, [RegistryNext]_registryVars PROVE RegistryInv'
  OBVIOUS
<1>1. CASE UNCHANGED registryVars
  <2>0. /\ InMemory(loaded, regs, frayed, handles, zz) /\ Written(acked)
        /\ OnDisk(exists, file, torn, unsaved, acked) /\ (loaded => InArray(regs, acked))
    BY InvParts
  <2>1. /\ loaded' = loaded /\ regs' = regs /\ frayed' = frayed /\ handles' = handles /\ zz' = zz
        /\ exists' = exists /\ file' = file /\ torn' = torn /\ unsaved' = unsaved /\ acked' = acked
    BY <1>1 DEF registryVars, memVars, fileVars
  <2> QED  BY <2>0, <2>1, InvPartsAfter
<1>2. CASE RegistryNext
  <2>1. ASSUME NEW h \in Roots \cup 1 .. MaxHandles, NEW k \in Keys,
               \/ RegOpenKeyExA(h, k) \/ RegCreateKeyExA(h, k)
               \/ \E v \in Values : RegSetValueExA(h, k, v)
               \/ \E v \in Values \cup {DIR} : CrashInSave(h, k, v)
        PROVE  RegistryInv'
    BY <2>1, RegOpenKeyStep, RegCreateKeyStep, RegSetValueStep, CrashInSaveStep
  <2>2. CASE init_registry
    BY <2>2, InitRegistryStep
  <2>3. CASE \E h \in Roots \cup 1 .. MaxHandles : RegCloseKey(h)
    BY <2>3, RegCloseKeyStep
  <2>4. CASE free_registry \/ Restart
    BY <2>4, ReleasesStep
  <2>5. CASE \E r \in Roots, k \in Keys : HierRemoveKey(r, k)
    BY <2>5, HierRemoveKeyStep
  <2> QED  BY <1>2, <2>1, <2>2, <2>3, <2>4, <2>5 DEF RegistryNext
<1>q. QED  BY <1>1, <1>2

(* The invariant of the registry, for any names, values and sizes.         *)
THEOREM RegistryInvariant == RegistrySpec => []RegistryInv
  BY RegistryStart, RegistryStep, PTL DEF RegistrySpec

(* Types of the array, the handles and the file.                           *)
THEOREM RegistryTypesCorrect == RegistrySpec => []RegistryTypeOK
<1>1. RegistryInv => RegistryTypeOK
  BY DEF RegistryInv
<1>q. QED  BY <1>1, RegistryInvariant, PTL

(* What a call wrote is what is read, from the array whatever became of the*)
(* save, and from the file once it was saved: with files that do not open, *)
(* writes that fail, and crashes in and between the calls; and a handle    *)
(* stands for one name.                                                    *)
THEOREM WrittenIsRead == RegistrySpec => []ValuesKept
<1>1. RegistryInv => ValuesKept
  BY DEF RegistryInv
<1>q. QED  BY <1>1, RegistryInvariant, PTL
=============================================================================
