------------------------------ MODULE Registry ------------------------------
(***************************************************************************)
(* The registry a codec finds its settings in: loader/registry.c, called   *)
(* through the expReg* functions of win32.c, by DS_SetAttr_DivX and by the *)
(* tool modify_reg.  Values are kept in an array, which is read from a     *)
(* file by the first call and written over that file, from its start and   *)
(* without truncating it, by every change.  No call looks at what became   *)
(* of the save: the file may not open, a write may fail, and the process   *)
(* may die on the way.                                                     *)
(*                                                                         *)
(* A name is the path build_keyname makes: the root and one text per       *)
(* subkey.  An entry is a name with a value; type, length and bytes are    *)
(* one value, of which Size tells the length.                              *)
(*                                                                         *)
(* Of a file whose save has not ended, the entries that were written are   *)
(* known; what is read behind them is the rest of older entries, out of    *)
(* step, or memory nobody has written: names that are nobody's, that are   *)
(* somebody's, or no names at all (a failed malloc leaves NULL or what was *)
(* freed, and a walk that comes so far kills the process).  It is `torn',  *)
(* and an array read from it is `frayed', whatever was found there.        *)
(***************************************************************************)
EXTENDS Naturals, Sequences, FiniteSets

CONSTANTS
  Roots,       \* HKLM and HKCU: handles that are always there, and names
  Keys,        \* texts of subkeys
  Longer,      \* the texts each one begins
  Values,
  DIR,         \* the value of a key
  BLANK,       \* no value, or bytes nobody has written
  Size,        \* the length of each value
  MaxHandles, MaxEntries, MaxPath   \* bounds

(* generate_handle skips the two roots.                                    *)
ASSUME RegistryAssumption ==
  /\ IsFiniteSet(Roots) /\ Roots \cap Nat = {} /\ BLANK \notin Values \cup {DIR}
  /\ Size \in [Values \cup {DIR, BLANK} -> Nat]
  /\ Longer \in [Keys -> SUBSET Keys] /\ \A k \in Keys : k \in Longer[k]
  /\ MaxHandles \in Nat /\ MaxEntries \in Nat /\ MaxPath \in Nat

VARIABLES
  loaded,      \* regs # NULL
  regs,        \* the array, as far as it is known
  frayed,      \* it was read from a torn file: other entries may follow
  handles,     \* the list of open handles, with their names
  zz,          \* the counter of generate_handle
  exists, file,   \* the saved array, as far as it is known
  torn,        \* what follows in it is not known
  acked,       \* what was last written to each name by a call that returned
  unsaved      \* names whose last value did not get into the file

memVars  == <<loaded, regs, frayed, handles, zz>>
fileVars == <<exists, file, torn, unsaved>>
registryVars == <<memVars, fileVars, acked>>

Names   == Seq(Roots \cup Keys)
Entries == [name : Names, value : Values \cup {DIR, BLANK}]

RootHandles == {[h |-> r, name |-> <<r>>] : r \in Roots}

(* create_registry: the two roots, in a fixed order. *)
RootEntries == CHOOSE s \in [1 .. Cardinality(Roots) -> {[name |-> <<r>>, value |-> BLANK] : r \in Roots}] :
                 \A i, j \in DOMAIN s : s[i] = s[j] => i = j

(* find_handle, build_keyname *)
Valid(h)       == \E t \in handles : t.h = h
KeyName(h, k)  == Append((CHOOSE t \in handles : t.h = h).name, k)
InDepth(h)     == Len((CHOOSE t \in handles : t.h = h).name) < MaxPath

(* find_value_by_name: the first entry of that name. *)
Found(s, n) == \E i \in DOMAIN s : s[i].name = n
Index(s, n) == CHOOSE i \in DOMAIN s : s[i].name = n /\ \A j \in 1 .. i - 1 : s[j].name # n

(* Mutant: an entry that is there is not looked for. *)
Insert_append(s, n, v) == Append(s, [name |-> n, value |-> v])

(* insert_reg_value, up to the save.  A new entry of a frayed array is one *)
(* more that is not known.                                                 *)
Insert(s, n, v) ==
  IF Found(s, n) THEN [s EXCEPT ![Index(s, n)] = [name |-> n, value |-> v]]
  ELSE IF frayed THEN s
  ELSE Append(s, [name |-> n, value |-> v])

(* RegQueryValueExA: the value, whole if the buffer is large enough (the   *)
(* caller is told otherwise); BLANK stands for the codes 1 and 2, and for  *)
(* what a frayed array may answer.  RegEnumValueA asks the same for the    *)
(* name of the key itself.                                                 *)
Query(s, n) == IF Found(s, n) THEN s[Index(s, n)].value ELSE BLANK

Forget(ns) == acked' = [m \in DOMAIN acked |-> IF m \in ns THEN BLANK ELSE acked[m]]
---------------------------------------------------------------------------
NamesFrom(s, i) == {s[j].name : j \in {j \in DOMAIN s : j >= i}}

Saved(r)  == exists' = TRUE /\ file' = r /\ torn' = frayed /\ unsaved' = {}

(* The file cannot be opened: the array and its change are only in memory. *)
NotOpened(ns) == UNCHANGED <<exists, file, torn>> /\ unsaved' = unsaved \cup ns

(* After some entries a write fails; the ones after it may go to wrong     *)
(* places.  (The count, which is written first, is written.)               *)
NotWritten(r) ==
  \E j \in 0 .. Len(r) :
    /\ exists' = TRUE /\ file' = SubSeq(r, 1, j) /\ torn' = TRUE
    /\ unsaved' = NamesFrom(r, j + 1)

(* save_registry, of an array in which the values of ns were changed. *)
Save(r, ns) == Saved(r) \/ NotOpened(ns) \/ NotWritten(r)

(* init_registry, in a call that finds no array: read the file, or create  *)
(* it.  One that cannot be opened is taken for one that is not there, and  *)
(* is written over.  The list of handles begins anew.  (If the process dies*)
(* in this save, the file is as after a write that failed.)                *)
init_registry ==
  /\ ~loaded /\ loaded' = TRUE /\ handles' = RootHandles /\ UNCHANGED zz
  /\ \/ /\ exists /\ regs' = file /\ frayed' = torn
        /\ Forget(unsaved) /\ unsaved' = {} /\ UNCHANGED <<exists, file, torn>>
     \/ /\ regs' = RootEntries /\ frayed' = FALSE
        /\ Forget(DOMAIN acked)
        /\ \/ exists' = TRUE /\ file' = RootEntries /\ torn' = FALSE /\ unsaved' = {}
           \/ NotOpened({}) \/ NotWritten(RootEntries)

(* Mutant: the counter does not move on. *)
NewHandle_same(n) == /\ zz < MaxHandles /\ zz' = zz
                     /\ handles' = handles \cup {[h |-> zz + 1, name |-> n]}

(* generate_handle, insert_handle *)
NewHandle(n) == /\ zz < MaxHandles /\ zz' = zz + 1
                /\ handles' = handles \cup {[h |-> zz + 1, name |-> n]}

(* A key need not be there to be opened.                                   *)
RegOpenKeyExA(h, k) ==
  /\ loaded /\ Valid(h) /\ InDepth(h)
  /\ NewHandle(KeyName(h, k))
  /\ UNCHANGED <<loaded, regs, frayed, fileVars, acked>>

(* The value v is written to n; in a frayed array, where nothing tells     *)
(* what will be found, it is not relied upon.                              *)
Write(n, v) ==
  /\ regs' = Insert(regs, n, v)
  /\ acked' = [acked EXCEPT ![n] = IF Found(regs, n) \/ ~frayed THEN v ELSE BLANK]
  /\ Save(regs', {n})

(* A key that is not there gets an entry of its own, which is also the     *)
(* value of that name in the parent.                                       *)
RegCreateKeyExA(h, k) ==
  LET n == KeyName(h, k) IN
  /\ loaded /\ Valid(h) /\ InDepth(h)
  /\ NewHandle(n)
  /\ \/ ~Found(regs, n) /\ Len(regs) < MaxEntries /\ Write(n, DIR)
     \/ (Found(regs, n) \/ frayed) /\ UNCHANGED <<regs, fileVars, acked>>
  /\ UNCHANGED <<loaded, frayed>>

RegSetValueExA(h, k, v) ==
  /\ loaded /\ Valid(h) /\ InDepth(h) /\ Len(regs) < MaxEntries
  /\ Write(KeyName(h, k), v)
  /\ UNCHANGED <<loaded, frayed, handles, zz>>

(* The roots are not closed.                                               *)
RegCloseKey(h) ==
  /\ h \notin Roots
  /\ handles' = {t \in handles : t.h # h}
  /\ UNCHANGED <<loaded, regs, frayed, zz, fileVars, acked>>

Gone == loaded' = FALSE /\ regs' = <<>> /\ frayed' = FALSE /\ handles' = {}

(* my_garbagecollection, when the last module is gone.                     *)
free_registry == Gone /\ UNCHANGED <<zz, fileVars, acked>>

(* The process ends, between two calls or in a walk that meets what is no  *)
(* name, and another one starts.                                           *)
Restart == Gone /\ zz' = 0 /\ UNCHANGED <<fileVars, acked>>
---------------------------------------------------------------------------
Aligned(v, w) == v # BLANK /\ w # BLANK /\ Size[v] = Size[w]

(* The arrays s and t begin with the same i entries, which take the same   *)
(* bytes.                                                                  *)
Agree(s, t, i) == i <= Len(s) /\ i <= Len(t) /\ \A j \in 1 .. i : s[j] = t[j]

(* They differ in the value of n only, and nothing moves.                  *)
Patched(s, t, n) ==
  /\ Len(s) = Len(t) /\ Found(s, n)
  /\ LET r == Index(s, n) IN
       /\ t[r].name = n /\ Aligned(s[r].value, t[r].value)
       /\ \A i \in DOMAIN s \ {r} : s[i] = t[i]

(* The process dies in the save of RegSetValueExA or RegCreateKeyExA.  What*)
(* the file and the array had in common is still there.                    *)
CrashInSave(h, k, v) ==
  LET n == KeyName(h, k)
      r == Insert(regs, n, v) IN
  /\ loaded /\ Valid(h) /\ InDepth(h) /\ Len(regs) < MaxEntries
  /\ v = DIR => ~Found(regs, n)
  /\ \/ /\ exists /\ ~torn /\ ~frayed /\ Patched(file, r, n)
        /\ file' = [file EXCEPT ![Index(file, n)].value = BLANK]
        /\ unsaved' = unsaved \cup {n}
        /\ UNCHANGED <<exists, torn>>
     \/ /\ torn \/ frayed \/ ~Patched(file, r, n)
        /\ \E j \in 0 .. Len(r) :
             /\ \A i \in DOMAIN r : Agree(file, r, i) => i <= j
             /\ exists' = TRUE /\ file' = SubSeq(r, 1, j) /\ torn' = TRUE
             /\ unsaved' = {n} \cup NamesFrom(r, j + 1)
  /\ Gone /\ zz' = 0 /\ UNCHANGED acked

(* hier_remove_key: what is left of the array s without the entries whose  *)
(* names begin with p, as texts: a name that is longer by a few letters    *)
(* goes with the subkeys.                                                  *)
Under(p, n) ==
  /\ Len(p) <= Len(n) /\ \A i \in 1 .. Len(p) - 1 : p[i] = n[i]
  /\ n[Len(p)] \in Longer[p[Len(p)]]

Remaining(s, p, f) ==
  LET keep == {i \in DOMAIN s : ~Under(p, s[i].name)} IN
  /\ f \in [1 .. Cardinality(keep) -> keep]
  /\ \A i, j \in DOMAIN f : i < j => f[i] < f[j]
  /\ \A i \in keep : \E j \in DOMAIN f : f[j] = i

(* modify_reg --del, a process of its own, while no codec is running: when *)
(* it has read the file it does this and exits.                            *)
HierRemoveKey(r, k) ==
  /\ loaded /\ handles = RootHandles /\ zz = 0
  /\ \E f \in [1 .. Cardinality({i \in DOMAIN regs : ~Under(<<r, k>>, regs[i].name)}) -> DOMAIN regs] :
       /\ Remaining(regs, <<r, k>>, f)
       /\ Save([i \in DOMAIN f |-> regs[f[i]]], {})
  /\ Forget({n \in DOMAIN acked : Under(<<r, k>>, n)})
  /\ Gone /\ UNCHANGED zz
---------------------------------------------------------------------------
Depth == UNION {[1 .. d -> Roots \cup Keys] : d \in 0 .. MaxPath}

RegistryInit ==
  /\ loaded = FALSE /\ regs = <<>> /\ frayed = FALSE /\ handles = {} /\ zz = 0
  /\ exists = FALSE /\ file = <<>> /\ torn = FALSE /\ unsaved = {}
  /\ acked = [n \in Depth |-> BLANK]

RegistryNext ==
  \/ init_registry
  \/ \E h \in Roots \cup 1 .. MaxHandles, k \in Keys :
       \/ RegOpenKeyExA(h, k) \/ RegCreateKeyExA(h, k)
       \/ \E v \in Values : RegSetValueExA(h, k, v)
       \/ \E v \in Values \cup {DIR} : CrashInSave(h, k, v)
  \/ \E h \in Roots \cup 1 .. MaxHandles : RegCloseKey(h)
  \/ free_registry \/ Restart
  \/ \E r \in Roots, k \in Keys : HierRemoveKey(r, k)

RegistrySpec == RegistryInit /\ [][RegistryNext]_registryVars
---------------------------------------------------------------------------
(* Types; a handle that is open is one that the counter has passed.        *)
RegistryTypeOK ==
  /\ loaded \in BOOLEAN /\ frayed \in BOOLEAN /\ zz \in Nat
  /\ exists \in BOOLEAN /\ torn \in BOOLEAN
  /\ regs \in Seq(Entries) /\ file \in Seq(Entries)
  /\ handles \subseteq [h : Roots \cup 1 .. zz, name : Names]
  /\ acked \in [Depth -> Values \cup {DIR, BLANK}]
  /\ unsaved \subseteq Names

(* The file answers what was written and saved.  (Nothing is promised of a *)
(* name, and `acked' is BLANK: after a reload, if its last value was not   *)
(* saved; in a frayed array, if it was not found; when the file that is    *)
(* there did not open to be read; after modify_reg removed it.)            *)
Answers(s) == \A n \in DOMAIN acked \ unsaved : acked[n] # BLANK => Query(s, n) = acked[n]

(* A value that was written by a call that returned is what any handle of  *)
(* that name reads from then on, whatever became of the save.              *)
ReadBack == loaded => \A n \in DOMAIN acked : acked[n] # BLANK => Query(regs, n) = acked[n]

(* One that was saved is in the file at every moment, and is read by the   *)
(* next process: also if this one is killed while it saves a value that    *)
(* comes later, or one of the same length.                                 *)
Durable == Answers(file)

(* A handle stands for one name, and the roots are always there.           *)
HandlesDistinct ==
  /\ \A s, t \in handles : s.h = t.h => s = t
  /\ loaded => RootHandles \subseteq handles
  /\ ~loaded => handles = {}

(* What a call wrote is what any handle of that name reads from then on.   *)
ValuesKept == ReadBack /\ Durable /\ HandlesDistinct
=============================================================================
