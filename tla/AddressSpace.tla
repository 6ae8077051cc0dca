---------------------------- MODULE AddressSpace ----------------------------
(***************************************************************************)
(* What the loader maps: the regions of VirtualAlloc and the views of      *)
(* CreateFileMappingA (loader/ext.c), with their two users, the codec's    *)
(* threads (win32.c) and PE_LoadImage (pe_image.c), which maps a DLL's     *)
(* file, reserves its image and unmaps the file again while those threads  *)
(* run.  The two lists have no lock.  A call is one step here, at the      *)
(* place where it writes its list; that two calls overlap shows in two     *)
(* ways.  A VirtualAlloc that read vm before another call put its region   *)
(* there links its own region past it (Insert): the other region is mapped *)
(* and in no list from then on.  Any other two calls that overlap may      *)
(* leave a freed or half-made node in a list (ListsMeet); what the program *)
(* does then is undefined, and the model stops.                            *)
(*                                                                         *)
(* Addresses are counted in units of which PAGE make a page and GRAN the   *)
(* 64K that a reservation is aligned to.  Images based above 2 GB, of      *)
(* which there may be two at one address, are left out.                    *)
(***************************************************************************)
EXTENDS Naturals, Sequences, FiniteSets

CONSTANTS
  Top, PAGE, GRAN,  \* addresses are below Top; 0 is no address
  Images,      \* DLLs
  Base,        \* the ImageBase of each
  Fixed,       \* images without relocation records
  VmaSize,     \* calc_vma_size, the same for all
  Wanted, Sizes,   \* addresses and sizes that the codec asks for
  Names,       \* names of the codec's mappings
  CODEC,
  MaxHolds, MaxViews   \* bounds

ASSUME AddressAssumption ==
  /\ PAGE \in Nat \ {0} /\ GRAN \in Nat \ {0} /\ GRAN % PAGE = 0
  /\ Top \in Nat /\ Top % PAGE = 0
  /\ Base \in [Images -> Nat] /\ Fixed \subseteq Images /\ VmaSize \in Nat \ {0}
  /\ Wanted \subseteq Nat /\ Sizes \subseteq Nat \ {0} /\ CODEC \notin Images
  /\ MaxHolds \in Nat /\ MaxViews \in Nat

NULL == 0

VARIABLES
  regions,     \* what VirtualAlloc has mapped, the newest last
  adrift,      \* addresses of the regions that the list vm does not have
  loose,       \* addresses of those whose `next' is one of these regions
  wild,        \* a list has a freed or half-made node
  views,       \* the list fm, the newest last
  mapped,      \* pages the system has given us
  load,        \* of each image: PE_LoadImage's progress, view and load_addr
  holds,       \* what VirtualAlloc returned to each user and he has not freed
  guests,      \* images that lie in a reservation of the codec
  lost         \* reservations that were decommitted from their start

linkVars == <<adrift, loose, wild>>
vars == <<regions, adrift, loose, wild, views, mapped, load, holds, guests, lost>>

Pages(a, s)  == {p \in 0 .. Top \div PAGE : p * PAGE < a + s /\ a < (p + 1) * PAGE}
PagesOf(r)   == Pages(r.a, r.s)
Meets(r, q)  == q.a < r.a + r.s /\ r.a < q.a + q.s
Within(q, r) == r.a <= q.a /\ q.a + q.s <= r.a + r.s
RoundUp(n)   == ((n + PAGE - 1) \div PAGE) * PAGE

Without(s, i) == [k \in 1 .. Len(s) - 1 |-> IF k < i THEN s[k] ELSE s[k + 1]]

(* mmap without MAP_FIXED: anywhere.                                       *)
Free(a, s) == a >= PAGE /\ a + s <= Top /\ Pages(a, s) \cap mapped = {}
Places(s)  == {a \in {p * PAGE : p \in 1 .. Top \div PAGE} : Free(a, s)}

(* The list vm.                                                            *)
Linked      == {i \in DOMAIN regions : regions[i].a \notin adrift}
NewestOf(S) == {i \in S : \A j \in S : j <= i}
Before(i)   == {regions[j].a : j \in NewestOf({k \in Linked : k < i})}
---------------------------------------------------------------------------
(* What VirtualAlloc makes of the address and the size.                    *)
Rounded(x, n, t) ==
  LET a == x - (x % (IF "reserve" \in t THEN GRAN ELSE PAGE))
      s == n + (x - a)
  IN [a |-> a, s |-> RoundUp(IF "reserve" \in t /\ s < GRAN THEN GRAN ELSE s)]

Answer(a, rs, m) == [ret |-> a, regions |-> rs, mapped |-> m]

(* Mutant: a region that the request does not meet hides the others. *)
Overlaps_newest(q) == {i \in NewestOf(Linked) : Meets(regions[i], q)}

Overlaps(q) == {i \in Linked : Meets(regions[i], q)}

(* VirtualAlloc.  A commit inside a reservation, the newest region that    *)
(* the request meets, is answered without a change; another overlap, an    *)
(* address that the system does not give, and no memory, with NULL.        *)
VirtualAlloc(x, n, t) ==
  LET q     == Rounded(x, n, t)
      over  == IF q.a = NULL THEN {} ELSE Overlaps(q)
      first == regions[CHOOSE i \in over : \A j \in over : j <= i]
      at    == IF q.a = NULL THEN Places(q.s) ELSE {a \in {q.a} : Free(a, q.s)}
      new(a) == [a |-> a, s |-> q.s, state |-> IF t = {"reserve"} THEN 0 ELSE 1]
      none  == Answer(NULL, regions, mapped)
  IN IF over # {}
       THEN {IF first.state = 0 /\ Within(q, first) /\ "commit" \in t
               THEN Answer(q.a, regions, mapped) ELSE none}
     ELSE {none} \cup {Answer(a, Append(regions, new(a)), mapped \cup Pages(a, q.s)) : a \in at}

(* The new region becomes vm: behind the one that is vm, or behind the one *)
(* that was when the call read it, whose `next' the other call has set to  *)
(* the region that is lost, or this one to the new one.                    *)
Insert(r) ==
  /\ \/ UNCHANGED <<adrift, loose>>
     \/ /\ r.regions # regions
        /\ \E i \in NewestOf(Linked) :
             /\ adrift' = adrift \cup {regions[i].a}
             /\ loose' \in {loose \ Before(i), loose \cup Before(i)}
  /\ UNCHANGED wild

(* Mutant: what is unmapped is what the caller says. *)
VirtualFree_size(x, n) ==
  {Answer(x, Without(regions, i), mapped \ Pages(x, n)) : i \in {k \in Linked : regions[k].a = x}}

(* Mutant: an address inside the region will do. *)
VirtualFree_inside(x, n) ==
  {Answer(x, Without(regions, i), mapped \ PagesOf(regions[i])) :
     i \in {k \in Linked : Within([a |-> x, s |-> 1], regions[k])}}

(* VirtualFree: the whole region that begins at x, whatever is asked; no   *)
(* answer if there is none.                                                *)
VirtualFree(x, n) ==
  {Answer(x, Without(regions, i), mapped \ PagesOf(regions[i])) :
     i \in {k \in Linked : regions[k].a = x}}

(* The neighbours are linked past it.  The successor of a region whose     *)
(* `next' names another keeps the freed node as its `prev'.                *)
Unlink(x) ==
  /\ wild' = (x \in loose)
  /\ loose' = loose \ ({x} \cup UNION {Before(i) : i \in {k \in Linked : regions[k].a = x}})
  /\ UNCHANGED adrift

(* Two CreateFileMappingA, or a VirtualFree and another call, at one time. *)
ListsMeet ==
  /\ wild' = TRUE
  /\ UNCHANGED <<regions, adrift, loose, views, mapped, load, holds, guests, lost>>

(* A new mapping, of one page, goes on top of the others; it notes that    *)
(* they are under one from then on.                                        *)
NewView(a, n, by) ==
  /\ views' = Append([i \in DOMAIN views |-> [views[i] EXCEPT !.under = TRUE]],
                   [a |-> a, s |-> PAGE, name |-> n, by |-> by, under |-> FALSE])
  /\ mapped' = mapped \cup Pages(a, PAGE)

(* UnmapViewOfFile looks from the newest mapping for one that is newer.    *)
Newest(h) == {i \in DOMAIN views : views[i].a = h /\ i = Len(views)}

UnmapView(h) ==
  \/ \E i \in Newest(h) : views' = Without(views, i) /\ mapped' = mapped \ PagesOf(views[i])
  \/ Newest(h) = {} /\ UNCHANGED <<views, mapped>>
---------------------------------------------------------------------------
(* The codec's calls. *)
CodecAlloc(x, n, t) ==
  LET q == Rounded(x, n, t) IN
  /\ Cardinality(holds) < MaxHolds
  /\ \E r \in VirtualAlloc(x, n, t) :
       /\ regions' = r.regions /\ mapped' = r.mapped
       /\ holds' = IF r.regions = regions THEN holds
                   ELSE holds \cup {[who |-> CODEC, a |-> r.ret, s |-> q.s]}
       /\ Insert(r)
  /\ UNCHANGED <<views, load, guests, lost>>

(* A user who frees a region that he has lost frees the one that is there. *)
LostBy(gone) == lost \cup {h \in holds : \E g \in gone \cap lost : h.a = g.a}

(* MEM_RELEASE *)
CodecFree(h, n) ==
  /\ h \in holds /\ h.who = CODEC
  /\ \/ VirtualFree(h.a, n) = {} /\ UNCHANGED <<regions, mapped>>
     \/ \E r \in VirtualFree(h.a, n) : regions' = r.regions /\ mapped' = r.mapped
  /\ holds' = holds \ {h} /\ Unlink(h.a)
  /\ lost' = LostBy({h}) \ {h}
  /\ UNCHANGED <<views, load, guests>>

(* MEM_DECOMMIT of pages at the start of a reservation.                    *)
CodecDecommit(h, n) ==
  /\ h \in holds \ lost /\ h.who = CODEC
  /\ \E r \in VirtualFree(h.a, n) : regions' = r.regions /\ mapped' = r.mapped
  /\ lost' = lost \cup {h} /\ Unlink(h.a)
  /\ UNCHANGED <<views, load, holds, guests>>

(* CreateFileMappingA of a file, or without one; what OpenFileMappingA     *)
(* finds later; UnmapViewOfFile of win32.c does nothing.                   *)
CodecMap(n) ==
  /\ Len(views) < MaxViews
  /\ \E a \in Places(PAGE) : NewView(a, n, CODEC)
  /\ UNCHANGED <<linkVars, regions, load, holds, guests, lost>>

OpenFileMappingA(n) ==
  LET found == {i \in DOMAIN views : views[i].name = n}
  IN IF found = {} THEN NULL ELSE views[CHOOSE i \in found : \A j \in found : j <= i].a
---------------------------------------------------------------------------
(* PE_LoadImage: the view of the file ...                                  *)
Idle == [st |-> "out", view |-> NULL, addr |-> NULL]

LoadBegins(d) ==
  /\ load[d] = Idle /\ Len(views) < MaxViews
  /\ \E a \in Places(PAGE) :
       /\ NewView(a, {}, d)
       /\ load' = [load EXCEPT ![d] = [Idle EXCEPT !.st = "viewed", !.view = a]]
  /\ UNCHANGED <<linkVars, regions, holds, guests, lost>>

(* Mutant: the second answer is not looked at. *)
Refused_second(d) == IF load[d].st = "moved" THEN "placed" ELSE IF d \in Fixed THEN "failed" ELSE "moved"

(* After VirtualAlloc has answered NULL. *)
Refused(d) == IF load[d].st = "moved" \/ d \in Fixed THEN "failed" ELSE "moved"

(* ... the image, at its base or, if it can be relocated, elsewhere (that  *)
(* is a second call of VirtualAlloc) ...                                   *)
ReserveImage(d) ==
  LET whole == {"reserve", "commit"}
      x     == IF load[d].st = "moved" THEN NULL ELSE Base[d]
      q     == Rounded(x, VmaSize, whole) IN
  /\ load[d].st \in {"viewed", "moved"}
  /\ \E r \in VirtualAlloc(x, VmaSize, whole) :
       /\ regions' = r.regions /\ mapped' = r.mapped /\ Insert(r)
       /\ IF r.ret = NULL
            THEN /\ load' = [load EXCEPT ![d].st = Refused(d)]
                 /\ UNCHANGED <<holds, guests>>
            ELSE /\ load' = [load EXCEPT ![d].st = "placed", ![d].addr = r.ret]
                 /\ holds' = holds \cup {[who |-> d, a |-> r.ret, s |-> q.s]}
                 /\ guests' = IF r.regions = regions THEN guests \cup {d} ELSE guests
  /\ UNCHANGED <<views, lost>>

(* ... its contents, and the view is unmapped.                             *)
LoadEnds(d) ==
  /\ load[d].st = "placed"
  /\ UnmapView(load[d].view)
  /\ load' = [load EXCEPT ![d] = [Idle EXCEPT !.st = "in", !.addr = load[d].addr]]
  /\ UNCHANGED <<linkVars, regions, holds, guests, lost>>

Image(d) == {h \in holds : h.who = d}

(* VirtualFree(addr) as PE_LoadImage and PE_UnloadLibrary call it, which   *)
(* do not look at its answer.                                              *)
Freed(a) == IF VirtualFree(a, 0) = {} THEN {Answer(a, regions, mapped)} ELSE VirtualFree(a, 0)

FreeImage(d, after) ==
  /\ \E r \in Freed(load[d].addr) : regions' = r.regions /\ mapped' = r.mapped
  /\ Unlink(load[d].addr)
  /\ holds' = holds \ Image(d) /\ guests' = guests \ {d}
  /\ load' = [load EXCEPT ![d] = after]
  /\ lost' = (IF d \in guests THEN lost \cup {h \in holds : h.a = load[d].addr}
              ELSE LostBy(Image(d))) \ Image(d)
  /\ UNCHANGED views

(* The error exit: the image, if a section could not be mapped, and then   *)
(* the view; also for no DLL of this machine, and no room.                 *)
LoadFails(d) ==
  \/ /\ load[d].st = "placed"
     /\ FreeImage(d, [load[d] EXCEPT !.st = "failed", !.addr = NULL])
  \/ /\ load[d].st \in {"viewed", "failed"}
     /\ UnmapView(load[d].view)
     /\ load' = [load EXCEPT ![d] = Idle]
     /\ UNCHANGED <<linkVars, regions, holds, guests, lost>>

PE_UnloadLibrary(d) == load[d].st = "in" /\ FreeImage(d, Idle)
---------------------------------------------------------------------------
Init ==
  /\ regions = <<>> /\ views = <<>> /\ mapped = {} /\ holds = {} /\ guests = {} /\ lost = {}
  /\ adrift = {} /\ loose = {} /\ wild = FALSE
  /\ load = [d \in Images |-> Idle]

Types == {{"reserve"}, {"commit"}, {"reserve", "commit"}, {"reserve", "topdown"}}

Running ==
  \/ ListsMeet
  \/ \E x \in Wanted, n \in Sizes, t \in Types : CodecAlloc(x, n, t)
  \/ \E h \in holds, n \in Sizes : CodecFree(h, n) \/ CodecDecommit(h, n)
  \/ \E n \in Names : CodecMap({n})
  \/ \E d \in Images :
       \/ LoadBegins(d) \/ ReserveImage(d) \/ LoadEnds(d) \/ LoadFails(d) \/ PE_UnloadLibrary(d)

Next == ~wild /\ Running

Spec == Init /\ [][Next]_vars
---------------------------------------------------------------------------
(* Types; an image that is in has an address.                              *)
TypeOK ==
  /\ \A i \in DOMAIN regions : regions[i].a \in Nat /\ regions[i].s \in Nat /\ regions[i].state \in {0, 1}
  /\ \A i \in DOMAIN views : views[i].a \in Nat /\ views[i].s \in Nat /\ views[i].by \in Images \cup {CODEC}
  /\ mapped \subseteq 0 .. Top \div PAGE
  /\ load \in [Images -> [st : {"out", "viewed", "moved", "failed", "placed", "in"}, view : Nat, addr : Nat]]
  /\ \A d \in Images : load[d].st \in {"placed", "in"} => load[d].addr # NULL
  /\ holds \subseteq [who : Images \cup {CODEC}, a : Nat, s : Nat]
  /\ guests \subseteq Images /\ lost \subseteq holds
  /\ adrift \subseteq Nat /\ loose \subseteq Nat /\ wild \in BOOLEAN

(* What the system has mapped is the regions, in the list or adrift, and   *)
(* the views of the other list, and nothing is in them twice: no page is   *)
(* left over when a load fails half-way, none is unmapped that another     *)
(* region or view still has, and no region is put over one that the list   *)
(* has lost.  The view of a load that has ended, well or not, is gone,     *)
(* unless another thread has made a mapping before that end.               *)
Tracked ==
  /\ \A i, j \in DOMAIN regions : i # j => ~Meets(regions[i], regions[j])
  /\ \A i \in DOMAIN regions, j \in DOMAIN views : PagesOf(regions[i]) \cap PagesOf(views[j]) = {}
  /\ \A i, j \in DOMAIN views : i # j => PagesOf(views[i]) \cap PagesOf(views[j]) = {}
  /\ mapped = UNION ({PagesOf(regions[i]) : i \in DOMAIN regions}
                       \cup {PagesOf(views[i]) : i \in DOMAIN views})
  /\ \A i \in DOMAIN views :
       views[i].by = CODEC \/ load[views[i].by].view = views[i].a \/ views[i].under

(* The user who was given a region has that region, in the list or adrift, *)
(* and nobody else's call takes it, unless an image was put into a         *)
(* reservation or the codec gave up the start of it.                       *)
HoldsExact ==
  \A h \in holds \ lost :
    h.who \in guests \/ \E i \in DOMAIN regions : regions[i].a = h.a /\ regions[i].s = h.s

(* Every page of a reservation in the list can be committed, whatever was  *)
(* reserved, loaded, freed and lost since.                                 *)
CommitSucceeds ==
  \A i \in Linked : regions[i].state = 0 =>
    \A x \in regions[i].a .. regions[i].a + regions[i].s - 1 :
      \A r \in VirtualAlloc(x, 1, {"commit"}) :
        r.ret # NULL /\ r.ret <= x /\ x < r.ret + PAGE /\ r.regions = regions

=============================================================================
