------------------------- MODULE AddressSpaceProofs -------------------------
(***************************************************************************)
(* Proofs about AddressSpace, for every address space, page size, set of   *)
(* images and of codec calls.  The inductive invariant MemoryInv has four  *)
(* parts: the types (Listed); that the two lists hold exactly the pages    *)
(* mapped, each once (Layout); which views are under another (Viewed); and *)
(* that everyone who was answered an address and is not exempt still has   *)
(* a region there, with no second claim to that address (Held).            *)
(***************************************************************************)
EXTENDS AddressSpace, Integers, SequenceTheorems, TLAPS

(* What a division with remainder is.                                      *)
LEMMA DivMod ==
  ASSUME NEW n \in Nat, NEW d \in Nat \ {0}
  PROVE  /\ n % d \in 0 .. d - 1 /\ n \div d \in Nat
         /\ n = (n \div d) * d + (n % d)
<1>1. n % d \in 0 .. d - 1
  OBVIOUS
<1>2. n \div d \in Nat
  OBVIOUS
<1>3. n = d * (n \div d) + (n % d)
  OBVIOUS
<1>4. n = (n \div d) * d + (n % d)
  BY <1>2, <1>3
<1>q. QED  BY <1>1, <1>2, <1>4

(* Multiples of a number are at least that number apart.                   *)
LEMMA Apart ==
  ASSUME NEW k \in Nat, NEW m \in Nat, NEW d \in Nat \ {0}
  PROVE  /\ k * d \in Nat
         /\ k * d < m * d => k < m
         /\ k < m => k * d + d <= m * d
         /\ (k + 1) * d = k * d + d
         /\ (k + m) * d = k * d + m * d
  OBVIOUS

Multiple(n) == \E k \in Nat : n = k * PAGE

(* Whole pages are a natural number of units.                              *)
LEMMA MultipleNat ==
  /\ PAGE \in Nat \ {0}
  /\ \A n : Multiple(n) => n \in Nat
  BY Apart, AddressAssumption DEF Multiple

(* The sum of whole pages is whole pages.                                  *)
LEMMA MultipleSum ==
  ASSUME NEW n, NEW m, Multiple(n), Multiple(m)
  PROVE  Multiple(n + m)
<1>1. PICK k \in Nat : n = k * PAGE
  BY DEF Multiple
<1>2. PICK l \in Nat : m = l * PAGE
  BY DEF Multiple
<1>3. n + m = (k + l) * PAGE
  BY <1>1, <1>2, Apart, MultipleNat
<1>q. QED  BY <1>3 DEF Multiple

(* No multiple of the page size lies inside a page.                        *)
LEMMA MultipleStep ==
  ASSUME NEW n, NEW m, Multiple(n), Multiple(m), n < m
  PROVE  n + PAGE <= m
<1>1. PICK k \in Nat : n = k * PAGE
  BY DEF Multiple
<1>2. PICK l \in Nat : m = l * PAGE
  BY DEF Multiple
<1>q. QED  BY <1>1, <1>2, Apart, MultipleNat

(* The granularity of reservations is a multiple of the page size, and so  *)
(* are the addresses and sizes that VirtualAlloc rounds to.                *)
LEMMA GranMultiple ==
  /\ Multiple(GRAN) /\ Multiple(PAGE) /\ Multiple(0)
  /\ \A k \in Nat : Multiple(k * PAGE) /\ Multiple(k * GRAN)
<1>1. GRAN \in Nat \ {0} /\ PAGE \in Nat \ {0} /\ GRAN % PAGE = 0
  BY AddressAssumption
<1>2. PICK g \in Nat : GRAN = g * PAGE
  <2>1. GRAN = (GRAN \div PAGE) * PAGE + (GRAN % PAGE) /\ GRAN \div PAGE \in Nat
    BY <1>1, DivMod
  <2> DEFINE g == GRAN \div PAGE
  <2>2. g * PAGE \in Nat
    BY <1>1, <2>1, Apart
  <2> QED  BY <1>1, <2>1, <2>2
<1>3. PAGE = 1 * PAGE /\ 0 = 0 * PAGE
  BY <1>1
<1>4. ASSUME NEW k \in Nat PROVE Multiple(k * GRAN)
  <2>1. k * GRAN = (k * g) * PAGE /\ k * g \in Nat
    BY <1>1, <1>2
  <2> QED  BY <2>1 DEF Multiple
<1>q. QED  BY <1>2, <1>3, <1>4 DEF Multiple

(* Rounding down.                                                          *)
LEMMA RoundDown ==
  ASSUME NEW x \in Nat, NEW d \in {PAGE, GRAN}
  PROVE  /\ Multiple(x - (x % d)) /\ x - (x % d) \in Nat
         /\ x - (x % d) <= x /\ x < x - (x % d) + d
<1>1. d \in Nat \ {0}
  BY AddressAssumption
<1>2. /\ x % d \in 0 .. d - 1 /\ x \div d \in Nat
      /\ x = (x \div d) * d + (x % d)
  BY <1>1, DivMod
<1> DEFINE k == x \div d
<1>3. k * d \in Nat
  BY <1>1, <1>2, Apart
<1> HIDE DEF k
<1>4. x - (x % d) = k * d
  BY <1>1, <1>2, <1>3 DEF k
<1>5. Multiple(k * d)
  BY <1>2, GranMultiple DEF k
<1>q. QED  BY <1>1, <1>2, <1>3, <1>4, <1>5

(* Rounding up.                                                            *)
LEMMA RoundUpFits ==
  ASSUME NEW n \in Nat \ {0}
  PROVE  Multiple(RoundUp(n)) /\ RoundUp(n) \in Nat /\ RoundUp(n) >= n
<1> DEFINE k == (n + PAGE - 1) \div PAGE
<1>1. PAGE \in Nat \ {0} /\ n + PAGE - 1 \in Nat
  BY AddressAssumption
<1>2. /\ k \in Nat /\ (n + PAGE - 1) % PAGE \in 0 .. PAGE - 1
      /\ n + PAGE - 1 = k * PAGE + ((n + PAGE - 1) % PAGE)
  BY <1>1, DivMod
<1>3. k * PAGE \in Nat
  BY <1>1, <1>2, Apart
<1>4. k * PAGE >= n
  <2> HIDE DEF k
  <2> QED  BY <1>1, <1>2, <1>3
<1>5. RoundUp(n) = k * PAGE
  BY DEF RoundUp
<1> HIDE DEF k
<1>q. QED  BY <1>2, <1>3, <1>4, <1>5, GranMultiple

(* What VirtualAlloc asks the system for is whole pages, and not empty.    *)
LEMMA RoundedFits ==
  ASSUME NEW x \in Nat, NEW n \in Nat \ {0}, NEW t
  PROVE  /\ Multiple(Rounded(x, n, t).a) /\ Rounded(x, n, t).a \in Nat
         /\ Multiple(Rounded(x, n, t).s) /\ Rounded(x, n, t).s \in Nat \ {0}
<1> DEFINE a == x - (x % (IF "reserve" \in t THEN GRAN ELSE PAGE))
           s == n + (x - a)
           m == IF "reserve" \in t /\ s < GRAN THEN GRAN ELSE s
<1>1. Multiple(a) /\ a \in Nat /\ a <= x
  BY RoundDown
<1>2. s \in Nat \ {0}
  <2> HIDE DEF a
  <2> QED  BY <1>1
<1>3. m \in Nat \ {0}
  BY <1>2, AddressAssumption
<1>4. Multiple(RoundUp(m)) /\ RoundUp(m) \in Nat /\ RoundUp(m) >= m
  BY <1>3, RoundUpFits
<1>5. Rounded(x, n, t) = [a |-> a, s |-> RoundUp(m)]
  BY DEF Rounded
<1> HIDE DEF a, s, m
<1>q. QED  BY <1>1, <1>3, <1>4, <1>5
---------------------------------------------------------------------------
(* Two regions that meet have a page in common.                            *)
LEMMA MeetPages ==
  ASSUME NEW a \in Nat, NEW s \in Nat \ {0}, NEW b \in Nat, NEW t \in Nat \ {0},
         a + s <= Top, b < a + s, a < b + t
  PROVE  Pages(a, s) \cap Pages(b, t) # {}
<1> DEFINE u == IF a < b THEN b ELSE a
           p == u \div PAGE
           k == Top \div PAGE
<1>1. PAGE \in Nat \ {0} /\ Top \in Nat /\ Top % PAGE = 0
  BY AddressAssumption
<1>2. u \in Nat /\ u < Top /\ a <= u /\ b <= u /\ u < a + s /\ u < b + t
  BY <1>1
<1>3. p \in Nat /\ u % PAGE \in 0 .. PAGE - 1 /\ u = p * PAGE + (u % PAGE)
  <2> HIDE DEF u
  <2> QED  BY <1>1, <1>2, DivMod
<1>4. k \in Nat /\ Top = k * PAGE
  <2>1. k \in Nat /\ Top = k * PAGE + (Top % PAGE)
    BY <1>1, DivMod
  <2>2. k * PAGE \in Nat
    BY <1>1, <2>1, Apart
  <2> HIDE DEF k
  <2> QED  BY <1>1, <2>1, <2>2
<1>5. p * PAGE \in Nat /\ (p + 1) * PAGE = p * PAGE + PAGE
  BY <1>1, <1>3, Apart
<1> HIDE DEF u, p, k
<1>6. p * PAGE <= u /\ u < (p + 1) * PAGE
  BY <1>1, <1>2, <1>3, <1>5
<1>7. p * PAGE < k * PAGE
  BY <1>1, <1>2, <1>4, <1>5, <1>6
<1>8. p < k
  BY <1>1, <1>3, <1>4, <1>7, Apart
<1>9. p \in 0 .. Top \div PAGE
  BY <1>3, <1>4, <1>8 DEF k
<1>10. p * PAGE < a + s /\ p * PAGE < b + t /\ a < (p + 1) * PAGE /\ b < (p + 1) * PAGE
  BY <1>1, <1>2, <1>5, <1>6
<1>q. QED  BY <1>9, <1>10 DEF Pages

(* A sequence without one of its elements.                                 *)
LEMMA WithoutElement ==
  ASSUME NEW S, NEW q \in Seq(S), NEW i \in DOMAIN q
  PROVE  /\ Without(q, i) \in Seq(S) /\ Len(Without(q, i)) = Len(q) - 1
         /\ DOMAIN Without(q, i) = 1 .. Len(q) - 1
         /\ \A k \in DOMAIN Without(q, i) :
              Without(q, i)[k] = q[IF k < i THEN k ELSE k + 1]
         /\ \A k \in DOMAIN Without(q, i) :
              (IF k < i THEN k ELSE k + 1) \in DOMAIN q \ {i}
         /\ \A j \in DOMAIN q \ {i} :
              \E k \in DOMAIN Without(q, i) : j = IF k < i THEN k ELSE k + 1
<1>1. Len(q) \in Nat /\ DOMAIN q = 1 .. Len(q) /\ \A k \in DOMAIN q : q[k] \in S
  OBVIOUS
<1>2. Len(q) - 1 \in Nat
  BY <1>1
<1> DEFINE w == Without(q, i)
<1>3. w = [k \in 1 .. Len(q) - 1 |-> IF k < i THEN q[k] ELSE q[k + 1]]
  BY DEF Without
<1>4. \A k \in 1 .. Len(q) - 1 : (IF k < i THEN k ELSE k + 1) \in DOMAIN q \ {i}
  BY <1>1
<1>5. \A k \in 1 .. Len(q) - 1 : w[k] = q[IF k < i THEN k ELSE k + 1]
  BY <1>3
<1>6. w \in [1 .. Len(q) - 1 -> S]
  <2>1. \A k \in 1 .. Len(q) - 1 : w[k] \in S
    BY <1>1, <1>4, <1>5
  <2> QED  BY <1>3, <2>1
<1> HIDE DEF w
<1>7. w \in Seq(S) /\ Len(w) = Len(q) - 1 /\ DOMAIN w = 1 .. Len(q) - 1
  <2>1. w \in Seq(S)
    BY <1>2, <1>6, SeqDef
  <2> QED  BY <1>2, <1>6, <2>1
<1>8. \A j \in DOMAIN q \ {i} : \E k \in 1 .. Len(q) - 1 : j = IF k < i THEN k ELSE k + 1
  <2> TAKE j \in DOMAIN q \ {i}
  <2>1. CASE j < i
    BY <1>1, <2>1
  <2>2. CASE j > i
    <3> WITNESS j - 1 \in 1 .. Len(q) - 1
    <3> QED  BY <1>1, <2>2
  <2> QED  BY <1>1, <2>1, <2>2
<1>q. QED  BY <1>4, <1>5, <1>7, <1>8 DEF w
---------------------------------------------------------------------------
(* What VirtualAlloc and mmap give: whole pages below Top, and not the     *)
(* page of the address NULL.                                               *)
Fits(r) ==
  /\ r.a \in Nat /\ r.s \in Nat \ {0} /\ Multiple(r.a) /\ Multiple(r.s)
  /\ r.a >= PAGE /\ r.a + r.s <= Top

(* A list whose regions have no page in common, and all their pages.       *)
Spread(q) ==
  /\ \A i \in DOMAIN q : Fits(q[i])
  /\ \A i, j \in DOMAIN q : i # j => PagesOf(q[i]) \cap PagesOf(q[j]) = {}

Covered(q) == UNION {PagesOf(q[i]) : i \in DOMAIN q}

(* The two lists hold exactly the pages in m, each once.                   *)
Layout(rs, vs, m) ==
  /\ Spread(rs) /\ Spread(vs)
  /\ Covered(rs) \cap Covered(vs) = {}
  /\ m = Covered(rs) \cup Covered(vs)

(* A region that lies in free pages is appended.                           *)
LEMMA SpreadAppend ==
  ASSUME NEW S, NEW q \in Seq(S), NEW e \in S,
         Spread(q), Fits(e), PagesOf(e) \cap Covered(q) = {}
  PROVE  /\ Spread(Append(q, e))
         /\ Covered(Append(q, e)) = Covered(q) \cup PagesOf(e)
<1> DEFINE w == Append(q, e)
<1>1. /\ Len(q) \in Nat /\ DOMAIN q = 1 .. Len(q) /\ DOMAIN w = 1 .. Len(q) + 1
      /\ w[Len(q) + 1] = e /\ \A i \in DOMAIN q : w[i] = q[i]
  BY AppendProperties
<1> HIDE DEF w
<1>2. DOMAIN w = DOMAIN q \cup {Len(q) + 1} /\ Len(q) + 1 \notin DOMAIN q
  BY <1>1
<1>3. \A i \in DOMAIN q : PagesOf(q[i]) \subseteq Covered(q)
  BY DEF Covered
<1>4. Spread(w)
  BY <1>1, <1>2, <1>3 DEF Spread
<1>5. Covered(w) = Covered(q) \cup PagesOf(e)
  <2>1. \A p : p \in Covered(w) <=> \E i \in DOMAIN w : p \in PagesOf(w[i])
    BY DEF Covered
  <2>2. \A p : p \in Covered(q) <=> \E i \in DOMAIN q : p \in PagesOf(q[i])
    BY DEF Covered
  <2> QED  BY <1>1, <1>2, <2>1, <2>2
<1>q. QED  BY <1>4, <1>5 DEF w

(* A region is taken out of a list, with its pages.                        *)
LEMMA SpreadWithout ==
  ASSUME NEW S, NEW q \in Seq(S), NEW i \in DOMAIN q, Spread(q)
  PROVE  /\ Spread(Without(q, i))
         /\ Covered(Without(q, i)) = Covered(q) \ PagesOf(q[i])
<1> DEFINE w == Without(q, i)
           at(k) == IF k < i THEN k ELSE k + 1
<1>1. /\ \A k \in DOMAIN w : w[k] = q[at(k)] /\ at(k) \in DOMAIN q \ {i}
      /\ \A j \in DOMAIN q \ {i} : \E k \in DOMAIN w : j = at(k)
      /\ DOMAIN w \subseteq Int
  BY WithoutElement
<1>2. \A k, l \in DOMAIN w : k # l => at(k) # at(l)
  <2>1. DOMAIN q \subseteq Int
    OBVIOUS
  <2> HIDE DEF w
  <2> QED  BY <1>1, <2>1
<1> HIDE DEF w, at
<1>3. Spread(w)
  BY <1>1, <1>2 DEF Spread
<1>4. Covered(w) = Covered(q) \ PagesOf(q[i])
  <2>1. \A p : p \in Covered(w) <=> \E k \in DOMAIN w : p \in PagesOf(w[k])
    BY DEF Covered
  <2>2. \A p : p \in Covered(q) <=> \E j \in DOMAIN q : p \in PagesOf(q[j])
    BY DEF Covered
  <2>3. \A j \in DOMAIN q \ {i} : PagesOf(q[j]) \cap PagesOf(q[i]) = {}
    BY DEF Spread
  <2>4. ASSUME NEW p, p \in Covered(w) PROVE p \in Covered(q) \ PagesOf(q[i])
    <3>1. PICK k \in DOMAIN w : p \in PagesOf(w[k])
      BY <2>1, <2>4
    <3> QED  BY <1>1, <2>2, <2>3, <3>1
  <2>5. ASSUME NEW p, p \in Covered(q) \ PagesOf(q[i]) PROVE p \in Covered(w)
    <3>1. PICK j \in DOMAIN q : p \in PagesOf(q[j])
      BY <2>2, <2>5
    <3>2. PICK k \in DOMAIN w : j = at(k)
      BY <1>1, <2>5, <3>1
    <3> QED  BY <1>1, <2>1, <3>1, <3>2
  <2> QED  BY <2>4, <2>5
<1>q. QED  BY <1>3, <1>4 DEF w

(* No two regions of a list meet, and a region that lies inside one of     *)
(* them meets no other.                                                    *)
LEMMA SpreadApart ==
  ASSUME NEW q, Spread(q), NEW i \in DOMAIN q, NEW j \in DOMAIN q, i # j
  PROVE  ~Meets(q[i], q[j])
<1>1. PagesOf(q[i]) \cap PagesOf(q[j]) = {} /\ Fits(q[i]) /\ Fits(q[j])
  BY DEF Spread
<1>2. SUFFICES ASSUME Meets(q[i], q[j]) PROVE FALSE
  OBVIOUS
<1>3. q[j].a < q[i].a + q[i].s /\ q[i].a < q[j].a + q[j].s
  BY <1>2 DEF Meets
<1>4. Pages(q[i].a, q[i].s) \cap Pages(q[j].a, q[j].s) # {}
  BY <1>1, <1>3, MeetPages DEF Fits
<1>q. QED  BY <1>1, <1>4 DEF PagesOf
---------------------------------------------------------------------------
Region == [a : Nat, s : Nat, state : {0, 1}]
View   == [a : Nat, s : Nat, name : SUBSET Names, by : Images \cup {CODEC}, under : BOOLEAN]

(* A place found for a new region or view.                                 *)
LEMMA FreeFits ==
  ASSUME NEW a \in Nat, Multiple(a), NEW s \in Nat \ {0}, Multiple(s), Free(a, s),
         NEW e, e.a = a, e.s = s
  PROVE  Fits(e) /\ PagesOf(e) \cap mapped = {}
  BY DEF Free, Fits, PagesOf

LEMMA PlacesFit ==
  ASSUME NEW s \in Nat \ {0}, Multiple(s), NEW a \in Places(s)
  PROVE  a \in Nat /\ Multiple(a) /\ Free(a, s)
<1>1. PICK p \in 1 .. Top \div PAGE : a = p * PAGE /\ Free(a, s)
  BY DEF Places
<1>2. p \in Nat
  BY <1>1, AddressAssumption, DivMod
<1>3. Multiple(a)
  BY <1>1, <1>2, GranMultiple
<1>q. QED  BY <1>1, <1>3, MultipleNat

(* VirtualAlloc answers NULL and does nothing, or answers with an address  *)
(* inside a reservation, or appends a region that lies in free pages.      *)
Appended(r, s) ==
  \E st \in {0, 1} :
    LET e == [a |-> r.ret, s |-> s, state |-> st]
    IN /\ e \in Region /\ Fits(e) /\ PagesOf(e) \cap mapped = {}
       /\ r.regions = Append(regions, e) /\ r.mapped = mapped \cup PagesOf(e)

LEMMA AllocAnswers ==
  ASSUME regions \in Seq(Region), NEW x \in Nat, NEW n \in Nat \ {0}, NEW t,
         NEW r \in VirtualAlloc(x, n, t)
  PROVE  \/ r.ret = NULL /\ r.regions = regions /\ r.mapped = mapped
         \/ r.ret \in Nat \ {NULL} /\ r.regions = regions /\ r.mapped = mapped
         \/ r.ret \in Nat \ {NULL} /\ Appended(r, Rounded(x, n, t).s)
<1> DEFINE q     == Rounded(x, n, t)
           over  == IF q.a = NULL THEN {} ELSE Overlaps(q)
           first == regions[CHOOSE i \in over : \A j \in over : j <= i]
           at    == IF q.a = NULL THEN Places(q.s) ELSE {a \in {q.a} : Free(a, q.s)}
           new(a) == [a |-> a, s |-> q.s, state |-> IF t = {"reserve"} THEN 0 ELSE 1]
           none  == Answer(NULL, regions, mapped)
<1>1. q.a \in Nat /\ Multiple(q.a) /\ q.s \in Nat \ {0} /\ Multiple(q.s)
  BY RoundedFits
<1>2. over # {} => q.a # NULL
  OBVIOUS
<1>3. \A a \in at : a \in Nat /\ Multiple(a) /\ Free(a, q.s)
  <2> HIDE DEF q
  <2> QED  BY <1>1, PlacesFit
<1>4. r \in IF over # {}
              THEN {IF first.state = 0 /\ Within(q, first) /\ "commit" \in t
                      THEN Answer(q.a, regions, mapped) ELSE none}
            ELSE {none} \cup {Answer(a, Append(regions, new(a)), mapped \cup Pages(a, q.s)) : a \in at}
  BY DEF VirtualAlloc
<1>5. q.s = Rounded(x, n, t).s
  OBVIOUS
<1> HIDE DEF q, over, first, at
<1>6. CASE over # {}
  <2>1. r = none \/ r = Answer(q.a, regions, mapped)
    BY <1>4, <1>6
  <2> QED  BY <1>1, <1>2, <1>6, <2>1 DEF Answer, NULL
<1>7. CASE r = none
  BY <1>7 DEF Answer
<1>8. CASE over = {} /\ r # none
  <2>1. PICK a \in at : r = Answer(a, Append(regions, new(a)), mapped \cup Pages(a, q.s))
    BY <1>4, <1>8
  <2>2. /\ new(a) \in Region /\ new(a).a = a /\ new(a).s = q.s
        /\ r.ret = a /\ r.regions = Append(regions, new(a))
        /\ r.mapped = mapped \cup PagesOf(new(a))
    BY <1>1, <1>3, <2>1 DEF Answer, Region, PagesOf
  <2>3. Fits(new(a)) /\ PagesOf(new(a)) \cap mapped = {}
    <3> HIDE DEF new
    <3> QED  BY <1>1, <1>3, <2>2, FreeFits
  <2>4. a # NULL
    BY <2>2, <2>3, AddressAssumption DEF Fits, NULL
  <2>5. Appended(r, q.s)
    BY <2>2, <2>3 DEF Appended
  <2> QED  BY <1>3, <1>5, <2>2, <2>4, <2>5
<1>q. QED  BY <1>6, <1>7, <1>8

(* A page of a reservation is committed, whatever the rest of the list.    *)
LEMMA CommitFound ==
  ASSUME regions \in Seq(Region), Spread(regions),
         NEW i \in DOMAIN regions, i \in Linked, regions[i].state = 0,
         NEW x \in regions[i].a .. regions[i].a + regions[i].s - 1,
         NEW r \in VirtualAlloc(x, 1, {"commit"})
  PROVE  r.ret # NULL /\ r.ret <= x /\ x < r.ret + PAGE /\ r.regions = regions
<1> DEFINE q     == Rounded(x, 1, {"commit"})
           over  == IF q.a = NULL THEN {} ELSE Overlaps(q)
           first == regions[CHOOSE k \in over : \A j \in over : j <= k]
<1>1. /\ Fits(regions[i]) /\ x \in Nat /\ PAGE \in Nat \ {0}
      /\ regions[i].a \in Nat /\ regions[i].s \in Nat
      /\ regions[i].a <= x /\ x < regions[i].a + regions[i].s
  BY AddressAssumption DEF Spread, Fits
<1>2. q.a = x - (x % PAGE) /\ q.s = RoundUp(1 + (x - q.a))
  BY DEF Rounded
<1>3. /\ Multiple(q.a) /\ q.a \in Nat /\ q.a <= x /\ x < q.a + PAGE
  BY <1>1, <1>2, RoundDown
<1> HIDE DEF q
<1>4. Multiple(q.s) /\ q.s \in Nat /\ q.s >= 1 + (x - q.a)
  BY <1>2, <1>3, <1>1, RoundUpFits
<1>5. q.s = PAGE
  <2>1. q.s = ((1 + (x - q.a) + PAGE - 1) \div PAGE) * PAGE
    BY <1>2 DEF RoundUp
  <2> DEFINE y == 1 + (x - q.a) + PAGE - 1
             k == y \div PAGE
  <2>2. x - q.a \in 0 .. PAGE - 1
    BY <1>1, <1>3
  <2>3. y \in Nat /\ PAGE <= y /\ y < PAGE + PAGE
    <3> DEFINE z == x - q.a
    <3>1. z \in 0 .. PAGE - 1 /\ y = 1 + z + PAGE - 1 /\ PAGE \in Nat \ {0}
      BY <1>1, <2>2
    <3> HIDE DEF z, y
    <3> QED  BY <3>1
  <2>4. k \in Nat /\ y % PAGE \in 0 .. PAGE - 1 /\ y = k * PAGE + (y % PAGE)
    <3> HIDE DEF y
    <3> QED  BY <1>1, <2>3, DivMod
  <2> HIDE DEF k
  <2>5. k * PAGE \in Nat /\ 0 * PAGE = 0 /\ 2 * PAGE = PAGE + PAGE
    BY <1>1, <2>4, Apart
  <2>6. k * PAGE < 2 * PAGE /\ 0 * PAGE < k * PAGE
    <3> HIDE DEF y
    <3>1. PAGE \in Nat \ {0}
      BY AddressAssumption
    <3> QED  BY <2>3, <2>4, <2>5, <3>1
  <2>7. k < 2
    BY <1>1, <2>4, <2>6, Apart
  <2>8. 0 < k
    BY <1>1, <2>4, <2>6, Apart
  <2>9. k = 1
    BY <2>4, <2>7, <2>8
  <2> QED  BY <1>1, <2>1, <2>9 DEF k
<1>6. regions[i].a <= q.a
  <2> SUFFICES ASSUME q.a < regions[i].a PROVE FALSE
    BY <1>1, <1>3
  <2>1. q.a + PAGE <= regions[i].a
    BY <1>1, <1>3, MultipleStep DEF Fits
  <2> QED  BY <1>1, <1>3, <2>1
<1>7. q.a + PAGE <= regions[i].a + regions[i].s
  <2>1. Multiple(regions[i].a + regions[i].s)
    BY <1>1, MultipleSum DEF Fits
  <2>2. q.a < regions[i].a + regions[i].s
    BY <1>1, <1>3
  <2> QED  BY <1>3, <2>1, <2>2, MultipleStep
<1>8. Within(q, regions[i]) /\ Meets(regions[i], q)
  BY <1>1, <1>3, <1>5, <1>6, <1>7 DEF Within, Meets
<1>9. q.a # NULL
  BY <1>1, <1>3, <1>6 DEF Fits, NULL
<1>10. over = {i}
  <2>1. ASSUME NEW j \in DOMAIN regions, Meets(regions[j], q), j # i PROVE FALSE
    <3>1. regions[j].a \in Nat /\ regions[j].s \in Nat
      BY DEF Spread, Fits
    <3>2. Meets(regions[j], regions[i])
      BY <1>1, <1>3, <1>5, <1>6, <1>7, <2>1, <3>1 DEF Meets
    <3> QED  BY <2>1, <3>2, SpreadApart
  <2> QED  BY <1>8, <1>9, <2>1 DEF Overlaps, Linked
<1>11. first = regions[i]
  <2> HIDE DEF over
  <2>1. (CHOOSE k \in over : \A j \in over : j <= k) = i
    BY <1>10
  <2> QED  BY <2>1
<1>12. r = Answer(q.a, regions, mapped)
  BY <1>8, <1>10, <1>11 DEF VirtualAlloc, q
<1>q. QED  BY <1>3, <1>9, <1>12 DEF Answer
---------------------------------------------------------------------------
(* The inductive invariant.  The newest mapping is the only one that       *)
(* UnmapViewOfFile finds, so all but that one are `under' another.         *)
Placed(d) == load[d].st \in {"placed", "in"}

Listed ==
  /\ regions \in Seq(Region) /\ views \in Seq(View)
  /\ load \in [Images -> [st : {"out", "viewed", "moved", "failed", "placed", "in"}, view : Nat, addr : Nat]]
  /\ \A d \in Images : Placed(d) => load[d].addr # NULL
  /\ \A d \in Images : load[d].st = "in" => load[d].view = NULL
  /\ holds \subseteq [who : Images \cup {CODEC}, a : Nat, s : Nat]
  /\ guests \subseteq Images /\ lost \subseteq holds

Viewed ==
  /\ \A i \in DOMAIN views : i < Len(views) => views[i].under
  /\ \A i \in DOMAIN views :
       views[i].by = CODEC \/ load[views[i].by].view = views[i].a \/ views[i].under

Exempt(h) == h \in lost \/ h.who \in guests

Held ==
  /\ \A h \in holds : Exempt(h) \/ \E i \in DOMAIN regions : regions[i].a = h.a /\ regions[i].s = h.s
  /\ \A g, h \in holds : g.a = h.a => g = h \/ Exempt(g) \/ Exempt(h)
  /\ \A h \in holds : h.who \in Images => Placed(h.who) /\ h.a = load[h.who].addr
  /\ \A d \in Images : Placed(d) => Image(d) # {}

MemoryInv == Listed /\ Layout(regions, views, mapped) /\ Viewed /\ Held

(* Nothing is mapped at first.                                             *)
LEMMA InitMemory == Init => MemoryInv
<1> SUFFICES ASSUME Init PROVE MemoryInv
  OBVIOUS
<1>1. Listed
  BY DEF Init, Listed, Idle, Placed, NULL
<1>2. Layout(regions, views, mapped)
  BY DEF Init, Layout, Spread, Covered
<1>3. Viewed /\ Held
  BY DEF Init, Viewed, Held, Placed, Idle, Image
<1>q. QED  BY <1>1, <1>2, <1>3 DEF MemoryInv

(* A new view lies in free pages, and on top of all others.                *)
LEMMA NewViewStep ==
  ASSUME Listed, Layout(regions, views, mapped),
         NEW a \in Places(PAGE), NEW n \in SUBSET Names, NEW by \in Images \cup {CODEC},
         NewView(a, n, by)
  PROVE  /\ views' \in Seq(View) /\ Layout(regions, views', mapped')
         /\ a \in Nat \ {NULL} /\ Len(views') = Len(views) + 1
         /\ views'[Len(views')].a = a /\ views'[Len(views')].by = by
         /\ \A i \in DOMAIN views : views'[i].under
<1> DEFINE e == [a |-> a, s |-> PAGE, name |-> n, by |-> by, under |-> FALSE]
           w == [i \in DOMAIN views |-> [views[i] EXCEPT !.under = TRUE]]
<1>1. PAGE \in Nat \ {0} /\ Multiple(PAGE)
  BY AddressAssumption, GranMultiple
<1>2. a \in Nat /\ Multiple(a) /\ Free(a, PAGE)
  BY <1>1, PlacesFit
<1>3. Fits(e) /\ PagesOf(e) \cap mapped = {}
  BY <1>1, <1>2, FreeFits
<1>4. e \in View /\ PagesOf(e) = Pages(a, PAGE)
  BY <1>1, <1>2 DEF View, PagesOf
<1>5. views \in Seq(View) /\ Len(views) \in Nat /\ DOMAIN views = 1 .. Len(views)
      /\ \A i \in DOMAIN views : views[i] \in View
  BY DEF Listed
<1>6. w \in Seq(View) /\ Len(w) = Len(views) /\ DOMAIN w = DOMAIN views
  <2>1. \A i \in 1 .. Len(views) : [views[i] EXCEPT !.under = TRUE] \in View
    BY <1>5 DEF View
  <2>2. w \in [1 .. Len(views) -> View]
    BY <1>5, <2>1
  <2> HIDE DEF w
  <2>3. w \in Seq(View)
    BY <1>5, <2>2, SeqDef
  <2> QED  BY <1>5, <2>2, <2>3
<1>7. \A i \in DOMAIN w : w[i].a = views[i].a /\ w[i].s = views[i].s /\ w[i].under
  BY <1>5 DEF View
<1>8. views' = Append(w, e) /\ mapped' = mapped \cup PagesOf(e)
  BY <1>4 DEF NewView
<1> HIDE DEF w, e
<1>9. Spread(w) /\ Covered(w) = Covered(views)
  <2>1. \A i \in DOMAIN w : PagesOf(w[i]) = PagesOf(views[i]) /\ (Fits(views[i]) => Fits(w[i]))
    BY <1>7 DEF PagesOf, Fits
  <2> QED  BY <1>6, <2>1 DEF Layout, Spread, Covered
<1>10. /\ Spread(views') /\ Covered(views') = Covered(views) \cup PagesOf(e)
  BY <1>3, <1>4, <1>6, <1>8, <1>9, SpreadAppend DEF Layout
<1>11. Layout(regions, views', mapped')
  BY <1>3, <1>8, <1>10 DEF Layout
<1>12. /\ views' \in Seq(View) /\ Len(views') = Len(views) + 1
       /\ views'[Len(views')] = e /\ \A i \in DOMAIN w : views'[i] = w[i]
  BY <1>4, <1>6, <1>8, AppendProperties
<1>13. a # NULL /\ e.a = a /\ e.by = by
  BY <1>1, <1>3, <1>2 DEF Fits, NULL, e
<1>q. QED  BY <1>2, <1>6, <1>7, <1>11, <1>12, <1>13

(* UnmapViewOfFile removes the newest view, if it is the one asked for.    *)
LEMMA UnmapStep ==
  ASSUME views \in Seq(View), Spread(views), NEW h, UnmapView(h)
  PROVE  /\ views' \in Seq(View) /\ Spread(views')
         /\ Len(views') \in Nat /\ DOMAIN views' = 1 .. Len(views')
         /\ DOMAIN views' \subseteq DOMAIN views
         /\ \A i \in DOMAIN views' : views'[i] = views[i] /\ (views[i].a = h => i < Len(views))
         /\ \E gone \in SUBSET Covered(views) :
              Covered(views') = Covered(views) \ gone /\ mapped' = mapped \ gone
<1>1. Len(views) \in Nat /\ DOMAIN views = 1 .. Len(views)
  OBVIOUS
<1>2. CASE Newest(h) = {} /\ UNCHANGED <<views, mapped>>
  <2>1. \A i \in DOMAIN views : views[i].a = h => i < Len(views)
    BY <1>1, <1>2 DEF Newest
  <2>2. Covered(views) = Covered(views) \ {} /\ mapped' = mapped \ {}
    BY <1>2
  <2> QED  BY <1>1, <1>2, <2>1, <2>2
<1>3. CASE \E i \in Newest(h) : views' = Without(views, i) /\ mapped' = mapped \ PagesOf(views[i])
  <2>1. PICK i \in Newest(h) : views' = Without(views, i) /\ mapped' = mapped \ PagesOf(views[i])
    BY <1>3
  <2>0. i \in DOMAIN views
    BY <2>1 DEF Newest
  <2>2. i = Len(views)
    BY <2>1 DEF Newest
  <2> DEFINE w == Without(views, i)
  <2>3. /\ w \in Seq(View) /\ Len(w) = Len(views) - 1
        /\ DOMAIN w = 1 .. Len(views) - 1
        /\ \A k \in DOMAIN w : w[k] = views[IF k < i THEN k ELSE k + 1]
    BY <2>0, WithoutElement
  <2>7. views' = w
    BY <2>1
  <2> HIDE DEF w
  <2>4. \A k \in DOMAIN w : k \in DOMAIN views /\ k < i /\ w[k] = views[k]
    BY <1>1, <2>2, <2>3
  <2>5. Spread(views') /\ Covered(views') = Covered(views) \ PagesOf(views[i])
    BY <2>0, <2>1, SpreadWithout
  <2>6. PagesOf(views[i]) \in SUBSET Covered(views)
    BY <2>0 DEF Covered
  <2>8. \E gone \in SUBSET Covered(views) :
          Covered(views') = Covered(views) \ gone /\ mapped' = mapped \ gone
    BY <2>1, <2>5, <2>6
  <2>9. views' \in Seq(View) /\ Len(views') \in Nat /\ DOMAIN views' = 1 .. Len(views')
    BY <2>3, <2>7
  <2>10. /\ DOMAIN views' \subseteq DOMAIN views
         /\ \A k \in DOMAIN views' : views'[k] = views[k] /\ (views[k].a = h => k < Len(views))
    BY <2>2, <2>4, <2>7
  <2> QED  BY <2>5, <2>8, <2>9, <2>10
<1>q. QED  BY <1>2, <1>3 DEF UnmapView

---------------------------------------------------------------------------
(* A region appended does not begin where another one does.                *)
LEMMA AppendedStep ==
  ASSUME Listed, Layout(regions, views, mapped), NEW r, NEW s, Appended(r, s)
  PROVE  /\ r.regions \in Seq(Region) /\ Layout(r.regions, views, r.mapped)
         /\ r.regions # regions
         /\ \A i \in DOMAIN regions : \E k \in DOMAIN r.regions : r.regions[k] = regions[i]
         /\ \E k \in DOMAIN r.regions : r.regions[k].a = r.ret /\ r.regions[k].s = s
         /\ \A i \in DOMAIN regions : regions[i].a # r.ret
<1>1. PICK st \in {0, 1} :
        LET e == [a |-> r.ret, s |-> s, state |-> st]
        IN /\ e \in Region /\ Fits(e) /\ PagesOf(e) \cap mapped = {}
           /\ r.regions = Append(regions, e) /\ r.mapped = mapped \cup PagesOf(e)
  BY DEF Appended
<1> DEFINE e == [a |-> r.ret, s |-> s, state |-> st]
<1>2. /\ e \in Region /\ Fits(e) /\ PagesOf(e) \cap mapped = {} /\ e.a = r.ret /\ e.s = s
      /\ r.regions = Append(regions, e) /\ r.mapped = mapped \cup PagesOf(e)
  BY <1>1
<1> HIDE DEF e
<1>3. regions \in Seq(Region) /\ Len(regions) \in Nat /\ DOMAIN regions = 1 .. Len(regions)
  BY DEF Listed
<1>4. /\ r.regions \in Seq(Region) /\ Len(r.regions) = Len(regions) + 1
      /\ DOMAIN r.regions = 1 .. Len(regions) + 1
      /\ r.regions[Len(regions) + 1] = e
      /\ \A i \in DOMAIN regions : r.regions[i] = regions[i]
  BY <1>2, <1>3, AppendProperties
<1>5. Layout(r.regions, views, r.mapped)
  <2>1. PagesOf(e) \cap Covered(regions) = {}
    BY <1>2 DEF Layout
  <2>2. Spread(r.regions) /\ Covered(r.regions) = Covered(regions) \cup PagesOf(e)
    BY <1>2, <1>3, <2>1, SpreadAppend DEF Layout
  <2> QED  BY <1>2, <2>2 DEF Layout
<1>6. r.regions # regions
  BY <1>3, <1>4
<1>7. ASSUME NEW i \in DOMAIN regions, regions[i].a = r.ret PROVE FALSE
  <2>1. PagesOf(e) \cap PagesOf(regions[i]) = {} /\ Fits(regions[i])
    BY <1>2 DEF Layout, Spread, Covered
  <2>2. Pages(e.a, e.s) \cap Pages(regions[i].a, regions[i].s) # {}
    <3>1. e.a < e.a + regions[i].s /\ e.a < e.a + e.s /\ e.a = regions[i].a /\ e.a + e.s <= Top
      BY <1>2, <1>7, <2>1 DEF Fits
    <3> QED  BY <1>2, <2>1, <3>1, MeetPages DEF Fits
  <2> QED  BY <2>1, <2>2 DEF PagesOf
<1>8. \E k \in DOMAIN r.regions : r.regions[k].a = r.ret /\ r.regions[k].s = s
  BY <1>2, <1>3, <1>4
<1>9. \A i \in DOMAIN regions : \E k \in DOMAIN r.regions : r.regions[k] = regions[i]
  BY <1>3, <1>4
<1>q. QED  BY <1>4, <1>5, <1>6, <1>7, <1>8, <1>9

(* The codec is answered NULL, or inside its reservation, or a new region. *)
LEMMA CodecAllocStep ==
  ASSUME MemoryInv, NEW x \in Wanted, NEW n \in Sizes, NEW t, CodecAlloc(x, n, t)
  PROVE  MemoryInv'
<1> DEFINE size == Rounded(x, n, t).s
<1>1. x \in Nat /\ n \in Nat \ {0}
  BY AddressAssumption
<1>2. PICK r \in VirtualAlloc(x, n, t) :
        /\ regions' = r.regions /\ mapped' = r.mapped
        /\ holds' = IF r.regions = regions THEN holds
                    ELSE holds \cup {[who |-> CODEC, a |-> r.ret, s |-> size]}
  BY DEF CodecAlloc
<1>3. UNCHANGED <<views, load, guests, lost>>
  BY DEF CodecAlloc
<1>4. CASE r.regions = regions /\ r.mapped = mapped
  <2>1. UNCHANGED <<regions, mapped, holds>>
    BY <1>2, <1>4
  <2> QED  BY <1>3, <2>1 DEF MemoryInv, Listed, Layout, Viewed, Held, Exempt, Placed, Image
<1>5. CASE r.ret \in Nat \ {NULL} /\ Appended(r, size)
  <2>1. size \in Nat
    BY <1>1, RoundedFits
  <2> HIDE DEF size
  <2> DEFINE new == [who |-> CODEC, a |-> r.ret, s |-> size]
  <2>2. /\ r.regions \in Seq(Region) /\ Layout(r.regions, views, r.mapped)
        /\ r.regions # regions
        /\ \A i \in DOMAIN regions : \E k \in DOMAIN r.regions : r.regions[k] = regions[i]
        /\ \E k \in DOMAIN r.regions : r.regions[k].a = r.ret /\ r.regions[k].s = size
        /\ \A i \in DOMAIN regions : regions[i].a # r.ret
    BY <1>5, AppendedStep DEF MemoryInv
  <2>3. holds' = holds \cup {new}
    BY <1>2, <2>2
  <2>4. new \in [who : Images \cup {CODEC}, a : Nat, s : Nat] /\ new.who = CODEC /\ new.a = r.ret
        /\ new.s = size /\ CODEC \notin Images
    BY <1>5, <2>1, AddressAssumption
  <2> HIDE DEF new
  <2>5. Listed'
    BY <1>2, <1>3, <2>2, <2>3, <2>4 DEF MemoryInv, Listed, Placed
  <2>6. Layout(regions', views', mapped')
    BY <1>2, <1>3, <2>2
  <2>7. Viewed'
    BY <1>3 DEF MemoryInv, Viewed
  <2>8. Held'
    <3>1. \A h \in holds : Exempt(h)' = Exempt(h)
      BY <1>3 DEF Exempt
    <3>2. \A h \in holds : Exempt(h) \/ h.a # r.ret
      BY <2>2 DEF MemoryInv, Held
    <3>3. \A h \in holds' : Exempt(h)' \/ \E i \in DOMAIN regions' :
             regions'[i].a = h.a /\ regions'[i].s = h.s
      BY <1>2, <2>2, <2>3, <2>4, <3>1 DEF MemoryInv, Held
    <3>4. \A g, h \in holds' : g.a = h.a => g = h \/ Exempt(g)' \/ Exempt(h)'
      BY <2>3, <2>4, <3>1, <3>2 DEF MemoryInv, Held
    <3>5. \A h \in holds' : h.who \in Images => h \in holds
      BY <2>3, <2>4
    <3>6. \A d \in Images : Image(d) \subseteq Image(d)' /\ Placed(d)' = Placed(d)
      BY <1>3, <2>3 DEF Image, Placed
    <3> QED  BY <1>3, <3>3, <3>4, <3>5, <3>6 DEF MemoryInv, Held
  <2> QED  BY <2>5, <2>6, <2>7, <2>8 DEF MemoryInv
<1>q. QED
  <2>1. regions \in Seq(Region)
    BY DEF MemoryInv, Listed
  <2> QED  BY <1>1, <1>4, <1>5, <2>1, AllocAnswers

(* VirtualFree removes one region, and unmaps its pages and no others.     *)
LEMMA FreedLayout ==
  ASSUME Listed, Layout(regions, views, mapped), NEW x, NEW n, NEW r \in VirtualFree(x, n)
  PROVE  /\ r.regions \in Seq(Region) /\ Layout(r.regions, views, r.mapped)
         /\ \A i \in DOMAIN regions : regions[i].a # x =>
              \E k \in DOMAIN r.regions : r.regions[k] = regions[i]
<1>0. regions \in Seq(Region) /\ Spread(regions)
  BY DEF Listed, Layout
<1>1. PICK i \in DOMAIN regions :
        /\ regions[i].a = x
        /\ r = Answer(x, Without(regions, i), mapped \ PagesOf(regions[i]))
  BY DEF VirtualFree, Linked
<1>2. r.regions = Without(regions, i) /\ r.mapped = mapped \ PagesOf(regions[i])
  BY <1>1 DEF Answer
<1>3. r.regions \in Seq(Region)
  BY <1>0, <1>2, WithoutElement
<1>4. Spread(r.regions) /\ Covered(r.regions) = Covered(regions) \ PagesOf(regions[i])
  BY <1>0, <1>2, SpreadWithout
<1>5. PagesOf(regions[i]) \in SUBSET Covered(regions)
  BY DEF Covered
<1>6. ASSUME NEW j \in DOMAIN regions, regions[j].a # x
      PROVE  \E k \in DOMAIN r.regions : r.regions[k] = regions[j]
  <2>1. j \in DOMAIN regions \ {i}
    BY <1>1, <1>6
  <2>2. PICK k \in DOMAIN r.regions : j = IF k < i THEN k ELSE k + 1
    BY <1>0, <1>2, <2>1, WithoutElement
  <2> QED  BY <1>0, <1>2, <2>2, WithoutElement
<1>7. Layout(r.regions, views, r.mapped)
  BY <1>2, <1>4, <1>5 DEF Layout
<1>q. QED  BY <1>3, <1>6, <1>7

(* The codec frees what it has: the others with that address are exempt.   *)
LEMMA CodecFreeStep ==
  ASSUME MemoryInv, NEW h \in holds, NEW n, CodecFree(h, n)
  PROVE  MemoryInv'
<1>1. /\ h.who = CODEC /\ holds' = holds \ {h} /\ lost' = LostBy({h}) \ {h}
      /\ UNCHANGED <<views, load, guests>>
  BY DEF CodecFree
<1>2. /\ regions' \in Seq(Region) /\ Layout(regions', views, mapped')
      /\ \A i \in DOMAIN regions : regions[i].a # h.a =>
           \E k \in DOMAIN regions' : regions'[k] = regions[i]
  <2>1. CASE UNCHANGED <<regions, mapped>>
    BY <2>1 DEF MemoryInv, Listed
  <2>2. CASE \E r \in VirtualFree(h.a, n) : regions' = r.regions /\ mapped' = r.mapped
    BY <2>2, FreedLayout DEF MemoryInv
  <2> QED  BY <2>1, <2>2 DEF CodecFree
<1>3. Listed'
  BY <1>1, <1>2 DEF MemoryInv, Listed, Placed, LostBy
<1>4. Layout(regions', views', mapped') /\ Viewed'
  BY <1>1, <1>2 DEF MemoryInv, Viewed
<1>5. lost \ {h} \subseteq lost' /\ (h \in lost => \A g \in holds \ {h} : g.a = h.a => g \in lost')
  BY <1>1 DEF LostBy
<1>6. \A g \in holds' : Exempt(g) => Exempt(g)'
  BY <1>1, <1>5 DEF Exempt
<1>7. h.who \notin guests
  BY <1>1, AddressAssumption DEF MemoryInv, Listed
<1>8. \A g \in holds' : g.a = h.a => Exempt(g)'
  <2> TAKE g \in holds'
  <2> HAVE g.a = h.a
  <2>1. g \in holds /\ g # h
    BY <1>1
  <2>2. CASE h \in lost
    BY <1>5, <2>1, <2>2 DEF Exempt
  <2>3. CASE h \notin lost
    <3>1. Exempt(g)
      BY <1>7, <2>1, <2>3 DEF MemoryInv, Held, Exempt
    <3> QED  BY <1>6, <3>1
  <2> QED  BY <2>2, <2>3
<1>9. Held'
  <2>1. \A g \in holds' : Exempt(g)' \/ \E i \in DOMAIN regions' :
           regions'[i].a = g.a /\ regions'[i].s = g.s
    <3> TAKE g \in holds'
    <3>1. CASE g.a = h.a
      BY <1>8, <3>1
    <3>2. CASE g.a # h.a
      BY <1>1, <1>2, <1>6, <3>2 DEF MemoryInv, Held
    <3> QED  BY <3>1, <3>2
  <2>2. \A f, g \in holds' : f.a = g.a => f = g \/ Exempt(f)' \/ Exempt(g)'
    BY <1>1, <1>6 DEF MemoryInv, Held
  <2>3. \A g \in holds' : g.who \in Images => Placed(g.who)' /\ g.a = load'[g.who].addr
    BY <1>1 DEF MemoryInv, Held, Placed
  <2>4. \A d \in Images : Image(d)' = Image(d) /\ Placed(d)' = Placed(d)
    BY <1>1, AddressAssumption DEF Image, Placed
  <2> QED  BY <2>1, <2>2, <2>3, <2>4 DEF MemoryInv, Held
<1>q. QED  BY <1>3, <1>4, <1>9 DEF MemoryInv

(* The codec gives the start of a reservation up and loses it all.         *)
LEMMA CodecDecommitStep ==
  ASSUME MemoryInv, NEW h \in holds, NEW n, CodecDecommit(h, n)
  PROVE  MemoryInv'
<1>1. /\ h \in holds \ lost /\ h.who = CODEC /\ lost' = lost \cup {h}
      /\ UNCHANGED <<views, load, holds, guests>>
  BY DEF CodecDecommit
<1>2. /\ regions' \in Seq(Region) /\ Layout(regions', views, mapped')
      /\ \A i \in DOMAIN regions : regions[i].a # h.a =>
           \E k \in DOMAIN regions' : regions'[k] = regions[i]
  <2>1. PICK r \in VirtualFree(h.a, n) : regions' = r.regions /\ mapped' = r.mapped
    BY DEF CodecDecommit
  <2> QED  BY <2>1, FreedLayout DEF MemoryInv
<1>3. Listed'
  BY <1>1, <1>2 DEF MemoryInv, Listed, Placed
<1>4. Layout(regions', views', mapped') /\ Viewed'
  BY <1>1, <1>2 DEF MemoryInv, Viewed
<1>6. \A g \in holds : Exempt(g) => Exempt(g)'
  BY <1>1 DEF Exempt
<1>7. ~Exempt(h) /\ Exempt(h)'
  BY <1>1, AddressAssumption DEF MemoryInv, Listed, Exempt
<1>8. \A g \in holds : g.a = h.a => Exempt(g)'
  BY <1>1, <1>6, <1>7 DEF MemoryInv, Held
<1>9. Held'
  <2>1. \A g \in holds' : Exempt(g)' \/ \E i \in DOMAIN regions' :
           regions'[i].a = g.a /\ regions'[i].s = g.s
    BY <1>1, <1>2, <1>6, <1>8 DEF MemoryInv, Held
  <2>2. \A f, g \in holds' : f.a = g.a => f = g \/ Exempt(f)' \/ Exempt(g)'
    BY <1>1, <1>6 DEF MemoryInv, Held
  <2>3. \A d \in Images : Image(d)' = Image(d) /\ Placed(d)' = Placed(d)
    BY <1>1 DEF Image, Placed
  <2>4. \A g \in holds' : g.who \in Images => Placed(g.who)' /\ g.a = load'[g.who].addr
    BY <1>1, <2>3 DEF MemoryInv, Held
  <2> QED  BY <2>1, <2>2, <2>3, <2>4 DEF MemoryInv, Held
<1>q. QED  BY <1>3, <1>4, <1>9 DEF MemoryInv

(* Views come and go without the regions.                                  *)
LEMMA HeldUnchanged ==
  ASSUME MemoryInv, UNCHANGED <<regions, holds, guests, lost>>,
         \A d \in Images : Placed(d)' = Placed(d) /\ load'[d].addr = load[d].addr
  PROVE  Held'
<1>1. \A h \in holds : Exempt(h)' = Exempt(h)
  BY DEF Exempt
<1>2. \A d \in Images : Image(d)' = Image(d)
  BY DEF Image
<1>q. QED  BY <1>1, <1>2 DEF MemoryInv, Held

(* The codec maps a file on top of the other views.                        *)
LEMMA CodecMapStep ==
  ASSUME MemoryInv, NEW n \in Names, CodecMap({n})
  PROVE  MemoryInv'
<1>1. UNCHANGED <<regions, load, holds, guests, lost>>
  BY DEF CodecMap
<1>2. PICK a \in Places(PAGE) : NewView(a, {n}, CODEC)
  BY DEF CodecMap
<1>3. /\ views' \in Seq(View) /\ Layout(regions, views', mapped')
      /\ a \in Nat \ {NULL} /\ Len(views') = Len(views) + 1
      /\ views'[Len(views')].a = a /\ views'[Len(views')].by = CODEC
      /\ \A i \in DOMAIN views : views'[i].under
  BY <1>2, NewViewStep DEF MemoryInv
<1>4. Len(views) \in Nat /\ DOMAIN views = 1 .. Len(views) /\ DOMAIN views' = 1 .. Len(views')
  BY <1>3 DEF MemoryInv, Listed
<1>5. Listed'
  BY <1>1, <1>3 DEF MemoryInv, Listed, Placed
<1>6. Viewed'
  BY <1>1, <1>3, <1>4 DEF MemoryInv, Viewed
<1>7. Held'
  BY <1>1, HeldUnchanged DEF Placed
<1>q. QED  BY <1>1, <1>3, <1>5, <1>6, <1>7 DEF MemoryInv

(* A load maps the file of the DLL on top of the other views.              *)
LEMMA LoadBeginsStep ==
  ASSUME MemoryInv, NEW d \in Images, LoadBegins(d)
  PROVE  MemoryInv'
<1>1. UNCHANGED <<regions, holds, guests, lost>> /\ load[d] = Idle
  BY DEF LoadBegins
<1>2. PICK a \in Places(PAGE) :
        /\ NewView(a, {}, d)
        /\ load' = [load EXCEPT ![d] = [Idle EXCEPT !.st = "viewed", !.view = a]]
  BY DEF LoadBegins
<1>3. /\ views' \in Seq(View) /\ Layout(regions, views', mapped')
      /\ a \in Nat \ {NULL} /\ Len(views') = Len(views) + 1
      /\ views'[Len(views')].a = a /\ views'[Len(views')].by = d
      /\ \A i \in DOMAIN views : views'[i].under
  BY <1>2, NewViewStep DEF MemoryInv
<1>4. Len(views) \in Nat /\ DOMAIN views = 1 .. Len(views) /\ DOMAIN views' = 1 .. Len(views')
  BY <1>3 DEF MemoryInv, Listed
<1>5. /\ load'[d] = [st |-> "viewed", view |-> a, addr |-> NULL]
      /\ \A e \in Images \ {d} : load'[e] = load[e]
  BY <1>2 DEF MemoryInv, Listed, Idle
<1>6. \A e \in Images : Placed(e)' = Placed(e) /\ load'[e].addr = load[e].addr
  BY <1>1, <1>5 DEF Placed, Idle
<1>7. Listed'
  BY <1>1, <1>2, <1>3, <1>6 DEF MemoryInv, Listed, Idle, NULL
<1>8. Viewed'
  BY <1>3, <1>4, <1>5 DEF MemoryInv, Viewed
<1>9. Held'
  BY <1>1, <1>6, HeldUnchanged
<1>q. QED  BY <1>1, <1>3, <1>7, <1>8, <1>9 DEF MemoryInv

(* An image gets a region of its own, or one inside the codec's (it is a   *)
(* guest then), or none.                                                   *)
LEMMA ReserveImageStep ==
  ASSUME MemoryInv, NEW d \in Images, ReserveImage(d)
  PROVE  MemoryInv'
<1> DEFINE whole == {"reserve", "commit"}
           x     == IF load[d].st = "moved" THEN NULL ELSE Base[d]
           size  == Rounded(x, VmaSize, whole).s
<1>1. /\ load[d].st \in {"viewed", "moved"} /\ ~Placed(d)
      /\ x \in Nat /\ VmaSize \in Nat \ {0}
      /\ UNCHANGED <<views, lost>>
  BY AddressAssumption DEF ReserveImage, Placed, NULL
<1>2. PICK r \in VirtualAlloc(x, VmaSize, whole) :
        /\ regions' = r.regions /\ mapped' = r.mapped
        /\ IF r.ret = NULL
             THEN /\ load' = [load EXCEPT ![d].st = Refused(d)]
                  /\ UNCHANGED <<holds, guests>>
             ELSE /\ load' = [load EXCEPT ![d].st = "placed", ![d].addr = r.ret]
                  /\ holds' = holds \cup {[who |-> d, a |-> r.ret, s |-> size]}
                  /\ guests' = IF r.regions = regions THEN guests \cup {d} ELSE guests
  BY DEF ReserveImage
<1>r. regions' = r.regions /\ mapped' = r.mapped
  BY <1>2
<1>3. /\ load \in [Images -> [st : {"out", "viewed", "moved", "failed", "placed", "in"},
                              view : Nat, addr : Nat]]
      /\ regions \in Seq(Region)
  BY DEF MemoryInv, Listed
<1>4. size \in Nat
  <2> HIDE DEF x, whole
  <2> QED  BY <1>1, RoundedFits
<1>5. /\ \A e \in Images : load'[e].view = load[e].view
      /\ \A e \in Images \ {d} : load'[e] = load[e]
  <2> HIDE DEF x, size
  <2>1. CASE r.ret = NULL
    <3>1. load' = [load EXCEPT ![d].st = Refused(d)]
      BY <1>2, <2>1
    <3> QED  BY <1>3, <3>1
  <2>2. CASE r.ret # NULL
    <3>1. load' = [load EXCEPT ![d].st = "placed", ![d].addr = r.ret]
      BY <1>2, <2>2
    <3> QED  BY <1>3, <3>1
  <2> QED  BY <2>1, <2>2
<1>6. Viewed'
  <2>1. \A i \in DOMAIN views : views[i].by \in Images \cup {CODEC}
    <3>1. \A i \in DOMAIN views : views[i] \in View
      BY DEF MemoryInv, Listed
    <3> QED  BY <3>1 DEF View
  <2> QED  BY <1>1, <1>5, <2>1 DEF MemoryInv, Viewed
<1>7. \A h \in holds : h.who # d
  BY <1>1 DEF MemoryInv, Held
<1> HIDE DEF size
<1>8. CASE r.ret = NULL /\ r.regions = regions /\ r.mapped = mapped
  <2>1. load' = [load EXCEPT ![d].st = Refused(d)] /\ UNCHANGED <<regions, mapped, holds, guests>>
    BY <1>2, <1>8
  <2>2. Refused(d) \in {"failed", "moved"}
    BY DEF Refused
  <2>3. \A e \in Images : Placed(e)' = Placed(e) /\ load'[e].addr = load[e].addr
    BY <1>1, <1>3, <2>1, <2>2 DEF Placed
  <2>4. load' \in [Images -> [st : {"out", "viewed", "moved", "failed", "placed", "in"},
                              view : Nat, addr : Nat]]
    BY <1>3, <2>1, <2>2
  <2>5. Listed'
    <3>1. \A e \in Images : load'[e].st = "in" => load'[e].view = NULL
      BY <1>3, <1>5, <2>1, <2>2 DEF MemoryInv, Listed
    <3> QED  BY <1>1, <2>1, <2>3, <2>4, <3>1 DEF MemoryInv, Listed
  <2>6. Held'
    BY <1>1, <2>1, <2>3, HeldUnchanged
  <2> QED  BY <1>1, <1>6, <2>1, <2>5, <2>6 DEF MemoryInv
<1>9. ASSUME r.ret \in Nat \ {NULL},
             r.regions \in Seq(Region), Layout(r.regions, views, r.mapped),
             \A i \in DOMAIN regions : \E k \in DOMAIN r.regions : r.regions[k] = regions[i],
             \/ r.regions = regions
             \/ /\ r.regions # regions
                /\ \E k \in DOMAIN r.regions : r.regions[k].a = r.ret /\ r.regions[k].s = size
                /\ \A i \in DOMAIN regions : regions[i].a # r.ret
      PROVE  MemoryInv'
  <2>0. PICK new : new = [who |-> d, a |-> r.ret, s |-> size]
    OBVIOUS
  <2>1. /\ load' = [load EXCEPT ![d].st = "placed", ![d].addr = r.ret]
        /\ holds' = holds \cup {new}
        /\ guests' = IF r.regions = regions THEN guests \cup {d} ELSE guests
    BY <1>2, <1>9, <2>0
  <2>2. /\ new \in [who : Images \cup {CODEC}, a : Nat, s : Nat]
        /\ new.who = d /\ new.a = r.ret /\ new.s = size
    BY <1>4, <1>9, <2>0
  <2>3. load'[d].st = "placed" /\ load'[d].addr = r.ret
    BY <1>3, <2>1
  <2>4. load' \in [Images -> [st : {"out", "viewed", "moved", "failed", "placed", "in"},
                              view : Nat, addr : Nat]]
    BY <1>3, <1>9, <2>1
  <2>5. Placed(d)' /\ \A e \in Images \ {d} : Placed(e)' = Placed(e)
    BY <1>5, <2>3 DEF Placed
  <2>6. guests' \subseteq Images /\ guests \subseteq guests'
    BY <2>1 DEF MemoryInv, Listed
  <2>7. Listed'
    BY <1>1, <1>2, <1>5, <1>9, <2>1, <2>2, <2>3, <2>4, <2>5, <2>6 DEF MemoryInv, Listed
  <2>8. Layout(regions', views', mapped')
    BY <1>1, <1>2, <1>9
  <2>9. Held'
    <3>1. \A h \in holds : Exempt(h) => Exempt(h)'
      BY <1>1, <2>6 DEF Exempt
    <3>2. r.regions = regions => Exempt(new)'
      <4>1. ASSUME r.regions = regions PROVE new.who \in guests'
        BY <2>1, <2>2, <4>1
      <4> QED  BY <4>1 DEF Exempt
    <3>3. r.regions # regions => \A h \in holds : Exempt(h) \/ h.a # r.ret
      BY <1>9 DEF MemoryInv, Held
    <3>4. \A h \in holds' : Exempt(h)' \/ \E i \in DOMAIN regions' :
             regions'[i].a = h.a /\ regions'[i].s = h.s
      <4> TAKE h \in holds'
      <4>1. CASE h = new
        <5>1. CASE r.regions = regions
          BY <3>2, <4>1, <5>1
        <5>2. CASE r.regions # regions
          <6>1. PICK k \in DOMAIN r.regions : r.regions[k].a = r.ret /\ r.regions[k].s = size
            BY <1>9, <5>2
          <6> QED  BY <1>r, <2>2, <4>1, <6>1
        <5> QED  BY <5>1, <5>2
      <4>2. CASE h \in holds
        <5>1. CASE Exempt(h)
          BY <3>1, <4>2, <5>1
        <5>2. CASE ~Exempt(h)
          <6>1. PICK i \in DOMAIN regions : regions[i].a = h.a /\ regions[i].s = h.s
            BY <4>2, <5>2 DEF MemoryInv, Held
          <6>2. PICK k \in DOMAIN r.regions : r.regions[k] = regions[i]
            BY <1>9
          <6> QED  BY <1>r, <6>1, <6>2
        <5> QED  BY <5>1, <5>2
      <4> QED  BY <2>1, <4>1, <4>2
    <3>5. \A g, h \in holds' : g.a = h.a => g = h \/ Exempt(g)' \/ Exempt(h)'
      <4>1. ASSUME NEW h \in holds, h.a = r.ret PROVE Exempt(new)' \/ Exempt(h)'
        BY <3>1, <3>2, <3>3, <4>1
      <4>2. ASSUME NEW g \in holds, NEW h \in holds, g.a = h.a
            PROVE  g = h \/ Exempt(g)' \/ Exempt(h)'
        BY <3>1, <4>2 DEF MemoryInv, Held
      <4> QED  BY <2>1, <2>2, <4>1, <4>2
    <3>6. \A h \in holds' : h.who \in Images => Placed(h.who)' /\ h.a = load'[h.who].addr
      <4> TAKE h \in holds'
      <4>1. CASE h = new
        BY <2>2, <2>3, <2>5, <4>1
      <4>2. CASE h \in holds
        BY <1>5, <1>7, <2>5, <4>2 DEF MemoryInv, Held
      <4> QED  BY <2>1, <4>1, <4>2
    <3>7. \A e \in Images : Placed(e)' => Image(e)' # {}
      <4> TAKE e \in Images
      <4>1. CASE e = d
        BY <2>1, <2>2, <4>1 DEF Image
      <4>2. CASE e # d
        BY <2>1, <2>5, <4>2 DEF MemoryInv, Held, Image
      <4> QED  BY <4>1, <4>2
    <3> QED  BY <3>4, <3>5, <3>6, <3>7 DEF Held
  <2> QED  BY <1>6, <2>7, <2>8, <2>9 DEF MemoryInv
<1>10. CASE r.ret \in Nat \ {NULL} /\ r.regions = regions /\ r.mapped = mapped
  BY <1>3, <1>9, <1>10 DEF MemoryInv
<1>11. CASE r.ret \in Nat \ {NULL} /\ Appended(r, size)
  <2>1. /\ r.regions \in Seq(Region) /\ Layout(r.regions, views, r.mapped)
        /\ r.regions # regions
        /\ \A i \in DOMAIN regions : \E k \in DOMAIN r.regions : r.regions[k] = regions[i]
        /\ \E k \in DOMAIN r.regions : r.regions[k].a = r.ret /\ r.regions[k].s = size
        /\ \A i \in DOMAIN regions : regions[i].a # r.ret
    BY <1>11, AppendedStep DEF MemoryInv
  <2> QED  BY <1>9, <1>11, <2>1
<1>q. QED
  <2> HIDE DEF x, whole
  <2>1. \/ r.ret = NULL /\ r.regions = regions /\ r.mapped = mapped
        \/ r.ret \in Nat \ {NULL} /\ r.regions = regions /\ r.mapped = mapped
        \/ r.ret \in Nat \ {NULL} /\ Appended(r, size)
    BY <1>1, <1>3, AllocAnswers DEF size
  <2> QED  BY <1>8, <1>10, <1>11, <2>1

(* The view of a load that ends is gone, or lies under another.            *)
LEMMA UnmapViewed ==
  ASSUME MemoryInv, NEW d \in Images, UnmapView(load[d].view),
         \A e \in Images \ {d} : load'[e].view = load[e].view
  PROVE  /\ views' \in Seq(View) /\ Viewed' /\ Spread(views')
         /\ \E gone \in SUBSET Covered(views) :
              Covered(views') = Covered(views) \ gone /\ mapped' = mapped \ gone
<1>1. views \in Seq(View) /\ Spread(views) /\ Viewed
  BY DEF MemoryInv, Listed, Layout
<1>2. /\ views' \in Seq(View) /\ Spread(views')
      /\ Len(views') \in Nat /\ DOMAIN views' = 1 .. Len(views')
      /\ DOMAIN views' \subseteq DOMAIN views
      /\ \A i \in DOMAIN views' :
           views'[i] = views[i] /\ (views[i].a = load[d].view => i < Len(views))
      /\ \E gone \in SUBSET Covered(views) :
           Covered(views') = Covered(views) \ gone /\ mapped' = mapped \ gone
  BY <1>1, UnmapStep
<1>3. Len(views) \in Nat /\ DOMAIN views = 1 .. Len(views)
  BY <1>1
<1>4. ASSUME NEW i \in DOMAIN views', i < Len(views') PROVE views'[i].under
  BY <1>1, <1>2, <1>3, <1>4 DEF Viewed
<1>5. ASSUME NEW i \in DOMAIN views'
      PROVE  \/ views'[i].by = CODEC \/ views'[i].under
             \/ load'[views'[i].by].view = views'[i].a
  <2>1. views[i] \in View /\ i \in DOMAIN views /\ views'[i] = views[i]
    BY <1>1, <1>2
  <2>2. CASE views[i].by = d
    BY <1>1, <1>2, <2>1, <2>2 DEF Viewed
  <2>3. CASE views[i].by # d
    BY <1>1, <2>1, <2>3 DEF Viewed, View
  <2> QED  BY <2>2, <2>3
<1>6. Viewed'
  BY <1>4, <1>5 DEF Viewed
<1>q. QED  BY <1>2, <1>6

(* A load ends well, and unmaps the file.                                  *)
LEMMA LoadEndsStep ==
  ASSUME MemoryInv, NEW d \in Images, LoadEnds(d)
  PROVE  MemoryInv'
<1>1. /\ load[d].st = "placed" /\ UnmapView(load[d].view)
      /\ load' = [load EXCEPT ![d] = [Idle EXCEPT !.st = "in", !.addr = load[d].addr]]
      /\ UNCHANGED <<regions, holds, guests, lost>>
  BY DEF LoadEnds
<1>2. load \in [Images -> [st : {"out", "viewed", "moved", "failed", "placed", "in"},
                           view : Nat, addr : Nat]]
  BY DEF MemoryInv, Listed
<1>3. /\ load'[d] = [st |-> "in", view |-> NULL, addr |-> load[d].addr]
      /\ \A e \in Images \ {d} : load'[e] = load[e]
  BY <1>1, <1>2 DEF Idle
<1>4. /\ views' \in Seq(View) /\ Viewed' /\ Spread(views')
      /\ \E gone \in SUBSET Covered(views) :
           Covered(views') = Covered(views) \ gone /\ mapped' = mapped \ gone
  BY <1>1, <1>3, UnmapViewed
<1>5. \A e \in Images : Placed(e)' = Placed(e) /\ load'[e].addr = load[e].addr
  BY <1>1, <1>3 DEF Placed
<1>6. Listed'
  BY <1>1, <1>2, <1>3, <1>4, <1>5 DEF MemoryInv, Listed, Idle, NULL
<1>7. Layout(regions', views', mapped')
  BY <1>1, <1>4 DEF MemoryInv, Layout
<1>8. Held'
  BY <1>1, <1>5, HeldUnchanged
<1>q. QED  BY <1>4, <1>6, <1>7, <1>8 DEF MemoryInv
---------------------------------------------------------------------------
(* An image is freed: its region goes, and whoever holds that address too  *)
(* is exempt from then on.                                                 *)
LEMMA FreeImageStep ==
  ASSUME MemoryInv, NEW d \in Images, Placed(d), NEW after,
         after \in [st : {"out", "failed"}, view : Nat, addr : Nat],
         after.view = load[d].view, FreeImage(d, after)
  PROVE  MemoryInv'
<1> DEFINE a == load[d].addr
<1>0. PICK r \in Freed(a) : regions' = r.regions /\ mapped' = r.mapped
  BY DEF FreeImage
<1>1. /\ regions' = r.regions /\ holds' = holds \ Image(d) /\ guests' = guests \ {d}
      /\ load' = [load EXCEPT ![d] = after] /\ views' = views
      /\ lost' = (IF d \in guests THEN lost \cup {h \in holds : h.a = a}
                  ELSE LostBy(Image(d))) \ Image(d)
  BY <1>0 DEF FreeImage
<1>2. /\ load \in [Images -> [st : {"out", "viewed", "moved", "failed", "placed", "in"},
                              view : Nat, addr : Nat]]
      /\ guests \subseteq Images /\ lost \subseteq holds
      /\ holds \subseteq [who : Images \cup {CODEC}, a : Nat, s : Nat]
  BY DEF MemoryInv, Listed
<1>3. /\ r.regions \in Seq(Region) /\ Layout(r.regions, views, r.mapped)
      /\ \A i \in DOMAIN regions : regions[i].a # a =>
           \E k \in DOMAIN r.regions : r.regions[k] = regions[i]
  <2>1. CASE VirtualFree(a, 0) = {}
    <3>1. r.regions = regions /\ r.mapped = mapped
      BY <2>1 DEF Freed, Answer
    <3> QED  BY <3>1 DEF MemoryInv, Listed
  <2>2. CASE VirtualFree(a, 0) # {}
    <3>1. r \in VirtualFree(a, 0)
      BY <2>2 DEF Freed
    <3>2. Listed /\ Layout(regions, views, mapped)
      BY DEF MemoryInv
    <3> HIDE DEF a
    <3> QED  BY <3>1, <3>2, FreedLayout
  <2> QED  BY <2>1, <2>2
<1>4. /\ load'[d] = after /\ ~Placed(d)'
      /\ \A e \in Images \ {d} : load'[e] = load[e] /\ Placed(e)' = Placed(e)
  BY <1>1, <1>2 DEF Placed
<1>5. /\ load' \in [Images -> [st : {"out", "viewed", "moved", "failed", "placed", "in"},
                               view : Nat, addr : Nat]]
      /\ \A e \in Images : Placed(e)' => load'[e].addr # NULL
  <2>1. after \in [st : {"out", "viewed", "moved", "failed", "placed", "in"}, view : Nat, addr : Nat]
    OBVIOUS
  <2> QED  BY <1>1, <1>2, <1>4, <2>1 DEF MemoryInv, Listed
<1>6. lost \ Image(d) \subseteq lost' /\ lost' \subseteq holds'
  BY <1>1, <1>2 DEF LostBy
<1>7. Listed'
  <2>1. regions' \in Seq(Region) /\ guests' \subseteq Images
    BY <1>1, <1>2, <1>3
  <2>2. holds' \subseteq [who : Images \cup {CODEC}, a : Nat, s : Nat]
    BY <1>1, <1>2
  <2>3. \A e \in Images : load'[e].st = "in" => load'[e].view = NULL
    BY <1>4 DEF MemoryInv, Listed
  <2>4. views' \in Seq(View)
    BY <1>1 DEF MemoryInv, Listed
  <2> QED  BY <1>5, <1>6, <2>1, <2>2, <2>3, <2>4 DEF Listed
<1>8. \A g \in holds' : g \in holds /\ g.who # d /\ (Exempt(g) => Exempt(g)')
  BY <1>1, <1>6 DEF Exempt, Image
<1>9. PICK h \in Image(d) : h \in holds /\ h.who = d /\ h.a = a
  BY DEF MemoryInv, Held, Image
<1>10. \A g \in holds' : g.a = a => Exempt(g)'
  <2> SUFFICES ASSUME NEW g \in holds', g.a = a PROVE Exempt(g)'
    OBVIOUS
  <2>1. g \in holds /\ g # h /\ g.a = h.a /\ g \notin Image(d)
    BY <1>1, <1>8, <1>9
  <2>2. CASE Exempt(g)
    BY <1>8, <2>2
  <2>3. CASE d \in guests
    BY <1>1, <2>1, <2>3 DEF Exempt
  <2>4. CASE d \notin guests /\ h \in lost
    <3>1. g \in LostBy(Image(d))
      BY <1>9, <2>1, <2>4 DEF LostBy
    <3> QED  BY <1>1, <2>1, <2>4, <3>1 DEF Exempt
  <2>5. Exempt(g) \/ Exempt(h)
    BY <1>9, <2>1 DEF MemoryInv, Held
  <2> QED  BY <1>9, <2>2, <2>3, <2>4, <2>5 DEF Exempt
<1>11. Held'
  <2>1. \A g \in holds' : Exempt(g)' \/ \E i \in DOMAIN regions' :
           regions'[i].a = g.a /\ regions'[i].s = g.s
    <3> TAKE g \in holds'
    <3>1. CASE g.a = a
      BY <1>10, <3>1
    <3>2. CASE g.a # a
      BY <1>1, <1>3, <1>8, <3>2 DEF MemoryInv, Held
    <3> QED  BY <3>1, <3>2
  <2>2. \A f, g \in holds' : f.a = g.a => f = g \/ Exempt(f)' \/ Exempt(g)'
    BY <1>8 DEF MemoryInv, Held
  <2>3. \A g \in holds' : g.who \in Images => Placed(g.who)' /\ g.a = load'[g.who].addr
    BY <1>4, <1>8 DEF MemoryInv, Held
  <2>4. \A e \in Images : Placed(e)' => Image(e)' # {}
    <3> SUFFICES ASSUME NEW e \in Images, Placed(e)' PROVE Image(e)' # {}
      OBVIOUS
    <3>1. e # d /\ Placed(e)
      BY <1>4
    <3>2. PICK g \in holds : g.who = e
      BY <3>1 DEF MemoryInv, Held, Image
    <3> QED  BY <1>1, <3>1, <3>2 DEF Image
  <2> QED  BY <2>1, <2>2, <2>3, <2>4 DEF Held
<1>12. Viewed'
  <2>1. \A e \in Images : load'[e].view = load[e].view
    BY <1>4
  <2>2. \A i \in DOMAIN views : views[i].by \in Images \cup {CODEC}
    <3>1. \A i \in DOMAIN views : views[i] \in View
      BY DEF MemoryInv, Listed
    <3> QED  BY <3>1 DEF View
  <2> QED  BY <1>1, <2>1, <2>2 DEF MemoryInv, Viewed
<1>13. Layout(regions', views', mapped')
  BY <1>0, <1>1, <1>3
<1>q. QED  BY <1>7, <1>11, <1>12, <1>13 DEF MemoryInv

(* The error exits of PE_LoadImage.                                        *)
LEMMA LoadFailsStep ==
  ASSUME MemoryInv, NEW d \in Images, LoadFails(d)
  PROVE  MemoryInv'
<1>1. CASE /\ load[d].st \in {"viewed", "failed"}
           /\ UnmapView(load[d].view)
           /\ load' = [load EXCEPT ![d] = Idle]
           /\ UNCHANGED <<regions, holds, guests, lost>>
  <2>1. load \in [Images -> [st : {"out", "viewed", "moved", "failed", "placed", "in"},
                             view : Nat, addr : Nat]]
    BY DEF MemoryInv, Listed
  <2>2. load'[d] = Idle /\ \A e \in Images \ {d} : load'[e] = load[e]
    BY <1>1, <2>1
  <2>3. /\ views' \in Seq(View) /\ Viewed' /\ Spread(views')
        /\ \E gone \in SUBSET Covered(views) :
             Covered(views') = Covered(views) \ gone /\ mapped' = mapped \ gone
    BY <1>1, <2>2, UnmapViewed
  <2>4. \A e \in Images : Placed(e)' = Placed(e)
    BY <1>1, <2>2 DEF Placed, Idle
  <2>5. load' \in [Images -> [st : {"out", "viewed", "moved", "failed", "placed", "in"},
                              view : Nat, addr : Nat]]
    <3>1. Idle \in [st : {"out", "viewed", "moved", "failed", "placed", "in"}, view : Nat, addr : Nat]
      BY DEF Idle, NULL
    <3> QED  BY <1>1, <2>1, <3>1
  <2>6. Listed'
    BY <1>1, <2>2, <2>3, <2>4, <2>5 DEF MemoryInv, Listed, Placed, Idle
  <2>7. Layout(regions', views', mapped')
    BY <1>1, <2>3 DEF MemoryInv, Layout
  <2>8. Held'
    <3>1. ~Placed(d)
      BY <1>1 DEF Placed
    <3>2. \A h \in holds : h.who # d
      BY <3>1 DEF MemoryInv, Held
    <3>3. \A h \in holds : Exempt(h)' = Exempt(h)
      BY <1>1 DEF Exempt
    <3>4. \A e \in Images : Image(e)' = Image(e)
      BY <1>1 DEF Image
    <3> QED  BY <1>1, <2>2, <2>4, <3>2, <3>3, <3>4 DEF MemoryInv, Held
  <2> QED  BY <2>3, <2>6, <2>7, <2>8 DEF MemoryInv
<1>2. CASE /\ load[d].st = "placed"
           /\ FreeImage(d, [load[d] EXCEPT !.st = "failed", !.addr = NULL])
  <2>1. PICK after : after = [load[d] EXCEPT !.st = "failed", !.addr = NULL]
    OBVIOUS
  <2>2. load[d] \in [st : {"out", "viewed", "moved", "failed", "placed", "in"},
                     view : Nat, addr : Nat]
    BY DEF MemoryInv, Listed
  <2>3. after \in [st : {"out", "failed"}, view : Nat, addr : Nat] /\ after.view = load[d].view
    BY <2>1, <2>2 DEF NULL
  <2> QED  BY <1>2, <2>1, <2>3, FreeImageStep DEF Placed
<1>q. QED  BY <1>1, <1>2 DEF LoadFails

(* An image that was in is unloaded; its view was unmapped long ago.       *)
LEMMA UnloadStep ==
  ASSUME MemoryInv, NEW d \in Images, PE_UnloadLibrary(d)
  PROVE  MemoryInv'
<1>1. load[d].st = "in" /\ load[d].view = NULL /\ FreeImage(d, Idle)
  BY DEF PE_UnloadLibrary, MemoryInv, Listed
<1>2. Idle \in [st : {"out", "failed"}, view : Nat, addr : Nat] /\ Idle.view = NULL
  BY DEF Idle, NULL
<1>q. QED  BY <1>1, <1>2, FreeImageStep DEF Placed
---------------------------------------------------------------------------
(* The inductive invariant holds: a step of the codec or of the loader     *)
(* leaves the two lists, the pages and the users' claims in agreement.     *)
THEOREM MemoryInvariant == Spec => []MemoryInv
<1>1. ASSUME MemoryInv, [Next]_vars PROVE MemoryInv'
  <2>1. CASE UNCHANGED vars
    BY <1>1, <2>1 DEF MemoryInv, Listed, Layout, Viewed, Held, Exempt, Placed, Image, vars
  <2>2. CASE \E x \in Wanted, n \in Sizes, t \in Types : CodecAlloc(x, n, t)
    BY <1>1, <2>2, CodecAllocStep
  <2>3. CASE \E h \in holds, n \in Sizes : CodecFree(h, n) \/ CodecDecommit(h, n)
    BY <1>1, <2>3, CodecFreeStep, CodecDecommitStep
  <2>4. CASE \E n \in Names : CodecMap({n})
    BY <1>1, <2>4, CodecMapStep
  <2>5. CASE \E d \in Images : LoadBegins(d) \/ ReserveImage(d) \/ LoadEnds(d)
    BY <1>1, <2>5, LoadBeginsStep, ReserveImageStep, LoadEndsStep
  <2>6. CASE \E d \in Images : LoadFails(d) \/ PE_UnloadLibrary(d)
    BY <1>1, <2>6, LoadFailsStep, UnloadStep
  <2>7. CASE ListsMeet
    BY <1>1, <2>7 DEF MemoryInv, Listed, Layout, Viewed, Held, Exempt, Placed, Image, ListsMeet
  <2> QED  BY <1>1, <2>1, <2>2, <2>3, <2>4, <2>5, <2>6, <2>7 DEF Next, Running
<1>q. QED  BY InitMemory, <1>1, PTL DEF Spec

(* The links that a race may leave.                                        *)
Linking == adrift \subseteq Nat /\ loose \subseteq Nat /\ wild \in BOOLEAN

LEMMA LinkingStep ==
  ASSUME MemoryInv, Linking, [Next]_vars
  PROVE  Linking'
<1>1. \A i \in DOMAIN regions : regions[i].a \in Nat
  <2>1. \A i \in DOMAIN regions : regions[i] \in Region
    BY DEF MemoryInv, Listed
  <2> QED  BY <2>1 DEF Region
<1>2. \A i : Before(i) \subseteq Nat
  BY <1>1 DEF Before, NewestOf, Linked
<1>3. ASSUME UNCHANGED linkVars \/ ListsMeet PROVE Linking'
  BY <1>3 DEF linkVars, ListsMeet, Linking
<1>4. ASSUME NEW r, Insert(r) PROVE Linking'
  BY <1>1, <1>2, <1>4 DEF Insert, Linking, NewestOf, Linked
<1>5. ASSUME NEW x, Unlink(x) PROVE Linking'
  <2>1. wild' = (x \in loose) /\ adrift' = adrift /\ loose' \subseteq loose
    BY <1>5 DEF Unlink
  <2>2. wild' \in BOOLEAN
    <3>1. (x \in loose) \in BOOLEAN
      OBVIOUS
    <3> QED  BY <2>1, <3>1
  <2> QED  BY <2>1, <2>2 DEF Linking
<1>6. ASSUME NEW x, NEW n, NEW t, CodecAlloc(x, n, t) PROVE Linking'
  BY <1>4, <1>6 DEF CodecAlloc
<1>7. ASSUME NEW h, NEW n, CodecFree(h, n) \/ CodecDecommit(h, n) PROVE Linking'
  BY <1>5, <1>7 DEF CodecFree, CodecDecommit
<1>8. ASSUME NEW d, ReserveImage(d) PROVE Linking'
  BY <1>4, <1>8 DEF ReserveImage
<1>9. ASSUME NEW d, LoadFails(d) \/ PE_UnloadLibrary(d) PROVE Linking'
  BY <1>3, <1>5, <1>9 DEF LoadFails, PE_UnloadLibrary, FreeImage
<1>10. ASSUME NEW n, CodecMap(n) PROVE Linking'
  BY <1>3, <1>10 DEF CodecMap
<1>11. ASSUME NEW d, LoadBegins(d) \/ LoadEnds(d) PROVE Linking'
  BY <1>3, <1>11 DEF LoadBegins, LoadEnds
<1>12. CASE UNCHANGED vars
  BY <1>3, <1>12 DEF vars, linkVars
<1>q. QED
  BY <1>3, <1>6, <1>7, <1>8, <1>9, <1>10, <1>11, <1>12 DEF Next, Running

(* Types of the lists, the pages and the loads, for any address space.     *)
THEOREM TypeCorrect == Spec => []TypeOK
<1>1. ASSUME MemoryInv, Linking PROVE TypeOK
  <2>1. regions \in Seq(Region) /\ views \in Seq(View)
    BY <1>1 DEF MemoryInv, Listed
  <2>2. \A i \in DOMAIN regions : regions[i] \in Region
    BY <2>1
  <2>3. \A i \in DOMAIN views : views[i] \in View
    BY <2>1
  <2>4. mapped \subseteq 0 .. Top \div PAGE
    BY <1>1 DEF MemoryInv, Layout, Covered, PagesOf, Pages
  <2> QED  BY <1>1, <2>2, <2>3, <2>4 DEF MemoryInv, Listed, TypeOK, Linking, Region, View, Placed
<1>2. Init => Linking
  BY DEF Init, Linking
<1>3. Spec => []Linking
  BY <1>2, LinkingStep, MemoryInvariant, PTL DEF Spec
<1>q. QED  BY <1>1, <1>3, MemoryInvariant, PTL

(* What is mapped is the regions, listed or lost to a race, and the views, *)
(* each once: nothing else is left when a load fails, nothing is unmapped  *)
(* that is still listed, nothing is put over a region that was lost.       *)
THEOREM NothingUntracked == Spec => []Tracked
<1>1. ASSUME MemoryInv PROVE Tracked
  <2>1. Spread(regions) /\ Spread(views) /\ Covered(regions) \cap Covered(views) = {}
        /\ mapped = Covered(regions) \cup Covered(views) /\ Viewed
    BY <1>1 DEF MemoryInv, Layout
  <2>2. \A i, j \in DOMAIN regions : i # j => ~Meets(regions[i], regions[j])
    BY <2>1, SpreadApart
  <2>3. \A i \in DOMAIN regions, j \in DOMAIN views : PagesOf(regions[i]) \cap PagesOf(views[j]) = {}
    BY <2>1 DEF Covered
  <2>4. \A i, j \in DOMAIN views : i # j => PagesOf(views[i]) \cap PagesOf(views[j]) = {}
    BY <2>1 DEF Spread
  <2>5. mapped = UNION ({PagesOf(regions[i]) : i \in DOMAIN regions}
                          \cup {PagesOf(views[i]) : i \in DOMAIN views})
    BY <2>1 DEF Covered
  <2> QED  BY <2>1, <2>2, <2>3, <2>4, <2>5 DEF Tracked, Viewed
<1>q. QED  BY <1>1, MemoryInvariant, PTL

(* A user's region is there until he frees it, whoever else allocates,     *)
(* loads, fails or unloads, outside the two exceptions of HoldsExact.      *)
THEOREM HoldsAreExact == Spec => []HoldsExact
<1>1. MemoryInv => HoldsExact
  BY DEF MemoryInv, Held, Exempt, HoldsExact
<1>q. QED  BY <1>1, MemoryInvariant, PTL

(* VirtualAlloc's search of the newest overlapping region always finds the *)
(* reservation that a page to commit lies in.                              *)
THEOREM ReservationsCommit == Spec => []CommitSucceeds
<1>1. MemoryInv => CommitSucceeds
  <2>1. SUFFICES ASSUME MemoryInv PROVE CommitSucceeds
    OBVIOUS
  <2>2. regions \in Seq(Region) /\ Spread(regions)
    BY <2>1 DEF MemoryInv, Listed, Layout
  <2> QED  BY <2>2, CommitFound DEF CommitSucceeds, Linked
<1>q. QED  BY <1>1, MemoryInvariant, PTL
=============================================================================
