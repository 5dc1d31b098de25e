-------------------------- MODULE UnifiedLog_proofs --------------------------
(***************************************************************************)
(* Where the sections of the unified log lie, that a closed one is         *)
(* flushed, that a reader comes to the end marker, and that it gets of     *)
(* each stream a prefix of what was logged: for every number of streams,   *)
(* every size of section, slab and page, and a death of the process        *)
(* between any two steps.                                                  *)
(***************************************************************************)
EXTENDS UnifiedLog, SequenceTheorems, FiniteSetTheorems, WellFoundedInduction,
        TLAPS

Slab ==
  [pos : Nat, in_flight : Seq(Nat), flushed_until : Nat, marker : SUBSET Nat,
   synced : SUBSET Nat]
Status == {"none", "open", "closed"}
LogStream == [status : Status, slab : Nat, start : Nat, used : Nat]

\* Where the content of a slab ends: the marker is not part of it.
Cursor(slab) == IF slab.marker = {} THEN slab.pos ELSE slab.pos - Unit

\* The sections in flight lie in order between what is flushed and the cursor.
SlabInv(slab) ==
  /\ slab \in Slab
  /\ slab.pos <= SlabSize /\ slab.flushed_until <= slab.pos
  /\ slab.marker \subseteq {slab.pos - Unit}
  /\ \A i, j \in 1..Len(slab.in_flight) :
       i < j => slab.in_flight[i] < slab.in_flight[j]
  /\ \A i \in 1..Len(slab.in_flight) :
       /\ slab.flushed_until <= slab.in_flight[i]
       /\ slab.in_flight[i] < Cursor(slab)

Closed(header) == ~header.is_open

\* A closed section lies before the cursor and is flushed.
FileInv(file, slab) ==
  /\ DOMAIN file = {"len", "headers", "data"}
  /\ \A p \in DOMAIN file.headers :
       Closed(file.headers[p]) =>
         /\ p \in Nat /\ file.headers[p].used \in Nat
         /\ p + file.headers[p].used < Cursor(slab)
         /\ p..(p + file.headers[p].used) \subseteq slab.synced

\* What stream s may still write to is in flight, and apart from every closed
\* section and what the other streams may write to.
OpenInv(s, f, m, t) ==
  /\ t[s].slab \in DOMAIN m /\ t[s].start \in ToSet(m[t[s].slab].in_flight)
  /\ t[s].used < SectionSize[s]
  /\ t[s].start + SectionSize[s] <= Cursor(m[t[s].slab])
  /\ \A p \in DOMAIN f[t[s].slab].headers :
       Closed(f[t[s].slab].headers[p]) =>
         \/ p + f[t[s].slab].headers[p].used < t[s].start
         \/ t[s].start + SectionSize[s] <= p
  /\ \A u \in Stream \ {s} :
       t[u].status = "open" /\ t[u].slab = t[s].slab =>
         \/ t[u].start + SectionSize[u] <= t[s].start
         \/ t[s].start + SectionSize[s] <= t[u].start

\* Of the files f, the mapped slabs m, the suffix n of the front one and the
\* streams t.
LogInv(f, m, n, t) ==
  /\ n \in Nat /\ DOMAIN m \subseteq DOMAIN f \cap (0..n)
  /\ t \in [Stream -> LogStream]
  /\ \A i \in DOMAIN m : SlabInv(m[i]) /\ FileInv(f[i], m[i])
  /\ \A s \in Stream : t[s].status = "open" => OpenInv(s, f, m, t)

\* Whoever is about to place the marker, and to log an entry that fits.
LockInv ==
  lock # Free =>
    /\ ~closed /\ lock.holder \in Stream
    /\ lock.entry = "fits" =>
         /\ streams[lock.holder].status = "open"
         /\ streams[lock.holder].used = 0

Inv ==
  /\ LogInv(files, slabs, front, streams)
  /\ ~closed => front \in DOMAIN slabs
  /\ closed => slabs = <<>>
  /\ LockInv

----------------------------------------------------------------------------
(* Pages. *)

LEMMA QuotientBounds ==
  ASSUME NEW p \in Nat \ {0}, NEW d \in Nat
  PROVE  /\ d \div p \in Nat
         /\ (d \div p) * p <= d /\ d < (d \div p) * p + p
OBVIOUS

LEMMA WholeQuotient ==
  ASSUME NEW p \in Nat \ {0}, NEW d \in Nat, d % p = 0
  PROVE  d = (d \div p) * p
OBVIOUS

LEMMA FewerMultiples ==
  ASSUME NEW p \in Nat \ {0}, NEW j \in Nat, NEW k \in Nat, j * p < k * p + p
  PROVE  j * p <= k * p
<1>1. CASE j <= k
  BY <1>1
<1>2. CASE j >= k + 1
  <2>1. j * p >= (k + 1) * p
    BY <1>2
  <2> QED
    BY <2>1
<1> QED
  BY <1>1, <1>2

LEMMA Sizes ==
  /\ Page \in Nat \ {0} /\ SlabSize \in Nat \ {0} /\ Unit = 1
  /\ \A s \in Stream : SectionSize[s] \in Nat /\ SectionSize[s] >= 2
BY UnifiedLogAssumption DEF Unit

(* The next page is not before x, and there is one before the end of the    *)
(* slab.                                                                    *)
LEMMA Align ==
  ASSUME NEW x \in Nat
  PROVE  /\ align_to_next_page(x) \in Nat
         /\ align_to_next_page(x) >= x
         /\ x <= SlabSize => align_to_next_page(x) <= SlabSize
<1> DEFINE q == (x + Page - 1) \div Page
           k == SlabSize \div Page
<1>1. /\ Page \in Nat \ {0} /\ SlabSize \in Nat /\ SlabSize % Page = 0
      /\ x + Page - 1 \in Nat
  BY UnifiedLogAssumption
<1>2. /\ q \in Nat /\ q * Page <= x + Page - 1 /\ x + Page - 1 < q * Page + Page
      /\ q * Page \in Nat
  BY <1>1, QuotientBounds
<1>3. k \in Nat /\ SlabSize = k * Page
  BY <1>1, QuotientBounds, WholeQuotient
<1>4. align_to_next_page(x) = q * Page
  BY DEF align_to_next_page
<1> HIDE DEF q, k
<1>5. q * Page >= x
  BY <1>1, <1>2
<1>6. ASSUME x <= SlabSize
      PROVE  q * Page <= SlabSize
  <2>1. q * Page < k * Page + Page
    BY <1>1, <1>2, <1>3, <1>6
  <2> QED
    BY <1>1, <1>2, <1>3, <2>1, FewerMultiples
<1> QED
  BY <1>2, <1>4, <1>5, <1>6

LEMMA PageFits == Page <= SlabSize
<1>1. /\ align_to_next_page(1) = ((1 + Page - 1) \div Page) * Page
      /\ 1 + Page - 1 = Page /\ Page \div Page = 1
  BY Sizes DEF align_to_next_page
<1> QED
  BY <1>1, Align, Sizes

----------------------------------------------------------------------------
(* One slab. *)

Offsets(slab) == ToSet(slab.in_flight)

LEMMA SlabFields ==
  ASSUME NEW x, SlabInv(x)
  PROVE  /\ x \in Slab
         /\ x.pos \in Nat /\ x.flushed_until \in Nat /\ x.in_flight \in Seq(Nat)
         /\ x.marker \in SUBSET Nat /\ x.synced \in SUBSET Nat
         /\ Cursor(x) \in Nat /\ Cursor(x) <= x.pos /\ x.pos <= SlabSize
         /\ x.flushed_until <= x.pos
         /\ \A o \in Offsets(x) : o \in Nat /\ x.flushed_until <= o /\ o < Cursor(x)
<1>1. /\ x \in Slab /\ x.pos \in Nat /\ x.flushed_until \in Nat
      /\ x.in_flight \in Seq(Nat) /\ x.marker \in SUBSET Nat
      /\ x.synced \in SUBSET Nat
  BY DEF SlabInv, Slab
<1>2. Cursor(x) \in Nat /\ Cursor(x) <= x.pos
  <2>1. CASE x.marker = {}
    BY <1>1, <2>1 DEF Cursor
  <2>2. CASE x.marker # {}
    <3>1. x.pos - Unit \in x.marker
      BY <2>2 DEF SlabInv
    <3>2. x.pos - Unit \in Nat
      BY <1>1, <3>1
    <3> QED
      BY <1>1, <2>2, <3>2 DEF Cursor, Unit
  <2> QED
    BY <2>1, <2>2
<1>3. \A o \in Offsets(x) : o \in Nat /\ x.flushed_until <= o /\ o < Cursor(x)
  BY <1>1 DEF Offsets, ToSet, SlabInv
<1> QED
  BY <1>1, <1>2, <1>3 DEF SlabInv

LEMMA Cleared ==
  ASSUME NEW x, SlabInv(x)
  PROVE  LET y == clear_temporary_end_marker(x) IN
         /\ SlabInv(y) /\ Cursor(y) = Cursor(x) /\ y.pos = Cursor(x)
         /\ y.marker = {} /\ y.in_flight = x.in_flight /\ y.synced = x.synced
<1> DEFINE y == clear_temporary_end_marker(x)
           at == CHOOSE o \in x.marker : TRUE
<1>1. CASE x.marker = {}
  BY <1>1 DEF clear_temporary_end_marker, Cursor
<1>2. CASE x.marker # {}
  <2>1. at \in x.marker /\ x.marker \subseteq {x.pos - Unit}
    BY <1>2 DEF SlabInv
  <2>2. at = x.pos - Unit /\ at = Cursor(x)
    BY <1>2, <2>1 DEF Cursor
  <2>3. y = [x EXCEPT !.pos = at, !.marker = {},
                      !.flushed_until = Lowest(x.flushed_until, at)]
    BY <1>2 DEF clear_temporary_end_marker
  <2> HIDE DEF at, y
  <2>4. /\ at \in Nat /\ at <= x.pos
        /\ Lowest(x.flushed_until, at) \in Nat
        /\ Lowest(x.flushed_until, at) <= at
        /\ Lowest(x.flushed_until, at) <= x.flushed_until
    BY <2>2, SlabFields DEF Lowest
  <2>5. y \in Slab
    <3>1. x \in Slab
      BY SlabFields
    <3> QED
      BY <2>3, <2>4, <3>1 DEF Slab
  <2>6. /\ y.pos = at /\ y.marker = {} /\ y.in_flight = x.in_flight
        /\ y.synced = x.synced /\ y.flushed_until = Lowest(x.flushed_until, at)
    BY <2>3, SlabFields DEF Slab
  <2>7. Cursor(y) = Cursor(x)
    BY <2>2, <2>6 DEF Cursor
  <2>8. \A i \in 1..Len(x.in_flight) :
          /\ Lowest(x.flushed_until, at) <= x.in_flight[i]
          /\ x.in_flight[i] < Cursor(x)
    <3> TAKE i \in 1..Len(x.in_flight)
    <3>1. /\ x.flushed_until <= x.in_flight[i] /\ x.in_flight[i] < Cursor(x)
          /\ x.in_flight[i] \in Nat /\ x.flushed_until \in Nat
      BY SlabFields DEF SlabInv
    <3> QED
      BY <2>4, <3>1
  <2>9. at <= SlabSize /\ SlabSize \in Nat
    BY <2>4, SlabFields, Sizes
  <2>10. SlabInv(y)
    BY <2>4, <2>5, <2>6, <2>7, <2>8, <2>9 DEF SlabInv
  <2> QED
    BY <2>2, <2>6, <2>7, <2>10 DEF y
<1> QED
  BY <1>1, <1>2

LEMMA DirtyKeeps ==
  ASSUME NEW x, SlabInv(x), NEW unit
  PROVE  LET y == Dirty(x, unit) IN
         /\ SlabInv(y) /\ Cursor(y) = Cursor(x) /\ y.pos = x.pos
         /\ y.marker = x.marker /\ y.in_flight = x.in_flight
         /\ y.flushed_until = x.flushed_until
         /\ y.synced = x.synced \ {unit}
<1> DEFINE y == Dirty(x, unit)
<1>1. /\ y \in Slab /\ y.pos = x.pos /\ y.in_flight = x.in_flight
      /\ y.marker = x.marker /\ y.flushed_until = x.flushed_until
      /\ y.synced = x.synced \ {unit}
  BY SlabFields DEF Slab, Dirty
<1>2. Cursor(y) = Cursor(x)
  BY <1>1 DEF Cursor
<1> HIDE DEF y
<1>3. SlabInv(y)
  BY <1>1, <1>2 DEF SlabInv
<1> QED
  BY <1>1, <1>2, <1>3 DEF y

LEMMA SectionAdded ==
  ASSUME NEW x, SlabInv(x), x.marker = {},
         NEW size \in Nat, size >= 2, SectionFits(x, size)
  PROVE  LET y == WithSection(x, size)
             at == SectionAt(x)
         IN  /\ SlabInv(y) /\ at \in Nat /\ Cursor(x) <= at
             /\ Cursor(y) = at + size
             /\ Offsets(y) = Offsets(x) \cup {at} /\ y.marker = {}
             /\ y.synced = x.synced \ {at}
<1> DEFINE at == SectionAt(x)
           q == x.in_flight
           y == WithSection(x, size)
<1>1. /\ at \in Nat /\ x.pos \in Nat /\ x.pos <= at /\ Cursor(x) = x.pos
      /\ x.flushed_until \in Nat /\ x.flushed_until <= x.pos
  BY SlabFields, Align DEF SectionAt, Cursor
<1>2. at + size <= SlabSize
  <2>1. at + align_to_next_page(size) <= SlabSize
    BY DEF SectionFits
  <2>2. align_to_next_page(size) \in Nat /\ align_to_next_page(size) >= size
    BY Align
  <2> QED
    BY <1>1, <2>1, <2>2, Sizes
<1> DEFINE r == Append(q, at)
           n == Len(q)
<1>3. /\ q \in Seq(Nat) /\ r \in Seq(Nat) /\ n \in Nat /\ Len(r) = n + 1
      /\ r[n + 1] = at /\ \A i \in 1..n : r[i] = q[i]
  BY <1>1, SlabFields, AppendProperties, LenProperties
<1>4. /\ y \in Slab /\ y.in_flight = r /\ y.pos = at + size
      /\ y.flushed_until = x.flushed_until /\ y.marker = {}
      /\ y.synced = x.synced \ {at}
  <2> HIDE DEF r, at
  <2>1. y = [x EXCEPT !.synced = x.synced \ {at}, !.in_flight = r,
                      !.pos = at + size]
    BY SlabFields DEF Slab, WithSection, Dirty, r, at
  <2> HIDE DEF y
  <2>2. at + size \in Nat /\ x \in Slab /\ x.synced \ {at} \in SUBSET Nat
    BY <1>1, SlabFields
  <2>3. r \in Seq(Nat)
    BY <1>3
  <2> QED
    BY <2>1, <2>2, <2>3, x.marker = {} DEF Slab
<1>5. Offsets(y) = Offsets(x) \cup {at}
  <2>1. DOMAIN r = 1..(n + 1) /\ DOMAIN q = 1..n
        /\ 1..(n + 1) = (1..n) \cup {n + 1}
    BY <1>3, LenProperties
  <2>2. ToSet(r) = ToSet(q) \cup {at}
    <3> HIDE DEF r, q, n
    <3> QED
      BY <1>3, <2>1 DEF ToSet
  <2> QED
    BY <1>4, <2>2 DEF Offsets
<1>6. Cursor(y) = at + size
  BY <1>4 DEF Cursor
<1>7. \A i, j \in 1..(n + 1) : i < j => r[i] < r[j]
  <2> TAKE i, j \in 1..(n + 1)
  <2> HAVE i < j
  <2>1. i \in 1..n /\ r[i] = q[i] /\ q[i] \in Nat /\ q[i] < Cursor(x)
    BY <1>3, SlabFields DEF SlabInv
  <2>2. CASE j = n + 1
    BY <1>1, <1>3, <2>1, <2>2
  <2>3. CASE j \in 1..n
    BY <1>3, <2>1, <2>3 DEF SlabInv
  <2> QED
    BY <1>3, <2>2, <2>3
<1>8. \A i \in 1..(n + 1) : x.flushed_until <= r[i] /\ r[i] < at + size
  <2> TAKE i \in 1..(n + 1)
  <2>1. CASE i = n + 1
    BY <1>1, <1>3, <2>1
  <2>2. CASE i \in 1..n
    <3>1. /\ r[i] = q[i] /\ q[i] \in Nat /\ q[i] < Cursor(x)
          /\ x.flushed_until <= q[i]
      BY <1>3, <2>2, SlabFields DEF SlabInv
    <3> QED
      BY <1>1, <3>1
  <2> QED
    BY <1>3, <2>1, <2>2
<1>9. x.flushed_until <= at + size /\ {} \subseteq {at + size - Unit}
  BY <1>1
<1> HIDE DEF r, y, q, n, at
<1>10. SlabInv(y)
  BY <1>2, <1>3, <1>4, <1>6, <1>7, <1>8, <1>9 DEF SlabInv
<1> QED
  BY <1>1, <1>4, <1>5, <1>6, <1>10 DEF y, at

LEMMA NoRoomKeeps ==
  ASSUME NEW x, SlabInv(x), x.marker = {}
  PROVE  LET y == NoRoom(x) IN
         /\ SlabInv(y) /\ Cursor(x) <= Cursor(y)
         /\ y.in_flight = x.in_flight /\ y.synced = x.synced
<1> DEFINE at == SectionAt(x)
           y == NoRoom(x)
<1>1. /\ at \in Nat /\ x.pos \in Nat /\ x.pos <= at /\ Cursor(x) = x.pos
      /\ at <= SlabSize /\ x.flushed_until \in Nat /\ x.flushed_until <= x.pos
  BY SlabFields, Align DEF SectionAt, Cursor
<1>2. /\ y \in Slab /\ y.in_flight = x.in_flight /\ y.pos = at
      /\ y.flushed_until = x.flushed_until /\ y.marker = {}
      /\ y.synced = x.synced
  BY <1>1, SlabFields DEF Slab, NoRoom
<1>3. Cursor(y) = at
  BY <1>2 DEF Cursor
<1>4. \A i \in 1..Len(x.in_flight) :
        x.flushed_until <= x.in_flight[i] /\ x.in_flight[i] < at
  <2> TAKE i \in 1..Len(x.in_flight)
  <2>1. /\ x.in_flight[i] \in Nat /\ x.in_flight[i] < Cursor(x)
        /\ x.flushed_until <= x.in_flight[i]
    BY SlabFields DEF SlabInv
  <2> QED
    BY <1>1, <2>1
<1>5. x.flushed_until <= at
  BY <1>1
<1> HIDE DEF y, at
<1>6. SlabInv(y)
  BY <1>1, <1>2, <1>3, <1>4, <1>5 DEF SlabInv
<1> QED
  BY <1>1, <1>2, <1>3, <1>6 DEF y

LEMMA MarkerPlaced ==
  ASSUME NEW x, SlabInv(x), MarkerFits(x)
  PROVE  LET y == Marked(x)
             at == MarkerAt(x)
         IN  /\ SlabInv(y) /\ at \in Nat /\ Cursor(x) <= at /\ Cursor(y) = at
             /\ y.in_flight = x.in_flight /\ y.synced = x.synced \ {at}
             /\ y.marker = {at}
<1> DEFINE at == MarkerAt(x)
           y == Marked(x)
<1>1. /\ at \in Nat /\ x.pos \in Nat /\ x.pos <= at /\ Cursor(x) <= x.pos
      /\ Cursor(x) \in Nat /\ at + 1 <= SlabSize
      /\ x.flushed_until \in Nat /\ x.flushed_until <= x.pos
  BY SlabFields, Align DEF MarkerAt, MarkerFits, Unit
<1>2. /\ y \in Slab /\ y.in_flight = x.in_flight /\ y.pos = at + 1
      /\ y.flushed_until = x.flushed_until /\ y.marker = {at}
      /\ y.synced = x.synced \ {at}
  <2> HIDE DEF at
  <2>1. y = [x EXCEPT !.synced = x.synced \ {at}, !.pos = at + 1,
                      !.marker = {at}]
    BY SlabFields DEF Slab, Marked, Dirty, Unit, at
  <2> HIDE DEF y
  <2>2. /\ at + 1 \in Nat /\ {at} \in SUBSET Nat /\ x \in Slab
        /\ x.synced \ {at} \in SUBSET Nat
    BY <1>1, SlabFields
  <2> QED
    BY <2>1, <2>2 DEF Slab
<1>3. Cursor(y) = at /\ y.pos - Unit = at
  BY <1>1, <1>2 DEF Cursor, Unit
<1>4. \A i \in 1..Len(x.in_flight) :
        x.flushed_until <= x.in_flight[i] /\ x.in_flight[i] < at
  <2> TAKE i \in 1..Len(x.in_flight)
  <2>1. /\ x.in_flight[i] \in Nat /\ x.in_flight[i] < Cursor(x)
        /\ x.flushed_until <= x.in_flight[i]
    BY SlabFields DEF SlabInv
  <2> QED
    BY <1>1, <2>1
<1>5. x.flushed_until <= at + 1 /\ Cursor(x) <= at
  BY <1>1
<1> HIDE DEF y, at
<1>6. SlabInv(y)
  BY <1>1, <1>2, <1>3, <1>4, <1>5 DEF SlabInv
<1> QED
  BY <1>1, <1>2, <1>3, <1>5, <1>6 DEF y, at

LEMMA NewSlabGood ==
  /\ SlabInv(NewSlab) /\ NewSlab.marker = {} /\ NewSlab.in_flight = <<>>
  /\ MarkerFits(NewSlab) /\ Cursor(NewSlab) = 0
<1>1. /\ NewSlab \in Slab /\ NewSlab.pos = 0 /\ NewSlab.in_flight = <<>>
      /\ NewSlab.flushed_until = 0 /\ NewSlab.marker = {}
  BY EmptySeq DEF NewSlab, Slab
<1>2. 1..Len(<<>>) = {} /\ 0 <= SlabSize
  BY Sizes
<1>3. Cursor(NewSlab) = 0
  BY <1>1 DEF Cursor
<1>4. SlabInv(NewSlab)
  BY <1>1, <1>2, <1>3 DEF SlabInv
<1>5. MarkerFits(NewSlab)
  <2>1. MarkerAt(NewSlab) \in Nat /\ MarkerAt(NewSlab) <= SlabSize
    BY <1>1, <1>2, Align DEF MarkerAt
  <2>2. MarkerAt(NewSlab) = 0
    <3>1. /\ MarkerAt(NewSlab) = ((0 + Page - 1) \div Page) * Page
          /\ (0 + Page - 1) \div Page = 0
      BY <1>1, Sizes DEF MarkerAt, align_to_next_page
    <3> QED
      BY <3>1, Sizes
  <2> QED
    BY <2>2, Sizes DEF MarkerFits
<1> QED
  BY <1>1, <1>3, <1>4, <1>5

LEMMA RetainedOffsets ==
  ASSUME NEW q \in Seq(Nat), NEW x \in ToSet(q),
         \A i, j \in 1..Len(q) : i < j => q[i] < q[j]
  PROVE  LET r == Retained(q, x) IN
         /\ r \in Seq(Nat)
         /\ \A i, j \in 1..Len(r) : i < j => r[i] < r[j]
         /\ ToSet(r) = ToSet(q) \ {x}
<1> DEFINE n == Len(q)
           k == CHOOSE i \in DOMAIN q : q[i] = x
           r == Retained(q, x)
<1>1. n \in Nat /\ DOMAIN q = 1..n /\ \A i \in 1..n : q[i] \in Nat
  BY LenProperties
<1>2. k \in 1..n /\ q[k] = x
  BY <1>1 DEF ToSet
<1>3. r = SubSeq(q, 1, k - 1) \o SubSeq(q, k + 1, n)
  BY DEF Retained, RemoveAt
<1> HIDE DEF k, r
<1>4. /\ SubSeq(q, 1, k - 1) \in Seq(Nat) /\ SubSeq(q, k + 1, n) \in Seq(Nat)
      /\ Len(SubSeq(q, 1, k - 1)) = k - 1 /\ Len(SubSeq(q, k + 1, n)) = n - k
      /\ \A i \in 1..(k - 1) : SubSeq(q, 1, k - 1)[i] = q[i]
      /\ \A i \in 1..(n - k) : SubSeq(q, k + 1, n)[i] = q[k + i]
  <2> HIDE DEF n
  <2>1. \A i \in 1..(k - 1) : q[i] \in Nat
    BY <1>1, <1>2
  <2>2. \A i \in (k + 1)..n : q[i] \in Nat
    BY <1>1, <1>2
  <2>3. k \in Int /\ n \in Int /\ k >= 1 /\ k <= n
    BY <1>1, <1>2
  <2>4. /\ SubSeq(q, 1, k - 1) \in Seq(Nat) /\ Len(SubSeq(q, 1, k - 1)) = k - 1
        /\ \A i \in 1..(k - 1) : SubSeq(q, 1, k - 1)[i] = q[i]
    <3> DEFINE to == k - 1
               a == SubSeq(q, 1, to)
    <3>1. to \in Int /\ 1 \in Int /\ \A i \in 1..to : q[i] \in Nat
      BY <2>1, <2>3
    <3> HIDE DEF to
    <3>2. /\ a \in Seq(Nat) /\ Len(a) = IF 1 <= to THEN to - 1 + 1 ELSE 0
          /\ \A i \in 1..(to - 1 + 1) : a[i] = q[1 + i - 1]
      BY <3>1, SubSeqProperties
    <3> HIDE DEF a
    <3>3. /\ a \in Seq(Nat) /\ Len(a) = to /\ \A i \in 1..to : a[i] = q[i]
      BY <2>3, <3>1, <3>2 DEF to
    <3> QED
      BY <3>3 DEF a, to
  <2>5. /\ SubSeq(q, k + 1, n) \in Seq(Nat) /\ Len(SubSeq(q, k + 1, n)) = n - k
        /\ \A i \in 1..(n - k) : SubSeq(q, k + 1, n)[i] = q[k + i]
    <3> DEFINE from == k + 1
               b == SubSeq(q, from, n)
    <3>1. from \in Int /\ \A i \in from..n : q[i] \in Nat
      BY <2>2, <2>3
    <3> HIDE DEF from
    <3>2. /\ b \in Seq(Nat) /\ Len(b) = IF from <= n THEN n - from + 1 ELSE 0
          /\ \A i \in 1..(n - from + 1) : b[i] = q[from + i - 1]
      BY <2>3, <3>1, SubSeqProperties
    <3> HIDE DEF b
    <3>3. n - from + 1 = n - k /\ \A i \in 1..(n - k) : from + i - 1 = k + i
      BY <2>3 DEF from
    <3>4. Len(b) = n - k
      BY <2>3, <3>2 DEF from
    <3>5. \A i \in 1..(n - k) : b[i] = q[k + i]
      BY <3>2, <3>3
    <3> QED
      BY <3>2, <3>4, <3>5 DEF b, from
  <2> QED
    BY <2>4, <2>5
<1>5. /\ r \in Seq(Nat) /\ Len(r) = n - 1 /\ DOMAIN r = 1..(n - 1)
      /\ \A i \in 1..(n - 1) : r[i] = IF i < k THEN q[i] ELSE q[i + 1]
  <2> DEFINE a == SubSeq(q, 1, k - 1)
             b == SubSeq(q, k + 1, n)
  <2> HIDE DEF a, b, n
  <2>1. /\ r = a \o b /\ a \in Seq(Nat) /\ b \in Seq(Nat)
        /\ Len(a) = k - 1 /\ Len(b) = n - k
        /\ \A i \in 1..(k - 1) : a[i] = q[i]
        /\ \A i \in 1..(n - k) : b[i] = q[k + i]
    BY <1>3, <1>4 DEF a, b
  <2>2. /\ r \in Seq(Nat) /\ Len(r) = Len(a) + Len(b)
        /\ \A i \in 1..(Len(a) + Len(b)) :
             r[i] = IF i <= Len(a) THEN a[i] ELSE b[i - Len(a)]
    BY <2>1, ConcatProperties
  <2>3. Len(r) = n - 1 /\ DOMAIN r = 1..(n - 1)
    BY <1>1, <1>2, <2>1, <2>2, LenProperties
  <2>4. ASSUME NEW i \in 1..(n - 1)
        PROVE  r[i] = IF i < k THEN q[i] ELSE q[i + 1]
    <3>1. i \in 1..(Len(a) + Len(b))
      BY <1>1, <1>2, <2>1, <2>4
    <3>2. CASE i < k
      BY <1>1, <1>2, <2>1, <2>2, <3>1, <3>2
    <3>3. CASE ~(i < k)
      <4>1. /\ i - (k - 1) \in 1..(n - k) /\ k + (i - (k - 1)) = i + 1
            /\ ~(i <= k - 1)
        BY <1>1, <1>2, <2>4, <3>3
      <4>2. b[i - (k - 1)] = q[i + 1]
        BY <2>1, <4>1
      <4> QED
        BY <2>1, <2>2, <3>1, <3>3, <4>1, <4>2
    <3> QED
      BY <3>2, <3>3
  <2> QED
    BY <2>2, <2>3, <2>4
<1>6. \A i, j \in 1..Len(r) : i < j => r[i] < r[j]
  <2> HIDE DEF n
  <2> TAKE i, j \in 1..Len(r)
  <2> HAVE i < j
  <2>1. i \in 1..n /\ j \in 1..n /\ i + 1 \in 1..n /\ j + 1 \in 1..n
        /\ i + 1 < j + 1 /\ i < j + 1
    BY <1>1, <1>5
  <2>3. /\ q[i] < q[j] /\ q[i + 1] < q[j + 1] /\ q[i] < q[j + 1]
    BY <2>1 DEF n
  <2>4. CASE j < k
    BY <1>1, <1>2, <1>5, <2>1, <2>3, <2>4
  <2>5. CASE ~(j < k)
    <3>1. r[j] = q[j + 1] /\ (r[i] = q[i] \/ r[i] = q[i + 1])
      BY <1>1, <1>2, <1>5, <2>5
    <3> QED
      BY <2>3, <3>1
  <2> QED
    BY <2>4, <2>5
<1>7. ToSet(r) = ToSet(q) \ {x}
  <2>1. \A i \in 1..n : i # k => q[i] # x
    <3> TAKE i \in 1..n
    <3> HAVE i # k
    <3>1. i < k \/ k < i
      BY <1>1, <1>2
    <3>2. q[i] < q[k] \/ q[k] < q[i]
      BY <1>2, <3>1
    <3> QED
      BY <1>1, <1>2, <3>2
  <2> HIDE DEF n
  <2>2. ASSUME NEW o \in ToSet(r)
        PROVE  o \in ToSet(q) \ {x}
    <3>1. PICK i \in 1..(n - 1) : o = r[i]
      BY <1>5 DEF ToSet
    <3>2. i \in 1..n /\ i + 1 \in 1..n /\ (i < k => i # k) /\ (~(i < k) => i + 1 # k)
      BY <1>1, <1>2
    <3> QED
      BY <1>1, <1>5, <2>1, <3>1, <3>2 DEF ToSet
  <2>3. ASSUME NEW o \in ToSet(q) \ {x}
        PROVE  o \in ToSet(r)
    <3>1. PICK i \in 1..n : o = q[i]
      BY <1>1 DEF ToSet
    <3>2. i # k
      BY <1>2, <2>3, <3>1
    <3>3. CASE i < k
      <4>1. i \in 1..(n - 1) /\ r[i] = q[i]
        BY <1>1, <1>2, <1>5, <3>3
      <4> QED
        BY <1>5, <3>1, <4>1 DEF ToSet
    <3>4. CASE i > k
      <4>1. i - 1 \in 1..(n - 1) /\ ~(i - 1 < k) /\ (i - 1) + 1 = i
        BY <1>1, <1>2, <3>4
      <4>2. r[i - 1] = q[i]
        BY <1>5, <4>1
      <4> QED
        BY <1>5, <3>1, <4>1, <4>2 DEF ToSet
    <3> QED
      BY <1>1, <1>2, <3>2, <3>3, <3>4
  <2> QED
    BY <2>2, <2>3
<1> QED
  BY <1>5, <1>6, <1>7 DEF r

(* flush_section, once the header is stored: its section is flushed, no     *)
(* matter what is still in flight before or behind it, and what was flushed *)
(* stays so.                                                                *)
LEMMA SectionFlushed ==
  ASSUME NEW x, SlabInv(x), NEW start \in Offsets(x), NEW len \in Nat
  PROVE  LET y == FlushClosed(x, start, len) IN
         /\ SlabInv(y) /\ Cursor(y) = Cursor(x)
         /\ y.pos = x.pos /\ y.marker = x.marker
         /\ Offsets(y) = Offsets(x) \ {start}
         /\ x.synced \subseteq y.synced
         /\ \A n \in Nat : n < len /\ start + n < Cursor(x)
              => start..(start + n) \subseteq y.synced
<1> DEFINE left == Retained(x.in_flight, start)
           rest == [x EXCEPT !.in_flight = left]
           y == FlushClosed(x, start, len)
           upto == IF left # <<>> /\ rest.flushed_until < left[1]
                     THEN flush_until(rest, left[1]) ELSE rest
<1>1. /\ x \in Slab /\ x.pos \in Nat /\ x.flushed_until \in Nat
      /\ x.synced \in SUBSET Nat /\ Cursor(x) \in Nat /\ Cursor(x) <= x.pos
      /\ start \in Nat /\ x.flushed_until <= start /\ start < Cursor(x)
      /\ x.in_flight \in Seq(Nat)
  BY SlabFields
<1>2. /\ left \in Seq(Nat)
      /\ \A i, j \in 1..Len(left) : i < j => left[i] < left[j]
      /\ ToSet(left) = Offsets(x) \ {start}
  BY <1>1, RetainedOffsets DEF SlabInv, Offsets
<1>3. /\ Len(left) \in Nat /\ DOMAIN left = 1..Len(left)
      /\ left # <<>> => 1 \in 1..Len(left)
  BY <1>2, LenProperties, EmptySeq
<1>4. \A i \in 1..Len(left) :
        /\ left[i] \in Nat /\ x.flushed_until <= left[i] /\ left[i] < Cursor(x)
        /\ left[1] <= left[i] /\ 1 \in 1..Len(left)
  <2> TAKE i \in 1..Len(left)
  <2>1. left[i] \in ToSet(left) /\ 1 \in 1..Len(left)
    BY <1>3 DEF ToSet
  <2>2. left[i] \in Offsets(x) /\ left[1] \in Nat
    BY <1>2, <1>3, <2>1
  <2>3. /\ left[i] \in Nat /\ x.flushed_until <= left[i] /\ left[i] < Cursor(x)
    BY <2>2, SlabFields
  <2>4. i = 1 \/ 1 < i
    BY <1>3
  <2> QED
    BY <1>2, <2>1, <2>2, <2>3, <2>4
<1> HIDE DEF left
\* What the flushing of at least the section's own units amounts to.
<1>5. ASSUME NEW z, NEW until \in Nat, NEW more \in SUBSET Nat,
             z = [x EXCEPT !.in_flight = left, !.flushed_until = until,
                           !.synced = x.synced \cup more],
             until <= x.pos, \A i \in 1..Len(left) : until <= left[i],
             \A n \in Nat : n < len /\ start + n < Cursor(x)
               => start..(start + n) \subseteq more
      PROVE  /\ SlabInv(z) /\ Cursor(z) = Cursor(x)
             /\ z.pos = x.pos /\ z.marker = x.marker
             /\ Offsets(z) = Offsets(x) \ {start}
             /\ x.synced \subseteq z.synced
             /\ \A n \in Nat : n < len /\ start + n < Cursor(x)
                  => start..(start + n) \subseteq z.synced
  <2>1. /\ z.pos = x.pos /\ z.in_flight = left /\ z.flushed_until = until
        /\ z.marker = x.marker /\ z.synced = x.synced \cup more
    BY <1>1, <1>5 DEF Slab
  <2>2. z \in Slab
    <3>1. x.synced \cup more \in SUBSET Nat
      BY <1>1, <1>5
    <3> QED
      BY <1>1, <1>2, <1>5, <3>1 DEF Slab
  <2>3. Cursor(z) = Cursor(x)
    BY <2>1 DEF Cursor
  <2>4. SlabInv(z)
    BY <1>2, <1>4, <1>5, <2>1, <2>2, <2>3 DEF SlabInv
  <2> QED
    BY <1>2, <1>5, <2>1, <2>3, <2>4 DEF Offsets
<1> DEFINE range(a, n) == a..(a + n - 1)
<1>6. /\ rest.pos = x.pos /\ rest.flushed_until = x.flushed_until
      /\ rest.synced = x.synced /\ rest \in Slab
  BY <1>1, <1>2 DEF Slab
<1>7. ASSUME NEW until \in Nat, x.flushed_until < until
      PROVE  /\ flush_until(rest, until) =
                  [x EXCEPT !.in_flight = left, !.flushed_until = until,
                            !.synced = x.synced \cup x.flushed_until..(until - 1)]
             /\ x.flushed_until..(until - 1) \in SUBSET Nat
  <2>1. until # x.flushed_until /\ until # 0
        /\ x.flushed_until + (until - x.flushed_until) - 1 = until - 1
    BY <1>1, <1>7
  <2>2. flush_until(rest, until) =
          [flush_range(rest, x.flushed_until, until - x.flushed_until)
             EXCEPT !.flushed_until = until]
    BY <1>6, <2>1 DEF flush_until
  <2>3. flush_range(rest, x.flushed_until, until - x.flushed_until) =
          [rest EXCEPT !.synced = x.synced \cup x.flushed_until..(until - 1)]
    BY <1>6, <2>1 DEF flush_range
  <2>4. x.flushed_until..(until - 1) \in SUBSET Nat
    BY <1>1, <1>7
  <2> QED
    BY <1>1, <2>2, <2>3, <2>4 DEF Slab
<1>8. CASE left = <<>>
  <2>1. y = flush_until(rest, x.pos)
    BY <1>6, <1>8 DEF FlushClosed, left
  <2>2. x.flushed_until < x.pos
    BY <1>1
  <2>3. \A n \in Nat : n < len /\ start + n < Cursor(x)
          => start..(start + n) \subseteq x.flushed_until..(x.pos - 1)
    BY <1>1
  <2>4. 1..Len(left) = {}
    BY <1>8
  <2> DEFINE more == x.flushed_until..(x.pos - 1)
  <2>5. /\ y = [x EXCEPT !.in_flight = left, !.flushed_until = x.pos,
                         !.synced = x.synced \cup more]
        /\ more \in SUBSET Nat
    <3> HIDE DEF y, rest
    <3> QED
      BY <1>1, <1>7, <2>1, <2>2
  <2>6. x.pos <= x.pos /\ \A i \in 1..Len(left) : x.pos <= left[i]
    BY <1>1, <2>4
  <2> HIDE DEF y, more
  <2>7. \A n \in Nat : n < len /\ start + n < Cursor(x)
          => start..(start + n) \subseteq more
    BY <2>3 DEF more
  <2> QED
    BY <1>1, <1>5, <2>5, <2>6, <2>7 DEF y
<1>9. CASE left # <<>>
  <2> DEFINE until == IF x.flushed_until < left[1] THEN left[1]
                      ELSE x.flushed_until
             more == IF x.flushed_until < left[1]
                       THEN x.flushed_until..(left[1] - 1) ELSE {}
  <2>1. left[1] \in Nat /\ left[1] < Cursor(x) /\ x.flushed_until <= left[1]
    BY <1>3, <1>4, <1>9
  <2>2. until = left[1]
    BY <1>1, <2>1
  <2>3. upto = [x EXCEPT !.in_flight = left, !.flushed_until = left[1],
                         !.synced = x.synced \cup more]
        /\ more \in SUBSET Nat
    <3>1. CASE x.flushed_until < left[1]
      BY <1>6, <1>7, <1>9, <2>1, <3>1
    <3>2. CASE ~(x.flushed_until < left[1])
      <4>1. x.flushed_until = left[1]
        BY <1>1, <2>1, <3>2
      <4>2. upto = rest /\ more = {}
        BY <1>6, <3>2
      <4> QED
        BY <1>1, <4>1, <4>2 DEF Slab
    <3> QED
      BY <3>1, <3>2
  <2>4. left[1] <= x.pos /\ \A i \in 1..Len(left) : left[1] <= left[i]
    BY <1>1, <1>4, <2>1
  <2>5. upto.flushed_until = left[1] /\ upto.synced = x.synced \cup more
        /\ upto \in Slab
    <3>1. x.synced \cup more \in SUBSET Nat
      BY <1>1, <2>3
    <3> QED
      BY <1>1, <1>2, <2>1, <2>3, <3>1 DEF Slab
  <2>6. CASE start + len > left[1]
    <3>1. y = flush_range(upto, start, len)
      BY <1>9, <2>5, <2>6 DEF FlushClosed, left
    <3>2. y = [x EXCEPT !.in_flight = left, !.flushed_until = left[1],
                        !.synced = x.synced \cup (more \cup range(start, len))]
      BY <1>1, <2>3, <2>5, <3>1 DEF flush_range, Slab
    <3>3. more \cup range(start, len) \in SUBSET Nat
      BY <1>1, <2>3
    <3>4. \A n \in Nat : n < len /\ start + n < Cursor(x)
            => start..(start + n) \subseteq more \cup range(start, len)
      BY <1>1
    <3> HIDE DEF y, more, range
    <3> QED
      BY <1>5, <2>1, <2>4, <3>2, <3>3, <3>4 DEF y
  <2>7. CASE ~(start + len > left[1])
    <3>1. y = upto
      BY <1>9, <2>5, <2>7 DEF FlushClosed, left
    <3>2. \A n \in Nat : n < len /\ start + n < Cursor(x)
            => start..(start + n) \subseteq more
      BY <1>1, <2>1, <2>7
    <3> HIDE DEF y, more, upto
    <3> QED
      BY <1>5, <2>1, <2>3, <2>4, <3>1, <3>2 DEF y
  <2> QED
    BY <2>6, <2>7
<1> QED
  BY <1>8, <1>9

----------------------------------------------------------------------------
(* The slabs, their files and the streams. *)

LEMMA WithValue ==
  ASSUME NEW f, NEW x, NEW v
  PROVE  /\ DOMAIN With(f, x, v) = DOMAIN f \cup {x}
         /\ With(f, x, v)[x] = v
         /\ \A y \in DOMAIN f \ {x} : With(f, x, v)[y] = f[y]
BY DEF With

LEMMA HeaderKinds ==
  /\ ~Closed(MarkerHeader(TRUE))
  /\ \A s, n : /\ ~Closed(SectionHeader(s, n, TRUE))
               /\ SectionHeader(s, n, FALSE).used = n
BY DEF Closed, MarkerHeader, SectionHeader

LEMMA HeaderWritten ==
  ASSUME NEW file, DOMAIN file = {"len", "headers", "data"}, NEW offset, NEW header
  PROVE  LET g == WriteHeader(file, offset, header) IN
         /\ DOMAIN g = {"len", "headers", "data"}
         /\ DOMAIN g.headers = DOMAIN file.headers \cup {offset}
         /\ g.headers[offset] = header
         /\ \A p \in DOMAIN file.headers \ {offset} :
              g.headers[p] = file.headers[p]
<1> DEFINE g == WriteHeader(file, offset, header)
<1>1. DOMAIN g = {"len", "headers", "data"}
      /\ g.headers = With(file.headers, offset, header)
  BY DEF WriteHeader
<1>2. LET h == With(file.headers, offset, header) IN
      /\ DOMAIN h = DOMAIN file.headers \cup {offset}
      /\ h[offset] = header
      /\ \A p \in DOMAIN file.headers \ {offset} : h[p] = file.headers[p]
  BY DEF With
<1> HIDE DEF g
<1> QED
  BY <1>1, <1>2 DEF g

ClosedIn(file, p) == p \in DOMAIN file.headers /\ Closed(file.headers[p])
SameClosed(g, file) ==
  \A p : ClosedIn(g, p) => ClosedIn(file, p) /\ g.headers[p] = file.headers[p]

(* What happens behind the cursor does not concern the closed sections.     *)
LEMMA FileKept ==
  ASSUME NEW file, NEW x, NEW g, NEW y, NEW unit \in Nat,
         SlabInv(x), SlabInv(y), FileInv(file, x),
         DOMAIN g = {"len", "headers", "data"}, SameClosed(g, file),
         Cursor(x) <= Cursor(y), Cursor(x) <= unit, x.synced \ {unit} \subseteq y.synced
  PROVE  FileInv(g, y)
<1> SUFFICES ASSUME NEW p \in DOMAIN g.headers, Closed(g.headers[p])
             PROVE  /\ p \in Nat /\ g.headers[p].used \in Nat
                    /\ p + g.headers[p].used < Cursor(y)
                    /\ p..(p + g.headers[p].used) \subseteq y.synced
  BY DEF FileInv
<1> DEFINE n == g.headers[p].used
<1>1. p \in DOMAIN file.headers /\ Closed(file.headers[p])
      /\ n = file.headers[p].used
  BY DEF SameClosed, ClosedIn
<1>2. /\ p \in Nat /\ n \in Nat /\ p + n < Cursor(x) /\ p..(p + n) \subseteq x.synced
  BY <1>1 DEF FileInv
<1>3. Cursor(x) \in Nat /\ Cursor(y) \in Nat
  BY SlabFields
<1> HIDE DEF n
<1>4. unit \notin p..(p + n) /\ p + n < Cursor(y)
  BY <1>2, <1>3
<1> QED
  BY <1>2, <1>4 DEF n

(* A change that no open section notices.                                   *)
LEMMA LogKept ==
  ASSUME NEW f, NEW m, NEW n, NEW t, LogInv(f, m, n, t),
         NEW g, NEW k, NEW o \in Nat,
         DOMAIN k \subseteq DOMAIN g \cap (0..o),
         \A i \in DOMAIN k : SlabInv(k[i]) /\ FileInv(g[i], k[i]),
         \A i \in DOMAIN m : Offsets(m[i]) # {} =>
           /\ i \in DOMAIN k /\ Offsets(m[i]) \subseteq Offsets(k[i])
           /\ Cursor(m[i]) <= Cursor(k[i]) /\ SameClosed(g[i], f[i])
  PROVE  LogInv(g, k, o, t)
<1>1. ASSUME NEW s \in Stream, t[s].status = "open"
      PROVE  OpenInv(s, g, k, t)
  <2> DEFINE i == t[s].slab
  <2>1. OpenInv(s, f, m, t)
    BY <1>1 DEF LogInv
  <2>2. i \in DOMAIN m /\ t[s].start \in Offsets(m[i])
        /\ t[s].start + SectionSize[s] <= Cursor(m[i]) /\ SlabInv(m[i])
        /\ t[s].start \in Nat
    BY <1>1, <2>1, SlabFields DEF OpenInv, Offsets, LogInv
  <2>3. /\ i \in DOMAIN k /\ t[s].start \in Offsets(k[i])
        /\ Cursor(m[i]) <= Cursor(k[i]) /\ SameClosed(g[i], f[i])
        /\ SlabInv(k[i])
    BY <2>2
  <2>4. t[s].start + SectionSize[s] <= Cursor(k[i])
    <3>1. Cursor(m[i]) \in Nat /\ Cursor(k[i]) \in Nat /\ SectionSize[s] \in Nat
      BY <2>2, <2>3, SlabFields, Sizes
    <3> QED
      BY <2>2, <2>3, <3>1
  <2>5. \A p \in DOMAIN g[i].headers :
          Closed(g[i].headers[p]) =>
            \/ p + g[i].headers[p].used < t[s].start
            \/ t[s].start + SectionSize[s] <= p
    BY <2>1, <2>3 DEF OpenInv, SameClosed, ClosedIn
  <2> QED
    BY <2>1, <2>3, <2>4, <2>5 DEF OpenInv, Offsets
<1> QED
  BY <1>1 DEF LogInv

(* add_section drops the stale slabs and forgets the marker, ...            *)
LEMMA SlabsCollected ==
  ASSUME NEW f, NEW m, NEW t, LogInv(f, m, front, t), front \in DOMAIN m
  PROVE  LET k == [Mapped(m) EXCEPT ![front] = clear_temporary_end_marker(@)] IN
         /\ LogInv(Trimmed(f, m), k, front, t)
         /\ front \in DOMAIN k /\ k[front].marker = {}
<1> DEFINE k == [Mapped(m) EXCEPT ![front] = clear_temporary_end_marker(@)]
           g == Trimmed(f, m)
           c == clear_temporary_end_marker(m[front])
<1>1. /\ front \in Nat /\ DOMAIN m \subseteq DOMAIN f \cap (0..front)
      /\ \A i \in DOMAIN m : SlabInv(m[i]) /\ FileInv(f[i], m[i])
  BY DEF LogInv
<1>2. /\ DOMAIN k = DOMAIN m \ Stale(m) /\ front \notin Stale(m)
      /\ k[front] = c /\ \A i \in DOMAIN k \ {front} : k[i] = m[i]
  BY DEF Mapped, Stale
<1>3. DOMAIN g = DOMAIN f /\ \A i \in DOMAIN k : g[i] = f[i]
  BY <1>1, <1>2 DEF Trimmed
<1>4. /\ SlabInv(c) /\ Cursor(c) = Cursor(m[front]) /\ c.marker = {}
      /\ c.in_flight = m[front].in_flight /\ c.synced = m[front].synced
  BY <1>1, Cleared
<1> HIDE DEF k, g, c
<1>5. ASSUME NEW i \in DOMAIN k
      PROVE  /\ SlabInv(k[i]) /\ FileInv(g[i], k[i])
             /\ Offsets(k[i]) = Offsets(m[i]) /\ Cursor(k[i]) = Cursor(m[i])
             /\ SameClosed(g[i], f[i])
  <2>1. CASE i = front
    <3>1. FileInv(f[i], c)
      BY <1>1, <1>4, <2>1 DEF FileInv
    <3> QED
      BY <1>2, <1>3, <1>4, <2>1, <3>1 DEF Offsets, SameClosed
  <2>2. CASE i # front
    BY <1>1, <1>2, <1>3, <2>2 DEF SameClosed
  <2> QED
    BY <2>1, <2>2
<1>6. ASSUME NEW i \in DOMAIN m, Offsets(m[i]) # {}
      PROVE  i \in DOMAIN k /\ Cursor(m[i]) <= Cursor(k[i])
  <2>1. i \notin Stale(m)
    BY <1>6 DEF Stale, Offsets, ToSet
  <2>2. i \in DOMAIN k /\ Cursor(m[i]) \in Nat
    BY <1>1, <1>2, <2>1, SlabFields
  <2> QED
    BY <1>5, <2>2
<1>7. DOMAIN k \subseteq DOMAIN g \cap (0..front)
  BY <1>1, <1>2, <1>3
<1>8. LogInv(g, k, front, t)
  BY <1>1, <1>5, <1>6, <1>7, LogKept
<1> QED
  BY <1>2, <1>4, <1>8 DEF k, g

(* ... takes another file when the front slab is full, ...                  *)
LEMMA SlabCreated ==
  ASSUME NEW f, NEW m, NEW n, NEW t, LogInv(f, m, n, t), n \in DOMAIN m,
         m[n].marker = {}
  PROVE  LogInv(With(f, n + 1, NewFile),
                With([m EXCEPT ![n] = NoRoom(@)], n + 1, NewSlab), n + 1, t)
<1> DEFINE k == With([m EXCEPT ![n] = NoRoom(@)], n + 1, NewSlab)
           g == With(f, n + 1, NewFile)
           c == NoRoom(m[n])
<1>1. /\ n \in Nat /\ DOMAIN m \subseteq DOMAIN f \cap (0..n)
      /\ \A i \in DOMAIN m : SlabInv(m[i]) /\ FileInv(f[i], m[i])
  BY DEF LogInv
<1>2. n + 1 \notin DOMAIN m /\ n + 1 \in Nat
  BY <1>1
<1>3. /\ DOMAIN k = DOMAIN m \cup {n + 1} /\ k[n + 1] = NewSlab /\ k[n] = c
      /\ \A i \in DOMAIN m \ {n} : k[i] = m[i]
  BY <1>2 DEF With
<1>4. /\ DOMAIN g = DOMAIN f \cup {n + 1} /\ g[n + 1] = NewFile
      /\ \A i \in DOMAIN m : g[i] = f[i]
  BY <1>1, <1>2 DEF With
<1>5. /\ SlabInv(c) /\ Cursor(m[n]) <= Cursor(c)
      /\ c.in_flight = m[n].in_flight /\ c.synced = m[n].synced
  BY <1>1, NoRoomKeeps
<1> HIDE DEF k, g, c
<1>6. ASSUME NEW i \in DOMAIN m
      PROVE  /\ SlabInv(k[i]) /\ FileInv(g[i], k[i])
             /\ Offsets(k[i]) = Offsets(m[i]) /\ Cursor(m[i]) <= Cursor(k[i])
             /\ SameClosed(g[i], f[i])
  <2>1. SameClosed(f[i], f[i]) /\ Cursor(m[i]) \in Nat
    BY <1>1, SlabFields DEF SameClosed
  <2>2. CASE i = n
    <3>1. Cursor(m[i]) <= Cursor(m[i]) /\ m[i].synced \ {Cursor(m[i])} \subseteq c.synced
      BY <1>5, <2>1, <2>2
    <3>2. DOMAIN f[i] = {"len", "headers", "data"}
      BY <1>1 DEF FileInv
    <3>3. FileInv(f[i], c)
      BY <1>1, <1>5, <2>1, <2>2, <3>1, <3>2, FileKept
    <3> QED
      BY <1>3, <1>4, <1>5, <2>1, <2>2, <3>3 DEF Offsets
  <2>3. CASE i # n
    BY <1>1, <1>3, <1>4, <2>1, <2>3
  <2> QED
    BY <2>2, <2>3
<1>7. SlabInv(k[n + 1]) /\ FileInv(g[n + 1], k[n + 1])
  <2>1. DOMAIN NewFile = {"len", "headers", "data"} /\ DOMAIN NewFile.headers = {}
    BY DEF NewFile
  <2> QED
    BY <1>3, <1>4, <2>1, NewSlabGood DEF FileInv
<1>8. DOMAIN k \subseteq DOMAIN g \cap (0..(n + 1))
  BY <1>1, <1>3, <1>4
<1>9. \A i \in DOMAIN k : SlabInv(k[i]) /\ FileInv(g[i], k[i])
  BY <1>3, <1>6, <1>7
<1>10. \A i \in DOMAIN m : Offsets(m[i]) # {} =>
         /\ i \in DOMAIN k /\ Offsets(m[i]) \subseteq Offsets(k[i])
         /\ Cursor(m[i]) <= Cursor(k[i]) /\ SameClosed(g[i], f[i])
  BY <1>3, <1>6
<1>11. LogInv(g, k, n + 1, t)
  BY <1>2, <1>8, <1>9, <1>10, LogKept
<1> QED
  BY <1>11 DEF g, k

(* ... and opens a section behind all others.                               *)
LEMMA SectionOpened ==
  ASSUME NEW f, NEW m, NEW n, NEW t, LogInv(f, m, n, t), n \in DOMAIN m,
         m[n].marker = {}, NEW s \in Stream, t[s].status # "open",
         SectionFits(m[n], SectionSize[s]), NEW g,
         DOMAIN g = DOMAIN f, \A i \in DOMAIN f \ {n} : g[i] = f[i],
         DOMAIN g[n] = {"len", "headers", "data"},
         g[n].headers = WriteHeader(f[n], SectionAt(m[n]),
                                    SectionHeader(s, 0, TRUE)).headers
  PROVE  LogInv(g, [m EXCEPT ![n] = WithSection(@, SectionSize[s])], n,
                [t EXCEPT ![s] = [status |-> "open", slab |-> n,
                                  start |-> SectionAt(m[n]), used |-> 0]])
<1> DEFINE size == SectionSize[s]
           at == SectionAt(m[n])
           c == WithSection(m[n], size)
           k == [m EXCEPT ![n] = c]
           new == [status |-> "open", slab |-> n, start |-> at, used |-> 0]
           r == [t EXCEPT ![s] = new]
           header == SectionHeader(s, 0, TRUE)
<1>1. /\ n \in Nat /\ DOMAIN m \subseteq DOMAIN f \cap (0..n)
      /\ \A i \in DOMAIN m : SlabInv(m[i]) /\ FileInv(f[i], m[i])
      /\ t \in [Stream -> LogStream]
      /\ \A u \in Stream : t[u].status = "open" => OpenInv(u, f, m, t)
  BY DEF LogInv
<1>2. size \in Nat /\ size >= 2
  BY Sizes
<1>3. /\ SlabInv(c) /\ at \in Nat /\ Cursor(m[n]) <= at /\ Cursor(c) = at + size
      /\ Offsets(c) = Offsets(m[n]) \cup {at} /\ c.synced = m[n].synced \ {at}
  BY <1>1, <1>2, SectionAdded
<1>4. /\ DOMAIN k = DOMAIN m /\ k[n] = c /\ \A i \in DOMAIN m \ {n} : k[i] = m[i]
  OBVIOUS
<1>5. /\ r \in [Stream -> LogStream] /\ r[s] = new
      /\ \A u \in Stream \ {s} : r[u] = t[u]
  <2>1. new \in LogStream
    BY <1>1, <1>3 DEF LogStream, Status
  <2> QED
    BY <1>1, <2>1
<1>6. new.status = "open" /\ new.slab = n /\ new.start = at /\ new.used = 0
  OBVIOUS
<1>7. ~Closed(header) /\ g[n].headers = WriteHeader(f[n], at, header).headers
  BY DEF Closed, SectionHeader
<1> HIDE DEF k, r, new, c, size, at, header
<1>8. SameClosed(g[n], f[n])
  <2>1. DOMAIN f[n] = {"len", "headers", "data"}
    BY <1>1 DEF FileInv
  <2> DEFINE w == WriteHeader(f[n], at, header)
  <2>2. /\ DOMAIN w.headers = DOMAIN f[n].headers \cup {at}
        /\ w.headers[at] = header
        /\ \A p \in DOMAIN f[n].headers \ {at} : w.headers[p] = f[n].headers[p]
    <3> DEFINE file == f[n]
    <3> HIDE DEF file, w
    <3>1. DOMAIN file = {"len", "headers", "data"} /\ w = WriteHeader(file, at, header)
      BY <2>1 DEF file, w
    <3>2. /\ DOMAIN w.headers = DOMAIN file.headers \cup {at}
          /\ w.headers[at] = header
          /\ \A p \in DOMAIN file.headers \ {at} : w.headers[p] = file.headers[p]
      BY <3>1, HeaderWritten
    <3> QED
      BY <3>2 DEF file
  <2>3. g[n].headers = w.headers
    BY <1>7
  <2> HIDE DEF w
  <2>4. /\ DOMAIN g[n].headers = DOMAIN f[n].headers \cup {at}
        /\ g[n].headers[at] = header
        /\ \A p \in DOMAIN f[n].headers \ {at} : g[n].headers[p] = f[n].headers[p]
    BY <2>2, <2>3
  <2> QED
    BY <1>7, <2>4 DEF SameClosed, ClosedIn
<1>9. \A i \in DOMAIN m : SameClosed(g[i], f[i])
  <2>1. \A i \in DOMAIN m \ {n} : g[i] = f[i]
    BY <1>1
  <2> QED
    BY <1>8, <2>1 DEF SameClosed
<1>10. Cursor(m[n]) \in Nat /\ Cursor(m[n]) <= Cursor(c) /\ at < Cursor(c)
  <2>1. Cursor(m[n]) \in Nat
    BY <1>1, SlabFields
  <2> QED
    BY <1>2, <1>3, <2>1
<1>11. \A i \in DOMAIN k : SlabInv(k[i]) /\ FileInv(g[i], k[i])
  <2>1. FileInv(g[n], c)
    <3>1. m[n].synced \ {at} \subseteq c.synced
      BY <1>3
    <3> QED
      BY <1>1, <1>3, <1>8, <1>10, <3>1, FileKept
  <2>2. \A i \in DOMAIN m \ {n} : SlabInv(k[i]) /\ FileInv(g[i], k[i])
    BY <1>1, <1>4
  <2> QED
    BY <1>3, <1>4, <2>1, <2>2
<1>12. \A i \in DOMAIN m : /\ Offsets(m[i]) \subseteq Offsets(k[i])
                           /\ Cursor(m[i]) <= Cursor(k[i])
  <2> TAKE i \in DOMAIN m
  <2>1. Cursor(m[i]) \in Nat
    BY <1>1, SlabFields
  <2> QED
    BY <1>3, <1>4, <1>10, <2>1
\* A section that was open lies before the new one.
<1>13. ASSUME NEW u \in Stream \ {s}, t[u].status = "open"
       PROVE  /\ OpenInv(u, f, m, t)
              /\ t[u].start \in Nat /\ t[u].slab \in DOMAIN m
              /\ t[u].start + SectionSize[u] <= Cursor(m[t[u].slab])
              /\ t[u].slab = n => t[u].start + SectionSize[u] <= at
  <2>1. OpenInv(u, f, m, t)
    BY <1>1, <1>13
  <2>2. /\ t[u].start \in Nat /\ t[u].slab \in DOMAIN m
        /\ t[u].start + SectionSize[u] <= Cursor(m[t[u].slab])
    BY <1>1, <1>13, <2>1 DEF OpenInv, LogStream
  <2>3. t[u].slab = n => t[u].start + SectionSize[u] <= at
    <3>1. SectionSize[u] \in Nat
      BY Sizes
    <3> QED
      BY <1>3, <1>10, <2>2, <3>1
  <2> QED
    BY <2>1, <2>2, <2>3
<1>14. ASSUME NEW u \in Stream \ {s}, r[u].status = "open"
       PROVE  OpenInv(u, g, k, r)
  <2>1. r[u] = t[u] /\ t[u].status = "open"
    BY <1>5, <1>14
  <2> DEFINE i == t[u].slab
  <2>2. i \in DOMAIN k /\ t[u].start \in Offsets(k[i])
    BY <1>4, <1>12, <1>13, <2>1 DEF OpenInv, Offsets
  <2>3. t[u].start + SectionSize[u] <= Cursor(k[i])
    <3>1. /\ Cursor(m[i]) \in Nat /\ Cursor(k[i]) \in Nat /\ SectionSize[u] \in Nat
          /\ Cursor(m[i]) <= Cursor(k[i])
      BY <1>1, <1>11, <1>12, <1>13, <2>1, <2>2, SlabFields, Sizes
    <3> QED
      BY <1>13, <2>1, <3>1
  <2>4. \A p \in DOMAIN g[i].headers :
          Closed(g[i].headers[p]) =>
            \/ p + g[i].headers[p].used < t[u].start
            \/ t[u].start + SectionSize[u] <= p
    BY <1>9, <1>13, <2>1 DEF OpenInv, SameClosed, ClosedIn
  <2>5. \A v \in Stream \ {u} :
          r[v].status = "open" /\ r[v].slab = i =>
            \/ r[v].start + SectionSize[v] <= t[u].start
            \/ t[u].start + SectionSize[u] <= r[v].start
    <3> TAKE v \in Stream \ {u}
    <3>1. CASE v = s
      BY <1>5, <1>6, <1>13, <2>1, <3>1
    <3>2. CASE v # s
      BY <1>5, <1>13, <2>1, <3>2 DEF OpenInv
    <3> QED
      BY <3>1, <3>2
  <2>6. t[u].used < SectionSize[u]
    BY <1>13, <2>1 DEF OpenInv
  <2> QED
    BY <2>1, <2>2, <2>3, <2>4, <2>5, <2>6 DEF OpenInv, Offsets
<1>15. OpenInv(s, g, k, r)
  <2>1. n \in DOMAIN k /\ at \in Offsets(k[n])
    BY <1>3, <1>4
  <2>2. 0 < size /\ at + size <= Cursor(k[n])
    BY <1>2, <1>3, <1>4
  <2>3. \A p \in DOMAIN g[n].headers :
          Closed(g[n].headers[p]) => p + g[n].headers[p].used < at
    <3> SUFFICES ASSUME NEW p \in DOMAIN g[n].headers, Closed(g[n].headers[p])
                 PROVE  p + g[n].headers[p].used < at
      OBVIOUS
    <3>1. /\ p \in DOMAIN f[n].headers /\ Closed(f[n].headers[p])
          /\ g[n].headers[p] = f[n].headers[p]
      BY <1>8 DEF SameClosed, ClosedIn
    <3>2. /\ p \in Nat /\ f[n].headers[p].used \in Nat
          /\ p + f[n].headers[p].used < Cursor(m[n])
      BY <1>1, <3>1 DEF FileInv
    <3>3. p + f[n].headers[p].used \in Nat
      BY <3>2
    <3>4. Cursor(m[n]) \in Nat /\ at \in Nat /\ Cursor(m[n]) <= at
      BY <1>3, <1>10
    <3>5. p + f[n].headers[p].used < at
      BY <3>2, <3>3, <3>4
    <3> QED
      BY <3>1, <3>5
  <2>4. \A v \in Stream \ {s} :
          r[v].status = "open" /\ r[v].slab = n =>
            r[v].start + SectionSize[v] <= at
    BY <1>5, <1>13
  <2> QED
    BY <1>5, <1>6, <2>1, <2>2, <2>3, <2>4 DEF OpenInv, Offsets, size
<1>16. DOMAIN k \subseteq DOMAIN g \cap (0..n)
  BY <1>1, <1>4
<1>17. LogInv(g, k, n, r)
  BY <1>1, <1>5, <1>11, <1>14, <1>15, <1>16 DEF LogInv
<1> QED
  BY <1>17 DEF k, r, new, c, size, at

(* The whole of add_section but the marker.                                 *)
LEMMA SectionTaken ==
  ASSUME NEW f, NEW m, NEW t, LogInv(f, m, front, t), front \in DOMAIN m,
         NEW s \in Stream, t[s].status # "open",
         \A u \in Stream \ {s} : streams[u] = t[u],
         streams \in [Stream -> LogStream],
         AddSection(s, f, m)
  PROVE  /\ LogInv(files', slabs', front', streams') /\ front' \in DOMAIN slabs'
         /\ streams'[s].status = "open" /\ streams'[s].used = 0
<1> DEFINE kept == [Mapped(m) EXCEPT ![front] = clear_temporary_end_marker(@)]
           size == SectionSize[s]
           fits == SectionFits(kept[front], size)
           to == IF fits THEN front ELSE front + 1
           room == IF fits THEN kept
                   ELSE With([kept EXCEPT ![front] = NoRoom(@)], to, NewSlab)
           cut == IF fits THEN Trimmed(f, m) ELSE With(Trimmed(f, m), to, NewFile)
           at == SectionAt(room[to])
           new == [status |-> "open", slab |-> to, start |-> at, used |-> 0]
           header == SectionHeader(s, 0, TRUE)
<1>1. /\ SectionFits(room[to], size) /\ front' = to
      /\ slabs' = [room EXCEPT ![to] = WithSection(@, size)]
      /\ files' = [cut EXCEPT ![to] = OpenedIn(@, at, s)]
      /\ streams' = [streams EXCEPT ![s] = new]
  BY DEF AddSection
<1>2. /\ LogInv(Trimmed(f, m), kept, front, t)
      /\ front \in DOMAIN kept /\ kept[front].marker = {}
  BY SlabsCollected
<1>3. /\ LogInv(cut, room, to, t) /\ to \in DOMAIN room /\ room[to].marker = {}
  <2>1. CASE fits
    BY <1>2, <2>1
  <2>2. CASE ~fits
    <3>1. LogInv(With(Trimmed(f, m), front + 1, NewFile),
                 With([kept EXCEPT ![front] = NoRoom(@)], front + 1, NewSlab),
                 front + 1, t)
      <4> HIDE DEF kept
      <4> QED
        BY <1>2, SlabCreated
    <3>2. /\ to = front + 1 /\ to \in DOMAIN room /\ room[to] = NewSlab
      BY <2>2 DEF With
    <3> QED
      BY <2>2, <3>1, <3>2, NewSlabGood
  <2> QED
    BY <2>1, <2>2
<1> HIDE DEF room, cut, to, fits, kept
<1>4. to \in DOMAIN cut /\ DOMAIN cut[to] = {"len", "headers", "data"}
  BY <1>3 DEF LogInv, FileInv
<1> DEFINE w == WriteHeader(cut[to], at, header)
           o == OpenedIn(cut[to], at, s)
           g == [cut EXCEPT ![to] = o]
<1>5. DOMAIN o = {"len", "headers", "data"} /\ o.headers = w.headers
  <2>1. DOMAIN w = {"len", "headers", "data"}
    <3> HIDE DEF at, header
    <3> QED
      BY <1>4, HeaderWritten
  <2>2. o = [w EXCEPT !.data = With(w.data, at, <<>>)]
    BY DEF OpenedIn
  <2> HIDE DEF w, o, at
  <2> QED
    BY <2>1, <2>2
<1> HIDE DEF o, header
<1>6. /\ files' = g /\ DOMAIN g = DOMAIN cut
      /\ \A i \in DOMAIN cut \ {to} : g[i] = cut[i]
      /\ DOMAIN g[to] = {"len", "headers", "data"}
      /\ g[to].headers = w.headers
  <2>1. files' = g
    BY <1>1 DEF o
  <2> HIDE DEF w
  <2> QED
    BY <1>4, <1>5, <2>1
<1>7. streams' = [t EXCEPT ![s] = new]
  <2> HIDE DEF new
  <2>1. t \in [Stream -> LogStream]
    BY DEF LogInv
  <2> QED
    BY <1>1, <2>1
<1>8. LogInv(g, [room EXCEPT ![to] = WithSection(@, size)], to,
             [t EXCEPT ![s] = new])
  <2> HIDE DEF g
  <2> QED
    BY <1>1, <1>3, <1>6, SectionOpened DEF header
<1>9. LogInv(files', slabs', front', streams')
  BY <1>1, <1>6, <1>7, <1>8
<1>10. to \in DOMAIN slabs'
  BY <1>1, <1>3
<1>11. streams'[s] = new
  <2> HIDE DEF new
  <2> QED
    BY <1>1
<1> QED
  BY <1>1, <1>9, <1>10, <1>11

(* flush_section: the section of stream s is closed, and others stay as     *)
(* they are.                                                                *)
LEMMA SectionClosed ==
  ASSUME LogInv(files, slabs, front, streams), NEW s \in Stream,
         streams[s].status = "open"
  PROVE  /\ LogInv(HeaderClosed(files, s), SectionsFlushed(slabs, s), front,
                   [streams EXCEPT ![s].status = "closed"])
         /\ DOMAIN SectionsFlushed(slabs, s) = DOMAIN slabs
<1> DEFINE t == streams[s]
           n == t.slab
           size == SectionSize[s]
           len == align_to_next_page(size)
           x == slabs[n]
           d == Dirty(x, t.start)
           y == FlushClosed(d, t.start, len)
           header == SectionHeader(s, t.used, FALSE)
           w == WriteHeader(files[n], t.start, header)
           k == [slabs EXCEPT ![n] = y]
           g == [files EXCEPT ![n] = w]
           r == [streams EXCEPT ![s].status = "closed"]
<1>1. /\ front \in Nat /\ DOMAIN slabs \subseteq DOMAIN files \cap (0..front)
      /\ streams \in [Stream -> LogStream]
      /\ \A i \in DOMAIN slabs : SlabInv(slabs[i]) /\ FileInv(files[i], slabs[i])
      /\ \A u \in Stream : streams[u].status = "open"
           => OpenInv(u, files, slabs, streams)
  BY DEF LogInv
<1>2. /\ t \in LogStream /\ n \in Nat /\ t.start \in Nat /\ t.used \in Nat
  BY <1>1 DEF LogStream
<1>3. /\ n \in DOMAIN slabs /\ n \in DOMAIN files
      /\ t.start \in Offsets(x) /\ t.used < size /\ t.start + size <= Cursor(x)
      /\ \A p \in DOMAIN files[n].headers :
           Closed(files[n].headers[p]) =>
             \/ p + files[n].headers[p].used < t.start
             \/ t.start + size <= p
  BY <1>1 DEF OpenInv, Offsets
<1>4. /\ SlabInv(x) /\ FileInv(files[n], x) /\ Cursor(x) \in Nat
      /\ size \in Nat /\ len \in Nat /\ size <= len
  BY <1>1, <1>3, SlabFields, Sizes, Align
<1>5. /\ SlabInv(d) /\ Cursor(d) = Cursor(x) /\ Offsets(d) = Offsets(x)
      /\ d.synced = x.synced \ {t.start}
  BY <1>4, DirtyKeeps DEF Offsets
<1>6. /\ SlabInv(y) /\ Cursor(y) = Cursor(x) /\ Offsets(y) = Offsets(x) \ {t.start}
      /\ d.synced \subseteq y.synced
      /\ \A j \in Nat : j < len /\ t.start + j < Cursor(x)
           => t.start..(t.start + j) \subseteq y.synced
  BY <1>3, <1>4, <1>5, SectionFlushed
<1>7. /\ t.start + t.used < Cursor(x) /\ t.used < len
  BY <1>2, <1>3, <1>4
<1>8. t.start..(t.start + t.used) \subseteq y.synced
  BY <1>2, <1>6, <1>7
<1>9. header.used = t.used /\ SectionsFlushed(slabs, s) = k
      /\ HeaderClosed(files, s) = g
  BY HeaderKinds DEF SectionsFlushed, HeaderClosed
<1> HIDE DEF header
<1>10. /\ DOMAIN w = {"len", "headers", "data"}
       /\ DOMAIN w.headers = DOMAIN files[n].headers \cup {t.start}
       /\ w.headers[t.start] = header
       /\ \A p \in DOMAIN files[n].headers \ {t.start} :
            w.headers[p] = files[n].headers[p]
  <2> DEFINE file == files[n]
             at == t.start
  <2>1. DOMAIN file = {"len", "headers", "data"}
    BY <1>4 DEF FileInv
  <2>2. w = WriteHeader(file, at, header)
    OBVIOUS
  <2> HIDE DEF w, file, at
  <2>3. /\ DOMAIN w = {"len", "headers", "data"}
        /\ DOMAIN w.headers = DOMAIN file.headers \cup {at}
        /\ w.headers[at] = header
        /\ \A p \in DOMAIN file.headers \ {at} : w.headers[p] = file.headers[p]
    BY <2>1, <2>2, HeaderWritten
  <2> QED
    BY <2>3 DEF file, at
<1> HIDE DEF w, d, y
<1>11. /\ DOMAIN k = DOMAIN slabs /\ k[n] = y
       /\ \A i \in DOMAIN slabs \ {n} : k[i] = slabs[i]
       /\ DOMAIN g = DOMAIN files /\ g[n] = w
       /\ \A i \in DOMAIN files \ {n} : g[i] = files[i]
  BY <1>3
<1>12. /\ r \in [Stream -> LogStream] /\ r[s].status = "closed"
       /\ \A u \in Stream \ {s} : r[u] = streams[u]
  <2>1. r[s] = [t EXCEPT !.status = "closed"]
    BY <1>1
  <2>2. [t EXCEPT !.status = "closed"] \in LogStream
    BY <1>2 DEF LogStream, Status
  <2>3. [t EXCEPT !.status = "closed"].status = "closed"
    BY <1>2 DEF LogStream
  <2> QED
    BY <1>1, <2>1, <2>2, <2>3
<1> HIDE DEF k, g, r
<1>13. FileInv(w, y)
  <2> SUFFICES ASSUME NEW p \in DOMAIN w.headers, Closed(w.headers[p])
               PROVE  /\ p \in Nat /\ w.headers[p].used \in Nat
                      /\ p + w.headers[p].used < Cursor(y)
                      /\ p..(p + w.headers[p].used) \subseteq y.synced
    BY <1>10 DEF FileInv
  <2>1. CASE p = t.start
    BY <1>2, <1>6, <1>7, <1>8, <1>9, <1>10, <2>1
  <2>2. CASE p # t.start
    <3>1. /\ p \in DOMAIN files[n].headers /\ w.headers[p] = files[n].headers[p]
          /\ Closed(files[n].headers[p])
      BY <1>10, <2>2
    <3> DEFINE used == files[n].headers[p].used
    <3>2. /\ p \in Nat /\ used \in Nat /\ p + used < Cursor(x)
          /\ p..(p + used) \subseteq x.synced
      BY <1>4, <3>1 DEF FileInv
    <3>3. p + used < t.start \/ t.start + size <= p
      BY <1>3, <3>1
    <3> HIDE DEF used
    <3>4. t.start \notin p..(p + used)
      BY <1>2, <1>3, <1>4, <3>2, <3>3
    <3>5. p..(p + used) \subseteq y.synced
      BY <1>5, <1>6, <3>2, <3>4
    <3> QED
      BY <1>6, <3>1, <3>2, <3>5 DEF used
  <2> QED
    BY <2>1, <2>2
<1>14. \A i \in DOMAIN k : SlabInv(k[i]) /\ FileInv(g[i], k[i])
  BY <1>1, <1>6, <1>11, <1>13
<1>15. ASSUME NEW u \in Stream \ {s}, r[u].status = "open"
       PROVE  OpenInv(u, g, k, r)
  <2> DEFINE v == streams[u]
             i == v.slab
             end == v.start + SectionSize[u]
  <2>1. /\ r[u] = v /\ v.status = "open" /\ OpenInv(u, files, slabs, streams)
        /\ v.start \in Nat /\ SectionSize[u] \in Nat /\ SectionSize[u] >= 2
    BY <1>1, <1>12, <1>15, Sizes DEF LogStream
  <2>2. /\ i \in DOMAIN slabs /\ v.start \in Offsets(slabs[i])
        /\ v.used < SectionSize[u] /\ end <= Cursor(slabs[i])
        /\ \A p \in DOMAIN files[i].headers :
             Closed(files[i].headers[p]) =>
               p + files[i].headers[p].used < v.start \/ end <= p
        /\ \A z \in Stream \ {u} :
             streams[z].status = "open" /\ streams[z].slab = i =>
               \/ streams[z].start + SectionSize[z] <= v.start
               \/ end <= streams[z].start
    BY <2>1 DEF OpenInv, Offsets
  <2>3. i = n => t.start + size <= v.start \/ end <= t.start
    BY <2>2
  <2>4. \A z \in Stream \ {u} :
          r[z].status = "open" /\ r[z].slab = i =>
            \/ r[z].start + SectionSize[z] <= v.start
            \/ end <= r[z].start
    BY <1>12, <2>2
  <2>5. CASE i # n
    <3>1. k[i] = slabs[i] /\ g[i] = files[i] /\ i \in DOMAIN k
      BY <1>1, <1>11, <2>2, <2>5
    <3> QED
      BY <2>1, <2>2, <2>4, <3>1 DEF OpenInv, Offsets
  <2>6. CASE i = n
    <3>1. v.start # t.start
      BY <1>2, <1>4, <2>1, <2>3, <2>6, Sizes
    <3>2. k[i] = y /\ g[i] = w /\ i \in DOMAIN k
      BY <1>3, <1>11, <2>6
    <3>3. v.start \in Offsets(k[i]) /\ end <= Cursor(k[i])
      BY <1>6, <2>2, <2>6, <3>1, <3>2
    <3>4. ASSUME NEW p \in DOMAIN w.headers, Closed(w.headers[p])
          PROVE  p + w.headers[p].used < v.start \/ end <= p
      <4>1. CASE p = t.start
        <5>1. w.headers[p].used = t.used
          BY <1>9, <1>10, <4>1
        <5>2. t.start + t.used < v.start \/ end <= t.start
          BY <1>2, <1>3, <1>4, <2>1, <2>3, <2>6
        <5> QED
          BY <4>1, <5>1, <5>2
      <4>2. CASE p # t.start
        BY <1>10, <2>2, <2>6, <3>4, <4>2
      <4> QED
        BY <4>1, <4>2
    <3> HIDE DEF end, v
    <3>5. r[u].slab = i /\ r[u].start = v.start /\ r[u].used < SectionSize[u]
      BY <2>1, <2>2
    <3> QED
      BY <2>4, <3>2, <3>3, <3>4, <3>5 DEF OpenInv, Offsets, end
  <2> QED
    BY <2>5, <2>6
<1>16. \A u \in Stream : r[u].status = "open" => OpenInv(u, g, k, r)
  BY <1>12, <1>15
<1>17. DOMAIN k \subseteq DOMAIN g \cap (0..front)
  BY <1>1, <1>11
<1>18. LogInv(g, k, front, r)
  BY <1>1, <1>12, <1>14, <1>16, <1>17 DEF LogInv
<1> QED
  BY <1>9, <1>11, <1>18 DEF r

(* An entry goes where neither a closed section nor another stream is.      *)
LEMMA EntryPut ==
  ASSUME NEW f, NEW m, NEW n, LogInv(f, m, n, streams), NEW s \in Stream,
         streams[s].status = "open", streams[s].used + 1 < SectionSize[s],
         Put(s, streams[s], f, m)
  PROVE  /\ LogInv(files', slabs', n, streams') /\ DOMAIN slabs' = DOMAIN m
         /\ streams'[s].status = "open"
<1> DEFINE t == streams[s]
           i == t.slab
           size == SectionSize[s]
           unit == t.start + Unit + t.used
           y == Dirty(m[i], unit)
           entries == Append(f[i].data[t.start], <<run, logged[s] + 1>>)
           w == [f[i] EXCEPT !.data[t.start] = entries]
           new == [t EXCEPT !.used = t.used + 1]
<1>1. /\ n \in Nat /\ DOMAIN m \subseteq DOMAIN f \cap (0..n)
      /\ streams \in [Stream -> LogStream]
      /\ \A j \in DOMAIN m : SlabInv(m[j]) /\ FileInv(f[j], m[j])
      /\ \A u \in Stream : streams[u].status = "open" => OpenInv(u, f, m, streams)
  BY DEF LogInv
<1>2. /\ t \in LogStream /\ t.start \in Nat /\ t.used \in Nat
      /\ size \in Nat /\ t.used + 1 < size
  BY <1>1, Sizes DEF LogStream
<1>3. /\ i \in DOMAIN m /\ i \in DOMAIN f
      /\ \A p \in DOMAIN f[i].headers :
           Closed(f[i].headers[p]) =>
             \/ p + f[i].headers[p].used < t.start
             \/ t.start + size <= p
  BY <1>1 DEF OpenInv
<1>4. SlabInv(m[i]) /\ FileInv(f[i], m[i])
  BY <1>1, <1>3
<1>5. /\ SlabInv(y) /\ Cursor(y) = Cursor(m[i]) /\ Offsets(y) = Offsets(m[i])
      /\ y.synced = m[i].synced \ {unit}
  BY <1>4, DirtyKeeps DEF Offsets
<1>6. /\ slabs' = [m EXCEPT ![i] = y] /\ streams' = [streams EXCEPT ![s] = new]
  BY DEF Put
<1>7. files' = [f EXCEPT ![i] = w]
  BY DEF Put
<1>8. DOMAIN w = {"len", "headers", "data"} /\ w.headers = f[i].headers
  BY <1>4 DEF FileInv
<1>9. new \in LogStream /\ new.status = "open" /\ new.slab = i
      /\ new.start = t.start /\ new.used = t.used + 1
  BY <1>2 DEF LogStream
<1> HIDE DEF w, y, new
<1>10. /\ DOMAIN slabs' = DOMAIN m /\ slabs'[i] = y
       /\ \A j \in DOMAIN m \ {i} : slabs'[j] = m[j]
       /\ DOMAIN files' = DOMAIN f /\ files'[i] = w
       /\ \A j \in DOMAIN f \ {i} : files'[j] = f[j]
       /\ streams' \in [Stream -> LogStream] /\ streams'[s] = new
       /\ \A u \in Stream \ {s} : streams'[u] = streams[u]
  BY <1>1, <1>3, <1>6, <1>7, <1>9
<1>11. FileInv(w, y)
  <2> SUFFICES ASSUME NEW p \in DOMAIN w.headers, Closed(w.headers[p])
               PROVE  /\ p \in Nat /\ w.headers[p].used \in Nat
                      /\ p + w.headers[p].used < Cursor(y)
                      /\ p..(p + w.headers[p].used) \subseteq y.synced
    BY <1>8 DEF FileInv
  <2> DEFINE used == f[i].headers[p].used
  <2>1. /\ p \in Nat /\ used \in Nat /\ p + used < Cursor(m[i])
        /\ p..(p + used) \subseteq m[i].synced /\ w.headers[p].used = used
        /\ p + used < t.start \/ t.start + size <= p
    BY <1>3, <1>4, <1>8 DEF FileInv
  <2> HIDE DEF used
  <2>2. unit \notin p..(p + used)
    BY <1>2, <2>1 DEF Unit
  <2> QED
    BY <1>5, <2>1, <2>2
<1> HIDE DEF unit
<1>12. \A j \in DOMAIN slabs' : SlabInv(slabs'[j]) /\ FileInv(files'[j], slabs'[j])
  BY <1>1, <1>5, <1>10, <1>11
<1>13. \A j \in DOMAIN m : /\ Cursor(slabs'[j]) = Cursor(m[j])
                           /\ Offsets(slabs'[j]) = Offsets(m[j])
                           /\ files'[j].headers = f[j].headers
  BY <1>1, <1>5, <1>8, <1>10
<1>14. \A u \in Stream : /\ streams'[u].status = streams[u].status
                         /\ streams'[u].slab = streams[u].slab
                         /\ streams'[u].start = streams[u].start
  <2> TAKE u \in Stream
  <2>1. CASE u = s
    BY <1>9, <1>10, <2>1
  <2>2. CASE u # s
    BY <1>10, <2>2
  <2> QED
    BY <2>1, <2>2
<1>15. ASSUME NEW u \in Stream, streams'[u].status = "open"
       PROVE  OpenInv(u, files', slabs', streams')
  <2> DEFINE v == streams[u]
             j == v.slab
  <2>1. v.status = "open" /\ OpenInv(u, f, m, streams)
    BY <1>1, <1>14, <1>15
  <2>2. streams'[u].used < SectionSize[u]
    <3>1. CASE u = s
      BY <1>2, <1>9, <1>10, <3>1
    <3>2. CASE u # s
      BY <1>10, <2>1, <3>2 DEF OpenInv
    <3> QED
      BY <3>1, <3>2
  <2>3. /\ j \in DOMAIN m /\ v.start \in Offsets(m[j])
        /\ v.start + SectionSize[u] <= Cursor(m[j])
    BY <2>1 DEF OpenInv, Offsets
  <2>4. \A p \in DOMAIN f[j].headers :
          Closed(f[j].headers[p]) =>
            \/ p + f[j].headers[p].used < v.start
            \/ v.start + SectionSize[u] <= p
    BY <2>1 DEF OpenInv
  <2>5. \A z \in Stream \ {u} :
          streams[z].status = "open" /\ streams[z].slab = j =>
            \/ streams[z].start + SectionSize[z] <= v.start
            \/ v.start + SectionSize[u] <= streams[z].start
    BY <2>1 DEF OpenInv
  <2>6. \A z \in Stream \ {u} :
          streams'[z].status = "open" /\ streams'[z].slab = j =>
            \/ streams'[z].start + SectionSize[z] <= v.start
            \/ v.start + SectionSize[u] <= streams'[z].start
    BY <1>14, <2>5
  <2>7. streams'[u].slab = j /\ streams'[u].start = v.start
    BY <1>14
  <2>8. /\ j \in DOMAIN slabs' /\ v.start \in Offsets(slabs'[j])
        /\ v.start + SectionSize[u] <= Cursor(slabs'[j])
        /\ files'[j].headers = f[j].headers
    BY <1>10, <1>13, <2>3
  <2> HIDE DEF j, v
  <2> QED
    BY <2>2, <2>4, <2>6, <2>7, <2>8 DEF OpenInv, Offsets
<1>16. DOMAIN slabs' \subseteq DOMAIN files' \cap (0..n)
  BY <1>1, <1>10
<1>17. LogInv(files', slabs', n, streams')
  BY <1>1, <1>10, <1>12, <1>15, <1>16 DEF LogInv
<1> QED
  BY <1>9, <1>10, <1>17

(* The marker goes behind the cursor, or into a file of its own.            *)
LEMMA MarkerWritten ==
  ASSUME NEW f, NEW m, NEW t, LogInv(f, m, front, t), front \in DOMAIN m
  PROVE  LET p == Marker(f, m, TRUE) IN
         LogInv(p.files, p.slabs, p.front, t) /\ p.front \in DOMAIN p.slabs
<1> DEFINE p == Marker(f, m, TRUE)
           header == MarkerHeader(TRUE)
<1>1. /\ front \in Nat /\ DOMAIN m \subseteq DOMAIN f \cap (0..front)
      /\ \A i \in DOMAIN m : SlabInv(m[i]) /\ FileInv(f[i], m[i])
  BY DEF LogInv
<1>2. ~Closed(header)
  BY HeaderKinds
<1>3. CASE MarkerFits(m[front])
  <2> DEFINE x == m[front]
             at == MarkerAt(x)
             y == Marked(x)
             w == WriteHeader(f[front], at, header)
             k == [m EXCEPT ![front] = y]
             g == [f EXCEPT ![front] = w]
  <2>1. p.front = front /\ p.slabs = k /\ p.files = g
    BY <1>3 DEF Marker
  <2>2. /\ SlabInv(x) /\ FileInv(f[front], x)
    BY <1>1
  <2>3. /\ SlabInv(y) /\ at \in Nat /\ Cursor(x) <= at /\ Cursor(y) = at
        /\ y.in_flight = x.in_flight /\ y.synced = x.synced \ {at}
    BY <1>3, <2>2, MarkerPlaced
  <2> HIDE DEF header
  <2>4. /\ DOMAIN w = {"len", "headers", "data"}
        /\ DOMAIN w.headers = DOMAIN f[front].headers \cup {at}
        /\ w.headers[at] = header
        /\ \A q \in DOMAIN f[front].headers \ {at} :
             w.headers[q] = f[front].headers[q]
    <3> DEFINE file == f[front]
    <3>1. DOMAIN file = {"len", "headers", "data"}
      BY <2>2 DEF FileInv
    <3>2. w = WriteHeader(file, at, header)
      OBVIOUS
    <3> HIDE DEF w, file, at
    <3>3. /\ DOMAIN w = {"len", "headers", "data"}
          /\ DOMAIN w.headers = DOMAIN file.headers \cup {at}
          /\ w.headers[at] = header
          /\ \A q \in DOMAIN file.headers \ {at} : w.headers[q] = file.headers[q]
      BY <3>1, <3>2, HeaderWritten
    <3> QED
      BY <3>3 DEF file
  <2>5. SameClosed(w, f[front])
    BY <1>2, <2>4 DEF SameClosed, ClosedIn
  <2> HIDE DEF w, y, at
  <2>6. FileInv(w, y)
    <3>1. x.synced \ {at} \subseteq y.synced /\ Cursor(x) <= Cursor(y)
      BY <2>3
    <3> QED
      BY <2>2, <2>3, <2>4, <2>5, <3>1, FileKept
  <2>7. /\ DOMAIN k = DOMAIN m /\ k[front] = y
        /\ \A i \in DOMAIN m \ {front} : k[i] = m[i]
        /\ DOMAIN g = DOMAIN f /\ g[front] = w
        /\ \A i \in DOMAIN f \ {front} : g[i] = f[i]
    BY <1>1
  <2> HIDE DEF k, g
  <2>8. \A i \in DOMAIN k : SlabInv(k[i]) /\ FileInv(g[i], k[i])
    BY <1>1, <2>3, <2>6, <2>7
  <2>9. ASSUME NEW i \in DOMAIN m
        PROVE  /\ Offsets(m[i]) = Offsets(k[i]) /\ Cursor(m[i]) <= Cursor(k[i])
               /\ SameClosed(g[i], f[i])
    <3>1. CASE i = front
      BY <2>3, <2>5, <2>7, <3>1 DEF Offsets
    <3>2. CASE i # front
      <4>1. k[i] = m[i] /\ g[i] = f[i]
        BY <1>1, <2>7, <3>2
      <4>2. Cursor(m[i]) \in Nat
        BY <1>1, SlabFields
      <4> QED
        BY <4>1, <4>2 DEF SameClosed
    <3> QED
      BY <3>1, <3>2
  <2>10. DOMAIN k \subseteq DOMAIN g \cap (0..front)
    BY <1>1, <2>7
  <2>11. \A i \in DOMAIN m : Offsets(m[i]) # {} =>
           /\ i \in DOMAIN k /\ Offsets(m[i]) \subseteq Offsets(k[i])
           /\ Cursor(m[i]) <= Cursor(k[i]) /\ SameClosed(g[i], f[i])
    BY <2>7, <2>9
  <2>12. LogInv(g, k, front, t)
    BY <1>1, <2>8, <2>10, <2>11, LogKept
  <2> HIDE DEF p
  <2> QED
    BY <2>1, <2>7, <2>12 DEF p
<1>4. CASE ~MarkerFits(m[front])
  <2> DEFINE n == front + 1
             y == Marked(NewSlab)
             w == WriteHeader(NewFile, 0, header)
             k == With(m, n, y)
             g == With(f, n, w)
  <2>1. p.front = n /\ p.slabs = k /\ p.files = g
    BY <1>4 DEF Marker
  <2>2. n \notin DOMAIN m /\ n \in Nat
    BY <1>1
  <2>3. SlabInv(y)
    BY NewSlabGood, MarkerPlaced
  <2> HIDE DEF header
  <2>4. /\ DOMAIN w = {"len", "headers", "data"} /\ DOMAIN w.headers = {0}
        /\ w.headers[0] = header
    <3> DEFINE file == NewFile
    <3>1. DOMAIN file = {"len", "headers", "data"} /\ DOMAIN file.headers = {}
      BY DEF NewFile
    <3> HIDE DEF file, w
    <3>2. w = WriteHeader(file, 0, header)
      BY DEF w, file
    <3>3. /\ DOMAIN w = {"len", "headers", "data"}
          /\ DOMAIN w.headers = DOMAIN file.headers \cup {0}
          /\ w.headers[0] = header
      BY <3>1, <3>2, HeaderWritten
    <3> QED
      BY <3>1, <3>3
  <2>5. FileInv(w, y)
    BY <1>2, <2>4 DEF FileInv
  <2> HIDE DEF w, y
  <2>6. /\ DOMAIN k = DOMAIN m \cup {n} /\ k[n] = y
        /\ \A i \in DOMAIN m : k[i] = m[i]
        /\ DOMAIN g = DOMAIN f \cup {n} /\ g[n] = w
        /\ \A i \in DOMAIN m : g[i] = f[i]
    BY <1>1, <2>2 DEF With
  <2> HIDE DEF k, g
  <2>7. \A i \in DOMAIN k : SlabInv(k[i]) /\ FileInv(g[i], k[i])
    BY <1>1, <2>3, <2>5, <2>6
  <2>8. \A i \in DOMAIN m :
          /\ i \in DOMAIN k /\ Offsets(m[i]) \subseteq Offsets(k[i])
          /\ Cursor(m[i]) <= Cursor(k[i]) /\ SameClosed(g[i], f[i])
    <3> TAKE i \in DOMAIN m
    <3>1. Cursor(m[i]) \in Nat
      BY <1>1, SlabFields
    <3> QED
      BY <2>6, <3>1 DEF SameClosed
  <2>9. DOMAIN k \subseteq DOMAIN g \cap (0..n)
    BY <1>1, <2>6
  <2>10. LogInv(g, k, n, t)
    BY <2>2, <2>7, <2>8, <2>9, LogKept
  <2> HIDE DEF p
  <2> QED
    BY <2>1, <2>6, <2>10 DEF p
<1> QED
  BY <1>3, <1>4

(* A run begins with the first file made anew, whatever files there are.    *)
LEMMA RunBegins ==
  ASSUME NEW f
  PROVE  LET m == With(<<>>, 0, [NewSlab EXCEPT !.pos = Page]) IN
         /\ LogInv(With(f, 0, NewFile), m, 0, [s \in Stream |-> NoStream])
         /\ 0 \in DOMAIN m
<1> DEFINE x == [NewSlab EXCEPT !.pos = Page]
           m == With(<<>>, 0, x)
           g == With(f, 0, NewFile)
           t == [s \in Stream |-> NoStream]
<1>1. Page \in Nat /\ Page <= SlabSize
  BY Sizes, PageFits
<1>2. /\ x \in Slab /\ x.pos = Page /\ x.in_flight = <<>>
      /\ x.flushed_until = 0 /\ x.marker = {}
  BY <1>1, EmptySeq DEF NewSlab, Slab
<1> HIDE DEF x
<1>3. SlabInv(x)
  <2>1. 1..Len(<<>>) = {} /\ {} \subseteq {Page - Unit} /\ 0 <= Page
    BY <1>1
  <2> QED
    BY <1>1, <1>2, <2>1 DEF SlabInv
<1>4. DOMAIN NewFile = {"len", "headers", "data"} /\ DOMAIN NewFile.headers = {}
  BY DEF NewFile
<1>5. DOMAIN m = {0} /\ m[0] = x /\ 0 \in DOMAIN g /\ g[0] = NewFile
  BY DEF With
<1>6. t \in [Stream -> LogStream] /\ \A s \in Stream : t[s].status # "open"
  BY DEF NoStream, LogStream, Status
<1> HIDE DEF m, g, t
<1>7. FileInv(g[0], m[0])
  BY <1>4, <1>5 DEF FileInv
<1>8. DOMAIN m \subseteq DOMAIN g \cap (0..0)
  BY <1>5
<1>9. LogInv(g, m, 0, t)
  BY <1>3, <1>5, <1>6, <1>7, <1>8 DEF LogInv
<1> QED
  BY <1>5, <1>9 DEF m, g, t, x

----------------------------------------------------------------------------
(* The inductive invariant. *)

LEMMA InitInv == Init => Inv
<1> SUFFICES ASSUME Init PROVE Inv
  OBVIOUS
<1>1. /\ files = With(<<>>, 0, NewFile) /\ front = 0 /\ lock = Free /\ ~closed
      /\ slabs = With(<<>>, 0, [NewSlab EXCEPT !.pos = Page])
      /\ streams = [s \in Stream |-> NoStream]
  BY DEF Init
<1>2. LogInv(files, slabs, front, streams) /\ front \in DOMAIN slabs
  BY <1>1, RunBegins
<1> QED
  BY <1>1, <1>2 DEF Inv, LockInv

\* With an open stream the logger is there.
LEMMA OpenMeansRunning ==
  ASSUME Inv, NEW s \in Stream, streams[s].status = "open"
  PROVE  ~closed
<1>1. streams[s].slab \in DOMAIN slabs
  BY DEF Inv, LogInv, OpenInv
<1> QED
  BY <1>1 DEF Inv

LEMMA OpenKeeps ==
  ASSUME Inv, NEW s \in Stream, Open(s)
  PROVE  Inv'
<1>1. /\ LogInv(files, slabs, front, streams) /\ front \in DOMAIN slabs
      /\ streams \in [Stream -> LogStream] /\ streams[s].status # "open"
      /\ AddSection(s, files, slabs) /\ ~closed /\ closed' = closed
      /\ lock' = [holder |-> s, entry |-> "none"]
  BY DEF Inv, LogInv, Open
<1>2. LogInv(files', slabs', front', streams') /\ front' \in DOMAIN slabs'
  <2> DEFINE f == files
             m == slabs
             t == streams
  <2>1. /\ LogInv(f, m, front, t) /\ front \in DOMAIN m /\ t[s].status # "open"
        /\ \A u \in Stream \ {s} : streams[u] = t[u]
        /\ AddSection(s, f, m)
    BY <1>1
  <2> HIDE DEF f, m, t
  <2> QED
    BY <1>1, <2>1, SectionTaken
<1>3. lock'.holder = s /\ lock'.entry = "none"
  BY <1>1
<1> QED
  BY <1>1, <1>2, <1>3 DEF Inv, LockInv

LEMMA LogEntryKeeps ==
  ASSUME Inv, NEW s \in Stream, LogEntry(s)
  PROVE  Inv'
<1>1. /\ LogInv(files, slabs, front, streams) /\ streams[s].status = "open"
      /\ streams \in [Stream -> LogStream]
      /\ Put(s, streams[s], files, slabs)
      /\ front' = front /\ lock' = lock /\ closed' = closed /\ lock.holder # s
  BY DEF Inv, LogInv, LogEntry
<1>2. ~closed /\ front \in DOMAIN slabs
  BY <1>1, OpenMeansRunning DEF Inv
<1>3. streams[s].used + 1 < SectionSize[s]
  <2>1. streams[s].used \in Nat
    BY <1>1 DEF LogStream
  <2>2. Unit + streams[s].used < SectionSize[s]
    BY DEF LogEntry, HasSpace
  <2> QED
    BY <2>1, <2>2, Sizes
<1>4. LogInv(files', slabs', front', streams') /\ DOMAIN slabs' = DOMAIN slabs
  <2>1. LogInv(files', slabs', front, streams') /\ DOMAIN slabs' = DOMAIN slabs
    BY <1>1, <1>3, EntryPut
  <2> QED
    BY <1>1, <2>1
<1>5. \A u \in Stream \ {s} : streams'[u] = streams[u]
  BY <1>1 DEF Put
<1>6. LockInv'
  BY <1>1, <1>5 DEF Inv, LockInv
<1> QED
  BY <1>1, <1>2, <1>4, <1>6 DEF Inv

LEMMA RollKeeps ==
  ASSUME Inv, NEW s \in Stream, Roll(s)
  PROVE  Inv'
<1> DEFINE f == HeaderClosed(files, s)
           m == SectionsFlushed(slabs, s)
           t == [streams EXCEPT ![s].status = "closed"]
<1>1. /\ LogInv(files, slabs, front, streams) /\ streams[s].status = "open"
      /\ streams \in [Stream -> LogStream] /\ AddSection(s, f, m)
      /\ closed' = closed /\ lock'.holder = s
  BY DEF Inv, LogInv, Roll
<1>2. ~closed /\ front \in DOMAIN slabs
  BY <1>1, OpenMeansRunning DEF Inv
<1>3. LogInv(f, m, front, t) /\ DOMAIN m = DOMAIN slabs
  BY <1>1, SectionClosed
<1>4. t[s].status # "open" /\ \A u \in Stream \ {s} : streams[u] = t[u]
  <2>1. t[s] = [streams[s] EXCEPT !.status = "closed"] /\ streams[s] \in LogStream
    BY <1>1
  <2>2. [streams[s] EXCEPT !.status = "closed"].status = "closed"
    BY <2>1 DEF LogStream
  <2> QED
    BY <1>1, <2>1, <2>2
<1> HIDE DEF f, m, t
<1>5. /\ LogInv(files', slabs', front', streams') /\ front' \in DOMAIN slabs'
      /\ streams'[s].status = "open" /\ streams'[s].used = 0
  BY <1>1, <1>2, <1>3, <1>4, SectionTaken
<1> QED
  BY <1>1, <1>2, <1>5 DEF Inv, LockInv

LEMMA PlaceEndMarkerKeeps ==
  ASSUME Inv, PlaceEndMarker
  PROVE  Inv'
<1> DEFINE p == Marker(files, slabs, TRUE)
           s == lock.holder
<1>1. /\ LogInv(files, slabs, front, streams) /\ front \in DOMAIN slabs
      /\ streams \in [Stream -> LogStream] /\ ~closed /\ closed' = closed
      /\ front' = p.front /\ lock' = Free /\ s \in Stream
      /\ IF lock.entry = "fits" THEN Put(s, streams[s], p.files, p.slabs)
         ELSE files' = p.files /\ slabs' = p.slabs /\ UNCHANGED <<streams, logged>>
  BY DEF Inv, LogInv, LockInv, PlaceEndMarker
<1>2. LogInv(p.files, p.slabs, p.front, streams) /\ p.front \in DOMAIN p.slabs
  BY <1>1, MarkerWritten
<1> HIDE DEF p
<1>3. LogInv(files', slabs', front', streams') /\ front' \in DOMAIN slabs'
  <2>1. CASE lock.entry = "fits"
    <3> DEFINE f == p.files
               m == p.slabs
               n == p.front
    <3>1. /\ streams[s].status = "open" /\ streams[s].used + 1 < SectionSize[s]
          /\ Put(s, streams[s], f, m) /\ LogInv(f, m, n, streams)
      <4>1. streams[s].status = "open" /\ streams[s].used = 0
        BY <2>1 DEF Inv, LockInv, PlaceEndMarker
      <4> QED
        BY <1>1, <1>2, <2>1, <4>1, Sizes
    <3> HIDE DEF f, m, n, s
    <3>2. LogInv(files', slabs', n, streams') /\ DOMAIN slabs' = DOMAIN m
      BY <1>1, <3>1, EntryPut
    <3> QED
      BY <1>1, <1>2, <3>2 DEF m, n
  <2>2. CASE lock.entry # "fits"
    BY <1>1, <1>2, <2>2
  <2> QED
    BY <2>1, <2>2
<1> QED
  BY <1>1, <1>3 DEF Inv, LockInv

LEMMA CloseStreamKeeps ==
  ASSUME Inv, NEW s \in Stream, CloseStream(s)
  PROVE  Inv'
<1>1. /\ LogInv(files, slabs, front, streams) /\ streams[s].status = "open"
      /\ files' = HeaderClosed(files, s) /\ slabs' = SectionsFlushed(slabs, s)
      /\ streams' = [streams EXCEPT ![s].status = "closed"]
      /\ front' = front /\ lock' = Free /\ closed' = closed
  BY DEF Inv, CloseStream
<1>2. ~closed /\ front \in DOMAIN slabs
  BY <1>1, OpenMeansRunning DEF Inv
<1>3. LogInv(files', slabs', front', streams') /\ DOMAIN slabs' = DOMAIN slabs
  BY <1>1, SectionClosed
<1> QED
  BY <1>1, <1>2, <1>3 DEF Inv, LockInv

LEMMA CloseLogKeeps ==
  ASSUME Inv, CloseLog
  PROVE  Inv'
<1> DEFINE m == [slabs EXCEPT ![front] = clear_temporary_end_marker(@)]
           p == Marker(files, m, FALSE)
<1>1. /\ front \in Nat /\ streams \in [Stream -> LogStream]
      /\ \A s \in Stream : streams[s].status # "open"
      /\ streams' = streams /\ lock' = Free /\ front' = p.front
      /\ slabs' = <<>> /\ closed'
  BY DEF Inv, LogInv, CloseLog
<1> HIDE DEF m
<1>2. p.front \in Nat
  <2>1. CASE MarkerFits(m[front])
    BY <1>1, <2>1 DEF Marker
  <2>2. CASE ~MarkerFits(m[front])
    BY <1>1, <2>2 DEF Marker
  <2> QED
    BY <2>1, <2>2
<1> HIDE DEF p
<1>3. LogInv(files', slabs', front', streams')
  BY <1>1, <1>2 DEF LogInv
<1> QED
  BY <1>1, <1>3 DEF Inv, LockInv

LEMMA NextRunKeeps ==
  ASSUME Inv, NextRun
  PROVE  Inv'
<1>1. /\ files' = With(files, 0, NewFile) /\ front' = 0 /\ lock' = Free /\ ~closed'
      /\ slabs' = With(<<>>, 0, [NewSlab EXCEPT !.pos = Page])
      /\ streams' = [s \in Stream |-> NoStream]
  BY DEF NextRun
<1>2. LogInv(files', slabs', front', streams') /\ front' \in DOMAIN slabs'
  BY <1>1, RunBegins
<1> QED
  BY <1>1, <1>2 DEF Inv, LockInv

LEMMA NextInv == Inv /\ [Next]_vars => Inv'
<1> SUFFICES ASSUME Inv, [Next]_vars PROVE Inv'
  OBVIOUS
<1>1. CASE UNCHANGED vars
  BY <1>1 DEF vars, Inv, LockInv
<1>2. ASSUME NEW s \in Stream, Open(s) \/ LogEntry(s) \/ Roll(s) \/ CloseStream(s)
      PROVE  Inv'
  BY <1>2, OpenKeeps, LogEntryKeeps, RollKeeps, CloseStreamKeeps
<1>3. CASE PlaceEndMarker
  BY <1>3, PlaceEndMarkerKeeps
<1>4. CASE CloseLog
  BY <1>4, CloseLogKeeps
<1>5. CASE NextRun
  BY <1>5, NextRunKeeps
<1> QED
  BY <1>1, <1>2, <1>3, <1>4, <1>5 DEF Next

----------------------------------------------------------------------------

LEMMA InvTypeOK == Inv => TypeOK
<1> SUFFICES ASSUME Inv PROVE TypeOK
  OBVIOUS
<1>1. /\ DOMAIN slabs \subseteq DOMAIN files /\ (~closed => front \in DOMAIN slabs)
      /\ \A i \in DOMAIN slabs : SlabInv(slabs[i])
      /\ \A s \in Stream : streams[s].status = "open"
           => OpenInv(s, files, slabs, streams)
  BY DEF Inv, LogInv
<1>2. ASSUME NEW x, SlabInv(x)
      PROVE  SlabOK(x)
  <2>1. /\ x.pos \in Nat /\ x.pos <= SlabSize /\ SlabSize \in Nat
        /\ x.flushed_until \in Nat /\ x.flushed_until <= x.pos
        /\ x.in_flight \in Seq(Nat) /\ x.marker \in SUBSET Nat
        /\ Cursor(x) \in Nat /\ Cursor(x) <= x.pos
        /\ x.marker \subseteq {x.pos - Unit}
    BY <1>2, SlabFields, Sizes DEF SlabInv
  <2>2. x.pos \in 0..SlabSize /\ x.flushed_until \in 0..x.pos
    BY <2>1
  <2>3. x.marker \subseteq 0..(x.pos - Unit)
    BY <2>1 DEF Unit
  <2>4. Cardinality(x.marker) <= 1
    <3>1. CASE x.marker = {}
      BY <3>1, FS_EmptySet
    <3>2. CASE x.marker = {x.pos - Unit}
      <4>1. Cardinality({x.pos - Unit}) = 1
        BY FS_Singleton
      <4> QED
        BY <3>2, <4>1
    <3> QED
      BY <2>1, <3>1, <3>2
  <2>5. \A k \in DOMAIN x.in_flight : x.in_flight[k] \in 0..(x.pos - Unit)
    <3> TAKE k \in DOMAIN x.in_flight
    <3>1. x.in_flight[k] \in Offsets(x)
      BY DEF Offsets, ToSet
    <3>2. x.in_flight[k] \in Nat /\ x.in_flight[k] < Cursor(x)
      BY <1>2, <3>1, SlabFields
    <3> QED
      BY <2>1, <3>2 DEF Unit
  <2> QED
    BY <2>2, <2>3, <2>4, <2>5 DEF SlabOK
<1>3. \A s \in Stream : streams[s].status = "open"
        => /\ streams[s].slab \in DOMAIN slabs
           /\ streams[s].start \in ToSet(slabs[streams[s].slab].in_flight)
  BY <1>1 DEF OpenInv
<1> QED
  BY <1>1, <1>2, <1>3 DEF TypeOK

LEMMA InvClosedIsFlushed == Inv => ClosedIsFlushed
<1> SUFFICES ASSUME Inv, NEW i \in DOMAIN slabs
             PROVE  /\ \A p \in DOMAIN files[i].headers :
                         ~files[i].headers[p].is_open
                           => p..(p + files[i].headers[p].used)
                                \subseteq slabs[i].synced
                    /\ \A k \in DOMAIN slabs[i].in_flight :
                         slabs[i].flushed_until <= slabs[i].in_flight[k]
  BY DEF ClosedIsFlushed
<1>1. SlabInv(slabs[i]) /\ FileInv(files[i], slabs[i])
  BY DEF Inv, LogInv
<1>2. \A k \in DOMAIN slabs[i].in_flight :
        slabs[i].in_flight[k] \in Offsets(slabs[i])
  BY DEF Offsets, ToSet
<1> QED
  BY <1>1, <1>2, SlabFields DEF FileInv, Closed

(* TypeOK: the cursor of a slab never goes back behind what was flushed, so *)
(* that no flush gets a negative length, and the section of an open stream  *)
(* is in flight in a slab that is mapped.                                   *)
THEOREM TypeCorrect == Spec => []TypeOK
<1>1. Spec => []Inv
  BY InitInv, NextInv, PTL DEF Spec
<1> QED
  BY <1>1, InvTypeOK, PTL

(* ClosedIsFlushed: a section whose header says that it is closed is        *)
(* flushed with every entry the header counts, also when flush_section      *)
(* closed it before an earlier one that is still open.                      *)
THEOREM ClosedOnDisk == Spec => []ClosedIsFlushed
<1>1. Spec => []Inv
  BY InitInv, NextInv, PTL DEF Spec
<1> QED
  BY <1>1, InvClosedIsFlushed, PTL

----------------------------------------------------------------------------
(* The pages that sections start at. *)

LEMMA QuotientUnique ==
  ASSUME NEW p \in Nat \ {0}, NEW d \in Nat, NEW j \in Nat,
         j * p <= d, d < j * p + p
  PROVE  d \div p = j
<1> DEFINE e == d \div p
<1>1. e \in Nat /\ e * p <= d /\ d < e * p + p
  BY QuotientBounds
<1> HIDE DEF e
<1>2. CASE e < j
  <2>1. j >= e + 1
    BY <1>1, <1>2
  <2>2. j * p >= (e + 1) * p
    BY <1>1, <2>1
  <2>3. (e + 1) * p = e * p + p
    BY <1>1
  <2> QED
    BY <1>1, <2>2, <2>3
<1>3. CASE j < e
  <2>1. e >= j + 1
    BY <1>1, <1>3
  <2>2. e * p >= (j + 1) * p
    BY <1>1, <2>1
  <2>3. (j + 1) * p = j * p + p
    OBVIOUS
  <2> QED
    BY <1>1, <2>2, <2>3
<1> QED
  BY <1>1, <1>2, <1>3 DEF e

(* Behind what starts on a page, pages are counted from there.              *)
LEMMA AlignFrom ==
  ASSUME NEW x \in Nat, NEW y \in Nat
  PROVE  align_to_next_page(align_to_next_page(x) + y)
           = align_to_next_page(x) + align_to_next_page(y)
<1> DEFINE k == (x + Page - 1) \div Page
           q == (y + Page - 1) \div Page
           d == k * Page + y + Page - 1
<1>1. Page \in Nat \ {0}
  BY Sizes
<1>2. k \in Nat /\ align_to_next_page(x) = k * Page /\ k * Page \in Nat
  <2>1. x + Page - 1 \in Nat
    BY <1>1
  <2>2. k \in Nat
    BY <1>1, <2>1, QuotientBounds
  <2> QED
    BY <1>1, <2>2 DEF align_to_next_page
<1>3. /\ q \in Nat /\ align_to_next_page(y) = q * Page /\ q * Page \in Nat
      /\ q * Page <= y + Page - 1 /\ y + Page - 1 < q * Page + Page
  <2>1. y + Page - 1 \in Nat
    BY <1>1
  <2>2. /\ q \in Nat /\ q * Page <= y + Page - 1
        /\ y + Page - 1 < q * Page + Page
    BY <1>1, <2>1, QuotientBounds
  <2> QED
    BY <1>1, <2>2 DEF align_to_next_page
<1>4. align_to_next_page(align_to_next_page(x) + y) = (d \div Page) * Page
  BY <1>2 DEF align_to_next_page
<1> HIDE DEF k, q
<1>5. (k + q) * Page = k * Page + q * Page /\ k + q \in Nat
  BY <1>1, <1>2, <1>3
<1>6. /\ d \in Nat /\ (k + q) * Page <= d /\ d < (k + q) * Page + Page
  BY <1>1, <1>2, <1>3, <1>5
<1>7. d \div Page = k + q
  <2> HIDE DEF d
  <2> QED
    BY <1>1, <1>5, <1>6, QuotientUnique
<1> QED
  BY <1>2, <1>3, <1>4, <1>5, <1>7

LEMMA AlignZero == align_to_next_page(0) = 0
<1> DEFINE d == 0 + Page - 1
<1>1. Page \in Nat \ {0} /\ d \in Nat /\ 0 * Page <= d /\ d < 0 * Page + Page
  BY Sizes
<1>2. d \div Page = 0
  <2> HIDE DEF d
  <2> QED
    BY <1>1, QuotientUnique
<1> QED
  BY <1>1, <1>2 DEF align_to_next_page

LEMMA AlignTwice ==
  ASSUME NEW x \in Nat
  PROVE  align_to_next_page(align_to_next_page(x)) = align_to_next_page(x)
BY AlignFrom, AlignZero, Align

LEMMA AlignPage == align_to_next_page(Page) = Page
<1>1. align_to_next_page(1) = Page
  <2> DEFINE d == 1 + Page - 1
  <2>1. Page \in Nat \ {0} /\ d \in Nat /\ 1 * Page <= d /\ d < 1 * Page + Page
    BY Sizes
  <2>2. d \div Page = 1
    <3> HIDE DEF d
    <3> QED
      BY <2>1, QuotientUnique
  <2> QED
    BY <2>1, <2>2 DEF align_to_next_page
<1> QED
  BY <1>1, AlignTwice

----------------------------------------------------------------------------
(* What a reader of a file comes to. *)

Follows(headers, from) ==
  {from} \cup {p + headers[p].next :
                 p \in {q \in DOMAIN headers : headers[q].entry_type # LastEntry}}

FileOK(file) ==
  /\ DOMAIN file = {"len", "headers", "data"}
  /\ file.len \in Nat /\ file.len <= SlabSize
  /\ \A p \in DOMAIN file.headers :
       /\ p \in Nat /\ file.headers[p].next \in Nat /\ file.headers[p].next > 0
       /\ p + file.headers[p].next <= SlabSize

\* Nothing but headers, up to a marker or to the end of the file.
Finished(file, from) ==
  \A p \in Follows(file.headers, from) : p \in DOMAIN file.headers \/ p >= file.len
\* Up to a marker.
Sealed(file, from) ==
  \A p \in Follows(file.headers, from) : p \in DOMAIN file.headers /\ p < file.len

\* The front slab's file, up to where the next section or marker goes.
End(slab) == align_to_next_page(Cursor(slab))
FrontOK(file, slab, from) ==
  /\ \A p \in Follows(file.headers, from) : p \in DOMAIN file.headers \/ p = End(slab)
  /\ \A p \in DOMAIN file.headers : p <= Cursor(slab)
  /\ slab.marker # {} =>
       Cursor(slab) \in DOMAIN file.headers /\ End(slab) = Cursor(slab)

\* A file g that differs from file in a header.
HeaderPut(g, file, offset, header) ==
  /\ DOMAIN g = {"len", "headers", "data"} /\ g.len = file.len
  /\ DOMAIN g.headers = DOMAIN file.headers \cup {offset}
  /\ g.headers[offset] = header
  /\ \A p \in DOMAIN file.headers \ {offset} : g.headers[p] = file.headers[p]

LEMMA HeaderPutFollows ==
  ASSUME NEW file, NEW g, NEW offset, NEW header, HeaderPut(g, file, offset, header),
         NEW from, NEW p \in Follows(g.headers, from)
  PROVE  \/ p \in Follows(file.headers, from)
         \/ header.entry_type # LastEntry /\ p = offset + header.next
<1> DEFINE of(h) == {q \in DOMAIN h : h[q].entry_type # LastEntry}
<1>1. CASE p = from
  BY <1>1 DEF Follows
<1>2. CASE p # from
  <2>1. PICK q \in of(g.headers) : p = q + g.headers[q].next
    BY <1>2 DEF Follows
  <2>2. CASE q = offset
    BY <2>1, <2>2 DEF HeaderPut
  <2>3. CASE q # offset
    <3>1. q \in DOMAIN file.headers /\ g.headers[q] = file.headers[q]
      BY <2>1, <2>3 DEF HeaderPut
    <3>2. q \in of(file.headers) /\ p = q + file.headers[q].next
      BY <2>1, <3>1
    <3> QED
      BY <3>2 DEF Follows
  <2> QED
    BY <2>2, <2>3
<1> QED
  BY <1>1, <1>2

LEMMA HeaderPutOK ==
  ASSUME NEW file, FileOK(file), NEW g, NEW offset \in Nat, NEW header,
         HeaderPut(g, file, offset, header), header.next \in Nat, header.next > 0,
         offset + header.next <= SlabSize
  PROVE  FileOK(g)
<1>1. ASSUME NEW p \in DOMAIN g.headers
      PROVE  /\ p \in Nat /\ g.headers[p].next \in Nat /\ g.headers[p].next > 0
             /\ p + g.headers[p].next <= SlabSize
  <2>1. CASE p = offset
    BY <2>1 DEF HeaderPut
  <2>2. CASE p # offset
    <3>1. p \in DOMAIN file.headers /\ g.headers[p] = file.headers[p]
      BY <2>2 DEF HeaderPut
    <3> QED
      BY <3>1 DEF FileOK
  <2> QED
    BY <2>1, <2>2
<1>2. DOMAIN g = {"len", "headers", "data"} /\ g.len = file.len
  BY DEF HeaderPut
<1> QED
  BY <1>1, <1>2 DEF FileOK

\* What may change in a file without a reader that looks for the marker
\* noticing.
SameChain(g, file) ==
  /\ FileOK(g) /\ g.len = file.len /\ DOMAIN g.headers = DOMAIN file.headers
  /\ \A from \in Nat : Follows(g.headers, from) \subseteq Follows(file.headers, from)
  /\ \A p \in DOMAIN file.headers :
       /\ g.headers[p].entry_type = file.headers[p].entry_type
       /\ g.headers[p].next = file.headers[p].next

\* A header is stored over one of the same type and length.
HeaderSwapped(g, file, offset, header) ==
  /\ FileOK(file) /\ HeaderPut(g, file, offset, header)
  /\ offset \in DOMAIN file.headers
  /\ header.entry_type = file.headers[offset].entry_type
  /\ header.next = file.headers[offset].next

LEMMA HeaderReplaced ==
  ASSUME NEW file, NEW g, NEW offset, NEW header,
         HeaderSwapped(g, file, offset, header)
  PROVE  SameChain(g, file)
<1>1. /\ offset \in Nat /\ header.next \in Nat /\ header.next > 0
      /\ offset + header.next <= SlabSize
  BY DEF FileOK, HeaderSwapped
<1>2. FileOK(g)
  BY <1>1, HeaderPutOK DEF HeaderSwapped
<1>3. DOMAIN g.headers = DOMAIN file.headers /\ g.len = file.len
  BY DEF HeaderPut, HeaderSwapped
<1>4. ASSUME NEW from \in Nat
      PROVE  Follows(g.headers, from) \subseteq Follows(file.headers, from)
  <2>1. header.entry_type # LastEntry =>
          offset + header.next \in Follows(file.headers, from)
    BY DEF Follows, HeaderSwapped
  <2> QED
    BY <2>1, HeaderPutFollows DEF HeaderSwapped
<1>5. \A p \in DOMAIN file.headers :
        /\ g.headers[p].entry_type = file.headers[p].entry_type
        /\ g.headers[p].next = file.headers[p].next
  BY DEF HeaderPut, HeaderSwapped
<1> QED
  BY <1>2, <1>3, <1>4, <1>5 DEF SameChain

LEMMA Cut ==
  ASSUME NEW file, FileOK(file), file.len = SlabSize, NEW len \in Nat, len <= SlabSize
  PROVE  LET g == Trim(file, len) IN
         /\ FileOK(g) /\ g.len = len
         /\ DOMAIN g.headers = {p \in DOMAIN file.headers : p < len}
         /\ \A from \in Nat :
              /\ Follows(g.headers, from) \subseteq Follows(file.headers, from)
              /\ Finished(file, from) => Finished(g, from)
<1> DEFINE g == Trim(file, len)
<1>1. /\ DOMAIN g = {"len", "headers", "data"} /\ g.len = len
      /\ DOMAIN g.headers = {p \in DOMAIN file.headers : p < len}
      /\ \A p \in DOMAIN g.headers : g.headers[p] = file.headers[p]
  BY DEF Trim
<1> HIDE DEF g
<1>2. FileOK(g)
  BY <1>1 DEF FileOK
<1>3. ASSUME NEW from \in Nat, NEW p \in Follows(g.headers, from)
      PROVE  p \in Follows(file.headers, from) /\ p \in Nat
  <2>1. CASE p = from
    BY <2>1 DEF Follows
  <2>2. CASE p # from
    <3>1. PICK q \in DOMAIN g.headers :
            g.headers[q].entry_type # LastEntry /\ p = q + g.headers[q].next
      BY <1>3, <2>2 DEF Follows
    <3>2. q \in DOMAIN file.headers /\ g.headers[q] = file.headers[q]
      BY <1>1, <3>1
    <3>3. p \in Nat
      BY <1>2, <3>1 DEF FileOK
    <3> QED
      BY <3>1, <3>2, <3>3 DEF Follows
  <2> QED
    BY <2>1, <2>2
<1>4. ASSUME NEW from \in Nat, Finished(file, from)
      PROVE  Finished(g, from)
  <2> SUFFICES ASSUME NEW p \in Follows(g.headers, from)
               PROVE  p \in DOMAIN g.headers \/ p >= g.len
    BY DEF Finished
  <2>1. p \in Nat /\ (p \in DOMAIN file.headers \/ p >= file.len)
    BY <1>3, <1>4 DEF Finished
  <2> QED
    BY <1>1, <2>1, Sizes
<1> QED
  BY <1>1, <1>2, <1>3, <1>4 DEF g

(* A slab's file with a marker.                                             *)
LEMMA FrontSealed ==
  ASSUME NEW file, NEW slab, NEW from, FileOK(file), file.len = SlabSize,
         SlabInv(slab), FrontOK(file, slab, from), slab.marker # {}
  PROVE  Sealed(file, from) /\ Cursor(slab) < slab.pos
<1>1. Cursor(slab) \in DOMAIN file.headers /\ End(slab) = Cursor(slab)
  BY DEF FrontOK
<1>2. Cursor(slab) < slab.pos /\ slab.pos <= SlabSize /\ Cursor(slab) \in Nat
  <2>1. Cursor(slab) = slab.pos - Unit /\ slab.pos \in Nat /\ slab.pos <= SlabSize
        /\ Cursor(slab) \in Nat
    BY SlabFields DEF Cursor
  <2> QED
    BY <2>1 DEF Unit
<1>3. ASSUME NEW p \in Follows(file.headers, from)
      PROVE  p \in DOMAIN file.headers /\ p < file.len
  <2>1. p \in DOMAIN file.headers
    BY <1>1 DEF FrontOK
  <2>2. p <= Cursor(slab) /\ p \in Nat
    BY <2>1 DEF FrontOK, FileOK
  <2>3. slab.pos \in Nat /\ SlabSize \in Nat
    BY SlabFields, Sizes
  <2> QED
    BY <1>2, <2>1, <2>2, <2>3
<1> QED
  BY <1>2, <1>3 DEF Sealed

LEMMA SealedFinished ==
  ASSUME NEW file, NEW from, Sealed(file, from)
  PROVE  Finished(file, from)
BY DEF Sealed, Finished

LEMMA UnmarkedEnd ==
  ASSUME NEW slab, SlabInv(slab), slab.marker = {}
  PROVE  /\ Cursor(slab) = slab.pos /\ slab.pos \in Nat
         /\ End(slab) = SectionAt(slab) /\ End(slab) = MarkerAt(slab)
         /\ End(slab) \in Nat /\ Cursor(slab) <= End(slab) /\ End(slab) <= SlabSize
<1>1. Cursor(slab) = slab.pos /\ slab.pos \in Nat /\ slab.pos <= SlabSize
  BY SlabFields DEF Cursor
<1> QED
  BY <1>1, Align DEF End, SectionAt, MarkerAt

(* A section is put where the reader comes to, and leads to where the next  *)
(* one will be.                                                             *)
LEMMA SectionFollows ==
  ASSUME NEW file, NEW slab, NEW from, FileOK(file), SlabInv(slab),
         FrontOK(file, slab, from), slab.marker = {}, NEW size \in Nat, size >= 2,
         SectionFits(slab, size), NEW g, NEW header,
         HeaderPut(g, file, SectionAt(slab), header),
         header.entry_type # LastEntry, header.next = align_to_next_page(size)
  PROVE  FileOK(g) /\ FrontOK(g, WithSection(slab, size), from)
<1> DEFINE at == SectionAt(slab)
           y == WithSection(slab, size)
<1>1. /\ SlabInv(y) /\ at \in Nat /\ Cursor(slab) <= at
      /\ Cursor(y) = at + size /\ y.marker = {}
  BY SectionAdded
<1>2. /\ header.next \in Nat /\ header.next >= size /\ at + header.next <= SlabSize
  BY Align DEF SectionFits
<1>3. Cursor(slab) = slab.pos /\ slab.pos \in Nat /\ End(slab) = at
  BY UnmarkedEnd
<1>4. End(y) = at + header.next
  BY <1>1, <1>3, AlignFrom DEF End, SectionAt
<1> HIDE DEF at, y
<1>5. FileOK(g)
  BY <1>1, <1>2, HeaderPutOK DEF at
<1>6. HeaderPut(g, file, at, header)
  BY DEF at
<1>7. ASSUME NEW p \in Follows(g.headers, from)
      PROVE  p \in DOMAIN g.headers \/ p = End(y)
  <2>1. p \in Follows(file.headers, from) \/ p = at + header.next
    BY <1>6, HeaderPutFollows
  <2>2. ASSUME p \in Follows(file.headers, from)
        PROVE  p \in DOMAIN g.headers
    BY <1>3, <1>6, <2>2 DEF FrontOK, HeaderPut
  <2> QED
    BY <1>4, <2>1, <2>2
<1>8. ASSUME NEW p \in DOMAIN g.headers
      PROVE  p <= Cursor(y)
  <2>1. p = at \/ (p \in DOMAIN file.headers /\ p <= Cursor(slab) /\ p \in Nat)
    BY <1>6 DEF HeaderPut, FrontOK, FileOK
  <2> QED
    BY <1>1, <1>3, <2>1
<1> QED
  BY <1>1, <1>5, <1>7, <1>8 DEF FrontOK, y

LEMMA MarkerFollows ==
  ASSUME NEW file, NEW slab, NEW from, FileOK(file), SlabInv(slab),
         FrontOK(file, slab, from), slab.marker = {}, MarkerFits(slab), NEW g,
         NEW header, HeaderPut(g, file, MarkerAt(slab), header),
         header.entry_type = LastEntry, header.next = Unit
  PROVE  /\ FileOK(g) /\ FrontOK(g, Marked(slab), from)
         /\ Marked(slab).marker # {} /\ SlabInv(Marked(slab))
<1> DEFINE at == MarkerAt(slab)
           y == Marked(slab)
<1>1. /\ SlabInv(y) /\ at \in Nat /\ Cursor(slab) <= at /\ Cursor(y) = at
      /\ y.marker = {at}
  BY MarkerPlaced
<1>2. Cursor(slab) = slab.pos /\ slab.pos \in Nat /\ End(slab) = at
  BY UnmarkedEnd
<1>3. End(y) = at
  BY <1>1, <1>2, AlignTwice DEF End, MarkerAt
<1>4. header.next \in Nat /\ header.next > 0 /\ at + header.next <= SlabSize
  BY DEF MarkerFits, Unit
<1> HIDE DEF at, y
<1>5. FileOK(g)
  BY <1>1, <1>4, HeaderPutOK DEF at
<1>6. HeaderPut(g, file, at, header)
  BY DEF at
<1>7. ASSUME NEW p \in Follows(g.headers, from)
      PROVE  p \in DOMAIN g.headers
  <2>1. p \in Follows(file.headers, from)
    BY <1>6, HeaderPutFollows
  <2> QED
    BY <1>2, <1>6, <2>1 DEF FrontOK, HeaderPut
<1>8. ASSUME NEW p \in DOMAIN g.headers
      PROVE  p <= Cursor(y)
  <2>1. p = at \/ (p \in DOMAIN file.headers /\ p <= Cursor(slab) /\ p \in Nat)
    BY <1>6 DEF HeaderPut, FrontOK, FileOK
  <2> QED
    BY <1>1, <1>2, <2>1
<1>9. Cursor(y) \in DOMAIN g.headers
  BY <1>1, <1>6 DEF HeaderPut
<1>10. FrontOK(g, y, from)
  BY <1>1, <1>3, <1>7, <1>8, <1>9 DEF FrontOK
<1> QED
  BY <1>1, <1>5, <1>10 DEF y

(* Where not even a marker fits the file is full of sections.               *)
LEMMA FullFinished ==
  ASSUME NEW file, NEW slab, NEW from, file.len = SlabSize, SlabInv(slab),
         FrontOK(file, slab, from), slab.marker = {}, ~MarkerFits(slab)
  PROVE  Finished(file, from)
<1>1. End(slab) = MarkerAt(slab) /\ End(slab) \in Nat
  BY UnmarkedEnd
<1>2. End(slab) >= SlabSize
  BY <1>1, Sizes DEF MarkerFits
<1> QED
  BY <1>2 DEF FrontOK, Finished

LEMMA NewFileOK ==
  /\ FileOK(NewFile) /\ NewFile.len = SlabSize /\ FrontOK(NewFile, NewSlab, 0)
  /\ FrontOK(NewFile, [NewSlab EXCEPT !.pos = Page], Page)
<1>1. /\ DOMAIN NewFile = {"len", "headers", "data"} /\ NewFile.len = SlabSize
      /\ DOMAIN NewFile.headers = {}
  BY DEF NewFile
<1>2. SlabSize \in Nat /\ SlabSize <= SlabSize
  BY Sizes
<1>3. FileOK(NewFile)
  BY <1>1, <1>2 DEF FileOK
<1>4. \A from : Follows(NewFile.headers, from) = {from}
  BY <1>1 DEF Follows
<1>5. ASSUME NEW slab, slab.marker = {}, NEW from, End(slab) = from
      PROVE  FrontOK(NewFile, slab, from)
  BY <1>1, <1>4, <1>5 DEF FrontOK
<1>6. NewSlab.marker = {} /\ End(NewSlab) = 0
  BY NewSlabGood, AlignZero DEF End
<1> DEFINE x == [NewSlab EXCEPT !.pos = Page]
<1>7. x.marker = {} /\ x.pos = Page
  BY DEF NewSlab
<1> HIDE DEF x
<1>8. End(x) = Page
  BY <1>7, AlignPage DEF End, Cursor
<1> QED
  BY <1>1, <1>3, <1>5, <1>6, <1>7, <1>8 DEF x

----------------------------------------------------------------------------
(* What a reader of all files comes to, when m is what is mapped of the     *)
(* files f, n the front slab's suffix and t the streams.                    *)

HeaderOf(s, headers, start) ==
  /\ start \in DOMAIN headers /\ headers[start].entry_type = s
  /\ headers[start].next = align_to_next_page(SectionSize[s])

ChainInv(f, m, n, t) ==
  /\ n \in Nat /\ DOMAIN f \subseteq 0..(MaxSlab + 1) /\ 0..n \subseteq DOMAIN f
  /\ \A i \in DOMAIN f : FileOK(f[i])
  /\ \A i \in 0..(n - 1) : Finished(f[i], prolog(i))
  /\ \A i \in DOMAIN m : f[i].len = SlabSize
  /\ n \in DOMAIN m => FrontOK(f[n], m[n], prolog(n))
  /\ \A s \in Stream :
       t[s].status = "open" => HeaderOf(s, f[t[s].slab].headers, t[s].start)

LEMMA Prolog == \A i : prolog(i) \in Nat
BY Sizes DEF prolog

\* An open stream's section lies in a slab that stays mapped.
LEMMA OpenMapped ==
  ASSUME NEW f, NEW m, NEW n, NEW t, LogInv(f, m, n, t), NEW s \in Stream,
         t[s].status = "open"
  PROVE  t[s].slab \in DOMAIN m \cap (0..n) /\ m[t[s].slab].in_flight # <<>>
<1>1. /\ OpenInv(s, f, m, t) /\ DOMAIN m \subseteq DOMAIN f \cap (0..n)
      /\ \A i \in DOMAIN m : SlabInv(m[i])
  BY DEF LogInv
<1>2. t[s].slab \in DOMAIN m /\ t[s].start \in ToSet(m[t[s].slab].in_flight)
  BY <1>1 DEF OpenInv
<1>3. ToSet(<<>>) = {}
  BY DEF ToSet
<1> QED
  BY <1>1, <1>2, <1>3

LEMMA ChainCollected ==
  ASSUME NEW f, NEW m, NEW t, LogInv(f, m, front, t), front \in DOMAIN m,
         ChainInv(f, m, front, t)
  PROVE  LET k == [Mapped(m) EXCEPT ![front] = clear_temporary_end_marker(@)] IN
         /\ ChainInv(Trimmed(f, m), k, front, t)
         /\ Trimmed(f, m)[front] = f[front] /\ k[front].pos = Cursor(m[front])
<1> DEFINE k == [Mapped(m) EXCEPT ![front] = clear_temporary_end_marker(@)]
           g == Trimmed(f, m)
           c == clear_temporary_end_marker(m[front])
<1>1. /\ front \in Nat /\ DOMAIN m \subseteq DOMAIN f \cap (0..front)
      /\ \A i \in DOMAIN m : SlabInv(m[i])
  BY DEF LogInv
<1>2. /\ DOMAIN k = DOMAIN m \ Stale(m) /\ front \notin Stale(m)
      /\ k[front] = c /\ \A i \in DOMAIN k \ {front} : k[i] = m[i]
  BY DEF Mapped, Stale
<1>3. /\ DOMAIN g = DOMAIN f /\ Stale(m) \subseteq DOMAIN m
      /\ \A i \in DOMAIN f \ Stale(m) : g[i] = f[i]
      /\ \A i \in Stale(m) : g[i] = Trim(f[i], m[i].pos)
  BY <1>1 DEF Trimmed, Stale
<1>4. /\ SlabInv(c) /\ Cursor(c) = Cursor(m[front]) /\ c.marker = {}
      /\ c.pos = Cursor(m[front])
  BY <1>1, Cleared
<1>5. ChainInv(f, m, front, t)
  OBVIOUS
<1> HIDE DEF k, g, c
<1>6. ASSUME NEW i \in DOMAIN f
      PROVE  /\ FileOK(g[i])
             /\ \A from \in Nat : Finished(f[i], from) => Finished(g[i], from)
  <2>1. CASE i \in Stale(m)
    <3>1. /\ FileOK(f[i]) /\ f[i].len = SlabSize /\ m[i].pos \in Nat
          /\ m[i].pos <= SlabSize
      BY <1>1, <1>3, <1>5, <2>1, SlabFields DEF ChainInv
    <3> QED
      BY <1>3, <2>1, <3>1, Cut
  <2>2. CASE i \notin Stale(m)
    BY <1>3, <1>5, <2>2 DEF ChainInv
  <2> QED
    BY <2>1, <2>2
<1>7. \A i \in 0..(front - 1) : Finished(g[i], prolog(i))
  <2> TAKE i \in 0..(front - 1)
  <2>1. i \in DOMAIN f /\ Finished(f[i], prolog(i))
    BY <1>1, <1>5 DEF ChainInv
  <2> QED
    BY <1>6, <2>1, Prolog
<1>8. FrontOK(g[front], k[front], prolog(front)) /\ g[front] = f[front]
  <2>1. g[front] = f[front] /\ FrontOK(f[front], m[front], prolog(front))
    BY <1>1, <1>2, <1>3, <1>5 DEF ChainInv
  <2>2. Cursor(k[front]) = Cursor(m[front]) /\ k[front].marker = {}
    BY <1>2, <1>4
  <2> QED
    BY <2>1, <2>2 DEF FrontOK, End
<1>9. \A i \in DOMAIN k : g[i].len = SlabSize
  BY <1>1, <1>2, <1>3, <1>5 DEF ChainInv
<1>10. ASSUME NEW s \in Stream, t[s].status = "open"
       PROVE  HeaderOf(s, g[t[s].slab].headers, t[s].start)
  <2>1. t[s].slab \in DOMAIN m /\ t[s].slab \notin Stale(m)
    BY <1>10, OpenMapped DEF Stale
  <2>2. g[t[s].slab] = f[t[s].slab]
    BY <1>1, <1>3, <2>1
  <2> QED
    BY <1>5, <1>10, <2>2 DEF ChainInv
<1>11. ChainInv(g, k, front, t)
  <2>1. /\ front \in Nat /\ DOMAIN g \subseteq 0..(MaxSlab + 1)
        /\ 0..front \subseteq DOMAIN g
    BY <1>3, <1>5 DEF ChainInv
  <2> QED
    BY <1>3, <1>6, <1>7, <1>8, <1>9, <1>10, <2>1 DEF ChainInv
<1> QED
  BY <1>2, <1>4, <1>8, <1>11 DEF k, g

LEMMA ChainCreated ==
  ASSUME NEW f, NEW m, NEW n, NEW t, LogInv(f, m, n, t), n \in DOMAIN m,
         ChainInv(f, m, n, t), Finished(f[n], prolog(n)), n < MaxSlab + 1,
         NEW g, DOMAIN g = DOMAIN f \cup {n + 1},
         \A i \in DOMAIN f \ {n + 1} : g[i] = f[i],
         FileOK(g[n + 1]), g[n + 1].len = SlabSize,
         NEW k, DOMAIN k = DOMAIN m \cup {n + 1}, FrontOK(g[n + 1], k[n + 1], 0)
  PROVE  ChainInv(g, k, n + 1, t)
<1>1. /\ n \in Nat /\ DOMAIN m \subseteq DOMAIN f \cap (0..n)
      /\ DOMAIN f \subseteq 0..(MaxSlab + 1) /\ 0..n \subseteq DOMAIN f
      /\ \A i \in DOMAIN f : FileOK(f[i])
      /\ \A i \in 0..(n - 1) : Finished(f[i], prolog(i))
      /\ \A i \in DOMAIN m : f[i].len = SlabSize
      /\ MaxSlab \in Nat
  BY UnifiedLogAssumption DEF LogInv, ChainInv
<1>2. \A i \in 0..n : i \in DOMAIN f \ {n + 1} /\ g[i] = f[i]
  BY <1>1
<1>3. DOMAIN g \subseteq 0..(MaxSlab + 1) /\ 0..(n + 1) \subseteq DOMAIN g
  BY <1>1
<1>4. \A i \in DOMAIN g : FileOK(g[i])
  BY <1>1
<1>5. \A i \in 0..((n + 1) - 1) : Finished(g[i], prolog(i))
  <2> TAKE i \in 0..((n + 1) - 1)
  <2>1. i \in 0..n /\ (i = n \/ i \in 0..(n - 1))
    BY <1>1
  <2> QED
    BY <1>1, <1>2, <2>1
<1>6. \A i \in DOMAIN k : g[i].len = SlabSize
  BY <1>1, <1>2
<1>7. FrontOK(g[n + 1], k[n + 1], prolog(n + 1))
  <2>1. prolog(n + 1) = 0
    BY <1>1 DEF prolog
  <2> QED
    BY <2>1
<1>8. ASSUME NEW s \in Stream, t[s].status = "open"
      PROVE  HeaderOf(s, g[t[s].slab].headers, t[s].start)
  <2>1. t[s].slab \in 0..n
    BY <1>8, OpenMapped
  <2>2. g[t[s].slab] = f[t[s].slab]
    BY <1>2, <2>1
  <2> QED
    BY <1>8, <2>2 DEF ChainInv
<1>9. n + 1 \in Nat
  BY <1>1
<1> QED
  BY <1>3, <1>4, <1>5, <1>6, <1>7, <1>8, <1>9 DEF ChainInv

\* The section's header is the front slab's last.
LEMMA ChainOpened ==
  ASSUME NEW f, NEW m, NEW n, NEW t, LogInv(f, m, n, t), n \in DOMAIN m,
         ChainInv(f, m, n, t), m[n].marker = {}, NEW s \in Stream,
         SectionFits(m[n], SectionSize[s]), NEW g,
         DOMAIN g = DOMAIN f, \A i \in DOMAIN f \ {n} : g[i] = f[i],
         NEW header, HeaderPut(g[n], f[n], SectionAt(m[n]), header),
         header.entry_type = s, header.next = align_to_next_page(SectionSize[s]),
         NEW r, r[s].slab = n, r[s].start = SectionAt(m[n]),
         \A u \in Stream \ {s} : r[u] = t[u],
         NEW k, DOMAIN k = DOMAIN m, k[n] = WithSection(m[n], SectionSize[s])
  PROVE  ChainInv(g, k, n, r)
<1> DEFINE size == SectionSize[s]
           at == SectionAt(m[n])
<1>1. /\ n \in Nat /\ DOMAIN m \subseteq DOMAIN f \cap (0..n) /\ SlabInv(m[n])
  BY DEF LogInv
<1>2. ChainInv(f, m, n, t)
  OBVIOUS
<1>3. /\ header.entry_type = s /\ header.next = align_to_next_page(size)
      /\ s # LastEntry
  BY MarkerIsNoStream
<1>4. size \in Nat /\ size >= 2
  BY Sizes
<1>5. /\ DOMAIN k = DOMAIN m /\ k[n] = WithSection(m[n], size)
  OBVIOUS
<1>6. FileOK(f[n]) /\ FrontOK(f[n], m[n], prolog(n)) /\ f[n].len = SlabSize
  BY <1>1, <1>2 DEF ChainInv
<1>7. SectionFits(m[n], size) /\ HeaderPut(g[n], f[n], at, header)
  OBVIOUS
<1> HIDE DEF size
<1>8. FileOK(g[n]) /\ FrontOK(g[n], k[n], prolog(n)) /\ g[n].len = SlabSize
  <2>1. g[n].len = f[n].len
    BY <1>7 DEF HeaderPut
  <2> QED
    BY <1>1, <1>3, <1>4, <1>5, <1>6, <1>7, <2>1, SectionFollows
<1>9. at \in Nat /\ Cursor(m[n]) <= at /\ Cursor(m[n]) \in Nat
  BY <1>1, UnmarkedEnd, SlabFields
<1>10. HeaderOf(s, g[n].headers, at)
  BY <1>3, <1>7 DEF HeaderOf, HeaderPut, size
<1>11. ASSUME NEW u \in Stream \ {s}, t[u].status = "open"
       PROVE  HeaderOf(u, g[t[u].slab].headers, t[u].start)
  <2> DEFINE i == t[u].slab
  <2>1. HeaderOf(u, f[i].headers, t[u].start)
    BY <1>2, <1>11 DEF ChainInv
  <2>2. CASE i = n
    <3>1. t[u].start \in Nat /\ t[u].start + SectionSize[u] <= Cursor(m[n])
          /\ SectionSize[u] \in Nat /\ SectionSize[u] >= 2
      BY <1>11, <2>2, Sizes DEF LogInv, OpenInv, LogStream
    <3>2. t[u].start # at
      BY <1>9, <3>1
    <3> QED
      BY <1>7, <2>1, <2>2, <3>2 DEF HeaderOf, HeaderPut
  <2>3. CASE i # n
    <3>1. i \in DOMAIN f \ {n}
      BY <1>1, <1>11, <2>3, OpenMapped
    <3> QED
      BY <2>1, <3>1
  <2> QED
    BY <2>2, <2>3
<1>12. ASSUME NEW u \in Stream, r[u].status = "open"
       PROVE  HeaderOf(u, g[r[u].slab].headers, r[u].start)
  BY <1>10, <1>11, <1>12
<1>13. \A i \in DOMAIN g : FileOK(g[i])
  BY <1>2, <1>8 DEF ChainInv
<1>14. \A i \in 0..(n - 1) : Finished(g[i], prolog(i))
  <2> TAKE i \in 0..(n - 1)
  <2>1. i \in DOMAIN f \ {n} /\ Finished(f[i], prolog(i))
    BY <1>1, <1>2 DEF ChainInv
  <2> QED
    BY <2>1
<1>15. \A i \in DOMAIN k : g[i].len = SlabSize
  BY <1>1, <1>2, <1>5, <1>8 DEF ChainInv
<1>16. /\ n \in Nat /\ DOMAIN g \subseteq 0..(MaxSlab + 1) /\ 0..n \subseteq DOMAIN g
  BY <1>2 DEF ChainInv
<1>17. ChainInv(g, k, n, r)
  BY <1>8, <1>12, <1>13, <1>14, <1>15, <1>16 DEF ChainInv
<1> QED
  BY <1>17

LEMMA WrittenPut ==
  ASSUME NEW file, DOMAIN file = {"len", "headers", "data"}, NEW offset, NEW header
  PROVE  HeaderPut(WriteHeader(file, offset, header), file, offset, header)
<1> DEFINE g == WriteHeader(file, offset, header)
<1>1. g.len = file.len
  BY DEF WriteHeader
<1>2. /\ DOMAIN g = {"len", "headers", "data"}
      /\ DOMAIN g.headers = DOMAIN file.headers \cup {offset}
      /\ g.headers[offset] = header
      /\ \A p \in DOMAIN file.headers \ {offset} : g.headers[p] = file.headers[p]
  BY HeaderWritten
<1> HIDE DEF g
<1>3. HeaderPut(g, file, offset, header)
  BY <1>1, <1>2 DEF HeaderPut
<1> QED
  BY <1>3 DEF g

LEMMA OpenedPut ==
  ASSUME NEW file, DOMAIN file = {"len", "headers", "data"}, NEW offset, NEW s
  PROVE  HeaderPut(OpenedIn(file, offset, s), file, offset, SectionHeader(s, 0, TRUE))
<1> DEFINE header == SectionHeader(s, 0, TRUE)
           w == WriteHeader(file, offset, header)
           o == OpenedIn(file, offset, s)
<1>1. o = [w EXCEPT !.data = With(w.data, offset, <<>>)]
  BY DEF OpenedIn
<1>2. HeaderPut(w, file, offset, header)
  BY WrittenPut
<1> HIDE DEF w, o, header
<1>3. DOMAIN o = DOMAIN w /\ DOMAIN w = {"len", "headers", "data"}
  BY <1>1, <1>2 DEF HeaderPut
<1>4. o.headers = w.headers /\ o.len = w.len
  BY <1>1, <1>3
<1>5. HeaderPut(o, file, offset, header)
  BY <1>2, <1>3, <1>4 DEF HeaderPut
<1> QED
  BY <1>5 DEF o, header

(* add_section leaves a chain of headers that ends where the marker goes.   *)
LEMMA ChainTaken ==
  ASSUME NEW f, NEW m, NEW t, LogInv(f, m, front, t), front \in DOMAIN m,
         ChainInv(f, m, front, t), NEW s \in Stream, t[s].status # "open",
         \A u \in Stream \ {s} : streams[u] = t[u],
         streams \in [Stream -> LogStream], AddSection(s, f, m),
         SectionFits(clear_temporary_end_marker(m[front]), SectionSize[s])
           \/ Finished(f[front], prolog(front))
  PROVE  /\ ChainInv(files', slabs', front', streams')
         /\ slabs'[front'].marker = {}
<1> DEFINE kept == [Mapped(m) EXCEPT ![front] = clear_temporary_end_marker(@)]
           size == SectionSize[s]
           fits == SectionFits(kept[front], size)
           to == IF fits THEN front ELSE front + 1
           room == IF fits THEN kept
                   ELSE With([kept EXCEPT ![front] = NoRoom(@)], to, NewSlab)
           cut == IF fits THEN Trimmed(f, m) ELSE With(Trimmed(f, m), to, NewFile)
           at == SectionAt(room[to])
           new == [status |-> "open", slab |-> to, start |-> at, used |-> 0]
           header == SectionHeader(s, 0, TRUE)
<1>1. /\ SectionFits(room[to], size) /\ front' = to /\ to <= MaxSlab
      /\ slabs' = [room EXCEPT ![to] = WithSection(@, size)]
      /\ files' = [cut EXCEPT ![to] = OpenedIn(@, at, s)]
      /\ streams' = [streams EXCEPT ![s] = new]
  BY DEF AddSection
<1>2. /\ LogInv(Trimmed(f, m), kept, front, t)
      /\ front \in DOMAIN kept /\ kept[front].marker = {}
  BY SlabsCollected
<1>3. /\ ChainInv(Trimmed(f, m), kept, front, t) /\ Trimmed(f, m)[front] = f[front]
  BY ChainCollected
<1>4. fits \/ Finished(Trimmed(f, m)[front], prolog(front))
  <2>1. kept[front] = clear_temporary_end_marker(m[front])
    BY DEF Mapped, Stale
  <2> QED
    BY <1>3, <2>1
<1>5. /\ LogInv(cut, room, to, t) /\ to \in DOMAIN room /\ room[to].marker = {}
      /\ ChainInv(cut, room, to, t)
  <2>1. CASE fits
    BY <1>2, <1>3, <2>1
  <2>2. CASE ~fits
    <3> DEFINE g == Trimmed(f, m)
               k == [kept EXCEPT ![front] = NoRoom(@)]
               g2 == With(g, front + 1, NewFile)
               k2 == With(k, front + 1, NewSlab)
    <3>1. LogInv(g2, k2, front + 1, t)
      <4> HIDE DEF kept
      <4> QED
        BY <1>2, SlabCreated
    <3>2. /\ to = front + 1 /\ room = k2 /\ cut = g2
      BY <2>2
    <3> HIDE DEF kept, g
    <3>3. DOMAIN k = DOMAIN kept
      OBVIOUS
    <3> HIDE DEF k
    <3>4. /\ DOMAIN g2 = DOMAIN g \cup {front + 1} /\ g2[front + 1] = NewFile
          /\ \A i \in DOMAIN g \ {front + 1} : g2[i] = g[i]
          /\ DOMAIN k2 = DOMAIN kept \cup {front + 1} /\ k2[front + 1] = NewSlab
      BY <3>3 DEF With
    <3> HIDE DEF g2, k2
    <3>5. front < MaxSlab + 1 /\ Finished(g[front], prolog(front))
      <4>1. front \in Nat /\ MaxSlab \in Nat /\ front + 1 <= MaxSlab
        BY <1>1, <1>2, <3>2, UnifiedLogAssumption DEF LogInv
      <4> QED
        BY <1>4, <2>2, <4>1 DEF g
    <3>6. ChainInv(g2, k2, front + 1, t)
      <4>1. ChainInv(g, kept, front, t) /\ LogInv(g, kept, front, t)
        BY <1>2, <1>3 DEF g
      <4>2. /\ FileOK(g2[front + 1]) /\ g2[front + 1].len = SlabSize
            /\ FrontOK(g2[front + 1], k2[front + 1], 0)
        BY <3>4, NewFileOK
      <4> QED
        BY <1>2, <3>4, <3>5, <4>1, <4>2, ChainCreated
    <3> HIDE DEF room, cut, to
    <3> QED
      BY <3>1, <3>2, <3>4, <3>6, NewSlabGood
  <2> QED
    BY <2>1, <2>2
<1> HIDE DEF room, cut, to, fits, kept
<1>6. to \in DOMAIN cut /\ DOMAIN cut[to] = {"len", "headers", "data"}
  BY <1>5 DEF LogInv, FileInv
<1> DEFINE g == [cut EXCEPT ![to] = OpenedIn(@, at, s)]
           r == [streams EXCEPT ![s] = new]
<1>7. /\ DOMAIN g = DOMAIN cut /\ \A i \in DOMAIN cut \ {to} : g[i] = cut[i]
      /\ HeaderPut(g[to], cut[to], at, header)
  <2>1. g[to] = OpenedIn(cut[to], at, s)
    BY <1>6
  <2> HIDE DEF at, header
  <2> QED
    BY <1>6, <2>1, OpenedPut DEF header
<1>8. /\ r[s] = new /\ \A u \in Stream \ {s} : r[u] = t[u]
  <2> HIDE DEF new
  <2> QED
    OBVIOUS
<1>9. r[s].slab = to /\ r[s].start = at
  BY <1>8
<1> HIDE DEF g, r, new, header
<1> DEFINE k == [room EXCEPT ![to] = WithSection(@, size)]
<1>k. DOMAIN k = DOMAIN room /\ k[to] = WithSection(room[to], SectionSize[s])
  BY <1>5
<1> HIDE DEF k
<1>10. ChainInv(g, k, to, r)
  <2>1. /\ HeaderPut(g[to], cut[to], SectionAt(room[to]), header)
        /\ header.entry_type = s
        /\ header.next = align_to_next_page(SectionSize[s])
    BY <1>7 DEF header, SectionHeader
  <2>2. r[s].slab = to /\ r[s].start = SectionAt(room[to])
    BY <1>9
  <2>3. SectionFits(room[to], SectionSize[s])
    BY <1>1
  <2> HIDE DEF at, size
  <2> QED
    BY <1>5, <1>7, <1>8, <1>k, <2>1, <2>2, <2>3, ChainOpened
<1>11. WithSection(room[to], size).marker = {}
  <2>1. SlabInv(room[to]) /\ size \in Nat /\ size >= 2
    BY <1>5, Sizes DEF LogInv
  <2> QED
    BY <1>1, <1>5, <2>1, SectionAdded
<1>12. slabs'[to] = WithSection(room[to], size)
  BY <1>1, <1>5
<1> QED
  BY <1>1, <1>10, <1>11, <1>12 DEF g, r, k

LEMMA ChainKept ==
  ASSUME NEW f, NEW m, NEW n, NEW t, ChainInv(f, m, n, t), LogInv(f, m, n, t),
         NEW g, DOMAIN g = DOMAIN f, \A i \in DOMAIN f : SameChain(g[i], f[i]),
         NEW k, DOMAIN k = DOMAIN m,
         n \in DOMAIN m => Cursor(k[n]) = Cursor(m[n]) /\ k[n].marker = m[n].marker,
         NEW r,
         \A s \in Stream : r[s].status = "open" =>
           /\ t[s].status = "open" /\ r[s].slab = t[s].slab
           /\ r[s].start = t[s].start
  PROVE  ChainInv(g, k, n, r)
<1>1. /\ n \in Nat /\ DOMAIN f \subseteq 0..(MaxSlab + 1) /\ 0..n \subseteq DOMAIN f
      /\ \A i \in 0..(n - 1) : i \in DOMAIN f /\ Finished(f[i], prolog(i))
      /\ DOMAIN m \subseteq DOMAIN f /\ \A i \in DOMAIN m : f[i].len = SlabSize
  BY DEF ChainInv, LogInv
<1>2. \A i \in DOMAIN g : FileOK(g[i])
  BY DEF SameChain
<1>3. \A i \in 0..(n - 1) : Finished(g[i], prolog(i))
  <2> TAKE i \in 0..(n - 1)
  <2>1. SameChain(g[i], f[i]) /\ Finished(f[i], prolog(i)) /\ prolog(i) \in Nat
    BY <1>1, Prolog
  <2> QED
    BY <2>1 DEF SameChain, Finished
<1>4. \A i \in DOMAIN k : g[i].len = SlabSize
  BY <1>1 DEF SameChain
<1>5. n \in DOMAIN k => FrontOK(g[n], k[n], prolog(n))
  <2> HAVE n \in DOMAIN k
  <2>1. /\ SameChain(g[n], f[n]) /\ FrontOK(f[n], m[n], prolog(n))
        /\ Cursor(k[n]) = Cursor(m[n]) /\ k[n].marker = m[n].marker
        /\ prolog(n) \in Nat
    <3>1. n \in DOMAIN m /\ n \in DOMAIN f
      BY <1>1
    <3>2. FrontOK(f[n], m[n], prolog(n))
      BY <3>1 DEF ChainInv
    <3>3. prolog(n) \in Nat
      <4>1. n \in Nat
        BY <1>1
      <4>2. \A i \in Nat : prolog(i) \in Nat
        BY Prolog
      <4> QED
        BY <4>1, <4>2
    <3> QED
      BY <3>1, <3>2, <3>3
  <2> QED
    BY <2>1 DEF SameChain, FrontOK, End
<1>6. \A s \in Stream :
        r[s].status = "open" => HeaderOf(s, g[r[s].slab].headers, r[s].start)
  <2> SUFFICES ASSUME NEW s \in Stream, r[s].status = "open"
               PROVE  HeaderOf(s, g[r[s].slab].headers, r[s].start)
    OBVIOUS
  <2> DEFINE i == t[s].slab
  <2>1. /\ t[s].status = "open" /\ r[s].slab = i /\ r[s].start = t[s].start
        /\ HeaderOf(s, f[i].headers, t[s].start)
    BY DEF ChainInv
  <2>2. i \in DOMAIN f
    BY <1>1, <2>1, OpenMapped
  <2>3. SameChain(g[i], f[i])
    BY <2>2
  <2> QED
    BY <2>1, <2>3 DEF SameChain, HeaderOf
<1> QED
  BY <1>1, <1>2, <1>3, <1>4, <1>5, <1>6 DEF ChainInv

LEMMA SameFile ==
  ASSUME NEW file, FileOK(file)
  PROVE  SameChain(file, file)
BY DEF SameChain

(* A section is closed: a reader comes to the same headers.                 *)
LEMMA ChainClosed ==
  ASSUME LogInv(files, slabs, front, streams), ChainInv(files, slabs, front, streams),
         NEW s \in Stream, streams[s].status = "open", NEW r,
         \A u \in Stream : r[u].status = "open" =>
           /\ streams[u].status = "open" /\ r[u].slab = streams[u].slab
           /\ r[u].start = streams[u].start
  PROVE  LET k == SectionsFlushed(slabs, s) IN
         /\ ChainInv(HeaderClosed(files, s), k, front, r)
         /\ DOMAIN k = DOMAIN slabs
         /\ \A i \in DOMAIN slabs :
              k[i].pos = slabs[i].pos /\ k[i].marker = slabs[i].marker
<1> DEFINE t == streams[s]
           n == t.slab
           len == align_to_next_page(SectionSize[s])
           x == slabs[n]
           d == Dirty(x, t.start)
           y == FlushClosed(d, t.start, len)
           header == SectionHeader(s, t.used, FALSE)
           w == WriteHeader(files[n], t.start, header)
           k == SectionsFlushed(slabs, s)
           g == HeaderClosed(files, s)
<1>1. /\ DOMAIN slabs \subseteq DOMAIN files
      /\ \A i \in DOMAIN slabs : SlabInv(slabs[i]) /\ FileInv(files[i], slabs[i])
      /\ OpenInv(s, files, slabs, streams)
      /\ \A i \in DOMAIN files : FileOK(files[i])
      /\ HeaderOf(s, files[n].headers, t.start)
  BY DEF LogInv, ChainInv
<1>2. /\ n \in DOMAIN slabs /\ n \in DOMAIN files /\ t.start \in Offsets(x)
      /\ SlabInv(x) /\ FileOK(files[n]) /\ len \in Nat
  BY <1>1, Sizes, Align DEF OpenInv, Offsets
<1>3. /\ SlabInv(d) /\ Offsets(d) = Offsets(x) /\ d.pos = x.pos
      /\ d.marker = x.marker
  BY <1>2, DirtyKeeps DEF Offsets
<1>4. y.pos = x.pos /\ y.marker = x.marker
  BY <1>2, <1>3, SectionFlushed
<1>5. /\ DOMAIN k = DOMAIN slabs /\ k[n] = y
      /\ \A i \in DOMAIN slabs \ {n} : k[i] = slabs[i]
  BY <1>2 DEF SectionsFlushed
<1>6. /\ DOMAIN g = DOMAIN files /\ g[n] = w
      /\ \A i \in DOMAIN files \ {n} : g[i] = files[i]
  BY <1>2 DEF HeaderClosed
<1>7. header.entry_type = s /\ header.next = len
  BY DEF SectionHeader
<1> HIDE DEF header
<1>8. HeaderPut(w, files[n], t.start, header)
  <2> DEFINE file == files[n]
             at == t.start
  <2>1. DOMAIN file = {"len", "headers", "data"}
    BY <1>2 DEF FileOK
  <2> HIDE DEF file, at
  <2>2. HeaderPut(WriteHeader(file, at, header), file, at, header)
    BY <2>1, WrittenPut
  <2> QED
    BY <2>2 DEF file, at
<1> HIDE DEF w, y, d, k, g
<1>9. SameChain(w, files[n])
  <2>1. HeaderSwapped(w, files[n], t.start, header)
    BY <1>1, <1>2, <1>7, <1>8 DEF HeaderOf, HeaderSwapped
  <2> DEFINE file == files[n]
             at == t.start
  <2>2. HeaderSwapped(w, file, at, header)
    BY <2>1
  <2> HIDE DEF file, at
  <2>3. SameChain(w, file)
    BY <2>2, HeaderReplaced
  <2> QED
    BY <2>3 DEF file
<1>10. \A i \in DOMAIN files : SameChain(g[i], files[i])
  BY <1>1, <1>6, <1>9, SameFile
<1>11. \A i \in DOMAIN slabs :
         k[i].pos = slabs[i].pos /\ k[i].marker = slabs[i].marker
  BY <1>4, <1>5
<1>12. front \in DOMAIN slabs =>
         Cursor(k[front]) = Cursor(slabs[front])
           /\ k[front].marker = slabs[front].marker
  BY <1>11 DEF Cursor
<1>13. ChainInv(g, k, front, r)
  <2> DEFINE f == files
             m == slabs
             u == streams
  <2>1. /\ LogInv(f, m, front, u) /\ ChainInv(f, m, front, u)
        /\ DOMAIN g = DOMAIN f /\ \A i \in DOMAIN f : SameChain(g[i], f[i])
        /\ DOMAIN k = DOMAIN m
        /\ front \in DOMAIN m =>
             Cursor(k[front]) = Cursor(m[front]) /\ k[front].marker = m[front].marker
        /\ \A v \in Stream : r[v].status = "open" =>
             u[v].status = "open" /\ r[v].slab = u[v].slab /\ r[v].start = u[v].start
    BY <1>5, <1>6, <1>10, <1>12
  <2> HIDE DEF f, m, u
  <2> QED
    BY <2>1, ChainKept
<1> QED
  BY <1>5, <1>11, <1>13 DEF k, g

LEMMA ChainPut ==
  ASSUME NEW f, NEW m, NEW n, LogInv(f, m, n, streams), ChainInv(f, m, n, streams),
         NEW s \in Stream, streams[s].status = "open", Put(s, streams[s], f, m)
  PROVE  /\ ChainInv(files', slabs', n, streams')
         /\ DOMAIN slabs' = DOMAIN m
         /\ \A i \in DOMAIN m :
              slabs'[i].pos = m[i].pos /\ slabs'[i].marker = m[i].marker
<1> DEFINE t == streams[s]
           i == t.slab
           unit == t.start + Unit + t.used
           y == Dirty(m[i], unit)
           entries == Append(f[i].data[t.start], <<run, logged[s] + 1>>)
           w == [f[i] EXCEPT !.data[t.start] = entries]
           new == [t EXCEPT !.used = t.used + 1]
<1>1. /\ DOMAIN m \subseteq DOMAIN f /\ streams \in [Stream -> LogStream]
      /\ \A j \in DOMAIN m : SlabInv(m[j]) /\ FileInv(f[j], m[j])
      /\ \A j \in DOMAIN f : FileOK(f[j])
  BY DEF LogInv, ChainInv
<1>2. i \in DOMAIN m /\ i \in DOMAIN f /\ t \in LogStream
  BY <1>1, OpenMapped
<1>3. files' = [f EXCEPT ![i] = w]
  BY <1>2 DEF Put
<1>4. slabs' = [m EXCEPT ![i] = y] /\ streams' = [streams EXCEPT ![s] = new]
  BY DEF Put
<1>5. /\ y.pos = m[i].pos /\ y.marker = m[i].marker
  BY <1>1, <1>2, DirtyKeeps
<1>6. SameChain(w, f[i])
  <2> HIDE DEF entries
  <2>1. FileOK(f[i])
    BY <1>1, <1>2
  <2>2. DOMAIN w = DOMAIN f[i] /\ w.headers = f[i].headers /\ w.len = f[i].len
    BY <2>1 DEF FileOK
  <2> HIDE DEF w
  <2>3. FileOK(w)
    BY <2>1, <2>2 DEF FileOK
  <2> QED
    BY <2>2, <2>3 DEF SameChain
<1> HIDE DEF w, y, entries
<1>7. /\ DOMAIN files' = DOMAIN f /\ \A j \in DOMAIN f : SameChain(files'[j], f[j])
  BY <1>1, <1>2, <1>3, <1>6, SameFile
<1>8. /\ DOMAIN slabs' = DOMAIN m
      /\ \A j \in DOMAIN m :
           slabs'[j].pos = m[j].pos /\ slabs'[j].marker = m[j].marker
  BY <1>2, <1>4, <1>5
<1>9. n \in DOMAIN m =>
        Cursor(slabs'[n]) = Cursor(m[n]) /\ slabs'[n].marker = m[n].marker
  BY <1>8 DEF Cursor
<1>10. \A u \in Stream : streams'[u].status = "open" =>
         /\ streams[u].status = "open" /\ streams'[u].slab = streams[u].slab
         /\ streams'[u].start = streams[u].start
  <2>1. new.slab = t.slab /\ new.start = t.start
    BY <1>2 DEF LogStream
  <2>2. streams'[s] = new /\ \A u \in Stream \ {s} : streams'[u] = streams[u]
    BY <1>1, <1>4
  <2> HIDE DEF new
  <2> QED
    BY <2>1, <2>2
<1>11. ChainInv(files', slabs', n, streams')
  <2> DEFINE g == files'
             k == slabs'
             r == streams'
             u == streams
  <2>1. /\ LogInv(f, m, n, u) /\ ChainInv(f, m, n, u)
        /\ DOMAIN g = DOMAIN f /\ \A j \in DOMAIN f : SameChain(g[j], f[j])
        /\ DOMAIN k = DOMAIN m
        /\ n \in DOMAIN m => Cursor(k[n]) = Cursor(m[n]) /\ k[n].marker = m[n].marker
        /\ \A v \in Stream : r[v].status = "open" =>
             u[v].status = "open" /\ r[v].slab = u[v].slab /\ r[v].start = u[v].start
    BY <1>7, <1>8, <1>9, <1>10
  <2> HIDE DEF g, k, r, u
  <2>2. ChainInv(g, k, n, r)
    BY <2>1, ChainKept
  <2> QED
    BY <2>2 DEF g, k, r
<1> QED
  BY <1>8, <1>11

\* What place_end_marker makes of the files f and the slabs m.
MarkerPut(p, f, m, header) ==
  /\ MarkerFits(m[front]) =>
       /\ p.front = front /\ p.slabs = [m EXCEPT ![front] = Marked(@)]
       /\ p.files = [f EXCEPT ![front] = WriteHeader(@, MarkerAt(m[front]), header)]
  /\ ~MarkerFits(m[front]) =>
       /\ p.front = front + 1 /\ p.slabs = With(m, front + 1, Marked(NewSlab))
       /\ p.files = With(f, front + 1, WriteHeader(NewFile, 0, header))

LEMMA MarkerIsPut ==
  ASSUME NEW f, NEW m, NEW b
  PROVE  \E header :
           /\ header.entry_type = LastEntry /\ header.next = Unit
           /\ MarkerPut(Marker(f, m, b), f, m, header)
<1> DEFINE header == MarkerHeader(b)
           p == Marker(f, m, b)
<1>1. header.entry_type = LastEntry /\ header.next = Unit
  BY DEF MarkerHeader
<1>2. MarkerPut(p, f, m, header)
  <2> HIDE DEF header
  <2>1. CASE MarkerFits(m[front])
    <3>1. /\ p.front = front /\ p.slabs = [m EXCEPT ![front] = Marked(@)]
          /\ p.files = [f EXCEPT ![front] =
                          WriteHeader(@, MarkerAt(m[front]), header)]
      BY <2>1 DEF Marker, header
    <3> HIDE DEF p
    <3> QED
      BY <2>1, <3>1 DEF MarkerPut
  <2>2. CASE ~MarkerFits(m[front])
    <3>1. /\ p.front = front + 1 /\ p.slabs = With(m, front + 1, Marked(NewSlab))
          /\ p.files = With(f, front + 1, WriteHeader(NewFile, 0, header))
      BY <2>2 DEF Marker, header
    <3> HIDE DEF p
    <3> QED
      BY <2>2, <3>1 DEF MarkerPut
  <2> QED
    BY <2>1, <2>2
<1> QED
  BY <1>1, <1>2

(* A marker leaves a chain of headers that ends with it.                    *)
LEMMA ChainMarked ==
  ASSUME NEW f, NEW m, NEW t, LogInv(f, m, front, t), front \in DOMAIN m,
         ChainInv(f, m, front, t), m[front].marker = {}, NEW header,
         header.entry_type = LastEntry, header.next = Unit, NEW p,
         MarkerPut(p, f, m, header), p.front <= MaxSlab + 1
  PROVE  /\ ChainInv(p.files, p.slabs, p.front, t) /\ p.front \in DOMAIN p.slabs
         /\ p.slabs[p.front].marker # {} /\ p.front \in Nat
         /\ \A i \in DOMAIN p.slabs : SlabInv(p.slabs[i])
<1> DEFINE x == m[front]
           at == MarkerAt(x)
<1>1. /\ front \in Nat /\ DOMAIN m \subseteq DOMAIN f \cap (0..front)
      /\ \A i \in DOMAIN m : SlabInv(m[i])
      /\ \A i \in DOMAIN f : FileOK(f[i])
      /\ FrontOK(f[front], x, prolog(front)) /\ f[front].len = SlabSize
      /\ \A i \in 0..(front - 1) : Finished(f[i], prolog(i))
      /\ \A i \in DOMAIN m : f[i].len = SlabSize
      /\ DOMAIN f \subseteq 0..(MaxSlab + 1) /\ 0..front \subseteq DOMAIN f
      /\ MaxSlab \in Nat
  BY UnifiedLogAssumption DEF LogInv, ChainInv
<1>2. CASE MarkerFits(x)
  <2> DEFINE y == Marked(x)
             w == WriteHeader(f[front], at, header)
             k == [m EXCEPT ![front] = y]
             g == [f EXCEPT ![front] = w]
  <2>1. p.front = front /\ p.slabs = k /\ p.files = g
    BY <1>2 DEF MarkerPut
  <2>2. HeaderPut(w, f[front], at, header)
    <3> DEFINE file == f[front]
    <3>1. DOMAIN file = {"len", "headers", "data"}
      BY <1>1 DEF FileOK
    <3> HIDE DEF file, at
    <3>2. HeaderPut(WriteHeader(file, at, header), file, at, header)
      BY <3>1, WrittenPut
    <3> QED
      BY <3>2 DEF file
  <2> HIDE DEF w
  <2>3. /\ FileOK(w) /\ FrontOK(w, y, prolog(front)) /\ y.marker # {} /\ SlabInv(y)
        /\ w.len = SlabSize
    <3>1. SlabInv(x) /\ FileOK(f[front]) /\ FrontOK(f[front], x, prolog(front))
      BY <1>1
    <3> QED
      BY <1>1, <1>2, <2>2, <3>1, MarkerFollows DEF HeaderPut
  <2>4. /\ DOMAIN k = DOMAIN m /\ k[front] = y
        /\ \A i \in DOMAIN m \ {front} : k[i] = m[i]
        /\ DOMAIN g = DOMAIN f /\ g[front] = w
        /\ \A i \in DOMAIN f \ {front} : g[i] = f[i]
    BY <1>1
  <2> HIDE DEF k, g, y
  <2>5. ASSUME NEW s \in Stream, t[s].status = "open"
        PROVE  HeaderOf(s, g[t[s].slab].headers, t[s].start)
    <3> DEFINE i == t[s].slab
    <3>1. HeaderOf(s, f[i].headers, t[s].start) /\ i \in DOMAIN f
      BY <1>1, <2>5, OpenMapped DEF ChainInv
    <3>2. CASE i = front
      <4>1. t[s].start \in Nat /\ t[s].start + SectionSize[s] <= Cursor(x)
            /\ SectionSize[s] \in Nat /\ SectionSize[s] >= 2
        BY <2>5, <3>2, Sizes DEF LogInv, OpenInv, LogStream
      <4>2. Cursor(x) \in Nat /\ at \in Nat /\ Cursor(x) <= at
        BY <1>1, <1>2, MarkerPlaced, SlabFields
      <4>3. t[s].start # at
        BY <4>1, <4>2
      <4> QED
        BY <2>2, <2>4, <3>1, <3>2, <4>3 DEF HeaderOf, HeaderPut
    <3>3. CASE i # front
      BY <2>4, <3>1, <3>3
    <3> QED
      BY <3>2, <3>3
  <2>6. \A i \in DOMAIN g : FileOK(g[i])
    BY <1>1, <2>3, <2>4
  <2>7. \A i \in 0..(front - 1) : Finished(g[i], prolog(i))
    BY <1>1, <2>4
  <2>8. \A i \in DOMAIN k : g[i].len = SlabSize /\ SlabInv(k[i])
    BY <1>1, <2>3, <2>4
  <2>9. ChainInv(g, k, front, t)
    BY <1>1, <2>3, <2>4, <2>5, <2>6, <2>7, <2>8 DEF ChainInv
  <2> QED
    BY <1>1, <2>1, <2>3, <2>4, <2>8, <2>9
<1>3. CASE ~MarkerFits(x)
  <2> DEFINE n == front + 1
             y == Marked(NewSlab)
             w == WriteHeader(NewFile, 0, header)
             k == With(m, n, y)
             g == With(f, n, w)
  <2>1. p.front = n /\ p.slabs = k /\ p.files = g
    BY <1>3 DEF MarkerPut
  <2>2. HeaderPut(w, NewFile, 0, header)
    <3> DEFINE file == NewFile
    <3>1. DOMAIN file = {"len", "headers", "data"}
      BY DEF NewFile
    <3> HIDE DEF file
    <3>2. HeaderPut(WriteHeader(file, 0, header), file, 0, header)
      BY <3>1, WrittenPut
    <3> QED
      BY <3>2 DEF file
  <2> HIDE DEF w
  <2>3. /\ FileOK(w) /\ FrontOK(w, y, 0) /\ y.marker # {} /\ SlabInv(y)
        /\ w.len = SlabSize
    <3>1. /\ FileOK(NewFile) /\ FrontOK(NewFile, NewSlab, 0) /\ SlabInv(NewSlab)
          /\ NewSlab.marker = {} /\ MarkerFits(NewSlab) /\ NewFile.len = SlabSize
      BY NewSlabGood, NewFileOK
    <3>2. MarkerAt(NewSlab) = 0
      <4>1. NewSlab.pos = 0
        BY DEF NewSlab
      <4> QED
        BY <4>1, AlignZero DEF MarkerAt
    <3>3. HeaderPut(w, NewFile, MarkerAt(NewSlab), header)
      BY <2>2, <3>2
    <3>4. w.len = SlabSize
      BY <2>2, <3>1 DEF HeaderPut
    <3> QED
      BY <3>1, <3>3, <3>4, MarkerFollows
  <2>4. /\ DOMAIN k = DOMAIN m \cup {n} /\ k[n] = y
        /\ \A i \in DOMAIN m : k[i] = m[i]
        /\ DOMAIN g = DOMAIN f \cup {n} /\ g[n] = w
        /\ \A i \in DOMAIN f \ {n} : g[i] = f[i]
    <3>1. n \notin DOMAIN m
      BY <1>1
    <3> QED
      BY <3>1 DEF With
  <2> HIDE DEF k, g, y
  <2>5. Finished(f[front], prolog(front))
    BY <1>1, <1>3, FullFinished
  <2>6. front < MaxSlab + 1
    BY <1>1, <2>1
  <2>7. ChainInv(g, k, n, t)
    <3>1. /\ FileOK(g[front + 1]) /\ g[front + 1].len = SlabSize
          /\ FrontOK(g[front + 1], k[front + 1], 0)
      BY <2>3, <2>4
    <3>2. /\ DOMAIN g = DOMAIN f \cup {front + 1}
          /\ \A i \in DOMAIN f \ {front + 1} : g[i] = f[i]
          /\ DOMAIN k = DOMAIN m \cup {front + 1}
      BY <2>4
    <3> QED
      BY <2>5, <2>6, <3>1, <3>2, ChainCreated
  <2>8. \A i \in DOMAIN k : SlabInv(k[i])
    BY <1>1, <2>3, <2>4
  <2> QED
    BY <1>1, <2>1, <2>3, <2>4, <2>7, <2>8
<1> QED
  BY <1>2, <1>3

(* When the log is dropped, every file is cut and the last one ends with    *)
(* the marker.                                                              *)
LEMMA ChainCut ==
  ASSUME NEW f, NEW m, NEW n, NEW t, ChainInv(f, m, n, t), n \in DOMAIN m,
         DOMAIN m \subseteq DOMAIN f,
         \A i \in DOMAIN m : SlabInv(m[i]), m[n].marker # {},
         \A s \in Stream : t[s].status # "open", NEW g,
         g = [i \in DOMAIN f |->
                IF i \in DOMAIN m THEN Trim(f[i], m[i].pos) ELSE f[i]]
  PROVE  ChainInv(g, <<>>, n, t) /\ Sealed(g[n], prolog(n))
<1>1. /\ n \in Nat /\ DOMAIN f \subseteq 0..(MaxSlab + 1) /\ 0..n \subseteq DOMAIN f
      /\ \A i \in DOMAIN f : FileOK(f[i])
      /\ \A i \in 0..(n - 1) : i \in DOMAIN f /\ Finished(f[i], prolog(i))
      /\ \A i \in DOMAIN m : f[i].len = SlabSize
      /\ FrontOK(f[n], m[n], prolog(n))
  BY DEF ChainInv
<1>2. ASSUME NEW i \in DOMAIN f
      PROVE  /\ FileOK(g[i])
             /\ \A from \in Nat : Finished(f[i], from) => Finished(g[i], from)
  <2>1. CASE i \in DOMAIN m
    <3>1. /\ g[i] = Trim(f[i], m[i].pos) /\ FileOK(f[i]) /\ f[i].len = SlabSize
          /\ m[i].pos \in Nat /\ m[i].pos <= SlabSize
      BY <1>1, <2>1, SlabFields
    <3> QED
      BY <3>1, Cut
  <2>2. CASE i \notin DOMAIN m
    BY <1>1, <2>2
  <2> QED
    BY <2>1, <2>2
<1>3. Sealed(g[n], prolog(n))
  <2> DEFINE x == m[n]
             file == f[n]
             h == g[n]
             from == prolog(n)
  <2>1. /\ FileOK(file) /\ file.len = SlabSize /\ SlabInv(x) /\ x.marker # {}
        /\ FrontOK(file, x, from) /\ x.pos \in Nat /\ x.pos <= SlabSize
        /\ h = Trim(file, x.pos) /\ from \in Nat /\ Cursor(x) \in Nat
    BY <1>1, SlabFields, Prolog
  <2> HIDE DEF x, file, h, from
  <2>2. Sealed(file, from) /\ Cursor(x) < x.pos
    BY <2>1, FrontSealed
  <2>3. /\ h.len = x.pos /\ DOMAIN h.headers = {p \in DOMAIN file.headers : p < x.pos}
        /\ Follows(h.headers, from) \subseteq Follows(file.headers, from)
    BY <2>1, Cut
  <2>4. ASSUME NEW p \in Follows(h.headers, from)
        PROVE  p \in DOMAIN h.headers /\ p < h.len
    <3>1. p \in DOMAIN file.headers
      BY <2>2, <2>3 DEF Sealed
    <3>2. p \in Nat /\ p <= Cursor(x)
      BY <2>1, <3>1 DEF FrontOK, FileOK
    <3>3. p < x.pos
      BY <2>1, <2>2, <3>2
    <3> QED
      BY <2>3, <3>1, <3>3
  <2>5. Sealed(h, from)
    BY <2>4 DEF Sealed
  <2> QED
    BY <2>5 DEF h, from
<1>4. DOMAIN g = DOMAIN f /\ DOMAIN (<<>>) = {}
  OBVIOUS
<1> HIDE DEF FileOK
<1>5. \A i \in DOMAIN g : FileOK(g[i])
  BY <1>2, <1>4
<1>6. \A i \in 0..(n - 1) : Finished(g[i], prolog(i))
  BY <1>1, <1>2, Prolog
<1>7. ChainInv(g, <<>>, n, t)
  BY <1>1, <1>4, <1>5, <1>6 DEF ChainInv
<1> QED
  BY <1>3, <1>7

LEMMA ChainCleared ==
  ASSUME NEW f, NEW m, NEW n, NEW t, LogInv(f, m, n, t), ChainInv(f, m, n, t),
         n \in DOMAIN m, \A s \in Stream : t[s].status # "open", NEW k,
         k = [m EXCEPT ![n] = clear_temporary_end_marker(@)]
  PROVE  /\ LogInv(f, k, n, t) /\ ChainInv(f, k, n, t) /\ n \in DOMAIN k
         /\ k[n].marker = {} /\ k[n].pos = Cursor(m[n])
<1> DEFINE c == clear_temporary_end_marker(m[n])
<1>1. /\ n \in Nat /\ DOMAIN m \subseteq DOMAIN f \cap (0..n)
      /\ t \in [Stream -> LogStream]
      /\ \A i \in DOMAIN m : SlabInv(m[i]) /\ FileInv(f[i], m[i])
  BY DEF LogInv
<1>2. /\ SlabInv(c) /\ Cursor(c) = Cursor(m[n]) /\ c.marker = {}
      /\ c.pos = Cursor(m[n]) /\ c.synced = m[n].synced
  BY <1>1, Cleared
<1>3. /\ DOMAIN k = DOMAIN m /\ k[n] = c
      /\ \A i \in DOMAIN m \ {n} : k[i] = m[i]
  OBVIOUS
<1> HIDE DEF c
<1>4. FileInv(f[n], c)
  BY <1>1, <1>2 DEF FileInv
<1>5. LogInv(f, k, n, t)
  <2>1. \A i \in DOMAIN k : SlabInv(k[i]) /\ FileInv(f[i], k[i])
    BY <1>1, <1>2, <1>3, <1>4
  <2> QED
    BY <1>1, <1>3, <2>1 DEF LogInv
<1>6. FrontOK(f[n], c, prolog(n))
  <2>1. FrontOK(f[n], m[n], prolog(n))
    BY DEF ChainInv
  <2> QED
    BY <1>2, <2>1 DEF FrontOK, End
<1>7. ChainInv(f, k, n, t)
  BY <1>3, <1>6 DEF ChainInv
<1> QED
  BY <1>2, <1>3, <1>5, <1>7

(* A run begins with an empty first file, whatever the others hold.         *)
LEMMA ChainBegins ==
  ASSUME NEW f, DOMAIN f \subseteq 0..(MaxSlab + 1), \A i \in DOMAIN f : FileOK(f[i])
  PROVE  LET m == With(<<>>, 0, [NewSlab EXCEPT !.pos = Page]) IN
         /\ ChainInv(With(f, 0, NewFile), m, 0, [s \in Stream |-> NoStream])
         /\ m[0].marker = {} /\ m[0].pos = Page
         /\ DOMAIN With(f, 0, NewFile)[0].headers = {}
<1> DEFINE x == [NewSlab EXCEPT !.pos = Page]
           m == With(<<>>, 0, x)
           g == With(f, 0, NewFile)
           t == [s \in Stream |-> NoStream]
<1>1. x.marker = {} /\ x.pos = Page
  BY DEF NewSlab
<1>2. FileOK(NewFile) /\ NewFile.len = SlabSize /\ FrontOK(NewFile, x, Page)
  BY NewFileOK
<1> HIDE DEF x
<1>3. /\ DOMAIN m = {0} /\ m[0] = x /\ DOMAIN g = DOMAIN f \cup {0} /\ g[0] = NewFile
      /\ \A i \in DOMAIN f \ {0} : g[i] = f[i]
  BY DEF With
<1>4. (\A s \in Stream : t[s].status # "open") /\ DOMAIN g[0].headers = {}
  BY <1>3 DEF NoStream, NewFile
<1> HIDE DEF m, g, t
<1>5. MaxSlab \in Nat /\ prolog(0) = Page
  BY UnifiedLogAssumption DEF prolog
<1>6. /\ \A i \in DOMAIN g : FileOK(g[i])
      /\ DOMAIN g \subseteq 0..(MaxSlab + 1) /\ 0..0 \subseteq DOMAIN g
      /\ 0..(0 - 1) = {}
  BY <1>2, <1>3, <1>5
<1>7. ChainInv(g, m, 0, t)
  BY <1>2, <1>3, <1>4, <1>5, <1>6 DEF ChainInv
<1> QED
  BY <1>1, <1>3, <1>4, <1>7 DEF g, m, t, x

----------------------------------------------------------------------------
(* Each action leaves a chain of headers, ended by the marker whenever no    *)
(* add_section is under way.                                                 *)

\* The first slab has room for a section of any stream behind its main header.
FirstFits ==
  \A s \in Stream : Page + align_to_next_page(SectionSize[s]) <= SlabSize

Begun == \E s \in Stream : streams[s].status # "none"

MarkInv ==
  /\ ~closed => (slabs[front].marker # {} <=> lock = Free /\ Begun)
  /\ ~closed /\ lock = Free /\ ~Begun =>
       front = 0 /\ slabs[front].pos = Page /\ DOMAIN files[front].headers = {}
  /\ lock # Free => Begun
  /\ closed => Sealed(files[front], prolog(front))

ReadInv == Inv /\ ChainInv(files, slabs, front, streams) /\ MarkInv

\* A new section fits behind the main header, or there is a marker.
LEMMA Takeable ==
  ASSUME FirstFits, ReadInv, ~closed, lock = Free, NEW s \in Stream, NEW f, NEW m,
         SlabInv(m[front]), FileOK(f[front]),
         f[front].len = SlabSize, FrontOK(f[front], m[front], prolog(front)),
         m[front].pos = slabs[front].pos, m[front].marker = slabs[front].marker
  PROVE  \/ SectionFits(clear_temporary_end_marker(m[front]), SectionSize[s])
         \/ Finished(f[front], prolog(front))
<1> DEFINE x == m[front]
           c == clear_temporary_end_marker(x)
<1>1. CASE Begun
  <2>1. x.marker # {}
    BY <1>1 DEF ReadInv, MarkInv
  <2> QED
    BY <2>1, FrontSealed, SealedFinished
<1>2. CASE ~Begun
  <2>1. x.pos = Page /\ x.marker = {}
    BY <1>2 DEF ReadInv, MarkInv
  <2>2. c.pos = Page
    BY <2>1 DEF clear_temporary_end_marker
  <2> HIDE DEF c
  <2>3. SectionAt(c) = Page
    BY <2>2, AlignPage DEF SectionAt
  <2>4. SectionFits(c, SectionSize[s])
    BY <2>3 DEF SectionFits, FirstFits
  <2> QED
    BY <2>4 DEF c
<1> QED
  BY <1>1, <1>2

LEMMA TakenBegun ==
  ASSUME NEW f, NEW m, NEW s \in Stream, streams \in [Stream -> LogStream],
         AddSection(s, f, m)
  PROVE  Begun'
<1>1. \E to, at :
        streams' = [streams EXCEPT ![s] =
                      [status |-> "open", slab |-> to, start |-> at, used |-> 0]]
  BY DEF AddSection
<1>2. streams'[s].status = "open"
  BY <1>1, SMT
<1> QED
  BY <1>2 DEF Begun

LEMMA OpenReads ==
  ASSUME FirstFits, ReadInv, NEW s \in Stream, Open(s)
  PROVE  ReadInv'
<1> DEFINE f == files
           m == slabs
           t == streams
<1>1. /\ LogInv(f, m, front, t) /\ ChainInv(f, m, front, t) /\ front \in DOMAIN m
      /\ streams \in [Stream -> LogStream] /\ t[s].status # "open"
      /\ AddSection(s, f, m) /\ ~closed /\ lock = Free /\ closed' = closed
      /\ lock' = [holder |-> s, entry |-> "none"] /\ Inv'
      /\ \A u \in Stream \ {s} : streams[u] = t[u]
  BY OpenKeeps DEF ReadInv, Inv, LogInv, Open
<1>2. /\ SlabInv(m[front]) /\ FileOK(f[front]) /\ f[front].len = SlabSize
      /\ FrontOK(f[front], m[front], prolog(front))
      /\ m[front].pos = slabs[front].pos /\ m[front].marker = slabs[front].marker
  BY <1>1 DEF LogInv, ChainInv
<1> HIDE DEF f, m, t
<1>3. \/ SectionFits(clear_temporary_end_marker(m[front]), SectionSize[s])
      \/ Finished(f[front], prolog(front))
  BY <1>1, <1>2, Takeable
<1>4. ChainInv(files', slabs', front', streams') /\ slabs'[front'].marker = {}
  BY <1>1, <1>3, ChainTaken
<1>5. lock' # Free
  BY <1>1, MarkerIsNoStream DEF Free
<1>6. Begun'
  BY <1>1, TakenBegun
<1> QED
  BY <1>1, <1>4, <1>5, <1>6 DEF ReadInv, MarkInv

LEMMA RollReads ==
  ASSUME FirstFits, ReadInv, NEW s \in Stream, Roll(s)
  PROVE  ReadInv'
<1> DEFINE f == HeaderClosed(files, s)
           m == SectionsFlushed(slabs, s)
           t == [streams EXCEPT ![s].status = "closed"]
<1>1. /\ LogInv(files, slabs, front, streams) /\ streams[s].status = "open"
      /\ ChainInv(files, slabs, front, streams)
      /\ streams \in [Stream -> LogStream] /\ AddSection(s, f, m) /\ lock = Free
      /\ closed' = closed /\ lock'.holder = s /\ Inv'
  BY RollKeeps DEF ReadInv, Inv, LogInv, Roll
<1>2. ~closed /\ front \in DOMAIN slabs
  BY <1>1, OpenMeansRunning DEF ReadInv, Inv
<1>3. LogInv(f, m, front, t) /\ DOMAIN m = DOMAIN slabs
  BY <1>1, SectionClosed
<1>4. /\ t[s].status # "open" /\ \A u \in Stream \ {s} : streams[u] = t[u]
  <2>1. t[s] = [streams[s] EXCEPT !.status = "closed"] /\ streams[s] \in LogStream
    BY <1>1
  <2>2. [streams[s] EXCEPT !.status = "closed"].status = "closed"
    BY <2>1 DEF LogStream
  <2> QED
    BY <1>1, <2>1, <2>2
<1>5. \A u \in Stream : t[u].status = "open" =>
        /\ streams[u].status = "open" /\ t[u].slab = streams[u].slab
        /\ t[u].start = streams[u].start
  BY <1>4
<1> HIDE DEF t
<1>6. /\ ChainInv(f, m, front, t)
      /\ \A i \in DOMAIN slabs :
           m[i].pos = slabs[i].pos /\ m[i].marker = slabs[i].marker
  BY <1>1, <1>5, ChainClosed
<1> HIDE DEF f, m
<1>7. \/ SectionFits(clear_temporary_end_marker(m[front]), SectionSize[s])
      \/ Finished(f[front], prolog(front))
  <2>1. /\ \A i \in DOMAIN m : SlabInv(m[i])
        /\ FileOK(f[front]) /\ f[front].len = SlabSize
        /\ FrontOK(f[front], m[front], prolog(front))
    BY <1>2, <1>3, <1>6 DEF LogInv, ChainInv
  <2> QED
    BY <1>1, <1>2, <1>3, <1>6, <2>1, Takeable
<1>8. ChainInv(files', slabs', front', streams') /\ slabs'[front'].marker = {}
  BY <1>1, <1>2, <1>3, <1>4, <1>6, <1>7, ChainTaken
<1>9. lock' # Free
  BY <1>1, MarkerIsNoStream DEF Free
<1>10. Begun'
  BY <1>1, TakenBegun
<1> QED
  BY <1>1, <1>2, <1>8, <1>9, <1>10 DEF ReadInv, MarkInv

LEMMA LogEntryReads ==
  ASSUME ReadInv, NEW s \in Stream, LogEntry(s)
  PROVE  ReadInv'
<1>1. /\ LogInv(files, slabs, front, streams) /\ streams[s].status = "open"
      /\ ChainInv(files, slabs, front, streams)
      /\ Put(s, streams[s], files, slabs) /\ streams \in [Stream -> LogStream]
      /\ front' = front /\ lock' = lock /\ closed' = closed /\ Inv'
  BY LogEntryKeeps DEF ReadInv, Inv, LogInv, LogEntry
<1>2. ~closed /\ front \in DOMAIN slabs
  BY <1>1, OpenMeansRunning DEF ReadInv, Inv
<1>3. /\ ChainInv(files', slabs', front, streams')
      /\ \A i \in DOMAIN slabs :
           slabs'[i].pos = slabs[i].pos /\ slabs'[i].marker = slabs[i].marker
  BY <1>1, ChainPut
<1>4. Begun /\ Begun'
  <2>1. streams'[s].status = "open"
    BY <1>1 DEF Put, LogStream
  <2> QED
    BY <1>1, <2>1 DEF Begun
<1> QED
  BY <1>1, <1>2, <1>3, <1>4 DEF ReadInv, MarkInv

LEMMA CloseStreamReads ==
  ASSUME ReadInv, NEW s \in Stream, CloseStream(s)
  PROVE  ReadInv'
<1> DEFINE r == [streams EXCEPT ![s].status = "closed"]
<1>1. /\ LogInv(files, slabs, front, streams) /\ streams[s].status = "open"
      /\ ChainInv(files, slabs, front, streams) /\ lock = Free
      /\ streams \in [Stream -> LogStream] /\ Inv'
      /\ files' = HeaderClosed(files, s) /\ slabs' = SectionsFlushed(slabs, s)
      /\ streams' = r /\ front' = front /\ lock' = Free /\ closed' = closed
  BY CloseStreamKeeps DEF ReadInv, Inv, LogInv, CloseStream
<1>2. ~closed /\ front \in DOMAIN slabs
  BY <1>1, OpenMeansRunning DEF ReadInv, Inv
<1>3. r[s].status = "closed" /\ \A u \in Stream \ {s} : r[u] = streams[u]
  <2>1. r[s] = [streams[s] EXCEPT !.status = "closed"] /\ streams[s] \in LogStream
    BY <1>1
  <2>2. [streams[s] EXCEPT !.status = "closed"].status = "closed"
    BY <2>1 DEF LogStream
  <2> QED
    BY <1>1, <2>1, <2>2
<1> HIDE DEF r
<1>4. \A u \in Stream : r[u].status = "open" =>
        /\ streams[u].status = "open" /\ r[u].slab = streams[u].slab
        /\ r[u].start = streams[u].start
  BY <1>3
<1> DEFINE g == HeaderClosed(files, s)
           k == SectionsFlushed(slabs, s)
<1>5. /\ ChainInv(g, k, front, r)
      /\ \A i \in DOMAIN slabs :
           k[i].pos = slabs[i].pos /\ k[i].marker = slabs[i].marker
  BY <1>1, <1>4, ChainClosed
<1> HIDE DEF g, k
<1>6. /\ ChainInv(files', slabs', front', streams')
      /\ slabs'[front].marker = slabs[front].marker
  BY <1>1, <1>2, <1>5 DEF g, k
<1>7. Begun /\ Begun'
  <2>1. streams'[s].status = "closed"
    BY <1>1, <1>3
  <2> QED
    BY <1>1, <2>1 DEF Begun
<1> QED
  BY <1>1, <1>2, <1>6, <1>7 DEF ReadInv, MarkInv

LEMMA PlaceEndMarkerReads ==
  ASSUME ReadInv, PlaceEndMarker
  PROVE  ReadInv'
<1> DEFINE p == Marker(files, slabs, TRUE)
           s == lock.holder
<1>1. /\ LogInv(files, slabs, front, streams) /\ front \in DOMAIN slabs
      /\ ChainInv(files, slabs, front, streams) /\ slabs[front].marker = {}
      /\ streams \in [Stream -> LogStream] /\ ~closed /\ closed' = closed /\ Begun
      /\ front' = p.front /\ p.front <= MaxSlab + 1 /\ lock' = Free /\ s \in Stream
      /\ IF lock.entry = "fits" THEN Put(s, streams[s], p.files, p.slabs)
         ELSE files' = p.files /\ slabs' = p.slabs /\ UNCHANGED <<streams, logged>>
      /\ Inv'
  BY PlaceEndMarkerKeeps DEF ReadInv, MarkInv, Inv, LogInv, LockInv, PlaceEndMarker
<1>2. LogInv(p.files, p.slabs, p.front, streams) /\ p.front \in DOMAIN p.slabs
  BY <1>1, MarkerWritten
<1>3. /\ ChainInv(p.files, p.slabs, p.front, streams)
      /\ p.slabs[p.front].marker # {}
  <2> DEFINE f == files
             m == slabs
             t == streams
  <2>1. PICK header :
          /\ header.entry_type = LastEntry /\ header.next = Unit
          /\ MarkerPut(p, f, m, header)
    BY MarkerIsPut
  <2>2. /\ LogInv(f, m, front, t) /\ front \in DOMAIN m /\ ChainInv(f, m, front, t)
        /\ m[front].marker = {}
    BY <1>1
  <2> HIDE DEF p, f, m, t
  <2>3. ChainInv(p.files, p.slabs, p.front, t) /\ p.slabs[p.front].marker # {}
    BY <1>1, <2>1, <2>2, ChainMarked
  <2> QED
    BY <2>3 DEF t
<1> HIDE DEF p
<1>4. /\ ChainInv(files', slabs', front', streams') /\ slabs'[front'].marker # {}
      /\ Begun'
  <2>1. CASE lock.entry = "fits"
    <3> DEFINE f == p.files
               m == p.slabs
               n == p.front
    <3>1. /\ streams[s].status = "open" /\ Put(s, streams[s], f, m)
          /\ LogInv(f, m, n, streams) /\ ChainInv(f, m, n, streams)
          /\ n \in DOMAIN m /\ m[n].marker # {}
      <4>1. streams[s].status = "open"
        BY <2>1 DEF ReadInv, Inv, LockInv, PlaceEndMarker
      <4> QED
        BY <1>1, <1>2, <1>3, <2>1, <4>1
    <3> HIDE DEF f, m, n, s
    <3>2. /\ ChainInv(files', slabs', n, streams')
          /\ \A i \in DOMAIN m : slabs'[i].marker = m[i].marker
      <4> DEFINE t == streams
      <4>1. /\ s \in Stream /\ t[s].status = "open" /\ Put(s, t[s], f, m)
            /\ LogInv(f, m, n, t) /\ ChainInv(f, m, n, t)
        BY <1>1, <3>1
      <4> QED
        BY <4>1, ChainPut
    <3>3. streams'[s].status = "open"
      <4> DEFINE t == streams[s]
      <4>1. t \in LogStream /\ s \in DOMAIN streams
        BY <1>1, <3>1 DEF LogInv
      <4>2. streams' = [streams EXCEPT ![s] = [t EXCEPT !.used = t.used + 1]]
        BY <3>1 DEF Put
      <4>3. t.status = "open"
        BY <3>1
      <4> HIDE DEF t
      <4>4. [t EXCEPT !.used = t.used + 1].status = t.status
        BY <4>1 DEF LogStream
      <4> QED
        BY <4>1, <4>2, <4>3, <4>4
    <3> QED
      BY <1>1, <3>1, <3>2, <3>3 DEF n, Begun
  <2>2. CASE lock.entry # "fits"
    BY <1>1, <1>3, <2>2 DEF Begun
  <2> QED
    BY <2>1, <2>2
<1> QED
  BY <1>1, <1>4 DEF ReadInv, MarkInv

LEMMA CloseLogReads ==
  ASSUME ReadInv, CloseLog
  PROVE  ReadInv'
<1> DEFINE f == files
           t == streams
           m == [slabs EXCEPT ![front] = clear_temporary_end_marker(@)]
           p == Marker(f, m, FALSE)
           cut == [i \in DOMAIN p.files |->
                     IF i \in DOMAIN p.slabs THEN Trim(p.files[i], p.slabs[i].pos)
                     ELSE p.files[i]]
<1>1. /\ LogInv(f, slabs, front, t) /\ ChainInv(f, slabs, front, t)
      /\ front \in DOMAIN slabs /\ lock = Free /\ lock' = Free /\ ~closed
      /\ \A s \in Stream : t[s].status # "open"
      /\ files' = cut /\ slabs' = <<>> /\ front' = p.front /\ streams' = t
      /\ closed' = TRUE /\ Inv'
  BY CloseLogKeeps DEF ReadInv, Inv, CloseLog
<1>2. PICK header :
        /\ header.entry_type = LastEntry /\ header.next = Unit
        /\ MarkerPut(p, f, m, header)
  BY MarkerIsPut
<1> HIDE DEF p
<1>3. /\ LogInv(f, m, front, t) /\ ChainInv(f, m, front, t) /\ front \in DOMAIN m
      /\ m[front].marker = {} /\ m[front].pos = Cursor(slabs[front])
  BY <1>1, ChainCleared
<1> HIDE DEF m
<1>4. p.front <= MaxSlab + 1
  <2>1. /\ front \in Nat /\ front \in 0..(MaxSlab + 1) /\ MaxSlab \in Nat
        /\ SlabInv(slabs[front]) /\ FileOK(f[front]) /\ f[front].len = SlabSize
        /\ FrontOK(f[front], slabs[front], prolog(front))
    <3>1. front \in 0..front
      BY <1>1 DEF LogInv
    <3> QED
      BY <1>1, <3>1, UnifiedLogAssumption DEF LogInv, ChainInv
  <2>2. CASE MarkerFits(m[front])
    BY <1>2, <2>1, <2>2 DEF MarkerPut
  <2>3. CASE ~MarkerFits(m[front])
    <3>1. slabs[front].marker = {}
      <4> SUFFICES ASSUME slabs[front].marker # {} PROVE FALSE
        OBVIOUS
      <4> DEFINE x == slabs[front]
      <4>1. End(x) = Cursor(x) /\ Cursor(x) < x.pos
        BY <2>1, FrontSealed DEF FrontOK
      <4>2. MarkerAt(m[front]) = Cursor(x)
        BY <1>3, <4>1 DEF MarkerAt, End
      <4>3. Cursor(x) \in Nat /\ x.pos \in Nat /\ x.pos <= SlabSize /\ SlabSize \in Nat
        BY <2>1, SlabFields, Sizes
      <4> QED
        BY <2>3, <4>1, <4>2, <4>3 DEF MarkerFits, Unit
    <3>2. front = 0
      BY <1>1, <3>1 DEF ReadInv, MarkInv
    <3> QED
      BY <1>2, <2>1, <2>3, <3>2 DEF MarkerPut
  <2> QED
    BY <2>2, <2>3
<1>5. /\ ChainInv(p.files, p.slabs, p.front, t) /\ p.front \in DOMAIN p.slabs
      /\ p.slabs[p.front].marker # {} /\ \A i \in DOMAIN p.slabs : SlabInv(p.slabs[i])
  <2> HIDE DEF f, t
  <2> QED
    BY <1>2, <1>3, <1>4, ChainMarked
<1>6. DOMAIN p.slabs \subseteq DOMAIN p.files
  <2>1. front \in DOMAIN m /\ DOMAIN m \subseteq DOMAIN f
    BY <1>3 DEF LogInv
  <2>2. CASE MarkerFits(m[front])
    <3>1. DOMAIN p.slabs = DOMAIN m /\ DOMAIN p.files = DOMAIN f
      BY <1>2, <2>2 DEF MarkerPut
    <3> QED
      BY <2>1, <3>1
  <2>3. CASE ~MarkerFits(m[front])
    <3>1. /\ DOMAIN p.slabs = DOMAIN m \cup {front + 1}
          /\ DOMAIN p.files = DOMAIN f \cup {front + 1}
      BY <1>2, <2>3 DEF MarkerPut, With
    <3> QED
      BY <2>1, <3>1
  <2> QED
    BY <2>2, <2>3
<1>7. ChainInv(cut, <<>>, p.front, t) /\ Sealed(cut[p.front], prolog(p.front))
  <2> DEFINE g == p.files
             k == p.slabs
             n == p.front
  <2>1. /\ ChainInv(g, k, n, t) /\ n \in DOMAIN k /\ DOMAIN k \subseteq DOMAIN g
        /\ \A i \in DOMAIN k : SlabInv(k[i]) /\ k[n].marker # {}
        /\ \A s \in Stream : t[s].status # "open"
        /\ cut = [i \in DOMAIN g |->
                    IF i \in DOMAIN k THEN Trim(g[i], k[i].pos) ELSE g[i]]
    BY <1>1, <1>5, <1>6
  <2> HIDE DEF g, k, n, t, cut
  <2>2. ChainInv(cut, <<>>, n, t) /\ Sealed(cut[n], prolog(n))
    BY <2>1, ChainCut
  <2> QED
    BY <2>2 DEF n
<1> HIDE DEF cut
<1>8. ChainInv(files', slabs', front', streams') /\ Sealed(files'[front'], prolog(front')) 
  BY <1>1, <1>7
<1>9. MarkInv'
  <2>1. Sealed(files[front], prolog(front))'
    BY <1>8 DEF Sealed, Follows, prolog
  <2> QED
    BY <1>1, <2>1 DEF MarkInv
<1> QED
  BY <1>1, <1>8, <1>9 DEF ReadInv

LEMMA NextRunReads ==
  ASSUME ReadInv, NextRun
  PROVE  ReadInv'
<1>1. /\ files' = With(files, 0, NewFile) /\ front' = 0 /\ lock' = Free /\ ~closed'
      /\ slabs' = With(<<>>, 0, [NewSlab EXCEPT !.pos = Page])
      /\ streams' = [s \in Stream |-> NoStream] /\ Inv'
  BY NextRunKeeps DEF ReadInv, NextRun
<1>2. DOMAIN files \subseteq 0..(MaxSlab + 1) /\ \A i \in DOMAIN files : FileOK(files[i])
  BY DEF ReadInv, ChainInv
<1>3. /\ ChainInv(files', slabs', front', streams') /\ slabs'[0].marker = {}
      /\ slabs'[0].pos = Page /\ DOMAIN files'[0].headers = {}
  BY <1>1, <1>2, ChainBegins
<1>4. ~Begun'
  BY <1>1 DEF Begun, NoStream
<1> QED
  BY <1>1, <1>3, <1>4 DEF ReadInv, MarkInv

LEMMA InitReads == Init => ReadInv
<1> SUFFICES ASSUME Init PROVE ReadInv
  OBVIOUS
<1>1. /\ files = With(<<>>, 0, NewFile) /\ front = 0 /\ lock = Free /\ ~closed
      /\ slabs = With(<<>>, 0, [NewSlab EXCEPT !.pos = Page])
      /\ streams = [s \in Stream |-> NoStream] /\ Inv
  BY InitInv DEF Init
<1>2. DOMAIN (<<>>) = {}
  OBVIOUS
<1>3. /\ ChainInv(files, slabs, front, streams) /\ slabs[0].marker = {}
      /\ slabs[0].pos = Page /\ DOMAIN files[0].headers = {}
  <2> DEFINE f == <<>>
  <2>1. DOMAIN f \subseteq 0..(MaxSlab + 1) /\ \A i \in DOMAIN f : FileOK(f[i])
    BY <1>2
  <2>2. files = With(f, 0, NewFile)
    BY <1>1
  <2> HIDE DEF f
  <2> QED
    BY <1>1, <2>1, <2>2, ChainBegins
<1>4. ~Begun
  BY <1>1 DEF Begun, NoStream
<1> QED
  BY <1>1, <1>3, <1>4 DEF ReadInv, MarkInv

LEMMA NextReads == FirstFits /\ ReadInv /\ [Next]_vars => ReadInv'
<1> SUFFICES ASSUME FirstFits, ReadInv, [Next]_vars PROVE ReadInv'
  OBVIOUS
<1>1. CASE UNCHANGED vars
  <2>1. Inv'
    BY <1>1, NextInv DEF ReadInv
  <2> QED
    BY <1>1, <2>1 DEF vars, ReadInv, ChainInv, MarkInv, Begun, FrontOK, Finished,
                      Sealed, Follows, FileOK, HeaderOf, End, Cursor, prolog
<1>2. ASSUME NEW s \in Stream, Open(s) \/ LogEntry(s) \/ Roll(s) \/ CloseStream(s)
      PROVE  ReadInv'
  BY <1>2, OpenReads, LogEntryReads, RollReads, CloseStreamReads
<1>3. CASE PlaceEndMarker
  BY <1>3, PlaceEndMarkerReads
<1>4. CASE CloseLog
  BY <1>4, CloseLogReads
<1>5. CASE NextRun
  BY <1>5, NextRunReads
<1> QED
  BY <1>1, <1>2, <1>3, <1>4, <1>5 DEF Next

----------------------------------------------------------------------------
(* The reader goes through the headers, and always on. *)

LEMMA Smallest ==
  ASSUME NEW T \in SUBSET Nat, T # {}
  PROVE  \E x \in T : \A y \in T : x <= y
<1>1. IsWellFoundedOn(OpToRel(<, Nat), Nat)
  BY NatLessThanWellFounded
<1>2. PICK x \in T : \A y \in T : ~(<<y, x>> \in OpToRel(<, Nat))
  BY <1>1, WFMin
<1>3. \A y \in T : ~(y < x)
  BY <1>2 DEF OpToRel
<1> QED
  BY <1>3

\* Where the reader goes from a position, and what it has read with the rest.
Onward(at) ==
  IF EndOfFile(at[1], at[2]) THEN <<at[1] + 1, prolog(at[1] + 1)>>
  ELSE <<at[1], at[2] + files[at[1]].headers[at[2]].next>>
Stops(at) ==
  /\ ~EndOfFile(at[1], at[2])
  /\ IsHeader(at[1], at[2]) => files[at[1]].headers[at[2]].entry_type = LastEntry
Found(at, rest) ==
  IF EndOfFile(at[1], at[2]) THEN rest
  ELSE IF ~IsHeader(at[1], at[2]) THEN NothingRead(FALSE)
  ELSE IF files[at[1]].headers[at[2]].entry_type = LastEntry THEN NothingRead(TRUE)
  ELSE SectionRead(rest, at[1], at[2])

FilesOK ==
  DOMAIN files \subseteq 0..(MaxSlab + 1) /\ \A i \in DOMAIN files : FileOK(files[i])

\* How much is left of the files.
Width == SlabSize + Page + 1
Left(at) == (MaxSlab + 2 - at[1]) * Width + (SlabSize + Page - at[2])

LEMMA LeftFalls ==
  ASSUME NEW i \in Nat, NEW j \in Nat, NEW p \in Nat, NEW q \in Nat,
         i <= MaxSlab + 2, j <= MaxSlab + 2, p <= SlabSize + Page,
         q <= SlabSize + Page, i < j \/ (i = j /\ p < q)
  PROVE  Left(<<j, q>>) < Left(<<i, p>>)
<1> DEFINE a == MaxSlab + 2 - i
           b == MaxSlab + 2 - j
           w == Width
<1>1. /\ MaxSlab \in Nat /\ w \in Nat /\ w = SlabSize + Page + 1 /\ a \in Nat
      /\ b \in Nat /\ SlabSize \in Nat /\ Page \in Nat
  BY UnifiedLogAssumption DEF Width
<1>2. /\ Left(<<i, p>>) = a * w + (SlabSize + Page - p)
      /\ Left(<<j, q>>) = b * w + (SlabSize + Page - q)
  BY DEF Left
<1>3. (i < j => b + 1 <= a) /\ (i = j => a = b)
  BY <1>1
<1> HIDE DEF a, b, w
<1>4. i < j => b * w + w <= a * w
  <2> HAVE i < j
  <2>1. b + 1 \in Nat /\ b + 1 <= a
    BY <1>1, <1>3
  <2>2. (b + 1) * w <= a * w /\ (b + 1) * w = b * w + w
    BY <1>1, <2>1
  <2> QED
    BY <2>2
<1> DEFINE u == a * w
           v == b * w
<1>5. /\ u \in Nat /\ v \in Nat /\ (i < j => v + w <= u) /\ (i = j => v = u)
      /\ Left(<<i, p>>) = u + (SlabSize + Page - p)
      /\ Left(<<j, q>>) = v + (SlabSize + Page - q)
  BY <1>1, <1>2, <1>3, <1>4
<1> HIDE DEF u, v
<1> QED
  BY <1>1, <1>5

LEMMA LeftOf ==
  ASSUME NEW at \in Position
  PROVE  Left(at) \in Nat /\ Left(at) < (MaxSlab + 3) * Width
<1>1. PICK i \in 0..(MaxSlab + 2), p \in 0..(SlabSize + Page) : at = <<i, p>>
  BY DEF Position
<1> DEFINE a == MaxSlab + 2 - i
           w == Width
           k == MaxSlab + 2
<1>2. /\ w \in Nat /\ w = SlabSize + Page + 1 /\ a \in Nat /\ k \in Nat /\ a <= k
      /\ SlabSize \in Nat /\ Page \in Nat /\ MaxSlab + 3 = k + 1
      /\ Left(at) = a * w + (SlabSize + Page - p)
  BY <1>1, UnifiedLogAssumption DEF Width, Left
<1> HIDE DEF a, w, k
<1>3. a * w <= k * w /\ a * w \in Nat /\ k * w \in Nat /\ (k + 1) * w = k * w + w
  BY <1>2
<1> DEFINE u == a * w
           v == k * w
<1>4. /\ u \in Nat /\ v \in Nat /\ u <= v /\ (MaxSlab + 3) * w = v + w
      /\ Left(at) = u + (SlabSize + Page - p)
  BY <1>2, <1>3
<1> HIDE DEF u, v
<1> QED
  BY <1>2, <1>4 DEF w

LEMMA GoesOn ==
  ASSUME FilesOK, NEW at \in Position, ~Stops(at)
  PROVE  /\ Onward(at) \in Position /\ Left(at) \in Nat
         /\ Left(Onward(at)) < Left(at) /\ Left(Onward(at)) \in Nat
<1>1. PICK i \in 0..(MaxSlab + 2), p \in 0..(SlabSize + Page) : at = <<i, p>>
  BY DEF Position
<1>2. /\ MaxSlab \in Nat /\ SlabSize \in Nat /\ Page \in Nat
      /\ at[1] = i /\ at[2] = p
  BY <1>1, UnifiedLogAssumption
<1>3. CASE EndOfFile(i, p)
  <2>1. i + 1 <= MaxSlab + 2 /\ prolog(i + 1) = 0 /\ i \in Nat
    BY <1>2, <1>3 DEF EndOfFile, FilesOK, prolog
  <2>2. Onward(at) = <<i + 1, 0>>
    BY <1>2, <1>3, <2>1 DEF Onward
  <2>3. Left(<<i + 1, 0>>) < Left(<<i, p>>)
    <3>1. /\ i + 1 \in Nat /\ 0 \in Nat /\ i < i + 1 /\ 0 <= SlabSize + Page
          /\ i \in Nat /\ p \in Nat /\ i <= MaxSlab + 2 /\ p <= SlabSize + Page
      BY <1>2, <2>1
    <3> QED
      BY <2>1, <3>1, LeftFalls
  <2>4. <<i + 1, 0>> \in Position
    BY <1>2, <2>1 DEF Position
  <2>5. Left(<<i + 1, 0>>) \in Nat
    BY <2>4, LeftOf
  <2> QED
    BY <1>1, <2>2, <2>3, <2>4, <2>5, LeftOf
<1>4. CASE ~EndOfFile(i, p)
  <2> DEFINE n == files[i].headers[p].next
             q == p + n
  <2>1. /\ i \in DOMAIN files /\ p \in DOMAIN files[i].headers
    BY <1>2, <1>4 DEF Stops, IsHeader
  <2>2. n \in Nat /\ n > 0 /\ p + n <= SlabSize
    BY <2>1 DEF FilesOK, FileOK
  <2>3. q \in Nat /\ p < q /\ q <= SlabSize + Page
    BY <1>2, <2>2
  <2>4. Onward(at) = <<i, q>>
    BY <1>2, <1>4 DEF Onward
  <2> HIDE DEF n, q
  <2>5. Left(<<i, q>>) < Left(<<i, p>>)
    BY <1>2, <2>3, LeftFalls
  <2>6. <<i, q>> \in Position
    BY <1>2, <2>3 DEF Position
  <2>7. Left(<<i, q>>) \in Nat
    BY <2>6, LeftOf
  <2> QED
    BY <1>1, <2>4, <2>5, <2>6, <2>7, LeftOf
<1> QED
  BY <1>3, <1>4

LEMMA SameFound ==
  ASSUME NEW at, Stops(at), NEW r, NEW q
  PROVE  Found(at, r) = Found(at, q)
BY DEF Found, Stops

LEMMA FoundFrom ==
  ASSUME NEW at, NEW r, NEW q, ~Stops(at) => r = q
  PROVE  Found(at, r) = Found(at, q)
<1>1. CASE Stops(at)
  BY <1>1, SameFound
<1>2. CASE ~Stops(at)
  BY <1>2
<1> QED
  BY <1>1, <1>2

\* f is what is read from every position that has less than d left.
Below(d) == {at \in Position : Left(at) < d}
ReadsFrom(f, S) == f = [at \in S |-> Found(at, f[Onward(at)])]

LEMMA ReadFurther ==
  ASSUME FilesOK, NEW d \in Nat, NEW f, ReadsFrom(f, Below(d))
  PROVE  \E g : ReadsFrom(g, Below(d + 1))
<1> DEFINE g == [at \in Below(d + 1) |-> Found(at, f[Onward(at)])]
<1>1. ASSUME NEW at \in Below(d + 1)
      PROVE  Found(at, f[Onward(at)]) = Found(at, g[Onward(at)])
  <2>1. ASSUME ~Stops(at)
        PROVE  f[Onward(at)] = g[Onward(at)]
    <3> DEFINE o == Onward(at)
    <3>1. o \in Position /\ Left(o) < Left(at) /\ Left(at) < d + 1
          /\ Left(o) \in Nat /\ Left(at) \in Nat
      BY <2>1, GoesOn DEF Below
    <3> HIDE DEF o
    <3>2. Left(o) < d /\ Left(o) < d + 1
      BY <3>1
    <3>3. o \in Below(d) /\ o \in Below(d + 1)
      BY <3>1, <3>2 DEF Below
    <3>4. f[o] = Found(o, f[Onward(o)])
      BY <3>3 DEF ReadsFrom
    <3>5. g[o] = Found(o, f[Onward(o)])
      BY <3>3
    <3> QED
      BY <3>4, <3>5 DEF o
  <2> HIDE DEF g
  <2> QED
    BY <2>1, FoundFrom
<1>2. g = [at \in Below(d + 1) |-> Found(at, g[Onward(at)])]
  <2> DEFINE h == [at \in Below(d + 1) |-> Found(at, g[Onward(at)])]
  <2>1. h = [at \in Below(d + 1) |-> Found(at, f[Onward(at)])]
    <3> HIDE DEF g
    <3> QED
      BY <1>1
  <2> QED
    BY <2>1
<1> HIDE DEF g
<1> QED
  BY <1>2 DEF ReadsFrom

LEMMA ReadToTheEnd ==
  ASSUME FilesOK
  PROVE  \E f : ReadsFrom(f, Position)
<1> DEFINE T == {d \in Nat : ~\E f : ReadsFrom(f, Below(d))}
           all == (MaxSlab + 3) * Width
<1>1. T = {}
  <2> SUFFICES ASSUME T # {} PROVE FALSE
    OBVIOUS
  <2>1. PICK d \in T : \A e \in T : d <= e
    <3> T \in SUBSET Nat
      OBVIOUS
    <3> HIDE DEF T
    <3> QED
      BY Smallest
  <2>2. CASE d = 0
    <3> DEFINE f == [at \in {} |-> 0]
    <3>1. Below(d) = {}
      BY <2>2, LeftOf DEF Below
    <3>2. f = [at \in {} |-> Found(at, f[Onward(at)])]
      OBVIOUS
    <3> HIDE DEF f
    <3>3. ReadsFrom(f, Below(d))
      BY <3>1, <3>2 DEF ReadsFrom
    <3> QED
      BY <2>1, <3>3
  <2>3. CASE d # 0
    <3> DEFINE e == d - 1
    <3>1. e \in Nat /\ e \notin T /\ d = e + 1
      <4>1. d \in Nat /\ e \in Nat /\ e < d /\ d = e + 1
        BY <2>1, <2>3
      <4> HIDE DEF T, e
      <4> QED
        BY <2>1, <4>1
    <3> HIDE DEF e
    <3>2. PICK f : ReadsFrom(f, Below(e))
      BY <3>1
    <3>3. \E g : ReadsFrom(g, Below(d))
      BY <3>1, <3>2, ReadFurther
    <3> QED
      BY <2>1, <3>3
  <2> QED
    BY <2>2, <2>3
<1>2. all \in Nat
  <2>1. MaxSlab + 3 \in Nat /\ Width \in Nat
    BY UnifiedLogAssumption DEF Width
  <2> QED
    BY <2>1
<1>3. Below(all) = Position
  BY LeftOf DEF Below
<1> QED
  BY <1>1, <1>2, <1>3

LEMMA ScanUnfolds ==
  ASSUME FilesOK, NEW at \in Position
  PROVE  Scan[at] = Found(at, Scan[Onward(at)])
<1> DEFINE Body(f) ==
      [a \in Position |->
         LET i == a[1] p == a[2] IN
         IF EndOfFile(i, p) THEN f[<<i + 1, prolog(i + 1)>>]
         ELSE IF ~IsHeader(i, p) THEN NothingRead(FALSE)
         ELSE IF files[i].headers[p].entry_type = LastEntry THEN NothingRead(TRUE)
         ELSE SectionRead(f[<<i, p + files[i].headers[p].next>>], i, p)]
<1>1. Scan = CHOOSE f : f = Body(f)
  BY DEF Scan
<1>2. ASSUME NEW f
      PROVE  Body(f) = [a \in Position |-> Found(a, f[Onward(a)])]
  <2>1. ASSUME NEW a \in Position
        PROVE  (LET i == a[1] p == a[2] IN
                IF EndOfFile(i, p) THEN f[<<i + 1, prolog(i + 1)>>]
                ELSE IF ~IsHeader(i, p) THEN NothingRead(FALSE)
                ELSE IF files[i].headers[p].entry_type = LastEntry
                  THEN NothingRead(TRUE)
                ELSE SectionRead(f[<<i, p + files[i].headers[p].next>>], i, p))
               = Found(a, f[Onward(a)])
    BY DEF Found, Onward
  <2> QED
    BY <2>1
<1> HIDE DEF Body
<1>3. PICK f : f = Body(f)
  <2>1. PICK f : ReadsFrom(f, Position)
    BY ReadToTheEnd
  <2>2. f = Body(f)
    BY <1>2, <2>1 DEF ReadsFrom
  <2> QED
    BY <2>2
<1>4. Scan = Body(Scan)
  BY <1>1, <1>3
<1>5. Scan = [a \in Position |-> Found(a, Scan[Onward(a)])]
  BY <1>2, <1>4
<1> QED
  BY <1>5

(* Behind nothing but headers there is the marker.                          *)
Ends(r) == "ends" \in DOMAIN r /\ r.ends = TRUE

LEMMA FoundEnds ==
  ASSUME NEW at, NEW rest,
         ~Stops(at) => Ends(rest),
         EndOfFile(at[1], at[2]) \/ IsHeader(at[1], at[2])
  PROVE  Ends(Found(at, rest))
<1>1. CASE EndOfFile(at[1], at[2])
  BY <1>1 DEF Found, Stops
<1>2. CASE ~EndOfFile(at[1], at[2])
  <2>1. CASE files[at[1]].headers[at[2]].entry_type = LastEntry
    <3>1. Found(at, rest) = NothingRead(TRUE)
      BY <1>2, <2>1 DEF Found
    <3>2. Ends(NothingRead(TRUE))
      BY DEF Ends, NothingRead
    <3> QED
      BY <3>1, <3>2
  <2>2. CASE files[at[1]].headers[at[2]].entry_type # LastEntry
    <3>1. Found(at, rest) = SectionRead(rest, at[1], at[2])
      BY <1>2, <2>2 DEF Found
    <3>2. Ends(rest)
      BY <1>2, <2>2 DEF Stops
    <3>3. Ends(SectionRead(rest, at[1], at[2]))
      BY <3>2 DEF Ends, SectionRead
    <3> QED
      BY <3>1, <3>3
  <2> QED
    BY <2>1, <2>2
<1> QED
  BY <1>1, <1>2

\* The positions that a reader may come to in the files up to the front one.
Chained(at) ==
  /\ at \in Position /\ at[1] <= front
  /\ at[2] \in Follows(files[at[1]].headers, prolog(at[1]))

LEMMA ChainedOn ==
  ASSUME ChainInv(files, slabs, front, streams), Sealed(files[front], prolog(front)),
         NEW at, Chained(at)
  PROVE  /\ EndOfFile(at[1], at[2]) \/ IsHeader(at[1], at[2])
         /\ ~Stops(at) => Chained(Onward(at))
<1>1. PICK i \in 0..(MaxSlab + 2), p \in 0..(SlabSize + Page) : at = <<i, p>>
  BY DEF Position, Chained
<1>2. /\ at[1] = i /\ at[2] = p /\ i \in 0..front /\ i \in Nat /\ front \in Nat
      /\ i \in DOMAIN files /\ FileOK(files[i]) /\ FilesOK
      /\ p \in Follows(files[i].headers, prolog(i))
  BY <1>1 DEF Chained, ChainInv, FilesOK
<1>3. i < front => Finished(files[i], prolog(i))
  BY <1>2 DEF ChainInv
<1>4. p \in DOMAIN files[i].headers \/ (p >= files[i].len /\ i < front)
  BY <1>2, <1>3 DEF Finished, Sealed
<1>5. i = front => p < files[i].len
  BY <1>2 DEF Sealed
<1>6. ASSUME ~Stops(at)
      PROVE  Chained(Onward(at))
  <2>1. Onward(at) \in Position
    BY <1>2, <1>6, GoesOn DEF Chained
  <2>2. CASE EndOfFile(i, p)
    <3>1. i < front
      <4>1. files[i].len \in Nat /\ p >= files[i].len
        BY <1>2, <2>2 DEF FileOK, EndOfFile
      <4> QED
        BY <1>2, <1>5, <4>1
    <3>2. Onward(at) = <<i + 1, prolog(i + 1)>>
      BY <1>2, <2>2 DEF Onward
    <3>3. i + 1 <= front
      BY <1>2, <3>1
    <3>4. prolog(i + 1) \in Follows(files[i + 1].headers, prolog(i + 1))
      BY DEF Follows
    <3> QED
      BY <2>1, <3>2, <3>3, <3>4 DEF Chained
  <2>3. CASE ~EndOfFile(i, p)
    <3> DEFINE q == p + files[i].headers[p].next
    <3>1. p \in DOMAIN files[i].headers
          /\ files[i].headers[p].entry_type # LastEntry
      BY <1>2, <1>6, <2>3 DEF Stops, IsHeader, EndOfFile
    <3>2. q \in Follows(files[i].headers, prolog(i))
      BY <3>1 DEF Follows
    <3>3. Onward(at) = <<i, q>>
      BY <1>2, <2>3 DEF Onward
    <3> HIDE DEF q
    <3> QED
      BY <1>2, <2>1, <3>2, <3>3 DEF Chained
  <2> QED
    BY <2>2, <2>3
<1> QED
  BY <1>2, <1>4, <1>6 DEF EndOfFile, IsHeader

LEMMA ChainEnds ==
  ASSUME ChainInv(files, slabs, front, streams), Sealed(files[front], prolog(front))
  PROVE  Reading.ends
<1> DEFINE Bad == {a \in Position : Chained(a) /\ ~Ends(Scan[a])}
           T == {Left(a) : a \in Bad}
<1>1. FilesOK
  BY DEF ChainInv, FilesOK
<1>2. Bad = {}
  <2> SUFFICES ASSUME Bad # {} PROVE FALSE
    OBVIOUS
  <2>1. PICK n \in T : \A m \in T : n <= m
    <3>1. T \in SUBSET Nat /\ T # {}
      BY LeftOf
    <3> HIDE DEF T
    <3> QED
      BY <3>1, Smallest
  <2>2. PICK at \in Bad : n = Left(at)
    BY <2>1
  <2>3. /\ EndOfFile(at[1], at[2]) \/ IsHeader(at[1], at[2])
        /\ ~Stops(at) => Chained(Onward(at))
    BY <2>2, ChainedOn
  <2>4. ~Stops(at) => Ends(Scan[Onward(at)])
    <3> HAVE ~Stops(at)
    <3> DEFINE o == Onward(at)
    <3>1. /\ o \in Position /\ Chained(o) /\ Left(o) < Left(at)
          /\ Left(o) \in Nat /\ Left(at) \in Nat
      BY <1>1, <2>2, <2>3, GoesOn
    <3> HIDE DEF o
    <3>2. o \notin Bad
      <4>1. o \in Bad => Left(o) \in T
        OBVIOUS
      <4>2. Left(o) \in T => n <= Left(o)
        BY <2>1
      <4> HIDE DEF Bad, T
      <4> QED
        BY <2>2, <3>1, <4>1, <4>2
    <3> QED
      BY <3>1, <3>2 DEF o
  <2>5. Scan[at] = Found(at, Scan[Onward(at)])
    BY <1>1, <2>2, ScanUnfolds
  <2>6. Ends(Scan[at])
    BY <2>3, <2>4, <2>5, FoundEnds
  <2> QED
    BY <2>2, <2>6
<1>3. Chained(<<0, prolog(0)>>)
  <2>1. <<0, prolog(0)>> \in Position
    BY UnifiedLogAssumption DEF Position, prolog
  <2>2. 0 <= front
    BY DEF ChainInv
  <2> QED
    BY <2>1, <2>2 DEF Chained, Follows
<1>4. Ends(Scan[<<0, prolog(0)>>])
  BY <1>2, <1>3 DEF Chained
<1> QED
  BY <1>4 DEF Reading, Ends

LEMMA ReadInvReaches == ReadInv => ReaderReachesMarker
<1> SUFFICES ASSUME ReadInv, lock = Free, Begun
             PROVE  Reading.ends
  BY DEF ReaderReachesMarker, Begun
<1>1. ChainInv(files, slabs, front, streams)
  BY DEF ReadInv
<1>2. Sealed(files[front], prolog(front))
  <2>1. CASE closed
    BY <2>1 DEF ReadInv, MarkInv
  <2>2. CASE ~closed
    <3>1. /\ front \in DOMAIN slabs /\ slabs[front].marker # {}
          /\ SlabInv(slabs[front])
      BY <2>2 DEF ReadInv, MarkInv, Inv, LogInv
    <3>2. /\ FileOK(files[front]) /\ files[front].len = SlabSize
          /\ FrontOK(files[front], slabs[front], prolog(front))
      <4>1. front \in DOMAIN files
        BY <3>1 DEF ReadInv, Inv, LogInv
      <4> QED
        BY <1>1, <3>1, <4>1 DEF ChainInv
    <3> QED
      BY <3>1, <3>2, FrontSealed
  <2> QED
    BY <2>1, <2>2
<1> QED
  BY <1>1, <1>2, ChainEnds

(* ReaderReachesMarker: whatever the sections that streams have taken and    *)
(* closed, the slabs that were cut and the runs that died, a reader follows  *)
(* the headers from the main header to the end marker and never meets a      *)
(* header that is none.  The first slab has to have room for a first section *)
(* behind its main header: add_section goes to the next slab without leaving *)
(* a header in one that has none.                                            *)
THEOREM ReaderEnds ==
  ASSUME FirstFits
  PROVE  Spec => []ReaderReachesMarker
<1>1. Init => ReadInv
  BY InitReads
<1>2. ReadInv /\ [Next]_vars => ReadInv'
  BY NextReads
<1>3. ReadInv => ReaderReachesMarker
  BY ReadInvReaches
<1> QED
  BY <1>1, <1>2, <1>3, PTL DEF Spec

----------------------------------------------------------------------------
(* What the sections of each stream hold. *)

\* In the order in which a reader comes to positions.
Before(i, p, j, q) == i < j \/ (i = j /\ p < q)

IsSection(f, i, p) ==
  p \in DOMAIN f[i].headers /\ f[i].headers[p].entry_type # LastEntry
IsMarker(f, i, p) ==
  p \in DOMAIN f[i].headers /\ f[i].headers[p].entry_type = LastEntry

\* The section at i, p counts an entry with number v.
Counts(f, i, p, v) ==
  \E k \in 1..f[i].headers[p].used : f[i].data[p][k][2] = v

\* The numbers that the sections of stream s before a position count.
Written(f, n, s, j, q) ==
  {v \in Nat : \E i \in 0..n : \E p \in DOMAIN f[i].headers :
     /\ f[i].headers[p].entry_type = s /\ Before(i, p, j, q)
     /\ Counts(f, i, p, v)}

\* No marker keeps a reader from the position.
Reached(f, n, j, q) ==
  \A i \in 0..n : \A p \in DOMAIN f[i].headers :
    IsMarker(f, i, p) => ~Before(i, p, j, q)
Seen(f, n, s) ==
  {v \in Nat : \E i \in 0..n : \E p \in DOMAIN f[i].headers :
     /\ f[i].headers[p].entry_type = s /\ Reached(f, n, i, p)
     /\ Counts(f, i, p, v)}

\* A file with entries of runs up to r.
DataOK(file, r) ==
  \A p \in DOMAIN file.headers :
    /\ p < file.len
    /\ file.headers[p].entry_type # LastEntry =>
         /\ file.headers[p].entry_type \in Stream
         /\ p \in DOMAIN file.data /\ file.data[p] \in Seq(Nat \X Nat)
         /\ \A k \in 1..Len(file.data[p]) : file.data[p][k][1] <= r
         /\ file.headers[p].used \in 0..Len(file.data[p])
         /\ \A q \in DOMAIN file.headers : p < q => p + file.headers[p].next <= q

\* In each file the marker is behind the sections, and it is cut off with the
\* file once there is a further one.
MarkersOK(f, m, n) ==
  /\ \A i \in 0..n : \A p \in DOMAIN f[i].headers :
       /\ IsMarker(f, i, p) =>
            /\ \A q \in DOMAIN f[i].headers : IsSection(f, i, q) => q < p
            /\ i \in DOMAIN m \/ i = n
            /\ i \in DOMAIN m => p >= Cursor(m[i])
            /\ i \in DOMAIN m /\ i = n => p = End(m[i])
       /\ IsSection(f, i, p) /\ i \in DOMAIN m => p < Cursor(m[i])
  /\ \A i \in DOMAIN m \ {n} : m[i].marker = {}

\* What a stream logged and no closed section counts yet.
Pending(t, s) == IF t[s].status = "open" THEN t[s].used ELSE 0
IsOpen(t, s, i, p) == t[s].status = "open" /\ t[s].slab = i /\ t[s].start = p

\* The sections of a stream hold its entries in order.  The open one is its
\* last and does not count any yet.
Numbered(f, n, r, s, i, p) ==
  \E c \in Nat :
    /\ Written(f, n, s, i, p) = 1..c
    /\ \A k \in 1..Len(f[i].data[p]) : f[i].data[p][k] = <<r, c + k>>
StreamOK(f, n, t, l, r, s) ==
  /\ \A i \in 0..n : \A p \in DOMAIN f[i].headers :
       f[i].headers[p].entry_type = s =>
         /\ Numbered(f, n, r, s, i, p)
         /\ ~IsOpen(t, s, i, p) => f[i].headers[p].used = Len(f[i].data[p])
         /\ IsOpen(t, s, i, p) =>
              /\ f[i].headers[p].used = 0 /\ Len(f[i].data[p]) = t[s].used
              /\ \A j \in 0..n : \A q \in DOMAIN f[j].headers :
                   f[j].headers[q].entry_type = s => ~Before(i, p, j, q)
  /\ Pending(t, s) <= l[s]
  /\ Written(f, n, s, n + 1, 0) = 1..(l[s] - Pending(t, s))

\* The first page of the first file is the main header's.
BehindMainHeader(f, m) ==
  /\ \A p \in DOMAIN f[0].headers : p >= Page
  /\ 0 \in DOMAIN m => Cursor(m[0]) >= Page

DataInv(f, m, n, t, l, r) ==
  /\ r \in Nat \ {0} /\ l \in [Stream -> Nat] /\ BehindMainHeader(f, m)
  /\ \A i \in DOMAIN f : DataOK(f[i], r) /\ (i > n => DataOK(f[i], r - 1))
  /\ MarkersOK(f, m, n)
  /\ \A s \in Stream : StreamOK(f, n, t, l, r, s)

(* The files g and f count the same of stream s: a section has the same       *)
(* entries, or counts none and is a new one.                                 *)
Alike(g, o, f, n, s) ==
  /\ \A i \in 0..n : \A p \in DOMAIN f[i].headers :
       f[i].headers[p].entry_type = s =>
         /\ i \in 0..o /\ p \in DOMAIN g[i].headers
         /\ g[i].headers[p].entry_type = s
         /\ \A v : Counts(g, i, p, v) <=> Counts(f, i, p, v)
  /\ \A i \in 0..o : \A p \in DOMAIN g[i].headers :
       g[i].headers[p].entry_type = s =>
         \/ \A v : ~Counts(g, i, p, v)
         \/ /\ i \in 0..n /\ p \in DOMAIN f[i].headers
            /\ f[i].headers[p].entry_type = s

LEMMA AlikeWritten ==
  ASSUME NEW g, NEW o, NEW f, NEW n, NEW s, Alike(g, o, f, n, s), NEW j, NEW q
  PROVE  Written(g, o, s, j, q) = Written(f, n, s, j, q)
<1>1. ASSUME NEW v \in Written(f, n, s, j, q)
      PROVE  v \in Written(g, o, s, j, q)
  <2>i. PICK i \in 0..n : \E p \in DOMAIN f[i].headers :
          /\ f[i].headers[p].entry_type = s /\ Before(i, p, j, q)
          /\ Counts(f, i, p, v)
    BY DEF Written
  <2>1. PICK p \in DOMAIN f[i].headers :
          /\ f[i].headers[p].entry_type = s /\ Before(i, p, j, q)
          /\ Counts(f, i, p, v)
    BY <2>i
  <2>2. /\ i \in 0..o /\ p \in DOMAIN g[i].headers
        /\ g[i].headers[p].entry_type = s /\ Counts(g, i, p, v)
    BY <2>1 DEF Alike
  <2> QED
    BY <2>1, <2>2 DEF Written
<1>2. ASSUME NEW v \in Written(g, o, s, j, q)
      PROVE  v \in Written(f, n, s, j, q)
  <2>i. PICK i \in 0..o : \E p \in DOMAIN g[i].headers :
          /\ g[i].headers[p].entry_type = s /\ Before(i, p, j, q)
          /\ Counts(g, i, p, v)
    BY DEF Written
  <2>1. PICK p \in DOMAIN g[i].headers :
          /\ g[i].headers[p].entry_type = s /\ Before(i, p, j, q)
          /\ Counts(g, i, p, v)
    BY <2>i
  <2>2. /\ i \in 0..n /\ p \in DOMAIN f[i].headers
        /\ f[i].headers[p].entry_type = s
    BY <2>1 DEF Alike
  <2>3. Counts(f, i, p, v)
    BY <2>1, <2>2 DEF Alike
  <2> QED
    BY <2>1, <2>2, <2>3 DEF Written
<1> QED
  BY <1>1, <1>2

\* Every section is before the end.
LEMMA WrittenToEnd ==
  ASSUME NEW f, NEW n \in Nat, NEW o \in Nat, n <= o, NEW s, NEW p
  PROVE  Written(f, n, s, n + 1, 0) = Written(f, n, s, o + 1, p)
BY DEF Written, Before

\* The same sections of stream s in both.
SameSections(g, o, f, n, s) ==
  /\ \A i \in 0..n : \A p \in DOMAIN f[i].headers :
       f[i].headers[p].entry_type = s =>
         /\ i \in 0..o /\ p \in DOMAIN g[i].headers
         /\ g[i].headers[p] = f[i].headers[p] /\ g[i].data[p] = f[i].data[p]
  /\ \A i \in 0..o : \A p \in DOMAIN g[i].headers :
       g[i].headers[p].entry_type = s =>
         /\ i \in 0..n /\ p \in DOMAIN f[i].headers
         /\ f[i].headers[p].entry_type = s

LEMMA SameAlike ==
  ASSUME NEW g, NEW o, NEW f, NEW n, NEW s, SameSections(g, o, f, n, s)
  PROVE  Alike(g, o, f, n, s)
<1>1. ASSUME NEW i \in 0..n, NEW p \in DOMAIN f[i].headers,
             f[i].headers[p].entry_type = s
      PROVE  /\ i \in 0..o /\ p \in DOMAIN g[i].headers
             /\ g[i].headers[p] = f[i].headers[p] /\ g[i].data[p] = f[i].data[p]
  BY <1>1 DEF SameSections
<1>2. \A i \in 0..o : \A p \in DOMAIN g[i].headers :
        g[i].headers[p].entry_type = s =>
          /\ i \in 0..n /\ p \in DOMAIN f[i].headers
          /\ f[i].headers[p].entry_type = s
  BY DEF SameSections
<1>3. ASSUME NEW i \in 0..n, NEW p \in DOMAIN f[i].headers,
             f[i].headers[p].entry_type = s
      PROVE  /\ i \in 0..o /\ p \in DOMAIN g[i].headers
             /\ g[i].headers[p].entry_type = s
             /\ \A v : Counts(g, i, p, v) <=> Counts(f, i, p, v)
  BY <1>1, <1>3 DEF Counts
<1> QED
  BY <1>2, <1>3 DEF Alike

LEMMA StreamKept ==
  ASSUME NEW g, NEW o \in Nat, NEW f, NEW n \in Nat, n <= o, NEW s \in Stream,
         SameSections(g, o, f, n, s), NEW t, NEW l, NEW r, StreamOK(f, n, t, l, r, s),
         NEW u, u[s] = t[s], NEW k, k[s] = l[s]
  PROVE  StreamOK(g, o, u, k, r, s)
<1>1. Alike(g, o, f, n, s)
  BY SameAlike
<1>2. \A j, q : Written(g, o, s, j, q) = Written(f, n, s, j, q)
  BY <1>1, AlikeWritten
<1>3. Written(g, o, s, o + 1, 0) = Written(f, n, s, n + 1, 0)
  BY <1>2, WrittenToEnd
<1>4. Pending(u, s) = Pending(t, s) /\ \A i, p : IsOpen(u, s, i, p) <=> IsOpen(t, s, i, p)
  BY DEF Pending, IsOpen
<1>5. ASSUME NEW i \in 0..o, NEW p \in DOMAIN g[i].headers,
             g[i].headers[p].entry_type = s
      PROVE  /\ i \in 0..n /\ p \in DOMAIN f[i].headers
             /\ f[i].headers[p].entry_type = s
             /\ g[i].headers[p] = f[i].headers[p] /\ g[i].data[p] = f[i].data[p]
  <2>1. /\ i \in 0..n /\ p \in DOMAIN f[i].headers
        /\ f[i].headers[p].entry_type = s
    BY <1>5 DEF SameSections
  <2> QED
    BY <2>1 DEF SameSections
<1>6. ASSUME NEW i \in 0..o, NEW p \in DOMAIN g[i].headers,
             g[i].headers[p].entry_type = s
      PROVE  /\ Numbered(g, o, r, s, i, p)
             /\ ~IsOpen(u, s, i, p) => g[i].headers[p].used = Len(g[i].data[p])
             /\ IsOpen(u, s, i, p) =>
                  /\ g[i].headers[p].used = 0 /\ Len(g[i].data[p]) = u[s].used
                  /\ \A j \in 0..o : \A q \in DOMAIN g[j].headers :
                       g[j].headers[q].entry_type = s => ~Before(i, p, j, q)
  <2>1. /\ i \in 0..n /\ p \in DOMAIN f[i].headers
        /\ g[i].headers[p] = f[i].headers[p] /\ g[i].data[p] = f[i].data[p]
        /\ f[i].headers[p].entry_type = s
    BY <1>5, <1>6
  <2>2. /\ Numbered(f, n, r, s, i, p)
        /\ ~IsOpen(t, s, i, p) => f[i].headers[p].used = Len(f[i].data[p])
        /\ IsOpen(t, s, i, p) =>
             /\ f[i].headers[p].used = 0 /\ Len(f[i].data[p]) = t[s].used
             /\ \A j \in 0..n : \A q \in DOMAIN f[j].headers :
                  f[j].headers[q].entry_type = s => ~Before(i, p, j, q)
    BY <2>1 DEF StreamOK
  <2>3. Numbered(g, o, r, s, i, p)
    BY <1>2, <2>1, <2>2 DEF Numbered
  <2>4. ASSUME IsOpen(u, s, i, p), NEW j \in 0..o, NEW q \in DOMAIN g[j].headers,
               g[j].headers[q].entry_type = s
        PROVE  ~Before(i, p, j, q)
    BY <1>4, <1>5, <2>2, <2>4
  <2> QED
    BY <1>4, <2>1, <2>2, <2>3, <2>4
<1> QED
  BY <1>3, <1>4, <1>6 DEF StreamOK

(* What a reader of f finds, a reader of g finds too: sections keep their    *)
(* entries, and no new marker is before one of them.                         *)
MarkersBehind(g, o, f, n) ==
  \A j \in 0..o : \A q \in DOMAIN g[j].headers :
    IsMarker(g, j, q) =>
      \/ j \in 0..n /\ IsMarker(f, j, q)
      \/ \A i \in 0..n : \A p \in DOMAIN f[i].headers :
           IsSection(f, i, p) => ~Before(j, q, i, p)
Extends(g, o, f, n) ==
  /\ \A i \in 0..n : \A p \in DOMAIN f[i].headers :
       IsSection(f, i, p) =>
         /\ i \in 0..o /\ p \in DOMAIN g[i].headers
         /\ g[i].headers[p].entry_type = f[i].headers[p].entry_type
         /\ \A v : Counts(f, i, p, v) => Counts(g, i, p, v)
  /\ MarkersBehind(g, o, f, n)

LEMMA AlikeExtends ==
  ASSUME NEW g, NEW o, NEW f, NEW n, \A s \in Stream : Alike(g, o, f, n, s),
         \A i \in 0..n : \A p \in DOMAIN f[i].headers :
           IsSection(f, i, p) => f[i].headers[p].entry_type \in Stream,
         MarkersBehind(g, o, f, n)
  PROVE  Extends(g, o, f, n)
BY DEF Alike, Extends

LEMMA ExtendsOn ==
  ASSUME NEW f, NEW n, NEW g, NEW o, NEW h, NEW k,
         Extends(g, o, f, n), Extends(h, k, g, o)
  PROVE  Extends(h, k, f, n)
<1>1. ASSUME NEW i \in 0..n, NEW p \in DOMAIN f[i].headers, IsSection(f, i, p)
      PROVE  /\ i \in 0..o /\ IsSection(g, i, p)
             /\ i \in 0..k /\ p \in DOMAIN h[i].headers
             /\ h[i].headers[p].entry_type = f[i].headers[p].entry_type
             /\ \A v : Counts(f, i, p, v) => Counts(h, i, p, v)
  <2>1. /\ i \in 0..o /\ p \in DOMAIN g[i].headers
        /\ g[i].headers[p].entry_type = f[i].headers[p].entry_type
        /\ \A v : Counts(f, i, p, v) => Counts(g, i, p, v)
    BY <1>1 DEF Extends
  <2>2. IsSection(g, i, p)
    BY <1>1, <2>1 DEF IsSection
  <2>3. /\ i \in 0..k /\ p \in DOMAIN h[i].headers
        /\ h[i].headers[p].entry_type = g[i].headers[p].entry_type
        /\ \A v : Counts(g, i, p, v) => Counts(h, i, p, v)
    BY <2>1, <2>2 DEF Extends
  <2> QED
    BY <2>1, <2>2, <2>3
<1>2. ASSUME NEW j \in 0..k, NEW q \in DOMAIN h[j].headers, IsMarker(h, j, q),
             ~(j \in 0..n /\ IsMarker(f, j, q)),
             NEW i \in 0..n, NEW p \in DOMAIN f[i].headers, IsSection(f, i, p)
      PROVE  ~Before(j, q, i, p)
  <2>1. CASE j \in 0..o /\ IsMarker(g, j, q)
    <3>1. q \in DOMAIN g[j].headers
      BY <2>1 DEF IsMarker
    <3> QED
      BY <1>2, <2>1, <3>1 DEF Extends, MarkersBehind
  <2>2. CASE ~(j \in 0..o /\ IsMarker(g, j, q))
    <3>1. i \in 0..o /\ p \in DOMAIN g[i].headers /\ IsSection(g, i, p)
      BY <1>1, <1>2 DEF IsSection
    <3> QED
      BY <1>2, <2>2, <3>1 DEF Extends, MarkersBehind
  <2> QED
    BY <2>1, <2>2
<1> QED
  BY <1>1, <1>2 DEF Extends, MarkersBehind

LEMMA SeenGrows ==
  ASSUME NEW g, NEW o, NEW f, NEW n, Extends(g, o, f, n), NEW s \in Stream
  PROVE  Seen(f, n, s) \subseteq Seen(g, o, s)
<1>1. s # LastEntry
  BY MarkerIsNoStream
<1>2. ASSUME NEW v \in Seen(f, n, s)
      PROVE  v \in Seen(g, o, s)
  <2>i. PICK i \in 0..n : \E p \in DOMAIN f[i].headers :
          /\ f[i].headers[p].entry_type = s /\ Reached(f, n, i, p)
          /\ Counts(f, i, p, v)
    BY DEF Seen
  <2>1. PICK p \in DOMAIN f[i].headers :
          /\ f[i].headers[p].entry_type = s /\ Reached(f, n, i, p)
          /\ Counts(f, i, p, v)
    BY <2>i
  <2>2. IsSection(f, i, p)
    BY <1>1, <2>1 DEF IsSection
  <2>3. /\ i \in 0..o /\ p \in DOMAIN g[i].headers
        /\ g[i].headers[p].entry_type = s /\ Counts(g, i, p, v)
    BY <2>1, <2>2 DEF Extends
  <2>4. ASSUME NEW j \in 0..o, NEW q \in DOMAIN g[j].headers, IsMarker(g, j, q)
        PROVE  ~Before(j, q, i, p)
    <3>1. CASE j \in 0..n /\ IsMarker(f, j, q)
      <4>1. q \in DOMAIN f[j].headers
        BY <3>1 DEF IsMarker
      <4> QED
        BY <2>1, <3>1, <4>1 DEF Reached
    <3>2. CASE ~(j \in 0..n /\ IsMarker(f, j, q))
      BY <2>2, <2>4, <3>2 DEF Extends, MarkersBehind
    <3> QED
      BY <3>1, <3>2
  <2>5. Reached(g, o, i, p)
    BY <2>4 DEF Reached
  <2>6. v \in Nat
    BY DEF Seen
  <2> QED
    BY <2>3, <2>5, <2>6 DEF Seen
<1> QED
  BY <1>2

----------------------------------------------------------------------------
(* What a reader finds. *)

Holds(r) == DataInv(files, slabs, front, streams, logged, r)

LEMMA ScanInduction ==
  ASSUME FilesOK, NEW G,
         \A at \in Position : (~Stops(at) => Onward(at) \in G) => at \in G
  PROVE  \A at \in Position : at \in G
<1> DEFINE Bad == {a \in Position : a \notin G}
           T == {Left(a) : a \in Bad}
<1>1. Bad = {}
  <2> SUFFICES ASSUME Bad # {} PROVE FALSE
    OBVIOUS
  <2>1. PICK n \in T : \A m \in T : n <= m
    <3>1. T \in SUBSET Nat /\ T # {}
      BY LeftOf
    <3> HIDE DEF T
    <3> QED
      BY <3>1, Smallest
  <2>2. PICK at \in Bad : n = Left(at)
    BY <2>1
  <2>3. ~Stops(at) => Onward(at) \in G
    <3> HAVE ~Stops(at)
    <3> DEFINE o == Onward(at)
    <3>1. /\ o \in Position /\ Left(o) < Left(at)
          /\ Left(o) \in Nat /\ Left(at) \in Nat
      BY <2>2, GoesOn
    <3> HIDE DEF o
    <3>2. o \notin Bad
      <4>1. o \in Bad => Left(o) \in T
        OBVIOUS
      <4>2. Left(o) \in T => n <= Left(o)
        BY <2>1
      <4> HIDE DEF Bad, T
      <4> QED
        BY <2>2, <3>1, <4>1, <4>2
    <3> QED
      BY <3>1, <3>2 DEF o
  <2> QED
    BY <2>2, <2>3
<1> QED
  BY <1>1

Entries == Seq(Nat \X Nat)
Shaped(r) ==
  DOMAIN r = {"ends", "sections", "content"} /\ r.content \in [Stream -> Entries]

LEMMA NothingShaped ==
  ASSUME NEW b
  PROVE  Shaped(NothingRead(b)) /\ \A s \in Stream : NothingRead(b).content[s] = <<>>
<1>1. NothingRead(b).content = [s \in Stream |-> <<>>]
  BY DEF NothingRead
<1>2. DOMAIN NothingRead(b) = {"ends", "sections", "content"}
  BY DEF NothingRead
<1>3. <<>> \in Entries
  BY DEF Entries
<1> QED
  BY <1>1, <1>2, <1>3 DEF Shaped

\* r is rest, behind the entries e of stream u.
Prepended(r, rest, u, e) ==
  /\ Shaped(r) /\ r.content[u] = e \o rest.content[u]
  /\ \A s \in Stream \ {u} : r.content[s] = rest.content[s]

LEMMA SectionShaped ==
  ASSUME NEW rest, Shaped(rest), NEW i, NEW p, NEW u \in Stream,
         files[i].headers[p].entry_type = u, Content(i, p) \in Entries
  PROVE  Prepended(SectionRead(rest, i, p), rest, u, Content(i, p))
<1> DEFINE r == SectionRead(rest, i, p)
           c == Content(i, p) \o rest.content[u]
<1>1. /\ DOMAIN r = {"ends", "sections", "content"}
      /\ r.content = [rest.content EXCEPT ![u] = c]
  BY DEF SectionRead, Shaped
<1>2. c \in Entries
  BY DEF Shaped, Entries
<1> HIDE DEF r, c
<1>3. r.content \in [Stream -> Entries]
  BY <1>1, <1>2 DEF Shaped
<1>4. r.content[u] = c /\ \A s \in Stream \ {u} : r.content[s] = rest.content[s]
  BY <1>1 DEF Shaped
<1> QED
  BY <1>1, <1>3, <1>4 DEF r, c, Shaped, Prepended

LEMMA ContentHere ==
  ASSUME NEW r, Holds(r), NEW i, NEW p, i \in DOMAIN files, IsSection(files, i, p)
  PROVE  LET e == Content(i, p) header == files[i].headers[p] IN
         /\ header.entry_type \in Stream /\ e \in Entries
         /\ header.used \in 0..Len(files[i].data[p]) /\ Len(e) = header.used
         /\ \A k \in 1..Len(e) : e[k] = files[i].data[p][k] /\ e[k][1] <= r
<1> DEFINE d == files[i].data[p]
           u == files[i].headers[p].used
<1>1. /\ files[i].headers[p].entry_type \in Stream
      /\ d \in Entries /\ u \in 0..Len(d) /\ \A k \in 1..Len(d) : d[k][1] <= r
  BY DEF Holds, DataInv, DataOK, IsSection, Entries
<1>2. Content(i, p) = SubSeq(d, 1, u)
  BY DEF Content
<1> HIDE DEF d, u
<1>3. /\ SubSeq(d, 1, u) \in Entries /\ Len(SubSeq(d, 1, u)) = u
      /\ \A k \in 1..u : SubSeq(d, 1, u)[k] = d[k]
  BY <1>1 DEF Entries
<1> QED
  BY <1>1, <1>2, <1>3 DEF d, u

LEMMA ScanShaped ==
  ASSUME FilesOK, NEW r, Holds(r)
  PROVE  \A at \in Position : Shaped(Scan[at])
<1> DEFINE G == {at \in Position : Shaped(Scan[at])}
<1>1. ASSUME NEW at \in Position, ~Stops(at) => Onward(at) \in G
      PROVE  Shaped(Scan[at])
  <2> DEFINE rest == Scan[Onward(at)]
             i == at[1]
             p == at[2]
  <2>1. Scan[at] = Found(at, rest)
    BY ScanUnfolds
  <2>2. ~Stops(at) => Shaped(rest)
    BY <1>1
  <2> HIDE DEF rest
  <2>3. CASE Stops(at)
    <3>1. Found(at, rest) = NothingRead(FALSE) \/ Found(at, rest) = NothingRead(TRUE)
      BY <2>3 DEF Stops, Found
    <3> QED
      BY <2>1, <3>1, NothingShaped
  <2>4. CASE ~Stops(at) /\ EndOfFile(i, p)
    BY <2>1, <2>2, <2>4 DEF Found
  <2>5. CASE ~Stops(at) /\ ~EndOfFile(i, p)
    <3>1. i \in DOMAIN files /\ IsSection(files, i, p)
      BY <2>5 DEF Stops, IsHeader, IsSection
    <3>2. Found(at, rest) = SectionRead(rest, i, p)
      BY <2>5, <3>1 DEF Found, IsHeader, IsSection
    <3>3. /\ files[i].headers[p].entry_type \in Stream
          /\ Content(i, p) \in Entries
      BY <3>1, ContentHere
    <3> QED
      BY <2>1, <2>2, <2>5, <3>2, <3>3, SectionShaped DEF Prepended
  <2> QED
    BY <2>3, <2>4, <2>5
<1>2. \A at \in Position : at \in G
  <2>1. \A at \in Position : (~Stops(at) => Onward(at) \in G) => at \in G
    BY <1>1
  <2> HIDE DEF G
  <2> QED
    BY <2>1, ScanInduction
<1> QED
  BY <1>2

(* The entries of stream s that are read from a position.                    *)
Read(at, s) == Scan[at].content[s]

LEMMA ReadUnfolds ==
  ASSUME FilesOK, NEW r, Holds(r), NEW at \in Position, NEW s \in Stream
  PROVE  /\ Read(at, s) \in Entries
         /\ Stops(at) => Read(at, s) = <<>>
         /\ ~Stops(at) /\ EndOfFile(at[1], at[2]) => Read(at, s) = Read(Onward(at), s)
         /\ ~Stops(at) /\ ~EndOfFile(at[1], at[2]) =>
              /\ at[1] \in DOMAIN files /\ IsSection(files, at[1], at[2])
              /\ files[at[1]].headers[at[2]].entry_type = s =>
                   Read(at, s) = Content(at[1], at[2]) \o Read(Onward(at), s)
              /\ files[at[1]].headers[at[2]].entry_type # s =>
                   Read(at, s) = Read(Onward(at), s)
<1> DEFINE rest == Scan[Onward(at)]
           i == at[1]
           p == at[2]
<1>1. Scan[at] = Found(at, rest) /\ Shaped(Scan[at])
  BY ScanUnfolds, ScanShaped
<1>2. ~Stops(at) => Shaped(rest)
  BY GoesOn, ScanShaped
<1>3. rest.content[s] = Read(Onward(at), s)
  BY DEF Read
<1> HIDE DEF rest
<1>4. CASE Stops(at)
  <2>1. Found(at, rest) = NothingRead(FALSE) \/ Found(at, rest) = NothingRead(TRUE)
    BY <1>4 DEF Stops, Found
  <2> QED
    BY <1>1, <1>4, <2>1, NothingShaped DEF Read, Shaped
<1>5. CASE ~Stops(at) /\ EndOfFile(i, p)
  <2>1. Scan[at] = rest
    BY <1>1, <1>5 DEF Found
  <2> QED
    BY <1>1, <1>3, <1>5, <2>1 DEF Read, Shaped
<1>6. CASE ~Stops(at) /\ ~EndOfFile(i, p)
  <2>1. i \in DOMAIN files /\ IsSection(files, i, p)
    BY <1>6 DEF Stops, IsHeader, IsSection
  <2>2. Found(at, rest) = SectionRead(rest, i, p)
    BY <1>6, <2>1 DEF Found, IsHeader, IsSection
  <2> DEFINE u == files[i].headers[p].entry_type
  <2>3. u \in Stream /\ Content(i, p) \in Entries
    BY <2>1, ContentHere
  <2>4. /\ Scan[at].content[u] = Content(i, p) \o rest.content[u]
        /\ \A v \in Stream \ {u} : Scan[at].content[v] = rest.content[v]
    <3> DEFINE w == SectionRead(rest, i, p)
    <3>1. Shaped(rest) /\ files[i].headers[p].entry_type = u
      BY <1>2, <1>6
    <3> HIDE DEF u, i, p
    <3>2. /\ Shaped(w) /\ w.content[u] = Content(i, p) \o rest.content[u]
          /\ \A v \in Stream \ {u} : w.content[v] = rest.content[v]
      <4>1. Prepended(SectionRead(rest, i, p), rest, u, Content(i, p))
        BY <2>3, <3>1, SectionShaped
      <4>2. Prepended(w, rest, u, Content(i, p))
        BY <4>1
      <4> QED
        BY <4>2 DEF Prepended
    <3>3. Scan[at] = w
      BY <1>1, <2>2
    <3> QED
      BY <3>2, <3>3
  <2> HIDE DEF u
  <2>5. (u = s => Read(at, s) = Content(i, p) \o Read(Onward(at), s))
        /\ (u # s => Read(at, s) = Read(Onward(at), s))
    BY <1>3, <2>4 DEF Read
  <2>6. Read(at, s) \in Entries
    BY <1>1 DEF Read, Shaped
  <2> QED
    BY <1>6, <2>1, <2>5, <2>6 DEF u
<1> QED
  BY <1>4, <1>5, <1>6

(* Behind the front slab there is nothing of this run.                       *)
LEMMA ReadsOld ==
  ASSUME FilesOK, front \in Nat, NEW r, Holds(r), NEW s \in Stream
  PROVE  \A at \in Position :
           at[1] > front =>
             \A k \in 1..Len(Read(at, s)) : Read(at, s)[k][1] < r
<1> DEFINE Old(at) == \A k \in 1..Len(Read(at, s)) : Read(at, s)[k][1] < r
           G == {at \in Position : at[1] > front => Old(at)}
<1>1. ASSUME NEW at \in Position, ~Stops(at) => Onward(at) \in G, at[1] > front
      PROVE  Old(at)
  <2> DEFINE i == at[1]
             p == at[2]
             o == Onward(at)
  <2>1. i \in Nat /\ (~Stops(at) => o[1] \in {i, i + 1} /\ o \in Position)
    <3>1. i \in Nat
      BY DEF Position
    <3> QED
      BY <3>1, GoesOn DEF Onward
  <2>2. ~Stops(at) => Old(o)
    <3> HAVE ~Stops(at)
    <3>1. o[1] > front
      BY <1>1, <2>1
    <3> QED
      BY <1>1, <3>1
  <2>3. CASE Stops(at)
    <3>1. Len(Read(at, s)) = 0
      BY <2>3, ReadUnfolds
    <3> QED
      BY <3>1
  <2> HIDE DEF o
  <2>4. CASE ~Stops(at) /\ Read(at, s) = Read(o, s)
    BY <2>2, <2>4
  <2>5. CASE ~Stops(at) /\ Read(at, s) # Read(o, s)
    <3>1. /\ i \in DOMAIN files /\ IsSection(files, i, p)
          /\ Read(at, s) = Content(i, p) \o Read(o, s)
      BY <2>5, ReadUnfolds DEF o
    <3> DEFINE a == Content(i, p)
               b == Read(o, s)
    <3>2. a \in Entries /\ b \in Entries
      BY <2>1, <2>5, <3>1, ContentHere, ReadUnfolds
    <3>3. \A k \in 1..Len(a) : a[k][1] < r
      <4>1. /\ DataOK(files[i], r - 1) /\ r \in Nat
        BY <1>1, <3>1 DEF Holds, DataInv
      <4>2. /\ \A k \in 1..Len(files[i].data[p]) : files[i].data[p][k][1] <= r - 1
            /\ files[i].data[p] \in Seq(Nat \X Nat)
        BY <3>1, <4>1 DEF DataOK, IsSection
      <4>3. /\ Len(a) \in 0..Len(files[i].data[p])
            /\ \A k \in 1..Len(a) : a[k] = files[i].data[p][k]
        <5> DEFINE header == files[i].headers[p]
        <5>1. /\ header.used \in 0..Len(files[i].data[p]) /\ Len(a) = header.used
              /\ \A k \in 1..Len(a) : a[k] = files[i].data[p][k]
          <6> HIDE DEF i, p
          <6> QED
            BY <3>1, ContentHere
        <5> QED
          BY <5>1
      <4> HIDE DEF a
      <4>4. ASSUME NEW k \in 1..Len(a)
            PROVE  a[k][1] < r
        <5> DEFINE z == files[i].data[p][k]
        <5>1. z \in Nat \X Nat /\ z[1] <= r - 1 /\ a[k] = z
          <6>1. k \in 1..Len(files[i].data[p])
            BY <4>2, <4>3
          <6> DEFINE d == files[i].data[p]
                     S == Nat \X Nat
          <6>2. d \in Seq(S) /\ (\A j \in 1..Len(d) : d[j][1] <= r - 1) /\ k \in 1..Len(d)
            BY <4>2, <6>1
          <6>3. a[k] = d[k]
            BY <4>3
          <6> HIDE DEF d, S
          <6>4. d[k] \in S /\ d[k][1] <= r - 1
            BY <6>2
          <6> QED
            BY <6>3, <6>4 DEF d, S
        <5> HIDE DEF z
        <5>2. z[1] \in Nat
          BY <5>1
        <5> QED
          BY <4>1, <5>1, <5>2
      <4> QED
        BY <4>4
    <3>4. \A k \in 1..Len(b) : b[k][1] < r
      BY <2>2, <2>5
    <3> HIDE DEF a, b
    <3>5. \A k \in 1..Len(a \o b) : (a \o b)[k][1] < r
      <4>1. Len(a \o b) = Len(a) + Len(b)
        BY <3>2 DEF Entries
      <4>2. \A k \in 1..Len(a) + Len(b) :
              (a \o b)[k] = IF k <= Len(a) THEN a[k] ELSE b[k - Len(a)]
        BY <3>2 DEF Entries
      <4>3. Len(a) \in Nat /\ Len(b) \in Nat
        BY <3>2 DEF Entries
      <4> QED
        BY <3>3, <3>4, <4>1, <4>2, <4>3
    <3> QED
      BY <3>1, <3>5 DEF a, b
  <2> QED
    BY <2>3, <2>4, <2>5
<1>2. \A at \in Position : at \in G
  <2>1. \A at \in Position : (~Stops(at) => Onward(at) \in G) => at \in G
    BY <1>1
  <2> HIDE DEF G
  <2> QED
    BY <2>1, ScanInduction
<1> QED
  BY <1>2

\* What is between two positions that have the same headers before them.
LEMMA SameBefore ==
  ASSUME NEW f, NEW n, NEW i, NEW p, NEW j, NEW q, NEW s,
         \A a \in 0..n : \A b \in DOMAIN f[a].headers :
           Before(a, b, j, q) <=> Before(a, b, i, p)
  PROVE  /\ Written(f, n, s, j, q) = Written(f, n, s, i, p)
         /\ Reached(f, n, i, p) => Reached(f, n, j, q)
<1>1. Written(f, n, s, j, q) = Written(f, n, s, i, p)
  BY DEF Written
<1>2. Reached(f, n, i, p) => Reached(f, n, j, q)
  BY DEF Reached
<1> QED
  BY <1>1, <1>2

LEMMA SameInterval ==
  ASSUME NEW a \in Nat, NEW b \in Nat, 1..a = 1..b
  PROVE  a = b
<1>1. ASSUME a < b PROVE FALSE
  <2>1. b \in 1..b /\ b \notin 1..a
    BY <1>1
  <2> QED
    BY <2>1
<1>2. ASSUME b < a PROVE FALSE
  <2>1. a \in 1..a /\ a \notin 1..b
    BY <1>2
  <2> QED
    BY <2>1
<1> QED
  BY <1>1, <1>2

Readable ==
  /\ ChainInv(files, slabs, front, streams) /\ Holds(run)
  /\ front \in DOMAIN slabs => SlabInv(slabs[front])
  /\ front \in DOMAIN slabs \/ Sealed(files[front], prolog(front))
  /\ lock = Free =>
       \A p \in Follows(files[front].headers, prolog(front)) : p < files[front].len

LEMMA ReadableFiles ==
  ASSUME Readable
  PROVE  /\ FilesOK /\ front \in Nat /\ 0..front \subseteq DOMAIN files
         /\ run \in Nat /\ front <= MaxSlab + 1
         /\ \A i \in 0..front : \A p \in DOMAIN files[i].headers : p \in Nat
<1>1. /\ FilesOK /\ front \in Nat /\ 0..front \subseteq DOMAIN files
      /\ run \in Nat
  BY DEF Readable, ChainInv, FilesOK, Holds, DataInv
<1>2. front \in 0..front /\ MaxSlab \in Nat
  BY <1>1, UnifiedLogAssumption
<1>3. front <= MaxSlab + 1
  BY <1>1, <1>2 DEF FilesOK
<1> QED
  BY <1>1, <1>3 DEF FilesOK, FileOK

LEMMA SeenHere ==
  ASSUME Readable, NEW i \in 0..front, NEW p \in Nat, NEW s \in Stream,
         Reached(files, front, i, p),
         \A j \in 0..front : \A q \in DOMAIN files[j].headers :
           IsSection(files, j, q) /\ ~Before(j, q, i, p) => ~Reached(files, front, j, q)
  PROVE  Seen(files, front, s) = Written(files, front, s, i, p)
<1>1. /\ front \in Nat
      /\ \A j \in 0..front : \A q \in DOMAIN files[j].headers : q \in Nat
  BY ReadableFiles
<1>2. s # LastEntry
  BY MarkerIsNoStream
<1>3. ASSUME NEW v \in Seen(files, front, s)
      PROVE  v \in Written(files, front, s, i, p)
  <2>i. PICK j \in 0..front : \E q \in DOMAIN files[j].headers :
          /\ files[j].headers[q].entry_type = s /\ Reached(files, front, j, q)
          /\ Counts(files, j, q, v)
    BY DEF Seen
  <2>1. PICK q \in DOMAIN files[j].headers :
          /\ files[j].headers[q].entry_type = s /\ Reached(files, front, j, q)
          /\ Counts(files, j, q, v)
    BY <2>i
  <2>2. IsSection(files, j, q)
    BY <1>2, <2>1 DEF IsSection
  <2>3. Before(j, q, i, p) /\ v \in Nat
    BY <2>1, <2>2 DEF Seen
  <2> QED
    BY <2>1, <2>3 DEF Written
<1>4. ASSUME NEW v \in Written(files, front, s, i, p)
      PROVE  v \in Seen(files, front, s)
  <2>i. PICK j \in 0..front : \E q \in DOMAIN files[j].headers :
          /\ files[j].headers[q].entry_type = s /\ Before(j, q, i, p)
          /\ Counts(files, j, q, v)
    BY DEF Written
  <2>1. PICK q \in DOMAIN files[j].headers :
          /\ files[j].headers[q].entry_type = s /\ Before(j, q, i, p)
          /\ Counts(files, j, q, v)
    BY <2>i
  <2>2. ASSUME NEW a \in 0..front, NEW b \in DOMAIN files[a].headers,
               IsMarker(files, a, b)
        PROVE  ~Before(a, b, j, q)
    <3>1. ~Before(a, b, i, p)
      BY <2>2 DEF Reached
    <3>2. a \in Nat /\ b \in Nat /\ j \in Nat /\ q \in Nat /\ i \in Nat /\ p \in Nat
      BY <1>1
    <3> QED
      BY <2>1, <3>1, <3>2 DEF Before
  <2>3. Reached(files, front, j, q) /\ v \in Nat
    BY <2>2 DEF Reached, Written
  <2> QED
    BY <2>1, <2>3 DEF Seen
<1> QED
  BY <1>3, <1>4

(* A reader's way from position at on.                                       *)
ReadsOn(e, n, m) ==
  /\ m \in Nat /\ n <= m /\ m - n <= Len(e)
  /\ \A k \in 1..Len(e) :
       /\ k <= m - n => e[k] = <<run, n + k>>
       /\ k > m - n => e[k][1] < run /\ lock # Free
ReadsAll(at, s) ==
  \A n \in Nat :
    Written(files, front, s, at[1], at[2]) = 1..n =>
      \E m \in Nat : Seen(files, front, s) = 1..m /\ ReadsOn(Read(at, s), n, m)

LEMMA ReadsJoined ==
  ASSUME NEW a \in Entries, NEW b \in Entries, NEW n \in Nat, NEW m,
         \A k \in 1..Len(a) : a[k] = <<run, n + k>>, ReadsOn(b, n + Len(a), m)
  PROVE  ReadsOn(a \o b, n, m)
<1> DEFINE e == a \o b
<1>1. /\ Len(a) \in Nat /\ Len(b) \in Nat /\ Len(e) = Len(a) + Len(b)
      /\ \A k \in 1..Len(a) + Len(b) :
           e[k] = IF k <= Len(a) THEN a[k] ELSE b[k - Len(a)]
  BY DEF Entries
<1>2. /\ m \in Nat /\ n + Len(a) <= m /\ m - (n + Len(a)) <= Len(b)
      /\ \A k \in 1..Len(b) :
           /\ k <= m - (n + Len(a)) => b[k] = <<run, n + Len(a) + k>>
           /\ k > m - (n + Len(a)) => b[k][1] < run /\ lock # Free
  BY DEF ReadsOn
<1> HIDE DEF e
<1>3. n <= m /\ m - n <= Len(e)
  BY <1>1, <1>2
<1>4. ASSUME NEW k \in 1..Len(e)
      PROVE  /\ k <= m - n => e[k] = <<run, n + k>>
             /\ k > m - n => e[k][1] < run /\ lock # Free
  <2>1. CASE k <= Len(a)
    <3>1. k \in 1..Len(a) /\ e[k] = a[k] /\ k <= m - n
      BY <1>1, <1>2, <2>1
    <3> QED
      BY <3>1, <1>2
  <2>2. CASE k > Len(a)
    <3> DEFINE j == k - Len(a)
    <3>1. j \in 1..Len(b) /\ e[k] = b[j] /\ n + Len(a) + j = n + k
      BY <1>1, <2>2
    <3>2. /\ (k <= m - n => j <= m - (n + Len(a)))
          /\ (k > m - n => j > m - (n + Len(a)))
      BY <1>1, <1>2
    <3> HIDE DEF j
    <3> QED
      BY <1>2, <3>1, <3>2
  <2> QED
    BY <1>1, <2>1, <2>2
<1> QED
  BY <1>2, <1>3, <1>4 DEF ReadsOn, e

\* Nothing of this run is left to read.
LEMMA ReadsNoMore ==
  ASSUME Readable, NEW s \in Stream, NEW i \in 0..front, NEW p \in Nat,
         NEW at, at = <<i, p>>, Read(at, s) \in Entries,
         \A k \in 1..Len(Read(at, s)) : Read(at, s)[k][1] < run /\ lock # Free,
         Reached(files, front, i, p),
         \A j \in 0..front : \A q \in DOMAIN files[j].headers :
           IsSection(files, j, q) /\ ~Before(j, q, i, p) => ~Reached(files, front, j, q)
  PROVE  ReadsAll(at, s)
<1>1. Seen(files, front, s) = Written(files, front, s, i, p)
  BY SeenHere
<1>2. ASSUME NEW n \in Nat
      PROVE  ReadsOn(Read(at, s), n, n)
  <2> DEFINE e == Read(at, s)
  <2>1. Len(e) \in Nat
    BY DEF Entries
  <2>2. \A k \in 1..Len(e) : ~(k <= n - n) /\ e[k][1] < run /\ lock # Free
    OBVIOUS
  <2> HIDE DEF e
  <2>3. ReadsOn(e, n, n)
    BY <2>1, <2>2 DEF ReadsOn
  <2> QED
    BY <2>3 DEF e
<1> QED
  BY <1>1, <1>2 DEF ReadsAll

(* From a header of a section a reader comes to the next one.                *)
LEMMA SectionPassed ==
  ASSUME Readable, NEW i \in 0..front, NEW p \in DOMAIN files[i].headers,
         IsSection(files, i, p), NEW j, j = p + files[i].headers[p].next
  PROVE  /\ p \in Nat /\ j \in Nat
         /\ \A a \in 0..front : \A b \in DOMAIN files[a].headers :
              Before(a, b, i, j) <=> Before(a, b, i, p) \/ (a = i /\ b = p)
<1>1. /\ front \in Nat /\ i \in DOMAIN files
      /\ \A a \in 0..front : \A b \in DOMAIN files[a].headers : b \in Nat
      /\ FileOK(files[i]) /\ DataOK(files[i], run)
  BY ReadableFiles DEF Readable, Holds, DataInv, FilesOK
<1>2. /\ files[i].headers[p].next \in Nat /\ files[i].headers[p].next > 0
      /\ \A q \in DOMAIN files[i].headers :
           p < q => p + files[i].headers[p].next <= q
  BY <1>1 DEF FileOK, DataOK, IsSection
<1>3. p \in Nat /\ j \in Nat /\ p < j
  BY <1>1, <1>2
<1>4. ASSUME NEW a \in 0..front, NEW b \in DOMAIN files[a].headers
      PROVE  Before(a, b, i, j) <=> Before(a, b, i, p) \/ (a = i /\ b = p)
  <2>1. b \in Nat /\ a \in Nat /\ i \in Nat
    BY <1>1
  <2>2. a = i /\ p < b => j <= b
    BY <1>2
  <2> QED
    BY <1>3, <2>1, <2>2 DEF Before
<1> QED
  BY <1>3, <1>4

LEMMA SectionReads ==
  ASSUME Readable, NEW i \in 0..front, NEW p \in DOMAIN files[i].headers,
         IsSection(files, i, p), NEW s \in Stream, NEW at \in Position,
         at = <<i, p>>, ~Stops(at), ~EndOfFile(i, p), ReadsAll(Onward(at), s)
  PROVE  ReadsAll(at, s)
<1> DEFINE j == p + files[i].headers[p].next
           u == files[i].headers[p].used
           header == files[i].headers[p]
           d == files[i].data[p]
           e == Content(i, p)
           rest == Read(Onward(at), s)
<1>1. /\ at[1] = i /\ at[2] = p /\ Onward(at) = <<i, j>>
      /\ Onward(at)[1] = i /\ Onward(at)[2] = j
  BY DEF Onward
<1>2. /\ p \in Nat /\ j \in Nat
      /\ \A a \in 0..front : \A b \in DOMAIN files[a].headers :
           Before(a, b, i, j) <=> Before(a, b, i, p) \/ (a = i /\ b = p)
  BY SectionPassed
<1>3. /\ FilesOK /\ Holds(run) /\ i \in DOMAIN files /\ run \in Nat
  BY ReadableFiles DEF Readable
<1>4. /\ header.entry_type \in Stream /\ e \in Entries /\ u \in 0..Len(d)
      /\ Len(e) = u /\ \A k \in 1..Len(e) : e[k] = d[k]
  BY <1>3, ContentHere
<1>5. /\ Read(at, s) \in Entries
      /\ header.entry_type = s => Read(at, s) = e \o rest
      /\ header.entry_type # s => Read(at, s) = rest
  BY <1>1, <1>3, ReadUnfolds
<1>6. rest \in Entries
  <2>1. Onward(at) \in Position
    BY <1>3, GoesOn
  <2> QED
    BY <1>3, <2>1, ReadUnfolds
<1>7. StreamOK(files, front, streams, logged, run, s)
  BY <1>3 DEF Holds, DataInv
<1>8. \A n \in Nat :
        Written(files, front, s, i, j) = 1..n =>
          \E m \in Nat : Seen(files, front, s) = 1..m /\ ReadsOn(rest, n, m)
  BY <1>1 DEF ReadsAll
<1> HIDE DEF j, rest
<1>9. ASSUME NEW n \in Nat, Written(files, front, s, i, p) = 1..n
      PROVE  \E m \in Nat : Seen(files, front, s) = 1..m /\ ReadsOn(Read(at, s), n, m)
  <2>1. CASE header.entry_type # s
    <3>1. Written(files, front, s, i, j) = Written(files, front, s, i, p)
      BY <1>2, <2>1 DEF Written
    <3> QED
      BY <1>5, <1>8, <1>9, <2>1, <3>1
  <2>2. CASE header.entry_type = s
    <3>1. PICK c \in Nat :
            /\ Written(files, front, s, i, p) = 1..c
            /\ \A k \in 1..Len(d) : d[k] = <<run, c + k>>
      BY <1>7, <2>2 DEF StreamOK, Numbered
    <3>2. c = n
      BY <1>9, <3>1, SameInterval
    <3>3. /\ u \in Nat /\ \A k \in 1..u : k \in 1..Len(d)
      <4>1. d \in Seq(Nat \X Nat)
        BY <1>3 DEF Holds, DataInv, DataOK, IsSection
      <4> HIDE DEF d, u
      <4>2. Len(d) \in Nat
        BY <4>1
      <4> QED
        BY <1>4, <4>2
    <3>4. \A v : Counts(files, i, p, v) <=> \E k \in 1..u : v = n + k
      <4>1. \A k \in 1..u : files[i].data[p][k] = <<run, n + k>>
        BY <3>1, <3>2, <3>3
      <4>2. \A k \in 1..u : files[i].data[p][k][2] = n + k
        BY <4>1
      <4> QED
        BY <4>2 DEF Counts
    <3>5. Written(files, front, s, i, j) = 1..(n + u)
      <4>1. ASSUME NEW v
            PROVE  v \in Written(files, front, s, i, j) <=>
                     v \in Written(files, front, s, i, p)
                     \/ (v \in Nat /\ Counts(files, i, p, v))
        <5>1. ASSUME v \in Written(files, front, s, i, j)
              PROVE  v \in Written(files, front, s, i, p)
                       \/ (v \in Nat /\ Counts(files, i, p, v))
          <6>i. PICK a \in 0..front : \E b \in DOMAIN files[a].headers :
                  /\ files[a].headers[b].entry_type = s /\ Before(a, b, i, j)
                  /\ Counts(files, a, b, v)
            BY <5>1 DEF Written
          <6>1. PICK b \in DOMAIN files[a].headers :
                  /\ files[a].headers[b].entry_type = s /\ Before(a, b, i, j)
                  /\ Counts(files, a, b, v)
            BY <6>i
          <6>2. v \in Nat
            BY <5>1 DEF Written
          <6> QED
            BY <1>2, <6>1, <6>2 DEF Written
        <5>2. ASSUME v \in Nat, Counts(files, i, p, v)
              PROVE  v \in Written(files, front, s, i, j)
          <6>1. Before(i, p, i, j)
            BY <1>2
          <6> QED
            BY <2>2, <5>2, <6>1 DEF Written
        <5>3. ASSUME v \in Written(files, front, s, i, p)
              PROVE  v \in Written(files, front, s, i, j)
          BY <1>2, <5>3 DEF Written
        <5> QED
          BY <5>1, <5>2, <5>3
      <4>2. ASSUME NEW v
            PROVE  v \in 1..(n + u) <=> v \in 1..n \/ (\E k \in 1..u : v = n + k)
        <5> HIDE DEF u
        <5>1. ASSUME v \in 1..(n + u), v \notin 1..n
              PROVE  \E k \in 1..u : v = n + k
          <6>1. v - n \in 1..u /\ v = n + (v - n)
            BY <3>3, <5>1
          <6> QED
            BY <6>1
        <5>2. ASSUME v \in 1..n \/ (\E k \in 1..u : v = n + k)
              PROVE  v \in 1..(n + u)
          BY <3>3, <5>2
        <5> QED
          BY <5>1, <5>2
      <4>3. \A v : v \in Written(files, front, s, i, j) <=> v \in 1..(n + u)
        <5> TAKE v
        <5>1. (\E k \in 1..u : v = n + k) => v \in Nat
          <6> HIDE DEF u
          <6> QED
            BY <3>3
        <5> QED
          BY <1>9, <3>4, <4>1, <4>2, <5>1
      <4> HIDE DEF u
      <4> QED
        BY <4>3
    <3>6. PICK m \in Nat : Seen(files, front, s) = 1..m /\ ReadsOn(rest, n + u, m)
      <4>1. n + u \in Nat
        <5> HIDE DEF u
        <5> QED
          BY <3>3
      <4> QED
        BY <1>8, <3>5, <4>1
    <3>7. \A k \in 1..Len(e) : e[k] = <<run, n + k>>
      BY <1>4, <3>1, <3>2, <3>3
    <3>8. ReadsOn(rest, n + Len(e), m)
      BY <1>4, <3>6
    <3> HIDE DEF e
    <3>9. ReadsOn(e \o rest, n, m)
      BY <1>4, <1>6, <3>7, <3>8, ReadsJoined
    <3> QED
      BY <1>5, <2>2, <3>6, <3>9
  <2> QED
    BY <2>1, <2>2
<1> QED
  BY <1>1, <1>9 DEF ReadsAll

LEMMA EndAhead ==
  ASSUME NEW slab, SlabInv(slab)
  PROVE  Cursor(slab) \in Nat /\ End(slab) \in Nat /\ Cursor(slab) <= End(slab)
<1>1. Cursor(slab) \in Nat
  BY SlabFields
<1> QED
  BY <1>1, Align DEF End

LEMMA ReaderPath ==
  ASSUME Readable, NEW s \in Stream
  PROVE  \A at \in Position :
           Chained(at) /\ Reached(files, front, at[1], at[2]) => ReadsAll(at, s)
<1> DEFINE G == {at \in Position :
                   Chained(at) /\ Reached(files, front, at[1], at[2])
                     => ReadsAll(at, s)}
<1>1. /\ FilesOK /\ front \in Nat /\ 0..front \subseteq DOMAIN files /\ Holds(run)
      /\ \A i \in 0..front : \A p \in DOMAIN files[i].headers : p \in Nat
      /\ run \in Nat /\ front <= MaxSlab + 1
      /\ ChainInv(files, slabs, front, streams)
  BY ReadableFiles DEF Readable
<1>2. ASSUME NEW at \in Position, ~Stops(at) => Onward(at) \in G, Chained(at),
             Reached(files, front, at[1], at[2])
      PROVE  ReadsAll(at, s)
  <2>1. PICK i \in 0..front, p \in Nat : at = <<i, p>> /\ at[1] = i /\ at[2] = p
    <3>1. /\ at = <<at[1], at[2]>> /\ at[1] \in Nat /\ at[2] \in Nat
          /\ at[1] <= front
      BY <1>2, UnifiedLogAssumption DEF Position, Chained
    <3>2. at[1] \in 0..front
      BY <1>1, <3>1
    <3> QED
      BY <3>1, <3>2
  <2>2. /\ i \in DOMAIN files /\ FileOK(files[i]) /\ DataOK(files[i], run)
        /\ p \in Follows(files[i].headers, prolog(i)) /\ files[i].len \in Nat
        /\ Reached(files, front, i, p)
    BY <1>1, <1>2, <2>1 DEF Chained, FilesOK, FileOK, Holds, DataInv
  <2>3. Read(at, s) \in Entries
    BY <1>1, ReadUnfolds
  <2>4. CASE EndOfFile(i, p)
    <3> DEFINE o == Onward(at)
    <3>1. /\ p >= files[i].len /\ \A q \in DOMAIN files[i].headers : q < p
      BY <1>1, <2>2, <2>4 DEF EndOfFile, DataOK
    <3>2. ~Stops(at) /\ prolog(i + 1) = 0 /\ o = <<i + 1, 0>> /\ o \in Position
      <4>1. ~Stops(at) /\ prolog(i + 1) = 0
        BY <2>1, <2>4 DEF Stops, prolog
      <4> QED
        BY <1>1, <2>1, <2>4, <4>1, GoesOn DEF Onward
    <3>3. Read(at, s) = Read(o, s)
      BY <1>1, <2>1, <2>4, <3>2, ReadUnfolds
    <3>4. CASE i < front
      <4>1. i + 1 \in 0..front
        BY <1>1, <3>4
      <4>2. \A a \in 0..front : \A b \in DOMAIN files[a].headers :
              Before(a, b, i + 1, 0) <=> Before(a, b, i, p)
        BY <1>1, <3>1 DEF Before
      <4>3. /\ Written(files, front, s, i + 1, 0) = Written(files, front, s, i, p)
            /\ Reached(files, front, i + 1, 0)
        BY <2>2, <4>2, SameBefore
      <4>4. Chained(o)
        <5>1. prolog(i + 1) \in Follows(files[i + 1].headers, prolog(i + 1))
          BY DEF Follows
        <5> QED
          BY <3>2, <4>1, <5>1 DEF Chained
      <4>5. ReadsAll(o, s)
        BY <1>2, <3>2, <4>3, <4>4
      <4> QED
        BY <2>1, <3>2, <3>3, <4>3, <4>5 DEF ReadsAll
    <3>5. CASE i = front
      <4>1. lock # Free
        BY <2>2, <3>1, <3>5 DEF Readable
      <4>2. \A k \in 1..Len(Read(at, s)) : Read(at, s)[k][1] < run
        <5>1. o[1] > front
          BY <1>1, <3>2, <3>5
        <5> QED
          BY <1>1, <3>2, <3>3, <5>1, ReadsOld
      <4>3. \A a \in 0..front : \A b \in DOMAIN files[a].headers : Before(a, b, i, p)
        BY <1>1, <3>1, <3>5 DEF Before
      <4> QED
        BY <2>1, <2>2, <2>3, <4>1, <4>2, <4>3, ReadsNoMore
    <3> QED
      BY <1>1, <3>4, <3>5
  <2>5. CASE ~EndOfFile(i, p) /\ ~IsHeader(i, p)
    <3>1. Stops(at) /\ Read(at, s) = <<>>
      <4>1. Stops(at)
        BY <2>1, <2>5 DEF Stops
      <4> QED
        BY <1>1, <4>1, ReadUnfolds
    <3>2. p \notin DOMAIN files[i].headers /\ p < files[i].len
      BY <2>2, <2>5 DEF IsHeader, EndOfFile
    <3>3. i = front
      <4> SUFFICES ASSUME i < front PROVE FALSE
        BY <1>1
      <4>1. Finished(files[i], prolog(i))
        BY <1>1 DEF ChainInv
      <4> QED
        BY <2>2, <3>2, <4>1 DEF Finished
    <3>4. front \in DOMAIN slabs /\ SlabInv(slabs[front])
      BY <2>2, <3>2, <3>3 DEF Readable, Sealed
    <3>5. FrontOK(files[front], slabs[front], prolog(front))
      BY <1>1, <3>4 DEF ChainInv
    <3>6. \A q \in DOMAIN files[i].headers : q < p
      <4> TAKE q \in DOMAIN files[i].headers
      <4>1. q <= Cursor(slabs[front]) /\ p = End(slabs[front]) /\ q \in Nat /\ q # p
        BY <1>1, <2>2, <3>2, <3>3, <3>5 DEF FrontOK
      <4> QED
        BY <3>4, <4>1, EndAhead
    <3>7. \A a \in 0..front : \A b \in DOMAIN files[a].headers : Before(a, b, i, p)
      BY <1>1, <3>3, <3>6 DEF Before
    <3>8. 1..Len(Read(at, s)) = {}
      BY <3>1
    <3> QED
      BY <2>1, <2>2, <2>3, <3>7, <3>8, ReadsNoMore
  <2>6. CASE ~EndOfFile(i, p) /\ IsMarker(files, i, p)
    <3>1. Stops(at) /\ Read(at, s) = <<>>
      <4>1. Stops(at)
        BY <2>1, <2>6 DEF Stops, IsMarker
      <4> QED
        BY <1>1, <4>1, ReadUnfolds
    <3>2. ASSUME NEW a \in 0..front, NEW b \in DOMAIN files[a].headers,
                 IsSection(files, a, b), ~Before(a, b, i, p)
          PROVE  ~Reached(files, front, a, b)
      <4>1. ~(a = i /\ b = p)
        BY <2>6, <3>2 DEF IsMarker, IsSection
      <4>2. Before(i, p, a, b)
        <5>1. b \in Nat /\ a \in Nat /\ i \in Nat
          BY <1>1
        <5> QED
          BY <3>2, <4>1, <5>1 DEF Before
      <4>3. p \in DOMAIN files[i].headers
        BY <2>6 DEF IsMarker
      <4> QED
        BY <2>6, <4>2, <4>3 DEF Reached
    <3>3. 1..Len(Read(at, s)) = {}
      BY <3>1
    <3> QED
      BY <2>1, <2>2, <2>3, <3>2, <3>3, ReadsNoMore
  <2>7. CASE ~EndOfFile(i, p) /\ IsSection(files, i, p)
    <3> DEFINE j == p + files[i].headers[p].next
               o == Onward(at)
    <3>1. /\ p \in DOMAIN files[i].headers
          /\ files[i].headers[p].entry_type # LastEntry
      BY <2>7 DEF IsSection
    <3>2. ~Stops(at) /\ o = <<i, j>>
      BY <2>1, <2>2, <2>7, <3>1 DEF Stops, IsHeader, Onward
    <3>3. /\ j \in Nat
          /\ \A a \in 0..front : \A b \in DOMAIN files[a].headers :
               Before(a, b, i, j) <=> Before(a, b, i, p) \/ (a = i /\ b = p)
      BY <2>7, <3>1, SectionPassed
    <3>4. Reached(files, front, i, j)
      BY <2>2, <2>7, <3>3 DEF Reached, IsMarker, IsSection
    <3>5. j \in Follows(files[i].headers, prolog(i))
      BY <3>1 DEF Follows
    <3>6. o \in Position
      BY <1>1, <3>2, GoesOn
    <3> HIDE DEF j
    <3>7. Chained(o) /\ o[1] = i /\ o[2] = j
      BY <1>1, <3>2, <3>5, <3>6 DEF Chained
    <3>8. ReadsAll(o, s)
      BY <1>2, <3>2, <3>4, <3>7
    <3> QED
      BY <2>1, <2>7, <3>1, <3>2, <3>8, SectionReads
  <2>8. \/ EndOfFile(i, p)
        \/ ~EndOfFile(i, p) /\ ~IsHeader(i, p)
        \/ ~EndOfFile(i, p) /\ IsMarker(files, i, p)
        \/ ~EndOfFile(i, p) /\ IsSection(files, i, p)
    BY DEF IsHeader, IsMarker, IsSection
  <2> QED
    BY <2>4, <2>5, <2>6, <2>7, <2>8
<1>3. \A at \in Position : at \in G
  <2>1. \A at \in Position : (~Stops(at) => Onward(at) \in G) => at \in G
    BY <1>2
  <2> HIDE DEF G
  <2> QED
    BY <1>1, <2>1, ScanInduction
<1> QED
  BY <1>3

(* What is read back of a stream.                                            *)
LEMMA Recovered ==
  ASSUME Readable, NEW s \in Stream
  PROVE  recoverable[s] \in Nat /\ Seen(files, front, s) = 1..recoverable[s]
<1> DEFINE at == <<0, prolog(0)>>
           e == Read(at, s)
<1>1. /\ FilesOK /\ front \in Nat /\ 0..front \subseteq DOMAIN files /\ Holds(run)
      /\ \A i \in 0..front : \A p \in DOMAIN files[i].headers : p \in Nat
      /\ run \in Nat
      /\ ChainInv(files, slabs, front, streams)
  BY ReadableFiles DEF Readable
<1>2. at \in Position /\ Chained(at)
  <2>1. at \in Position
    BY UnifiedLogAssumption DEF Position, prolog
  <2> QED
    BY <1>1, <2>1 DEF Chained, Follows
<1>3. \A a \in 0..front : \A b \in DOMAIN files[a].headers : ~Before(a, b, 0, Page)
  <2> SUFFICES ASSUME NEW a \in 0..front, NEW b \in DOMAIN files[a].headers,
                      Before(a, b, 0, Page)
               PROVE  FALSE
    OBVIOUS
  <2>1. a = 0 /\ b < Page /\ b \in Nat /\ Page \in Nat
    BY <1>1, Sizes DEF Before
  <2>2. b >= Page
    BY <1>1, <2>1 DEF Holds, DataInv, BehindMainHeader
  <2> QED
    BY <2>1, <2>2
<1>4. Written(files, front, s, 0, Page) = 1..0 /\ Reached(files, front, 0, Page)
  <2>1. 1..0 = {}
    OBVIOUS
  <2> QED
    BY <1>3, <2>1 DEF Written, Reached
<1>5. PICK m \in Nat : Seen(files, front, s) = 1..m /\ ReadsOn(e, 0, m)
  <2>1. at[1] = 0 /\ at[2] = Page
    BY DEF prolog
  <2>2. ReadsAll(at, s)
    BY <1>2, <1>4, <2>1, ReaderPath
  <2> HIDE DEF e
  <2> QED
    BY <1>4, <2>1, <2>2 DEF ReadsAll, e
<1>6. e \in Entries
  BY <1>1, <1>2, ReadUnfolds
<1>7. recoverable[s] = Intact[e]
  BY DEF recoverable, Reading, Read
<1> HIDE DEF e
<1>8. Len(e) \in Nat /\ DOMAIN e = 1..Len(e) /\ m <= Len(e)
  BY <1>5, <1>6 DEF Entries, ReadsOn
<1>9. ASSUME NEW k \in 1..Len(e)
      PROVE  /\ k <= m => e[k] = <<run, k>>
             /\ k > m => e[k][1] < run /\ e[k][1] \in Nat /\ lock # Free
  <2>1. e[k] \in Nat \X Nat /\ m - 0 = m /\ 0 + k = k
    BY <1>6, <1>8 DEF Entries
  <2> QED
    BY <1>5, <2>1 DEF ReadsOn
<1>10. \A k \in DOMAIN e : e[k] = <<run, k>> \/ (e[k][1] < run /\ lock # Free)
  BY <1>8, <1>9
<1>11. {k \in DOMAIN e : e[k][1] = run} = 1..m
  <2>1. ASSUME NEW k \in DOMAIN e
        PROVE  e[k][1] = run <=> k \in 1..m
    <3>1. CASE k <= m
      <4>1. e[k] = <<run, k>>
        BY <1>8, <1>9, <3>1
      <4>2. e[k][1] = run
        BY <4>1
      <4> QED
        BY <1>8, <3>1, <4>2
    <3>2. CASE k > m
      BY <1>1, <1>8, <1>9, <3>2
    <3> QED
      BY <1>8, <3>1, <3>2
  <2> QED
    BY <1>8, <2>1
<1>12. Cardinality(1..m) = m
  <2>1. Cardinality(1..m) = IF 1 > m THEN 0 ELSE m - 1 + 1
    BY FS_Interval
  <2> QED
    BY <2>1
<1>13. Intact[e] = m
  <2>1. Intact[e] = IF \A k \in DOMAIN e : e[k] = <<run, k>>
                                          \/ (e[k][1] < run /\ lock # Free)
                     THEN Cardinality({k \in DOMAIN e : e[k][1] = run}) ELSE -1
    BY <1>6 DEF Intact, Entries
  <2> QED
    BY <1>10, <1>11, <1>12, <2>1
<1> QED
  BY <1>5, <1>7, <1>13

----------------------------------------------------------------------------
(* What each part of an action does to the sections. *)

MappedData(f, m, n, t, l, r) ==
  /\ n \in Nat /\ DOMAIN m \subseteq 0..n /\ \A i \in DOMAIN m : SlabInv(m[i])
  /\ ChainInv(f, m, n, t) /\ DataInv(f, m, n, t, l, r)
LogData(f, m, n, t, l, r) ==
  LogInv(f, m, n, t) /\ ChainInv(f, m, n, t) /\ DataInv(f, m, n, t, l, r)

LEMMA LogMapped ==
  ASSUME NEW f, NEW m, NEW n, NEW t, NEW l, NEW r, LogData(f, m, n, t, l, r)
  PROVE  MappedData(f, m, n, t, l, r)
BY DEF LogData, LogInv, MappedData

LEMMA DataFacts ==
  ASSUME NEW f, NEW m, NEW n, NEW t, NEW l, NEW r, MappedData(f, m, n, t, l, r)
  PROVE  /\ n \in Nat /\ 0..n \subseteq DOMAIN f /\ DOMAIN m \subseteq 0..n
         /\ r \in Nat \ {0} /\ l \in [Stream -> Nat]
         /\ \A i \in DOMAIN f :
              /\ FileOK(f[i]) /\ f[i].len \in Nat
              /\ \A p \in DOMAIN f[i].headers : p \in Nat /\ p < f[i].len
         /\ \A i \in DOMAIN m :
              /\ SlabInv(m[i]) /\ f[i].len = SlabSize /\ m[i].pos \in Nat
              /\ m[i].pos <= SlabSize
              /\ Cursor(m[i]) \in Nat /\ Cursor(m[i]) <= m[i].pos
              /\ End(m[i]) \in Nat /\ Cursor(m[i]) <= End(m[i])
         /\ \A i \in 0..n : \A p \in DOMAIN f[i].headers :
              IsSection(f, i, p) => f[i].headers[p].entry_type \in Stream
<1>1. /\ n \in Nat /\ 0..n \subseteq DOMAIN f /\ DOMAIN m \subseteq 0..n
      /\ r \in Nat \ {0} /\ l \in [Stream -> Nat]
      /\ \A i \in DOMAIN m : SlabInv(m[i]) /\ f[i].len = SlabSize
      /\ \A i \in DOMAIN f : FileOK(f[i]) /\ DataOK(f[i], r)
  BY DEF MappedData, ChainInv, DataInv
<1>2. \A i \in DOMAIN m :
        /\ m[i].pos \in Nat /\ m[i].pos <= SlabSize
        /\ Cursor(m[i]) \in Nat /\ Cursor(m[i]) <= m[i].pos
        /\ End(m[i]) \in Nat /\ Cursor(m[i]) <= End(m[i])
  <2> TAKE i \in DOMAIN m
  <2> DEFINE x == m[i]
  <2>1. SlabInv(x)
    BY <1>1
  <2> HIDE DEF x
  <2>2. x.pos \in Nat /\ x.pos <= SlabSize /\ Cursor(x) \in Nat
    BY <2>1, SlabFields
  <2>3. Cursor(x) <= x.pos
    BY <2>2 DEF Cursor, Unit
  <2> QED
    BY <2>1, <2>2, <2>3, EndAhead DEF x
<1>3. \A i \in DOMAIN f :
        /\ FileOK(f[i]) /\ f[i].len \in Nat
        /\ \A p \in DOMAIN f[i].headers : p \in Nat /\ p < f[i].len
  BY <1>1 DEF FileOK, DataOK
<1>4. \A i \in 0..n : \A p \in DOMAIN f[i].headers :
        IsSection(f, i, p) => f[i].headers[p].entry_type \in Stream
  BY <1>1 DEF DataOK, IsSection
<1> QED
  BY <1>1, <1>2, <1>3, <1>4

LEMMA TrimFields ==
  ASSUME NEW file, NEW len
  PROVE  LET g == Trim(file, len) IN
         /\ g.len = len /\ g.data = file.data
         /\ DOMAIN g.headers = {p \in DOMAIN file.headers : p < len}
         /\ \A p \in DOMAIN g.headers : g.headers[p] = file.headers[p]
BY DEF Trim

(* The files of the slabs C are cut to what is used, and the slabs gone.     *)
LEMMA DataCut ==
  ASSUME NEW f, NEW m, NEW n, NEW t, NEW l, NEW r, MappedData(f, m, n, t, l, r),
         NEW C, C \subseteq DOMAIN m,
         NEW g, DOMAIN g = DOMAIN f, \A i \in C : g[i] = Trim(f[i], m[i].pos),
         \A i \in DOMAIN f \ C : g[i] = f[i],
         NEW k, DOMAIN k = DOMAIN m \ C,
         \A i \in DOMAIN k : Cursor(k[i]) = Cursor(m[i]),
         \A i \in DOMAIN k \ {n} : k[i] = m[i]
  PROVE  DataInv(g, k, n, t, l, r) /\ Extends(g, n, f, n)
<1>1. /\ n \in Nat /\ 0..n \subseteq DOMAIN f /\ DOMAIN m \subseteq 0..n
      /\ r \in Nat \ {0} /\ l \in [Stream -> Nat]
      /\ \A i \in DOMAIN f :
           /\ FileOK(f[i]) /\ f[i].len \in Nat
           /\ \A p \in DOMAIN f[i].headers : p \in Nat /\ p < f[i].len
      /\ \A i \in DOMAIN m :
           /\ SlabInv(m[i]) /\ m[i].pos \in Nat
           /\ Cursor(m[i]) \in Nat /\ Cursor(m[i]) <= m[i].pos
      /\ \A i \in 0..n : \A p \in DOMAIN f[i].headers :
           IsSection(f, i, p) => f[i].headers[p].entry_type \in Stream
  BY DataFacts
<1>2. /\ MarkersOK(f, m, n) /\ BehindMainHeader(f, m)
      /\ \A i \in DOMAIN f : DataOK(f[i], r) /\ (i > n => DataOK(f[i], r - 1))
      /\ \A s \in Stream : StreamOK(f, n, t, l, r, s)
  BY DEF MappedData, DataInv
<1>3. ASSUME NEW i \in C
      PROVE  /\ g[i].len = m[i].pos /\ g[i].data = f[i].data
             /\ DOMAIN g[i].headers = {p \in DOMAIN f[i].headers : p < m[i].pos}
             /\ \A p \in DOMAIN g[i].headers : g[i].headers[p] = f[i].headers[p]
             /\ i \in DOMAIN f /\ i \in 0..n
  <2>1. g[i] = Trim(f[i], m[i].pos) /\ i \in DOMAIN f /\ i \in 0..n
    BY <1>1, <1>3
  <2> QED
    BY <2>1, TrimFields
<1>4. ASSUME NEW i \in DOMAIN f, NEW p \in DOMAIN g[i].headers
      PROVE  /\ p \in DOMAIN f[i].headers /\ g[i].headers[p] = f[i].headers[p]
             /\ g[i].data = f[i].data /\ p < g[i].len
  <2>1. CASE i \in C
    BY <1>3, <2>1
  <2>2. CASE i \notin C
    BY <1>1, <2>2
  <2> QED
    BY <2>1, <2>2
<1>5. ASSUME NEW i \in 0..n, NEW p \in DOMAIN f[i].headers, IsSection(f, i, p)
      PROVE  p \in DOMAIN g[i].headers
  <2>1. CASE i \in C
    <3>1. p < Cursor(m[i]) /\ p \in Nat
      BY <1>1, <1>2, <1>5, <2>1 DEF MarkersOK
    <3> QED
      BY <1>1, <1>3, <2>1, <3>1
  <2>2. CASE i \notin C
    BY <1>1, <2>2
  <2> QED
    BY <2>1, <2>2
<1>6. ASSUME NEW s \in Stream
      PROVE  SameSections(g, n, f, n, s)
  <2>1. s # LastEntry
    BY MarkerIsNoStream
  <2> QED
    BY <1>1, <1>4, <1>5, <2>1 DEF SameSections, IsSection
<1>7. MarkersBehind(g, n, f, n)
  BY <1>1, <1>4 DEF MarkersBehind, IsMarker
<1>8. Extends(g, n, f, n)
  BY <1>1, <1>6, <1>7, SameAlike, AlikeExtends
<1>9. \A s \in Stream : StreamOK(g, n, t, l, r, s)
  <2> TAKE s \in Stream
  <2>1. n <= n /\ StreamOK(f, n, t, l, r, s) /\ SameSections(g, n, f, n, s)
    BY <1>1, <1>2, <1>6
  <2> QED
    BY <1>1, <2>1, StreamKept
<1>10. ASSUME NEW i \in DOMAIN f, NEW x, DataOK(f[i], x)
       PROVE  DataOK(g[i], x)
  BY <1>4, <1>10 DEF DataOK
<1>11. MarkersOK(g, k, n)
  <2>1. ASSUME NEW i \in 0..n, NEW p \in DOMAIN g[i].headers, IsMarker(g, i, p)
        PROVE  /\ \A q \in DOMAIN g[i].headers : IsSection(g, i, q) => q < p
               /\ i \in DOMAIN k \/ i = n
               /\ i \in DOMAIN k => p >= Cursor(k[i])
               /\ i \in DOMAIN k /\ i = n => p = End(k[i])
    <3>1. i \in DOMAIN f /\ p \in DOMAIN f[i].headers /\ IsMarker(f, i, p)
      BY <1>1, <1>4, <2>1 DEF IsMarker
    <3>2. /\ \A q \in DOMAIN f[i].headers : IsSection(f, i, q) => q < p
          /\ i \in DOMAIN m \/ i = n
          /\ i \in DOMAIN m => p >= Cursor(m[i])
          /\ i \in DOMAIN m /\ i = n => p = End(m[i])
      BY <1>2, <3>1 DEF MarkersOK
    <3>3. \A q \in DOMAIN g[i].headers : IsSection(g, i, q) => q < p
      BY <1>4, <3>1, <3>2 DEF IsSection
    <3>4. i \in C => i = n
      <4> SUFFICES ASSUME i \in C, i # n PROVE FALSE
        OBVIOUS
      <4>1. m[i].marker = {} /\ p >= Cursor(m[i]) /\ p < m[i].pos
        BY <1>2, <1>3, <2>1, <3>2 DEF MarkersOK
      <4>2. Cursor(m[i]) = m[i].pos /\ m[i].pos \in Nat /\ p \in Nat
        BY <1>1, <3>1, <4>1 DEF Cursor
      <4> QED
        BY <4>1, <4>2
    <3> QED
      BY <3>2, <3>3, <3>4 DEF End
  <2>2. ASSUME NEW i \in 0..n, NEW p \in DOMAIN g[i].headers, IsSection(g, i, p),
               i \in DOMAIN k
        PROVE  p < Cursor(k[i])
    <3>1. i \in DOMAIN f /\ p \in DOMAIN f[i].headers /\ IsSection(f, i, p)
      BY <1>1, <1>4, <2>2 DEF IsSection
    <3> QED
      BY <1>2, <2>2, <3>1 DEF MarkersOK
  <2>3. \A i \in DOMAIN k \ {n} : k[i].marker = {}
    BY <1>2 DEF MarkersOK
  <2> QED
    BY <2>1, <2>2, <2>3 DEF MarkersOK
<1>12. BehindMainHeader(g, k)
  <2>1. 0 \in DOMAIN f
    BY <1>1
  <2> QED
    BY <1>2, <1>4, <2>1 DEF BehindMainHeader
<1> QED
  BY <1>1, <1>2, <1>8, <1>9, <1>10, <1>11, <1>12 DEF DataInv

(* A new file without sections, and with a marker at most at its begin.      *)
LEMMA DataCreated ==
  ASSUME NEW f, NEW m, NEW n, NEW t, NEW l, NEW r, LogData(f, m, n, t, l, r),
         n \in DOMAIN m,
         NEW g, DOMAIN g = DOMAIN f \cup {n + 1},
         \A i \in DOMAIN f \ {n + 1} : g[i] = f[i],
         NEW k, DOMAIN k = DOMAIN m \cup {n + 1}, \A i \in DOMAIN m \ {n} : k[i] = m[i],
         k[n].marker = {}, Cursor(k[n]) \in Nat, Cursor(m[n]) <= Cursor(k[n]),
         Cursor(k[n]) <= End(m[n]),
         \A p \in DOMAIN g[n + 1].headers :
           /\ IsMarker(g, n + 1, p) /\ p < g[n + 1].len
           /\ p = End(k[n + 1]) /\ p >= Cursor(k[n + 1])
  PROVE  DataInv(g, k, n + 1, t, l, r) /\ Extends(g, n + 1, f, n)
<1> DEFINE o == n + 1
<1>1. /\ n \in Nat /\ 0..n \subseteq DOMAIN f /\ DOMAIN m \subseteq 0..n
      /\ r \in Nat \ {0} /\ l \in [Stream -> Nat]
      /\ \A i \in DOMAIN f :
           /\ FileOK(f[i]) /\ f[i].len \in Nat
           /\ \A p \in DOMAIN f[i].headers : p \in Nat /\ p < f[i].len
      /\ \A i \in DOMAIN m : Cursor(m[i]) \in Nat /\ End(m[i]) \in Nat
      /\ \A i \in 0..n : \A p \in DOMAIN f[i].headers :
           IsSection(f, i, p) => f[i].headers[p].entry_type \in Stream
  BY LogMapped, DataFacts
<1>2. /\ MarkersOK(f, m, n) /\ BehindMainHeader(f, m)
      /\ \A i \in DOMAIN f : DataOK(f[i], r) /\ (i > n => DataOK(f[i], r - 1))
      /\ \A s \in Stream : StreamOK(f, n, t, l, r, s)
  BY DEF LogData, DataInv
<1>3. /\ o \in Nat /\ o \notin DOMAIN m /\ n <= o /\ o # n
      /\ \A i \in 0..n : i \in 0..o /\ i # o /\ i \in DOMAIN f /\ g[i] = f[i]
      /\ \A i \in 0..o : i = o \/ i \in 0..n
  BY <1>1
<1>4. \A p \in DOMAIN g[o].headers : IsMarker(g, o, p) /\ ~IsSection(g, o, p)
  BY DEF IsMarker, IsSection
<1>5. ASSUME NEW s \in Stream
      PROVE  SameSections(g, o, f, n, s)
  <2>1. s # LastEntry
    BY MarkerIsNoStream
  <2>2. \A p \in DOMAIN g[o].headers : g[o].headers[p].entry_type # s
    BY <1>4, <2>1 DEF IsMarker
  <2> HIDE DEF o
  <2> QED
    BY <1>3, <2>2 DEF SameSections
<1>6. MarkersBehind(g, o, f, n)
  <2>1. ASSUME NEW j \in 0..o, NEW q \in DOMAIN g[j].headers, IsMarker(g, j, q),
               ~(j \in 0..n /\ IsMarker(f, j, q)),
               NEW i \in 0..n, NEW p \in DOMAIN f[i].headers
        PROVE  ~Before(j, q, i, p)
    <3>1. j = o
      BY <1>3, <2>1 DEF IsMarker
    <3> QED
      BY <1>1, <3>1 DEF Before
  <2> QED
    BY <2>1 DEF MarkersBehind
<1>7. Extends(g, o, f, n)
  BY <1>1, <1>5, <1>6, SameAlike, AlikeExtends
<1>8. \A s \in Stream : StreamOK(g, o, t, l, r, s)
  <2> TAKE s \in Stream
  <2>1. n <= o /\ StreamOK(f, n, t, l, r, s) /\ SameSections(g, o, f, n, s)
    BY <1>2, <1>3, <1>5
  <2> HIDE DEF o
  <2> QED
    BY <1>1, <1>3, <2>1, StreamKept
<1>9. \A i \in DOMAIN g : DataOK(g[i], r) /\ (i > o => DataOK(g[i], r - 1))
  <2>1. \A x : DataOK(g[o], x)
    BY <1>4 DEF DataOK, IsMarker
  <2>2. ASSUME NEW i \in DOMAIN f \ {o}
        PROVE  DataOK(g[i], r) /\ (i > o => DataOK(g[i], r - 1))
    <3>1. g[i] = f[i] /\ DataOK(f[i], r) /\ (i > n => DataOK(f[i], r - 1))
      BY <1>2, <2>2
    <3>2. i \in Nat
      <4>1. DOMAIN f \subseteq 0..(MaxSlab + 1)
        BY DEF LogData, ChainInv
      <4> QED
        BY <2>2, <4>1
    <3> QED
      BY <1>1, <3>1, <3>2
  <2> QED
    BY <2>1, <2>2
<1>10. MarkersOK(g, k, o)
  <2>1. ASSUME NEW i \in 0..o, NEW p \in DOMAIN g[i].headers, IsMarker(g, i, p)
        PROVE  /\ \A q \in DOMAIN g[i].headers : IsSection(g, i, q) => q < p
               /\ i \in DOMAIN k \/ i = o
               /\ i \in DOMAIN k => p >= Cursor(k[i])
               /\ i \in DOMAIN k /\ i = o => p = End(k[i])
    <3>1. CASE i = o
      BY <1>4, <2>1, <3>1
    <3>2. CASE i # o
      <4>1. i \in 0..n /\ g[i] = f[i] /\ IsMarker(f, i, p)
        BY <1>3, <2>1, <3>2 DEF IsMarker
      <4>2. /\ \A q \in DOMAIN f[i].headers : IsSection(f, i, q) => q < p
            /\ i \in DOMAIN m
            /\ p >= Cursor(m[i]) /\ (i = n => p = End(m[i])) /\ p \in Nat
        BY <1>1, <1>2, <2>1, <4>1 DEF MarkersOK
      <4>3. p >= Cursor(k[i])
        <5>1. CASE i = n
          BY <1>1, <4>2, <5>1
        <5>2. CASE i # n
          BY <4>2, <5>2
        <5> QED
          BY <5>1, <5>2
      <4>4. \A q \in DOMAIN g[i].headers : IsSection(g, i, q) => q < p
        BY <4>1, <4>2 DEF IsSection
      <4> QED
        BY <3>2, <4>2, <4>3, <4>4
    <3> QED
      BY <3>1, <3>2
  <2>2. ASSUME NEW i \in 0..o, NEW p \in DOMAIN g[i].headers, IsSection(g, i, p),
               i \in DOMAIN k
        PROVE  p < Cursor(k[i])
    <3>1. i \in 0..n /\ g[i] = f[i] /\ IsSection(f, i, p) /\ i \in DOMAIN m
      BY <1>3, <1>4, <2>2 DEF IsSection
    <3>2. p < Cursor(m[i]) /\ p \in Nat
      BY <1>1, <1>2, <2>2, <3>1 DEF MarkersOK
    <3>3. CASE i = n
      BY <1>1, <3>2, <3>3
    <3>4. CASE i # n
      BY <3>1, <3>2, <3>4
    <3> QED
      BY <3>3, <3>4
  <2>3. \A i \in DOMAIN k \ {o} : k[i].marker = {}
    <3> TAKE i \in DOMAIN k \ {o}
    <3>1. CASE i = n
      BY <3>1
    <3>2. CASE i # n
      BY <1>2, <3>2 DEF MarkersOK
    <3> QED
      BY <3>1, <3>2
  <2> QED
    BY <2>1, <2>2, <2>3 DEF MarkersOK
<1>11. BehindMainHeader(g, k)
  <2>1. 0 \in 0..n /\ 0 # o /\ Page \in Nat
    BY <1>1, Sizes
  <2>2. \A p \in DOMAIN g[0].headers : p >= Page
    BY <1>2, <1>3, <2>1 DEF BehindMainHeader
  <2>3. ASSUME 0 \in DOMAIN k PROVE Cursor(k[0]) >= Page
    <3>1. 0 \in DOMAIN m /\ Cursor(m[0]) >= Page
      BY <1>2, <2>1, <2>3 DEF BehindMainHeader
    <3>2. CASE n = 0
      BY <1>1, <2>1, <3>1, <3>2
    <3>3. CASE n # 0
      BY <3>1, <3>3
    <3> QED
      BY <3>2, <3>3
  <2> QED
    BY <2>2, <2>3 DEF BehindMainHeader
<1> QED
  BY <1>1, <1>7, <1>8, <1>9, <1>10, <1>11 DEF DataInv

\* Up to where the next header goes there are whole sections.
LEMMA BeforeEnd ==
  ASSUME NEW f, NEW m, NEW n, NEW t, NEW l, NEW r, LogData(f, m, n, t, l, r),
         n \in DOMAIN m, NEW p \in DOMAIN f[n].headers
  PROVE  /\ p \in Nat /\ p <= End(m[n]) /\ p <= Cursor(m[n])
         /\ IsSection(f, n, p) =>
              p < End(m[n]) /\ p + f[n].headers[p].next <= End(m[n])
         /\ IsMarker(f, n, p) => p = End(m[n])
<1> DEFINE x == m[n]
           q == p + f[n].headers[p].next
<1>1. /\ n \in Nat /\ 0..n \subseteq DOMAIN f /\ n \in DOMAIN f
      /\ \A j \in DOMAIN f[n].headers : j \in Nat
      /\ Cursor(x) \in Nat /\ End(x) \in Nat /\ Cursor(x) <= End(x)
      /\ FileOK(f[n])
  BY LogMapped, DataFacts
<1>2. FrontOK(f[n], x, prolog(n)) /\ MarkersOK(f, m, n)
  BY DEF LogData, ChainInv, DataInv
<1>3. \A j \in DOMAIN f[n].headers : j <= Cursor(x) /\ j <= End(x)
  BY <1>1, <1>2 DEF FrontOK
<1>4. IsMarker(f, n, p) => p = End(m[n])
  BY <1>1, <1>2 DEF MarkersOK
<1>5. ASSUME IsSection(f, n, p)
      PROVE  p < End(m[n]) /\ q <= End(m[n])
  <2>1. p < Cursor(x)
    BY <1>1, <1>2, <1>5 DEF MarkersOK
  <2>2. q \in Follows(f[n].headers, prolog(n))
    BY <1>5 DEF Follows, IsSection
  <2>3. q \in DOMAIN f[n].headers \/ q = End(x)
    BY <1>2, <2>2 DEF FrontOK
  <2> HIDE DEF q
  <2>4. q <= End(x)
    BY <1>1, <1>3, <2>3
  <2> QED
    BY <1>1, <2>1, <2>4
<1> QED
  BY <1>1, <1>3, <1>4, <1>5

(* The marker is put behind the sections of the front slab.                  *)
LEMMA DataMarked ==
  ASSUME NEW f, NEW m, NEW n, NEW t, NEW l, NEW r, LogData(f, m, n, t, l, r),
         n \in DOMAIN m, NEW at, at = End(m[n]), at < f[n].len,
         NEW g, DOMAIN g = DOMAIN f, \A i \in DOMAIN f \ {n} : g[i] = f[i],
         NEW header, header.entry_type = LastEntry,
         HeaderPut(g[n], f[n], at, header), g[n].data = f[n].data,
         NEW k, DOMAIN k = DOMAIN m, \A i \in DOMAIN m \ {n} : k[i] = m[i],
         Cursor(k[n]) = at, End(k[n]) = at
  PROVE  DataInv(g, k, n, t, l, r) /\ Extends(g, n, f, n)
<1>1. /\ n \in Nat /\ 0..n \subseteq DOMAIN f /\ DOMAIN m \subseteq 0..n
      /\ r \in Nat \ {0} /\ l \in [Stream -> Nat] /\ n \in DOMAIN f /\ n \in 0..n
      /\ \A i \in DOMAIN f :
           /\ FileOK(f[i]) /\ f[i].len \in Nat
           /\ \A p \in DOMAIN f[i].headers : p \in Nat /\ p < f[i].len
      /\ \A i \in DOMAIN m :
           Cursor(m[i]) \in Nat /\ End(m[i]) \in Nat /\ Cursor(m[i]) <= End(m[i])
      /\ \A i \in 0..n : \A p \in DOMAIN f[i].headers :
           IsSection(f, i, p) => f[i].headers[p].entry_type \in Stream
  BY LogMapped, DataFacts
<1>2. /\ MarkersOK(f, m, n) /\ BehindMainHeader(f, m)
      /\ \A i \in DOMAIN f : DataOK(f[i], r) /\ (i > n => DataOK(f[i], r - 1))
      /\ \A s \in Stream : StreamOK(f, n, t, l, r, s)
  BY DEF LogData, DataInv
<1>3. \A p \in DOMAIN f[n].headers :
        /\ p \in Nat /\ p <= at
        /\ IsSection(f, n, p) => p < at /\ p + f[n].headers[p].next <= at
        /\ IsMarker(f, n, p) => p = at
  BY BeforeEnd
<1>4. /\ DOMAIN g[n].headers = DOMAIN f[n].headers \cup {at}
      /\ g[n].headers[at] = header /\ g[n].len = f[n].len /\ g[n].data = f[n].data
      /\ \A p \in DOMAIN f[n].headers \ {at} : g[n].headers[p] = f[n].headers[p]
      /\ at \in Nat /\ at >= Cursor(m[n])
  BY <1>1 DEF HeaderPut
<1>5. IsMarker(g, n, at) /\ \A p : IsMarker(g, n, p) => p = at
  BY <1>3, <1>4 DEF IsMarker
<1>6. ASSUME NEW p
      PROVE  /\ IsSection(g, n, p) <=> IsSection(f, n, p)
             /\ IsSection(g, n, p) =>
                  /\ p \in DOMAIN f[n].headers /\ p \in DOMAIN g[n].headers
                  /\ g[n].headers[p] = f[n].headers[p]
                  /\ p < at /\ p + g[n].headers[p].next <= at
  BY <1>3, <1>4 DEF IsSection
<1>7. ASSUME NEW s \in Stream
      PROVE  SameSections(g, n, f, n, s)
  <2>1. s # LastEntry
    BY MarkerIsNoStream
  <2>2. ASSUME NEW i \in 0..n, NEW p \in DOMAIN f[i].headers,
               f[i].headers[p].entry_type = s
        PROVE  /\ p \in DOMAIN g[i].headers
               /\ g[i].headers[p] = f[i].headers[p] /\ g[i].data[p] = f[i].data[p]
    <3>1. CASE i = n
      <4>1. IsSection(f, n, p)
        BY <2>1, <2>2, <3>1 DEF IsSection
      <4> QED
        BY <1>4, <1>6, <3>1, <4>1
    <3>2. CASE i # n
      BY <1>1, <2>2, <3>2
    <3> QED
      BY <3>1, <3>2
  <2>3. ASSUME NEW i \in 0..n, NEW p \in DOMAIN g[i].headers,
               g[i].headers[p].entry_type = s
        PROVE  p \in DOMAIN f[i].headers /\ f[i].headers[p].entry_type = s
    <3>1. CASE i = n
      <4>1. IsSection(g, n, p)
        BY <2>1, <2>3, <3>1 DEF IsSection
      <4> QED
        BY <1>6, <2>3, <3>1, <4>1
    <3>2. CASE i # n
      BY <1>1, <2>3, <3>2
    <3> QED
      BY <3>1, <3>2
  <2> QED
    BY <2>2, <2>3 DEF SameSections
<1>8. MarkersBehind(g, n, f, n)
  <2>1. ASSUME NEW j \in 0..n, NEW q \in DOMAIN g[j].headers, IsMarker(g, j, q),
               ~IsMarker(f, j, q),
               NEW i \in 0..n, NEW p \in DOMAIN f[i].headers, IsSection(f, i, p)
        PROVE  ~Before(j, q, i, p)
    <3>1. j = n /\ q = at
      <4>1. j # n => FALSE
        BY <1>1, <2>1 DEF IsMarker
      <4> QED
        BY <1>5, <2>1, <4>1
    <3>2. i = n => p < at /\ p \in Nat
      BY <1>3, <2>1
    <3> QED
      BY <1>1, <1>4, <3>1, <3>2 DEF Before
  <2> QED
    BY <2>1 DEF MarkersBehind
<1>9. Extends(g, n, f, n)
  BY <1>1, <1>7, <1>8, SameAlike, AlikeExtends
<1>10. \A s \in Stream : StreamOK(g, n, t, l, r, s)
  <2> TAKE s \in Stream
  <2>1. n <= n /\ StreamOK(f, n, t, l, r, s) /\ SameSections(g, n, f, n, s)
    BY <1>1, <1>2, <1>7
  <2> QED
    BY <1>1, <2>1, StreamKept
<1>11. ASSUME NEW x, DataOK(f[n], x)
       PROVE  DataOK(g[n], x)
  <2> SUFFICES ASSUME NEW p \in DOMAIN g[n].headers
               PROVE  /\ p < g[n].len
                      /\ IsSection(g, n, p) =>
                           /\ g[n].headers[p].entry_type \in Stream
                           /\ p \in DOMAIN g[n].data
                           /\ g[n].data[p] \in Seq(Nat \X Nat)
                           /\ \A j \in 1..Len(g[n].data[p]) : g[n].data[p][j][1] <= x
                           /\ g[n].headers[p].used \in 0..Len(g[n].data[p])
                           /\ \A q \in DOMAIN g[n].headers :
                                p < q => p + g[n].headers[p].next <= q
    BY DEF DataOK, IsSection
  <2>1. p < g[n].len
    BY <1>1, <1>4
  <2>2. ASSUME IsSection(g, n, p)
        PROVE  /\ g[n].headers[p].entry_type \in Stream
               /\ p \in DOMAIN g[n].data
               /\ g[n].data[p] \in Seq(Nat \X Nat)
               /\ \A j \in 1..Len(g[n].data[p]) : g[n].data[p][j][1] <= x
               /\ g[n].headers[p].used \in 0..Len(g[n].data[p])
    BY <1>4, <1>6, <1>11, <2>2 DEF DataOK, IsSection
  <2>3. ASSUME IsSection(g, n, p), NEW q \in DOMAIN g[n].headers, p < q
        PROVE  p + g[n].headers[p].next <= q
    <3>1. CASE q = at
      BY <1>6, <2>3, <3>1
    <3>2. CASE q # at
      BY <1>4, <1>6, <1>11, <2>3, <3>2 DEF DataOK, IsSection
    <3> QED
      BY <3>1, <3>2
  <2> QED
    BY <2>1, <2>2, <2>3
<1>12. \A i \in DOMAIN g : DataOK(g[i], r) /\ (i > n => DataOK(g[i], r - 1))
  <2> TAKE i \in DOMAIN g
  <2>1. CASE i = n
    BY <1>1, <1>2, <1>11, <2>1
  <2>2. CASE i # n
    BY <1>2, <2>2
  <2> QED
    BY <2>1, <2>2
<1>13. MarkersOK(g, k, n)
  <2>1. ASSUME NEW i \in 0..n, NEW p \in DOMAIN g[i].headers, IsMarker(g, i, p)
        PROVE  /\ \A q \in DOMAIN g[i].headers : IsSection(g, i, q) => q < p
               /\ i \in DOMAIN k \/ i = n
               /\ i \in DOMAIN k => p >= Cursor(k[i])
               /\ i \in DOMAIN k /\ i = n => p = End(k[i])
    <3>1. CASE i = n
      BY <1>4, <1>5, <1>6, <2>1, <3>1
    <3>2. CASE i # n
      <4>1. g[i] = f[i] /\ IsMarker(f, i, p) /\ p \in DOMAIN f[i].headers
        BY <1>1, <2>1, <3>2 DEF IsMarker
      <4>2. \A q \in DOMAIN f[i].headers : IsSection(f, i, q) => q < p
        BY <1>2, <4>1 DEF MarkersOK
      <4>3. \A q \in DOMAIN g[i].headers : IsSection(g, i, q) => q < p
        BY <4>1, <4>2 DEF IsSection
      <4> QED
        BY <1>2, <3>2, <4>1, <4>3 DEF MarkersOK
    <3> QED
      BY <3>1, <3>2
  <2>2. ASSUME NEW i \in 0..n, NEW p \in DOMAIN g[i].headers, IsSection(g, i, p),
               i \in DOMAIN k
        PROVE  p < Cursor(k[i])
    <3>1. CASE i = n
      BY <1>6, <2>2, <3>1
    <3>2. CASE i # n
      <4>1. g[i] = f[i] /\ IsSection(f, i, p) /\ k[i] = m[i]
        BY <1>1, <2>2, <3>2 DEF IsSection
      <4> QED
        BY <1>2, <2>2, <4>1 DEF MarkersOK
    <3> QED
      BY <3>1, <3>2
  <2>3. \A i \in DOMAIN k \ {n} : k[i].marker = {}
    BY <1>2 DEF MarkersOK
  <2> QED
    BY <2>1, <2>2, <2>3 DEF MarkersOK
<1>14. BehindMainHeader(g, k)
  <2>1. n = 0 => Cursor(m[n]) >= Page /\ Page \in Nat
    BY <1>2, Sizes DEF BehindMainHeader
  <2>2. 0 \in DOMAIN f
    BY <1>1
  <2>3. CASE n = 0
    BY <1>1, <1>2, <1>4, <2>1, <2>3 DEF BehindMainHeader
  <2>4. CASE n # 0
    BY <1>2, <2>2, <2>4 DEF BehindMainHeader
  <2> QED
    BY <2>3, <2>4
<1> QED
  BY <1>1, <1>9, <1>10, <1>12, <1>13, <1>14 DEF DataInv

(* A section without entries is opened behind the front slab's sections,     *)
(* where a marker may have been.                                             *)
LEMMA DataOpened ==
  ASSUME NEW f, NEW m, NEW n, NEW t, NEW l, NEW x, LogData(f, m, n, t, l, x),
         n \in DOMAIN m, NEW s \in Stream, t[s].status # "open",
         NEW at, at = End(m[n]), at < f[n].len,
         NEW g, DOMAIN g = DOMAIN f, \A i \in DOMAIN f \ {n} : g[i] = f[i],
         NEW header, header.entry_type = s, header.used = 0, header.next \in Nat,
         HeaderPut(g[n], f[n], at, header),
         at \in DOMAIN g[n].data, g[n].data[at] = <<>>,
         \A p \in DOMAIN f[n].data \ {at} :
           p \in DOMAIN g[n].data /\ g[n].data[p] = f[n].data[p],
         NEW r, r[s].status = "open", r[s].slab = n, r[s].start = at, r[s].used = 0,
         \A u \in Stream \ {s} : r[u] = t[u],
         NEW k, DOMAIN k = DOMAIN m, \A i \in DOMAIN m \ {n} : k[i] = m[i],
         Cursor(k[n]) \in Nat, at < Cursor(k[n])
  PROVE  DataInv(g, k, n, r, l, x) /\ Extends(g, n, f, n)
<1>1. /\ n \in Nat /\ 0..n \subseteq DOMAIN f /\ DOMAIN m \subseteq 0..n
      /\ x \in Nat \ {0} /\ l \in [Stream -> Nat] /\ n \in DOMAIN f /\ n \in 0..n
      /\ \A i \in DOMAIN f :
           /\ FileOK(f[i]) /\ f[i].len \in Nat
           /\ \A p \in DOMAIN f[i].headers : p \in Nat /\ p < f[i].len
      /\ \A i \in DOMAIN m :
           Cursor(m[i]) \in Nat /\ End(m[i]) \in Nat /\ Cursor(m[i]) <= End(m[i])
      /\ \A i \in 0..n : \A p \in DOMAIN f[i].headers :
           IsSection(f, i, p) => f[i].headers[p].entry_type \in Stream
  BY LogMapped, DataFacts
<1>2. /\ MarkersOK(f, m, n) /\ BehindMainHeader(f, m)
      /\ \A i \in DOMAIN f : DataOK(f[i], x) /\ (i > n => DataOK(f[i], x - 1))
      /\ \A u \in Stream : StreamOK(f, n, t, l, x, u)
  BY DEF LogData, DataInv
<1>3. \A p \in DOMAIN f[n].headers :
        /\ p \in Nat /\ p <= at
        /\ IsSection(f, n, p) => p < at /\ p + f[n].headers[p].next <= at
        /\ IsMarker(f, n, p) => p = at
  BY BeforeEnd
<1>4. /\ DOMAIN g[n].headers = DOMAIN f[n].headers \cup {at}
      /\ g[n].headers[at] = header /\ g[n].len = f[n].len
      /\ \A p \in DOMAIN f[n].headers \ {at} : g[n].headers[p] = f[n].headers[p]
      /\ at \in Nat /\ at >= Cursor(m[n]) /\ s # LastEntry
  BY <1>1, MarkerIsNoStream DEF HeaderPut
<1>5. \A p : ~IsMarker(g, n, p)
  BY <1>3, <1>4 DEF IsMarker
<1>6. ASSUME NEW p, IsSection(f, n, p)
      PROVE  /\ p \in DOMAIN f[n].headers /\ p \in DOMAIN g[n].headers
             /\ g[n].headers[p] = f[n].headers[p]
             /\ p \in DOMAIN f[n].data /\ p \in DOMAIN g[n].data
             /\ g[n].data[p] = f[n].data[p]
             /\ p \in Nat /\ p < at /\ p + g[n].headers[p].next <= at
             /\ IsSection(g, n, p)
  <2>1. p \in DOMAIN f[n].headers /\ p \in DOMAIN f[n].data
    BY <1>1, <1>2, <1>6 DEF IsSection, DataOK
  <2>2. p < at /\ p \in Nat
    BY <1>3, <1>6, <2>1
  <2>3. p # at
    BY <1>4, <2>2
  <2> QED
    BY <1>3, <1>4, <1>6, <2>1, <2>2, <2>3 DEF IsSection
<1>7. ASSUME NEW p, IsSection(g, n, p), p # at
      PROVE  IsSection(f, n, p)
  BY <1>4, <1>7 DEF IsSection
<1>8. ASSUME NEW i \in 0..n, NEW p \in DOMAIN f[i].headers, IsSection(f, i, p)
      PROVE  /\ p \in DOMAIN g[i].headers
             /\ g[i].headers[p] = f[i].headers[p] /\ g[i].data[p] = f[i].data[p]
  <2>1. CASE i = n
    BY <1>6, <1>8, <2>1
  <2>2. CASE i # n
    BY <1>1, <1>8, <2>2
  <2> QED
    BY <2>1, <2>2
<1>9. ASSUME NEW i \in 0..n, NEW p \in DOMAIN g[i].headers, IsSection(g, i, p),
             ~(i = n /\ p = at)
      PROVE  p \in DOMAIN f[i].headers /\ IsSection(f, i, p)
  <2>1. CASE i = n
    BY <1>6, <1>7, <1>9, <2>1
  <2>2. CASE i # n
    BY <1>1, <1>9, <2>2 DEF IsSection
  <2> QED
    BY <2>1, <2>2
<1>10. ASSUME NEW u \in Stream \ {s}
       PROVE  SameSections(g, n, f, n, u)
  <2>1. u # LastEntry
    BY MarkerIsNoStream
  <2>2. ASSUME NEW i \in 0..n, NEW p \in DOMAIN g[i].headers,
               g[i].headers[p].entry_type = u
        PROVE  p \in DOMAIN f[i].headers /\ f[i].headers[p].entry_type = u
    <3>1. IsSection(g, i, p) /\ ~(i = n /\ p = at)
      BY <1>4, <2>1, <2>2 DEF IsSection
    <3> QED
      BY <1>8, <1>9, <2>2, <3>1
  <2> QED
    BY <1>8, <2>1, <2>2 DEF SameSections, IsSection
<1>11. \A v : ~Counts(g, n, at, v)
  <2>1. 1..g[n].headers[at].used = {}
    BY <1>4
  <2> QED
    BY <2>1 DEF Counts
<1>12. Alike(g, n, f, n, s)
  <2>1. ASSUME NEW i \in 0..n, NEW p \in DOMAIN f[i].headers,
               f[i].headers[p].entry_type = s
        PROVE  /\ p \in DOMAIN g[i].headers /\ g[i].headers[p].entry_type = s
               /\ \A v : Counts(g, i, p, v) <=> Counts(f, i, p, v)
    <3>1. IsSection(f, i, p)
      BY <1>4, <2>1 DEF IsSection
    <3> QED
      BY <1>8, <2>1, <3>1 DEF Counts
  <2>2. ASSUME NEW i \in 0..n, NEW p \in DOMAIN g[i].headers,
               g[i].headers[p].entry_type = s
        PROVE  \/ \A v : ~Counts(g, i, p, v)
               \/ p \in DOMAIN f[i].headers /\ f[i].headers[p].entry_type = s
    <3>1. IsSection(g, i, p)
      BY <1>4, <2>2 DEF IsSection
    <3>2. CASE i = n /\ p = at
      BY <1>11, <3>2
    <3>3. CASE ~(i = n /\ p = at)
      BY <1>8, <1>9, <2>2, <3>1, <3>3
    <3> QED
      BY <3>2, <3>3
  <2> QED
    BY <2>1, <2>2 DEF Alike
<1>13. MarkersBehind(g, n, f, n)
  <2>1. ASSUME NEW j \in 0..n, NEW q \in DOMAIN g[j].headers, IsMarker(g, j, q)
        PROVE  IsMarker(f, j, q)
    BY <1>1, <1>5, <2>1 DEF IsMarker
  <2> QED
    BY <2>1 DEF MarkersBehind
<1>14. Extends(g, n, f, n)
  <2>1. \A u \in Stream : Alike(g, n, f, n, u)
    BY <1>10, <1>12, SameAlike
  <2> QED
    BY <1>1, <1>13, <2>1, AlikeExtends
<1>15. ASSUME NEW u \in Stream \ {s}
       PROVE  StreamOK(g, n, r, l, x, u)
  <2>1. n <= n /\ StreamOK(f, n, t, l, x, u) /\ SameSections(g, n, f, n, u)
        /\ r[u] = t[u]
    BY <1>1, <1>2, <1>10, <1>15
  <2> QED
    BY <1>1, <2>1, StreamKept
<1>16. StreamOK(g, n, r, l, x, s)
  <2>1. \A j, q : Written(g, n, s, j, q) = Written(f, n, s, j, q)
    BY <1>12, AlikeWritten
  <2>2. Pending(t, s) = 0 /\ Pending(r, s) = 0 /\ l[s] \in Nat
    BY <1>1 DEF Pending
  <2>3. Written(f, n, s, n + 1, 0) = 1..l[s]
    BY <1>2, <2>2 DEF StreamOK
  <2>4. Written(f, n, s, n, at) = Written(f, n, s, n + 1, 0)
    <3>1. \A i \in 0..n : \A p \in DOMAIN f[i].headers :
            f[i].headers[p].entry_type = s =>
              Before(i, p, n, at) /\ Before(i, p, n + 1, 0)
      BY <1>1, <1>4, <1>6 DEF Before, IsSection
    <3> QED
      BY <3>1 DEF Written
  <2>5. ASSUME NEW i \in 0..n, NEW p \in DOMAIN g[i].headers,
               g[i].headers[p].entry_type = s
        PROVE  /\ Numbered(g, n, x, s, i, p)
               /\ ~IsOpen(r, s, i, p) => g[i].headers[p].used = Len(g[i].data[p])
               /\ IsOpen(r, s, i, p) =>
                    /\ g[i].headers[p].used = 0 /\ Len(g[i].data[p]) = r[s].used
                    /\ \A j \in 0..n : \A q \in DOMAIN g[j].headers :
                         g[j].headers[q].entry_type = s => ~Before(i, p, j, q)
    <3>1. IsSection(g, i, p)
      BY <1>4, <2>5 DEF IsSection
    <3>2. CASE i = n /\ p = at
      <4>1. Len(g[i].data[p]) = 0
        BY <3>2
      <4>2. Numbered(g, n, x, s, i, p)
        BY <2>1, <2>2, <2>3, <2>4, <3>2, <4>1 DEF Numbered
      <4>3. ASSUME NEW j \in 0..n, NEW q \in DOMAIN g[j].headers,
                   g[j].headers[q].entry_type = s, Before(i, p, j, q)
            PROVE  FALSE
        <5>1. j = n /\ at < q
          BY <1>1, <3>2, <4>3 DEF Before
        <5>2. q \in DOMAIN f[n].headers
          BY <1>4, <4>3, <5>1
        <5> QED
          BY <1>3, <1>4, <5>1, <5>2
      <4>4. IsOpen(r, s, i, p)
        BY <3>2 DEF IsOpen
      <4> QED
        BY <1>4, <3>2, <4>1, <4>2, <4>3, <4>4
    <3>3. CASE ~(i = n /\ p = at)
      <4>1. p \in DOMAIN f[i].headers /\ IsSection(f, i, p)
        BY <1>9, <2>5, <3>1, <3>3
      <4>2. /\ g[i].headers[p] = f[i].headers[p] /\ g[i].data[p] = f[i].data[p]
        BY <1>8, <4>1
      <4>3. ~IsOpen(r, s, i, p) /\ ~IsOpen(t, s, i, p)
        BY <3>3 DEF IsOpen
      <4>4. Numbered(f, n, x, s, i, p) /\ f[i].headers[p].used = Len(f[i].data[p])
        BY <1>2, <2>5, <4>1, <4>2, <4>3 DEF StreamOK
      <4>5. Numbered(g, n, x, s, i, p)
        BY <2>1, <4>2, <4>4 DEF Numbered
      <4> QED
        BY <4>2, <4>3, <4>4, <4>5
    <3> QED
      BY <3>2, <3>3
  <2>6. Pending(r, s) <= l[s] /\ Written(g, n, s, n + 1, 0) = 1..(l[s] - Pending(r, s))
    BY <2>1, <2>2, <2>3
  <2> QED
    BY <2>5, <2>6 DEF StreamOK
<1>17. ASSUME NEW y, DataOK(f[n], y)
       PROVE  DataOK(g[n], y)
  <2> SUFFICES ASSUME NEW p \in DOMAIN g[n].headers
               PROVE  /\ p < g[n].len
                      /\ IsSection(g, n, p) =>
                           /\ g[n].headers[p].entry_type \in Stream
                           /\ p \in DOMAIN g[n].data
                           /\ g[n].data[p] \in Seq(Nat \X Nat)
                           /\ \A j \in 1..Len(g[n].data[p]) : g[n].data[p][j][1] <= y
                           /\ g[n].headers[p].used \in 0..Len(g[n].data[p])
                           /\ \A q \in DOMAIN g[n].headers :
                                p < q => p + g[n].headers[p].next <= q
    BY DEF DataOK, IsSection
  <2>1. p < g[n].len
    BY <1>1, <1>4
  <2>2. CASE p = at
    <3>1. /\ g[n].data[p] \in Seq(Nat \X Nat) /\ Len(g[n].data[p]) = 0
      <4>1. <<>> \in Seq(Nat \X Nat) /\ Len(<<>>) = 0
        OBVIOUS
      <4>2. g[n].data[p] = <<>>
        BY <2>2
      <4> QED
        BY <4>1, <4>2
    <3>2. \A q \in DOMAIN g[n].headers : ~(p < q)
      BY <1>3, <1>4, <2>2
    <3> QED
      BY <1>4, <2>1, <2>2, <3>1, <3>2
  <2>3. ASSUME IsSection(g, n, p), p # at
        PROVE  /\ g[n].headers[p].entry_type \in Stream
               /\ p \in DOMAIN g[n].data
               /\ g[n].data[p] \in Seq(Nat \X Nat)
               /\ \A j \in 1..Len(g[n].data[p]) : g[n].data[p][j][1] <= y
               /\ g[n].headers[p].used \in 0..Len(g[n].data[p])
    <3>1. IsSection(f, n, p)
      BY <1>7, <2>3
    <3> DEFINE d == f[n].data[p]
    <3>2. /\ f[n].headers[p].entry_type \in Stream
          /\ d \in Seq(Nat \X Nat) /\ \A j \in 1..Len(d) : d[j][1] <= y
          /\ f[n].headers[p].used \in 0..Len(d)
      BY <1>17, <3>1 DEF DataOK, IsSection
    <3>3. /\ g[n].headers[p] = f[n].headers[p] /\ p \in DOMAIN g[n].data
          /\ g[n].data[p] = d
      BY <1>6, <3>1
    <3> HIDE DEF d
    <3> QED
      BY <3>2, <3>3
  <2>4. ASSUME IsSection(g, n, p), p # at, NEW q \in DOMAIN g[n].headers, p < q
        PROVE  p + g[n].headers[p].next <= q
    <3>1. IsSection(f, n, p)
      BY <1>7, <2>4
    <3>2. CASE q = at
      BY <1>6, <3>1, <3>2
    <3>3. CASE q # at
      BY <1>4, <1>6, <1>17, <2>4, <3>1, <3>3 DEF DataOK, IsSection
    <3> QED
      BY <3>2, <3>3
  <2> QED
    BY <2>1, <2>2, <2>3, <2>4
<1>18. \A i \in DOMAIN g : DataOK(g[i], x) /\ (i > n => DataOK(g[i], x - 1))
  <2> TAKE i \in DOMAIN g
  <2>1. CASE i = n
    BY <1>1, <1>2, <1>17, <2>1
  <2>2. CASE i # n
    BY <1>2, <2>2
  <2> QED
    BY <2>1, <2>2
<1>19. MarkersOK(g, k, n)
  <2>1. ASSUME NEW i \in 0..n, NEW p \in DOMAIN g[i].headers, IsMarker(g, i, p)
        PROVE  /\ \A q \in DOMAIN g[i].headers : IsSection(g, i, q) => q < p
               /\ i \in DOMAIN k \/ i = n
               /\ i \in DOMAIN k => p >= Cursor(k[i])
               /\ i \in DOMAIN k /\ i = n => p = End(k[i])
    <3>1. i # n
      BY <1>5, <2>1
    <3>2. g[i] = f[i] /\ IsMarker(f, i, p) /\ p \in DOMAIN f[i].headers
      BY <1>1, <2>1, <3>1 DEF IsMarker
    <3>3. \A q \in DOMAIN f[i].headers : IsSection(f, i, q) => q < p
      BY <1>2, <3>2 DEF MarkersOK
    <3>4. \A q \in DOMAIN g[i].headers : IsSection(g, i, q) => q < p
      BY <3>2, <3>3 DEF IsSection
    <3> QED
      BY <1>2, <3>1, <3>2, <3>4 DEF MarkersOK
  <2>2. ASSUME NEW i \in 0..n, NEW p \in DOMAIN g[i].headers, IsSection(g, i, p),
               i \in DOMAIN k
        PROVE  p < Cursor(k[i])
    <3>1. CASE i = n /\ p = at
      BY <3>1
    <3>2. CASE i = n /\ p # at
      <4>1. IsSection(f, n, p)
        BY <1>7, <2>2, <3>2
      <4>2. p < at /\ p \in Nat
        BY <1>6, <4>1
      <4> QED
        BY <1>4, <3>2, <4>2
    <3>3. CASE i # n
      <4>1. g[i] = f[i] /\ IsSection(f, i, p) /\ k[i] = m[i]
        BY <1>1, <2>2, <3>3 DEF IsSection
      <4> QED
        BY <1>2, <2>2, <4>1 DEF MarkersOK
    <3> QED
      BY <3>1, <3>2, <3>3
  <2>3. \A i \in DOMAIN k \ {n} : k[i].marker = {}
    BY <1>2 DEF MarkersOK
  <2> QED
    BY <2>1, <2>2, <2>3 DEF MarkersOK
<1>20. BehindMainHeader(g, k)
  <2>1. n = 0 => Cursor(m[n]) >= Page /\ Page \in Nat
    BY <1>2, Sizes DEF BehindMainHeader
  <2>2. 0 \in DOMAIN f
    BY <1>1
  <2>3. CASE n = 0
    BY <1>1, <1>2, <1>4, <2>1, <2>3 DEF BehindMainHeader
  <2>4. CASE n # 0
    BY <1>2, <2>2, <2>4 DEF BehindMainHeader
  <2> QED
    BY <2>3, <2>4
<1>21. \A u \in Stream : StreamOK(g, n, r, l, x, u)
  BY <1>15, <1>16
<1> QED
  BY <1>1, <1>14, <1>18, <1>19, <1>20, <1>21 DEF DataInv

\* What closing changes: a header that now counts its entries, the stream's
\* status, and the cursors of no slab.
Recounted(g, f, o, at, s, used) ==
  /\ DOMAIN g = DOMAIN f /\ \A i \in DOMAIN f \ {o} : g[i] = f[i]
  /\ g[o].data = f[o].data /\ g[o].len = f[o].len
  /\ DOMAIN g[o].headers = DOMAIN f[o].headers
  /\ g[o].headers[at].entry_type = s /\ g[o].headers[at].used = used
  /\ g[o].headers[at].next = f[o].headers[at].next
  /\ \A p \in DOMAIN f[o].headers \ {at} : g[o].headers[p] = f[o].headers[p]
OpenAt(t, s, o, at, used) == IsOpen(t, s, o, at) /\ t[s].used = used
ClosedFrom(r, t, s) == r[s].status # "open" /\ \A u \in Stream \ {s} : r[u] = t[u]
SameCursors(k, m) ==
  /\ DOMAIN k = DOMAIN m
  /\ \A i \in DOMAIN m : Cursor(k[i]) = Cursor(m[i]) /\ k[i].marker = m[i].marker

(* What StreamOK says of the open section and of what is behind it.          *)
LEMMA OpenSection ==
  ASSUME NEW f, NEW n, NEW t, NEW l, NEW x, NEW s, StreamOK(f, n, t, l, x, s),
         NEW o \in 0..n, NEW at \in DOMAIN f[o].headers, f[o].headers[at].entry_type = s,
         NEW used, OpenAt(t, s, o, at, used)
  PROVE  /\ Numbered(f, n, x, s, o, at) /\ f[o].headers[at].used = 0
         /\ Len(f[o].data[at]) = used
         /\ \A j \in 0..n : \A q \in DOMAIN f[j].headers :
              f[j].headers[q].entry_type = s => ~Before(o, at, j, q)
         /\ Written(f, n, s, n + 1, 0) = 1..(l[s] - used) /\ used <= l[s]
<1>1. IsOpen(t, s, o, at) /\ t[s].used = used /\ Pending(t, s) = used
  BY DEF OpenAt, IsOpen, Pending
<1>2. Written(f, n, s, n + 1, 0) = 1..(l[s] - used) /\ used <= l[s]
  BY <1>1 DEF StreamOK
<1>3. Numbered(f, n, x, s, o, at)
  BY DEF StreamOK
<1>4. f[o].headers[at].used = 0 /\ Len(f[o].data[at]) = used
  BY <1>1 DEF StreamOK
<1>5. \A j \in 0..n : \A q \in DOMAIN f[j].headers :
        f[j].headers[q].entry_type = s => ~Before(o, at, j, q)
  BY <1>1 DEF StreamOK
<1> QED
  BY <1>2, <1>3, <1>4, <1>5

(* The open section of a stream is closed and counts its entries.            *)
LEMMA DataClosed ==
  ASSUME NEW f, NEW m, NEW n, NEW t, NEW l, NEW x, LogData(f, m, n, t, l, x),
         NEW s \in Stream, NEW o, NEW at, NEW used, OpenAt(t, s, o, at, used),
         NEW g, Recounted(g, f, o, at, s, used), NEW r, ClosedFrom(r, t, s),
         NEW k, SameCursors(k, m)
  PROVE  DataInv(g, k, n, r, l, x) /\ Extends(g, n, f, n)
<1>1. /\ n \in Nat /\ 0..n \subseteq DOMAIN f /\ DOMAIN m \subseteq 0..n
      /\ x \in Nat \ {0} /\ l \in [Stream -> Nat]
      /\ \A i \in DOMAIN f :
           /\ FileOK(f[i]) /\ f[i].len \in Nat
           /\ \A p \in DOMAIN f[i].headers : p \in Nat /\ p < f[i].len
      /\ \A i \in 0..n : \A p \in DOMAIN f[i].headers :
           IsSection(f, i, p) => f[i].headers[p].entry_type \in Stream
  BY LogMapped, DataFacts
<1>2. /\ MarkersOK(f, m, n) /\ BehindMainHeader(f, m)
      /\ \A i \in DOMAIN f : DataOK(f[i], x) /\ (i > n => DataOK(f[i], x - 1))
      /\ \A u \in Stream : StreamOK(f, n, t, l, x, u)
  BY DEF LogData, DataInv
<1>3. /\ o \in 0..n /\ o \in DOMAIN f /\ at \in DOMAIN f[o].headers
      /\ f[o].headers[at].entry_type = s /\ used \in Nat /\ s # LastEntry
  <2>a. t[s].status = "open" /\ t[s].slab = o /\ t[s].start = at /\ t[s].used = used
    BY DEF OpenAt, IsOpen
  <2>1. HeaderOf(s, f[o].headers, at) /\ LogInv(f, m, n, t)
    BY <2>a DEF LogData, ChainInv
  <2>2. o \in 0..n
    BY <2>a, <2>1, OpenMapped
  <2>3. used \in Nat
    BY <2>a, <2>1 DEF LogInv, LogStream
  <2> QED
    BY <1>1, <2>1, <2>2, <2>3, MarkerIsNoStream DEF HeaderOf
<1>4. ASSUME NEW i \in DOMAIN f
      PROVE  /\ DOMAIN g[i].headers = DOMAIN f[i].headers
             /\ g[i].len = f[i].len /\ g[i].data = f[i].data
             /\ \A p \in DOMAIN f[i].headers :
                  /\ g[i].headers[p].entry_type = f[i].headers[p].entry_type
                  /\ g[i].headers[p].next = f[i].headers[p].next
                  /\ ~(i = o /\ p = at) => g[i].headers[p] = f[i].headers[p]
  <2>1. /\ DOMAIN g[o].headers = DOMAIN f[o].headers
        /\ g[o].len = f[o].len /\ g[o].data = f[o].data
        /\ g[o].headers[at].entry_type = s
        /\ g[o].headers[at].next = f[o].headers[at].next
        /\ \A p \in DOMAIN f[o].headers \ {at} : g[o].headers[p] = f[o].headers[p]
        /\ \A j \in DOMAIN f \ {o} : g[j] = f[j]
    BY DEF Recounted
  <2>2. CASE i = o
    <3>1. ASSUME NEW p \in DOMAIN f[o].headers
          PROVE  /\ g[o].headers[p].entry_type = f[o].headers[p].entry_type
                 /\ g[o].headers[p].next = f[o].headers[p].next
                 /\ p # at => g[o].headers[p] = f[o].headers[p]
      <4>1. CASE p = at
        BY <1>3, <2>1, <4>1
      <4>2. CASE p # at
        BY <2>1, <4>2
      <4> QED
        BY <4>1, <4>2
    <3> QED
      BY <2>1, <2>2, <3>1
  <2>3. CASE i # o
    <3>1. g[i] = f[i]
      BY <2>1, <2>3
    <3> QED
      BY <2>3, <3>1
  <2> QED
    BY <2>2, <2>3
<1>5. /\ g[o].headers[at].used = used /\ g[o].data = f[o].data
      /\ DOMAIN g = DOMAIN f
  BY DEF Recounted
<1>6. ASSUME NEW i \in DOMAIN f, NEW p
      PROVE  /\ IsSection(g, i, p) <=> IsSection(f, i, p)
             /\ IsMarker(g, i, p) <=> IsMarker(f, i, p)
  BY <1>4 DEF IsSection, IsMarker
<1> DEFINE d == f[o].data[at]
<1>7. /\ Numbered(f, n, x, s, o, at) /\ f[o].headers[at].used = 0 /\ Len(d) = used
      /\ \A j \in 0..n : \A q \in DOMAIN f[j].headers :
           f[j].headers[q].entry_type = s => ~Before(o, at, j, q)
      /\ Written(f, n, s, n + 1, 0) = 1..(l[s] - used) /\ used <= l[s] /\ l[s] \in Nat
  <2>1. StreamOK(f, n, t, l, x, s)
    BY <1>2
  <2>2. l[s] \in Nat
    BY <1>1
  <2> QED
    BY <1>3, <2>1, <2>2, OpenSection
<1>d. d = f[o].data[at]
  OBVIOUS
<1> HIDE DEF d
<1>8. \A v : ~Counts(f, o, at, v)
  <2>1. 1..f[o].headers[at].used = {}
    BY <1>7
  <2> QED
    BY <2>1 DEF Counts
<1>9. Written(f, n, s, o, at) = Written(f, n, s, n + 1, 0)
  <2>1. \A i \in 0..n : \A p \in DOMAIN f[i].headers :
          f[i].headers[p].entry_type = s =>
            /\ Before(i, p, n + 1, 0)
            /\ Before(i, p, o, at) \/ (i = o /\ p = at)
    BY <1>1, <1>3, <1>7 DEF Before
  <2> QED
    BY <1>8, <2>1 DEF Written
<1>10. PICK c \in Nat :
         /\ Written(f, n, s, o, at) = 1..c
         /\ \A j \in 1..Len(d) : d[j] = <<x, c + j>>
  BY <1>7, <1>d DEF Numbered
<1>11. c = l[s] - used
  <2>1. l[s] - used \in Nat
    BY <1>3, <1>7
  <2>2. 1..c = 1..(l[s] - used)
    BY <1>7, <1>9, <1>10
  <2> DEFINE e == l[s] - used
  <2> HIDE DEF e
  <2>3. e \in Nat /\ 1..c = 1..e
    BY <2>1, <2>2 DEF e
  <2>4. c = e
    BY <1>10, <2>3, SameInterval
  <2> QED
    BY <2>4 DEF e
<1>12. \A v \in Nat : Counts(g, o, at, v) <=> v \in (l[s] - used + 1)..l[s]
  <2> TAKE v \in Nat
  <2>1. Counts(g, o, at, v) <=> \E j \in 1..used : d[j][2] = v
    <3>1. g[o].headers[at].used = used /\ g[o].data[at] = d
      BY <1>5, <1>d
    <3> QED
      BY <3>1 DEF Counts
  <2>2. \A j \in 1..used : d[j][2] = c + j
    BY <1>7, <1>10
  <2>3. (\E j \in 1..used : c + j = v) <=> v \in (l[s] - used + 1)..l[s]
    <3>1. used \in Nat /\ c \in Nat /\ l[s] \in Nat /\ l[s] = c + used
      BY <1>3, <1>7, <1>11
    <3>2. ASSUME v \in (l[s] - used + 1)..l[s] PROVE v - c \in 1..used /\ c + (v - c) = v
      BY <3>1, <3>2
    <3>3. ASSUME NEW j \in 1..used, c + j = v PROVE v \in (l[s] - used + 1)..l[s]
      BY <3>1, <3>3
    <3> QED
      BY <3>2, <3>3
  <2> QED
    BY <2>1, <2>2, <2>3
<1>13. ASSUME NEW i \in 0..n, NEW p \in DOMAIN f[i].headers, ~(i = o /\ p = at)
       PROVE  \A v : Counts(g, i, p, v) <=> Counts(f, i, p, v)
  <2>1. g[i].headers[p] = f[i].headers[p] /\ g[i].data = f[i].data
    BY <1>1, <1>4, <1>13
  <2> QED
    BY <2>1 DEF Counts
<1>14. \A i \in 0..n : i \in DOMAIN f
  BY <1>1
<1>15. ASSUME NEW j, NEW q, ~Before(o, at, j, q)
       PROVE  Written(g, n, s, j, q) = Written(f, n, s, j, q)
  <2>1. \A i \in 0..n : \A p \in DOMAIN f[i].headers :
          Before(i, p, j, q) => \A v : Counts(g, i, p, v) <=> Counts(f, i, p, v)
    BY <1>13, <1>15
  <2> QED
    BY <1>4, <1>14, <2>1 DEF Written
<1>16. Written(g, n, s, n + 1, 0) = 1..l[s]
  <2>1. \A i \in 0..n : \A p \in DOMAIN f[i].headers : Before(i, p, n + 1, 0)
    BY <1>1 DEF Before
  <2>2. ASSUME NEW v \in Nat
        PROVE  v \in Written(g, n, s, n + 1, 0)
                 <=> v \in Written(f, n, s, n + 1, 0) \/ Counts(g, o, at, v)
    <3>1. ASSUME v \in Written(g, n, s, n + 1, 0), ~Counts(g, o, at, v)
          PROVE  v \in Written(f, n, s, n + 1, 0)
      <4>i. PICK i \in 0..n : \E p \in DOMAIN g[i].headers :
              g[i].headers[p].entry_type = s /\ Counts(g, i, p, v)
        BY <3>1 DEF Written
      <4>1. PICK p \in DOMAIN g[i].headers :
              g[i].headers[p].entry_type = s /\ Counts(g, i, p, v)
        BY <4>i
      <4>2. p \in DOMAIN f[i].headers /\ f[i].headers[p].entry_type = s
        BY <1>4, <1>14, <4>1
      <4>3. Counts(f, i, p, v)
        BY <1>13, <3>1, <4>1, <4>2
      <4> QED
        BY <2>1, <4>2, <4>3 DEF Written
    <3>2. ASSUME v \in Written(f, n, s, n + 1, 0)
          PROVE  v \in Written(g, n, s, n + 1, 0)
      <4>i. PICK i \in 0..n : \E p \in DOMAIN f[i].headers :
              f[i].headers[p].entry_type = s /\ Counts(f, i, p, v)
        BY <3>2 DEF Written
      <4>1. PICK p \in DOMAIN f[i].headers :
              f[i].headers[p].entry_type = s /\ Counts(f, i, p, v)
        BY <4>i
      <4>2. p \in DOMAIN g[i].headers /\ g[i].headers[p].entry_type = s
        BY <1>4, <1>14, <4>1
      <4>3. Counts(g, i, p, v)
        BY <1>8, <1>13, <4>1
      <4> QED
        BY <2>1, <4>1, <4>2, <4>3 DEF Written
    <3>3. ASSUME Counts(g, o, at, v)
          PROVE  v \in Written(g, n, s, n + 1, 0)
      <4>1. at \in DOMAIN g[o].headers /\ g[o].headers[at].entry_type = s
        BY <1>3, <1>4
      <4> QED
        BY <1>3, <2>1, <3>3, <4>1 DEF Written
    <3> QED
      BY <3>1, <3>2, <3>3
  <2>3. \A v \in Nat : v \in Written(g, n, s, n + 1, 0)
                         <=> v \in 1..(l[s] - used) \/ v \in (l[s] - used + 1)..l[s]
    BY <1>7, <1>12, <2>2
  <2>4. \A v \in Nat : v \in 1..(l[s] - used) \/ v \in (l[s] - used + 1)..l[s]
                         <=> v \in 1..l[s]
    <3>1. used \in Nat /\ used <= l[s] /\ l[s] \in Nat
      BY <1>3, <1>7
    <3> QED
      BY <3>1
  <2>5. Written(g, n, s, n + 1, 0) \subseteq Nat /\ 1..l[s] \subseteq Nat
    BY <1>7 DEF Written
  <2> QED
    BY <2>3, <2>4, <2>5
<1>17. StreamOK(g, n, r, l, x, s)
  <2>1. Pending(r, s) = 0 /\ r[s].status # "open"
    BY DEF Pending, ClosedFrom
  <2>2. ASSUME NEW i \in 0..n, NEW p \in DOMAIN g[i].headers,
               g[i].headers[p].entry_type = s
        PROVE  /\ Numbered(g, n, x, s, i, p) /\ ~IsOpen(r, s, i, p)
               /\ g[i].headers[p].used = Len(g[i].data[p])
    <3>1. p \in DOMAIN f[i].headers /\ f[i].headers[p].entry_type = s
          /\ g[i].data = f[i].data
      BY <1>4, <1>14, <2>2
    <3>2. Numbered(f, n, x, s, i, p)
      BY <1>2, <3>1 DEF StreamOK
    <3>3. Written(g, n, s, i, p) = Written(f, n, s, i, p)
      BY <1>7, <1>15, <3>1
    <3>4. Numbered(g, n, x, s, i, p)
      BY <3>1, <3>2, <3>3 DEF Numbered
    <3>5. g[i].headers[p].used = Len(g[i].data[p])
      <4>1. CASE i = o /\ p = at
        BY <1>5, <1>7, <1>d, <3>1, <4>1
      <4>2. CASE ~(i = o /\ p = at)
        <5>1. ~IsOpen(t, s, i, p)
          BY <4>2 DEF OpenAt, IsOpen
        <5>2. f[i].headers[p].used = Len(f[i].data[p])
          BY <1>2, <3>1, <5>1 DEF StreamOK
        <5> QED
          BY <1>4, <1>14, <3>1, <4>2, <5>2
      <4> QED
        BY <4>1, <4>2
    <3> QED
      BY <2>1, <3>4, <3>5 DEF IsOpen
  <2>3. Pending(r, s) <= l[s] /\ Written(g, n, s, n + 1, 0) = 1..(l[s] - Pending(r, s))
    BY <1>7, <1>16, <2>1
  <2> QED
    BY <2>2, <2>3 DEF StreamOK
<1>18. ASSUME NEW u \in Stream \ {s}
       PROVE  StreamOK(g, n, r, l, x, u)
  <2>1. ASSUME NEW i \in 0..n, NEW p \in DOMAIN f[i].headers,
               f[i].headers[p].entry_type = u
        PROVE  g[i].headers[p] = f[i].headers[p] /\ g[i].data[p] = f[i].data[p]
    BY <1>3, <1>4, <1>14, <2>1
  <2>2. SameSections(g, n, f, n, u)
    BY <1>4, <1>14, <2>1 DEF SameSections
  <2>3. n <= n /\ StreamOK(f, n, t, l, x, u) /\ r[u] = t[u]
    BY <1>1, <1>2, <1>18 DEF ClosedFrom
  <2> QED
    BY <1>1, <2>2, <2>3, StreamKept
<1>19. Extends(g, n, f, n)
  <2>1. MarkersBehind(g, n, f, n)
    BY <1>6, <1>14 DEF MarkersBehind
  <2>2. ASSUME NEW i \in 0..n, NEW p \in DOMAIN f[i].headers
        PROVE  \A v : Counts(f, i, p, v) => Counts(g, i, p, v)
    BY <1>8, <1>13, <2>2
  <2> QED
    BY <1>4, <1>14, <2>1, <2>2 DEF Extends
<1>20. ASSUME NEW i \in DOMAIN f, NEW y, DataOK(f[i], y)
       PROVE  DataOK(g[i], y)
  <2>1. ASSUME NEW p \in DOMAIN f[i].headers, f[i].headers[p].entry_type # LastEntry
        PROVE  g[i].headers[p].used \in 0..Len(f[i].data[p])
    <3>1. CASE i = o /\ p = at
      BY <1>3, <1>5, <1>7, <1>d, <3>1
    <3>2. CASE ~(i = o /\ p = at)
      BY <1>4, <1>20, <2>1, <3>2 DEF DataOK
    <3> QED
      BY <3>1, <3>2
  <2>2. /\ g[i].data = f[i].data /\ g[i].len = f[i].len
        /\ DOMAIN g[i].headers = DOMAIN f[i].headers
        /\ \A p \in DOMAIN f[i].headers :
             /\ g[i].headers[p].entry_type = f[i].headers[p].entry_type
             /\ g[i].headers[p].next = f[i].headers[p].next
    BY <1>4, <1>20
  <2> DEFINE a == f[i]
             b == g[i]
  <2>3. /\ b.data = a.data /\ b.len = a.len /\ DOMAIN b.headers = DOMAIN a.headers
        /\ \A p \in DOMAIN a.headers :
             /\ b.headers[p].entry_type = a.headers[p].entry_type
             /\ b.headers[p].next = a.headers[p].next
             /\ a.headers[p].entry_type # LastEntry =>
                  b.headers[p].used \in 0..Len(a.data[p])
        /\ DataOK(a, y)
    BY <1>20, <2>1, <2>2
  <2> HIDE DEF a, b
  <2>4. DataOK(b, y)
    BY <2>3 DEF DataOK
  <2> QED
    BY <2>4 DEF b
<1>21. \A i \in DOMAIN g : DataOK(g[i], x) /\ (i > n => DataOK(g[i], x - 1))
  <2>1. x - 1 \in Int
    BY <1>1
  <2> DEFINE y == x - 1
  <2> HIDE DEF y
  <2>2. \A i \in DOMAIN f : DataOK(f[i], x) /\ (i > n => DataOK(f[i], y))
    BY <1>2 DEF y
  <2>3. \A i \in DOMAIN g : DataOK(g[i], x) /\ (i > n => DataOK(g[i], y))
    BY <1>5, <1>20, <2>2
  <2> QED
    BY <2>3 DEF y
<1>22. MarkersOK(g, k, n)
  <2>a. /\ DOMAIN k = DOMAIN m
        /\ \A i \in DOMAIN m : Cursor(k[i]) = Cursor(m[i]) /\ k[i].marker = m[i].marker
    BY DEF SameCursors
  <2>1. ASSUME NEW i \in 0..n, NEW p \in DOMAIN g[i].headers
        PROVE  /\ IsMarker(g, i, p) =>
                    /\ \A q \in DOMAIN g[i].headers : IsSection(g, i, q) => q < p
                    /\ i \in DOMAIN k \/ i = n
                    /\ i \in DOMAIN k => p >= Cursor(k[i])
                    /\ i \in DOMAIN k /\ i = n => p = End(k[i])
               /\ IsSection(g, i, p) /\ i \in DOMAIN k => p < Cursor(k[i])
    <3>1. /\ DOMAIN g[i].headers = DOMAIN f[i].headers
          /\ \A q : /\ IsSection(g, i, q) <=> IsSection(f, i, q)
                    /\ IsMarker(g, i, q) <=> IsMarker(f, i, q)
      BY <1>4, <1>6, <1>14
    <3>2. i \in DOMAIN k => Cursor(k[i]) = Cursor(m[i]) /\ End(k[i]) = End(m[i])
      BY <2>a DEF End
    <3> QED
      BY <1>2, <2>1, <2>a, <3>1, <3>2 DEF MarkersOK
  <2>2. \A i \in DOMAIN k \ {n} : k[i].marker = {}
    BY <1>2, <2>a DEF MarkersOK
  <2> QED
    BY <2>1, <2>2 DEF MarkersOK
<1>23. BehindMainHeader(g, k)
  <2>1. 0 \in DOMAIN f
    BY <1>1
  <2> QED
    BY <1>2, <1>4, <2>1 DEF BehindMainHeader, SameCursors
<1>24. \A u \in Stream : StreamOK(g, n, r, l, x, u)
  BY <1>17, <1>18
<1> QED
  <2>1. 0..n \subseteq DOMAIN g /\ DOMAIN k \subseteq 0..n
    BY <1>1, <1>5 DEF SameCursors
  <2> QED
    BY <1>1, <1>19, <1>21, <1>22, <1>23, <1>24, <2>1 DEF DataInv

OneMore(b, a) == b = a + 1
Longer(e, d, v) == e = Append(d, v)
Entry(x, v) == <<x, v>>
LEMMA LongerBy ==
  ASSUME NEW S, NEW d \in Seq(S), NEW v \in S, NEW e, Longer(e, d, v)
  PROVE  /\ e \in Seq(S) /\ Len(e) = Len(d) + 1 /\ e[Len(d) + 1] = v
         /\ \A j \in 1..Len(d) : e[j] = d[j]
BY DEF Longer

\* What Put changes: a file, the cursors of no slab, a stream and its count.
PutIn(g, f, o, at, entry) ==
  /\ DOMAIN g = DOMAIN f /\ \A i \in DOMAIN f \ {o} : g[i] = f[i]
  /\ g[o].headers = f[o].headers /\ g[o].len = f[o].len
  /\ DOMAIN g[o].data = DOMAIN f[o].data
  /\ Longer(g[o].data[at], f[o].data[at], entry)
  /\ \A p \in DOMAIN f[o].data \ {at} : g[o].data[p] = f[o].data[p]
PutBy(r, y, t, l, s) ==
  /\ r[s].status = "open" /\ r[s].slab = t[s].slab /\ r[s].start = t[s].start
  /\ OneMore(r[s].used, t[s].used) /\ \A u \in Stream \ {s} : r[u] = t[u]
  /\ y \in [Stream -> Nat] /\ OneMore(y[s], l[s]) /\ \A u \in Stream \ {s} : y[u] = l[u]

(* A stream's next entry is put behind the others of its open section.       *)
LEMMA DataPut ==
  ASSUME NEW f, NEW m, NEW n, NEW t, NEW l, NEW x, LogData(f, m, n, t, l, x),
         NEW s \in Stream, NEW o, NEW at, NEW used, OpenAt(t, s, o, at, used),
         NEW r, NEW y, PutBy(r, y, t, l, s),
         NEW g, PutIn(g, f, o, at, Entry(x, y[s])), NEW k, SameCursors(k, m)
  PROVE  DataInv(g, k, n, r, y, x) /\ Extends(g, n, f, n)
<1>a. /\ DOMAIN g = DOMAIN f /\ \A i \in DOMAIN f \ {o} : g[i] = f[i]
      /\ g[o].headers = f[o].headers /\ g[o].len = f[o].len
      /\ DOMAIN g[o].data = DOMAIN f[o].data
      /\ \A p \in DOMAIN f[o].data \ {at} : g[o].data[p] = f[o].data[p]
  BY DEF PutIn
<1>b. /\ r[s].status = "open" /\ r[s].slab = o /\ r[s].start = at
      /\ \A u \in Stream \ {s} : r[u] = t[u]
      /\ y \in [Stream -> Nat] /\ \A u \in Stream \ {s} : y[u] = l[u]
  BY DEF PutBy, OpenAt, IsOpen
<1>c. /\ DOMAIN k = DOMAIN m
      /\ \A i \in DOMAIN m : Cursor(k[i]) = Cursor(m[i]) /\ k[i].marker = m[i].marker
  BY DEF SameCursors
<1>1. /\ n \in Nat /\ 0..n \subseteq DOMAIN f /\ DOMAIN m \subseteq 0..n
      /\ x \in Nat \ {0} /\ l \in [Stream -> Nat]
      /\ \A i \in 0..n : \A p \in DOMAIN f[i].headers :
           IsSection(f, i, p) => f[i].headers[p].entry_type \in Stream
  BY LogMapped, DataFacts
<1>2. /\ MarkersOK(f, m, n) /\ BehindMainHeader(f, m)
      /\ \A i \in DOMAIN f : DataOK(f[i], x) /\ (i > n => DataOK(f[i], x - 1))
      /\ \A u \in Stream : StreamOK(f, n, t, l, x, u)
  BY DEF LogData, DataInv
<1>3. /\ o \in 0..n /\ o \in DOMAIN f /\ at \in DOMAIN f[o].headers
      /\ f[o].headers[at].entry_type = s /\ used \in Nat /\ s # LastEntry
  <2>a. t[s].status = "open" /\ t[s].slab = o /\ t[s].start = at /\ t[s].used = used
    BY DEF OpenAt, IsOpen
  <2>1. HeaderOf(s, f[o].headers, at) /\ LogInv(f, m, n, t)
    BY <2>a DEF LogData, ChainInv
  <2>2. o \in 0..n
    BY <2>a, <2>1, OpenMapped
  <2>3. used \in Nat
    BY <2>a, <2>1 DEF LogInv, LogStream
  <2> QED
    BY <1>1, <2>1, <2>2, <2>3, MarkerIsNoStream DEF HeaderOf
<1>4. ASSUME NEW i \in DOMAIN f
      PROVE  /\ g[i].headers = f[i].headers /\ g[i].len = f[i].len
             /\ DOMAIN g[i].data = DOMAIN f[i].data
             /\ \A p \in DOMAIN f[i].data :
                  ~(i = o /\ p = at) => g[i].data[p] = f[i].data[p]
  <2>1. CASE i = o
    BY <1>a, <2>1
  <2>2. CASE i # o
    BY <1>a, <2>2
  <2> QED
    BY <2>1, <2>2
<1>5. \A i \in 0..n : i \in DOMAIN f
  BY <1>1
<1>y. y[s] = l[s] + 1 /\ r[s].used = used + 1
  BY DEF PutBy, OneMore, OpenAt
<1>w. /\ Numbered(f, n, x, s, o, at) /\ f[o].headers[at].used = 0
      /\ Len(f[o].data[at]) = used
      /\ \A j \in 0..n : \A q \in DOMAIN f[j].headers :
           f[j].headers[q].entry_type = s => ~Before(o, at, j, q)
      /\ Written(f, n, s, n + 1, 0) = 1..(l[s] - used) /\ used <= l[s] /\ l[s] \in Nat
  <2>1. StreamOK(f, n, t, l, x, s)
    BY <1>2
  <2>2. l[s] \in Nat
    BY <1>1
  <2> QED
    BY <1>3, <2>1, <2>2, OpenSection
<1> DEFINE d == f[o].data[at]
           e == g[o].data[at]
<1>6. /\ d \in Seq(Nat \X Nat) /\ \A j \in 1..Len(d) : d[j][1] <= x
      /\ Len(d) = used /\ used \in Nat /\ at \in DOMAIN f[o].data
  <2>1. DataOK(f[o], x)
    BY <1>2, <1>3
  <2>2. /\ d \in Seq(Nat \X Nat) /\ \A j \in 1..Len(d) : d[j][1] <= x
        /\ at \in DOMAIN f[o].data
    BY <1>3, <2>1 DEF DataOK
  <2> QED
    BY <1>3, <1>w, <2>2
<1>e. g[o].data[at] = e /\ f[o].data[at] = d
  OBVIOUS
<1>l. Longer(e, d, Entry(x, y[s]))
  BY DEF PutIn
<1> HIDE DEF d, e
<1>7. /\ Len(e) = used + 1 /\ e \in Seq(Nat \X Nat) /\ e[used + 1] = Entry(x, y[s])
      /\ \A j \in 1..used : e[j] = d[j]
  <2> DEFINE z == Entry(x, y[s])
             S == Nat \X Nat
  <2>1. z \in S
    BY <1>1, <1>b DEF Entry
  <2>2. d \in Seq(S) /\ Longer(e, d, z)
    BY <1>6, <1>l
  <2> HIDE DEF z, S
  <2>3. /\ e \in Seq(S) /\ Len(e) = Len(d) + 1 /\ e[Len(d) + 1] = z
        /\ \A j \in 1..Len(d) : e[j] = d[j]
    BY <2>1, <2>2, LongerBy
  <2> QED
    BY <1>6, <2>3 DEF z, S
<1>h. f[o].headers[at].used = 0 /\ g[o].headers[at].used = 0
  BY <1>a, <1>w
<1>8. ASSUME NEW i \in 0..n, NEW p \in DOMAIN f[i].headers, IsSection(f, i, p)
      PROVE  /\ ~(i = o /\ p = at) => g[i].data[p] = f[i].data[p]
             /\ \A v : Counts(g, i, p, v) <=> Counts(f, i, p, v)
  <2>1. p \in DOMAIN f[i].data /\ g[i].headers = f[i].headers
    BY <1>2, <1>4, <1>5, <1>8 DEF DataOK, IsSection
  <2>2. CASE i = o /\ p = at
    <3>1. 1..f[i].headers[p].used = {} /\ 1..g[i].headers[p].used = {}
      BY <1>h, <2>2
    <3> QED
      BY <2>2, <3>1 DEF Counts
  <2>3. CASE ~(i = o /\ p = at)
    <3>1. g[i].data[p] = f[i].data[p]
      BY <1>4, <1>5, <2>1, <2>3
    <3> QED
      BY <2>1, <2>3, <3>1 DEF Counts
  <2> QED
    BY <2>2, <2>3
<1>9. ASSUME NEW u \in Stream
      PROVE  Alike(g, n, f, n, u)
  <2>1. u # LastEntry
    BY MarkerIsNoStream
  <2> QED
    BY <1>4, <1>5, <1>8, <2>1 DEF Alike, IsSection
<1>10. Extends(g, n, f, n)
  <2>1. MarkersBehind(g, n, f, n)
    BY <1>4, <1>5 DEF MarkersBehind, IsMarker
  <2> QED
    BY <1>1, <1>9, <2>1, AlikeExtends
<1>11. ASSUME NEW u \in Stream \ {s}
       PROVE  StreamOK(g, n, r, y, x, u)
  <2>1. u # LastEntry
    BY MarkerIsNoStream
  <2>2. SameSections(g, n, f, n, u)
    BY <1>3, <1>4, <1>5, <1>8, <2>1 DEF SameSections, IsSection
  <2>3. n <= n /\ StreamOK(f, n, t, l, x, u) /\ r[u] = t[u] /\ y[u] = l[u]
    BY <1>1, <1>2, <1>11, <1>b
  <2> QED
    BY <1>1, <2>2, <2>3, StreamKept
<1>12. \A j, q : Written(g, n, s, j, q) = Written(f, n, s, j, q)
  BY <1>9, AlikeWritten
<1>13. Numbered(g, n, x, s, o, at)
  <2>1. PICK c \in Nat :
          /\ Written(f, n, s, o, at) = 1..c
          /\ \A j \in 1..Len(d) : d[j] = <<x, c + j>>
    BY <1>w, <1>e DEF Numbered
  <2>2. Written(f, n, s, o, at) = Written(f, n, s, n + 1, 0)
    <3>1. \A v : ~Counts(f, o, at, v)
      <4>1. 1..f[o].headers[at].used = {}
        BY <1>h
      <4> QED
        BY <4>1 DEF Counts
    <3>2. \A i \in 0..n : \A p \in DOMAIN f[i].headers :
            f[i].headers[p].entry_type = s =>
              /\ Before(i, p, n + 1, 0)
              /\ Before(i, p, o, at) \/ (i = o /\ p = at)
      <4>1. \A i \in DOMAIN f : \A p \in DOMAIN f[i].headers : p \in Nat
        BY LogMapped, DataFacts
      <4> QED
        BY <1>1, <1>3, <1>w, <4>1 DEF Before
    <3> QED
      BY <3>1, <3>2 DEF Written
  <2>3. c + used = l[s]
    <3> DEFINE b == l[s] - used
    <3>1. b \in Nat
      BY <1>6, <1>w
    <3>2. 1..c = 1..b
      BY <1>w, <2>1, <2>2
    <3> HIDE DEF b
    <3>3. c = b
      BY <2>1, <3>1, <3>2, SameInterval
    <3> QED
      BY <1>6, <1>w, <3>3 DEF b
  <2>4. ASSUME NEW j \in 1..Len(e)
        PROVE  e[j] = <<x, c + j>>
    <3>1. CASE j = used + 1
      <4>1. c + j = y[s]
        BY <1>6, <1>w, <1>y, <2>1, <2>3, <3>1
      <4> QED
        BY <1>7, <3>1, <4>1 DEF Entry
    <3>2. CASE j # used + 1
      <4>1. j \in 1..used
        BY <1>6, <1>7, <2>4, <3>2
      <4>2. e[j] = d[j] /\ j \in 1..Len(d)
        BY <1>6, <1>7, <4>1
      <4> QED
        BY <2>1, <4>2
    <3> QED
      BY <3>1, <3>2
  <2>5. Written(g, n, s, o, at) = 1..c
    BY <1>12, <2>1
  <2> QED
    BY <1>e, <2>1, <2>4, <2>5 DEF Numbered
<1>14. StreamOK(g, n, r, y, x, s)
  <2>1. Pending(t, s) = used /\ Pending(r, s) = used + 1
    BY <1>b, <1>y DEF OpenAt, IsOpen, Pending
  <2>2. Pending(r, s) <= y[s] /\ y[s] - Pending(r, s) = l[s] - used
    <3>1. used \in Nat /\ used <= l[s] /\ l[s] \in Nat /\ y[s] = l[s] + 1
      BY <1>6, <1>w, <1>y
    <3> QED
      BY <2>1, <3>1
  <2>3. Written(g, n, s, n + 1, 0) = 1..(y[s] - Pending(r, s))
    BY <1>w, <1>12, <2>2
  <2>4. ASSUME NEW i \in 0..n, NEW p \in DOMAIN g[i].headers,
               g[i].headers[p].entry_type = s
        PROVE  /\ Numbered(g, n, x, s, i, p)
               /\ ~IsOpen(r, s, i, p) => g[i].headers[p].used = Len(g[i].data[p])
               /\ IsOpen(r, s, i, p) =>
                    /\ g[i].headers[p].used = 0 /\ Len(g[i].data[p]) = r[s].used
                    /\ \A j \in 0..n : \A q \in DOMAIN g[j].headers :
                         g[j].headers[q].entry_type = s => ~Before(i, p, j, q)
    <3>1. g[i].headers = f[i].headers /\ IsSection(f, i, p)
      BY <1>3, <1>4, <1>5, <2>4 DEF IsSection
    <3>2. CASE i = o /\ p = at
      <4>1. \A j \in 0..n : \A q \in DOMAIN g[j].headers :
              g[j].headers[q].entry_type = s => ~Before(i, p, j, q)
        BY <1>4, <1>5, <1>w, <3>2
      <4>2. g[i].headers[p].used = 0
        BY <1>h, <3>2
      <4>3. Len(g[i].data[p]) = r[s].used
        BY <1>7, <1>e, <1>y, <3>2
      <4>4. Numbered(g, n, x, s, i, p)
        BY <1>13, <3>2
      <4>5. IsOpen(r, s, i, p)
        BY <1>b, <3>2 DEF IsOpen
      <4> QED
        BY <4>1, <4>2, <4>3, <4>4, <4>5
    <3>3. CASE ~(i = o /\ p = at)
      <4>1. g[i].data[p] = f[i].data[p]
        BY <1>8, <2>4, <3>1, <3>3
      <4>2. Numbered(f, n, x, s, i, p) /\ f[i].headers[p].used = Len(f[i].data[p])
        <5>1. StreamOK(f, n, t, l, x, s) /\ ~IsOpen(t, s, i, p)
          BY <1>2, <3>3 DEF OpenAt, IsOpen
        <5> QED
          BY <2>4, <3>1, <5>1 DEF StreamOK
      <4>3. Numbered(g, n, x, s, i, p)
        BY <1>12, <4>1, <4>2 DEF Numbered
      <4> QED
        BY <1>b, <3>1, <3>3, <4>1, <4>2, <4>3 DEF IsOpen
    <3> QED
      BY <3>2, <3>3
  <2> QED
    BY <2>2, <2>3, <2>4 DEF StreamOK
<1>15. DataOK(g[o], x)
  <2>1. DataOK(f[o], x) /\ g[o].headers = f[o].headers /\ g[o].len = f[o].len
        /\ DOMAIN g[o].data = DOMAIN f[o].data
    BY <1>2, <1>3, <1>a
  <2>2. \A j \in 1..Len(e) : e[j][1] <= x
    <3> TAKE j \in 1..Len(e)
    <3>1. CASE j = used + 1
      <4>1. e[j][1] = x /\ x \in Nat
        BY <1>1, <1>7, <3>1 DEF Entry
      <4> QED
        BY <4>1
    <3>2. CASE j # used + 1
      <4>1. j \in 1..used
        BY <1>6, <1>7, <3>2
      <4> QED
        BY <1>6, <1>7, <4>1
    <3> QED
      BY <3>1, <3>2
  <2>3. ASSUME NEW p \in DOMAIN f[o].headers, f[o].headers[p].entry_type # LastEntry
        PROVE  /\ g[o].data[p] \in Seq(Nat \X Nat)
               /\ \A j \in 1..Len(g[o].data[p]) : g[o].data[p][j][1] <= x
               /\ f[o].headers[p].used \in 0..Len(g[o].data[p])
    <3>1. CASE p # at
      <4>1. g[o].data[p] = f[o].data[p]
        BY <1>a, <2>1, <2>3, <3>1 DEF DataOK
      <4> QED
        BY <2>1, <2>3, <4>1 DEF DataOK
    <3>2. CASE p = at
      <4>1. 0 \in 0..Len(e)
        BY <1>6, <1>7
      <4>2. g[o].data[p] = e /\ f[o].headers[p].used = 0
        BY <1>e, <1>h, <3>2
      <4> QED
        BY <1>7, <2>2, <4>1, <4>2
    <3> QED
      BY <3>1, <3>2
  <2> DEFINE a == f[o]
             b == g[o]
  <2>4. /\ b.headers = a.headers /\ b.len = a.len /\ DOMAIN b.data = DOMAIN a.data
        /\ DataOK(a, x)
        /\ \A p \in DOMAIN a.headers : a.headers[p].entry_type # LastEntry =>
             /\ b.data[p] \in Seq(Nat \X Nat)
             /\ \A j \in 1..Len(b.data[p]) : b.data[p][j][1] <= x
             /\ a.headers[p].used \in 0..Len(b.data[p])
    BY <2>1, <2>3
  <2> HIDE DEF a, b
  <2>5. DataOK(b, x)
    BY <2>4 DEF DataOK
  <2> QED
    BY <2>5 DEF b
<1>i. \A i \in DOMAIN g : DataOK(g[i], x) /\ (i > n => DataOK(g[i], x - 1))
  <2> TAKE i \in DOMAIN g
  <2>1. CASE i = o
    <3>1. ~(i > n)
      BY <1>1, <1>3, <2>1
    <3> QED
      BY <1>15, <2>1, <3>1
  <2>2. CASE i # o
    BY <1>2, <1>a, <2>2
  <2> QED
    BY <2>1, <2>2
<1>16. MarkersOK(g, k, n)
  <2>1. ASSUME NEW i \in 0..n, NEW p \in DOMAIN g[i].headers
        PROVE  /\ IsMarker(g, i, p) =>
                    /\ \A q \in DOMAIN g[i].headers : IsSection(g, i, q) => q < p
                    /\ i \in DOMAIN k \/ i = n
                    /\ i \in DOMAIN k => p >= Cursor(k[i])
                    /\ i \in DOMAIN k /\ i = n => p = End(k[i])
               /\ IsSection(g, i, p) /\ i \in DOMAIN k => p < Cursor(k[i])
    <3>1. g[i].headers = f[i].headers
      BY <1>4, <1>5
    <3>2. \A q : /\ IsSection(g, i, q) <=> IsSection(f, i, q)
                 /\ IsMarker(g, i, q) <=> IsMarker(f, i, q)
      BY <3>1 DEF IsSection, IsMarker
    <3>3. i \in DOMAIN k => Cursor(k[i]) = Cursor(m[i]) /\ End(k[i]) = End(m[i])
      BY <1>c DEF End
    <3> QED
      BY <1>2, <1>c, <2>1, <3>1, <3>2, <3>3 DEF MarkersOK
  <2>2. \A i \in DOMAIN k \ {n} : k[i].marker = {}
    BY <1>2, <1>c DEF MarkersOK
  <2> QED
    BY <2>1, <2>2 DEF MarkersOK
<1>17. BehindMainHeader(g, k)
  <2>1. 0 \in DOMAIN f
    BY <1>1
  <2> QED
    BY <1>2, <1>4, <1>c, <2>1 DEF BehindMainHeader
<1>18. \A u \in Stream : StreamOK(g, n, r, y, x, u)
  BY <1>11, <1>14
<1> QED
  <2>1. 0..n \subseteq DOMAIN g /\ DOMAIN k \subseteq 0..n /\ y \in [Stream -> Nat]
    BY <1>1, <1>a, <1>b, <1>c
  <2> QED
    BY <1>1, <1>10, <1>i, <1>16, <1>17, <1>18, <2>1 DEF DataInv

(* A run begins without sections, whatever earlier ones left.                *)
LEMMA DataBegins ==
  ASSUME NEW f, NEW x \in Nat, \A i \in DOMAIN f : DataOK(f[i], x),
         NEW g, DOMAIN g = DOMAIN f \cup {0}, \A i \in DOMAIN f \ {0} : g[i] = f[i],
         DOMAIN g[0].headers = {},
         NEW m, DOMAIN m = {0}, Cursor(m[0]) = Page,
         NEW t, \A s \in Stream : t[s].status # "open",
         NEW l \in [Stream -> Nat], \A s \in Stream : l[s] = 0,
         NEW y, y = x + 1
  PROVE  DataInv(g, m, 0, t, l, y)
<1>1. y \in Nat \ {0} /\ x <= y /\ y - 1 = x /\ 0..0 = {0} /\ Page \in Nat
  BY Sizes
<1>2. ASSUME NEW file, DataOK(file, x)
      PROVE  DataOK(file, y)
  <2>1. ASSUME NEW p \in DOMAIN file.headers, file.headers[p].entry_type # LastEntry,
               NEW k \in 1..Len(file.data[p])
        PROVE  file.data[p][k][1] <= y
    <3>1. /\ file.data[p] \in Seq(Nat \X Nat) /\ file.data[p][k][1] <= x
      BY <1>2, <2>1 DEF DataOK
    <3>2. file.data[p][k] \in Nat \X Nat
      BY <2>1, <3>1
    <3>3. file.data[p][k][1] \in Nat
      BY <3>2
    <3> DEFINE a == file.data[p][k][1]
    <3>4. a \in Nat /\ a <= x
      BY <3>1, <3>3
    <3> HIDE DEF a
    <3>5. a <= y
      BY <1>1, <3>4
    <3> QED
      BY <3>5 DEF a
  <2> QED
    BY <1>2, <2>1 DEF DataOK
<1>3. \A i \in DOMAIN g : DataOK(g[i], x)
  <2>1. DataOK(g[0], x)
    BY DEF DataOK
  <2> QED
    BY <2>1
<1>4. \A i \in DOMAIN g : DataOK(g[i], y) /\ (i > 0 => DataOK(g[i], y - 1))
  BY <1>1, <1>2, <1>3
<1>5. MarkersOK(g, m, 0)
  <2>1. \A i \in 0..0 : DOMAIN g[i].headers = {}
    BY <1>1
  <2> QED
    BY <2>1 DEF MarkersOK
<1>6. BehindMainHeader(g, m)
  BY <1>1 DEF BehindMainHeader
<1>7. ASSUME NEW s \in Stream
      PROVE  StreamOK(g, 0, t, l, y, s)
  <2>1. \A i \in 0..0 : DOMAIN g[i].headers = {}
    BY <1>1
  <2>2. Written(g, 0, s, 0 + 1, 0) = {}
    BY <2>1 DEF Written
  <2>3. Pending(t, s) = 0 /\ l[s] = 0
    BY DEF Pending
  <2>4. Written(g, 0, s, 0 + 1, 0) = 1..(l[s] - Pending(t, s)) /\ Pending(t, s) <= l[s]
    BY <2>2, <2>3
  <2> QED
    BY <2>1, <2>4 DEF StreamOK
<1> QED
  BY <1>1, <1>4, <1>5, <1>6, <1>7 DEF DataInv

LEMMA OpenedData ==
  ASSUME NEW file, DOMAIN file = {"len", "headers", "data"}, NEW offset, NEW s
  PROVE  LET o == OpenedIn(file, offset, s) IN
         /\ offset \in DOMAIN o.data /\ o.data[offset] = <<>>
         /\ \A p \in DOMAIN file.data \ {offset} :
              p \in DOMAIN o.data /\ o.data[p] = file.data[p]
<1> DEFINE w == WriteHeader(file, offset, SectionHeader(s, 0, TRUE))
           o == OpenedIn(file, offset, s)
           d == With(w.data, offset, <<>>)
<1>1. o = [w EXCEPT !.data = d]
  BY DEF OpenedIn
<1>2. w.data = file.data /\ DOMAIN w = {"len", "headers", "data"}
  BY DEF WriteHeader
<1>3. /\ DOMAIN d = DOMAIN w.data \cup {offset} /\ d[offset] = <<>>
      /\ \A p \in DOMAIN w.data \ {offset} : d[p] = w.data[p]
  BY DEF With
<1> HIDE DEF w, o, d
<1>4. o.data = d
  BY <1>1, <1>2
<1> QED
  BY <1>2, <1>3, <1>4 DEF o

LEMMA DataCollected ==
  ASSUME NEW f, NEW m, NEW t, NEW l, NEW x, LogData(f, m, front, t, l, x),
         front \in DOMAIN m
  PROVE  LET g == Trimmed(f, m)
             k == [Mapped(m) EXCEPT ![front] = clear_temporary_end_marker(@)]
         IN  LogData(g, k, front, t, l, x) /\ Extends(g, front, f, front)
<1> DEFINE k == [Mapped(m) EXCEPT ![front] = clear_temporary_end_marker(@)]
           g == Trimmed(f, m)
           c == clear_temporary_end_marker(m[front])
           C == Stale(m)
<1>1. /\ LogInv(f, m, front, t) /\ ChainInv(f, m, front, t)
      /\ SlabInv(m[front]) /\ DOMAIN m \subseteq DOMAIN f
  BY DEF LogData, LogInv
<1>2. LogInv(g, k, front, t) /\ ChainInv(g, k, front, t)
  BY <1>1, SlabsCollected, ChainCollected
<1>3. /\ DOMAIN k = DOMAIN m \ C /\ C \subseteq DOMAIN m /\ front \notin C
      /\ k[front] = c /\ \A i \in DOMAIN k \ {front} : k[i] = m[i]
  BY DEF Mapped, Stale
<1>4. /\ DOMAIN g = DOMAIN f /\ \A i \in DOMAIN f \ C : g[i] = f[i]
      /\ \A i \in C : g[i] = Trim(f[i], m[i].pos)
  BY <1>1, <1>3 DEF Trimmed
<1>5. Cursor(c) = Cursor(m[front])
  BY <1>1, Cleared
<1> HIDE DEF k, g, c, C
<1>6. \A i \in DOMAIN k : Cursor(k[i]) = Cursor(m[i])
  BY <1>3, <1>5
<1>7. DataInv(g, k, front, t, l, x) /\ Extends(g, front, f, front)
  BY <1>3, <1>4, <1>6, LogMapped, DataCut
<1> QED
  BY <1>2, <1>7 DEF LogData, k, g

(* add_section adds a section to what a reader finds, and takes nothing.     *)
LEMMA DataTaken ==
  ASSUME NEW f, NEW m, NEW t, NEW l, NEW x, LogData(f, m, front, t, l, x),
         front \in DOMAIN m, NEW s \in Stream, t[s].status # "open",
         \A u \in Stream \ {s} : streams[u] = t[u],
         streams \in [Stream -> LogStream], AddSection(s, f, m),
         SectionFits(clear_temporary_end_marker(m[front]), SectionSize[s])
           \/ Finished(f[front], prolog(front))
  PROVE  /\ DataInv(files', slabs', front', streams', l, x)
         /\ Extends(files', front', f, front)
<1> DEFINE kept == [Mapped(m) EXCEPT ![front] = clear_temporary_end_marker(@)]
           size == SectionSize[s]
           fits == SectionFits(kept[front], size)
           to == IF fits THEN front ELSE front + 1
           room == IF fits THEN kept
                   ELSE With([kept EXCEPT ![front] = NoRoom(@)], to, NewSlab)
           cut == IF fits THEN Trimmed(f, m) ELSE With(Trimmed(f, m), to, NewFile)
           at == SectionAt(room[to])
           new == [status |-> "open", slab |-> to, start |-> at, used |-> 0]
           header == SectionHeader(s, 0, TRUE)
<1>1. /\ SectionFits(room[to], size) /\ front' = to /\ to <= MaxSlab
      /\ slabs' = [room EXCEPT ![to] = WithSection(@, size)]
      /\ files' = [cut EXCEPT ![to] = OpenedIn(@, at, s)]
      /\ streams' = [streams EXCEPT ![s] = new]
  BY DEF AddSection
<1>2. /\ LogInv(f, m, front, t) /\ ChainInv(f, m, front, t)
  BY DEF LogData
<1>3. /\ LogData(Trimmed(f, m), kept, front, t, l, x)
      /\ Extends(Trimmed(f, m), front, f, front)
      /\ front \in DOMAIN kept /\ kept[front].marker = {}
      /\ Trimmed(f, m)[front] = f[front]
  BY <1>2, DataCollected, SlabsCollected, ChainCollected
<1>4. fits \/ Finished(Trimmed(f, m)[front], prolog(front))
  <2>1. kept[front] = clear_temporary_end_marker(m[front])
    BY DEF Mapped, Stale
  <2> QED
    BY <1>3, <2>1
<1>5. /\ LogData(cut, room, to, t, l, x) /\ Extends(cut, to, f, front)
      /\ to \in DOMAIN room /\ room[to].marker = {}
  <2>1. CASE fits
    BY <1>3, <2>1
  <2>2. CASE ~fits
    <3> DEFINE g == Trimmed(f, m)
               c == NoRoom(kept[front])
               k == [kept EXCEPT ![front] = NoRoom(@)]
               g2 == With(g, front + 1, NewFile)
               k2 == With(k, front + 1, NewSlab)
    <3>1. LogInv(g2, k2, front + 1, t)
      <4>1. LogInv(g, kept, front, t)
        BY <1>3 DEF LogData
      <4> HIDE DEF kept, g
      <4> QED
        BY <1>3, <4>1, SlabCreated
    <3>2. /\ to = front + 1 /\ room = k2 /\ cut = g2
      BY <2>2
    <3>3. LogData(g, kept, front, t, l, x) /\ front \in Nat /\ DOMAIN kept \subseteq 0..front
      BY <1>3 DEF LogData, LogInv
    <3> HIDE DEF kept, g
    <3>4. DOMAIN k = DOMAIN kept /\ k[front] = c /\ \A i \in DOMAIN kept \ {front} : k[i] = kept[i]
      BY <1>3
    <3> HIDE DEF k
    <3>5. /\ DOMAIN g2 = DOMAIN g \cup {front + 1} /\ g2[front + 1] = NewFile
          /\ \A i \in DOMAIN g \ {front + 1} : g2[i] = g[i]
          /\ DOMAIN k2 = DOMAIN kept \cup {front + 1} /\ k2[front + 1] = NewSlab
          /\ k2[front] = c /\ \A i \in DOMAIN kept \ {front} : k2[i] = kept[i]
      <4>1. front + 1 \notin DOMAIN kept /\ front # front + 1
        BY <3>3
      <4>2. /\ DOMAIN g2 = DOMAIN g \cup {front + 1} /\ g2[front + 1] = NewFile
            /\ \A i \in DOMAIN g \ {front + 1} : g2[i] = g[i]
        BY DEF With
      <4>3. /\ DOMAIN k2 = DOMAIN k \cup {front + 1} /\ k2[front + 1] = NewSlab
            /\ \A i \in DOMAIN k \ {front + 1} : k2[i] = k[i]
        BY DEF With
      <4> HIDE DEF g2, k2
      <4> QED
        BY <1>3, <3>4, <4>1, <4>2, <4>3
    <3> HIDE DEF g2, k2
    <3>6. front < MaxSlab + 1 /\ Finished(g[front], prolog(front))
      <4>1. front \in Nat /\ MaxSlab \in Nat /\ front + 1 <= MaxSlab
        BY <1>1, <3>2, <3>3, UnifiedLogAssumption
      <4> QED
        BY <1>4, <2>2, <4>1 DEF g
    <3>7. ChainInv(g2, k2, front + 1, t)
      <4>1. ChainInv(g, kept, front, t) /\ LogInv(g, kept, front, t)
        BY <3>3 DEF LogData
      <4>2. /\ FileOK(g2[front + 1]) /\ g2[front + 1].len = SlabSize
            /\ FrontOK(g2[front + 1], k2[front + 1], 0)
        BY <3>5, NewFileOK
      <4> QED
        BY <1>3, <3>5, <3>6, <4>1, <4>2, ChainCreated
    <3>8. /\ c.marker = {} /\ Cursor(c) \in Nat
          /\ Cursor(kept[front]) <= Cursor(c) /\ Cursor(c) <= End(kept[front])
      <4> DEFINE z == kept[front]
      <4>1. SlabInv(z) /\ z.marker = {}
        BY <1>3, <3>3 DEF LogData, LogInv
      <4> HIDE DEF z
      <4>2. /\ Cursor(z) = z.pos /\ z.pos \in Nat /\ End(z) = SectionAt(z)
            /\ End(z) \in Nat /\ Cursor(z) <= End(z)
        BY <4>1, UnmarkedEnd
      <4>3. NoRoom(z).marker = {} /\ NoRoom(z).pos = SectionAt(z)
        BY <4>1 DEF NoRoom, SlabInv, Slab
      <4>4. Cursor(NoRoom(z)) = SectionAt(z)
        BY <4>3 DEF Cursor
      <4> QED
        BY <4>2, <4>3, <4>4 DEF z
    <3>9. DataInv(g2, k2, front + 1, t, l, x) /\ Extends(g2, front + 1, g, front)
      <4>1. DOMAIN g2[front + 1].headers = {}
        BY <3>5 DEF NewFile
      <4> HIDE DEF c
      <4> QED
        BY <1>3, <3>3, <3>5, <3>8, <4>1, DataCreated
    <3>10. Extends(g2, front + 1, f, front)
      <4>1. Extends(g, front, f, front)
        BY <1>3 DEF g
      <4> QED
        BY <3>9, <4>1, ExtendsOn
    <3>11. LogData(g2, k2, front + 1, t, l, x)
      BY <3>1, <3>7, <3>9 DEF LogData
    <3>12. front + 1 \in DOMAIN k2 /\ k2[front + 1].marker = {}
      BY <3>5, NewSlabGood
    <3> HIDE DEF room, cut, to
    <3> QED
      BY <3>2, <3>10, <3>11, <3>12
  <2> QED
    BY <2>1, <2>2
<1> HIDE DEF room, cut, to, fits, kept
<1>6. /\ SlabInv(room[to]) /\ cut[to].len = SlabSize /\ to \in DOMAIN cut
      /\ DOMAIN cut[to] = {"len", "headers", "data"} /\ size \in Nat /\ size >= 2
  BY <1>5, Sizes DEF LogData, LogInv, FileInv, ChainInv
<1> DEFINE g == [cut EXCEPT ![to] = OpenedIn(@, at, s)]
           r == [streams EXCEPT ![s] = new]
           k == [room EXCEPT ![to] = WithSection(@, size)]
<1>7. /\ DOMAIN g = DOMAIN cut /\ \A i \in DOMAIN cut \ {to} : g[i] = cut[i]
      /\ HeaderPut(g[to], cut[to], at, header)
      /\ at \in DOMAIN g[to].data /\ g[to].data[at] = <<>>
      /\ \A p \in DOMAIN cut[to].data \ {at} :
           p \in DOMAIN g[to].data /\ g[to].data[p] = cut[to].data[p]
  <2>1. g[to] = OpenedIn(cut[to], at, s)
    BY <1>6
  <2> HIDE DEF at, header
  <2>2. HeaderPut(g[to], cut[to], at, header)
    BY <1>6, <2>1, OpenedPut DEF header
  <2>3. /\ at \in DOMAIN g[to].data /\ g[to].data[at] = <<>>
        /\ \A p \in DOMAIN cut[to].data \ {at} :
             p \in DOMAIN g[to].data /\ g[to].data[p] = cut[to].data[p]
    BY <1>6, <2>1, OpenedData
  <2> QED
    BY <2>2, <2>3
<1>8. /\ r[s].status = "open" /\ r[s].slab = to /\ r[s].start = at /\ r[s].used = 0
      /\ \A u \in Stream \ {s} : r[u] = t[u]
  <2>1. r[s] = new /\ \A u \in Stream \ {s} : r[u] = t[u]
    <3> HIDE DEF new
    <3> QED
      OBVIOUS
  <2> QED
    BY <2>1
<1>9. /\ DOMAIN k = DOMAIN room /\ \A i \in DOMAIN room \ {to} : k[i] = room[i]
      /\ k[to] = WithSection(room[to], size)
  BY <1>5
<1> HIDE DEF g, r, k, new
<1>10. /\ at \in Nat /\ at = End(room[to]) /\ Cursor(k[to]) = at + size
  <2>1. at = End(room[to])
    BY <1>5, <1>6, UnmarkedEnd
  <2>2. at \in Nat /\ Cursor(k[to]) = at + size
    BY <1>1, <1>5, <1>6, <1>9, SectionAdded
  <2> QED
    BY <2>1, <2>2
<1>11. at < cut[to].len
  <2>1. at + align_to_next_page(size) <= SlabSize
    BY <1>1 DEF SectionFits
  <2>2. align_to_next_page(size) \in Nat /\ align_to_next_page(size) >= size
    BY <1>6, Align
  <2> HIDE DEF at, size
  <2> QED
    BY <1>6, <1>10, <2>1, <2>2, Sizes
<1>12. /\ header.entry_type = s /\ header.used = 0 /\ header.next \in Nat
  BY <1>6, Align DEF SectionHeader
<1>13. Cursor(k[to]) \in Nat /\ at < Cursor(k[to])
  <2> HIDE DEF at, size
  <2> QED
    BY <1>6, <1>10
<1>14. DataInv(g, k, to, r, l, x) /\ Extends(g, to, cut, to)
  <2> HIDE DEF at, header, size
  <2> QED
    BY <1>5, <1>7, <1>8, <1>9, <1>10, <1>11, <1>12, <1>13, DataOpened
<1>15. Extends(g, to, f, front)
  BY <1>5, <1>14, ExtendsOn
<1> QED
  BY <1>1, <1>14, <1>15 DEF g, k, r

----------------------------------------------------------------------------
(* Each action, but that of another run, leaves a reader all it found.       *)

LEMMA PutData ==
  ASSUME NEW f, NEW m, NEW n, LogData(f, m, n, streams, logged, run),
         NEW s \in Stream, streams[s].status = "open", Put(s, streams[s], f, m)
  PROVE  /\ DataInv(files', slabs', n, streams', logged', run)
         /\ Extends(files', n, f, n)
<1> DEFINE t == streams[s]
           i == t.slab
           at == t.start
           y == Dirty(m[i], at + Unit + t.used)
           v == logged[s] + 1
           e == Append(f[i].data[at], <<run, v>>)
           d == [f[i].data EXCEPT ![at] = e]
           w == [f[i] EXCEPT !.data = d]
           new == [t EXCEPT !.used = t.used + 1]
<1>1. /\ LogInv(f, m, n, streams) /\ ChainInv(f, m, n, streams)
      /\ DataInv(f, m, n, streams, logged, run)
  BY DEF LogData
<1>2. /\ i \in DOMAIN m /\ i \in DOMAIN f /\ t \in LogStream /\ SlabInv(m[i])
      /\ FileOK(f[i]) /\ HeaderOf(s, f[i].headers, at) /\ DataOK(f[i], run)
      /\ streams \in [Stream -> LogStream] /\ logged \in [Stream -> Nat]
  BY <1>1, OpenMapped DEF LogInv, ChainInv, DataInv
<1>3. at \in DOMAIN f[i].data
  BY <1>2, MarkerIsNoStream DEF DataOK, HeaderOf
<1>4. files' = [f EXCEPT ![i] = w]
  <2>1. files' = [f EXCEPT ![i] = [f[i] EXCEPT !.data[at] = e]]
    BY <1>2, SMTT(30) DEF Put
  <2> QED
    BY <2>1, <1>2
<1>5. /\ slabs' = [m EXCEPT ![i] = y] /\ streams' = [streams EXCEPT ![s] = new]
      /\ logged' = [logged EXCEPT ![s] = v]
  BY DEF Put
<1>6. y.pos = m[i].pos /\ y.marker = m[i].marker
  BY <1>2, DirtyKeeps
<1> HIDE DEF y
<1>7. SameCursors(slabs', m)
  <2>1. /\ DOMAIN slabs' = DOMAIN m
        /\ \A j \in DOMAIN m :
             slabs'[j].pos = m[j].pos /\ slabs'[j].marker = m[j].marker
    BY <1>2, <1>5, <1>6
  <2> QED
    BY <2>1 DEF SameCursors, Cursor
<1>8. logged'[s] = v /\ v \in Nat /\ \A u \in Stream \ {s} : logged'[u] = logged[u]
  BY <1>2, <1>5
<1>9. PutBy(streams', logged', streams, logged, s)
  <2>1. /\ new.status = "open" /\ new.slab = t.slab /\ new.start = t.start
        /\ new.used = t.used + 1
    BY <1>2 DEF LogStream
  <2>2. streams'[s] = new /\ \A u \in Stream \ {s} : streams'[u] = streams[u]
    BY <1>2, <1>5
  <2>3. logged' \in [Stream -> Nat]
    BY <1>2, <1>5, <1>8
  <2>4. OneMore(logged'[s], logged[s]) /\ OneMore(streams'[s].used, streams[s].used)
    BY <1>8, <2>1, <2>2 DEF OneMore
  <2> HIDE DEF new, v
  <2> QED
    BY <1>8, <2>1, <2>2, <2>3, <2>4 DEF PutBy
<1>10. Longer(e, f[i].data[at], Entry(run, logged'[s]))
  BY <1>8 DEF Longer, Entry
<1> HIDE DEF e, new, v
<1>11. /\ DOMAIN d = DOMAIN f[i].data /\ d[at] = e
       /\ \A p \in DOMAIN f[i].data \ {at} : d[p] = f[i].data[p]
  BY <1>3
<1>12. w.headers = f[i].headers /\ w.len = f[i].len /\ w.data = d
  <2> HIDE DEF d
  <2> QED
    BY <1>2 DEF FileOK
<1> HIDE DEF d, w
<1>13. /\ DOMAIN files' = DOMAIN f /\ files'[i] = w
       /\ \A j \in DOMAIN f \ {i} : files'[j] = f[j]
  BY <1>2, <1>4, SMTT(30)
<1>14. PutIn(files', f, i, at, Entry(run, logged'[s]))
  BY <1>10, <1>11, <1>12, <1>13 DEF PutIn
<1> DEFINE g == files'
           k == slabs'
           r == streams'
           l == logged'
           r0 == streams
           l0 == logged
           x == run
<1> DEFINE o == r0[s].slab
           p == r0[s].start
           used == r0[s].used
<1>15. /\ LogData(f, m, n, r0, l0, x) /\ OpenAt(r0, s, o, p, used)
       /\ PutBy(r, l, r0, l0, s) /\ SameCursors(k, m)
       /\ PutIn(g, f, o, p, Entry(x, l[s]))
  BY <1>7, <1>9, <1>14 DEF OpenAt, IsOpen
<1> HIDE DEF g, k, r, l, r0, l0, x, o, p, used
<1>16. DataInv(g, k, n, r, l, x) /\ Extends(g, n, f, n)
  BY <1>15, DataPut
<1> QED
  BY <1>16 DEF g, k, r, l, x

LEMMA CloseData ==
  ASSUME LogData(files, slabs, front, streams, logged, run), NEW s \in Stream,
         streams[s].status = "open", NEW r, r[s].status # "open",
         \A u \in Stream \ {s} : r[u] = streams[u]
  PROVE  LET g == HeaderClosed(files, s) IN
         /\ DataInv(g, SectionsFlushed(slabs, s), front, r, logged, run)
         /\ Extends(g, front, files, front)
<1> DEFINE t == streams[s]
           n == t.slab
           at == t.start
           header == SectionHeader(s, t.used, FALSE)
           w == WriteHeader(files[n], at, header)
           k == SectionsFlushed(slabs, s)
           g == HeaderClosed(files, s)
<1>1. /\ LogInv(files, slabs, front, streams) /\ ChainInv(files, slabs, front, streams)
  BY DEF LogData
<1>2. /\ n \in DOMAIN slabs /\ n \in DOMAIN files /\ FileOK(files[n])
      /\ HeaderOf(s, files[n].headers, at)
  BY <1>1, OpenMapped DEF LogInv, ChainInv
<1>3. /\ DOMAIN k = DOMAIN slabs
      /\ \A i \in DOMAIN slabs :
           k[i].pos = slabs[i].pos /\ k[i].marker = slabs[i].marker
  <2>1. \A u \in Stream : r[u].status = "open" =>
          /\ streams[u].status = "open" /\ r[u].slab = streams[u].slab
          /\ r[u].start = streams[u].start
    OBVIOUS
  <2> QED
    BY <1>1, <2>1, ChainClosed
<1>4. /\ DOMAIN g = DOMAIN files /\ g[n] = w
      /\ \A i \in DOMAIN files \ {n} : g[i] = files[i]
  BY <1>2 DEF HeaderClosed
<1>5. /\ header.entry_type = s /\ header.used = t.used
      /\ header.next = files[n].headers[at].next
  BY <1>2 DEF SectionHeader, HeaderOf
<1> HIDE DEF header
<1>6. HeaderPut(w, files[n], at, header) /\ w.data = files[n].data
  <2> DEFINE file == files[n]
  <2>1. DOMAIN file = {"len", "headers", "data"}
    BY <1>2 DEF FileOK
  <2> HIDE DEF file, at
  <2>2. HeaderPut(WriteHeader(file, at, header), file, at, header)
    BY <2>1, WrittenPut
  <2>3. WriteHeader(file, at, header).data = file.data
    BY <2>1 DEF WriteHeader
  <2> QED
    BY <2>2, <2>3 DEF file
<1> HIDE DEF w, k, g
<1>7. \A i \in DOMAIN slabs :
        Cursor(k[i]) = Cursor(slabs[i]) /\ k[i].marker = slabs[i].marker
  BY <1>3 DEF Cursor
<1> DEFINE f == files
           m == slabs
           q == streams
           l == logged
           x == run
<1>8. /\ LogData(f, m, front, q, l, x) /\ OpenAt(q, s, n, at, t.used)
      /\ Recounted(g, f, n, at, s, t.used)
  <2>1. at \in DOMAIN files[n].headers
    BY <1>2, SMTT(30) DEF HeaderOf
  <2>2. Recounted(g, files, n, at, s, t.used)
    BY <1>4, <1>5, <1>6, <2>1 DEF Recounted, HeaderPut
  <2> QED
    BY <2>2 DEF OpenAt, IsOpen
<1>10. ClosedFrom(r, q, s) /\ SameCursors(k, m)
  BY <1>3, <1>7 DEF ClosedFrom, SameCursors
<1> DEFINE used == t.used
<1>11. OpenAt(q, s, n, at, used) /\ Recounted(g, f, n, at, s, used)
  BY <1>8
<1> HIDE DEF f, m, q, l, x, n, at, t, used
<1>9. DataInv(g, k, front, r, l, x) /\ Extends(g, front, f, front)
  BY <1>8, <1>10, <1>11, DataClosed
<1> QED
  BY <1>9 DEF g, k, f, l, x

LEMMA OpenData ==
  ASSUME FirstFits, ReadInv, Holds(run), NEW s \in Stream, Open(s)
  PROVE  /\ DataInv(files', slabs', front', streams', logged', run')
         /\ Extends(files', front', files, front)
<1> DEFINE f == files
           m == slabs
           t == streams
           l == logged
           x == run
<1>1. /\ LogInv(f, m, front, t) /\ ChainInv(f, m, front, t) /\ front \in DOMAIN m
      /\ streams \in [Stream -> LogStream] /\ t[s].status # "open"
      /\ AddSection(s, f, m) /\ ~closed /\ lock = Free
      /\ logged' = l /\ run' = x /\ DataInv(f, m, front, t, l, x)
      /\ \A u \in Stream \ {s} : streams[u] = t[u]
  BY DEF ReadInv, Inv, LogInv, Open, Holds
<1>2. /\ SlabInv(m[front]) /\ FileOK(f[front]) /\ f[front].len = SlabSize
      /\ FrontOK(f[front], m[front], prolog(front))
      /\ m[front].pos = slabs[front].pos /\ m[front].marker = slabs[front].marker
  BY <1>1 DEF LogInv, ChainInv
<1> HIDE DEF f, m, t, l, x
<1>3. \/ SectionFits(clear_temporary_end_marker(m[front]), SectionSize[s])
      \/ Finished(f[front], prolog(front))
  BY <1>1, <1>2, Takeable
<1>4. LogData(f, m, front, t, l, x)
  BY <1>1 DEF LogData
<1>5. /\ DataInv(files', slabs', front', streams', l, x)
      /\ Extends(files', front', f, front)
  BY <1>1, <1>3, <1>4, DataTaken
<1> QED
  BY <1>1, <1>5 DEF f

LEMMA RollData ==
  ASSUME FirstFits, ReadInv, Holds(run), NEW s \in Stream, Roll(s)
  PROVE  /\ DataInv(files', slabs', front', streams', logged', run')
         /\ Extends(files', front', files, front)
<1> DEFINE f == HeaderClosed(files, s)
           m == SectionsFlushed(slabs, s)
           t == [streams EXCEPT ![s].status = "closed"]
           l == logged
           x == run
<1>1. /\ LogInv(files, slabs, front, streams) /\ streams[s].status = "open"
      /\ ChainInv(files, slabs, front, streams)
      /\ streams \in [Stream -> LogStream] /\ AddSection(s, f, m) /\ lock = Free
      /\ logged' = l /\ run' = x /\ LogData(files, slabs, front, streams, l, x)
  BY DEF ReadInv, Inv, LogInv, Roll, Holds, LogData
<1>2. ~closed /\ front \in DOMAIN slabs
  BY <1>1, OpenMeansRunning DEF ReadInv, Inv
<1>3. LogInv(f, m, front, t) /\ DOMAIN m = DOMAIN slabs
  BY <1>1, SectionClosed
<1>4. /\ t[s].status # "open" /\ \A u \in Stream \ {s} : t[u] = streams[u]
  <2>1. t[s] = [streams[s] EXCEPT !.status = "closed"] /\ streams[s] \in LogStream
    BY <1>1
  <2>2. [streams[s] EXCEPT !.status = "closed"].status = "closed"
    BY <2>1 DEF LogStream
  <2> QED
    BY <1>1, <2>1, <2>2
<1> HIDE DEF t
<1>5. /\ ChainInv(f, m, front, t)
      /\ \A i \in DOMAIN slabs :
           m[i].pos = slabs[i].pos /\ m[i].marker = slabs[i].marker
  <2>1. \A u \in Stream : t[u].status = "open" =>
          /\ streams[u].status = "open" /\ t[u].slab = streams[u].slab
          /\ t[u].start = streams[u].start
    BY <1>4
  <2> QED
    BY <1>1, <2>1, ChainClosed
<1>6. DataInv(f, m, front, t, l, x) /\ Extends(f, front, files, front)
  BY <1>1, <1>4, CloseData
<1> HIDE DEF f, m
<1>7. \/ SectionFits(clear_temporary_end_marker(m[front]), SectionSize[s])
      \/ Finished(f[front], prolog(front))
  <2>1. /\ \A i \in DOMAIN m : SlabInv(m[i])
        /\ FileOK(f[front]) /\ f[front].len = SlabSize
        /\ FrontOK(f[front], m[front], prolog(front))
    BY <1>2, <1>3, <1>5 DEF LogInv, ChainInv
  <2> QED
    BY <1>1, <1>2, <1>3, <1>5, <2>1, Takeable
<1> HIDE DEF l, x
<1>8. LogData(f, m, front, t, l, x)
  BY <1>3, <1>5, <1>6 DEF LogData
<1>9. /\ DataInv(files', slabs', front', streams', l, x)
      /\ Extends(files', front', f, front)
  BY <1>1, <1>2, <1>3, <1>4, <1>7, <1>8, DataTaken
<1> QED
  BY <1>1, <1>6, <1>9, ExtendsOn

LEMMA LogEntryData ==
  ASSUME ReadInv, Holds(run), NEW s \in Stream, LogEntry(s)
  PROVE  /\ DataInv(files', slabs', front', streams', logged', run')
         /\ Extends(files', front', files, front)
<1>1. /\ LogData(files, slabs, front, streams, logged, run)
      /\ streams[s].status = "open" /\ Put(s, streams[s], files, slabs)
      /\ front' = front /\ run' = run
  BY DEF ReadInv, Inv, LogEntry, Holds, LogData
<1>2. /\ DataInv(files', slabs', front, streams', logged', run')
      /\ Extends(files', front, files, front)
  BY <1>1, PutData
<1> QED
  BY <1>1, <1>2

LEMMA CloseStreamData ==
  ASSUME ReadInv, Holds(run), NEW s \in Stream, CloseStream(s)
  PROVE  /\ DataInv(files', slabs', front', streams', logged', run')
         /\ Extends(files', front', files, front)
<1> DEFINE r == [streams EXCEPT ![s].status = "closed"]
           g == HeaderClosed(files, s)
           k == SectionsFlushed(slabs, s)
<1>1. /\ LogData(files, slabs, front, streams, logged, run)
      /\ streams[s].status = "open" /\ streams \in [Stream -> LogStream]
      /\ files' = g /\ slabs' = k /\ streams' = r /\ front' = front
      /\ logged' = logged /\ run' = run
  BY DEF ReadInv, Inv, LogInv, CloseStream, Holds, LogData
<1>2. r[s].status # "open" /\ \A u \in Stream \ {s} : r[u] = streams[u]
  <2>1. r[s] = [streams[s] EXCEPT !.status = "closed"] /\ streams[s] \in LogStream
    BY <1>1
  <2>2. [streams[s] EXCEPT !.status = "closed"].status = "closed"
    BY <2>1 DEF LogStream
  <2> QED
    BY <1>1, <2>1, <2>2
<1> HIDE DEF r
<1>3. DataInv(g, k, front, r, logged, run) /\ Extends(g, front, files, front)
  BY <1>1, <1>2, CloseData
<1> HIDE DEF g, k
<1> QED
  BY <1>1, <1>3

(* The marker takes nothing from a reader.                                   *)
LEMMA MarkData ==
  ASSUME NEW f, NEW m, NEW t, NEW l, NEW x, LogData(f, m, front, t, l, x),
         front \in DOMAIN m, m[front].marker = {},
         NEW header, header.entry_type = LastEntry,
         NEW p, MarkerPut(p, f, m, header)
  PROVE  /\ DataInv(p.files, p.slabs, p.front, t, l, x)
         /\ Extends(p.files, p.front, f, front)
<1> DEFINE z == m[front]
           at == MarkerAt(z)
<1>1. /\ front \in Nat /\ DOMAIN m \subseteq 0..front /\ SlabInv(z)
      /\ FileOK(f[front]) /\ f[front].len = SlabSize /\ front \in DOMAIN f
  BY DEF LogData, LogInv, ChainInv
<1>2. at = End(z) /\ End(z) \in Nat /\ Cursor(z) \in Nat /\ Cursor(z) <= End(z)
  BY <1>1, UnmarkedEnd
<1>3. CASE MarkerFits(z)
  <2> DEFINE y == Marked(z)
             w == WriteHeader(f[front], at, header)
             k == [m EXCEPT ![front] = y]
             g == [f EXCEPT ![front] = w]
  <2>1. p.front = front /\ p.slabs = k /\ p.files = g
    BY <1>3 DEF MarkerPut
  <2>2. HeaderPut(w, f[front], at, header) /\ w.data = f[front].data
    <3> DEFINE file == f[front]
    <3>1. DOMAIN file = {"len", "headers", "data"}
      BY <1>1 DEF FileOK
    <3> HIDE DEF file, at
    <3>2. HeaderPut(WriteHeader(file, at, header), file, at, header)
      BY <3>1, WrittenPut
    <3>3. WriteHeader(file, at, header).data = file.data
      BY <3>1 DEF WriteHeader
    <3> QED
      BY <3>2, <3>3 DEF file
  <2>3. Cursor(y) = at /\ End(y) = at /\ at < SlabSize
    <3>1. Cursor(y) = at /\ at \in Nat
      BY <1>1, <1>3, MarkerPlaced
    <3>2. at + Unit <= SlabSize
      BY <1>3 DEF MarkerFits
    <3>3. align_to_next_page(at) = at
      BY <1>1, AlignTwice, SlabFields DEF MarkerAt, SlabInv, Slab
    <3> HIDE DEF at, y
    <3> QED
      BY <3>1, <3>2, <3>3, Sizes DEF End, Unit
  <2> HIDE DEF w, y
  <2>4. /\ DOMAIN k = DOMAIN m /\ k[front] = y
        /\ \A i \in DOMAIN m \ {front} : k[i] = m[i]
        /\ DOMAIN g = DOMAIN f /\ g[front] = w
        /\ \A i \in DOMAIN f \ {front} : g[i] = f[i]
    BY <1>1
  <2> HIDE DEF k, g
  <2>5. /\ at = End(m[front]) /\ at < f[front].len
        /\ HeaderPut(g[front], f[front], at, header) /\ g[front].data = f[front].data
        /\ Cursor(k[front]) = at /\ End(k[front]) = at
    BY <1>1, <1>2, <2>2, <2>3, <2>4
  <2> HIDE DEF at, z
  <2>6. DataInv(g, k, front, t, l, x) /\ Extends(g, front, f, front)
    BY <2>4, <2>5, DataMarked
  <2> QED
    BY <2>1, <2>6
<1>4. CASE ~MarkerFits(z)
  <2> DEFINE n == front + 1
             y == Marked(NewSlab)
             w == WriteHeader(NewFile, 0, header)
             k == With(m, n, y)
             g == With(f, n, w)
  <2>1. p.front = n /\ p.slabs = k /\ p.files = g
    BY <1>4 DEF MarkerPut
  <2>2. HeaderPut(w, NewFile, 0, header)
    <3> DEFINE file == NewFile
    <3>1. DOMAIN file = {"len", "headers", "data"}
      BY DEF NewFile
    <3> HIDE DEF file
    <3>2. HeaderPut(WriteHeader(file, 0, header), file, 0, header)
      BY <3>1, WrittenPut
    <3> QED
      BY <3>2 DEF file
  <2> HIDE DEF w
  <2>3. /\ DOMAIN w.headers = {0} /\ w.headers[0] = header /\ w.len = SlabSize
    BY <2>2, SMT DEF HeaderPut, NewFile
  <2>4. Cursor(y) = 0 /\ End(y) = 0
    <3>1. SlabInv(NewSlab) /\ MarkerFits(NewSlab)
      BY NewSlabGood
    <3>2. MarkerAt(NewSlab) = 0
      <4>1. NewSlab.pos = 0
        BY DEF NewSlab
      <4> QED
        BY <4>1, AlignZero DEF MarkerAt
    <3>3. Cursor(y) = 0
      BY <3>1, <3>2, MarkerPlaced
    <3> QED
      BY <3>3, AlignZero DEF End
  <2> HIDE DEF y
  <2>5. /\ DOMAIN k = DOMAIN m \cup {n} /\ k[n] = y
        /\ \A i \in DOMAIN m : k[i] = m[i]
        /\ DOMAIN g = DOMAIN f \cup {n} /\ g[n] = w
        /\ \A i \in DOMAIN f \ {n} : g[i] = f[i]
    <3>1. n \notin DOMAIN m
      BY <1>1
    <3> QED
      BY <3>1 DEF With
  <2> HIDE DEF k, g
  <2>6. /\ k[front].marker = {} /\ k[front] = m[front]
        /\ Cursor(k[front]) \in Nat /\ Cursor(m[front]) <= Cursor(k[front])
        /\ Cursor(k[front]) <= End(m[front])
    BY <1>2, <2>5
  <2>7. \A q \in DOMAIN g[n].headers :
          /\ IsMarker(g, n, q) /\ q < g[n].len
          /\ q = End(k[n]) /\ q >= Cursor(k[n])
    BY <2>3, <2>4, <2>5, Sizes DEF IsMarker
  <2> HIDE DEF z, at
  <2>8. DataInv(g, k, front + 1, t, l, x) /\ Extends(g, front + 1, f, front)
    BY <2>5, <2>6, <2>7, DataCreated
  <2> QED
    BY <2>1, <2>8
<1> QED
  BY <1>3, <1>4

LEMMA PlaceEndMarkerData ==
  ASSUME ReadInv, Holds(run), PlaceEndMarker
  PROVE  /\ DataInv(files', slabs', front', streams', logged', run')
         /\ Extends(files', front', files, front)
<1> DEFINE p == Marker(files, slabs, TRUE)
           s == lock.holder
           f == files
           m == slabs
           t == streams
           l == logged
           x == run
<1>1. /\ LogData(f, m, front, t, l, x) /\ front \in DOMAIN m /\ m[front].marker = {}
      /\ ChainInv(f, m, front, t) /\ LogInv(f, m, front, t) /\ run' = x
      /\ front' = p.front /\ p.front <= MaxSlab + 1 /\ s \in Stream
  BY DEF ReadInv, MarkInv, Inv, LockInv, PlaceEndMarker, Holds, LogData
<1>2. LogInv(p.files, p.slabs, p.front, t)
  BY <1>1, MarkerWritten
<1>3. PICK header :
        /\ header.entry_type = LastEntry /\ header.next = Unit
        /\ MarkerPut(p, f, m, header)
  BY MarkerIsPut
<1>4. IF lock.entry = "fits"
        THEN streams[s].status = "open" /\ Put(s, streams[s], p.files, p.slabs)
        ELSE files' = p.files /\ slabs' = p.slabs /\ streams' = t /\ logged' = l
  BY DEF ReadInv, Inv, LockInv, PlaceEndMarker
<1> HIDE DEF p, s
<1>5. /\ ChainInv(p.files, p.slabs, p.front, t)
      /\ DataInv(p.files, p.slabs, p.front, t, l, x)
      /\ Extends(p.files, p.front, f, front)
  <2> HIDE DEF f, m, t, l, x
  <2> QED
    BY <1>1, <1>3, ChainMarked, MarkData
<1>6. CASE lock.entry = "fits"
  <2> DEFINE g == p.files
             k == p.slabs
             n == p.front
  <2>1. /\ LogData(g, k, n, streams, logged, run) /\ Extends(g, n, f, front)
        /\ streams[s].status = "open" /\ Put(s, streams[s], g, k)
    BY <1>2, <1>4, <1>5, <1>6 DEF LogData
  <2> HIDE DEF g, k, n
  <2>2. /\ DataInv(files', slabs', n, streams', logged', run')
        /\ Extends(files', n, g, n)
    BY <1>1, <2>1, PutData
  <2>3. Extends(files', n, f, front)
    BY <2>1, <2>2, ExtendsOn
  <2> QED
    BY <1>1, <2>2, <2>3 DEF n
<1>7. CASE lock.entry # "fits"
  BY <1>1, <1>4, <1>5, <1>7
<1> QED
  BY <1>6, <1>7

(* Clearing the marker leaves the sections as they are.                      *)
LEMMA ClearData ==
  ASSUME NEW f, NEW m, NEW n, NEW t, NEW l, NEW x, LogData(f, m, n, t, l, x),
         n \in DOMAIN m, NEW k, DOMAIN k = DOMAIN m,
         Cursor(k[n]) = Cursor(m[n]), \A i \in DOMAIN m \ {n} : k[i] = m[i]
  PROVE  DataInv(f, k, n, t, l, x) /\ Extends(f, n, f, n)
<1> DEFINE C == {}
<1>1. \A i \in DOMAIN k : Cursor(k[i]) = Cursor(m[i])
  OBVIOUS
<1>2. /\ \A i \in DOMAIN k \ {n} : k[i] = m[i]
      /\ C \subseteq DOMAIN m /\ \A i \in C : f[i] = Trim(f[i], m[i].pos)
      /\ DOMAIN k = DOMAIN m \ C /\ DOMAIN f = DOMAIN f
      /\ \A i \in DOMAIN f \ C : f[i] = f[i]
  OBVIOUS
<1>3. MappedData(f, m, n, t, l, x)
  BY LogMapped
<1> HIDE DEF C
<1> QED
  BY <1>1, <1>2, <1>3, DataCut

LEMMA CloseLogData ==
  ASSUME ReadInv, Holds(run), CloseLog
  PROVE  /\ DataInv(files', slabs', front', streams', logged', run')
         /\ Extends(files', front', files, front)
<1> DEFINE f == files
           t == streams
           l == logged
           x == run
           m == [slabs EXCEPT ![front] = clear_temporary_end_marker(@)]
           p == Marker(f, m, FALSE)
           g == p.files
           k == p.slabs
           n == p.front
           cut == [i \in DOMAIN g |->
                     IF i \in DOMAIN k THEN Trim(g[i], k[i].pos) ELSE g[i]]
<1>1. /\ LogData(f, slabs, front, t, l, x) /\ LogInv(f, slabs, front, t)
      /\ ChainInv(f, slabs, front, t) /\ front \in DOMAIN slabs
      /\ \A s \in Stream : t[s].status # "open"
      /\ files' = cut /\ slabs' = <<>> /\ front' = n /\ streams' = t
      /\ logged' = l /\ run' = x
  BY DEF ReadInv, Inv, CloseLog, Holds, LogData
<1>2. PICK header :
        /\ header.entry_type = LastEntry /\ header.next = Unit
        /\ MarkerPut(p, f, m, header)
  BY MarkerIsPut
<1> HIDE DEF p
<1>3. /\ LogInv(f, m, front, t) /\ ChainInv(f, m, front, t) /\ front \in DOMAIN m
      /\ m[front].marker = {}
  BY <1>1, ChainCleared
<1>4. /\ DOMAIN m = DOMAIN slabs /\ Cursor(m[front]) = Cursor(slabs[front])
      /\ \A i \in DOMAIN slabs \ {front} : m[i] = slabs[i]
  <2>1. /\ DOMAIN m = DOMAIN slabs
        /\ m[front] = clear_temporary_end_marker(slabs[front])
        /\ \A i \in DOMAIN slabs \ {front} : m[i] = slabs[i]
    BY <1>1
  <2>2. SlabInv(slabs[front])
    BY <1>1 DEF LogInv
  <2> HIDE DEF m
  <2> QED
    BY <2>1, <2>2, Cleared
<1> HIDE DEF m
<1>5. DataInv(f, m, front, t, l, x)
  <2> DEFINE u == slabs
  <2>1. /\ LogData(f, u, front, t, l, x) /\ front \in DOMAIN u /\ DOMAIN m = DOMAIN u
        /\ Cursor(m[front]) = Cursor(u[front])
        /\ \A i \in DOMAIN u \ {front} : m[i] = u[i]
    BY <1>1, <1>4
  <2> HIDE DEF f, t, l, x, u
  <2> QED
    BY <2>1, ClearData
<1>6. LogData(f, m, front, t, l, x)
  BY <1>3, <1>5 DEF LogData
<1>7. DataInv(g, k, n, t, l, x) /\ Extends(g, n, f, front)
  <2> HIDE DEF f, t, l, x
  <2> QED
    BY <1>2, <1>3, <1>6, MarkData
<1>8. ChainInv(g, k, n, t) /\ n \in Nat /\ \A i \in DOMAIN k : SlabInv(k[i])
  <2>1. n <= MaxSlab + 1
    <3>1. front' <= MaxSlab + 1
      <4>1. MaxSlab \in Nat /\ front' \in 0..front' /\ ChainInv(files', slabs', front', streams')
        BY UnifiedLogAssumption, CloseLogReads DEF ReadInv, ChainInv
      <4>2. front' \in 0..(MaxSlab + 1)
        BY <4>1 DEF ChainInv
      <4> QED
        BY <4>1, <4>2
    <3> QED
      BY <1>1, <3>1
  <2> HIDE DEF f, t
  <2> QED
    BY <1>2, <1>3, <2>1, ChainMarked
<1>9. DOMAIN k \subseteq 0..n /\ DOMAIN k \subseteq DOMAIN g
  <2>1. front \in Nat /\ DOMAIN m \subseteq 0..front /\ DOMAIN m \subseteq DOMAIN f
    BY <1>3 DEF LogInv
  <2>2. CASE MarkerFits(m[front])
    <3>1. DOMAIN k = DOMAIN m /\ DOMAIN g = DOMAIN f /\ n = front
      BY <1>2, <2>2 DEF MarkerPut
    <3> QED
      BY <2>1, <3>1
  <2>3. CASE ~MarkerFits(m[front])
    <3>1. /\ DOMAIN k = DOMAIN m \cup {front + 1}
          /\ DOMAIN g = DOMAIN f \cup {front + 1} /\ n = front + 1
      BY <1>2, <2>3 DEF MarkerPut, With
    <3> QED
      BY <2>1, <3>1
  <2> QED
    BY <2>2, <2>3
<1> HIDE DEF g, k, n, f, t, l, x
<1>10. MappedData(g, k, n, t, l, x)
  BY <1>7, <1>8, <1>9 DEF MappedData
<1>11. DataInv(cut, <<>>, n, t, l, x) /\ Extends(cut, n, g, n)
  <2> DEFINE C == DOMAIN k
             none == <<>>
  <2>1. /\ DOMAIN cut = DOMAIN g /\ \A i \in C : cut[i] = Trim(g[i], k[i].pos)
        /\ \A i \in DOMAIN g \ C : cut[i] = g[i]
    BY <1>9
  <2>2. DOMAIN none = {} /\ C \subseteq DOMAIN k
    OBVIOUS
  <2>3. /\ DOMAIN none = DOMAIN k \ C
        /\ \A i \in DOMAIN none : Cursor(none[i]) = Cursor(k[i])
        /\ \A i \in DOMAIN none \ {n} : none[i] = k[i]
    BY <2>2
  <2> HIDE DEF C, cut, none
  <2>4. DataInv(cut, none, n, t, l, x) /\ Extends(cut, n, g, n)
    BY <1>10, <2>1, <2>2, <2>3, DataCut
  <2> QED
    BY <2>4 DEF none
<1> HIDE DEF cut
<1>12. Extends(cut, n, f, front)
  BY <1>7, <1>11, ExtendsOn
<1> QED
  BY <1>1, <1>11, <1>12 DEF f

LEMMA NextRunData ==
  ASSUME Holds(run), NextRun
  PROVE  DataInv(files', slabs', front', streams', logged', run')
<1> DEFINE f == files
           g == files'
           m == slabs'
           t == streams'
           l == logged'
           x == run
           y == run'
           slab == [NewSlab EXCEPT !.pos = Page]
<1>1. /\ g = With(f, 0, NewFile) /\ front' = 0 /\ m = With(<<>>, 0, slab)
      /\ t = [s \in Stream |-> NoStream] /\ l = [s \in Stream |-> 0] /\ y = x + 1
  BY DEF NextRun
<1>2. x \in Nat /\ \A i \in DOMAIN f : DataOK(f[i], x)
  BY DEF Holds, DataInv
<1>3. Cursor(slab) = Page
  BY DEF Cursor, NewSlab
<1> HIDE DEF slab
<1>4. /\ DOMAIN g = DOMAIN f \cup {0} /\ \A i \in DOMAIN f \ {0} : g[i] = f[i]
      /\ DOMAIN g[0].headers = {}
  BY <1>1 DEF With, NewFile
<1>5. DOMAIN m = {0} /\ Cursor(m[0]) = Page
  BY <1>1, <1>3 DEF With
<1>6. /\ \A s \in Stream : t[s].status # "open"
      /\ l \in [Stream -> Nat] /\ \A s \in Stream : l[s] = 0
  BY <1>1 DEF NoStream
<1> HIDE DEF f, g, m, t, l, x, y
<1>7. DataInv(g, m, 0, t, l, y)
  BY <1>1, <1>2, <1>4, <1>5, <1>6, DataBegins,
     ZenonT(60)
<1> QED
  BY <1>1, <1>7 DEF g, m, t, l, y

LEMMA InitData == Init => Holds(run)
<1> SUFFICES ASSUME Init PROVE Holds(run)
  OBVIOUS
<1> DEFINE f == <<>>
           g == files
           m == slabs
           t == streams
           l == logged
           y == run
           slab == [NewSlab EXCEPT !.pos = Page]
<1>1. /\ g = With(f, 0, NewFile) /\ front = 0 /\ m = With(<<>>, 0, slab)
      /\ t = [s \in Stream |-> NoStream] /\ l = [s \in Stream |-> 0] /\ y = 0 + 1
  BY DEF Init
<1>2. DOMAIN f = {}
  OBVIOUS
<1>3. Cursor(slab) = Page
  BY DEF Cursor, NewSlab
<1> HIDE DEF slab, f
<1>4. /\ DOMAIN g = DOMAIN f \cup {0} /\ \A i \in DOMAIN f \ {0} : g[i] = f[i]
      /\ DOMAIN g[0].headers = {}
  BY <1>1 DEF With, NewFile
<1>5. DOMAIN m = {0} /\ Cursor(m[0]) = Page
  BY <1>1, <1>3 DEF With
<1>6. /\ \A s \in Stream : t[s].status # "open"
      /\ l \in [Stream -> Nat] /\ \A s \in Stream : l[s] = 0
  BY <1>1 DEF NoStream
<1> HIDE DEF g, m, t, l, y
<1>7. \A i \in DOMAIN f : DataOK(f[i], 0)
  BY <1>2
<1>8. DataInv(g, m, 0, t, l, y)
  BY <1>1, <1>4, <1>5, <1>6, <1>7, DataBegins, ZenonT(60)
<1> QED
  BY <1>1, <1>8 DEF Holds, g, m, t, l, y

----------------------------------------------------------------------------
(* What a reader finds of each stream. *)

LEMMA IsReadable ==
  ASSUME FirstFits, ReadInv, Holds(run), NEW s \in Stream
  PROVE  Readable
<1>1. /\ LogInv(files, slabs, front, streams) /\ ChainInv(files, slabs, front, streams)
      /\ (~closed => front \in DOMAIN slabs) /\ MarkInv
  BY DEF ReadInv, Inv
<1>2. front \in DOMAIN slabs => SlabInv(slabs[front])
  BY <1>1 DEF LogInv
<1>3. front \in DOMAIN slabs \/ Sealed(files[front], prolog(front))
  BY <1>1 DEF MarkInv
<1>4. ASSUME lock = Free, NEW p \in Follows(files[front].headers, prolog(front))
      PROVE  p < files[front].len
  <2>1. CASE closed
    BY <1>1, <1>4, <2>1 DEF MarkInv, Sealed
  <2>2. CASE ~closed /\ Begun
    <3> DEFINE x == slabs[front]
               file == files[front]
               from == prolog(front)
    <3>1. /\ SlabInv(x) /\ x.marker # {} /\ FileOK(file) /\ file.len = SlabSize
          /\ FrontOK(file, x, from) /\ p \in Follows(file.headers, from)
      <4>1. front \in DOMAIN files
        BY <1>1, <2>2 DEF LogInv
      <4> QED
        BY <1>1, <1>2, <1>4, <2>2, <4>1 DEF MarkInv, ChainInv
    <3> HIDE DEF x, file, from
    <3>2. Sealed(file, from)
      BY <3>1, FrontSealed
    <3> QED
      BY <3>1, <3>2 DEF Sealed, file
  <2>3. CASE ~closed /\ ~Begun
    <3>1. front = 0 /\ DOMAIN files[front].headers = {}
      BY <1>1, <1>4, <2>3 DEF MarkInv
    <3>2. p = Page
      BY <1>4, <3>1 DEF Follows, prolog
    <3>3. files[front].len = SlabSize
      BY <1>1, <2>3 DEF ChainInv
    <3>4. /\ Page + align_to_next_page(SectionSize[s]) <= SlabSize
          /\ SectionSize[s] \in Nat /\ SectionSize[s] >= 2
      BY Sizes DEF FirstFits
    <3>5. /\ align_to_next_page(SectionSize[s]) \in Nat
          /\ align_to_next_page(SectionSize[s]) >= SectionSize[s]
      BY <3>4, Align
    <3> QED
      BY <3>2, <3>3, <3>4, <3>5, Sizes
  <2> QED
    BY <2>1, <2>2, <2>3
<1> QED
  BY <1>1, <1>2, <1>3, <1>4 DEF Readable

\* What is read of a stream was logged.
LEMMA SeenLogged ==
  ASSUME ReadInv, Holds(run), NEW s \in Stream
  PROVE  /\ logged[s] \in Nat /\ Seen(files, front, s) \subseteq 1..logged[s]
         /\ closed => Seen(files, front, s) = 1..logged[s]
<1>1. /\ LogInv(files, slabs, front, streams) /\ ChainInv(files, slabs, front, streams)
      /\ MarkersOK(files, slabs, front) /\ logged \in [Stream -> Nat]
      /\ StreamOK(files, front, streams, logged, run, s) /\ (closed => slabs = <<>>)
  BY DEF ReadInv, Inv, Holds, DataInv
<1> DEFINE all == Written(files, front, s, front + 1, 0)
           seen == Seen(files, front, s)
<1>2. /\ all = 1..(logged[s] - Pending(streams, s)) /\ Pending(streams, s) <= logged[s]
  BY <1>1 DEF StreamOK
<1>3. Pending(streams, s) \in Nat
  BY <1>1 DEF LogInv, LogStream, Pending
<1>4. seen \subseteq all
  <2>1. front \in Nat
    BY <1>1 DEF LogInv
  <2> QED
    BY <2>1 DEF Seen, Written, Before
<1>5. ASSUME closed
      PROVE  all \subseteq seen /\ Pending(streams, s) = 0
  <2>1. DOMAIN slabs = {}
    <3>1. slabs = <<>> /\ DOMAIN (<<>>) = {}
      BY <1>1, <1>5
    <3> QED
      BY <3>1
  <2>2. Pending(streams, s) = 0
    BY <1>1, <2>1, OpenMapped DEF Pending
  <2>3. ASSUME NEW i \in 0..front, NEW p \in DOMAIN files[i].headers,
               files[i].headers[p].entry_type = s
        PROVE  Reached(files, front, i, p)
    <3> SUFFICES ASSUME NEW j \in 0..front, NEW q \in DOMAIN files[j].headers,
                        IsMarker(files, j, q)
                 PROVE  ~Before(j, q, i, p)
      BY DEF Reached
    <3>1. /\ j = front
          /\ \A o \in DOMAIN files[j].headers : IsSection(files, j, o) => o < q
      BY <1>1, <2>1 DEF MarkersOK
    <3>2. IsSection(files, i, p)
      BY <2>3, MarkerIsNoStream DEF IsSection
    <3>3. front \in Nat /\ p \in Nat /\ q \in Nat
      <4>1. i \in DOMAIN files /\ j \in DOMAIN files /\ front \in Nat
        BY <1>1 DEF ChainInv
      <4> QED
        BY <1>1, <4>1 DEF ChainInv, FileOK
    <3>4. CASE i = j
      BY <3>1, <3>2, <3>3, <3>4 DEF Before
    <3>5. CASE i # j
      BY <3>1, <3>3, <3>5 DEF Before
    <3> QED
      BY <3>4, <3>5
  <2>4. all \subseteq seen
    <3> SUFFICES ASSUME NEW v \in all PROVE v \in seen
      OBVIOUS
    <3>1. PICK i \in 0..front : \E p \in DOMAIN files[i].headers :
            files[i].headers[p].entry_type = s /\ Counts(files, i, p, v)
      BY DEF Written
    <3>2. PICK p \in DOMAIN files[i].headers :
            files[i].headers[p].entry_type = s /\ Counts(files, i, p, v)
      BY <3>1
    <3>3. Reached(files, front, i, p) /\ v \in Nat
      BY <2>3, <3>2 DEF Written
    <3> QED
      BY <3>2, <3>3 DEF Seen
  <2> QED
    BY <2>2, <2>4
<1> HIDE DEF all, seen
<1>6. logged[s] \in Nat
  BY <1>1
<1>7. seen \subseteq 1..logged[s]
  BY <1>2, <1>3, <1>4, <1>6
<1>8. ASSUME closed
      PROVE  seen = 1..logged[s]
  <2>1. all \subseteq seen /\ Pending(streams, s) = 0
    BY <1>5, <1>8
  <2>2. all = 1..logged[s]
    BY <1>2, <1>6, <2>1
  <2> QED
    BY <1>4, <2>1, <2>2
<1> QED
  BY <1>6, <1>7, <1>8 DEF seen

LEMMA Shorter ==
  ASSUME NEW a \in Nat, NEW b \in Nat, 1..a \subseteq 1..b
  PROVE  a <= b
<1>1. a \in 1..a \/ a = 0
  OBVIOUS
<1> QED
  BY <1>1

Recovers ==
  /\ recoverable \in [Stream -> Nat] /\ logged \in [Stream -> Nat]
  /\ closed \in BOOLEAN
  /\ \A s \in Stream :
       /\ Seen(files, front, s) = 1..recoverable[s]
       /\ recoverable[s] <= logged[s]
       /\ closed => recoverable[s] = logged[s]

PrefixInv == ReadInv /\ Holds(run) /\ closed \in BOOLEAN

LEMMA PrefixRecovers ==
  ASSUME FirstFits
  PROVE  PrefixInv => Recovers
<1> SUFFICES ASSUME PrefixInv PROVE Recovers
  OBVIOUS
<1>1. ReadInv /\ Holds(run) /\ closed \in BOOLEAN
  BY DEF PrefixInv
<1>2. ASSUME NEW s \in Stream
      PROVE  /\ recoverable[s] \in Nat /\ Seen(files, front, s) = 1..recoverable[s]
             /\ recoverable[s] <= logged[s]
             /\ closed => recoverable[s] = logged[s]
  <2> DEFINE a == recoverable[s]
             b == logged[s]
             seen == Seen(files, front, s)
  <2>1. a \in Nat /\ seen = 1..a
    BY <1>1, IsReadable, Recovered
  <2>2. b \in Nat /\ seen \subseteq 1..b /\ (closed => seen = 1..b)
    BY <1>1, SeenLogged
  <2> HIDE DEF a, b, seen
  <2>3. a <= b
    BY <2>1, <2>2, Shorter
  <2>4. ASSUME closed PROVE a = b
    BY <2>1, <2>2, <2>4, SameInterval
  <2> QED
    BY <2>1, <2>2, <2>3, <2>4 DEF a, b, seen
<1>3. recoverable \in [Stream -> Nat]
  <2> DEFINE read(s) == Intact[Reading.content[s]]
  <2>1. recoverable = [s \in Stream |-> read(s)]
    BY DEF recoverable
  <2> HIDE DEF read
  <2> QED
    BY <1>2, <2>1
<1>4. logged \in [Stream -> Nat]
  BY <1>1 DEF Holds, DataInv
<1> QED
  BY <1>1, <1>2, <1>3, <1>4 DEF Recovers

\* What a reader can read grows in each step of a run.
LEMMA WriteStep ==
  ASSUME Recovers, Recovers', Extends(files', front', files, front), ~closed,
         \/ \E s \in Stream : logged' = [logged EXCEPT ![s] = logged[s] + 1]
         \/ logged' = logged
  PROVE  AL!Write
<1> DEFINE a == recoverable
           b == recoverable'
           l == logged'
<1>1. /\ a \in [Stream -> Nat] /\ b \in [Stream -> Nat] /\ closed' \in BOOLEAN
      /\ l \in [Stream -> Nat]
      /\ \A s \in Stream :
           /\ Seen(files, front, s) = 1..a[s] /\ Seen(files', front', s) = 1..b[s]
           /\ b[s] <= l[s] /\ (closed' => b[s] = l[s])
  BY DEF Recovers
<1> HIDE DEF a, b, l
<1>3. ASSUME NEW s \in Stream
      PROVE  a[s] <= b[s]
  <2>1. Seen(files, front, s) \subseteq Seen(files', front', s)
    BY SeenGrows
  <2> DEFINE x == a[s]
             y == b[s]
  <2>2. x \in Nat /\ y \in Nat /\ 1..x \subseteq 1..y
    BY <1>1, <2>1
  <2> HIDE DEF x, y
  <2> QED
    BY <2>2, Shorter DEF x, y
<1>4. closed' => b = l
  BY <1>1
<1> QED
  BY <1>1, <1>3, <1>4 DEF AL!Write, AL!Log, a, b, l

\* Each action is a step of the abstract log.
LEMMA NextWrites ==
  ASSUME FirstFits, PrefixInv, Recovers, Recovers', Next
  PROVE  AL!Write \/ AL!Restart
<1>1. ReadInv /\ Holds(run) /\ Inv
  BY DEF PrefixInv, ReadInv
<1>2. ASSUME NEW s \in Stream, Open(s) \/ LogEntry(s) \/ Roll(s) \/ CloseStream(s)
      PROVE  AL!Write
  <2>1. Extends(files', front', files, front)
    BY <1>1, <1>2, OpenData, LogEntryData, RollData, CloseStreamData
  <2>2. ~closed
    <3>1. CASE Open(s)
      BY <3>1 DEF Open
    <3>2. CASE ~Open(s)
      <4>1. streams[s].status = "open"
        BY <1>2, <3>2 DEF LogEntry, Roll, CloseStream
      <4> QED
        BY <1>1, <4>1, OpenMeansRunning
    <3> QED
      BY <3>1, <3>2
  <2>3. \/ logged' = [logged EXCEPT ![s] = logged[s] + 1]
        \/ logged' = logged
    <3>1. CASE LogEntry(s)
      BY <3>1 DEF LogEntry, Put
    <3>2. CASE ~LogEntry(s)
      BY <1>2, <3>2 DEF Open, Roll, CloseStream
    <3> QED
      BY <3>1, <3>2
  <2> QED
    BY <2>1, <2>2, <2>3, WriteStep
<1>3. CASE PlaceEndMarker
  <2>1. Extends(files', front', files, front)
    BY <1>1, <1>3, PlaceEndMarkerData
  <2> DEFINE holder == lock.holder
  <2>2. ~closed /\ holder \in Stream
    <3>1. lock # Free
      BY <1>3 DEF PlaceEndMarker
    <3> QED
      BY <1>1, <3>1 DEF Inv, LockInv
  <2>3. \/ logged' = [logged EXCEPT ![holder] = logged[holder] + 1]
        \/ logged' = logged
    <3>1. CASE lock.entry = "fits"
      <4>1. \E t, f, m : Put(holder, t, f, m)
        BY <1>3, <3>1 DEF PlaceEndMarker
      <4> HIDE DEF holder
      <4> QED
        BY <4>1 DEF Put
    <3>2. CASE lock.entry # "fits"
      BY <1>3, <3>2 DEF PlaceEndMarker
    <3> QED
      BY <3>1, <3>2
  <2> HIDE DEF holder
  <2> QED
    BY <2>1, <2>2, <2>3, WriteStep
<1>4. CASE CloseLog
  <2>1. Extends(files', front', files, front)
    BY <1>1, <1>4, CloseLogData
  <2>2. ~closed /\ logged' = logged
    BY <1>4 DEF CloseLog
  <2> QED
    BY <2>1, <2>2, WriteStep
<1>5. CASE NextRun
  <2> DEFINE b == recoverable'
             l == logged'
  <2>1. l = [s \in Stream |-> 0] /\ closed' = FALSE
    BY <1>5 DEF NextRun
  <2>2. b \in [Stream -> Nat] /\ \A s \in Stream : b[s] <= l[s]
    BY DEF Recovers
  <2> HIDE DEF b, l
  <2>3. \A s \in Stream : b[s] = 0
    BY <2>1, <2>2
  <2>4. b = [s \in Stream |-> 0]
    BY <2>2, <2>3
  <2> QED
    BY <2>1, <2>4 DEF AL!Restart, b, l
<1> QED
  BY <1>2, <1>3, <1>4, <1>5 DEF Next

LEMMA StutterReads ==
  ASSUME Recovers, Recovers', UNCHANGED vars
  PROVE  UNCHANGED AL!al_vars
<1> DEFINE a == recoverable
           b == recoverable'
<1>1. /\ a \in [Stream -> Nat] /\ b \in [Stream -> Nat]
      /\ \A s \in Stream : Seen(files, front, s) = 1..a[s]
      /\ \A s \in Stream : Seen(files', front', s) = 1..b[s]
      /\ files' = files /\ front' = front /\ logged' = logged /\ closed' = closed
  BY DEF Recovers, vars
<1> HIDE DEF a, b
<1>2. ASSUME NEW s \in Stream
      PROVE  a[s] = b[s]
  <2> DEFINE x == a[s]
             y == b[s]
  <2>1. x \in Nat /\ y \in Nat /\ 1..x = 1..y
    BY <1>1
  <2> HIDE DEF x, y
  <2> QED
    BY <2>1, SameInterval DEF x, y
<1>3. a = b
  BY <1>1, <1>2
<1> QED
  BY <1>1, <1>3 DEF AL!al_vars, a, b

LEMMA PrefixNext ==
  ASSUME FirstFits, PrefixInv, [Next]_vars
  PROVE  PrefixInv'
<1>1. ReadInv /\ Holds(run) /\ closed \in BOOLEAN
  BY DEF PrefixInv
<1>2. ReadInv'
  BY <1>1, NextReads
<1>3. DataInv(files', slabs', front', streams', logged', run')
  <2>1. CASE UNCHANGED vars
    BY <1>1, <2>1 DEF vars, Holds
  <2>2. ASSUME NEW s \in Stream, Open(s) \/ LogEntry(s) \/ Roll(s) \/ CloseStream(s)
        PROVE  DataInv(files', slabs', front', streams', logged', run')
    BY <1>1, <2>2, OpenData, LogEntryData, RollData, CloseStreamData
  <2>3. CASE PlaceEndMarker
    BY <1>1, <2>3, PlaceEndMarkerData
  <2>4. CASE CloseLog
    BY <1>1, <2>4, CloseLogData
  <2>5. CASE NextRun
    BY <1>1, <2>5, NextRunData
  <2> QED
    BY <2>1, <2>2, <2>3, <2>4, <2>5 DEF Next
<1>4. closed' \in BOOLEAN
  BY <1>1 DEF Next, vars, Open, LogEntry, Roll, CloseStream, PlaceEndMarker, CloseLog,
              NextRun
<1> QED
  BY <1>2, <1>3, <1>4 DEF PrefixInv, Holds

LEMMA InitRecovers ==
  ASSUME Init, Recovers
  PROVE  AL!ALInit
<1>1. logged = [s \in Stream |-> 0] /\ closed = FALSE
  BY DEF Init
<1> DEFINE a == recoverable
<1>2. a \in [Stream -> Nat] /\ \A s \in Stream : a[s] <= logged[s]
  BY DEF Recovers
<1> HIDE DEF a
<1>3. \A s \in Stream : a[s] = 0
  BY <1>1, <1>2
<1>4. a = [s \in Stream |-> 0]
  BY <1>2, <1>3
<1> QED
  BY <1>1, <1>4 DEF AL!ALInit, a

(* ImplementsAppendLog: whatever the sections, slabs, closings and restarts, *)
(* and wherever the process dies, a reader of the files gets of each stream  *)
(* the first entries of this run, in order and none of an earlier one, as    *)
(* many as before or more; and all of them once the log is closed.           *)
THEOREM ReadsBackThePrefix ==
  ASSUME FirstFits
  PROVE  Spec => ImplementsAppendLog
<1>1. Init => PrefixInv
  BY InitReads, InitData DEF PrefixInv, Init
<1>2. PrefixInv /\ [Next]_vars => PrefixInv'
  BY PrefixNext
<1>3. PrefixInv => Recovers
  BY PrefixRecovers
<1>4. PrefixInv' => Recovers'
  BY <1>3, PTL
<1>5. Init => AL!ALInit
  BY <1>1, <1>3, InitRecovers
<1>6. PrefixInv /\ PrefixInv' /\ [Next]_vars => [AL!Write \/ AL!Restart]_(AL!al_vars)
  BY <1>3, <1>4, NextWrites, StutterReads
<1> QED
  BY <1>1, <1>2, <1>5, <1>6, PTL DEF Spec, ImplementsAppendLog, AL!ALSpec

=============================================================================
