--------------------------- MODULE Replay_proofs ---------------------------
(***************************************************************************)
(* Theorems about DebugSession and DistributedReplay, for every well-      *)
(* formed recording, of any length, and every fleet of finitely many       *)
(* lists: whatever jump the debugger makes and whatever fails on the way,  *)
(* the session shows the list it stands at; a jump that succeeds lands     *)
(* where it was asked to; the engine replays in causal order, never gets   *)
(* stuck but on a cycle, and the logs it writes are those it reads.        *)
(*                                                                         *)
(* What a loop over lists leaves behind is shown by the smallest place at  *)
(* which it would not hold (Smallest): the induction theorems take an      *)
(* operator.                                                               *)
(***************************************************************************)
EXTENDS DebugSession, DistributedReplay, SequenceTheorems,
        FiniteSetTheorems, WellFoundedInduction, TLAPS

----------------------------------------------------------------------------
(* Naturals and loops. *)

LEMMA Smallest ==
  ASSUME NEW T \in SUBSET Nat, T # {}
  PROVE  \E x \in T : \A y \in T : x <= y
<1>1. IsWellFoundedOn(OpToRel(<, Nat), Nat)
  BY NatLessThanWellFounded
<1>2. PICK x \in T : \A y \in T : ~(<<y, x>> \in OpToRel(<, Nat))
  BY <1>1, WFMin
<1>3. \A y \in T : ~(y < x)
  BY <1>2 DEF OpToRel
<1> QED
  BY <1>3

IsLoop(f, S, x, step, lo, hi) ==
  /\ f \in [lo..hi -> S] /\ f[lo] = x
  /\ \A n \in (lo + 1)..hi : f[n] = step[<<n, f[n - 1]>>]

(* A loop from lo to hi has a result after each of its rounds.              *)
LEMMA LoopExists ==
  ASSUME NEW S, NEW x \in S, NEW step \in [Nat \X S -> S], NEW lo \in Nat,
         NEW hi \in Nat, lo <= hi
  PROVE  \E f : IsLoop(f, S, x, step, lo, hi)
<1> DEFINE Good(d, f) ==
             f = [n \in lo..(lo + d) |-> IF n <= lo THEN x ELSE step[<<n, f[n - 1]>>]]
           T == {d \in Nat : ~\E f \in [lo..(lo + d) -> S] : Good(d, f)}
<1>1. T = {}
  <2> SUFFICES ASSUME T # {} PROVE FALSE
    OBVIOUS
  <2>1. PICK d \in T : \A e \in T : d <= e
    <3> T \in SUBSET Nat
      OBVIOUS
    <3> HIDE DEF T
    <3> QED
      BY Smallest
  <2>2. CASE d = 0
    <3> DEFINE g == [n \in lo..(lo + d) |-> x]
    <3>1. g \in [lo..(lo + d) -> S]
      OBVIOUS
    <3>2. Good(d, g)
      BY <2>2
    <3> QED
      BY <3>1, <3>2
  <2>3. CASE d # 0
    <3> DEFINE e == d - 1
    <3>1. e \in Nat /\ e \notin T /\ d \in Nat
      <4>1. d \in Nat /\ e \in Nat /\ e < d
        BY <2>1, <2>3
      <4> HIDE DEF T
      <4> QED
        BY <2>1, <4>1
    <3>2. PICK f \in [lo..(lo + e) -> S] : Good(e, f)
      BY <3>1
    <3> DEFINE m == lo + d
               new == step[<<m, f[m - 1]>>]
               g == [n \in lo..m |-> IF n = m THEN new ELSE f[n]]
    <3>3. m - 1 \in lo..(lo + e) /\ m \in Nat /\ m > lo
      BY <2>3, <3>1
    <3>4. f[m - 1] \in S
      BY <3>2, <3>3
    <3>5. new \in S
      BY <3>3, <3>4
    <3>6. \A n \in lo..m : n # m => n \in lo..(lo + e)
      BY <3>1
    <3>7. g \in [lo..m -> S]
      BY <3>2, <3>5, <3>6
    <3> HIDE DEF new
    <3>8. ASSUME NEW n \in lo..m
          PROVE  g[n] = IF n <= lo THEN x ELSE step[<<n, g[n - 1]>>]
      <4>1. CASE n = m
        <5>1. g[n - 1] = f[m - 1] /\ g[n] = new
          BY <3>3, <3>1, <4>1
        <5>2. new = step[<<n, f[m - 1]>>] /\ ~(n <= lo)
          BY <3>3, <4>1 DEF new
        <5> HIDE DEF g
        <5> QED
          BY <5>1, <5>2
      <4>2. CASE n # m
        <5>1. /\ g[n] = f[n] /\ n \in lo..(lo + e)
              /\ f[n] = IF n <= lo THEN x ELSE step[<<n, f[n - 1]>>]
          BY <3>2, <3>6, <4>2
        <5>2. n > lo => g[n - 1] = f[n - 1]
          BY <4>2, <3>3
        <5>3. n <= lo \/ n > lo
          BY <3>3
        <5> HIDE DEF g
        <5> QED
          BY <5>1, <5>2, <5>3
      <4> QED
        BY <4>1, <4>2
    <3>9. Good(d, g)
      BY <3>8
    <3> QED
      BY <3>1, <3>7, <3>9, <2>1
  <2> QED
    BY <2>2, <2>3
<1>2. hi - lo \in Nat /\ lo + (hi - lo) = hi
  OBVIOUS
<1>3. hi - lo \notin T
  BY <1>1
<1>4. PICK f \in [lo..hi -> S] : Good(hi - lo, f)
  BY <1>2, <1>3
<1>5. f[lo] = x /\ \A n \in (lo + 1)..hi : f[n] = step[<<n, f[n - 1]>>]
  BY <1>2, <1>4
<1> QED
  BY <1>5 DEF IsLoop

----------------------------------------------------------------------------
(* Lists are found by id. *)

ListRecord == [id : Nat, ts : Nat \cup {None}, origins : SUBSET (Nat \X Nat)]

LEMMA LogFields ==
  ASSUME NEW log, WellFormed(log)
  PROVE  /\ Lists(log) \in Seq(ListRecord) /\ Len(Lists(log)) \in Nat
         /\ DOMAIN Lists(log) = 1..Len(Lists(log))
         /\ \A n \in DOMAIN Lists(log) :
              n \in Nat \ {0} /\ Lists(log)[n].id \in Nat
              /\ Lists(log)[n].ts \in Int
         /\ \A m, n \in DOMAIN Lists(log) :
              Lists(log)[m].id <= Lists(log)[n].id <=> m <= n
         /\ log.keyframes \subseteq [culistid : Nat, timestamp : Nat,
                                     frozen : Seq([by : STRING, before : Nat])]
<1>1. /\ Lists(log) \in Seq(ListRecord)
      /\ \A m, n \in DOMAIN Lists(log) : m < n => Lists(log)[m].id < Lists(log)[n].id
      /\ log.keyframes \subseteq [culistid : Nat, timestamp : Nat,
                                  frozen : Seq([by : STRING, before : Nat])]
  BY DEF WellFormed, ListRecord
<1> DEFINE q == Lists(log)
           N == Len(q)
<1>2. q \in Seq(ListRecord) /\ N \in Nat /\ DOMAIN q = 1..N /\ \A n \in 1..N : q[n] \in ListRecord
  BY <1>1
<1> HIDE DEF q, N
<1>3. \A n \in 1..N : n \in Nat \ {0} /\ q[n].id \in Nat /\ q[n].ts \in Int
  BY <1>2 DEF ListRecord, None
<1>4. \A m, n \in 1..N : m < n => q[m].id < q[n].id
  BY <1>1, <1>2 DEF q
<1>5. \A m, n \in 1..N : q[m].id <= q[n].id <=> m <= n
  <2> TAKE m, n \in 1..N
  <2>1. q[m].id \in Nat /\ q[n].id \in Nat /\ m \in Nat /\ n \in Nat
    BY <1>3
  <2>2. CASE m < n
    BY <1>4, <2>1, <2>2
  <2>3. CASE n < m
    BY <1>4, <2>1, <2>3
  <2>4. CASE m = n
    BY <2>1, <2>4
  <2> QED
    BY <2>1, <2>2, <2>3, <2>4
<1> QED
  BY <1>1, <1>2, <1>3, <1>5 DEF q, N

(* The sections lie within the log, one after the other.                    *)
LEMMA SectionFields ==
  ASSUME NEW log, WellFormed(log)
  PROVE  /\ Len(log.ends) \in Nat /\ DOMAIN log.ends = 1..Len(log.ends)
         /\ log.ends = <<>> => Lists(log) = <<>>
         /\ log.ends # <<>> => /\ Len(log.ends) \in DOMAIN log.ends
                              /\ log.ends[Len(log.ends)] = Len(Lists(log))
         /\ \A k \in DOMAIN log.ends :
              /\ k \in Nat \ {0} /\ log.ends[k] \in Nat /\ start_idx(log, k) \in Nat
              /\ start_idx(log, k) < log.ends[k]
              /\ log.ends[k] <= Len(Lists(log))
         /\ \A j, k \in DOMAIN log.ends :
              j < k => log.ends[j] <= start_idx(log, k)
<1> DEFINE e == log.ends
           N == Len(e)
           L == Len(Lists(log))
<1>1. /\ e \in Seq(Nat \ {0}) /\ N \in Nat /\ DOMAIN e = 1..N /\ L \in Nat
      /\ \A j, k \in 1..N : j < k => e[j] < e[k]
      /\ \A k \in 1..N : e[k] \in Nat \ {0}
  BY LogFields DEF WellFormed
<1>2. e = <<>> => Lists(log) = <<>>
  <2>1. e = <<>> => Len(Lists(log)) = 0
    BY DEF WellFormed
  <2>2. Lists(log) \in Seq(ListRecord)
    BY LogFields
  <2> QED
    BY <2>1, <2>2, EmptySeq
<1>3. e # <<>> => N \in 1..N /\ e[N] = L
  <2> HAVE e # <<>>
  <2>1. N # 0
    BY <1>1, EmptySeq
  <2>2. Last(e) = L
    BY DEF WellFormed
  <2> QED
    BY <1>1, <2>1, <2>2 DEF Last
<1>4. \A j, k \in 1..N : j < k => e[j] <= start_idx(log, k)
  <2> TAKE j, k \in 1..N
  <2> HAVE j < k
  <2>1. k # 1 /\ k - 1 \in 1..N /\ (j < k - 1 \/ j = k - 1)
    BY <1>1
  <2>2. start_idx(log, k) = e[k - 1]
    BY <2>1 DEF start_idx
  <2>3. e[j] \in Nat /\ e[k - 1] \in Nat
    BY <1>1, <2>1
  <2> HIDE DEF e
  <2> QED
    BY <1>1, <2>1, <2>2, <2>3
<1>5. ASSUME NEW k \in 1..N
      PROVE  /\ k \in Nat \ {0} /\ e[k] \in Nat /\ start_idx(log, k) \in Nat
             /\ start_idx(log, k) < e[k] /\ e[k] <= L
  <2>1. k \in Nat \ {0} /\ e[k] \in Nat /\ e[k] > 0
    BY <1>1
  <2>2. start_idx(log, k) \in Nat /\ start_idx(log, k) < e[k]
    <3>1. CASE k = 1
      BY <2>1, <3>1 DEF start_idx
    <3>2. CASE k # 1
      <4>1. k - 1 \in 1..N /\ k - 1 < k
        BY <1>1, <2>1, <3>2
      <4>2. start_idx(log, k) = e[k - 1]
        BY <3>2 DEF start_idx
      <4> HIDE DEF e
      <4> QED
        BY <1>1, <4>1, <4>2
    <3> QED
      BY <3>1, <3>2
  <2>3. e[k] <= L
    <3>1. e # <<>>
      BY <1>1
    <3>2. N \in 1..N /\ e[N] = L
      BY <1>3, <3>1
    <3> HIDE DEF e, L, N
    <3>4. CASE k = N
      BY <2>1, <3>2, <3>4
    <3>5. CASE k # N
      <4>1. k < N
        BY <1>1, <3>5
      <4>2. e[k] < e[N]
        BY <1>1, <3>2, <4>1
      <4> QED
        BY <1>1, <2>1, <3>2, <4>2
    <3> QED
      BY <3>4, <3>5
  <2> QED
    BY <2>1, <2>2, <2>3
<1> HIDE DEF e, N, L
<1> QED
  BY <1>1, <1>2, <1>3, <1>4, <1>5 DEF e, N, L

LEMMA PlaceInLog ==
  ASSUME NEW log, WellFormed(log), NEW k \in DOMAIN log.ends
  PROVE  Section(log, k) \subseteq DOMAIN Lists(log)
<1>1. /\ start_idx(log, k) \in Nat /\ log.ends[k] \in Nat
      /\ log.ends[k] <= Len(Lists(log))
  BY SectionFields
<1>2. DOMAIN Lists(log) = 1..Len(Lists(log)) /\ Len(Lists(log)) \in Nat
  BY LogFields
<1> QED
  BY <1>1, <1>2 DEF Section

(* What is found is the list with the id.                                   *)
LEMMA FoundById ==
  ASSUME NEW log, WellFormed(log), NEW id, NEW n \in index_for_culistid(log, id)
  PROVE  n \in DOMAIN Lists(log) /\ Lists(log)[n].id = id
<1>1. PICK k \in DOMAIN log.ends :
        n \in Section(log, k) /\ Lists(log)[n].id = id
  BY DEF index_for_culistid, First
<1> QED
  BY <1>1, PlaceInLog

(* The application before a list shows as many lists as have lower ids.     *)
LEMMA ListsBefore ==
  ASSUME NEW log, WellFormed(log), NEW n \in DOMAIN Lists(log)
  PROVE  Cardinality({id \in Ids(log) : id < Lists(log)[n].id}) = n - 1
<1> DEFINE q == Lists(log)
           N == Len(q)
           S == 1..(n - 1)
           T == {id \in Ids(log) : id < q[n].id}
           f == [m \in S |-> q[m].id]
<1>1. /\ N \in Nat /\ DOMAIN q = 1..N
      /\ \A m \in 1..N : m \in Nat \ {0} /\ q[m].id \in Nat
      /\ \A l, m \in 1..N : q[l].id <= q[m].id <=> l <= m
  BY LogFields
<1>2. n \in 1..N /\ Ids(log) = {q[m].id : m \in 1..N}
  BY <1>1 DEF Ids
<1>3. \A m \in 1..N : q[m].id < q[n].id <=> m < n
  BY <1>1, <1>2
<1>4. S \subseteq 1..N /\ \A m \in 1..N : m \in S <=> m < n
  BY <1>1, <1>2
<1> HIDE DEF S, N, q
<1>5. T = {q[m].id : m \in S}
  BY <1>2, <1>3, <1>4
<1>6. f \in [S -> T] /\ \A t \in T : \E m \in S : f[m] = t
  BY <1>5
<1>7. \A l, m \in S : f[l] = f[m] => l = m
  <2> TAKE l, m \in S
  <2> HAVE f[l] = f[m]
  <2>1. l \in 1..N /\ m \in 1..N /\ q[l].id = q[m].id
    BY <1>4
  <2>2. q[l].id <= q[m].id /\ q[m].id <= q[l].id /\ l \in Nat /\ m \in Nat
    BY <1>1, <2>1
  <2>3. l <= m /\ m <= l
    BY <1>1, <2>1, <2>2
  <2> QED
    BY <2>2, <2>3
<1> HIDE DEF T, f
<1>8. ExistsBijection(S, T)
  BY <1>6, <1>7 DEF ExistsBijection, Bijection, Injection, Surjection, IsInjective
<1>9. IsFiniteSet(S) /\ Cardinality(S) = n - 1
  <2>1. n - 1 \in Int /\ 1 \in Int
    BY <1>1, <1>2
  <2>2. IsFiniteSet(1..(n - 1))
        /\ Cardinality(1..(n - 1)) = IF 1 > n - 1 THEN 0 ELSE (n - 1) - 1 + 1
    BY <2>1, FS_Interval
  <2> QED
    BY <1>1, <1>2, <2>2 DEF S
<1>10. Cardinality(T) = n - 1
  BY <1>8, <1>9, FS_Bijection
<1> QED
  BY <1>10 DEF T, q

----------------------------------------------------------------------------
(* The session while it runs lists. *)

Session == [started : BOOLEAN, current : Nat, last_keyframe : Int, app : Int,
            clock : Int]

LEMMA ClockedSession ==
  ASSUME NEW s \in Session, NEW time \in Int
  PROVE  LET c == Clocked(s, time) IN
         /\ c \in Session /\ c.app = s.app /\ c.current = s.current
         /\ c.started = s.started /\ time \in {c.clock, None}
<1>1. CASE time = None
  BY <1>1 DEF Clocked
<1>2. CASE time # None
  <2>1. Clocked(s, time) = [s EXCEPT !.clock = time]
    BY <1>2 DEF Clocked
  <2> QED
    BY <2>1 DEF Session
<1> QED
  BY <1>1, <1>2

LEMMA RunSession ==
  ASSUME NEW s \in Session, NEW n \in Nat, NEW times, times[n] \in Int
  PROVE  LET r == Run(s, n, times) IN
         /\ r \in Session /\ r.current = n /\ r.started = s.started
         /\ times[n] \in {r.clock, None}
         /\ r.app = IF s.app = n - 1 THEN n ELSE IF s.app = Torn THEN Torn ELSE Mixed
<1> DEFINE c == Clocked(s, times[n])
           app == IF c.app = n - 1 THEN n ELSE IF c.app = Torn THEN Torn ELSE Mixed
           r == Run(s, n, times)
<1>1. /\ c \in Session /\ c.app = s.app /\ c.started = s.started
      /\ times[n] \in {c.clock, None}
  BY ClockedSession
<1>2. app \in Int
  BY DEF Torn, Mixed
<1>3. r = [c EXCEPT !.app = app, !.current = n]
  BY DEF Run
<1>4. app = IF s.app = n - 1 THEN n ELSE IF s.app = Torn THEN Torn ELSE Mixed
  BY <1>1
<1> HIDE DEF c, app, r
<1>5. /\ r \in Session /\ r.current = n /\ r.started = c.started
      /\ r.clock = c.clock /\ r.app = app
  BY <1>1, <1>2, <1>3 DEF Session
<1> QED
  BY <1>1, <1>4, <1>5 DEF r

LEMMA RunFailsSession ==
  ASSUME NEW s \in Session, NEW n \in Nat, NEW times, times[n] \in Int
  PROVE  LET r == RunFails(s, n, times) IN
         /\ r \in Session /\ r.current = s.current /\ r.app = Torn
         /\ r.started = s.started
<1> DEFINE c == Clocked(s, times[n])
           r == RunFails(s, n, times)
<1>1. c \in Session /\ c.current = s.current /\ c.started = s.started
  BY ClockedSession
<1>2. r = [c EXCEPT !.app = Torn] /\ Torn \in Int
  BY DEF RunFails, Torn
<1> HIDE DEF c, r
<1>3. /\ r \in Session /\ r.current = c.current /\ r.app = Torn
      /\ r.started = c.started
  BY <1>1, <1>2 DEF Session
<1> QED
  BY <1>1, <1>3 DEF r

(* The loop of replay_range.                                                *)
LEMMA RunsAfter ==
  ASSUME NEW D \in SUBSET Nat, NEW times \in [D -> Int], NEW s \in Session,
         NEW lo \in Nat, NEW to \in Nat, lo <= to, (lo + 1)..to \subseteq D
  PROVE  LET after == Runs(s, lo + 1, to, times) IN
         /\ after \in [lo..to -> Session] /\ after[lo] = s
         /\ \A n \in (lo + 1)..to : after[n] = Run(after[n - 1], n, times)
<1> DEFINE step == [e \in Nat \X Session |->
                      IF e[1] \in D THEN Run(e[2], e[1], times) ELSE e[2]]
           Loop(f) ==
             f = [n \in (lo + 1 - 1)..to |->
                    IF n < lo + 1 THEN s ELSE Run(f[n - 1], n, times)]
           after == Runs(s, lo + 1, to, times)
<1>1. step \in [Nat \X Session -> Session]
  <2> SUFFICES ASSUME NEW e \in Nat \X Session, e[1] \in D
               PROVE  Run(e[2], e[1], times) \in Session
    OBVIOUS
  <2>1. e[2] \in Session /\ e[1] \in Nat /\ times[e[1]] \in Int
    OBVIOUS
  <2> QED
    BY <2>1, RunSession
<1>2. PICK f \in [lo..to -> Session] :
        f[lo] = s /\ \A n \in (lo + 1)..to : f[n] = step[<<n, f[n - 1]>>]
  <2> DEFINE S == Session
  <2> HIDE DEF step, S
  <2>1. s \in S /\ step \in [Nat \X S -> S]
    BY <1>1 DEF S
  <2>2. PICK f : IsLoop(f, S, s, step, lo, to)
    BY <2>1, LoopExists
  <2> QED
    BY <2>2 DEF S, IsLoop
<1>3. ASSUME NEW n \in lo..to
      PROVE  f[n] = IF n < lo + 1 THEN s ELSE Run(f[n - 1], n, times)
  <2>2. CASE n <= lo
    BY <1>2, <2>2
  <2>3. CASE ~(n <= lo)
    <3>1. n \in (lo + 1)..to /\ n \in D /\ n \in Nat /\ n - 1 \in lo..to /\ ~(n < lo + 1)
      BY <2>3
    <3>2. f[n - 1] \in Session
      BY <1>2, <3>1
    <3>3. step[<<n, f[n - 1]>>] = Run(f[n - 1], n, times)
      BY <3>1, <3>2
    <3> QED
      BY <1>2, <3>1, <3>3
  <2> QED
    BY <2>2, <2>3
<1>4. Loop(f)
  <2>1. lo + 1 - 1 = lo
    OBVIOUS
  <2> QED
    BY <1>2, <1>3, <2>1
<1>5. after = CHOOSE g : Loop(g)
  BY DEF Runs
<1> HIDE DEF Loop, after
<1>6. Loop(after)
  BY <1>4, <1>5
<1>7. after = [n \in lo..to |-> IF n < lo + 1 THEN s ELSE Run(after[n - 1], n, times)]
  BY <1>6 DEF Loop
<1>8. after[lo] = s /\ \A n \in (lo + 1)..to : after[n] = Run(after[n - 1], n, times)
  BY <1>7
<1>9. \A n \in lo..to : after[n] \in Session
  <2> DEFINE T == {n \in lo..to : after[n] \notin Session}
  <2> SUFFICES ASSUME T # {} PROVE FALSE
    OBVIOUS
  <2>1. T \in SUBSET Nat
    OBVIOUS
  <2>2. PICK n \in T : \A m \in T : n <= m
    <3> HIDE DEF T
    <3> QED
      BY <2>1, Smallest
  <2>3. n # lo
    BY <1>8, <2>2
  <2>4. n \in (lo + 1)..to /\ n - 1 \in lo..to /\ n \in Nat /\ n - 1 < n
    BY <2>2, <2>3
  <2>5. after[n - 1] \in Session
    <3>1. n - 1 \notin T
      BY <2>2, <2>4
    <3> QED
      BY <2>4, <3>1
  <2>6. after[n] \in Session
    BY <1>8, <2>4, <2>5, RunSession
  <2> QED
    BY <2>2, <2>6
<1>10. after \in [lo..to -> Session]
  BY <1>7, <1>9
<1> QED
  BY <1>8, <1>10 DEF after

(* A session that shows the list before the range shows each of its lists,  *)
(* and one in pieces stays so.                                              *)
LEMMA RunsShow ==
  ASSUME NEW D \in SUBSET Nat, NEW times \in [D -> Int], NEW s \in Session,
         NEW lo \in Nat, NEW to \in Nat, lo <= to, (lo + 1)..to \subseteq D,
         s.app \in {lo, Torn}, NEW n \in lo..to
  PROVE  Runs(s, lo + 1, to, times)[n].app = IF s.app = Torn THEN Torn ELSE n
<1> DEFINE after == Runs(s, lo + 1, to, times)
           App(k) == IF s.app = Torn THEN Torn ELSE k
           T == {k \in lo..to : after[k].app # App(k)}
<1>1. /\ after \in [lo..to -> Session] /\ after[lo] = s
      /\ \A k \in (lo + 1)..to : after[k] = Run(after[k - 1], k, times)
  BY RunsAfter
<1> HIDE DEF after
<1> SUFFICES ASSUME T # {} PROVE FALSE
  BY DEF after
<1>2. T \in SUBSET Nat
  OBVIOUS
<1>3. PICK k \in T : \A m \in T : k <= m
  <2> HIDE DEF T
  <2> QED
    BY <1>2, Smallest
<1>4. k # lo
  BY <1>1, <1>3
<1>5. k \in (lo + 1)..to /\ k - 1 \in lo..to /\ k \in Nat /\ k - 1 < k /\ k \in D
  BY <1>3, <1>4
<1>6. after[k - 1].app = App(k - 1)
  <2>1. k - 1 \notin T
    BY <1>3, <1>5
  <2> QED
    BY <1>5, <2>1
<1>7. /\ after[k - 1] \in Session /\ after[k] = Run(after[k - 1], k, times)
      /\ times[k] \in Int
  BY <1>1, <1>5
<1>8. after[k].app = IF after[k - 1].app = k - 1 THEN k
                     ELSE IF after[k - 1].app = Torn THEN Torn ELSE Mixed
  BY <1>5, <1>7, RunSession
<1>9. after[k].app = App(k)
  <2>1. k - 1 # Torn
    BY <1>5 DEF Torn
  <2> HIDE DEF T
  <2> QED
    BY <1>6, <1>8, <2>1
<1> QED
  BY <1>3, <1>9

----------------------------------------------------------------------------
(* What a range of lists, and then a whole jump, leaves behind. *)

\* o is an outcome of the lists after lo, up to to, run on s.
Ranged(o, s, lo, to, times) ==
  /\ o.session \in Session /\ o.session.started = s.started
  /\ \/ /\ o.ok = TRUE /\ o.ran = (lo + 1)..to /\ o.session.current = to
        /\ o.session.app = IF s.app = Torn THEN Torn ELSE to
        /\ times[to] \in {o.session.clock, None}
     \/ /\ o.ok = FALSE /\ o.session.app = Torn
        /\ \E n \in (lo + 1)..to :
             /\ o.ran = (lo + 1)..(n - 1)
             /\ o.session.current = IF n = lo + 1 THEN s.current ELSE n - 1

LEMMA RangeOutcome ==
  ASSUME NEW D \in SUBSET Nat, NEW times \in [D -> Int], NEW s \in Session,
         NEW lo \in Nat, NEW to \in Nat, lo < to, (lo + 1)..to \subseteq D,
         s.app \in {lo, Torn}, NEW o \in replay_range(s, lo + 1, to, times)
  PROVE  Ranged(o, s, lo, to, times)
<1> DEFINE after == Runs(s, lo + 1, to, times)
<1>1. /\ after \in [lo..to -> Session] /\ after[lo] = s
      /\ \A n \in (lo + 1)..to : after[n] = Run(after[n - 1], n, times)
  BY RunsAfter
<1>2. \A n \in lo..to : after[n].app = IF s.app = Torn THEN Torn ELSE n
  BY RunsShow
<1>a. \/ o = Outcome(after[to], (lo + 1)..to, TRUE)
      \/ \E n \in (lo + 1)..to :
           o = Outcome(RunFails(after[n - 1], n, times), (lo + 1)..(n - 1), FALSE)
  BY DEF replay_range
<1> HIDE DEF after
<1>3. ASSUME NEW n \in (lo + 1)..to
      PROVE  /\ n \in lo..to /\ n - 1 \in lo..to /\ n \in Nat /\ n - 1 \in Nat
             /\ times[n] \in Int
             /\ after[n] \in Session /\ after[n].current = n
             /\ times[n] \in {after[n].clock, None}
             /\ after[n].started = after[n - 1].started
  <2>1. n \in lo..to /\ n - 1 \in lo..to /\ n \in Nat /\ n - 1 \in Nat /\ times[n] \in Int
    OBVIOUS
  <2>2. after[n - 1] \in Session /\ after[n] = Run(after[n - 1], n, times)
    BY <1>1, <2>1
  <2> QED
    BY <2>1, <2>2, RunSession
<1>4. \A n \in lo..to : after[n].started = s.started
  <2> DEFINE T == {n \in lo..to : after[n].started # s.started}
  <2> SUFFICES ASSUME T # {} PROVE FALSE
    OBVIOUS
  <2>1. T \in SUBSET Nat
    OBVIOUS
  <2>2. PICK n \in T : \A m \in T : n <= m
    <3> HIDE DEF T
    <3> QED
      BY <2>1, Smallest
  <2>3. n # lo
    BY <1>1, <2>2
  <2>4. n \in (lo + 1)..to /\ n - 1 \in lo..to /\ n - 1 < n
    BY <2>2, <2>3
  <2>5. after[n - 1].started = s.started
    BY <2>2, <2>4
  <2> QED
    BY <1>3, <2>2, <2>4, <2>5
<1>5. CASE o = Outcome(after[to], (lo + 1)..to, TRUE)
  <2>1. to \in (lo + 1)..to /\ to \in lo..to
    OBVIOUS
  <2>2. o.session = after[to] /\ o.ran = (lo + 1)..to /\ o.ok = TRUE
    BY <1>5 DEF Outcome
  <2> QED
    BY <1>2, <1>3, <1>4, <2>1, <2>2 DEF Ranged
<1>6. ASSUME NEW n \in (lo + 1)..to,
             o = Outcome(RunFails(after[n - 1], n, times), (lo + 1)..(n - 1), FALSE)
      PROVE  Ranged(o, s, lo, to, times)
  <2>1. /\ n - 1 \in lo..to /\ n \in Nat /\ times[n] \in Int
        /\ after[n - 1] \in Session
    BY <1>1, <1>3
  <2>2. /\ o.session \in Session /\ o.session.current = after[n - 1].current
        /\ o.session.app = Torn /\ o.session.started = after[n - 1].started
        /\ o.ran = (lo + 1)..(n - 1) /\ o.ok = FALSE
    <3>1. /\ o.session = RunFails(after[n - 1], n, times)
          /\ o.ran = (lo + 1)..(n - 1) /\ o.ok = FALSE
      BY <1>6 DEF Outcome
    <3> QED
      BY <2>1, <3>1, RunFailsSession
  <2>3. after[n - 1].current = IF n = lo + 1 THEN s.current ELSE n - 1
    <3>1. CASE n = lo + 1
      <4>1. n - 1 = lo
        BY <3>1
      <4> QED
        BY <1>1, <3>1, <4>1
    <3>2. CASE n # lo + 1
      <4>1. n - 1 \in (lo + 1)..to
        BY <3>2
      <4> QED
        BY <1>3, <3>2, <4>1
    <3> QED
      BY <3>1, <3>2
  <2> QED
    BY <1>4, <2>1, <2>2, <2>3 DEF Ranged
<1> QED
  BY <1>a, <1>5, <1>6

LEMMA RestoredSession ==
  ASSUME NEW log, WellFormed(log), NEW s \in Session, NEW keyframe \in log.keyframes
  PROVE  LET r == Restored(log, s, keyframe) IN
         /\ r.current = s.current /\ r.started = s.started
         /\ \A p \in DOMAIN Lists(log) :
              Lists(log)[p].id = keyframe.culistid => r \in Session /\ r.app = p - 1
         /\ [r EXCEPT !.app = Torn] \in Session
<1> DEFINE app == Cardinality({id \in Ids(log) : id < keyframe.culistid})
           r == Restored(log, s, keyframe)
           id == keyframe.culistid
           ts == keyframe.timestamp
<1>1. id \in Int /\ ts \in Int
  BY LogFields
<1>2. r = [s EXCEPT !.app = app, !.clock = ts, !.last_keyframe = id]
  BY DEF Restored
<1>3. Torn \in Int
  BY DEF Torn
<1>4. ASSUME NEW p \in DOMAIN Lists(log), Lists(log)[p].id = keyframe.culistid
      PROVE  app = p - 1 /\ app \in Int
  <2>1. app = p - 1
    BY <1>4, ListsBefore
  <2>2. p \in Nat
    BY LogFields
  <2> QED
    BY <2>1, <2>2
<1> HIDE DEF app, r, id, ts
<1>5. r.current = s.current /\ r.started = s.started /\ r.app = app
  BY <1>2 DEF Session
<1>6. ASSUME NEW a \in Int
      PROVE  [s EXCEPT !.app = a, !.clock = ts, !.last_keyframe = id] \in Session
  BY <1>1 DEF Session
<1>7. [r EXCEPT !.app = Torn]
        = [s EXCEPT !.app = Torn, !.clock = ts, !.last_keyframe = id]
  BY <1>2 DEF Session
<1>8. (app \in Int => r \in Session) /\ [r EXCEPT !.app = Torn] \in Session
  BY <1>2, <1>3, <1>6, <1>7
<1> QED
  BY <1>4, <1>5, <1>8 DEF r

LEMMA MaxOfRange ==
  ASSUME NEW lo \in Int, NEW hi \in Int, lo <= hi
  PROVE  lo..hi # {} /\ Max(lo..hi) = hi
<1>1. hi \in lo..hi /\ \A y \in lo..hi : hi >= y
  OBVIOUS
<1>2. \A x \in lo..hi : (\A y \in lo..hi : x >= y) => x = hi
  OBVIOUS
<1> QED
  BY <1>1, <1>2 DEF Max

\* The jump stopped on its way: short of the list to, and not before it began.
Short(o, s, to) ==
  /\ o.session.app = Torn /\ o.session.current < to
  /\ s.current < to => s.current < o.session.current

\* o is an outcome of a jump of s to the list to.  The session shows what it
\* stands at; what was run last is what it stands at.
Arrived(o, s, to, times, L) ==
  /\ o.session \in Session /\ o.session.current \in 0..L
  /\ o.session.app # Mixed /\ Shows(o.session, times)
  /\ o.ok \in BOOLEAN
  /\ o.ok => o.session.current = to
  /\ ~o.ok => o.session.current = s.current \/ Short(o, s, to)
  /\ o.session.app # Torn =>
       \/ o.ran # {} /\ Max(o.ran) = o.session.current
       \/ o.ran = {} /\ o.session.current = s.current /\ o.session.app = s.app

\* A jump by one list runs it, or nothing.
Stepped(o, s, to) ==
  IF o.ok THEN o.ran = {to} ELSE o.ran = {} /\ o.session.current = s.current

LEMMA RangedArrives ==
  ASSUME NEW s, NEW r, NEW o, NEW times, NEW lo \in Nat, NEW to \in Nat,
         NEW L \in Nat, lo < to, to <= L, s.current \in 0..L,
         s.current < to => s.current <= lo,
         r.current = s.current, r.app \in {lo, Torn},
         Ranged(o, r, lo, to, times)
  PROVE  Arrived(o, s, to, times, L) /\ (lo = to - 1 => Stepped(o, s, to))
<1>0. o.session \in Session
  BY DEF Ranged
<1>1. CASE /\ o.ok = TRUE /\ o.ran = (lo + 1)..to /\ o.session.current = to
           /\ o.session.app = (IF r.app = Torn THEN Torn ELSE to)
           /\ times[to] \in {o.session.clock, None}
  <2>1. o.ran # {} /\ Max(o.ran) = to
    BY <1>1, MaxOfRange
  <2>2. o.session.app # Mixed /\ to \in 0..L
    BY <1>1 DEF Torn, Mixed
  <2>3. Shows(o.session, times)
    BY <1>1 DEF Shows
  <2>4. lo = to - 1 => o.ran = {to}
    BY <1>1
  <2> QED
    BY <1>0, <1>1, <2>1, <2>2, <2>3, <2>4 DEF Arrived, Stepped
<1>2. ASSUME NEW n \in (lo + 1)..to, o.ok = FALSE, o.session.app = Torn,
             o.ran = (lo + 1)..(n - 1),
             o.session.current = IF n = lo + 1 THEN s.current ELSE n - 1
      PROVE  Arrived(o, s, to, times, L) /\ (lo = to - 1 => Stepped(o, s, to))
  <2>1. o.session.current \in 0..L
    <3>1. CASE n = lo + 1
      BY <1>2, <3>1
    <3>2. CASE n # lo + 1
      BY <1>2, <3>2
    <3> QED
      BY <3>1, <3>2
  <2>2. lo = to - 1 => o.ran = {} /\ o.session.current = s.current
    <3> HAVE lo = to - 1
    <3>1. n = lo + 1
      OBVIOUS
    <3>2. (lo + 1)..(n - 1) = {}
      BY <3>1
    <3> QED
      BY <1>2, <3>1, <3>2
  <2>3. Torn # Mixed
    BY DEF Torn, Mixed
  <2>4. o.session.current = s.current \/ Short(o, s, to)
    <3>1. CASE n = lo + 1
      BY <1>2, <3>1
    <3>2. CASE n # lo + 1
      <4>1. n - 1 < to /\ lo < n - 1
        BY <3>2
      <4>2. s.current < to => s.current < n - 1
        BY <4>1
      <4> QED
        BY <1>2, <3>2, <4>1, <4>2 DEF Short
    <3> QED
      BY <3>1, <3>2
  <2> QED
    BY <1>0, <1>2, <2>1, <2>2, <2>3, <2>4 DEF Arrived, Stepped, Shows
<1> QED
  BY <1>1, <1>2 DEF Ranged

(* Going back starts at the list of a keyframe, at or before the target,    *)
(* on a state that shows the lists before it.                               *)
LEMMA RewindArrives ==
  ASSUME NEW log, WellFormed(log), NEW times \in [DOMAIN Lists(log) -> Int],
         NEW s \in Session, s.current \in 0..Len(Lists(log)), s.app # Mixed,
         Shows(s, times), NEW to \in DOMAIN Lists(log), s.current # to,
         s.current < to => s.current = 0,
         NEW o \in Rewind(log, s, to, times)
  PROVE  /\ Arrived(o, s, to, times, Len(Lists(log)))
         /\ to = 1 => Stepped(o, s, to)
<1> DEFINE L == Len(Lists(log))
           near == nearest_keyframe(log, Lists(log)[to].id)
           start(k) == index_for_culistid(log, k.culistid)
           torn(t) == Outcome([t EXCEPT !.app = Torn], {}, FALSE)
           Goal == /\ Arrived(o, s, to, times, L)
                   /\ to = 1 => Stepped(o, s, to)
<1>1. /\ L \in Nat /\ DOMAIN Lists(log) = 1..L /\ to \in Nat /\ to <= L
      /\ \A m, n \in DOMAIN Lists(log) :
           Lists(log)[m].id <= Lists(log)[n].id <=> m <= n
  BY LogFields
<1>2. \A k \in near : k \in log.keyframes /\ k.culistid <= Lists(log)[to].id
  BY DEF nearest_keyframe
<1>3. ASSUME NEW z \in Session, z.current = s.current, z.app = Torn,
             o = Outcome(z, {}, FALSE)
      PROVE  Goal
  <2>0. Torn # Mixed
    BY DEF Torn, Mixed
  <2>1. o.session = z /\ o.ran = {} /\ o.ok = FALSE
    BY <1>3 DEF Outcome
  <2> QED
    BY <1>3, <2>0, <2>1 DEF Arrived, Stepped, Shows
<1>4. ASSUME o = Outcome(s, {}, FALSE) PROVE Goal
  <2>1. o.session = s /\ o.ran = {} /\ o.ok = FALSE
    BY <1>4 DEF Outcome
  <2> QED
    BY <2>1 DEF Arrived, Stepped
<1>5. ASSUME o = torn(s) PROVE Goal
  <2> DEFINE z == [s EXCEPT !.app = Torn]
  <2>1. Torn \in Int
    BY DEF Torn
  <2>2. z \in Session /\ z.app = Torn /\ z.current = s.current
    BY <2>1 DEF Session
  <2>3. o = Outcome(z, {}, FALSE)
    BY <1>5
  <2> HIDE DEF Goal, z
  <2> QED
    BY <1>3, <2>2, <2>3
<1>6. ASSUME NEW k \in near, o = torn(Restored(log, s, k))
      PROVE  Goal
  <2> DEFINE t == Restored(log, s, k)
             z == [t EXCEPT !.app = Torn]
  <2>1. t.current = s.current /\ z \in Session
    BY <1>2, RestoredSession
  <2>2. z.app = Torn /\ z.current = t.current
    BY <1>2 DEF Restored, Session
  <2>3. o = Outcome(z, {}, FALSE)
    BY <1>6
  <2> HIDE DEF Goal, t, z
  <2> QED
    BY <1>3, <2>1, <2>2, <2>3
<1>7. ASSUME NEW k \in near, NEW p \in DOMAIN Lists(log), p \in start(k),
             o \in replay_range(Restored(log, s, k), p, to, times)
      PROVE  Goal
  <2> DEFINE r == Restored(log, s, k)
             lo == p - 1
  <2>1. Lists(log)[p].id = k.culistid
    BY <1>7, FoundById
  <2>2. p <= to /\ p \in Nat /\ lo \in Nat /\ lo < to /\ p = lo + 1
    <3>1. p <= to
      BY <1>1, <1>2, <2>1
    <3>2. p \in 1..L
      BY <1>1
    <3> QED
      BY <1>1, <3>1, <3>2
  <2>3. r \in Session /\ r.app = lo /\ r.current = s.current
    BY <1>2, <2>1, RestoredSession
  <2>4. DOMAIN Lists(log) \in SUBSET Nat /\ (lo + 1)..to \subseteq DOMAIN Lists(log)
    BY <1>1, <2>2
  <2>5. o \in replay_range(r, lo + 1, to, times)
    BY <1>7, <2>2
  <2> HIDE DEF r, lo
  <2>6. Ranged(o, r, lo, to, times)
    BY <1>1, <2>2, <2>3, <2>4, <2>5, RangeOutcome
  <2>7. Arrived(o, s, to, times, L) /\ (lo = to - 1 => Stepped(o, s, to))
    <3>1. s.current < to => s.current <= lo
      BY <2>2
    <3> QED
      BY <1>1, <2>2, <2>3, <2>6, <3>1, RangedArrives
  <2>8. to = 1 => lo = to - 1
    BY <2>2
  <2> QED
    BY <2>7, <2>8
<1>8. \/ o = Outcome(s, {}, FALSE) \/ o = torn(s)
      \/ \E k \in near : o = torn(Restored(log, s, k))
      \/ \E k \in near : \E p \in DOMAIN Lists(log) :
           p \in start(k) /\ o \in replay_range(Restored(log, s, k), p, to, times)
  BY DEF Rewind
<1> HIDE DEF Goal, torn, near, start
<1>9. Goal
  <2>1. CASE \E k \in near : o = torn(Restored(log, s, k))
    BY <1>6, <2>1
  <2>2. CASE \E k \in near : \E p \in DOMAIN Lists(log) :
               p \in start(k) /\ o \in replay_range(Restored(log, s, k), p, to, times)
    BY <1>7, <2>2
  <2>3. CASE o = Outcome(s, {}, FALSE)
    BY <1>4, <2>3
  <2>4. CASE o = torn(s)
    BY <1>5, <2>4
  <2> QED
    BY <1>8, <2>1, <2>2, <2>3, <2>4
<1> QED
  BY <1>9 DEF Goal

(* Whatever a jump meets, the session shows the list it stands at.          *)
LEMMA GotoArrives ==
  ASSUME NEW log, WellFormed(log), NEW times \in [DOMAIN Lists(log) -> Int],
         NEW s \in Session, s.current \in 0..Len(Lists(log)), s.app # Mixed,
         Shows(s, times), NEW to \in DOMAIN Lists(log),
         NEW o \in goto_index(log, s, to, times)
  PROVE  /\ Arrived(o, s, to, times, Len(Lists(log)))
         /\ s.current = to - 1 => Stepped(o, s, to)
<1> DEFINE L == Len(Lists(log))
           r == [s EXCEPT !.started = TRUE]
           Goal(t) == /\ Arrived(o, t, to, times, L)
                      /\ t.current = to - 1 => Stepped(o, t, to)
<1>1. L \in Nat /\ DOMAIN Lists(log) = 1..L /\ to \in Nat /\ to <= L /\ to > 0
  BY LogFields
<1>2. /\ r \in Session /\ r.current = s.current /\ r.app = s.app
      /\ r.clock = s.clock
  BY DEF Session
<1>3. Shows(r, times)
  BY <1>2 DEF Shows
<1>4. CASE o = Outcome(s, {}, FALSE)
  <2>1. o.session = s /\ o.ran = {} /\ o.ok = FALSE
    BY <1>4 DEF Outcome
  <2> QED
    BY <2>1 DEF Arrived, Stepped
<1>a. \/ o = Outcome(s, {}, FALSE)
      \/ s.current = to /\ o = Outcome(r, {}, TRUE)
      \/ s.current # 0 /\ to > s.current /\ o \in replay_range(r, s.current + 1, to, times)
      \/ s.current # to /\ (s.current = 0 \/ ~(to > s.current))
           /\ o \in Rewind(log, r, to, times)
  <2>1. r.current = s.current
    BY <1>2
  <2> QED
    BY <2>1 DEF goto_index, NextAfter
<1> HIDE DEF r, L
<1>5. CASE s.current = to /\ o = Outcome(r, {}, TRUE)
  <2>1. o.session = r /\ o.ran = {} /\ o.ok = TRUE
    BY <1>5 DEF Outcome
  <2>2. to # to - 1 /\ to \in 0..L
    BY <1>1
  <2> QED
    BY <1>2, <1>3, <1>5, <2>1, <2>2 DEF Arrived, Stepped
<1>6. CASE s.current # 0 /\ to > s.current /\ o \in replay_range(r, s.current + 1, to, times)
  <2> DEFINE lo == s.current
  <2>1. lo \in Nat /\ lo < to
    BY <1>6, <1>1 DEF Session
  <2>2. r.app \in {lo, Torn}
    BY <1>2, <1>3, <1>6 DEF Shows
  <2>3. DOMAIN Lists(log) \in SUBSET Nat /\ (lo + 1)..to \subseteq DOMAIN Lists(log)
    BY <1>1, <2>1
  <2>4. o \in replay_range(r, lo + 1, to, times)
    BY <1>6
  <2>5. r.current = s.current /\ lo = s.current
    BY <1>2
  <2> HIDE DEF lo
  <2>6. Ranged(o, r, lo, to, times)
    BY <1>1, <1>2, <2>1, <2>2, <2>3, <2>4, RangeOutcome
  <2>7. s.current \in 0..L
    BY DEF L
  <2>8. Arrived(o, s, to, times, L) /\ (lo = to - 1 => Stepped(o, s, to))
    <3>1. s.current < to => s.current <= lo
      BY <2>1, <2>5
    <3> QED
      BY <1>1, <2>1, <2>2, <2>5, <2>6, <2>7, <3>1, RangedArrives
  <2> QED
    BY <2>5, <2>8 DEF L
<1>7. CASE /\ s.current # to /\ (s.current = 0 \/ ~(to > s.current))
           /\ o \in Rewind(log, r, to, times)
  <2>1. Arrived(o, r, to, times, L) /\ (to = 1 => Stepped(o, r, to))
    <3>1. r.current \in 0..Len(Lists(log)) /\ r.current # to /\ r.app # Mixed
      BY <1>2, <1>7
    <3>2. o \in Rewind(log, r, to, times)
      BY <1>7
    <3>3. r.current < to => r.current = 0
      BY <1>2, <1>7
    <3> QED
      BY <1>2, <1>3, <3>1, <3>2, <3>3, RewindArrives DEF L
  <2>2. Arrived(o, s, to, times, L) /\ (to = 1 => Stepped(o, s, to))
    BY <1>2, <2>1 DEF Arrived, Stepped, Short
  <2>3. s.current = to - 1 => to = 1
    <3>1. s.current \in Nat
      BY DEF Session
    <3> QED
      BY <1>1, <1>7, <3>1
  <2> QED
    BY <2>2, <2>3 DEF L
<1>8. Goal(s)
  BY <1>a, <1>4, <1>5, <1>6, <1>7 DEF L
<1> QED
  BY <1>8 DEF L

----------------------------------------------------------------------------
(* The debugger. *)

DebugInv ==
  /\ recording \in Recordings
  /\ debug \in Session /\ debug.current \in 0..Len(Lists(recording))
  /\ debug.app # Mixed
  /\ ShowsTheRecording

LEMMA NewSessionFields ==
  /\ NewSession \in Session /\ NewSession.current = 0 /\ NewSession.app # Mixed
  /\ NewSession.app = 0
BY DEF NewSession, Session, Mixed, None

LEMMA DebugInitInv == DebugInit => DebugInv
<1> SUFFICES ASSUME DebugInit PROVE DebugInv
  OBVIOUS
<1>1. recording \in Recordings /\ debug = NewSession /\ WellFormed(recording)
  BY DebugAssumption DEF DebugInit
<1>2. Len(Lists(recording)) \in Nat
  BY <1>1, LogFields
<1>3. debug \in Session /\ debug.current = 0 /\ debug.app # Mixed
  BY <1>1, NewSessionFields
<1> QED
  BY <1>1, <1>2, <1>3 DEF DebugInv, ShowsTheRecording, Shows

\* What a jump comes to.
Jumped(op, arg, targets) ==
  /\ call'.op = op /\ call'.arg = arg /\ recording' = recording
  /\ call'.ok => debug'.current \in targets
  /\ ~call'.ok /\ debug'.current # debug.current =>
       /\ debug'.app = Torn
       /\ \E to \in targets :
            /\ debug'.current < to
            /\ debug.current < to => debug.current < debug'.current

LEMMA JumpInv ==
  ASSUME DebugInv, NEW op, NEW arg, NEW targets \in SUBSET DOMAIN Lists(recording),
         Jump(op, arg, targets)
  PROVE  DebugInv' /\ Jumped(op, arg, targets)
<1> DEFINE L == Len(Lists(recording))
           D == DOMAIN Lists(recording)
<1>1. WellFormed(recording) /\ recording' = recording
  BY DebugAssumption DEF DebugInv, Jump
<1>2. /\ L \in Nat /\ D = 1..L
      /\ \A n \in D : n \in Nat /\ Lists(recording)[n].ts \in Int
  BY <1>1, LogFields
<1>3. stamps \in [D -> Int] /\ stamps' = stamps
  BY <1>1, <1>2 DEF stamps
<1>4. CASE targets = {} /\ call' = [op |-> op, arg |-> arg, ok |-> FALSE]
             /\ UNCHANGED <<debug, snapshot>>
  <2>1. DebugInv'
    BY <1>1, <1>3, <1>4 DEF DebugInv, ShowsTheRecording
  <2> QED
    BY <1>1, <1>4, <2>1 DEF Jumped
<1>5. ASSUME NEW to \in targets, NEW o \in goto_index(recording, debug, to, stamps),
             debug' = o.session, call' = [op |-> op, arg |-> arg, ok |-> o.ok],
             \/ snapshot' = IdRun(o.ran, snapshot)
             \/ ~o.ok /\ o.session.app = Torn /\ snapshot' = None
      PROVE  DebugInv' /\ Jumped(op, arg, targets)
  <2>1. Arrived(o, debug, to, stamps, L)
    <3>1. to \in DOMAIN Lists(recording) /\ Shows(debug, stamps)
      BY DEF DebugInv, ShowsTheRecording
    <3> QED
      BY <1>1, <1>3, <3>1, GotoArrives DEF DebugInv
  <2>2. debug' \in Session /\ debug'.current \in 0..L /\ debug'.app # Mixed
    BY <1>5, <2>1 DEF Arrived
  <2>3. Shows(debug', stamps)
    BY <1>5, <2>1 DEF Arrived
  <2>4. ASSUME debug'.current # 0, debug'.app # Torn
        PROVE  snapshot' = Lists(recording)[debug'.current].id
    <3>1. snapshot' = IdRun(o.ran, snapshot)
      BY <1>5, <2>4
    <3>2. CASE o.ran # {} /\ Max(o.ran) = debug'.current
      BY <3>1, <3>2 DEF IdRun
    <3>3. CASE o.ran = {} /\ debug'.current = debug.current /\ debug'.app = debug.app
      BY <2>4, <3>1, <3>3 DEF IdRun, DebugInv, ShowsTheRecording
    <3> QED
      BY <1>5, <2>1, <2>4, <3>2, <3>3 DEF Arrived
  <2>5. ShowsTheRecording'
    BY <1>1, <1>3, <2>3, <2>4 DEF ShowsTheRecording, Shows
  <2>6. DebugInv'
    BY <1>1, <2>2, <2>5 DEF DebugInv
  <2>7. /\ o.ok => debug'.current = to
        /\ ~o.ok => \/ debug'.current = debug.current
                    \/ /\ debug'.app = Torn /\ debug'.current < to
                       /\ debug.current < to => debug.current < debug'.current
    BY <1>5, <2>1 DEF Arrived, Short
  <2> QED
    BY <1>1, <1>5, <2>6, <2>7 DEF Jumped
<1> QED
  BY <1>4, <1>5 DEF Jump

LEMMA FoundByTime ==
  ASSUME NEW log, WellFormed(log), NEW ts, NEW n \in index_for_time(log, ts)
  PROVE  \E k \in DOMAIN log.ends :
           /\ k \in find_section_for_time(log, ts)
           /\ n \in First(Late(log, k, ts))
           /\ n \in Section(log, k) /\ n \in DOMAIN Lists(log)
<1>1. PICK k \in find_section_for_time(log, ts) : n \in First(Late(log, k, ts))
  BY DEF index_for_time
<1>2. k \in DOMAIN log.ends
  <2>1. k \in SectionStarting(log, ts) => k \in DOMAIN log.ends
    BY DEF SectionStarting, First
  <2>2. log.ends # <<>> => 1 \in DOMAIN log.ends
    BY SectionFields
  <2>3. log.ends # <<>> /\ k \in SectionAround(log, ts) => k \in DOMAIN log.ends
    BY <2>2 DEF SectionAround, First
  <2>4. k \in InLastSection(log, ts) => k \in DOMAIN log.ends
    <3>1. DOMAIN log.ends = 1..Len(log.ends) /\ Len(log.ends) \in Nat
      BY SectionFields
    <3> QED
      BY <3>1 DEF InLastSection
  <2> QED
    BY <1>1, <2>1, <2>3, <2>4 DEF find_section_for_time
<1>3. n \in Section(log, k)
  BY <1>1 DEF First, Late, Stamped
<1> QED
  BY <1>1, <1>2, <1>3, PlaceInLog

(* The jumps of the debugger, each to one of its targets.                   *)
LEMMA DebugNextInv ==
  ASSUME DebugInv, DebugNext
  PROVE  /\ DebugInv'
         /\ \/ \E id : Jumped("cl", id, index_for_culistid(recording, id))
            \/ \E ts \in Times : Jumped("time", ts, index_for_time(recording, ts))
            \/ \E delta \in Int :
                 Jumped("step", delta, {n \in DOMAIN Lists(recording) :
                                 debug.current # 0 /\ n = debug.current + delta})
<1>0. WellFormed(recording)
  BY DebugAssumption DEF DebugInv
<1>1. CASE GotoCl
  <2>1. PICK id : Jump("cl", id, index_for_culistid(recording, id))
    BY <1>1 DEF GotoCl
  <2>2. index_for_culistid(recording, id) \in SUBSET DOMAIN Lists(recording)
    BY <1>0, FoundById
  <2> QED
    BY <2>1, <2>2, JumpInv
<1>2. CASE GotoTime
  <2>1. PICK ts \in Times : Jump("time", ts, index_for_time(recording, ts))
    BY <1>2 DEF GotoTime
  <2>2. index_for_time(recording, ts) \in SUBSET DOMAIN Lists(recording)
    BY <1>0, FoundByTime
  <2> QED
    BY <2>1, <2>2, JumpInv
<1>3. CASE StepBy
  <2> DEFINE T(d) == {n \in DOMAIN Lists(recording) :
                        debug.current # 0 /\ n = debug.current + d}
  <2>1. PICK delta \in Int : Jump("step", delta, T(delta))
    BY <1>3 DEF StepBy
  <2>2. T(delta) \in SUBSET DOMAIN Lists(recording)
    OBVIOUS
  <2>3. DebugInv' /\ Jumped("step", delta, T(delta))
    BY <2>1, <2>2, JumpInv
  <2> QED
    BY <2>3
<1> QED
  BY <1>1, <1>2, <1>3 DEF DebugNext

(* However the user of the debugger got there, and whatever failed on the   *)
(* way, application, clock and runtime bytes are those of the list at the   *)
(* cursor.                                                                  *)
THEOREM ShowsRecording == DebugSpec => []ShowsTheRecording
<1>1. DebugInv /\ UNCHANGED debug_vars => DebugInv'
  BY DEF DebugInv, debug_vars, ShowsTheRecording, stamps
<1>2. DebugInv => ShowsTheRecording
  BY DEF DebugInv
<1> QED
  BY <1>1, <1>2, DebugInitInv, DebugNextInv, PTL DEF DebugSpec

----------------------------------------------------------------------------
(* Where jumps end. *)

(* A list is in one section.                                                *)
LEMMA InSection ==
  ASSUME WellFormed(recording), NEW n \in DOMAIN Lists(recording)
  PROVE  /\ SectionOf(n) \in DOMAIN recording.ends
         /\ n \in Section(recording, SectionOf(n))
         /\ \A k \in DOMAIN recording.ends :
              n \in Section(recording, k) => k = SectionOf(n)
<1> DEFINE e == recording.ends
           from(k) == start_idx(recording, k)
           T == {k \in DOMAIN e : n <= e[k]}
<1>1. /\ n \in Nat \ {0} /\ n <= Len(Lists(recording)) /\ Len(Lists(recording)) \in Nat
  BY LogFields
<1>2. /\ Len(e) \in Nat /\ DOMAIN e = 1..Len(e)
      /\ \A k \in DOMAIN e : k \in Nat \ {0} /\ e[k] \in Nat /\ from(k) \in Nat
      /\ \A j, k \in DOMAIN e : j < k => e[j] <= from(k)
  BY SectionFields
<1>3. T # {}
  <2>1. Lists(recording) # <<>>
    BY <1>1
  <2>2. Len(e) \in DOMAIN e /\ e[Len(e)] = Len(Lists(recording))
    BY <2>1, SectionFields
  <2> QED
    BY <1>1, <2>2
<1>4. PICK k \in T : \A j \in T : k <= j
  <2> T \in SUBSET Nat
    BY <1>2
  <2> HIDE DEF T
  <2> QED
    BY <1>3, Smallest
<1>5. k \in DOMAIN e /\ n <= e[k] /\ k \in Nat \ {0}
  BY <1>2, <1>4
<1>6. from(k) < n
  <2>1. CASE k = 1
    BY <1>1, <2>1 DEF start_idx
  <2>2. CASE k # 1
    <3>1. k - 1 \in DOMAIN e /\ k - 1 < k
      BY <1>2, <1>5, <2>2
    <3>2. k - 1 \notin T
      BY <1>2, <1>4, <1>5, <3>1
    <3>3. e[k - 1] < n /\ from(k) = e[k - 1]
      BY <1>1, <1>2, <2>2, <3>1, <3>2 DEF start_idx
    <3> QED
      BY <3>3
  <2> QED
    BY <2>1, <2>2
<1>7. n \in Section(recording, k)
  BY <1>1, <1>2, <1>5, <1>6 DEF Section
<1>8. \A i, j \in DOMAIN e :
        n \in Section(recording, i) /\ n \in Section(recording, j) => i = j
  <2> SUFFICES ASSUME NEW i \in DOMAIN e, NEW j \in DOMAIN e,
                      n \in Section(recording, i), n \in Section(recording, j), i < j
               PROVE  FALSE
    BY <1>2
  <2>1. n <= e[i] /\ from(j) < n
    BY <1>1, <1>2 DEF Section
  <2> QED
    BY <1>1, <1>2, <2>1
<1>9. SectionOf(n) = CHOOSE j \in DOMAIN e : n \in Section(recording, j)
  BY DEF SectionOf
<1> QED
  BY <1>5, <1>7, <1>8, <1>9

LEMMA LeastOne ==
  ASSUME NEW T \in SUBSET Nat, NEW x \in T, \A y \in T : x <= y
  PROVE  Min(T) = x
<1>1. \A z \in T : (\A y \in T : z <= y) => z = x
  OBVIOUS
<1> QED
  BY <1>1 DEF Min

(* When every list has a timestamp a section starts with the time of its    *)
(* first list.                                                              *)
LEMMA StartTime ==
  ASSUME WellFormed(recording), AllStamped, NEW k \in DOMAIN recording.ends
  PROVE  LET q == start_idx(recording, k) + 1 IN
         /\ q \in DOMAIN Lists(recording)
         /\ Index(recording, k).first_ts = Lists(recording)[q].ts
<1> DEFINE q == start_idx(recording, k) + 1
           S == Section(recording, k)
<1>1. /\ start_idx(recording, k) \in Nat /\ recording.ends[k] \in Nat
      /\ start_idx(recording, k) < recording.ends[k]
  BY SectionFields
<1>2. q \in S /\ S \in SUBSET Nat /\ \A y \in S : q <= y
  BY <1>1 DEF Section
<1>3. S \subseteq DOMAIN Lists(recording)
  BY PlaceInLog
<1>4. Stamped(recording, k) = S
  BY <1>3 DEF Stamped, AllStamped
<1> HIDE DEF q, S
<1>5. Min(S) = q
  BY <1>2, LeastOne
<1>6. Index(recording, k).first_ts = Lists(recording)[q].ts
  BY <1>2, <1>4, <1>5 DEF Index
<1> QED
  BY <1>2, <1>3, <1>6 DEF q

(* A jump to a time that finds a list finds the first one of its section at *)
(* or after it; the section is one that starts at the time, or none beyond  *)
(* the next one is tried.                                                   *)
LEMMA LandsInTime ==
  ASSUME WellFormed(recording), NEW ts \in Nat, NEW n \in index_for_time(recording, ts)
  PROVE  n \in NotBefore(ts) /\ NearTime(n, ts)
<1> DEFINE lists == Lists(recording)
           D == DOMAIN lists
           e == recording.ends
           from(k) == start_idx(recording, k)
<1>1. PICK k \in DOMAIN e :
        /\ k \in find_section_for_time(recording, ts)
        /\ n \in First(Late(recording, k, ts))
        /\ n \in Section(recording, k) /\ n \in D
  BY FoundByTime
<1>2. k = SectionOf(n)
  BY <1>1, InSection
<1>3. /\ \A m \in D : m \in Nat /\ lists[m].ts \in Int
      /\ D = 1..Len(lists) /\ Len(lists) \in Nat
  BY LogFields
<1>4. n \in NotBefore(ts)
  BY <1>1 DEF First, Late, AtOrAfter, NotBefore
<1>5. ASSUME NEW m \in NotBefore(ts), m < n, SectionOf(m) = SectionOf(n)
      PROVE  FALSE
  <2>1. m \in D /\ lists[m].ts >= ts /\ lists[m].ts \in Int /\ m \in Nat /\ n \in Nat
    BY <1>1, <1>3 DEF NotBefore
  <2>2. m \in Section(recording, k)
    BY <1>2, <1>5, <2>1, InSection
  <2>3. lists[m].ts # None
    BY <2>1 DEF None
  <2>4. m \in Late(recording, k, ts)
    BY <2>1, <2>2, <2>3 DEF Late, Stamped, AtOrAfter
  <2>5. n <= m
    BY <1>1, <2>4 DEF First
  <2> QED
    BY <1>5, <2>1, <2>5
<1>6. ASSUME AllStamped, lists[n].ts # ts,
             ~(SectionOf(n) <= SectionOf(Min(NotBefore(ts))) + 1)
      PROVE  FALSE
  <2> DEFINE T == NotBefore(ts)
  <2>1. T \in SUBSET Nat /\ T # {} /\ T \subseteq D
    BY <1>3, <1>4 DEF NotBefore
  <2>2. PICK m \in T : \A y \in T : m <= y
    <3> HIDE DEF T
    <3> QED
      BY <2>1, Smallest
  <2>3. Min(T) = m
    <3> HIDE DEF T
    <3> QED
      BY <2>1, <2>2, LeastOne
  <2> DEFINE j == SectionOf(m)
             q == from(j + 1) + 1
  <2>4. m \in D /\ lists[m].ts >= ts /\ j \in DOMAIN e /\ m \in Section(recording, j)
    <3>1. m \in D /\ lists[m].ts >= ts
      BY <2>2 DEF NotBefore
    <3> QED
      BY <3>1, InSection
  <2>5. /\ Len(e) \in Nat /\ DOMAIN e = 1..Len(e)
        /\ \A i \in DOMAIN e : i \in Nat \ {0} /\ e[i] \in Nat /\ from(i) \in Nat
        /\ \A h, i \in DOMAIN e : h < i => e[h] <= from(i)
    BY SectionFields
  <2>6. j + 1 < k /\ j + 1 \in DOMAIN e /\ j < j + 1
    <3>1. ~(k <= j + 1)
      BY <1>2, <1>6, <2>3
    <3> HIDE DEF e, j
    <3> QED
      BY <1>1, <2>4, <2>5, <3>1
  <2>7. q \in D /\ Index(recording, j + 1).first_ts = lists[q].ts
    BY <1>6, <2>6, StartTime
  <2>8. m < q
    <3>1. m <= e[j]
      BY <1>3, <2>4, <2>5 DEF Section
    <3> HIDE DEF e, j
    <3> QED
      BY <1>3, <2>4, <2>5, <2>6, <3>1
  <2>9. lists[q].ts >= ts
    <3>1. lists[m].ts # None /\ lists[q].ts # None
      BY <1>6, <2>4, <2>7 DEF AllStamped
    <3> HIDE DEF q
    <3>2. lists[m].ts <= lists[q].ts
      BY <2>4, <2>7, <2>8, <3>1 DEF WellFormed
    <3> QED
      BY <1>3, <2>4, <2>7, <3>2
  <2> DEFINE Equal == {i \in DOMAIN e : Index(recording, i).first_ts = ts}
             C == {i \in DOMAIN e : Index(recording, i).first_ts > ts}
  <2>a. \A i \in DOMAIN e :
          from(i) + 1 \in D /\ Index(recording, i).first_ts = lists[from(i) + 1].ts
    BY <1>6, StartTime
  <2>b. k \notin Equal
    <3> SUFFICES ASSUME k \in Equal PROVE FALSE
      OBVIOUS
    <3> DEFINE p == from(k) + 1
    <3>1. p \in D /\ lists[p].ts = ts
      BY <2>a
    <3>2. p \in Section(recording, k)
      <4>1. from(k) < e[k]
        BY <1>1, SectionFields
      <4> QED
        BY <1>1, <2>5, <4>1 DEF Section
    <3>3. p \in Late(recording, k, ts)
      BY <1>6, <3>1, <3>2 DEF Late, Stamped, AtOrAfter, AllStamped
    <3>4. n <= p
      BY <1>1, <3>3 DEF First
    <3>5. lists[n].ts <= lists[p].ts
      <4> HIDE DEF p
      <4>1. lists[n].ts # None /\ lists[p].ts # None
        BY <1>1, <1>6, <3>1 DEF AllStamped
      <4>2. n < p \/ n = p
        BY <1>1, <1>3, <3>1, <3>4
      <4> QED
        BY <1>1, <1>3, <3>1, <4>1, <4>2 DEF WellFormed
    <3>6. lists[n].ts >= ts
      BY <1>4 DEF NotBefore
    <3> QED
      BY <1>1, <1>3, <1>6, <3>1, <3>5, <3>6
  <2>10. Equal = {} => j + 1 \in C
    BY <1>3, <2>6, <2>7, <2>9
  <2>11. Equal = {} => First(C) # {}
    <3>1. C \in SUBSET Nat
      BY <2>5
    <3> SUFFICES ASSUME j + 1 \in C PROVE First(C) # {}
      BY <2>10
    <3> HIDE DEF C, j
    <3>2. PICK i \in C : \A y \in C : i <= y
      BY <3>1, Smallest
    <3> QED
      BY <3>2 DEF First
  <2>12. \A i \in DOMAIN e : Index(recording, i).first_ts # None
    BY <1>6, <2>a DEF AllStamped
  <2>13. k \in First(C) /\ Equal = {}
    <3>1. e # <<>>
      BY <2>5, <2>6
    <3>2. SectionStarting(recording, ts) = IF Equal # {} THEN Equal ELSE First(C)
      BY DEF SectionStarting
    <3>3. SectionStarting(recording, ts) # {}
      BY <2>11, <3>2
    <3> HIDE DEF C, Equal
    <3>4. k \in SectionStarting(recording, ts)
      BY <1>1, <2>12, <3>1, <3>3 DEF find_section_for_time
    <3> QED
      BY <2>b, <3>2, <3>4
  <2>14. k <= j + 1
    BY <2>10, <2>13 DEF First
  <2> HIDE DEF j
  <2> QED
    BY <1>1, <2>5, <2>6, <2>14
<1> QED
  BY <1>4, <1>5, <1>6 DEF NearTime

(* A jump of the debugger that succeeds ends where it was asked to, by id,  *)
(* by steps and by time; one that does not leaves the cursor, or leaves it  *)
(* short of a list it was to end at and never behind where it was, torn.    *)
THEOREM JumpsToTarget == DebugSpec => JumpsLand
<1> DEFINE Lands ==
      LET sought == Sought(call'.op, call'.arg) IN
      /\ call'.ok => debug'.current \in sought
      /\ call'.ok /\ call'.op = "time" => NearTime(debug'.current, call'.arg)
      /\ ~call'.ok /\ debug'.current # debug.current =>
           /\ debug'.app = Torn
           /\ \E to \in sought :
                /\ debug'.current < to
                /\ debug.current < to => debug.current < debug'.current
<1>0. ASSUME NEW op, NEW arg, NEW targets, Jumped(op, arg, targets),
             targets \subseteq Sought(op, arg),
             call'.ok /\ op = "time" => NearTime(debug'.current, arg)
      PROVE  Lands
  BY <1>0 DEF Jumped
<1>1. ASSUME DebugInv, DebugNext PROVE Lands
  <2>0. WellFormed(recording)
    BY <1>1, DebugAssumption DEF DebugInv
  <2> HIDE DEF Lands
  <2>1. CASE \E id : Jumped("cl", id, index_for_culistid(recording, id))
    <3>1. PICK id : Jumped("cl", id, index_for_culistid(recording, id))
      BY <2>1
    <3>2. index_for_culistid(recording, id) \subseteq Sought("cl", id)
      BY <2>0, FoundById DEF Sought
    <3> QED
      BY <1>0, <3>1, <3>2
  <2>2. CASE \E ts \in Times : Jumped("time", ts, index_for_time(recording, ts))
    <3>1. PICK ts \in Times : Jumped("time", ts, index_for_time(recording, ts))
      BY <2>2
    <3>2. ts \in Nat
      BY DebugAssumption
    <3>3. \A n \in index_for_time(recording, ts) : n \in NotBefore(ts) /\ NearTime(n, ts)
      BY <2>0, <3>2, LandsInTime
    <3>4. index_for_time(recording, ts) \subseteq Sought("time", ts)
      BY <3>3 DEF Sought, NotBefore
    <3>5. call'.ok => NearTime(debug'.current, ts)
      BY <3>1, <3>3 DEF Jumped
    <3> QED
      BY <1>0, <3>1, <3>4, <3>5
  <2>3. CASE \E delta \in Int :
               Jumped("step", delta, {n \in DOMAIN Lists(recording) :
                               debug.current # 0 /\ n = debug.current + delta})
    <3> DEFINE T(d) == {n \in DOMAIN Lists(recording) :
                          debug.current # 0 /\ n = debug.current + d}
    <3>1. PICK delta \in Int : Jumped("step", delta, T(delta))
      BY <2>3
    <3>2. T(delta) \subseteq Sought("step", delta)
      BY DEF Sought
    <3> HIDE DEF T
    <3> QED
      BY <1>0, <3>1, <3>2
  <2> QED
    BY <1>1, <2>1, <2>2, <2>3, DebugNextInv
<1>2. DebugInv /\ UNCHANGED debug_vars => DebugInv'
  BY DEF DebugInv, debug_vars, ShowsTheRecording, stamps
<1>3. DebugInv /\ [DebugNext]_debug_vars => [Lands]_debug_vars
  BY <1>1
<1> QED
  BY <1>2, <1>3, DebugInitInv, DebugNextInv, PTL DEF DebugSpec, JumpsLand

----------------------------------------------------------------------------
(* The runtime that replays a log writes another log. *)

Frozen == [by : STRING \cup {"replay"}, before : Nat]
Keyframe == [culistid : Nat, timestamp : Int, frozen : Seq(Frozen)]
Manager == [culistid : Nat, timestamp : Int, frozen : Seq(Frozen),
            forced_timestamp : Int, locked : BOOLEAN]
Runtime == [next_clid : Nat, kf : Manager, lists : Seq(Nat), keyframes : Seq(Keyframe)]

\* The keyframes of the new log, when c lists have been replayed.
Kept(log, c, keyframes) ==
  /\ \A j \in DOMAIN keyframes :
       /\ Verbatim(log, keyframes[j])
       /\ keyframes[j].culistid < c /\ captures_keyframe(keyframes[j].culistid)
  /\ \A id \in 0..(c - 1) :
       captures_keyframe(id) => \E j \in DOMAIN keyframes : keyframes[j].culistid = id
  /\ \A j, k \in DOMAIN keyframes :
       j < k => keyframes[j].culistid < keyframes[k].culistid

\* Between two lists no keyframe is locked.
Copied(log, c, rt) ==
  /\ rt \in Runtime /\ rt.next_clid = c
  /\ rt.lists = [m \in 1..c |-> Lists(log)[m].id]
  /\ Gapless(log) => ~rt.kf.locked /\ Kept(log, c, rt.keyframes)

LEMMA ManagerTypes ==
  ASSUME NEW kf \in Manager, NEW clid \in Nat, NEW now \in Int, NEW state \in Frozen
  PROVE  /\ reset(kf, clid, now) \in Manager
         /\ freeze(kf, clid, state) \in Manager
         /\ unlocked(kf, clid) \in Manager
         /\ Written(kf, clid) \in Seq(Keyframe)
<1>1. reset(kf, clid, now) \in Manager
  <2> DEFINE ts == IF kf.forced_timestamp = NoTime THEN now ELSE kf.forced_timestamp
             fresh == [culistid |-> clid, frozen |-> <<>>, locked |-> FALSE,
                       timestamp |-> ts, forced_timestamp |-> NoTime]
  <2>1. reset(kf, clid, now) = kf \/ reset(kf, clid, now) = fresh
    BY DEF reset
  <2>2. ts \in Int /\ NoTime \in Int /\ <<>> \in Seq(Frozen)
    BY DEF Manager, NoTime
  <2> HIDE DEF ts
  <2>3. fresh \in Manager
    BY <2>2 DEF Manager
  <2> HIDE DEF fresh
  <2> QED
    BY <2>1, <2>3
<1>2. freeze(kf, clid, state) \in Manager
  <2>1. Append(kf.frozen, state) \in Seq(Frozen)
    BY DEF Manager
  <2>2. [kf EXCEPT !.frozen = Append(kf.frozen, state)] \in Manager
    BY <2>1 DEF Manager
  <2>3. freeze(kf, clid, state) \in {kf, [kf EXCEPT !.frozen = Append(kf.frozen, state)]}
    BY DEF freeze
  <2> QED
    BY <2>2, <2>3
<1>3. unlocked(kf, clid) \in Manager
  <2>1. [kf EXCEPT !.locked = FALSE] \in Manager
    BY DEF Manager
  <2> QED
    BY <2>1 DEF unlocked
<1>4. Written(kf, clid) \in Seq(Keyframe)
  <2> DEFINE k == [culistid |-> kf.culistid, timestamp |-> kf.timestamp,
                   frozen |-> kf.frozen]
  <2>1. k \in Keyframe
    BY DEF Manager, Keyframe
  <2>2. Written(kf, clid) = <<k>> \/ Written(kf, clid) = <<>>
    BY DEF Written
  <2> HIDE DEF k
  <2>3. ASSUME NEW S, NEW x \in S PROVE <<x>> \in Seq(S) /\ <<>> \in Seq(S)
    OBVIOUS
  <2>4. <<k>> \in Seq(Keyframe) /\ <<>> \in Seq(Keyframe)
    BY <2>1, <2>3
  <2> QED
    BY <2>2, <2>4
<1> QED
  BY <1>1, <1>2, <1>3, <1>4

LEMMA RecordedKeyframe ==
  ASSUME NEW log, WellFormed(log), NEW id, KeyframeOf(log, id) # {}
  PROVE  LET k == CHOOSE k \in KeyframeOf(log, id) : TRUE IN
         k \in KeyframeOf(log, id) /\ k \in Keyframe /\ k.culistid = id
<1> DEFINE k == CHOOSE k \in KeyframeOf(log, id) : TRUE
<1>1. k \in KeyframeOf(log, id)
  OBVIOUS
<1>2. k \in log.keyframes /\ k.culistid = id
  BY <1>1 DEF KeyframeOf
<1> DEFINE Old == [by : STRING, before : Nat]
<1>3. k \in [culistid : Nat, timestamp : Nat, frozen : Seq(Old)]
  BY <1>2, LogFields
<1> HIDE DEF k
<1>4. k \in Keyframe
  <2>1. Old \subseteq Frozen
    BY DEF Frozen
  <2>2. k.frozen \in Seq(Old)
    BY <1>3
  <2> HIDE DEF Old
  <2>3. k.frozen \in Seq(Frozen)
    BY <2>1, <2>2
  <2> QED
    BY <1>3, <2>3 DEF Keyframe
<1> QED
  BY <1>1, <1>2, <1>4 DEF k

LEMMA TimesReplayed ==
  ASSUME NEW log, WellFormed(log)
  PROVE  replay_times(log) \in [DOMAIN Lists(log) -> Int]
<1> DEFINE t(n) == LET recorded == KeyframeOf(log, Lists(log)[n].id) IN
                   IF recorded = {} THEN Lists(log)[n].ts
                   ELSE (CHOOSE k \in recorded : TRUE).timestamp
<1>1. ASSUME NEW n \in DOMAIN Lists(log) PROVE t(n) \in Int
  <2> DEFINE id == Lists(log)[n].id
             k == CHOOSE k \in KeyframeOf(log, id) : TRUE
  <2>1. CASE KeyframeOf(log, id) = {}
    BY <2>1, LogFields
  <2>2. CASE KeyframeOf(log, id) # {}
    <3>1. k \in Keyframe
      BY <2>2, RecordedKeyframe
    <3>2. k.timestamp \in Int
      BY <3>1 DEF Keyframe
    <3> QED
      BY <2>2, <3>2
  <2> QED
    BY <2>1, <2>2
<1>2. replay_times(log) = [n \in DOMAIN Lists(log) |-> t(n)]
  BY DEF replay_times
<1> HIDE DEF t
<1> QED
  BY <1>1, <1>2

LEMMA LockedTypes ==
  ASSUME NEW log, WellFormed(log), NEW n \in DOMAIN Lists(log), NEW rt \in Runtime
  PROVE  LET id == Lists(log)[n].id
             k == CHOOSE k \in KeyframeOf(log, id) : TRUE
             r == Locked(rt, log, n)
         IN  /\ r \in Runtime /\ r.next_clid = rt.next_clid
             /\ r.lists = rt.lists /\ r.keyframes = rt.keyframes
             /\ KeyframeOf(log, id) = {} => r.kf = rt.kf
             /\ KeyframeOf(log, id) # {} => r.kf = lock_keyframe(rt.kf, k)
<1> DEFINE id == Lists(log)[n].id
           k == CHOOSE k \in KeyframeOf(log, id) : TRUE
           r == Locked(rt, log, n)
           lock == lock_keyframe(rt.kf, k)
<1>1. CASE KeyframeOf(log, id) = {}
  <2>1. r = rt
    BY <1>1 DEF Locked
  <2> QED
    BY <1>1, <2>1
<1>2. CASE KeyframeOf(log, id) # {}
  <2>1. k \in Keyframe
    BY <1>2, RecordedKeyframe
  <2>2. lock \in Manager
    <3> HIDE DEF k
    <3>1. k.culistid \in Nat /\ k.timestamp \in Int /\ k.frozen \in Seq(Frozen)
      BY <2>1 DEF Keyframe
    <3> QED
      BY <3>1 DEF lock_keyframe, Manager
  <2>3. r = [rt EXCEPT !.kf = lock]
    BY <1>2 DEF Locked
  <2> HIDE DEF lock, r, k
  <2>4. /\ r \in Runtime /\ r.next_clid = rt.next_clid /\ r.kf = lock
        /\ r.lists = rt.lists /\ r.keyframes = rt.keyframes
    BY <2>2, <2>3 DEF Runtime
  <2> QED
    BY <1>2, <2>4 DEF r, lock, k
<1> QED
  BY <1>1, <1>2

LEMMA OneRound ==
  ASSUME NEW log, NEW rt, NEW n \in Nat
  PROVE  RunLists(rt, log, {n}) = RunList(Locked(rt, log, n), log, n)
<1> DEFINE one == RunList(Locked(rt, log, n), log, n)
           Loop(f) == f = [m \in (n - 1)..n |->
                             IF m < n THEN rt
                             ELSE RunList(Locked(f[m - 1], log, m), log, m)]
           f == [m \in (n - 1)..n |-> IF m < n THEN rt ELSE one]
           after == RuntimeRuns(rt, log, n, n)
<1>1. Min({n}) = n /\ Max({n}) = n
  BY DEF Min, Max
<1>2. f[n - 1] = rt
  OBVIOUS
<1>3. \A m \in (n - 1)..n : ~(m < n) => m = n
  OBVIOUS
<1>4. Loop(f)
  <2> HIDE DEF one, f
  <2>1. \A m \in (n - 1)..n :
          (IF m < n THEN rt ELSE one)
            = IF m < n THEN rt ELSE RunList(Locked(f[m - 1], log, m), log, m)
    BY <1>2, <1>3 DEF one
  <2>2. [m \in (n - 1)..n |-> IF m < n THEN rt ELSE one]
          = [m \in (n - 1)..n |->
               IF m < n THEN rt ELSE RunList(Locked(f[m - 1], log, m), log, m)]
    BY <2>1
  <2> QED
    BY <2>2 DEF f
<1>5. after = CHOOSE g : Loop(g)
  BY DEF RuntimeRuns
<1> HIDE DEF Loop, after, f
<1>6. Loop(after)
  BY <1>4, <1>5
<1>7. after[n - 1] = rt /\ after[n] = RunList(Locked(after[n - 1], log, n), log, n)
  BY <1>6 DEF Loop
<1> QED
  BY <1>1, <1>7 DEF RunLists, after

LEMMA KeptMore ==
  ASSUME NEW log, NEW c \in Nat, NEW keyframes \in Seq(Keyframe), NEW w \in Keyframe,
         Kept(log, c, keyframes), w.culistid = c, Verbatim(log, w), captures_keyframe(c)
  PROVE  Kept(log, c + 1, keyframes \o <<w>>)
<1> DEFINE N == Len(keyframes)
           new == keyframes \o <<w>>
<1>0. N \in Nat /\ DOMAIN keyframes = 1..N /\ \A j \in 1..N : keyframes[j] \in Keyframe
  OBVIOUS
<1>1. N \in Nat /\ DOMAIN keyframes = 1..N /\ \A j \in 1..N : keyframes[j].culistid \in Nat
  BY <1>0 DEF Keyframe
<1>2. /\ DOMAIN new = 1..(N + 1) /\ \A j \in 1..N : new[j] = keyframes[j]
      /\ new[N + 1] = w
  OBVIOUS
<1> HIDE DEF N, new
<1>3. /\ \A j \in 1..N :
           /\ Verbatim(log, keyframes[j])
           /\ keyframes[j].culistid < c /\ captures_keyframe(keyframes[j].culistid)
      /\ \A id \in 0..(c - 1) :
           captures_keyframe(id) => \E j \in 1..N : keyframes[j].culistid = id
      /\ \A j, k \in 1..N : j < k => keyframes[j].culistid < keyframes[k].culistid
  BY <1>1 DEF Kept
<1>4. \A j \in 1..(N + 1) : j \in 1..N \/ j = N + 1
  BY <1>1
<1>5. ASSUME NEW j \in DOMAIN new
      PROVE  /\ Verbatim(log, new[j])
             /\ new[j].culistid < c + 1 /\ captures_keyframe(new[j].culistid)
  <2>1. CASE j \in 1..N
    BY <1>1, <1>2, <1>3, <2>1
  <2>2. CASE j = N + 1
    BY <1>2, <2>2
  <2> QED
    BY <1>2, <1>4, <2>1, <2>2
<1>6. ASSUME NEW id \in 0..(c + 1 - 1), captures_keyframe(id)
      PROVE  \E j \in DOMAIN new : new[j].culistid = id
  <2>1. CASE id = c
    BY <1>1, <1>2, <2>1
  <2>2. CASE id # c
    <3>1. id \in 0..(c - 1)
      BY <2>2
    <3>2. PICK j \in 1..N : keyframes[j].culistid = id
      BY <1>3, <1>6, <3>1
    <3>3. j \in DOMAIN new
      BY <1>1, <1>2
    <3> QED
      BY <1>2, <3>2, <3>3
  <2> QED
    BY <2>1, <2>2
<1>7. ASSUME NEW j \in DOMAIN new, NEW k \in DOMAIN new, j < k
      PROVE  new[j].culistid < new[k].culistid
  <2>1. j \in 1..N
    BY <1>1, <1>2, <1>7
  <2>2. CASE k \in 1..N
    BY <1>2, <1>3, <1>7, <2>1, <2>2
  <2>3. CASE k = N + 1
    BY <1>2, <1>3, <2>1, <2>3
  <2> QED
    BY <1>2, <1>4, <2>2, <2>3
<1>8. Kept(log, c + 1, new)
  BY <1>5, <1>6, <1>7 DEF Kept
<1> QED
  BY <1>8 DEF new

LEMMA KeptSame ==
  ASSUME NEW log, NEW c \in Nat, NEW keyframes \in Seq(Keyframe),
         Kept(log, c, keyframes), ~captures_keyframe(c)
  PROVE  Kept(log, c + 1, keyframes)
<1>0. \A j \in DOMAIN keyframes : keyframes[j] \in Keyframe
  OBVIOUS
<1>1. \A j \in DOMAIN keyframes : keyframes[j].culistid \in Nat
  BY <1>0 DEF Keyframe
<1>2. \A j \in DOMAIN keyframes : keyframes[j].culistid < c + 1
  BY <1>1 DEF Kept
<1>3. \A id \in 0..(c + 1 - 1) : captures_keyframe(id) => id \in 0..(c - 1)
  OBVIOUS
<1> QED
  BY <1>2, <1>3 DEF Kept

(* One list: its keyframe is the recorded one as it was, or what was frozen *)
(* before it.                                                               *)
LEMMA KeyframeWritten ==
  ASSUME NEW log, WellFormed(log), NEW n \in DOMAIN Lists(log),
         NEW rt \in Runtime, rt.next_clid = Lists(log)[n].id, ~rt.kf.locked,
         Replayable(log, n)
  PROVE  LET clid == rt.next_clid
             begun == reset(Locked(rt, log, n).kf, clid, replay_times(log)[n])
             state == [by |-> "replay", before |-> Lists(log)[n].id]
             frozen == freeze(begun, clid, state)
         IN  /\ ~unlocked(frozen, clid).locked
             /\ ~captures_keyframe(clid) => Written(frozen, clid) = <<>>
             /\ captures_keyframe(clid) =>
                  \E w \in Keyframe : /\ Written(frozen, clid) = <<w>>
                                      /\ w.culistid = clid /\ Verbatim(log, w)
<1> DEFINE clid == rt.next_clid
           kf == Locked(rt, log, n).kf
           now == replay_times(log)[n]
           begun == reset(kf, clid, now)
           state == [by |-> "replay", before |-> Lists(log)[n].id]
           frozen == freeze(begun, clid, state)
           k == CHOOSE k \in KeyframeOf(log, clid) : TRUE
           Goal == /\ ~unlocked(frozen, clid).locked
                   /\ ~captures_keyframe(clid) => Written(frozen, clid) = <<>>
                   /\ captures_keyframe(clid) =>
                        \E w \in Keyframe : /\ Written(frozen, clid) = <<w>>
                                            /\ w.culistid = clid /\ Verbatim(log, w)
<1>1. clid \in Nat /\ clid = Lists(log)[n].id /\ now \in Int /\ state \in Frozen
  <2>1. clid = Lists(log)[n].id /\ clid \in Nat
    BY LogFields
  <2>2. now \in Int
    BY TimesReplayed
  <2>3. state \in Frozen
    <3> DEFINE id == Lists(log)[n].id
               who == "replay"
    <3>1. id \in Nat
      BY <2>1
    <3>3. who \in STRING \cup {"replay"}
      OBVIOUS
    <3> HIDE DEF id, who
    <3>2. [by |-> who, before |-> id] \in Frozen
      BY <3>1, <3>3 DEF Frozen
    <3> QED
      BY <3>2 DEF id, who
  <2> QED
    BY <2>1, <2>2, <2>3
<1>2. /\ kf \in Manager
      /\ KeyframeOf(log, clid) = {} => kf = rt.kf
      /\ KeyframeOf(log, clid) # {} => kf = lock_keyframe(rt.kf, k)
  <2>1. Locked(rt, log, n) \in Runtime
    BY LockedTypes
  <2>2. kf \in Manager
    BY <2>1 DEF Runtime
  <2>3. clid = Lists(log)[n].id
    OBVIOUS
  <2> QED
    BY <2>2, <2>3, LockedTypes
<1>3. begun \in Manager /\ frozen \in Manager
  BY <1>1, <1>2, ManagerTypes
<1> HIDE DEF kf, now, k, state, clid
<1>4. CASE KeyframeOf(log, clid) # {}
  <2>1. k \in KeyframeOf(log, clid) /\ k \in Keyframe /\ k.culistid = clid
    BY <1>4, RecordedKeyframe DEF k
  <2>2. captures_keyframe(clid)
    BY <1>1, <1>4 DEF Replayable
  <2>3. /\ kf.culistid = clid /\ kf.timestamp = k.timestamp
        /\ kf.frozen = k.frozen /\ kf.locked = TRUE
    BY <1>2, <1>4, <2>1 DEF lock_keyframe
  <2>4. begun = kf
    BY <2>3 DEF reset
  <2>5. frozen = kf
    BY <2>3, <2>4 DEF freeze
  <2>6. Written(frozen, clid) = <<k>>
    <3>1. k = [culistid |-> k.culistid, timestamp |-> k.timestamp, frozen |-> k.frozen]
      BY <2>1 DEF Keyframe
    <3> QED
      BY <2>1, <2>2, <2>3, <2>5, <3>1 DEF Written
  <2>7. Verbatim(log, k)
    BY <2>1 DEF Verbatim
  <2>8. ~unlocked(frozen, clid).locked
    <3> HIDE DEF frozen
    <3> QED
      BY <1>3, <2>2 DEF unlocked, Manager
  <2> QED
    BY <2>1, <2>2, <2>6, <2>7, <2>8 DEF clid, kf, now, state
<1>5. CASE KeyframeOf(log, clid) = {} /\ captures_keyframe(clid)
  <2>1. kf.locked = FALSE
    BY <1>2, <1>5
  <2>2. begun.culistid = clid /\ begun.frozen = <<>> /\ begun.locked = FALSE
    BY <1>5, <2>1 DEF reset
  <2> HIDE DEF begun
  <2>3. frozen = [begun EXCEPT !.frozen = Append(begun.frozen, state)]
    BY <1>5, <2>2 DEF freeze
  <2>4. frozen.culistid = clid /\ frozen.frozen = <<state>>
    BY <1>3, <2>2, <2>3 DEF Manager
  <2> HIDE DEF frozen
  <2> DEFINE w == [culistid |-> frozen.culistid, timestamp |-> frozen.timestamp,
                   frozen |-> frozen.frozen]
  <2>5. Written(frozen, clid) = <<w>>
    BY <1>5 DEF Written
  <2>6. w \in Keyframe /\ w.culistid = clid /\ w.frozen = <<state>>
    BY <1>3, <2>4 DEF Manager, Keyframe
  <2> HIDE DEF w
  <2>7. Verbatim(log, w)
    BY <1>1, <1>5, <2>6 DEF Verbatim, state
  <2>8. ~unlocked(frozen, clid).locked
    BY <1>3, <1>5 DEF unlocked, Manager
  <2> QED
    BY <1>5, <2>5, <2>6, <2>7, <2>8 DEF clid, kf, now, state, begun, frozen
<1>6. CASE KeyframeOf(log, clid) = {} /\ ~captures_keyframe(clid)
  <2>1. kf.locked = FALSE
    BY <1>2, <1>6
  <2>2. frozen = kf
    BY <1>6 DEF freeze, reset
  <2>3. Written(frozen, clid) = <<>> /\ unlocked(frozen, clid) = frozen
    BY <1>6 DEF Written, unlocked
  <2> QED
    BY <1>6, <2>1, <2>2, <2>3 DEF clid, kf, now, state
<1> QED
  BY <1>4, <1>5, <1>6

LEMMA CopiedOne ==
  ASSUME NEW log, WellFormed(log), NEW n \in DOMAIN Lists(log), NEW rt,
         Copied(log, n - 1, rt), Replayable(log, n)
  PROVE  Copied(log, n, RunLists(rt, log, {n}))
<1> DEFINE id(m) == Lists(log)[m].id
           r == Locked(rt, log, n)
           clid == r.next_clid
           now == replay_times(log)[n]
           begun == reset(r.kf, clid, now)
           state == [by |-> "replay", before |-> id(n)]
           frozen == freeze(begun, clid, state)
           kf == unlocked(frozen, clid)
           more == Written(frozen, clid)
           lists == Append(r.lists, id(n))
           new == RunLists(rt, log, {n})
<1>1. /\ n \in Nat \ {0} /\ id(n) \in Nat /\ now \in Int
      /\ \A m \in 1..n : id(m) \in Nat
  <2>1. /\ n \in Nat \ {0} /\ id(n) \in Nat
        /\ \A m \in 1..n : m \in DOMAIN Lists(log)
    BY LogFields
  <2>2. \A m \in 1..n : id(m) \in Nat
    BY <2>1, LogFields
  <2> QED
    BY <2>1, <2>2, TimesReplayed
<1>2. /\ rt \in Runtime /\ rt.next_clid = n - 1
      /\ rt.lists = [m \in 1..(n - 1) |-> id(m)]
      /\ Gapless(log) => ~rt.kf.locked /\ Kept(log, n - 1, rt.keyframes)
  BY DEF Copied
<1>3. /\ r \in Runtime /\ clid = n - 1 /\ r.lists = rt.lists
      /\ r.keyframes = rt.keyframes
  BY <1>2, LockedTypes
<1>4. state \in Frozen
  <2> DEFINE who == "replay"
             i == id(n)
  <2>1. who \in STRING \cup {"replay"} /\ i \in Nat
    BY <1>1
  <2> HIDE DEF who, i
  <2>2. [by |-> who, before |-> i] \in Frozen
    BY <2>1 DEF Frozen
  <2> QED
    BY <2>2 DEF who, i
<1>5. kf \in Manager /\ more \in Seq(Keyframe)
  <2>1. r.kf \in Manager /\ clid \in Nat
    BY <1>3 DEF Runtime
  <2> HIDE DEF r, clid, now, state
  <2>2. begun \in Manager
    BY <1>1, <2>1, <1>4, ManagerTypes
  <2> HIDE DEF begun
  <2>3. frozen \in Manager
    BY <1>1, <2>1, <2>2, <1>4, ManagerTypes
  <2> HIDE DEF frozen
  <2> QED
    BY <1>1, <2>1, <2>3, <1>4, ManagerTypes
<1>6. new = [next_clid |-> clid + 1, kf |-> kf, lists |-> lists,
             keyframes |-> r.keyframes \o more]
  <2>1. new = RunList(r, log, n)
    BY <1>1, OneRound
  <2> HIDE DEF r
  <2> QED
    BY <2>1 DEF RunList
<1>7. lists = [m \in 1..n |-> id(m)] /\ lists \in Seq(Nat)
  <2> DEFINE old == [m \in 1..(n - 1) |-> id(m)]
             all == [m \in 1..n |-> id(m)]
  <2>1. r.lists = old
    BY <1>2, <1>3
  <2>2. old \in Seq(Nat) /\ Len(old) = n - 1 /\ all \in Seq(Nat) /\ Len(all) = n
    BY <1>1
  <2>3. \A m \in 1..(n - 1) : old[m] = id(m)
    OBVIOUS
  <2>4. \A m \in 1..n : all[m] = id(m)
    OBVIOUS
  <2>5. Append(old, id(n)) = all
    <3> HIDE DEF id, old, all
    <3> DEFINE a == Append(old, id(n))
    <3>1. a \in Seq(Nat) /\ Len(a) = n
      BY <1>1, <2>2
    <3>2. \A m \in 1..n : a[m] = all[m]
      <4> TAKE m \in 1..n
      <4>1. CASE m = n
        BY <1>1, <2>2, <2>4, <4>1
      <4>2. CASE m # n
        <5>1. m \in 1..(n - 1)
          BY <1>1, <4>2
        <5> QED
          BY <1>1, <2>2, <2>3, <2>4, <5>1
      <4> QED
        BY <4>1, <4>2
    <3> HIDE DEF a
    <3> QED
      BY <2>2, <3>1, <3>2, SeqEqual DEF a
  <2> QED
    BY <2>1, <2>2, <2>5
<1>8. new \in Runtime
  <2>1. clid + 1 \in Nat /\ r.keyframes \in Seq(Keyframe)
    BY <1>1, <1>3 DEF Runtime
  <2>2. r.keyframes \o more \in Seq(Keyframe)
    <3> HIDE DEF more, r
    <3> QED
      BY <1>5, <2>1
  <2> HIDE DEF new, clid, kf, lists, r, more
  <2> QED
    BY <1>5, <1>6, <1>7, <2>1, <2>2 DEF Runtime
<1>9. ASSUME Gapless(log)
      PROVE  ~kf.locked /\ Kept(log, n, r.keyframes \o more)
  <2>1. /\ ~rt.kf.locked /\ Kept(log, n - 1, rt.keyframes)
        /\ rt.next_clid = id(n) /\ clid = rt.next_clid
        /\ n - 1 \in Nat /\ (n - 1) + 1 = n
    BY <1>1, <1>2, <1>3, <1>9 DEF Gapless
  <2>2. /\ ~kf.locked
        /\ ~captures_keyframe(n - 1) => more = <<>>
        /\ captures_keyframe(n - 1) =>
             \E w \in Keyframe : /\ more = <<w>>
                                 /\ w.culistid = n - 1 /\ Verbatim(log, w)
    BY <1>2, <2>1, KeyframeWritten
  <2>3. rt.keyframes \in Seq(Keyframe)
    BY <1>2 DEF Runtime
  <2> HIDE DEF kf, more, clid
  <2>4. CASE captures_keyframe(n - 1)
    BY <1>3, <2>1, <2>2, <2>3, <2>4, KeptMore
  <2>5. CASE ~captures_keyframe(n - 1)
    <3>1. r.keyframes \o more = rt.keyframes
      BY <1>3, <2>2, <2>3, <2>5
    <3>2. Kept(log, n, rt.keyframes)
      BY <2>1, <2>3, <2>5, KeptSame
    <3> QED
      BY <2>2, <3>1, <3>2
  <2> QED
    BY <2>4, <2>5
<1>10. /\ new.next_clid = n /\ new.lists = [m \in 1..n |-> Lists(log)[m].id]
       /\ new.kf = kf /\ new.keyframes = r.keyframes \o more
  <2>1. clid + 1 = n
    BY <1>1, <1>3
  <2> HIDE DEF new, clid, kf, lists, r, more
  <2> QED
    BY <1>6, <1>7, <2>1
<1> HIDE DEF new, kf
<1>11. Copied(log, n, new)
  BY <1>8, <1>9, <1>10 DEF Copied
<1> QED
  BY <1>11 DEF new

----------------------------------------------------------------------------
(* The engine's graph. *)

Waiting(n) == Sources(fleet, n) \ executed

Counts == remaining = [n \in Nodes(fleet) |-> Cardinality(Waiting(n))]
ReadyIsReady == ready = CR!Ready
\* Whatever has been replayed or tried had its turn.
HadTheirTurn ==
  \A n \in executed \cup given_up : n \in Nodes(fleet) /\ Waiting(n) = {}

EngineInv == fleet \in Fleets /\ Counts /\ ReadyIsReady /\ HadTheirTurn

LEMMA ReadyByWaiting ==
  CR!Ready = {n \in Nodes(fleet) \ (executed \cup given_up) : Waiting(n) = {}}
BY DEF CR!Ready, Waiting, Sources

LEMMA WaitingFinite ==
  ASSUME fleet \in Fleets, NEW n
  PROVE  IsFiniteSet(Waiting(n)) /\ Cardinality(Waiting(n)) \in Nat
<1>1. IsFiniteSet(Nodes(fleet)) /\ Waiting(n) \subseteq Nodes(fleet)
  BY FleetAssumption DEF Waiting, Sources
<1> QED
  BY <1>1, FS_Subset, FS_CardinalityType

----------------------------------------------------------------------------
(* A new graph. *)

Fresh ==
  /\ fleet \in Fleets /\ executed = {} /\ given_up = {}
  /\ remaining = [n \in Nodes(fleet) |-> initial_dependencies(fleet, n)]
  /\ ready = Unblocked(fleet)

\* Before anything has been replayed the counts are those of the graph.
LEMMA FreshInv == Fresh => EngineInv
<1> SUFFICES ASSUME Fresh PROVE EngineInv
  OBVIOUS
<1> USE DEF Fresh
<1>1. \A n : Waiting(n) = Sources(fleet, n)
  BY DEF Waiting
<1>2. Counts
  BY <1>1 DEF Counts, initial_dependencies
<1>3. ReadyIsReady
  <2>1. \A n : Cardinality(Waiting(n)) = 0 <=> Waiting(n) = {}
    BY WaitingFinite, FS_EmptySet
  <2> QED
    BY <1>1, <2>1, ReadyByWaiting
      DEF ReadyIsReady, Unblocked, initial_dependencies
<1> QED
  BY <1>2, <1>3 DEF EngineInv, HadTheirTurn

LEMMA InitInv == EngineInit => EngineInv
BY FreshInv DEF EngineInit, Fresh

LEMMA BuiltInv ==
  ASSUME EngineInv, Built(fleet), UNCHANGED fleet
  PROVE  EngineInv' /\ CR!StartOver
<1>1. Fresh'
  BY DEF EngineInv, Built, Fresh
<1>2. EngineInv'
  BY <1>1, FreshInv, PTL
<1> QED
  BY <1>1, <1>2 DEF Fresh, CR!StartOver

----------------------------------------------------------------------------
(* A step. *)

LEMMA SameTurn == ASSUME ReadyIsReady PROVE NextReady = CR!Turn
BY DEF ReadyIsReady, NextReady, CR!Turn, InOrder, CR!InOrder

LEMMA ReplayedInv ==
  ASSUME EngineInv, NEW node \in NextReady, Replayed(node), UNCHANGED fleet
  PROVE  EngineInv' /\ CR!Replay
<1> DEFINE next(m) == m \in outgoing(fleet, node)
<1>1. /\ node \in Nodes(fleet) \ (executed \cup given_up) /\ Waiting(node) = {}
      /\ executed' = executed \cup {node} /\ given_up' = given_up
      /\ ready' = (ready \ {node}) \cup
                    {m \in outgoing(fleet, node) : remaining'[m] = 0}
  BY ReadyByWaiting DEF EngineInv, ReadyIsReady, NextReady, Replayed
<1>2. /\ fleet' \in Fleets
      /\ \A m : Sources(fleet, m)' = Sources(fleet, m)
      /\ Nodes(fleet)' = Nodes(fleet)
  BY DEF EngineInv, Sources, Edges, LogEdges, OriginEdges, Nodes, List
<1>3. \A m \in Nodes(fleet) : next(m) <=> node \in Waiting(m)
  BY <1>1 DEF outgoing, Waiting, Sources
<1>4. \A m : Waiting(m)' = Waiting(m) \ {node}
  BY <1>1, <1>2 DEF Waiting
<1>5. ASSUME NEW m \in Nodes(fleet)
      PROVE  remaining'[m] = Cardinality(Waiting(m)')
  <2>1. /\ IsFiniteSet(Waiting(m)) /\ Cardinality(Waiting(m)) \in Nat
        /\ remaining[m] = Cardinality(Waiting(m))
    BY WaitingFinite DEF EngineInv, Counts
  <2>2. remaining'[m] = IF next(m) THEN Left(remaining[m]) ELSE remaining[m]
    BY DEF EngineInv, Counts, Replayed
  <2>3. CASE next(m)
    <3>1. Cardinality(Waiting(m) \ {node}) = Cardinality(Waiting(m)) - 1
          /\ Cardinality(Waiting(m)) # 0
      BY <1>3, <2>1, <2>3, FS_RemoveElement, FS_EmptySet
    <3> QED
      BY <1>4, <2>1, <2>2, <2>3, <3>1 DEF Left
  <2>4. CASE ~next(m)
    <3>1. Waiting(m) \ {node} = Waiting(m)
      BY <1>3, <2>4
    <3> QED
      BY <1>4, <2>1, <2>2, <2>4, <3>1
  <2> QED
    BY <2>3, <2>4
<1>6. Counts'
  <2>1. DOMAIN remaining' = Nodes(fleet)
        /\ remaining' = [m \in DOMAIN remaining' |-> remaining'[m]]
    BY DEF EngineInv, Counts, Replayed
  <2> QED
    BY <1>2, <1>5, <2>1 DEF Counts
<1>7. HadTheirTurn'
  BY <1>1, <1>2, <1>4 DEF EngineInv, HadTheirTurn
<1>8. ReadyIsReady'
  <2>1. CR!Ready' = {n \in Nodes(fleet) \ (executed' \cup given_up') :
                       Waiting(n)' = {}}
    BY <1>2 DEF CR!Ready, Waiting, Sources
  <2>2. \A m \in outgoing(fleet, node) : m \in Nodes(fleet) /\ node \in Waiting(m)
    BY <1>3 DEF outgoing
  <2>3. \A m \in outgoing(fleet, node) : remaining'[m] = 0 <=> Waiting(m)' = {}
    <3>1. \A m : IsFiniteSet(Waiting(m)')
      BY <1>4, WaitingFinite, FS_Subset DEF EngineInv
    <3> QED
      BY <1>5, <2>2, <3>1, FS_EmptySet
  <2>4. \A n \in Nodes(fleet) :
          n \in ready <=> n \notin executed \cup given_up /\ Waiting(n) = {}
    BY ReadyByWaiting DEF EngineInv, ReadyIsReady
  <2>5. ready \subseteq Nodes(fleet)
    BY ReadyByWaiting DEF EngineInv, ReadyIsReady
  <2>6. ASSUME NEW n \in ready' PROVE n \in CR!Ready'
    <3>1. CASE n \in ready \ {node}
      BY <1>1, <1>4, <2>1, <2>4, <2>5, <3>1
    <3>2. CASE n \in outgoing(fleet, node) /\ remaining'[n] = 0
      <4>1. n \in Nodes(fleet) /\ node \in Waiting(n) /\ Waiting(n)' = {}
        BY <2>2, <2>3, <3>2
      <4>2. n \notin executed' \cup given_up'
        BY <1>1, <4>1 DEF EngineInv, HadTheirTurn
      <4> QED
        BY <2>1, <4>1, <4>2
    <3> QED
      BY <1>1, <2>6, <3>1, <3>2
  <2>7. ASSUME NEW n \in CR!Ready' PROVE n \in ready'
    <3>1. n \in Nodes(fleet) \ (executed' \cup given_up') /\ Waiting(n)' = {}
      BY <2>1
    <3>2. CASE node \in Waiting(n)
      BY <1>1, <1>3, <2>3, <3>1, <3>2
    <3>3. CASE node \notin Waiting(n)
      <4>1. Waiting(n) = {} /\ n # node
        BY <1>1, <1>4, <3>1, <3>3
      <4> QED
        BY <1>1, <2>4, <3>1, <4>1
    <3> QED
      BY <3>2, <3>3
  <2> QED
    BY <2>6, <2>7 DEF ReadyIsReady
<1>9. CR!Replay
  BY <1>1, SameTurn DEF EngineInv, CR!Replay
<1> QED
  BY <1>2, <1>6, <1>7, <1>8, <1>9 DEF EngineInv

LEMMA FailedInv ==
  ASSUME EngineInv, NEW node \in NextReady, Failed(node), UNCHANGED fleet
  PROVE  EngineInv' /\ CR!GiveUp
<1>1. /\ node \in Nodes(fleet) \ (executed \cup given_up) /\ Waiting(node) = {}
      /\ executed' = executed /\ given_up' = given_up \cup {node}
      /\ ready' = ready \ {node} /\ remaining' = remaining
  BY ReadyByWaiting DEF EngineInv, ReadyIsReady, NextReady, Failed
<1>2. /\ fleet' \in Fleets /\ Nodes(fleet)' = Nodes(fleet)
      /\ \A m : Waiting(m)' = Waiting(m)
  BY <1>1 DEF EngineInv, Waiting, Sources, Edges, LogEdges, OriginEdges, Nodes, List
<1>3. Counts' /\ HadTheirTurn'
  BY <1>1, <1>2 DEF EngineInv, Counts, HadTheirTurn
<1>4. ReadyIsReady'
  <2>1. CR!Ready' = {n \in Nodes(fleet) \ (executed' \cup given_up') :
                       Waiting(n)' = {}}
    BY <1>2 DEF CR!Ready, Waiting, Sources
  <2> QED
    BY <1>1, <1>2, <2>1, ReadyByWaiting DEF EngineInv, ReadyIsReady
<1>5. CR!GiveUp
  BY <1>1, SameTurn DEF EngineInv, CR!GiveUp
<1> QED
  BY <1>2, <1>3, <1>4, <1>5 DEF EngineInv

\* What the calls around the steps leave alone is all the invariant speaks of.
LEMMA SameGraph ==
  ASSUME EngineInv, UNCHANGED <<fleet, remaining, ready, executed, given_up>>
  PROVE  EngineInv' /\ UNCHANGED CR!cr_vars
BY DEF EngineInv, Counts, ReadyIsReady, HadTheirTurn, CR!Ready, Waiting, CR!cr_vars

LEMMA NextInv ==
  ASSUME EngineInv, [EngineNext]_engine_vars
  PROVE  /\ EngineInv'
         /\ \/ (CR!Replay \/ CR!GiveUp \/ CR!StartOver)
                 /\ UNCHANGED <<Nodes(fleet), Edges(fleet)>>
            \/ UNCHANGED CR!cr_vars
<1>1. fleet' = fleet => UNCHANGED <<Nodes(fleet), Edges(fleet)>>
  BY DEF Edges, LogEdges, OriginEdges, Nodes, List
<1>2. CASE StepCausal
  <2>1. PICK node \in NextReady : Replayed(node) \/ Failed(node)
    BY <1>2 DEF StepCausal
  <2>2. fleet' = fleet
    BY <1>2 DEF StepCausal
  <2> QED
    BY <1>1, <2>1, <2>2, ReplayedInv, FailedInv
<1>3. CASE Reset \/ \E node \in Nodes(fleet) : Goto(node)
  <2>1. Built(fleet) /\ fleet' = fleet
    BY <1>3 DEF Reset, Goto
  <2> QED
    BY <1>1, <2>1, BuiltInv
<1>4. CASE NothingReady \/ Call \/ ResetFails \/ UNCHANGED engine_vars
  <2>1. UNCHANGED <<fleet, remaining, ready, executed, given_up>>
    BY <1>4 DEF NothingReady, Call, ResetFails, engine_vars
  <2> QED
    BY <2>1, SameGraph
<1> QED
  BY <1>2, <1>3, <1>4 DEF EngineNext

(* Whatever calls are made and whichever lists fail to replay, the engine    *)
(* replays each list after those that caused it and always the first of      *)
(* those that may be replayed: step_causal's counts implement the order.     *)
THEOREM Refinement == EngineSpec => ImplementsCausalReplay
<1>1. EngineInit => CR!CRInit
  BY DEF EngineInit, CR!CRInit
<1>2. EngineInv /\ [EngineNext]_engine_vars
        => EngineInv'
           /\ [(CR!Replay \/ CR!GiveUp \/ CR!StartOver)
                 /\ UNCHANGED <<Nodes(fleet), Edges(fleet)>>]_(CR!cr_vars)
  BY NextInv
<1> QED
  BY <1>1, <1>2, InitInv, PTL DEF EngineSpec, ImplementsCausalReplay, CR!CRSpec

----------------------------------------------------------------------------
(* Getting stuck. *)

\* With nothing ready and nothing given up, whatever has not been replayed
\* waits for something that has not been replayed either.
LEMMA StuckIsCyclic ==
  ASSUME EngineInv, ready = {}, given_up = {}, executed # Nodes(fleet)
  PROVE  Cyclic(fleet)
<1> DEFINE S == Nodes(fleet) \ executed
<1>1. S \in (SUBSET Nodes(fleet)) \ {{}}
  <2>1. executed \subseteq Nodes(fleet)
    BY DEF EngineInv, HadTheirTurn
  <2>2. \E n : n \in S
    BY <2>1
  <2> QED
    BY <2>2
<1>2. \A n \in S : Sources(fleet, n) \cap S # {}
  <2>1. \A n \in S : Waiting(n) # {}
    BY ReadyByWaiting DEF EngineInv, ReadyIsReady
  <2> QED
    BY <2>1 DEF Waiting, Sources
<1> QED
  BY <1>1, <1>2 DEF Cyclic

(* An engine that says it is deadlocked has lists that wait for each other   *)
(* in a circle, or one that failed to replay: the bookkeeping of step_causal *)
(* never loses a node.                                                       *)
THEOREM NeverStuck == EngineSpec => []StuckOnlyOnCycles
<1>1. EngineInit => StuckOnlyOnCycles
  BY DEF EngineInit, StuckOnlyOnCycles
<1>2. EngineInv /\ StuckOnlyOnCycles /\ [EngineNext]_engine_vars
        => StuckOnlyOnCycles'
  <2> SUFFICES ASSUME EngineInv, StuckOnlyOnCycles, [EngineNext]_engine_vars
               PROVE  StuckOnlyOnCycles'
    OBVIOUS
  <2>1. fleet' = fleet => Cyclic(fleet)' = Cyclic(fleet)
    BY DEF Cyclic, Sources, Edges, LogEdges, OriginEdges, Nodes, List
  <2>2. CASE StepCausal
    <3>1. PICK node \in NextReady : Replayed(node) \/ Failed(node)
      BY <2>2 DEF StepCausal
    <3> QED
      BY <2>1, <2>2, <3>1
        DEF StepCausal, Replayed, Failed, Continue, StuckOnlyOnCycles
  <2>3. CASE NothingReady
    BY <2>1, <2>3, StuckIsCyclic DEF NothingReady, StuckOnlyOnCycles
  <2>4. CASE Reset \/ ResetFails \/ \E node \in Nodes(fleet) : Goto(node)
    BY <2>4 DEF Reset, ResetFails, Goto, StuckOnlyOnCycles
  <2>5. CASE Call \/ UNCHANGED engine_vars
    BY <2>1, <2>5 DEF Call, engine_vars, StuckOnlyOnCycles
  <2> QED
    BY <2>2, <2>3, <2>4, <2>5 DEF EngineNext
<1>3. EngineInv /\ [EngineNext]_engine_vars => EngineInv'
  BY NextInv
<1> QED
  BY <1>1, <1>2, <1>3, InitInv, PTL DEF EngineSpec

----------------------------------------------------------------------------
(* What the engine's sessions replay and log. *)

\* The i-th log, its first s.current lists replayed and logged.
Followed(log, i, s, rt, done, front) ==
  /\ s \in Session /\ s.current \in 0..Len(Lists(log)) /\ s.app # Mixed
  /\ Shows(s, replay_times(log))
  /\ \A n \in DOMAIN Lists(log) : <<i, Lists(log)[n].id>> \in done <=> n <= s.current
  /\ s.current # 0 => front = Lists(log)[s.current].id
  /\ Copied(log, s.current, rt)

FleetInv ==
  /\ EngineInv
  /\ DOMAIN sessions = DOMAIN fleet /\ sessions = [i \in DOMAIN fleet |-> sessions[i]]
  /\ DOMAIN runtimes = DOMAIN fleet /\ runtimes = [i \in DOMAIN fleet |-> runtimes[i]]
  /\ DOMAIN frontier = DOMAIN fleet
  /\ \A i \in DOMAIN fleet :
       Followed(fleet[i], i, sessions[i], runtimes[i], executed, frontier[i])

LEMMA FollowedFaithfully ==
  ASSUME NEW log, WellFormed(log), NEW i, NEW s, NEW rt, NEW done, NEW front,
         Followed(log, i, s, rt, done, front)
  PROVE  LET places == {n \in DOMAIN Lists(log) : <<i, Lists(log)[n].id>> \in done} IN
         /\ Shows(s, replay_times(log)) /\ s.app # Mixed
         /\ places = 1..s.current
         /\ places # {} => front = Lists(log)[s.current].id
         /\ rt.lists = [n \in places |-> Lists(log)[n].id]
         /\ Gapless(log) =>
              /\ \A k \in ToSet(rt.keyframes) : Verbatim(log, k)
              /\ {k.culistid : k \in ToSet(rt.keyframes)}
                   = {id \in ToSet(rt.lists) : captures_keyframe(id)}
              /\ \A j, k \in DOMAIN rt.keyframes :
                   j < k => rt.keyframes[j].culistid < rt.keyframes[k].culistid
<1> DEFINE places == {n \in DOMAIN Lists(log) : <<i, Lists(log)[n].id>> \in done}
           c == s.current
           ks == rt.keyframes
<1>1. /\ DOMAIN Lists(log) = 1..Len(Lists(log)) /\ Len(Lists(log)) \in Nat
      /\ c \in 0..Len(Lists(log)) /\ c \in Nat
      /\ \A n \in DOMAIN Lists(log) : <<i, Lists(log)[n].id>> \in done <=> n <= c
      /\ Copied(log, c, rt)
  BY LogFields DEF Followed
<1>2. places = 1..c
  BY <1>1
<1>3. places # {} => front = Lists(log)[c].id
  <2>1. places # {} => c # 0
    <3> HIDE DEF places, c
    <3>1. c = 0 => places = {}
      BY <1>2
    <3> QED
      BY <3>1
  <2> QED
    BY <2>1 DEF Followed
<1>4. rt.lists = [n \in places |-> Lists(log)[n].id]
  BY <1>1, <1>2 DEF Copied
<1>5. ASSUME Gapless(log)
      PROVE  /\ \A k \in ToSet(ks) : Verbatim(log, k)
             /\ {k.culistid : k \in ToSet(ks)}
                  = {id \in ToSet(rt.lists) : captures_keyframe(id)}
             /\ \A j, k \in DOMAIN ks : j < k => ks[j].culistid < ks[k].culistid
  <2>1. Kept(log, c, ks) /\ rt \in Runtime /\ rt.lists = [n \in 1..c |-> Lists(log)[n].id]
    BY <1>1, <1>5 DEF Copied
  <2>2. \A n \in 1..c : Lists(log)[n].id = n - 1
    BY <1>1, <1>5 DEF Gapless
  <2>3. ToSet(rt.lists) = 0..(c - 1)
    <3>1. ToSet(rt.lists) = {Lists(log)[n].id : n \in 1..c}
      BY <2>1 DEF ToSet
    <3>2. {Lists(log)[n].id : n \in 1..c} = {n - 1 : n \in 1..c}
      BY <2>2
    <3>3. \A m \in 0..(c - 1) : m + 1 \in 1..c /\ m = (m + 1) - 1
      BY <1>1
    <3>4. \A n \in 1..c : n - 1 \in 0..(c - 1)
      BY <1>1
    <3>5. {n - 1 : n \in 1..c} = 0..(c - 1)
      BY <3>3, <3>4
    <3> QED
      BY <3>1, <3>2, <3>5
  <2>4. ToSet(ks) = {ks[j] : j \in DOMAIN ks}
    BY DEF ToSet
  <2>5. \A j \in DOMAIN ks : /\ Verbatim(log, ks[j]) /\ ks[j].culistid \in 0..(c - 1)
                             /\ captures_keyframe(ks[j].culistid)
    <3>0. ks \in Seq(Keyframe)
      BY <2>1 DEF Runtime
    <3>1. \A j \in DOMAIN ks : ks[j] \in Keyframe
      BY <3>0
    <3>2. \A j \in DOMAIN ks : ks[j].culistid \in Nat
      BY <3>1 DEF Keyframe
    <3> QED
      BY <1>1, <2>1, <3>2 DEF Kept
  <2>6. {k.culistid : k \in ToSet(ks)} = {ks[j].culistid : j \in DOMAIN ks}
    BY <2>4
  <2>7. \A id \in 0..(c - 1) :
          captures_keyframe(id) => \E j \in DOMAIN ks : ks[j].culistid = id
    BY <2>1 DEF Kept
  <2> HIDE DEF ks, c
  <2>8. {ks[j].culistid : j \in DOMAIN ks} = {id \in 0..(c - 1) : captures_keyframe(id)}
    BY <2>5, <2>7
  <2>9. \A j, k \in DOMAIN ks : j < k => ks[j].culistid < ks[k].culistid
    BY <2>1 DEF Kept
  <2> QED
    BY <2>3, <2>4, <2>5, <2>6, <2>8, <2>9
<1>6. Shows(s, replay_times(log)) /\ s.app # Mixed
  BY DEF Followed
<1> QED
  BY <1>2, <1>3, <1>4, <1>5, <1>6

LEMMA FleetFaithful == FleetInv => OutputFaithful
<1> SUFFICES ASSUME FleetInv PROVE OutputFaithful
  OBVIOUS
<1>1. \A i \in DOMAIN fleet : WellFormed(fleet[i])
  BY FleetAssumption DEF FleetInv, EngineInv
<1>2. \A i \in DOMAIN fleet :
        Followed(fleet[i], i, sessions[i], runtimes[i], executed, frontier[i])
  BY DEF FleetInv
<1> QED
  BY <1>1, <1>2, FollowedFaithfully DEF OutputFaithful

\* A new engine.
LEMMA FreshFollowed ==
  ASSUME NEW log, WellFormed(log), NEW i
  PROVE  Followed(log, i, NewSession, NewRuntime, {}, None)
<1>1. NewSession \in Session /\ NewSession.current = 0 /\ NewSession.app # Mixed
  BY NewSessionFields
<1>2. DOMAIN Lists(log) = 1..Len(Lists(log)) /\ Len(Lists(log)) \in Nat
  BY LogFields
<1>3. Shows(NewSession, replay_times(log))
  BY <1>1 DEF Shows
<1>4. NewManager \in Manager /\ ~NewManager.locked
  <2>1. <<>> \in Seq(Frozen) /\ NoTime \in Int
    BY DEF NoTime
  <2> QED
    BY <2>1 DEF NewManager, Manager
<1>5. /\ NewRuntime.next_clid = 0 /\ NewRuntime.kf = NewManager
      /\ NewRuntime.lists = <<>> /\ NewRuntime.keyframes = <<>>
  BY DEF NewRuntime
<1>6. NewRuntime \in Runtime
  <2> DEFINE no == <<>>
  <2>1. no \in Seq(Nat) /\ no \in Seq(Keyframe)
    OBVIOUS
  <2> HIDE DEF no
  <2>2. NewRuntime = [next_clid |-> 0, kf |-> NewManager, lists |-> no, keyframes |-> no]
    BY DEF NewRuntime, no
  <2> QED
    BY <1>4, <2>1, <2>2 DEF Runtime
<1>7. Kept(log, 0, <<>>)
  BY DEF Kept
<1>8. <<>> = [m \in 1..0 |-> Lists(log)[m].id]
  OBVIOUS
<1>9. Copied(log, 0, NewRuntime)
  BY <1>4, <1>5, <1>6, <1>7, <1>8 DEF Copied
<1> QED
  BY <1>1, <1>2, <1>3, <1>9 DEF Followed

\* The next list of the log is replayed, or nothing of it is.
LEMMA FollowedStep ==
  ASSUME NEW log, WellFormed(log), NEW i, NEW s, NEW rt, NEW done, NEW front,
         Followed(log, i, s, rt, done, front), NEW n \in DOMAIN Lists(log),
         s.current = n - 1, NEW o \in goto_index(log, s, n, replay_times(log)),
         \A m \in o.ran : Replayable(log, m)
  PROVE  LET node == <<i, Lists(log)[n].id>>
             after == RunLists(rt, log, o.ran)
         IN  /\ o.ok => Followed(log, i, o.session, after, done \cup {node},
                                 Lists(log)[n].id)
             /\ ~o.ok => Followed(log, i, o.session, after, done, front)
<1> DEFINE L == Len(Lists(log))
           times == replay_times(log)
           node == <<i, Lists(log)[n].id>>
           after == RunLists(rt, log, o.ran)
<1>1. /\ L \in Nat /\ DOMAIN Lists(log) = 1..L /\ n \in Nat \ {0}
      /\ \A l, m \in DOMAIN Lists(log) :
           Lists(log)[l].id <= Lists(log)[m].id <=> l <= m
      /\ \A m \in DOMAIN Lists(log) : m \in Nat /\ Lists(log)[m].id \in Nat
  BY LogFields
<1>2. /\ s \in Session /\ s.current \in 0..L /\ s.app # Mixed /\ Shows(s, times)
      /\ \A m \in DOMAIN Lists(log) : <<i, Lists(log)[m].id>> \in done <=> m <= s.current
      /\ s.current # 0 => front = Lists(log)[s.current].id
      /\ Copied(log, s.current, rt)
  BY DEF Followed
<1>3. Arrived(o, s, n, times, L) /\ Stepped(o, s, n)
  BY <1>2, TimesReplayed, GotoArrives
<1>4. /\ o.session \in Session /\ o.session.current \in 0..L
      /\ o.session.app # Mixed /\ Shows(o.session, times)
  BY <1>3 DEF Arrived
<1>5. ASSUME o.ok
      PROVE  Followed(log, i, o.session, after, done \cup {node}, Lists(log)[n].id)
  <2>1. o.session.current = n /\ o.ran = {n}
    BY <1>3, <1>5 DEF Arrived, Stepped
  <2>2. Copied(log, n, after)
    BY <1>2, <2>1, CopiedOne
  <2>3. ASSUME NEW m \in DOMAIN Lists(log)
        PROVE  <<i, Lists(log)[m].id>> \in done \cup {node} <=> m <= n
    <3>1. <<i, Lists(log)[m].id>> = node <=> m = n
      <4>1. <<i, Lists(log)[m].id>> = node <=> Lists(log)[m].id = Lists(log)[n].id
        OBVIOUS
      <4>2. Lists(log)[m].id = Lists(log)[n].id => m <= n /\ n <= m
        BY <1>1
      <4> QED
        BY <1>1, <4>1, <4>2
    <3>2. <<i, Lists(log)[m].id>> \in done <=> m <= n - 1
      BY <1>2
    <3>3. m <= n <=> m <= n - 1 \/ m = n
      BY <1>1
    <3> QED
      BY <3>1, <3>2, <3>3
  <2> HIDE DEF node, after
  <2> QED
    BY <1>4, <2>1, <2>2, <2>3 DEF Followed
<1>6. ASSUME ~o.ok
      PROVE  Followed(log, i, o.session, after, done, front)
  <2>1. o.session.current = s.current /\ o.ran = {}
    BY <1>3, <1>6 DEF Stepped
  <2>2. after = rt
    BY <2>1 DEF RunLists
  <2> HIDE DEF after
  <2> QED
    BY <1>2, <1>4, <2>1, <2>2 DEF Followed
<1> QED
  BY <1>5, <1>6

\* The node whose turn it is is the next list of its log.
LEMMA TurnInLog ==
  ASSUME FleetInv, NEW node \in NextReady,
         NEW n \in index_for_culistid(fleet[node[1]], node[2])
  PROVE  LET i == node[1] IN
         /\ i \in DOMAIN fleet /\ WellFormed(fleet[i])
         /\ n \in DOMAIN Lists(fleet[i]) /\ node = <<i, Lists(fleet[i])[n].id>>
         /\ sessions[i].current = n - 1
<1>1. node \in Nodes(fleet) /\ node \notin executed /\ Waiting(node) = {}
  BY ReadyByWaiting DEF FleetInv, EngineInv, ReadyIsReady, NextReady
<1>a. PICK i \in DOMAIN fleet : \E id \in Ids(fleet[i]) : node = <<i, id>>
  BY <1>1 DEF Nodes
<1>2. PICK id \in Ids(fleet[i]) : node = <<i, id>>
  BY <1>a
<1> DEFINE log == fleet[i]
           lists == Lists(log)
           L == Len(lists)
           c == sessions[i].current
<1>3. node[1] = i /\ node[2] = id
  BY <1>2
<1>4. WellFormed(log) /\ Followed(log, i, sessions[i], runtimes[i], executed, frontier[i])
  BY FleetAssumption DEF FleetInv, EngineInv
<1>5. n \in DOMAIN lists /\ lists[n].id = id
  BY <1>3, <1>4, FoundById
<1>6. /\ L \in Nat /\ DOMAIN lists = 1..L /\ n \in Nat \ {0}
      /\ c \in Nat /\ \A m \in DOMAIN lists : <<i, lists[m].id>> \in executed <=> m <= c
  <2>1. c \in 0..L /\ \A m \in DOMAIN lists : <<i, lists[m].id>> \in executed <=> m <= c
    BY <1>4 DEF Followed
  <2>2. L \in Nat /\ DOMAIN lists = 1..L /\ n \in Nat \ {0}
    BY <1>4, <1>5, LogFields
  <2> QED
    BY <2>1, <2>2
<1>7. ~(n <= c)
  BY <1>1, <1>2, <1>5, <1>6
<1>8. n # 1 => n - 1 <= c
  <2> HAVE n # 1
  <2> DEFINE m == n - 1
             before == <<i, lists[m].id>>
  <2>1. m \in 1..(L - 1) /\ m \in DOMAIN lists /\ m + 1 = n
    BY <1>5, <1>6
  <2>2. <<before, <<i, lists[m + 1].id>>>> \in LogEdges(fleet)
    BY <2>1 DEF LogEdges
  <2>3. <<before, node>> \in Edges(fleet)
    BY <1>2, <1>5, <2>1, <2>2 DEF Edges
  <2>4. before \in Nodes(fleet)
    BY <2>1 DEF Nodes, Ids
  <2>5. before \in executed
    BY <1>1, <2>3, <2>4 DEF Waiting, Sources
  <2> QED
    BY <1>6, <2>1, <2>5
<1>9. c = n - 1
  <2> HIDE DEF c
  <2> QED
    BY <1>6, <1>7, <1>8
<1> QED
  BY <1>2, <1>3, <1>4, <1>5, <1>9

LEMMA StepFollows ==
  ASSUME FleetInv, StepCausal
  PROVE  FleetInv'
<1>1. PICK node \in NextReady :
        \E n \in index_for_culistid(fleet[node[1]], node[2]) :
        \E o \in goto_index(fleet[node[1]], sessions[node[1]], n,
                            replay_times(fleet[node[1]])) :
          /\ \A m \in o.ran : Replayable(fleet[node[1]], m)
          /\ sessions' = [sessions EXCEPT ![node[1]] = o.session]
          /\ runtimes' = [runtimes EXCEPT ![node[1]] =
                            RunLists(@, fleet[node[1]], o.ran)]
          /\ IF o.ok THEN Replayed(node) ELSE Failed(node)
  BY DEF StepCausal
<1> DEFINE i == node[1]
           log == fleet[i]
<1>2. PICK n \in index_for_culistid(log, node[2]) :
        \E o \in goto_index(log, sessions[i], n, replay_times(log)) :
          /\ \A m \in o.ran : Replayable(log, m)
          /\ sessions' = [sessions EXCEPT ![i] = o.session]
          /\ runtimes' = [runtimes EXCEPT ![i] = RunLists(runtimes[i], log, o.ran)]
          /\ IF o.ok THEN Replayed(node) ELSE Failed(node)
  BY <1>1
<1>3. PICK o \in goto_index(log, sessions[i], n, replay_times(log)) :
        /\ \A m \in o.ran : Replayable(log, m)
        /\ sessions' = [sessions EXCEPT ![i] = o.session]
        /\ runtimes' = [runtimes EXCEPT ![i] = RunLists(runtimes[i], log, o.ran)]
        /\ IF o.ok THEN Replayed(node) ELSE Failed(node)
  BY <1>2
<1>4. /\ i \in DOMAIN fleet /\ WellFormed(log)
      /\ n \in DOMAIN Lists(log) /\ node = <<i, Lists(log)[n].id>>
      /\ sessions[i].current = n - 1
  BY TurnInLog
<1>5. fleet' = fleet /\ EngineInv'
  <2>1. fleet' = fleet
    BY DEF StepCausal
  <2> QED
    BY <2>1, NextInv DEF FleetInv, EngineNext
<1> DEFINE after == RunLists(runtimes[i], log, o.ran)
<1>6. /\ \A j \in DOMAIN fleet :
           Followed(fleet[j], j, sessions[j], runtimes[j], executed, frontier[j])
      /\ DOMAIN sessions = DOMAIN fleet /\ sessions = [j \in DOMAIN fleet |-> sessions[j]]
      /\ DOMAIN runtimes = DOMAIN fleet /\ runtimes = [j \in DOMAIN fleet |-> runtimes[j]]
      /\ DOMAIN frontier = DOMAIN fleet
  BY DEF FleetInv
<1>7. /\ o.ok => Followed(log, i, o.session, after, executed \cup {node},
                          Lists(log)[n].id)
      /\ ~o.ok => Followed(log, i, o.session, after, executed, frontier[i])
  <2>1. Followed(log, i, sessions[i], runtimes[i], executed, frontier[i])
    BY <1>4, <1>6
  <2> HIDE DEF i, log
  <2> QED
    BY <1>3, <1>4, <2>1, FollowedStep
<1> HIDE DEF i, log, after
<1>8. /\ DOMAIN sessions' = DOMAIN fleet
      /\ sessions' = [j \in DOMAIN fleet |-> sessions'[j]]
      /\ sessions'[i] = o.session
      /\ \A j \in DOMAIN fleet : j # i => sessions'[j] = sessions[j]
  BY <1>3, <1>4, <1>6
<1>9. /\ DOMAIN runtimes' = DOMAIN fleet
      /\ runtimes' = [j \in DOMAIN fleet |-> runtimes'[j]]
      /\ runtimes'[i] = after
      /\ \A j \in DOMAIN fleet : j # i => runtimes'[j] = runtimes[j]
  BY <1>3, <1>4, <1>6 DEF after
<1>10. CASE o.ok
  <2>1. executed' = executed \cup {node}
        /\ frontier' = [frontier EXCEPT ![node[1]] = node[2]]
    BY <1>3, <1>10 DEF Replayed
  <2>2. node[1] = i /\ node[2] = Lists(log)[n].id
    BY <1>4
  <2>3. /\ DOMAIN frontier' = DOMAIN fleet /\ frontier'[i] = Lists(log)[n].id
        /\ \A j \in DOMAIN fleet : j # i => frontier'[j] = frontier[j]
    BY <1>4, <1>6, <2>1, <2>2
  <2>4. ASSUME NEW j \in DOMAIN fleet
        PROVE  Followed(fleet[j], j, sessions'[j], runtimes'[j], executed', frontier'[j])
    <3>1. CASE j = i
      BY <1>7, <1>8, <1>9, <1>10, <2>1, <2>3, <3>1 DEF log
    <3>2. CASE j # i
      <4>1. Followed(fleet[j], j, sessions[j], runtimes[j], executed, frontier[j])
        BY <1>6
      <4>2. \A x : <<j, x>> \in executed' <=> <<j, x>> \in executed
        BY <1>4, <2>1, <3>2
      <4>3. Followed(fleet[j], j, sessions[j], runtimes[j], executed', frontier[j])
        BY <4>1, <4>2 DEF Followed
      <4> QED
        BY <1>8, <1>9, <2>3, <3>2, <4>3
    <3> QED
      BY <3>1, <3>2
  <2> QED
    BY <1>5, <1>8, <1>9, <2>3, <2>4 DEF FleetInv
<1>11. CASE ~o.ok
  <2>1. executed' = executed /\ frontier' = frontier
    BY <1>3, <1>11 DEF Failed
  <2>2. ASSUME NEW j \in DOMAIN fleet
        PROVE  Followed(fleet[j], j, sessions'[j], runtimes'[j], executed', frontier'[j])
    <3>1. CASE j = i
      BY <1>7, <1>8, <1>9, <1>11, <2>1, <3>1 DEF log
    <3>2. CASE j # i
      BY <1>6, <1>8, <1>9, <2>1, <3>2
    <3> QED
      BY <3>1, <3>2
  <2> QED
    BY <1>5, <1>6, <1>8, <1>9, <2>1, <2>2 DEF FleetInv
<1> QED
  BY <1>10, <1>11

LEMMA BuiltFollows ==
  ASSUME \A i \in DOMAIN fleet : WellFormed(fleet[i]), Built(fleet), fleet' = fleet,
         EngineInv'
  PROVE  FleetInv'
<1>1. /\ sessions' = [i \in DOMAIN fleet |-> NewSession]
      /\ runtimes' = [i \in DOMAIN fleet |-> NewRuntime]
      /\ frontier' = [i \in DOMAIN fleet |-> None] /\ executed' = {}
  BY DEF Built
<1>2. ASSUME NEW i \in DOMAIN fleet
      PROVE  Followed(fleet[i], i, sessions'[i], runtimes'[i], executed', frontier'[i])
  BY <1>1, FreshFollowed
<1>3. /\ DOMAIN sessions' = DOMAIN fleet /\ sessions' = [i \in DOMAIN fleet |-> sessions'[i]]
      /\ DOMAIN runtimes' = DOMAIN fleet /\ runtimes' = [i \in DOMAIN fleet |-> runtimes'[i]]
      /\ DOMAIN frontier' = DOMAIN fleet
  BY <1>1
<1> QED
  BY <1>2, <1>3 DEF FleetInv

LEMMA EngineInitFollows == EngineInit => FleetInv
<1> SUFFICES ASSUME EngineInit PROVE FleetInv
  OBVIOUS
<1>0. EngineInv
  BY InitInv
<1>1. /\ sessions = [i \in DOMAIN fleet |-> NewSession]
      /\ runtimes = [i \in DOMAIN fleet |-> NewRuntime]
      /\ frontier = [i \in DOMAIN fleet |-> None] /\ executed = {}
      /\ \A i \in DOMAIN fleet : WellFormed(fleet[i])
  BY FleetAssumption DEF EngineInit
<1>2. ASSUME NEW i \in DOMAIN fleet
      PROVE  Followed(fleet[i], i, sessions[i], runtimes[i], executed, frontier[i])
  BY <1>1, FreshFollowed
<1>3. /\ DOMAIN sessions = DOMAIN fleet /\ sessions = [i \in DOMAIN fleet |-> sessions[i]]
      /\ DOMAIN runtimes = DOMAIN fleet /\ runtimes = [i \in DOMAIN fleet |-> runtimes[i]]
      /\ DOMAIN frontier = DOMAIN fleet
  BY <1>1
<1> QED
  BY <1>0, <1>2, <1>3 DEF FleetInv

\* A session whose tasks were stopped stands where it stood.
LEMMA StoppedFollows ==
  ASSUME NEW log, NEW i, NEW s, NEW rt, NEW done, NEW front,
         Followed(log, i, s, rt, done, front)
  PROVE  Followed(log, i, [s EXCEPT !.started = FALSE], rt, done, front)
<1> DEFINE r == [s EXCEPT !.started = FALSE]
<1>1. s \in Session
  BY DEF Followed
<1>2. r \in Session /\ r.current = s.current /\ r.app = s.app /\ r.clock = s.clock
  BY <1>1 DEF Session
<1> HIDE DEF r
<1>3. Followed(log, i, r, rt, done, front)
  BY <1>2 DEF Followed, Shows
<1> QED
  BY <1>3 DEF r

LEMMA ResetFailsFollows ==
  ASSUME FleetInv, ResetFails
  PROVE  FleetInv'
<1>1. PICK stopped \in 0..Len(fleet) :
        sessions' = [i \in DOMAIN fleet |->
                       IF i <= stopped THEN [sessions[i] EXCEPT !.started = FALSE]
                       ELSE sessions[i]]
  BY DEF ResetFails
<1>2. UNCHANGED <<fleet, runtimes, executed, frontier>> /\ EngineInv'
  <2>1. UNCHANGED <<fleet, runtimes, executed, frontier>>
    BY DEF ResetFails
  <2>2. EngineInv'
    BY NextInv DEF FleetInv, EngineNext
  <2> QED
    BY <2>1, <2>2
<1>3. ASSUME NEW i \in DOMAIN fleet
      PROVE  Followed(fleet[i], i, sessions'[i], runtimes[i], executed, frontier[i])
  <2> DEFINE r == [sessions[i] EXCEPT !.started = FALSE]
  <2>1. Followed(fleet[i], i, sessions[i], runtimes[i], executed, frontier[i])
    BY DEF FleetInv
  <2>2. Followed(fleet[i], i, r, runtimes[i], executed, frontier[i])
    BY <2>1, StoppedFollows
  <2>3. sessions'[i] = r \/ sessions'[i] = sessions[i]
    BY <1>1
  <2> HIDE DEF r
  <2> QED
    BY <2>1, <2>2, <2>3
<1>4. DOMAIN sessions' = DOMAIN fleet /\ sessions' = [i \in DOMAIN fleet |-> sessions'[i]]
  BY <1>1
<1> QED
  BY <1>2, <1>3, <1>4 DEF FleetInv

LEMMA EngineNextFollows ==
  ASSUME FleetInv, [EngineNext]_engine_vars
  PROVE  FleetInv'
<1>0. EngineInv'
  BY NextInv DEF FleetInv
<1>1. \A i \in DOMAIN fleet : WellFormed(fleet[i])
  BY FleetAssumption DEF FleetInv, EngineInv
<1>2. CASE Reset \/ \E node \in Nodes(fleet) : Goto(node)
  <2>1. Built(fleet) /\ fleet' = fleet
    BY <1>2 DEF Reset, Goto
  <2> QED
    BY <1>0, <1>1, <2>1, BuiltFollows
<1>3. CASE NothingReady \/ Call \/ UNCHANGED engine_vars
  <2>1. UNCHANGED <<fleet, sessions, runtimes, executed, frontier>>
    BY <1>3 DEF NothingReady, Call, engine_vars
  <2> QED
    BY <1>0, <2>1 DEF FleetInv
<1> QED
  BY <1>2, <1>3, StepFollows, ResetFailsFollows DEF EngineNext

(* Whichever calls are made and whichever lists fail to replay, each log is  *)
(* replayed list by list, and the new log has these lists and, where the old *)
(* one lost none, for each one that the runtime captures one for a keyframe: *)
(* the recorded one as it was, or what was frozen before the list.           *)
THEOREM ReplayIsFaithful == EngineSpec => []OutputFaithful
BY EngineInitFollows, EngineNextFollows, FleetFaithful, PTL DEF EngineSpec

=============================================================================
