-------------------------- MODULE ReleaseGCProofs --------------------------
(***************************************************************************)
(* That the worker of ReleaseGC deletes no release it should keep, for any *)
(* number of releases and any settings: the loops keep at most             *)
(* minSuccessful releases unconditionally, and a newer one than each they  *)
(* do not keep, if that is Released or more are kept than successful ones; *)
(* and what happens between the query and the delete takes neither away.   *)
(*                                                                         *)
(* And that Keep, of which all this is proved, is what the loops of the    *)
(* worker keep.                                                            *)
(***************************************************************************)
EXTENDS ReleaseGC, FiniteSetTheorems, TLAPS

\* Whether cfg keeps a newer release than s if it does not keep s: more releases are
\* kept than successful ones, or s is Released.
Succeeded(cfg, s) == cfg.limit > cfg.minSuccessful \/ s.state = "Released"

\* Ids and sequences are given once.
GivenOnce ==
  /\ \A s, t \in rows : s.id = t.id \/ s.seq = t.seq => s = t
  /\ \A s \in rows : s.id <= created /\ s.seq <= created

\* What has been read is still right when the rows are deleted.
DoomedOK ==
  gc.pc = "delete" =>
    /\ \A i \in gc.doomed : i <= created
    /\ \A s \in rows : s.id \in gc.doomed =>
         /\ s.state \in Terminal
         /\ s.state = "Released" =>
              Cardinality(Newer(Released(rows), s)) >= gc.settings.minSuccessful
         /\ Succeeded(gc.settings, s) => \E t \in rows : t.id \notin gc.doomed /\ t.seq > s.seq

IInv == TypeOK /\ IsFiniteSet(rows) /\ GivenOnce /\ DoomedOK

-----------------------------------------------------------------------------
(***************************************************************************)
(* What is kept.                                                           *)
(***************************************************************************)
\* Of a set of releases with different sequences, at most minSuccessful are kept
\* because they are Released: the number of newer ones tells them apart.
LEMMA FewSuccessful ==
  ASSUME NEW c \in SUBSET Rows, IsFiniteSet(c), \A s, t \in c : s.seq = t.seq => s = t,
         NEW cfg \in Settings
  PROVE  /\ IsFiniteSet(Successful(c, cfg))
         /\ Cardinality(Successful(c, cfg)) <= cfg.minSuccessful
<1> DEFINE rel == Released(c)
           rank == [s \in Successful(c, cfg) |-> Cardinality(Newer(rel, s))]
<1>0. cfg.minSuccessful \in Nat \ {0}
  BY SettingsAssumption
<1>1. IsFiniteSet(rel)
  BY FS_Subset DEF Released
<1>2. \A s : IsFiniteSet(Newer(rel, s)) /\ Cardinality(Newer(rel, s)) \in Nat
  <2> TAKE s
  <2>1. Newer(rel, s) \in SUBSET rel
    BY DEF Newer
  <2> QED BY <1>1, <2>1, FS_Subset, FS_CardinalityType
<1>3. ASSUME NEW s \in rel, NEW t \in rel, s.seq < t.seq
      PROVE  Cardinality(Newer(rel, t)) < Cardinality(Newer(rel, s))
  <2>1. s.seq \in Nat /\ t.seq \in Nat /\ \A u \in rel : u.seq \in Nat
    BY MaxReleasesAssumption DEF Released, Rows, Ids
  <2>2. Newer(rel, t) \in SUBSET Newer(rel, s)
    BY <1>3, <2>1 DEF Newer
  <2>3. t \in Newer(rel, s) /\ t \notin Newer(rel, t)
    BY <1>3, <2>1 DEF Newer
  <2> HIDE DEF rel
  <2> QED BY <1>2, <2>2, <2>3, FS_Subset
<1>4. rank \in [Successful(c, cfg) -> 0 .. cfg.minSuccessful - 1]
  BY <1>0, <1>2 DEF Successful
<1>5. \A s, t \in Successful(c, cfg) : rank[s] = rank[t] => s = t
  <2> SUFFICES ASSUME NEW s \in Successful(c, cfg), NEW t \in Successful(c, cfg), s # t
               PROVE  Cardinality(Newer(rel, s)) # Cardinality(Newer(rel, t))
    OBVIOUS
  <2>1. s \in rel /\ t \in rel /\ s.seq # t.seq /\ s.seq \in Nat /\ t.seq \in Nat
    BY MaxReleasesAssumption DEF Successful, Released, Rows, Ids
  <2>2. s.seq < t.seq \/ t.seq < s.seq
    BY <2>1
  <2> HIDE DEF rel
  <2> QED BY <1>2, <1>3, <2>1, <2>2
<1>6. rank \in Injection(Successful(c, cfg), 0 .. cfg.minSuccessful - 1)
  BY <1>4, <1>5 DEF Injection, IsInjective
<1>7. IsFiniteSet(0 .. cfg.minSuccessful - 1)
      /\ Cardinality(0 .. cfg.minSuccessful - 1) = cfg.minSuccessful
  <2>1. 0 \in Int /\ cfg.minSuccessful - 1 \in Int /\ ~(0 > cfg.minSuccessful - 1)
        /\ (cfg.minSuccessful - 1) - 0 + 1 = cfg.minSuccessful
    BY <1>0
  <2> QED BY <2>1, FS_Interval
<1> QED BY <1>6, <1>7, FS_Injection

\* A set of releases that is not empty has a newest one.
LEMMA Newest ==
  ASSUME NEW c \in SUBSET Rows, c # {}
  PROVE  \E t \in c : \A s \in c : s.seq <= t.seq
<1> DEFINE age == {MaxReleases - s.seq : s \in c}
<1>1. age \subseteq Nat /\ age # {}
  BY MaxReleasesAssumption DEF Rows, Ids
<1>2. PICK a \in age : \A b \in age : ~ (<<b, a>> \in OpToRel(<, Nat))
  <2> HIDE DEF age
  <2> QED BY <1>1, NatLessThanWellFounded, WFMin
<1>3. \A b \in age : ~ (b < a)
  BY <1>1, <1>2 DEF OpToRel
<1>4. PICK t \in c : a = MaxReleases - t.seq
  OBVIOUS
<1>5. ASSUME NEW s \in c PROVE s.seq <= t.seq
  <2>1. s.seq \in Nat /\ t.seq \in Nat /\ MaxReleases \in Nat
    BY MaxReleasesAssumption DEF Rows, Ids
  <2>2. ~ (MaxReleases - s.seq < MaxReleases - t.seq)
    BY <1>3, <1>4
  <2> QED BY <2>1, <2>2
<1> QED BY <1>5

\* With room to fill, a release that is not kept has a newer one that is.
LEMMA NewestKept ==
  ASSUME NEW c \in SUBSET Rows, IsFiniteSet(c), \A s, t \in c : s.seq = t.seq => s = t,
         NEW cfg \in Settings, cfg.limit > cfg.minSuccessful, NEW s \in c \ Keep(c, cfg)
  PROVE  \E t \in Keep(c, cfg) : t \in c /\ t.seq > s.seq
<1> DEFINE kept == Successful(c, cfg)
<1>0. cfg.minSuccessful \in Nat /\ cfg.limit \in Nat
  BY SettingsAssumption
<1>1. IsFiniteSet(kept) /\ Cardinality(kept) \in Nat /\ Cardinality(kept) < cfg.limit
  BY <1>0, FewSuccessful, FS_CardinalityType
<1>2. PICK t \in c : \A u \in c : u.seq <= t.seq
  BY Newest
<1>3. \A u \in c : u.seq \in Nat
  BY MaxReleasesAssumption DEF Rows, Ids
<1>4. Newer(c, t) = {}
  BY <1>2, <1>3 DEF Newer
<1>5. kept \cup Newer(c, t) = kept
  BY <1>4
<1>6. t \in Keep(c, cfg)
  BY <1>1, <1>5 DEF Keep
<1>7. Newer(c, s) # {}
  BY <1>1 DEF Keep
<1> QED BY <1>2, <1>3, <1>6, <1>7 DEF Newer

\* Whatever the settings, a Released release that is not kept has a newer one that is:
\* the newest of all is.
LEMMA NewestReleasedKept ==
  ASSUME NEW c \in SUBSET Rows, NEW cfg \in Settings, NEW s \in c \ Keep(c, cfg),
         s.state = "Released"
  PROVE  \E t \in Keep(c, cfg) : t \in c /\ t.seq > s.seq
<1>1. s \in Released(c) /\ Released(c) \in SUBSET Rows /\ Released(c) \subseteq c
  BY DEF Released
<1>2. PICK t \in Released(c) : \A u \in Released(c) : u.seq <= t.seq
  BY <1>1, Newest
<1>3. \A u \in c : u.seq \in Nat
  BY MaxReleasesAssumption DEF Rows, Ids
<1>4. Newer(Released(c), t) = {}
  BY <1>1, <1>2, <1>3 DEF Newer
<1>5. Cardinality(Newer(Released(c), t)) < cfg.minSuccessful
  BY <1>4, FS_EmptySet, SettingsAssumption
<1>6. t \in Keep(c, cfg)
  BY <1>5 DEF Keep, Successful
<1>7. s \notin Successful(c, cfg)
  BY DEF Keep
<1>8. Newer(Released(c), s) # {}
  BY <1>1, <1>7, FS_EmptySet, SettingsAssumption DEF Successful
<1>9. PICK u \in Released(c) : u.seq > s.seq
  BY <1>8 DEF Newer
<1> QED BY <1>1, <1>2, <1>3, <1>6, <1>9

\* A Released release that is not kept has as many newer ones as are asked for.
LEMMA ReleasedMadeUpFor ==
  ASSUME NEW c \in SUBSET Rows, IsFiniteSet(c), NEW cfg \in Settings,
         NEW s \in c \ Keep(c, cfg), s.state = "Released"
  PROVE  Cardinality(Newer(Released(c), s)) >= cfg.minSuccessful
<1>1. s \in Released(c) /\ s \notin Successful(c, cfg)
  BY DEF Keep, Released
<1>2. Newer(Released(c), s) \in SUBSET c
  BY DEF Newer, Released
<1>3. Cardinality(Newer(Released(c), s)) \in Nat
  BY <1>2, FS_Subset, FS_CardinalityType
<1> QED BY <1>1, <1>3, SettingsAssumption DEF Successful

-----------------------------------------------------------------------------
(***************************************************************************)
(* The loops.  What a loop has kept after some releases has a closed form, *)
(* which says that the recursive function of Fill exists, and what it is:  *)
(* of the releases so far, those that it looks for, and before which fewer *)
(* than the bound were kept.  The closed form meets the recursion because  *)
(* the loop has either reached its bound or kept everything it looks for.  *)
(***************************************************************************)
Distinct(c) == c \in SUBSET Rows /\ IsFiniteSet(c) /\ \A s, t \in c : s.seq = t.seq => s = t

Descends(d, c) ==
  /\ d \in [1 .. Cardinality(c) -> c]
  /\ \A i, j \in 1 .. Cardinality(c) : i < j => d[i].seq > d[j].seq

\* The set of natural numbers that break a property has a least element: induction.
LEMMA LeastBreak ==
  ASSUME NEW broken \in SUBSET Nat, broken # {}
  PROVE  \E i \in broken : \A j \in broken : ~ (j < i)
<1>1. PICK i \in broken : \A j \in broken : ~ (<<j, i>> \in OpToRel(<, Nat))
  BY NatLessThanWellFounded, WFMin
<1> QED BY <1>1 DEF OpToRel

LEMMA SequenceIsNat ==
  ASSUME NEW c, Distinct(c), NEW s \in c
  PROVE  s.seq \in Nat
BY MaxReleasesAssumption DEF Distinct, Rows, Ids

LEMMA NewerFinite ==
  ASSUME NEW c, IsFiniteSet(c), NEW s
  PROVE  IsFiniteSet(Newer(c, s)) /\ Cardinality(Newer(c, s)) \in Nat
<1>1. Newer(c, s) \in SUBSET c
  BY DEF Newer
<1> QED BY <1>1, FS_Subset, FS_CardinalityType

\* The number of newer releases orders them.
LEMMA RankDescends ==
  ASSUME NEW c, Distinct(c), NEW s \in c, NEW t \in c, s.seq < t.seq
  PROVE  Cardinality(Newer(c, t)) < Cardinality(Newer(c, s))
<1>1. \A u \in c : u.seq \in Nat
  BY SequenceIsNat
<1>2. Newer(c, t) \in SUBSET Newer(c, s) /\ t \in Newer(c, s) /\ t \notin Newer(c, t)
  BY <1>1 DEF Newer
<1>3. IsFiniteSet(c)
  BY DEF Distinct
<1> QED BY <1>2, <1>3, NewerFinite, FS_Subset

\* Releases with different sequences can be sorted.
LEMMA CanBeSorted ==
  ASSUME NEW c, Distinct(c)
  PROVE  Descends(bySeqDesc(c), c)
<1> DEFINE n == Cardinality(c)
           rank == [s \in c |-> Cardinality(Newer(c, s)) + 1]
           d == [i \in 1 .. n |-> CHOOSE s \in c : rank[s] = i]
<1>0. IsFiniteSet(c) /\ n \in Nat /\ IsFiniteSet(1 .. n) /\ Cardinality(1 .. n) = n
  <2>1. IsFiniteSet(c) /\ n \in Nat
    BY FS_CardinalityType DEF Distinct
  <2>2. IsFiniteSet(1 .. n) /\ Cardinality(1 .. n) = IF 1 > n THEN 0 ELSE n - 1 + 1
    <3> HIDE DEF n
    <3> QED BY <2>1, FS_Interval
  <2> QED BY <2>1, <2>2
<1>1. ASSUME NEW s \in c PROVE rank[s] \in 1 .. n
  <2>1. Newer(c, s) \in SUBSET (c \ {s})
    BY SequenceIsNat DEF Newer
  <2>2. IsFiniteSet(c \ {s}) /\ Cardinality(c \ {s}) = n - 1
    BY <1>0, FS_RemoveElement
  <2>3. Cardinality(Newer(c, s)) <= n - 1 /\ Cardinality(Newer(c, s)) \in Nat
    BY <1>0, <2>1, <2>2, FS_Subset, NewerFinite
  <2> HIDE DEF n
  <2> QED BY <1>0, <2>3
<1>2. \A s, t \in c : rank[s] = rank[t] => s = t
  <2> SUFFICES ASSUME NEW s \in c, NEW t \in c, s # t
               PROVE  Cardinality(Newer(c, s)) + 1 # Cardinality(Newer(c, t)) + 1
    OBVIOUS
  <2>1. s.seq \in Nat /\ t.seq \in Nat /\ s.seq # t.seq
    BY SequenceIsNat DEF Distinct
  <2>2. s.seq < t.seq \/ t.seq < s.seq
    BY <2>1
  <2>3. Cardinality(Newer(c, s)) \in Nat /\ Cardinality(Newer(c, t)) \in Nat
    BY <1>0, NewerFinite
  <2> QED BY <2>2, <2>3, RankDescends
<1>3. rank \in Injection(c, 1 .. n)
  <2>1. rank \in [c -> 1 .. n]
    <3> HIDE DEF n
    <3> QED BY <1>1
  <2> HIDE DEF rank
  <2> QED BY <1>2, <2>1 DEF Injection, IsInjective
<1>4. rank \in Surjection(c, 1 .. n)
  <2> HIDE DEF rank, n
  <2> QED BY <1>0, <1>3, FS_Injection DEF n
<1>5. ASSUME NEW i \in 1 .. n PROVE d[i] \in c /\ rank[d[i]] = i
  <2>1. \E s \in c : rank[s] = i
    <3> HIDE DEF rank, n
    <3> QED BY <1>4 DEF Surjection
  <2> HIDE DEF rank, n
  <2> QED BY <2>1
<1>6. ASSUME NEW i \in 1 .. n, NEW j \in 1 .. n, i < j PROVE d[i].seq > d[j].seq
  <2>1. d[i] \in c /\ d[j] \in c /\ d[i].seq \in Nat /\ d[j].seq \in Nat
    BY <1>5, SequenceIsNat
  <2>2. Cardinality(Newer(c, d[i])) + 1 = i /\ Cardinality(Newer(c, d[j])) + 1 = j
    <3> HIDE DEF d, n
    <3> QED BY <1>5, <2>1
  <2>3. Cardinality(Newer(c, d[i])) \in Nat /\ Cardinality(Newer(c, d[j])) \in Nat
    BY <1>0, NewerFinite
  <2> HIDE DEF d
  <2>4. Cardinality(Newer(c, d[i])) < Cardinality(Newer(c, d[j]))
    BY <1>6, <2>2, <2>3
  <2>5. d[i] # d[j] /\ ~ (d[i].seq < d[j].seq)
    BY <2>1, <2>3, <2>4, RankDescends
  <2> QED BY <2>1, <2>5 DEF Distinct
<1>7. Descends(d, c)
  <2>1. d \in [1 .. n -> c]
    BY <1>5
  <2> HIDE DEF d
  <2> QED BY <1>6, <2>1 DEF Descends
<1> HIDE DEF d
<1> QED BY <1>7 DEF bySeqDesc, Descends

\* The first ones of the sorted releases, up to i.
First(d, i) == {d[j] : j \in 1 .. i}

\* The sorted releases are all of them, and those before one are the newer ones.
LEMMA Sorted ==
  ASSUME NEW c, Distinct(c), NEW d, Descends(d, c)
  PROVE  /\ First(d, Cardinality(c)) = c
         /\ \A i \in 1 .. Cardinality(c) : First(d, i - 1) = Newer(c, d[i])
<1> DEFINE n == Cardinality(c)
<1>0. IsFiniteSet(c) /\ n \in Nat /\ IsFiniteSet(1 .. n) /\ Cardinality(1 .. n) = n
  <2>1. IsFiniteSet(c) /\ n \in Nat
    BY FS_CardinalityType DEF Distinct
  <2>2. IsFiniteSet(1 .. n) /\ Cardinality(1 .. n) = IF 1 > n THEN 0 ELSE n - 1 + 1
    <3> HIDE DEF n
    <3> QED BY <2>1, FS_Interval
  <2> QED BY <2>1, <2>2
<1>1. d \in [1 .. n -> c] /\ \A i, j \in 1 .. n : i < j => d[i].seq > d[j].seq
  BY DEF Descends
<1>2. \A i \in 1 .. n : d[i] \in c /\ d[i].seq \in Nat
  BY <1>1, SequenceIsNat
<1> HIDE DEF n
<1>3. \A i, j \in 1 .. n : d[i] = d[j] => i = j
  <2> SUFFICES ASSUME NEW i \in 1 .. n, NEW j \in 1 .. n, i # j PROVE d[i] # d[j]
    OBVIOUS
  <2>1. i < j \/ j < i
    BY <1>0
  <2> QED BY <1>1, <1>2, <2>1
<1>4. d \in Injection(1 .. n, c)
  BY <1>1, <1>3 DEF Injection, IsInjective
<1>5. d \in Surjection(1 .. n, c)
  BY <1>0, <1>4, FS_Injection DEF n
<1>6. First(d, n) = c
  BY <1>2, <1>5 DEF First, Surjection
<1>7. ASSUME NEW i \in 1 .. n PROVE First(d, i - 1) = Newer(c, d[i])
  <2>1. ASSUME NEW j \in 1 .. i - 1 PROVE d[j] \in Newer(c, d[i])
    BY <1>0, <1>1, <1>2 DEF Newer
  <2>2. ASSUME NEW s \in Newer(c, d[i]) PROVE s \in First(d, i - 1)
    <3>1. s \in c /\ s.seq > d[i].seq
      BY DEF Newer
    <3>2. PICK j \in 1 .. n : d[j] = s
      BY <1>6, <3>1 DEF First
    <3>3. ~ (i < j) /\ i # j
      BY <1>1, <1>2, <3>1, <3>2
    <3>4. j \in 1 .. i - 1
      BY <1>0, <3>3
    <3> QED BY <3>2, <3>4 DEF First
  <2> QED BY <2>1, <2>2 DEF First
<1> QED BY <1>6, <1>7 DEF n

\* What a loop keeps: of what it looks for, the releases before which, with what had been
\* kept already, fewer than the bound were kept.
LEMMA FillKeeps ==
  ASSUME NEW c, Distinct(c), NEW wanted \in SUBSET c, NEW bound \in Nat, NEW keep \in SUBSET c
  PROVE  Fill(bySeqDesc(c), Cardinality(c), wanted, bound, keep)
           = keep \cup {s \in wanted : Cardinality(keep \cup Newer(wanted, s)) < bound}
<1> DEFINE n == Cardinality(c)
           d == bySeqDesc(c)
           all(i) == keep \cup (wanted \cap First(d, i))
           few(s) == Cardinality(keep \cup Newer(wanted, s)) < bound
           closed(i) == keep \cup {s \in wanted \cap First(d, i) : few(s)}
           next(i, before) == IF d[i] \in wanted /\ Cardinality(before) < bound
                                THEN before \cup {d[i]} ELSE before
           runs(f) == f = [i \in 0 .. n |-> IF i = 0 THEN keep ELSE next(i, f[i - 1])]
<1>0. /\ IsFiniteSet(c) /\ n \in Nat
      /\ First(d, n) = c
      /\ \A i \in 1 .. n : d[i] \in c /\ First(d, i - 1) = Newer(c, d[i])
  <2>1. IsFiniteSet(c) /\ n \in Nat
    BY FS_CardinalityType DEF Distinct
  <2>2. Descends(d, c)
    BY CanBeSorted
  <2> HIDE DEF d
  <2> QED BY <2>1, <2>2, Sorted DEF Descends
<1> HIDE DEF n, d
<1>1. First(d, 0) = {}
  BY DEF First
<1>2. ASSUME NEW i \in 1 .. n
      PROVE  First(d, i) = First(d, i - 1) \cup {d[i]} /\ First(d, i - 1) \subseteq First(d, i)
  <2>1. i \in Nat /\ i - 1 \in Nat /\ 1 .. i = (1 .. i - 1) \cup {i}
    BY <1>0
  <2> QED BY <2>1 DEF First
<1>3. ASSUME NEW i \in 1 .. n
      PROVE  keep \cup Newer(wanted, d[i]) = all(i - 1)
  <2>1. Newer(wanted, d[i]) = wanted \cap Newer(c, d[i])
    BY DEF Newer
  <2> QED BY <1>0, <2>1
<1>4. ASSUME NEW i
      PROVE  /\ closed(i) \in SUBSET all(i)
             /\ IsFiniteSet(all(i)) /\ Cardinality(all(i)) \in Nat
             /\ IsFiniteSet(closed(i)) /\ Cardinality(closed(i)) \in Nat
             /\ Cardinality(closed(i)) <= Cardinality(all(i))
  <2>1. closed(i) \in SUBSET all(i) /\ all(i) \in SUBSET c
    OBVIOUS
  <2> HIDE DEF closed, all
  <2> QED BY <1>0, <2>1, FS_Subset, FS_CardinalityType
<1>5. ASSUME NEW i \in 1 .. n
      PROVE  closed(i) = IF d[i] \in wanted /\ few(d[i]) THEN closed(i - 1) \cup {d[i]}
                                                         ELSE closed(i - 1)
  <2> HIDE DEF few
  <2> QED BY <1>2
<1>6. closed(0) = keep /\ all(0) = keep
  BY <1>1
\* Either the bound is reached or everything is kept: the least i that breaks this is not
\* 0, and the one before it does not break it.
<1>7. ASSUME NEW i \in 0 .. n
      PROVE  Cardinality(closed(i)) >= bound \/ closed(i) = all(i)
  <2> DEFINE holds(k) == Cardinality(closed(k)) >= bound \/ closed(k) = all(k)
             broken == {k \in 0 .. n : ~ holds(k)}
  <2> SUFFICES ASSUME i \in broken PROVE FALSE
    OBVIOUS
  <2>1. PICK k \in broken : \A j \in broken : ~ (j < k)
    <3>1. broken \in SUBSET Nat /\ broken # {}
      <4> HIDE DEF holds
      <4> QED BY <1>0
    <3> HIDE DEF broken
    <3> QED BY <3>1, LeastBreak
  <2>2. k # 0
    BY <1>6
  <2>3. k \in 1 .. n /\ k - 1 \in 0 .. n /\ k - 1 < k
    <3> HIDE DEF holds
    <3> QED BY <1>0, <2>2
  <2>4. holds(k - 1)
    <3> HIDE DEF holds
    <3> QED BY <2>1, <2>3
  <2>5. closed(k) = IF d[k] \in wanted /\ few(d[k]) THEN closed(k - 1) \cup {d[k]}
                                                    ELSE closed(k - 1)
    BY <1>5, <2>3
  <2>6. all(k) = IF d[k] \in wanted THEN all(k - 1) \cup {d[k]} ELSE all(k - 1)
    BY <1>2, <2>3
  <2>7. few(d[k]) = (Cardinality(all(k - 1)) < bound)
    BY <1>3, <2>3
  <2>8. closed(k - 1) \in SUBSET closed(k)
    <3> HIDE DEF closed
    <3> QED BY <2>5
  <2>9. Cardinality(closed(k - 1)) <= Cardinality(closed(k))
    <3> HIDE DEF closed
    <3> QED BY <1>4, <2>8, FS_Subset
  <2>10. ~ (Cardinality(closed(k)) >= bound) /\ closed(k) # all(k)
    BY <2>1
  <2>11. Cardinality(closed(k - 1)) \in Nat /\ Cardinality(closed(k)) \in Nat
    BY <1>4
  <2> HIDE DEF closed, all, few
  <2>12. closed(k - 1) = all(k - 1) /\ Cardinality(all(k - 1)) < bound
    BY <2>4, <2>9, <2>10, <2>11
  <2>13. closed(k) = all(k)
    BY <2>5, <2>6, <2>7, <2>12
  <2> QED BY <2>10, <2>13
<1>8. ASSUME NEW i \in 1 .. n
      PROVE  closed(i) = next(i, closed(i - 1))
  <2>1. few(d[i]) = (Cardinality(all(i - 1)) < bound)
    BY <1>3
  <2>2. i - 1 \in 0 .. n
    BY <1>0
  <2>3. Cardinality(closed(i - 1)) >= bound \/ closed(i - 1) = all(i - 1)
    BY <1>7, <2>2
  <2>4. /\ Cardinality(closed(i - 1)) \in Nat /\ Cardinality(all(i - 1)) \in Nat
        /\ Cardinality(closed(i - 1)) <= Cardinality(all(i - 1))
    BY <1>4
  <2>5. closed(i) = IF d[i] \in wanted /\ few(d[i]) THEN closed(i - 1) \cup {d[i]}
                                                    ELSE closed(i - 1)
    BY <1>5
  <2> HIDE DEF closed, all, few
  <2>6. few(d[i]) = (Cardinality(closed(i - 1)) < bound)
    BY <2>1, <2>3, <2>4
  <2> QED BY <2>5, <2>6
<1>9. \E f : runs(f)
  <2> DEFINE f == [i \in 0 .. n |-> closed(i)]
  <2>1. ASSUME NEW i \in 0 .. n
        PROVE  closed(i) = IF i = 0 THEN keep ELSE next(i, f[i - 1])
    <3>1. CASE i = 0
      BY <1>6, <3>1
    <3>2. CASE i # 0
      <4>1. i \in 1 .. n /\ i - 1 \in 0 .. n
        BY <1>0, <3>2
      <4>2. f[i - 1] = closed(i - 1)
        BY <4>1
      <4> HIDE DEF f, closed, next
      <4> QED BY <1>8, <3>2, <4>1, <4>2
    <3> QED BY <3>1, <3>2
  <2>2. runs(f)
    <3> HIDE DEF closed, next
    <3> QED BY <2>1
  <2> QED BY <2>2
<1> DEFINE kept == CHOOSE f : runs(f)
<1>10. Fill(bySeqDesc(c), Cardinality(c), wanted, bound, keep) = kept[n]
  BY DEF Fill, n, d
<1>11. runs(kept)
  <2> HIDE DEF runs
  <2> QED BY <1>9
<1>12. kept[0] = keep /\ \A i \in 1 .. n : kept[i] = next(i, kept[i - 1])
  <2> HIDE DEF kept, next
  <2>1. \A i \in 0 .. n : kept[i] = IF i = 0 THEN keep ELSE next(i, kept[i - 1])
    BY <1>11
  <2>2. 0 \in 0 .. n /\ \A i \in 1 .. n : i \in 0 .. n /\ i # 0
    BY <1>0
  <2> QED BY <2>1, <2>2
<1> HIDE DEF kept, closed, next
<1>13. ASSUME NEW i \in 0 .. n PROVE kept[i] = closed(i)
  <2> DEFINE broken == {k \in 0 .. n : kept[k] # closed(k)}
  <2> SUFFICES ASSUME i \in broken PROVE FALSE
    OBVIOUS
  <2>1. PICK k \in broken : \A j \in broken : ~ (j < k)
    <3>1. broken \in SUBSET Nat /\ broken # {}
      BY <1>0
    <3> HIDE DEF broken
    <3> QED BY <3>1, LeastBreak
  <2>2. k # 0
    BY <1>6, <1>12
  <2>3. k \in 1 .. n /\ k - 1 \in 0 .. n /\ k - 1 < k
    BY <1>0, <2>2
  <2>4. kept[k - 1] = closed(k - 1)
    BY <2>1, <2>3
  <2>5. kept[k] = closed(k)
    BY <1>8, <1>12, <2>3, <2>4
  <2> QED BY <2>1, <2>5
<1>14. kept[n] = closed(n)
  BY <1>0, <1>13
<1>15. wanted \cap First(d, n) = wanted
  BY <1>0
<1> QED BY <1>10, <1>14, <1>15 DEF closed

\* The closed form of what the worker keeps is what its two loops keep, for any releases
\* and any limits.
LEMMA KeepIsLoopKeep ==
  ASSUME NEW c, Distinct(c), NEW cfg \in [limit : Nat, minSuccessful : Nat]
  PROVE  Keep(c, cfg) = LoopKeep(c, cfg)
<1>1. Released(c) \in SUBSET c /\ {} \in SUBSET c /\ Successful(c, cfg) \in SUBSET c
  BY DEF Released, Successful
<1>2. cfg.limit \in Nat /\ cfg.minSuccessful \in Nat
  OBVIOUS
<1>3. \A s : {} \cup Newer(Released(c), s) = Newer(Released(c), s)
  OBVIOUS
<1>4. Fill(bySeqDesc(c), Cardinality(c), Released(c), cfg.minSuccessful, {}) = Successful(c, cfg)
  <2>1. Fill(bySeqDesc(c), Cardinality(c), Released(c), cfg.minSuccessful, {})
          = {} \cup {s \in Released(c) :
                       Cardinality({} \cup Newer(Released(c), s)) < cfg.minSuccessful}
    BY <1>1, <1>2, FillKeeps
  <2> QED BY <1>3, <2>1 DEF Successful
<1>5. Fill(bySeqDesc(c), Cardinality(c), c, cfg.limit, Successful(c, cfg)) = Keep(c, cfg)
  <2> DEFINE kept == Successful(c, cfg)
  <2>1. c \in SUBSET c /\ kept \in SUBSET c
    BY <1>1
  <2> HIDE DEF kept
  <2>2. Fill(bySeqDesc(c), Cardinality(c), c, cfg.limit, kept)
          = kept \cup {s \in c : Cardinality(kept \cup Newer(c, s)) < cfg.limit}
    BY <1>2, <2>1, FillKeeps
  <2>3. Keep(c, cfg) = kept \cup {s \in c : Cardinality(kept \cup Newer(c, s)) < cfg.limit}
    BY DEF Keep, kept
  <2> QED BY <2>2, <2>3 DEF kept
<1> QED BY <1>4, <1>5 DEF LoopKeep

-----------------------------------------------------------------------------
(***************************************************************************)
(* The rows.                                                               *)
(***************************************************************************)
\* MAX(sequence) + 1 is above every sequence, and at most the number of rows ever
\* created and one.
LEMMA NextSequenceIsNew ==
  ASSUME TypeOK, GivenOnce
  PROVE  /\ NextSequence \in 1 .. created + 1
         /\ \A s \in rows : s.seq < NextSequence
<1> DEFINE below == {n \in Ids : \E s \in rows : s.seq >= n}
<1>0. created \in Nat /\ created <= MaxReleases /\ MaxReleases \in Nat
  BY MaxReleasesAssumption DEF TypeOK, Ids
<1>1. \A n \in Nat : IsFiniteSet(1 .. n) /\ Cardinality(1 .. n) = n
  BY FS_Interval
<1>2. below \in SUBSET (1 .. created)
  BY <1>0 DEF Ids, GivenOnce, TypeOK, Rows
<1>3. IsFiniteSet(below) /\ Cardinality(below) \in Nat /\ Cardinality(below) <= created
  BY <1>0, <1>1, <1>2, FS_Subset, FS_CardinalityType
<1>4. ASSUME NEW s \in rows PROVE s.seq <= Cardinality(below)
  <2>1. s.seq \in Nat /\ s.seq <= MaxReleases
    BY <1>0 DEF TypeOK, Rows, Ids
  <2>2. 1 .. s.seq \in SUBSET below
    BY <1>0, <2>1 DEF Ids
  <2> HIDE DEF below
  <2>3. Cardinality(1 .. s.seq) <= Cardinality(below)
    BY <1>3, <2>2, FS_Subset
  <2> QED BY <1>1, <2>1, <2>3
<1>5. \A s \in rows : s.seq \in Nat
  BY <1>0 DEF TypeOK, Rows, Ids
<1>6. NextSequence = 1 + Cardinality(below)
  BY DEF NextSequence
<1> HIDE DEF below
<1> QED BY <1>0, <1>3, <1>4, <1>5, <1>6

\* As many newer Released releases there are when more of them there are.
LEMMA MoreReleased ==
  ASSUME NEW c, NEW d, IsFiniteSet(d), Released(c) \subseteq Released(d), NEW s
  PROVE  /\ Cardinality(Newer(Released(c), s)) \in Nat
         /\ Cardinality(Newer(Released(d), s)) \in Nat
         /\ Cardinality(Newer(Released(c), s)) <= Cardinality(Newer(Released(d), s))
<1>1. Newer(Released(d), s) \in SUBSET d
      /\ Newer(Released(c), s) \in SUBSET Newer(Released(d), s)
  BY DEF Newer, Released
<1>2. IsFiniteSet(Newer(Released(d), s))
  BY <1>1, FS_Subset
<1> QED BY <1>1, <1>2, FS_Subset, FS_CardinalityType

-----------------------------------------------------------------------------
(***************************************************************************)
(* The steps.                                                              *)
(***************************************************************************)
LEMMA InitIInv == Init => IInv
BY FS_EmptySet DEF Init, IInv, TypeOK, GivenOnce, DoomedOK, Ids

LEMMA CreateKeeps ==
  ASSUME IInv, Create
  PROVE  IInv'
<1> DEFINE new == [id |-> created + 1, seq |-> NextSequence, state |-> "Active"]
<1>0. /\ created \in Nat /\ MaxReleases \in Nat /\ created < MaxReleases
      /\ created' = created + 1 /\ rows' = rows \cup {new}
      /\ \A s \in rows : s.id \in Nat /\ s.seq \in Nat
  BY MaxReleasesAssumption DEF Create, IInv, TypeOK, Ids, Rows
<1>1. NextSequence \in 1 .. created + 1 /\ \A s \in rows : s.seq < NextSequence
  BY NextSequenceIsNew DEF IInv
<1>2. new \in Rows
  BY <1>0, <1>1 DEF Rows, Ids
<1>3. TypeOK'
  BY <1>0, <1>2 DEF Create, IInv, TypeOK, Ids
<1>4. IsFiniteSet(rows')
  BY <1>0, FS_AddElement DEF IInv
<1>5. GivenOnce'
  BY <1>0, <1>1 DEF IInv, GivenOnce
<1>6. DoomedOK'
  <2> SUFFICES ASSUME gc.pc = "delete" PROVE DoomedOK'
    BY DEF Create, DoomedOK
  <2>1. UNCHANGED gc /\ gc.doomed \subseteq Nat
    BY <1>0 DEF Create, IInv, TypeOK, Ids
  <2>2. created + 1 \notin gc.doomed /\ \A i \in gc.doomed : i <= created'
    BY <1>0, <2>1 DEF IInv, DoomedOK
  <2>3. Released(rows') = Released(rows)
    BY <1>0 DEF Released
  <2>4. ASSUME NEW s \in rows', s.id \in gc.doomed
        PROVE  /\ s \in rows
               /\ s.state \in Terminal
               /\ s.state = "Released" =>
                    Cardinality(Newer(Released(rows'), s)) >= gc.settings.minSuccessful
               /\ Succeeded(gc.settings, s) =>
                    \E t \in rows' : t.id \notin gc.doomed /\ t.seq > s.seq
    BY <1>0, <2>2, <2>3, <2>4 DEF IInv, DoomedOK
  <2> QED BY <2>1, <2>2, <2>4 DEF DoomedOK
<1> QED BY <1>3, <1>4, <1>5, <1>6 DEF IInv

LEMMA EndKeeps ==
  ASSUME IInv, NEW s \in rows, NEW state \in Terminal, End(s, state)
  PROVE  IInv'
<1> DEFINE ended == [s EXCEPT !.state = state]
<1>0. /\ rows' = (rows \ {s}) \cup {ended} /\ UNCHANGED <<created, settings, gc>>
      /\ s \in Rows /\ s.state = "Active"
      /\ ended.id = s.id /\ ended.seq = s.seq /\ ended \in Rows
  BY DEF End, IInv, TypeOK, Rows
<1>1. TypeOK'
  BY <1>0 DEF IInv, TypeOK
<1>2. IsFiniteSet(rows')
  BY <1>0, FS_AddElement, FS_RemoveElement DEF IInv
<1> HIDE DEF ended
<1>3. GivenOnce'
  BY <1>0 DEF IInv, GivenOnce
<1>4. DoomedOK'
  <2> SUFFICES ASSUME gc.pc = "delete" PROVE DoomedOK'
    BY <1>0 DEF DoomedOK
  <2>1. s.id \notin gc.doomed
    BY <1>0 DEF IInv, DoomedOK, Terminal
  <2>2. Released(rows) \subseteq Released(rows')
    BY <1>0 DEF Released
  <2>3. ASSUME NEW t \in rows', t.id \in gc.doomed
        PROVE  /\ t.state \in Terminal
               /\ t.state = "Released" =>
                    Cardinality(Newer(Released(rows'), t)) >= gc.settings.minSuccessful
               /\ Succeeded(gc.settings, t) =>
                    \E u \in rows' : u.id \notin gc.doomed /\ u.seq > t.seq
    <3>1. t \in rows
      BY <1>0, <2>1, <2>3
    <3>2. t.state \in Terminal
      BY <2>3, <3>1 DEF IInv, DoomedOK
    <3>3. ASSUME t.state = "Released"
          PROVE  Cardinality(Newer(Released(rows'), t)) >= gc.settings.minSuccessful
      <4>1. Cardinality(Newer(Released(rows), t)) >= gc.settings.minSuccessful
        BY <2>3, <3>1, <3>3 DEF IInv, DoomedOK
      <4>2. gc.settings.minSuccessful \in Nat
        BY SettingsAssumption DEF IInv, TypeOK
      <4> QED BY <1>2, <2>2, <4>1, <4>2, MoreReleased
    <3>4. ASSUME Succeeded(gc.settings, t)
          PROVE  \E u \in rows' : u.id \notin gc.doomed /\ u.seq > t.seq
      <4>1. PICK u \in rows : u.id \notin gc.doomed /\ u.seq > t.seq
        BY <2>3, <3>1, <3>4 DEF IInv, DoomedOK
      <4> QED BY <1>0, <4>1
    <3> QED BY <3>2, <3>3, <3>4
  <2>4. \A i \in gc.doomed : i <= created
    BY DEF IInv, DoomedOK
  <2> QED BY <1>0, <2>3, <2>4 DEF DoomedOK
<1> QED BY <1>1, <1>2, <1>3, <1>4 DEF IInv

LEMMA GCListKeeps ==
  ASSUME IInv, GCList
  PROVE  IInv'
<1> DEFINE c == {s \in rows : s.state \in Terminal}
           doomed == releaseIDsToGC(c, gc.settings)
<1>0. /\ UNCHANGED <<rows, created, settings>>
      /\ gc' = [gc EXCEPT !.pc = IF doomed = {} THEN "idle" ELSE "delete", !.doomed = doomed]
  BY DEF GCList
<1>1. /\ c \in SUBSET Rows /\ c \subseteq rows
      /\ \A s, t \in c : s.id = t.id \/ s.seq = t.seq => s = t
      /\ gc.settings \in Settings
  BY DEF IInv, TypeOK, GivenOnce
<1>2. IsFiniteSet(c)
  BY <1>1, FS_Subset DEF IInv
<1>3. doomed = {s.id : s \in c \ Keep(c, gc.settings)}
  BY DEF releaseIDsToGC
<1>4. /\ gc' \in [pc : {"idle", "list", "delete"}, settings : Settings, doomed : SUBSET Ids]
      /\ gc'.doomed = doomed /\ gc'.settings = gc.settings
  <2>1. doomed \subseteq Ids
    BY <1>1, <1>3 DEF Rows
  <2> HIDE DEF doomed
  <2> QED BY <1>0, <2>1 DEF IInv, TypeOK
<1> HIDE DEF doomed
<1>5. ASSUME NEW s \in rows, s.id \in doomed
      PROVE  s \in c \ Keep(c, gc.settings)
  <2>1. PICK t \in c \ Keep(c, gc.settings) : t.id = s.id
    BY <1>3, <1>5
  <2>2. t = s
    BY <1>1, <2>1 DEF IInv, GivenOnce
  <2> QED BY <2>1, <2>2
<1> HIDE DEF c
<1>6. Released(rows) = Released(c)
  BY DEF c, Released, Terminal
<1>7. ASSUME NEW s \in rows, s.id \in doomed
      PROVE  /\ s.state \in Terminal
             /\ s.state = "Released" =>
                  Cardinality(Newer(Released(rows), s)) >= gc.settings.minSuccessful
             /\ Succeeded(gc.settings, s) =>
                  \E t \in rows : t.id \notin doomed /\ t.seq > s.seq
  <2>1. s \in c \ Keep(c, gc.settings)
    BY <1>5, <1>7
  <2>2. s.state \in Terminal
    BY <2>1 DEF c
  <2>3. ASSUME s.state = "Released"
        PROVE  Cardinality(Newer(Released(rows), s)) >= gc.settings.minSuccessful
    BY <1>1, <1>2, <1>6, <2>1, <2>3, ReleasedMadeUpFor
  <2>4. ASSUME Succeeded(gc.settings, s)
        PROVE  \E t \in rows : t.id \notin doomed /\ t.seq > s.seq
    <3>1. gc.settings.limit > gc.settings.minSuccessful \/ s.state = "Released"
      BY <2>4 DEF Succeeded
    <3>2. PICK t \in Keep(c, gc.settings) : t \in c /\ t.seq > s.seq
      BY <1>1, <1>2, <2>1, <3>1, NewestKept, NewestReleasedKept
    <3>3. t.id \notin doomed
      BY <1>1, <1>5, <3>2
    <3> QED BY <1>1, <3>2, <3>3
  <2> QED BY <2>2, <2>3, <2>4
<1>8. \A i \in doomed : i <= created
  BY <1>1, <1>3 DEF IInv, GivenOnce
<1>9. DoomedOK'
  BY <1>0, <1>4, <1>7, <1>8 DEF DoomedOK
<1> QED BY <1>0, <1>4, <1>9 DEF IInv, TypeOK, GivenOnce

LEMMA GCDeleteKeeps ==
  ASSUME IInv, GCDelete
  PROVE  IInv'
<1>1. rows' \subseteq rows /\ created' = created /\ gc'.pc = "idle"
  BY DEF GCDelete, IInv, TypeOK
<1>2. TypeOK'
  BY DEF GCDelete, IInv, TypeOK
<1>3. IsFiniteSet(rows')
  BY <1>1, FS_Subset DEF IInv
<1> QED BY <1>1, <1>2, <1>3 DEF IInv, GivenOnce, DoomedOK

\* The steps that change no rows and start no delete.
LEMMA OthersKeep ==
  ASSUME IInv, (\E cfg \in Settings : UpdateSettings(cfg)) \/ GCLoad \/ GCAbort
  PROVE  IInv'
<1>1. UNCHANGED <<rows, created>>
  BY DEF UpdateSettings, GCLoad, GCAbort
<1>2. UNCHANGED gc \/ gc'.pc # "delete"
  BY DEF UpdateSettings, GCLoad, GCAbort, IInv, TypeOK
<1>3. TypeOK'
  BY DEF UpdateSettings, GCLoad, GCAbort, IInv, TypeOK
<1> QED BY <1>1, <1>2, <1>3 DEF IInv, GivenOnce, DoomedOK

LEMMA StepKeeps ==
  ASSUME IInv, [Next]_vars
  PROVE  IInv'
<1>1. CASE UNCHANGED vars
  BY <1>1 DEF vars, IInv, TypeOK, GivenOnce, DoomedOK
<1>2. CASE Next
  BY <1>2, CreateKeeps, EndKeeps, GCListKeeps, GCDeleteKeeps, OthersKeep DEF Next
<1> QED BY <1>1, <1>2

\* IInv is an invariant of the releases and of the worker that prunes them.
THEOREM Invariance == Spec => []IInv
<1>1. Init => IInv
  BY InitIInv
<1>2. IInv /\ [Next]_vars => IInv'
  BY StepKeeps
<1> QED BY <1>1, <1>2, PTL DEF Spec

\* The two loops of the worker keep what Keep says, of the terminal releases of every
\* history and for all settings, those included that ask for more successful releases
\* than the limit.
THEOREM KeepTheLoop == Spec => []KeepIsTheLoop
<1>1. ASSUME IInv PROVE KeepIsTheLoop
  <2> DEFINE c == {s \in rows : s.state \in Terminal}
  <2>1. c \in SUBSET rows
    OBVIOUS
  <2>2. Distinct(c)
    BY <1>1, <2>1, FS_Subset DEF IInv, TypeOK, GivenOnce, Distinct
  <2>3. \A cfg \in AnySettings : cfg \in [limit : Nat, minSuccessful : Nat]
    BY MaxReleasesAssumption DEF AnySettings
  <2> HIDE DEF c
  <2>4. \A cfg \in AnySettings : Keep(c, cfg) = LoopKeep(c, cfg)
    BY <2>2, <2>3, KeepIsLoopKeep
  <2> QED BY <1>1, <2>4 DEF KeepIsTheLoop, IInv, c
<1> QED BY <1>1, Invariance, PTL

-----------------------------------------------------------------------------
\* Only the worker's delete takes a row away.
LEMMA OnlyDoomedGo ==
  ASSUME IInv, [Next]_vars, NEW s \in Gone
  PROVE  GCDelete /\ s \in rows /\ s.id \in gc.doomed
<1>0. s \in rows /\ \A t \in rows' : t.id # s.id
  BY DEF Gone
<1>1. s \notin rows'
  BY <1>0
<1>2. ASSUME NEW u \in rows, NEW state \in Terminal, End(u, state) PROVE FALSE
  <2>1. [u EXCEPT !.state = state].id = u.id
    BY DEF IInv, TypeOK, Rows
  <2> QED BY <1>0, <1>2, <2>1 DEF End
<1>3. ~ UNCHANGED rows
  BY <1>0
<1>4. ~ Create
  BY <1>1, <1>0 DEF Create
<1>5. GCDelete
  BY <1>2, <1>3, <1>4 DEF Next, vars, UpdateSettings, GCLoad, GCList, GCAbort
<1> QED BY <1>0, <1>1, <1>5 DEF GCDelete

\* A release is deleted only if it is terminal and, if it is Released, only if as many
\* newer Released ones are there at that moment as the settings that were read ask for,
\* whatever ended or changed since the query.
THEOREM RollbackTargets == Spec => RollbackTargetsKept
<1>1. IInv /\ [Next]_vars =>
        [\A s \in Gone :
           /\ s.state \in Terminal
           /\ s.state = "Released" =>
                Cardinality(Newer(Released(rows), s)) >= gc.settings.minSuccessful]_rows
  BY OnlyDoomedGo DEF IInv, DoomedOK, GCDelete
<1> QED BY <1>1, Invariance, PTL DEF Spec, RollbackTargetsKept

\* What is deleted leaves a newer release behind, so that no sequence is given twice, if
\* the settings that were read keep more releases than successful ones; a Released release
\* does so whatever they are.
THEOREM HistoryForward == Spec => HistoryMovesForward
<1>1. ASSUME IInv, [Next]_vars, NEW s \in Gone,
             gc.settings.limit > gc.settings.minSuccessful \/ s.state = "Released"
      PROVE  \E t \in rows' : t.seq > s.seq
  <2>1. GCDelete /\ s \in rows /\ s.id \in gc.doomed
    BY <1>1, OnlyDoomedGo
  <2>2. PICK t \in rows : t.id \notin gc.doomed /\ t.seq > s.seq
    BY <1>1, <2>1 DEF IInv, DoomedOK, Succeeded, GCDelete
  <2> QED BY <2>1, <2>2 DEF GCDelete
<1>2. IInv /\ [Next]_vars =>
        [\A s \in Gone :
           gc.settings.limit > gc.settings.minSuccessful \/ s.state = "Released" =>
             \E t \in rows' : t.seq > s.seq]_rows
  BY <1>1
<1> QED BY <1>2, Invariance, PTL DEF Spec, HistoryMovesForward
=============================================================================
