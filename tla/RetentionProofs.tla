-------------------------- MODULE RetentionProofs --------------------------
(***************************************************************************)
(* Theorems about Retention, for any runs of any servers, any limits and   *)
(* any settings.  First what its operators on sequences and sets of runs   *)
(* do, then what every step preserves of the runs and of the evictions,    *)
(* then that what is left fits, and last what a page holds.                *)
(***************************************************************************)
EXTENDS Retention, FiniteSetTheorems, SequenceTheorems,
        WellFoundedInduction, TLAPS

\* Picking from a sequence without repetitions leaves one, of what is picked.
LEMMA PickedProperties ==
    ASSUME NEW S, NEW seq \in Seq(S), IsInjective(seq), NEW set
    PROVE  /\ Picked(seq, set) \in Seq(S)
           /\ IsInjective(Picked(seq, set))
           /\ ToSet(Picked(seq, set)) = ToSet(seq) \cap set
<1> DEFINE at == {i \in DOMAIN seq : seq[i] \in set}
           upto(i) == {j \in at : j <= i}
           rank(i) == Cardinality(upto(i))
           n == Cardinality(at)
           place(k) == CHOOSE i \in at : rank(i) = k
<1>1. at \in SUBSET (1 .. Len(seq)) /\ Len(seq) \in Nat
      /\ DOMAIN seq = 1 .. Len(seq) /\ \A i \in 1 .. Len(seq) : seq[i] \in S
  BY LenProperties, ElementOfSeq
<1>2. IsFiniteSet(at) /\ n \in Nat
  <2>1. IsFiniteSet(1 .. Len(seq))
    BY <1>1, FS_Interval
  <2>2. IsFiniteSet(at)
    BY <1>1, <2>1, FS_Subset
  <2>. QED
    BY <2>2, FS_CardinalityType
<1>3. ASSUME NEW i \in at
      PROVE  IsFiniteSet(upto(i)) /\ rank(i) \in 1 .. n
  <2>1. upto(i) \in SUBSET at /\ i \in upto(i)
    BY <1>1, <1>3
  <2>2. IsFiniteSet(upto(i)) /\ rank(i) <= n /\ rank(i) \in Nat
    BY <1>2, <2>1, FS_Subset, FS_CardinalityType
  <2>3. rank(i) # 0
    BY <2>1, <2>2, FS_EmptySet
  <2>. QED
    BY <1>2, <2>2, <2>3
<1>4. ASSUME NEW i \in at, NEW k \in at, i < k PROVE rank(i) # rank(k)
  <2>1. upto(i) \in SUBSET upto(k) /\ k \in upto(k) /\ k \notin upto(i)
    BY <1>1, <1>4
  <2>2. IsFiniteSet(upto(k))
    BY <1>3
  <2>3. rank(k) = rank(i) => upto(k) = upto(i)
    BY <2>1, <2>2, FS_Subset
  <2>. QED
    BY <2>1, <2>3
<1>5. \A i, k \in at : rank(i) = rank(k) => i = k
  <2>1. \A i, k \in at : i = k \/ i < k \/ k < i
    BY <1>1
  <2>. QED
    BY <1>4, <2>1
<1>6. \A k \in 1 .. n : \E i \in at : rank(i) = k
  <2> DEFINE f == [i \in at |-> rank(i)]
  <2>1. f \in [at -> 1 .. n]
    BY <1>3
  <2>2. \A i \in DOMAIN f : i \in at /\ f[i] = rank(i)
    OBVIOUS
  <2> HIDE DEF f
  <2>3. IsInjective(f)
    BY <1>5, <2>2 DEF IsInjective
  <2>4. f \in Injection(at, 1 .. n)
    BY <2>1, <2>3 DEF Injection
  <2>5. IsFiniteSet(1 .. n) /\ Cardinality(1 .. n) = n
    BY <1>2, FS_Interval
  <2>6. f \in Surjection(at, 1 .. n)
    BY <2>4, <2>5, FS_Injection
  <2>. QED
    BY <2>1, <2>2, <2>6 DEF Surjection
<1>7. ASSUME NEW k \in 1 .. n PROVE place(k) \in at /\ rank(place(k)) = k
  BY <1>6
<1> DEFINE p == [k \in 1 .. n |-> seq[place(k)]]
<1>8. Picked(seq, set) = p
  BY DEF Picked
<1>9. \A k \in 1 .. n : p[k] = seq[place(k)] /\ p[k] \in S /\ p[k] \in set
  BY <1>1, <1>7
<1>10. DOMAIN p = 1 .. n
  OBVIOUS
<1> HIDE DEF place, rank, at, n
<1>11. p \in Seq(S)
  <2>1. p \in [1 .. n -> S]
    BY <1>9
  <2>. QED
    BY <1>2, <2>1, SeqDef
<1> HIDE DEF p
<1>12. IsInjective(p)
  <2> SUFFICES ASSUME NEW k \in 1 .. n, NEW l \in 1 .. n, p[k] = p[l]
               PROVE  k = l
    BY <1>10 DEF IsInjective
  <2>1. seq[place(k)] = seq[place(l)] /\ place(k) \in DOMAIN seq
        /\ place(l) \in DOMAIN seq
    BY <1>1, <1>7, <1>9
  <2>2. place(k) = place(l)
    BY <2>1 DEF IsInjective
  <2>. QED
    BY <1>7, <2>2
<1>13. ToSet(p) \subseteq ToSet(seq) \cap set
  BY <1>1, <1>7, <1>9, <1>10 DEF ToSet
<1>14. ASSUME NEW x \in ToSet(seq) \cap set PROVE x \in ToSet(p)
  <2>1. PICK i \in DOMAIN seq : seq[i] = x
    BY <1>14 DEF ToSet
  <2>2. i \in at
    BY <1>14, <2>1 DEF at
  <2>3. rank(i) \in 1 .. n
    BY <1>3, <2>2
  <2>4. place(rank(i)) = i
    BY <1>5, <1>7, <2>2, <2>3
  <2>5. p[rank(i)] = x
    BY <1>9, <2>1, <2>3, <2>4
  <2>. QED
    BY <1>10, <2>3, <2>5 DEF ToSet
<1>. QED
  BY <1>8, <1>11, <1>12, <1>13, <1>14

\* What is added at the end, and was not there, is there once.
LEMMA AppendedSet ==
    ASSUME NEW S, NEW seq \in Seq(S), IsInjective(seq),
           NEW x \in S, x \notin ToSet(seq)
    PROVE  /\ Append(seq, x) \in Seq(S)
           /\ IsInjective(Append(seq, x))
           /\ ToSet(Append(seq, x)) = ToSet(seq) \cup {x}
<1> DEFINE n == Len(seq)
           a == Append(seq, x)
<1>1. n \in Nat /\ DOMAIN seq = 1 .. n
  BY LenProperties
<1>2. /\ a \in Seq(S) /\ Len(a) = n + 1 /\ a[n + 1] = x
      /\ \A i \in 1 .. n : a[i] = seq[i]
  BY AppendProperties
<1>3. DOMAIN a = 1 .. n + 1
  BY <1>2, LenProperties
<1> HIDE DEF a, n
<1>4. \A i \in DOMAIN a : i \in 1 .. n \/ i = n + 1
  BY <1>1, <1>3
<1>5. \A i \in 1 .. n : a[i] # x
  BY <1>1, <1>2 DEF ToSet
<1>6. IsInjective(a)
  BY <1>1, <1>2, <1>4, <1>5 DEF IsInjective
<1>7. n + 1 \in DOMAIN a /\ 1 .. n \subseteq DOMAIN a
  BY <1>1, <1>3
<1>8. ToSet(a) = ToSet(seq) \cup {x}
  BY <1>1, <1>2, <1>4, <1>7 DEF ToSet
<1>. QED
  BY <1>2, <1>6, <1>8 DEF a

\* Taking the first away takes it from the set.
LEMMA TailSet ==
    ASSUME NEW S, NEW seq \in Seq(S), IsInjective(seq), seq # <<>>
    PROVE  /\ Tail(seq) \in Seq(S) /\ IsInjective(Tail(seq))
           /\ Head(seq) \in ToSet(seq)
           /\ ToSet(Tail(seq)) = ToSet(seq) \ {Head(seq)}
<1> DEFINE n == Len(seq)
           t == Tail(seq)
<1>1. n \in Nat \ {0} /\ DOMAIN seq = 1 .. n
  BY LenProperties, EmptySeq
<1>2. /\ t \in Seq(S) /\ Len(t) = n - 1
      /\ \A i \in 1 .. n - 1 : t[i] = seq[i + 1]
  BY HeadTailProperties
<1>3. DOMAIN t = 1 .. n - 1
  BY <1>2, LenProperties
<1>4. Head(seq) = seq[1]
  BY <1>1
<1> HIDE DEF t, n
<1>5. IsInjective(t)
  <2> SUFFICES ASSUME NEW i \in 1 .. n - 1, NEW j \in 1 .. n - 1, t[i] = t[j]
               PROVE  i = j
    BY <1>3 DEF IsInjective
  <2>1. i + 1 \in DOMAIN seq /\ j + 1 \in DOMAIN seq
    BY <1>1
  <2>2. i + 1 = j + 1
    BY <1>2, <2>1 DEF IsInjective
  <2>. QED
    BY <1>1, <2>2
<1>6. 1 \in DOMAIN seq
  BY <1>1
<1>7. ToSet(t) \subseteq ToSet(seq) \ {seq[1]}
  <2> SUFFICES ASSUME NEW i \in 1 .. n - 1
               PROVE  t[i] \in ToSet(seq) /\ t[i] # seq[1]
    BY <1>3 DEF ToSet
  <2>1. i + 1 \in DOMAIN seq /\ i + 1 # 1 /\ t[i] = seq[i + 1]
    BY <1>1, <1>2
  <2>. QED
    BY <1>6, <2>1 DEF ToSet, IsInjective
<1>8. ASSUME NEW x \in ToSet(seq) \ {seq[1]} PROVE x \in ToSet(t)
  <2>1. PICK i \in DOMAIN seq : seq[i] = x
    BY <1>8 DEF ToSet
  <2>2. i - 1 \in 1 .. n - 1 /\ (i - 1) + 1 = i
    BY <1>1, <1>8, <2>1
  <2>. QED
    BY <1>2, <1>3, <2>1, <2>2 DEF ToSet
<1>. QED
  BY <1>2, <1>4, <1>5, <1>6, <1>7, <1>8 DEF t, ToSet

-----------------------------------------------------------------------------
\* The bytes of a set of runs, by what each has written.
BytesOf(w, set) == UNION {{r} \X (1 .. w[r]) : r \in set}

LEMMA InBytesOf ==
    ASSUME NEW w, NEW set, NEW x
    PROVE  x \in BytesOf(w, set) <=>
               \E r \in set : \E n \in 1 .. w[r] : x = <<r, n>>
  BY DEF BytesOf

LEMMA SumOfBytes == \A set : SumOf(set) = Cardinality(BytesOf(written, set))
  BY DEF SumOf, BytesOf

LEMMA BytesFinite ==
    ASSUME NEW w \in [Runs -> Nat], NEW set \in SUBSET Runs
    PROVE  /\ IsFiniteSet(BytesOf(w, set))
           /\ Cardinality(BytesOf(w, set)) \in Nat
<1> DEFINE of(r) == {r} \X (1 .. w[r])
           all == {of(r) : r \in set}
           f == [r \in set |-> of(r)]
<1>1. IsFiniteSet(set)
  BY RunsAssumption, FS_Subset
<1>2. f \in Surjection(set, all)
  <2>1. f \in [set -> all]
    OBVIOUS
  <2>2. \A s \in all : \E r \in set : f[r] = s
    OBVIOUS
  <2>. QED
    BY <2>1, <2>2 DEF Surjection
<1>3. IsFiniteSet(all)
  BY <1>1, <1>2, FS_Surjection
<1>4. ASSUME NEW r \in set PROVE IsFiniteSet(of(r))
  <2>1. IsFiniteSet({r})
    BY FS_Singleton
  <2>2. w[r] \in Int /\ 1 \in Int
    OBVIOUS
  <2>3. IsFiniteSet(1 .. w[r])
    BY <2>2, FS_Interval
  <2>. QED
    BY <2>1, <2>3, FS_Product
<1>5. IsFiniteSet(UNION all)
  BY <1>3, <1>4, FS_UNION
<1>. QED
  BY <1>5, FS_CardinalityType DEF BytesOf

LEMMA BytesMonotone ==
    ASSUME NEW w \in [Runs -> Nat], NEW set \in SUBSET Runs,
           NEW part \in SUBSET set
    PROVE  Cardinality(BytesOf(w, part)) <= Cardinality(BytesOf(w, set))
<1>1. BytesOf(w, part) \in SUBSET BytesOf(w, set)
  BY InBytesOf
<1>. QED
  BY <1>1, BytesFinite, FS_Subset

LEMMA BytesOfOne ==
    ASSUME NEW w \in [Runs -> Nat], NEW r \in Runs
    PROVE  Cardinality(BytesOf(w, {r})) = w[r]
<1>1. BytesOf(w, {r}) = {r} \X (1 .. w[r])
  BY DEF BytesOf
<1>2. IsFiniteSet({r}) /\ Cardinality({r}) = 1
  BY FS_Singleton
<1>3. IsFiniteSet(1 .. w[r]) /\ Cardinality(1 .. w[r]) = w[r]
  BY FS_Interval
<1>4. Cardinality({r} \X (1 .. w[r])) = Cardinality({r}) * Cardinality(1 .. w[r])
  BY <1>2, <1>3, FS_Product
<1>5. 1 * w[r] = w[r]
  OBVIOUS
<1>. QED
  BY <1>1, <1>2, <1>3, <1>4, <1>5

LEMMA BytesWithout ==
    ASSUME NEW w \in [Runs -> Nat], NEW set \in SUBSET Runs, NEW r \in set
    PROVE  Cardinality(BytesOf(w, set \ {r}))
               = Cardinality(BytesOf(w, set)) - w[r]
<1> DEFINE rest == BytesOf(w, set \ {r})
           one == BytesOf(w, {r})
<1>1. BytesOf(w, set) = rest \cup one
  BY InBytesOf
<1>2. rest \cap one = {}
  BY InBytesOf
<1>3. IsFiniteSet(rest) /\ IsFiniteSet(one)
      /\ Cardinality(rest) \in Nat /\ Cardinality(one) \in Nat
  BY BytesFinite
<1>4. Cardinality(one) = w[r]
  BY BytesOfOne
<1>5. Cardinality({}) = 0
  BY FS_EmptySet
<1>6. Cardinality(rest \cup one)
         = Cardinality(rest) + Cardinality(one) - Cardinality(rest \cap one)
  BY <1>3, FS_Union
<1>7. Cardinality(BytesOf(w, set)) = Cardinality(rest) + w[r] - 0
  BY <1>1, <1>2, <1>4, <1>5, <1>6
<1>8. w[r] \in Nat
  OBVIOUS
<1> HIDE DEF rest, one
<1>9. Cardinality(rest) = Cardinality(BytesOf(w, set)) - w[r]
  BY <1>3, <1>7, <1>8
<1>. QED
  BY <1>9 DEF rest

LEMMA BytesSame ==
    ASSUME NEW w, NEW v, NEW set, \A r \in set : w[r] = v[r]
    PROVE  BytesOf(w, set) = BytesOf(v, set)
<1>1. \A x : x \in BytesOf(w, set) => x \in BytesOf(v, set)
  BY InBytesOf
<1>2. \A x : x \in BytesOf(v, set) => x \in BytesOf(w, set)
  BY InBytesOf
<1>. QED
  BY <1>1, <1>2

-----------------------------------------------------------------------------
(* The runs, and what evictions know of them. *)

\* Done with, for whatever reason: nothing of the run changes any more, but that
\* it may be removed.
Terminal == {"over", "unstarted", "dead"}

Plans == [todo : Seq(Runs), keep : Nat, count : Int, bytes : Int]

\* What every variable is, beyond TypeOK.
Typed ==
    /\ setting \in Settings
    /\ serving \subseteq Servers
    /\ pc \in [Runs -> {"idle", "making", "running", "ended", "fitting"}
                          \cup Terminal]
    /\ written \in [Runs -> Nat]
    /\ \A r \in Runs : written[r] <= Len(Stream(r))
    /\ disk \in Seq(Runs) /\ IsInjective(disk)
    /\ marks \subseteq Kept
    /\ copies \subseteq Runs /\ crowded \subseteq Runs
    /\ plan \in [Runs -> Plans]
    /\ old \in BOOLEAN
    /\ sweep \in {"idle", "asked", "clearing", "over"}

Actives == {r \in Runs : Active(r)}

\* Only a server that is there runs anything, and the sweep goes on only while
\* there is none.
Served ==
    /\ \A r \in Actives : r \in DOMAIN setting.by /\ By(r) \in serving
    /\ sweep \in {"asked", "clearing"} => serving = {}
    /\ Cardinality(Actives) <= RunsLimit

\* Where a run is tells what there is of it.
Placed ==
    \A r \in Runs :
        /\ Holding(r) => r \in marks
        /\ r \in Kept => pc[r] \notin {"idle", "making"}
        /\ r \in marks => pc[r] \notin {"over", "unstarted"}
        /\ r \in crowded => pc[r] \in {"fitting"} \cup Terminal

\* An eviction takes only what is done with, each run once, and has counted it.
Sound(p, at, w) ==
    /\ \A q \in ToSet(p.todo) : at[q] \in Terminal
    /\ IsInjective(p.todo)
    /\ Cardinality(ToSet(p.todo)) <= p.count
    /\ Cardinality(BytesOf(w, ToSet(p.todo))) <= p.bytes

Planned ==
    \A r \in Runs :
        /\ Sound(plan[r], pc, written)
        /\ pc[r] = "fitting" => plan[r].keep = RunsLimit

RunsInv == Typed /\ Served /\ Placed /\ Planned

LEMMA KeptRuns ==
    ASSUME Typed
    PROVE  /\ Kept \in SUBSET Runs
           /\ \A r \in Runs : ToSet(plan[r].todo) \in SUBSET Runs
<1>1. ASSUME NEW seq \in Seq(Runs) PROVE ToSet(seq) \in SUBSET Runs
  BY LenProperties, ElementOfSeq DEF ToSet
<1>2. disk \in Seq(Runs) /\ \A r \in Runs : plan[r].todo \in Seq(Runs)
  BY DEF Typed, Plans
<1>. QED
  BY <1>1, <1>2 DEF Kept

\* Removing runs from the directory, and touching one.
LEMMA WithoutDisk ==
    ASSUME Typed, NEW gone
    PROVE  /\ Without(gone) \in Seq(Runs) /\ IsInjective(Without(gone))
           /\ ToSet(Without(gone)) = Kept \ gone
<1>1. disk \in Seq(Runs) /\ IsInjective(disk)
  BY DEF Typed
<1>. QED
  BY <1>1, PickedProperties DEF Without, Kept

LEMMA TouchedDisk ==
    ASSUME Typed, NEW r \in Kept
    PROVE  /\ Touched(r) \in Seq(Runs) /\ IsInjective(Touched(r))
           /\ ToSet(Touched(r)) = Kept
<1>1. r \in Runs
  BY KeptRuns
<1>2. /\ Without({r}) \in Seq(Runs) /\ IsInjective(Without({r}))
      /\ ToSet(Without({r})) = Kept \ {r}
  BY WithoutDisk
<1> DEFINE rest == Without({r})
<1> HIDE DEF rest
<1>3. /\ rest \in Seq(Runs) /\ IsInjective(rest) /\ r \notin ToSet(rest)
      /\ ToSet(rest) \cup {r} = Kept
  BY <1>2 DEF rest
<1>4. /\ Append(rest, r) \in Seq(Runs) /\ IsInjective(Append(rest, r))
      /\ ToSet(Append(rest, r)) = ToSet(rest) \cup {r}
  BY <1>1, <1>3, AppendedSet
<1>. QED
  BY <1>3, <1>4 DEF Touched, rest

\* The bytes of sets of runs.
LEMMA Sums ==
    ASSUME Typed, NEW set \in SUBSET Runs
    PROVE  /\ SumOf(set) \in Nat
           /\ \A part \in SUBSET set : SumOf(part) \in Nat /\ SumOf(part) <= SumOf(set)
           /\ \A r \in set : SumOf(set \ {r}) = SumOf(set) - written[r]
<1>1. written \in [Runs -> Nat]
  BY DEF Typed
<1>. QED
  BY <1>1, SumOfBytes, BytesFinite, BytesMonotone, BytesWithout

LEMMA SumOfNone == SumOf({}) = 0
<1>1. BytesOf(written, {}) = {}
  BY DEF BytesOf
<1>. QED
  BY <1>1, SumOfBytes, FS_EmptySet

LEMMA Counts ==
    ASSUME NEW set \in SUBSET Runs
    PROVE  /\ IsFiniteSet(set) /\ Cardinality(set) \in Nat
           /\ \A part \in SUBSET set :
                 Cardinality(part) \in Nat /\ Cardinality(part) <= Cardinality(set)
           /\ \A r \in set : Cardinality(set \ {r}) = Cardinality(set) - 1
<1>1. IsFiniteSet(set) /\ Cardinality(set) \in Nat
  BY RunsAssumption, FS_Subset, FS_CardinalityType
<1>2. ASSUME NEW part \in SUBSET set
      PROVE  Cardinality(part) \in Nat /\ Cardinality(part) <= Cardinality(set)
  BY <1>1, FS_Subset, FS_CardinalityType
<1>3. \A r \in set : Cardinality(set \ {r}) = Cardinality(set) - 1
  BY <1>1, FS_RemoveElement
<1>. QED
  BY <1>1, <1>2, <1>3

\* A new eviction is sound: it was looked at once, and all that it found not in
\* progress is done with.
LEMMA Listed ==
    ASSUME Typed, Placed, NEW current \in SUBSET Runs, NEW keep \in Nat
    PROVE  LET p == Listing(current, keep)
           IN  /\ p \in Plans /\ Sound(p, pc, written) /\ p.keep = keep
               /\ p.count = Cardinality(Kept)
               /\ ToSet(p.todo)
                     = {q \in Kept : q \notin current /\ ~InProgress(q)}
               /\ p.bytes = SumOf(ToSet(p.todo) \cup current)
<1> DEFINE p == Listing(current, keep)
           done == {q \in Kept : q \notin current /\ ~InProgress(q)}
<1>1. /\ p.todo = Picked(disk, done) /\ p.keep = keep
      /\ p.count = Cardinality(Kept) /\ p.bytes = SumOf(done \cup current)
      /\ p = [todo |-> p.todo, keep |-> p.keep, count |-> p.count, bytes |-> p.bytes]
  BY DEF Listing
<1>2. done \in SUBSET Kept /\ Kept \in SUBSET Runs
  BY KeptRuns
<1>3. disk \in Seq(Runs) /\ IsInjective(disk)
  BY DEF Typed
<1>4. /\ p.todo \in Seq(Runs) /\ IsInjective(p.todo)
      /\ ToSet(p.todo) = Kept \cap done
  BY <1>1, <1>3, PickedProperties DEF Kept
<1>5. ToSet(p.todo) = done
  BY <1>2, <1>4
<1>6. SumOf(done \cup current) \in Nat /\ SumOf(done) <= SumOf(done \cup current)
  BY <1>2, Sums
<1>7. Cardinality(Kept) \in Nat /\ Cardinality(done) <= Cardinality(Kept)
  BY <1>2, Counts
<1>8. ASSUME NEW q \in done PROVE pc[q] \in Terminal
  BY <1>2 DEF Typed, Placed, InProgress, Holding, Terminal
<1> HIDE DEF p, done
<1>9. p \in Plans
  BY <1>1, <1>4, <1>6, <1>7 DEF Plans
<1>10. Sound(p, pc, written)
  BY <1>1, <1>4, <1>5, <1>6, <1>7, <1>8, SumOfBytes DEF Sound
<1>. QED
  BY <1>1, <1>5, <1>9, <1>10 DEF p, done

LEMMA NoPlanSound == NoPlan \in Plans /\ \A at, w : Sound(NoPlan, at, w)
<1>1. ToSet(<<>>) = {} /\ IsInjective(<<>>) /\ <<>> \in Seq(Runs)
  BY EmptySeq DEF ToSet, IsInjective
<1>2. \A w : BytesOf(w, {}) = {}
  BY DEF BytesOf
<1>3. NoPlan.todo = <<>> /\ NoPlan.count = 0 /\ NoPlan.bytes = 0
  BY DEF NoPlan
<1>4. NoPlan \in Plans
  BY <1>1 DEF NoPlan, Plans
<1>5. Cardinality({}) = 0
  BY FS_EmptySet
<1>6. ToSet(NoPlan.todo) = {} /\ IsInjective(NoPlan.todo)
  BY <1>1, <1>3
<1>7. ASSUME NEW at, NEW w PROVE Sound(NoPlan, at, w)
  BY <1>2, <1>3, <1>5, <1>6 DEF Sound
<1>. QED
  BY <1>4, <1>7

\* A sound eviction stays so: what is done with does not change.
LEMMA StillSound ==
    ASSUME NEW p, NEW at, NEW w, NEW bt, NEW v, Sound(p, at, w),
           \A q \in ToSet(p.todo) :
               at[q] \in Terminal => bt[q] \in Terminal /\ v[q] = w[q]
    PROVE  Sound(p, bt, v)
<1>1. BytesOf(v, ToSet(p.todo)) = BytesOf(w, ToSet(p.todo))
  BY BytesSame DEF Sound
<1>. QED
  BY <1>1 DEF Sound

-----------------------------------------------------------------------------
(* What keeps each part. *)

LEMMA StillPlanned ==
    ASSUME RunsInv,
           \A q \in Runs : pc[q] \in Terminal =>
               pc'[q] \in Terminal /\ written'[q] = written[q],
           \A r \in Runs : plan'[r] = plan[r] \/ plan'[r] = NoPlan,
           \A r \in Runs : pc'[r] = "fitting" =>
               pc[r] = "fitting" /\ plan'[r] = plan[r]
    PROVE  Planned'
<1> SUFFICES ASSUME NEW r \in Runs
             PROVE  /\ Sound(plan'[r], pc', written')
                    /\ pc'[r] = "fitting" => plan'[r].keep = RunsLimit
  BY DEF Planned
<1>1. CASE plan'[r] = plan[r]
  <2>1. ToSet(plan[r].todo) \in SUBSET Runs
    BY KeptRuns DEF RunsInv
  <2>2. Sound(plan[r], pc, written)
    BY DEF RunsInv, Planned
  <2>3. Sound(plan[r], pc', written')
    BY <2>1, <2>2, StillSound
  <2>. QED
    BY <1>1, <2>3 DEF RunsInv, Planned
<1>2. CASE plan'[r] = NoPlan
  <2>1. Sound(NoPlan, pc', written')
    BY NoPlanSound
  <2>. QED
    BY <1>2, <2>1 DEF RunsInv, Planned
<1>. QED
  BY <1>1, <1>2

LEMMA StillServed ==
    ASSUME RunsInv, setting' = setting, Actives' \subseteq Actives,
           \A r \in Actives' : By(r) \in serving => By(r) \in serving',
           sweep' \in {"asked", "clearing"} => serving' = {}
    PROVE  Served'
<1>1. Cardinality(Actives') <= Cardinality(Actives)
      /\ Cardinality(Actives') \in Nat /\ Cardinality(Actives) \in Nat
  <2>1. Actives \in SUBSET Runs
    BY DEF Actives
  <2>. QED
    BY <2>1, Counts
<1>2. Cardinality(Actives') <= RunsLimit
  BY <1>1, LimitsAssumption DEF RunsInv, Served
<1>3. (Cardinality(Actives))' = Cardinality(Actives')
  OBVIOUS
<1>. QED
  BY <1>2, <1>3 DEF RunsInv, Served, By

\* What a step does with the directory, when it does anything: it removes runs
\* that nothing holds, adds one, or changes the order.
Removes(gone) ==
    /\ disk' = Without(gone)
    /\ marks' = marks \ gone

LEMMA RemovesKept ==
    ASSUME Typed, NEW gone, Removes(gone)
    PROVE  /\ disk' \in Seq(Runs) /\ IsInjective(disk')
           /\ Kept' = Kept \ gone /\ marks' \subseteq Kept'
<1>1. Kept' = ToSet(disk')
  BY DEF Kept
<1>. QED
  BY <1>1, WithoutDisk DEF Removes, Typed

LEMMA TouchesKept ==
    ASSUME Typed, NEW r \in Kept, disk' = Touched(r)
    PROVE  /\ disk' \in Seq(Runs) /\ IsInjective(disk') /\ Kept' = Kept
<1>1. Kept' = ToSet(disk')
  BY DEF Kept
<1>. QED
  BY <1>1, TouchedDisk

LEMMA BeginKeeps ==
    ASSUME RunsInv, NEW r \in Runs, Begin(r)
    PROVE  RunsInv' /\ Kept' = Kept
<1> USE DEF others, directory
<1> DEFINE p == Listing({}, RunsLimit - 1)
<1>0. RunsLimit - 1 \in Nat
  BY LimitsAssumption
<1>1. p \in Plans /\ Sound(p, pc, written)
  <2>1. {} \in SUBSET Runs
    OBVIOUS
  <2>. QED
    BY <1>0, <2>1, Listed DEF RunsInv
<1>2. /\ pc[r] = "idle" /\ pc' = [pc EXCEPT ![r] = "making"]
      /\ plan' = [plan EXCEPT ![r] = p]
      /\ r \in DOMAIN setting.by /\ By(r) \in serving
      /\ Cardinality(Actives) < RunsLimit
      /\ UNCHANGED <<setting, serving, copies, sweep, disk, marks, written,
                     crowded, old, reader>>
  BY DEF Begin, Actives
<1> HIDE DEF p
<1>3. Kept' = Kept
  BY <1>2 DEF Kept
<1>4. Typed'
  BY <1>1, <1>2, <1>3 DEF RunsInv, Typed, Stream, Terminal
<1>5. Actives' = Actives \cup {r}
  BY <1>2 DEF Actives, Active, Holding, RunsInv, Typed
<1>6. Served'
  <2>1. Actives \in SUBSET Runs
    BY DEF Actives
  <2>2. IsFiniteSet(Actives) /\ Cardinality(Actives) \in Nat
    BY <2>1, Counts
  <2>3. Cardinality(Actives \cup {r}) <= Cardinality(Actives) + 1
    <3>1. Cardinality(Actives \cup {r})
             = IF r \in Actives THEN Cardinality(Actives) ELSE Cardinality(Actives) + 1
      BY <2>2, FS_AddElement
    <3>. QED
      BY <2>2, <3>1
  <2>4. Cardinality(Actives') <= RunsLimit
    <3>1. Cardinality(Actives \cup {r}) \in Nat
      BY <2>1, Counts
    <3>. QED
      BY <1>2, <1>5, <2>2, <2>3, <3>1, LimitsAssumption
  <2>5. (Cardinality(Actives))' = Cardinality(Actives')
    OBVIOUS
  <2>. QED
    BY <1>2, <1>5, <2>4, <2>5 DEF Served, RunsInv, By
<1>7. Placed'
  BY <1>2, <1>3 DEF Placed, RunsInv, Typed, Holding, Terminal
<1>8. Planned'
  <2> SUFFICES ASSUME NEW q \in Runs
               PROVE  /\ Sound(plan'[q], pc', written')
                      /\ pc'[q] = "fitting" => plan'[q].keep = RunsLimit
    BY DEF Planned
  <2>1. Sound(plan'[q], pc, written)
    BY <1>1, <1>2 DEF RunsInv, Typed, Planned
  <2>2. plan'[q].todo \in Seq(Runs)
    BY <1>4 DEF Typed, Plans
  <2>3. ToSet(plan'[q].todo) \in SUBSET Runs
    BY <1>4, KeptRuns, <2>2, LenProperties, ElementOfSeq DEF ToSet
  <2>4. \A x \in ToSet(plan'[q].todo) : pc[x] \in Terminal =>
           pc'[x] \in Terminal /\ written'[x] = written[x]
    BY <1>2, <2>3 DEF Terminal, RunsInv, Typed
  <2>5. Sound(plan'[q], pc', written')
    BY <2>1, <2>4, StillSound
  <2>6. pc'[q] = "fitting" => q # r /\ pc[q] = "fitting"
    BY <1>2 DEF RunsInv, Typed
  <2>. QED
    BY <1>2, <2>5, <2>6 DEF RunsInv, Planned, Typed
<1>. QED
  BY <1>3, <1>4, <1>6, <1>7, <1>8 DEF RunsInv

LEMMA EvictKeeps ==
    ASSUME RunsInv, NEW r \in Runs, Evict(r)
    PROVE  LET q == Head(plan[r].todo)
           IN  /\ RunsInv'
               /\ Kept' = Kept \ {q} /\ pc[q] \in Terminal
               /\ q \in ToSet(plan[r].todo)
               /\ ToSet(plan'[r].todo) = ToSet(plan[r].todo) \ {q}
               /\ plan'[r].count = plan[r].count - 1
               /\ plan'[r].bytes = plan[r].bytes - written[q]
               /\ \A x \in Runs \ {r} : plan'[x] = plan[x]
<1> USE DEF others
<1> DEFINE q == Head(plan[r].todo)
<1>1. /\ plan[r].todo # <<>> /\ Removes({q})
      /\ plan' = [plan EXCEPT ![r].todo = Tail(@), ![r].count = @ - 1,
                              ![r].bytes = @ - written[q]]
      /\ old' = FALSE
      /\ UNCHANGED <<setting, serving, copies, sweep, pc, written, crowded, reader>>
  BY DEF Evict, Done, Removes
<1>2. /\ plan[r] \in Plans /\ plan[r].todo \in Seq(Runs)
      /\ IsInjective(plan[r].todo) /\ Sound(plan[r], pc, written)
  BY DEF RunsInv, Typed, Planned, Plans, Sound
<1>3. /\ Tail(plan[r].todo) \in Seq(Runs) /\ IsInjective(Tail(plan[r].todo))
      /\ q \in ToSet(plan[r].todo)
      /\ ToSet(Tail(plan[r].todo)) = ToSet(plan[r].todo) \ {q}
  BY <1>1, <1>2, TailSet
<1>4. ToSet(plan[r].todo) \in SUBSET Runs /\ q \in Runs /\ pc[q] \in Terminal
  BY <1>2, <1>3, KeptRuns DEF RunsInv, Sound
<1> HIDE DEF q
<1>5. /\ disk' \in Seq(Runs) /\ IsInjective(disk')
      /\ Kept' = Kept \ {q} /\ marks' \subseteq Kept'
  BY <1>1, RemovesKept DEF RunsInv
<1>6. /\ plan'[r].todo = Tail(plan[r].todo)
      /\ plan'[r].count = plan[r].count - 1
      /\ plan'[r].bytes = plan[r].bytes - written[q]
      /\ plan'[r].keep = plan[r].keep
      /\ plan'[r] \in Plans
      /\ \A x \in Runs \ {r} : plan'[x] = plan[x]
  <2>1. plan \in [Runs -> Plans]
    BY DEF RunsInv, Typed
  <2>2. written[q] \in Int
    BY <1>4 DEF RunsInv, Typed
  <2>3. /\ plan'[r].todo = Tail(plan[r].todo)
        /\ plan'[r].count = plan[r].count - 1
        /\ plan'[r].bytes = plan[r].bytes - written[q]
        /\ plan'[r].keep = plan[r].keep
    BY <1>1, <1>2, <2>1 DEF Plans
  <2>4. plan'[r] \in Plans
    <3>1. plan'[r] = [plan[r] EXCEPT !.todo = Tail(plan[r].todo),
                                     !.count = plan[r].count - 1,
                                     !.bytes = plan[r].bytes - written[q]]
      BY <1>1, <2>1
    <3>2. plan[r].count - 1 \in Int /\ plan[r].bytes - written[q] \in Int
      BY <1>2, <2>2 DEF Plans
    <3>. QED
      BY <1>2, <1>3, <3>1, <3>2 DEF Plans
  <2>. QED
    BY <1>1, <2>1, <2>3, <2>4
<1>7. Typed'
  <2>1. plan' \in [Runs -> Plans]
    BY <1>1, <1>6 DEF RunsInv, Typed
  <2>. QED
    BY <1>1, <1>5, <2>1 DEF RunsInv, Typed, Stream
<1>8. Served'
  <2>1. Actives' = Actives
    BY <1>1 DEF Actives, Active, Holding
  <2>. QED
    BY <1>1, <2>1, StillServed DEF RunsInv, Served
<1>9. Placed'
  BY <1>1, <1>4, <1>5 DEF Placed, RunsInv, Removes, Holding, Terminal
<1>10. Sound(plan'[r], pc', written')
  <2>1. Cardinality(ToSet(plan[r].todo) \ {q}) = Cardinality(ToSet(plan[r].todo)) - 1
        /\ Cardinality(ToSet(plan[r].todo)) \in Nat
    BY <1>3, <1>4, Counts
  <2>2. /\ SumOf(ToSet(plan[r].todo) \ {q}) = SumOf(ToSet(plan[r].todo)) - written[q]
        /\ SumOf(ToSet(plan[r].todo)) \in Nat
    BY <1>3, <1>4, Sums DEF RunsInv
  <2>3. written[q] \in Nat /\ plan[r].bytes \in Int /\ plan[r].count \in Int
    BY <1>2, <1>4 DEF RunsInv, Typed, Plans
  <2>4. Cardinality(ToSet(plan[r].todo)) <= plan[r].count
        /\ SumOf(ToSet(plan[r].todo)) <= plan[r].bytes
    BY <1>2, SumOfBytes DEF Sound
  <2> DEFINE todo == ToSet(plan[r].todo)
  <2> HIDE DEF todo
  <2>0. todo = ToSet(plan[r].todo) /\ ToSet(plan'[r].todo) = todo \ {q}
    BY <1>3, <1>6 DEF todo
  <2>5. Cardinality(todo \ {q}) <= plan[r].count - 1
    BY <2>0, <2>1, <2>3, <2>4
  <2>6. SumOf(todo \ {q}) <= plan[r].bytes - written[q]
    BY <2>0, <2>2, <2>3, <2>4
  <2>7. \A x \in ToSet(plan'[r].todo) : pc'[x] \in Terminal
    BY <1>1, <1>2, <1>3, <1>6 DEF Sound
  <2>8. IsInjective(plan'[r].todo)
    BY <1>3, <1>6
  <2>9. Cardinality(BytesOf(written', todo \ {q})) <= plan[r].bytes - written[q]
    BY <1>1, <2>6, SumOfBytes
  <2>. QED
    BY <1>6, <2>0, <2>5, <2>7, <2>8, <2>9 DEF Sound
<1>11. Planned'
  <2> SUFFICES ASSUME NEW x \in Runs
               PROVE  /\ Sound(plan'[x], pc', written')
                      /\ pc'[x] = "fitting" => plan'[x].keep = RunsLimit
    BY DEF Planned
  <2>. QED
    BY <1>1, <1>6, <1>10 DEF RunsInv, Planned
<1>12. RunsInv'
  BY <1>7, <1>8, <1>9, <1>11 DEF RunsInv
<1>13. ToSet(plan'[r].todo) = ToSet(plan[r].todo) \ {q}
  BY <1>3, <1>6
<1>. QED
  BY <1>3, <1>4, <1>5, <1>6, <1>12, <1>13 DEF q

LEMMA PlaceKeeps ==
    ASSUME RunsInv, NEW r \in Runs, Place(r)
    PROVE  RunsInv' /\ Kept' = Kept \cup {r}
<1> USE DEF others
<1>1. /\ pc[r] = "making" /\ pc' = [pc EXCEPT ![r] = "running"]
      /\ disk' = Append(disk, r) /\ marks' = marks \cup {r}
      /\ plan' = [plan EXCEPT ![r] = NoPlan] /\ old' = FALSE
      /\ UNCHANGED <<setting, serving, copies, sweep, written, crowded, reader>>
  BY DEF Place
<1>2. r \notin Kept
  BY <1>1 DEF RunsInv, Placed
<1>3. disk' \in Seq(Runs) /\ IsInjective(disk') /\ Kept' = Kept \cup {r}
  <2>1. disk \in Seq(Runs) /\ IsInjective(disk) /\ r \notin ToSet(disk)
    BY <1>2 DEF RunsInv, Typed, Kept
  <2>. QED
    BY <1>1, <2>1, AppendedSet DEF Kept
<1>4. Typed'
  BY <1>1, <1>3, NoPlanSound DEF RunsInv, Typed, Stream
<1>5. Served'
  <2>1. Actives' \subseteq Actives
    BY <1>1 DEF Actives, Active, Holding, RunsInv, Typed
  <2>. QED
    BY <1>1, <2>1, StillServed DEF RunsInv, Served
<1>6. Placed'
  BY <1>1, <1>3 DEF Placed, RunsInv, Typed, Holding, Terminal
<1>7. Planned'
  <2>1. \A q \in Runs : pc[q] \in Terminal =>
            pc'[q] \in Terminal /\ written'[q] = written[q]
    BY <1>1 DEF RunsInv, Typed, Terminal
  <2>2. \A q \in Runs : plan'[q] = plan[q] \/ plan'[q] = NoPlan
    BY <1>1 DEF RunsInv, Typed
  <2>3. \A q \in Runs : pc'[q] = "fitting" =>
            pc[q] = "fitting" /\ plan'[q] = plan[q]
    BY <1>1 DEF RunsInv, Typed
  <2>. QED
    BY <2>1, <2>2, <2>3, StillPlanned
<1>. QED
  BY <1>3, <1>4, <1>5, <1>6, <1>7 DEF RunsInv

LEMMA WriteKeeps ==
    ASSUME RunsInv, NEW r \in Runs, Write(r)
    PROVE  RunsInv' /\ Kept' = Kept
<1> USE DEF others, directory
<1>1. /\ pc[r] = "running" /\ written[r] < Len(Stream(r))
      /\ written' = [written EXCEPT ![r] = @ + 1]
      /\ UNCHANGED <<setting, serving, copies, sweep, disk, marks, pc, plan,
                     crowded, old, reader>>
  BY DEF Write
<1>2. Kept' = Kept /\ Actives' = Actives
  BY <1>1 DEF Kept, Actives, Active, Holding
<1>3. Len(Stream(r)) \in Nat
  <2>1. Stream(r) \in Seq(Bytes)
    BY SettingsAssumption DEF RunsInv, Typed, Stream
  <2>. QED
    BY <2>1, LenProperties
<1>4. Typed'
  <2>1. written' \in [Runs -> Nat]
    BY <1>1 DEF RunsInv, Typed
  <2>2. \A q \in Runs : written'[q] <= Len(Stream(q))
    BY <1>1, <1>3 DEF RunsInv, Typed
  <2>. QED
    BY <1>1, <1>2, <2>1, <2>2 DEF RunsInv, Typed, Stream
<1>5. Served'
  BY <1>1, <1>2, StillServed DEF RunsInv, Served
<1>6. Placed'
  BY <1>1, <1>2 DEF Placed, RunsInv, Holding
<1>7. Planned'
  <2>1. \A q \in Runs : pc[q] \in Terminal =>
            pc'[q] \in Terminal /\ written'[q] = written[q]
    BY <1>1 DEF RunsInv, Typed, Terminal
  <2>. QED
    BY <1>1, <2>1, StillPlanned
<1>. QED
  BY <1>2, <1>4, <1>5, <1>6, <1>7 DEF RunsInv

LEMMA EndKeeps ==
    ASSUME RunsInv, NEW r \in Runs, End(r)
    PROVE  RunsInv' /\ Kept' = Kept
<1> USE DEF others
<1>1. /\ pc[r] = "running" /\ pc' = [pc EXCEPT ![r] = "ended"]
      /\ disk' = Touched(r) /\ old' = FALSE
      /\ UNCHANGED <<setting, serving, copies, sweep, marks, plan, written,
                     crowded, reader>>
  BY DEF End
<1>2. r \in Kept
  BY <1>1 DEF RunsInv, Typed, Placed, Holding
<1>3. disk' \in Seq(Runs) /\ IsInjective(disk') /\ Kept' = Kept
  BY <1>1, <1>2, TouchesKept DEF RunsInv
<1>4. Typed'
  BY <1>1, <1>3 DEF RunsInv, Typed, Stream
<1>5. Served'
  <2>1. Actives' \subseteq Actives
    BY <1>1 DEF Actives, Active, Holding, RunsInv, Typed
  <2>. QED
    BY <1>1, <2>1, StillServed DEF RunsInv, Served
<1>6. Placed'
  BY <1>1, <1>3 DEF Placed, RunsInv, Typed, Holding, Terminal
<1>7. Planned'
  <2>1. \A q \in Runs : pc[q] \in Terminal =>
            pc'[q] \in Terminal /\ written'[q] = written[q]
    BY <1>1 DEF RunsInv, Typed, Terminal
  <2>2. \A q \in Runs : pc'[q] = "fitting" => pc[q] = "fitting"
    BY <1>1 DEF RunsInv, Typed
  <2>. QED
    BY <1>1, <2>1, <2>2, StillPlanned
<1>. QED
  BY <1>3, <1>4, <1>5, <1>6, <1>7 DEF RunsInv

LEMMA FinishKeeps ==
    ASSUME RunsInv, NEW r \in Runs, Finish(r)
    PROVE  RunsInv' /\ Kept' = Kept
<1> USE DEF others, directory
<1> DEFINE p == Listing({r}, RunsLimit)
<1>1. p \in Plans /\ Sound(p, pc, written) /\ p.keep = RunsLimit
  <2>1. {r} \in SUBSET Runs /\ RunsLimit \in Nat
    BY LimitsAssumption
  <2>. QED
    BY <2>1, Listed DEF RunsInv
<1>2. /\ pc[r] = "ended" /\ pc' = [pc EXCEPT ![r] = "fitting"]
      /\ plan' = [plan EXCEPT ![r] = p]
      /\ crowded \subseteq crowded' /\ crowded' \subseteq crowded \cup {r}
      /\ UNCHANGED <<setting, serving, copies, sweep, disk, marks, written,
                     old, reader>>
  BY DEF Finish
<1> HIDE DEF p
<1>3. Kept' = Kept
  BY <1>2 DEF Kept
<1>4. Typed'
  BY <1>1, <1>2, <1>3 DEF RunsInv, Typed, Stream
<1>5. Served'
  <2>1. Actives' \subseteq Actives
    BY <1>2 DEF Actives, Active, Holding, RunsInv, Typed
  <2>. QED
    BY <1>2, <2>1, StillServed DEF RunsInv, Served
<1>6. Placed'
  BY <1>2, <1>3 DEF Placed, RunsInv, Typed, Holding, Terminal
<1>7. Planned'
  <2> SUFFICES ASSUME NEW q \in Runs
               PROVE  /\ Sound(plan'[q], pc', written')
                      /\ pc'[q] = "fitting" => plan'[q].keep = RunsLimit
    BY DEF Planned
  <2>1. Sound(plan'[q], pc, written)
    BY <1>1, <1>2 DEF RunsInv, Typed, Planned
  <2>2. plan'[q].todo \in Seq(Runs)
    BY <1>4 DEF Typed, Plans
  <2>3. ToSet(plan'[q].todo) \in SUBSET Runs
    BY <2>2, LenProperties, ElementOfSeq DEF ToSet
  <2>4. \A x \in ToSet(plan'[q].todo) : pc[x] \in Terminal =>
           pc'[x] \in Terminal /\ written'[x] = written[x]
    BY <1>2, <2>3 DEF Terminal, RunsInv, Typed
  <2>5. Sound(plan'[q], pc', written')
    BY <2>1, <2>4, StillSound
  <2>6. q # r => pc'[q] = pc[q] /\ plan'[q] = plan[q]
    BY <1>2 DEF RunsInv, Typed
  <2>7. q = r => plan'[q] = p
    BY <1>2 DEF RunsInv, Typed
  <2>. QED
    BY <1>1, <2>5, <2>6, <2>7 DEF RunsInv, Planned
<1>. QED
  BY <1>3, <1>4, <1>5, <1>6, <1>7 DEF RunsInv

\* A run that is in progress is kept, so that letting go of it touches it.
LEMMA LetGoKeeps ==
    ASSUME RunsInv, NEW r \in Runs, LetGo(r)
    PROVE  RunsInv' /\ Kept' = Kept
<1> USE DEF others
<1>1. r \in Kept
  BY DEF LetGo, RunsInv, Typed, Placed, Holding
<1>2. /\ pc[r] = "fitting" /\ pc' = [pc EXCEPT ![r] = "over"]
      /\ disk' = Touched(r) /\ old' = FALSE /\ marks' = marks \ {r}
      /\ plan' = [plan EXCEPT ![r] = NoPlan]
      /\ UNCHANGED <<setting, serving, copies, sweep, written, crowded, reader>>
  BY <1>1 DEF LetGo
<1>3. disk' \in Seq(Runs) /\ IsInjective(disk') /\ Kept' = Kept
  BY <1>1, <1>2, TouchesKept DEF RunsInv
<1>4. Typed'
  BY <1>2, <1>3, NoPlanSound DEF RunsInv, Typed, Stream, Terminal
<1>5. Served'
  <2>1. Actives' \subseteq Actives
    BY <1>2 DEF Actives, Active, Holding, RunsInv, Typed
  <2>. QED
    BY <1>2, <2>1, StillServed DEF RunsInv, Served
<1>6. Placed'
  BY <1>2, <1>3 DEF Placed, RunsInv, Typed, Holding, Terminal
<1>7. Planned'
  <2>1. \A q \in Runs : pc[q] \in Terminal =>
            pc'[q] \in Terminal /\ written'[q] = written[q]
    BY <1>2 DEF RunsInv, Typed, Terminal
  <2>2. \A q \in Runs : plan'[q] = plan[q] \/ plan'[q] = NoPlan
    BY <1>2 DEF RunsInv, Typed
  <2>3. \A q \in Runs : pc'[q] = "fitting" =>
            pc[q] = "fitting" /\ plan'[q] = plan[q]
    BY <1>2 DEF RunsInv, Typed
  <2>. QED
    BY <2>1, <2>2, <2>3, StillPlanned
<1>. QED
  BY <1>3, <1>4, <1>5, <1>6, <1>7 DEF RunsInv

LEMMA SpawnFailsKeeps ==
    ASSUME RunsInv, NEW r \in Runs, SpawnFails(r)
    PROVE  RunsInv' /\ Kept' = Kept
<1> USE DEF others
<1>1. /\ pc[r] = "running" /\ pc' = [pc EXCEPT ![r] = "unstarted"]
      /\ disk' = Touched(r) /\ old' = FALSE /\ marks' = marks \ {r}
      /\ UNCHANGED <<setting, serving, copies, sweep, written, plan, crowded,
                     reader>>
  BY DEF SpawnFails
<1>2. r \in Kept
  BY <1>1 DEF RunsInv, Typed, Placed, Holding
<1>3. disk' \in Seq(Runs) /\ IsInjective(disk') /\ Kept' = Kept
  BY <1>1, <1>2, TouchesKept DEF RunsInv
<1>4. Typed'
  BY <1>1, <1>3 DEF RunsInv, Typed, Stream, Terminal
<1>5. Served'
  <2>1. Actives' \subseteq Actives
    BY <1>1 DEF Actives, Active, Holding, RunsInv, Typed
  <2>. QED
    BY <1>1, <2>1, StillServed DEF RunsInv, Served
<1>6. Placed'
  BY <1>1, <1>3 DEF Placed, RunsInv, Typed, Holding, Terminal
<1>7. Planned'
  <2>1. \A q \in Runs : pc[q] \in Terminal =>
            pc'[q] \in Terminal /\ written'[q] = written[q]
    BY <1>1 DEF RunsInv, Typed, Terminal
  <2>2. \A q \in Runs : pc'[q] = "fitting" => pc[q] = "fitting"
    BY <1>1 DEF RunsInv, Typed
  <2>. QED
    BY <1>1, <2>1, <2>2, StillPlanned
<1>. QED
  BY <1>3, <1>4, <1>5, <1>6, <1>7 DEF RunsInv

\* Removing what nothing holds.
LEMMA ClearingKeeps ==
    ASSUME RunsInv, NEW gone, Removes(gone), \A r \in gone : ~Active(r),
           UNCHANGED <<setting, pc, written, copies, plan, crowded, old>>,
           serving' \subseteq Servers, \A r \in Actives : By(r) \in serving',
           sweep' \in {"idle", "asked", "clearing", "over"},
           sweep' \in {"asked", "clearing"} => serving' = {}
    PROVE  RunsInv' /\ Kept' = Kept \ gone
<1>1. /\ disk' \in Seq(Runs) /\ IsInjective(disk')
      /\ Kept' = Kept \ gone /\ marks' \subseteq Kept'
  BY RemovesKept DEF RunsInv
<1>2. Typed'
  BY <1>1 DEF RunsInv, Typed, Stream
<1>3. Actives' = Actives
  BY DEF Actives, Active, Holding
<1>4. Served'
  BY <1>3, StillServed
<1>5. Placed'
  BY <1>1 DEF Placed, RunsInv, Removes, Active, Holding
<1>6. Planned'
  BY StillPlanned
<1>. QED
  BY <1>1, <1>2, <1>4, <1>5, <1>6 DEF RunsInv

LEMMA LeaveKeeps ==
    ASSUME RunsInv, NEW s \in Servers, Leave(s)
    PROVE  RunsInv' /\ Kept' \subseteq Kept
<1> DEFINE gone == IF setting.external THEN {r \in RunsBy(s) : ~InProgress(r)}
                   ELSE {}
<1>1. /\ Removes(gone) /\ serving' = serving \ {s}
      /\ \A r \in RunsBy(s) : ~Active(r)
      /\ UNCHANGED <<setting, pc, written, copies, plan, crowded, old, sweep>>
  BY DEF Leave, Removes
<1>2. \A r \in gone : ~Active(r)
  BY <1>1
<1>3. \A r \in Actives : By(r) \in serving'
  BY <1>1 DEF Actives, RunsBy, RunsInv, Served
<1>4. /\ serving' \subseteq Servers
      /\ sweep' \in {"idle", "asked", "clearing", "over"}
      /\ sweep' \in {"asked", "clearing"} => serving' = {}
  BY <1>1 DEF RunsInv, Typed, Served
<1> HIDE DEF gone
<1>5. RunsInv' /\ Kept' = Kept \ gone
  BY <1>1, <1>2, <1>3, <1>4, ClearingKeeps
<1>. QED
  BY <1>5

LEMMA SweepRemovesKeeps ==
    ASSUME RunsInv, SweepRemoves
    PROVE  RunsInv' /\ Kept' = {}
<1> USE DEF SweepGoes
<1>1. /\ sweep = "clearing" /\ sweep' = "over" /\ disk' = <<>> /\ marks' = {}
      /\ UNCHANGED <<setting, serving, copies, pc, written, plan, crowded, old>>
  BY DEF SweepRemoves
<1>2. serving = {} /\ Actives = {}
  BY <1>1 DEF RunsInv, Served, Typed
<1>3. disk' \in Seq(Runs) /\ IsInjective(disk') /\ Kept' = {}
  BY <1>1, EmptySeq DEF Kept, ToSet, IsInjective
<1>4. Typed'
  BY <1>1, <1>3 DEF RunsInv, Typed, Stream
<1>5. Actives' = Actives
  BY <1>1 DEF Actives, Active, Holding
<1>6. Served'
  BY <1>1, <1>2, <1>5, StillServed
<1>7. Placed'
  BY <1>1, <1>2, <1>3 DEF Placed, RunsInv, Actives, Active, Holding
<1>8. Planned'
  BY <1>1, StillPlanned
<1>. QED
  BY <1>3, <1>4, <1>6, <1>7, <1>8 DEF RunsInv

LEMMA KillKeeps ==
    ASSUME RunsInv, NEW s \in Servers, Kill(s)
    PROVE  RunsInv' /\ Kept' = Kept
<1> USE DEF directory
<1>1. /\ serving' = serving \ {s}
      /\ pc' = [r \in Runs |->
                  IF r \in RunsBy(s) /\ Active(r) THEN "dead" ELSE pc[r]]
      /\ plan' = [r \in Runs |-> IF r \in RunsBy(s) THEN NoPlan ELSE plan[r]]
      /\ UNCHANGED <<setting, disk, marks, written, copies, crowded, old, sweep>>
  BY DEF Kill
<1>2. Kept' = Kept
  BY <1>1 DEF Kept
<1>3. Typed'
  BY <1>1, <1>2, NoPlanSound DEF RunsInv, Typed, Stream, Terminal
<1>4. \A r \in Runs : pc'[r] = "dead" \/ pc'[r] = pc[r]
  BY <1>1
<1>5. Actives' = Actives \ RunsBy(s)
  BY <1>1 DEF Actives, Active, Holding
<1>6. Served'
  <2>1. \A r \in Actives' : By(r) \in serving => By(r) \in serving'
    BY <1>1, <1>5 DEF RunsBy, RunsInv, Served
  <2>. QED
    BY <1>1, <1>5, <2>1, StillServed DEF RunsInv, Served
<1>7. Placed'
  BY <1>1, <1>2, <1>4 DEF Placed, RunsInv, Typed, Holding, Terminal
<1>8. Planned'
  <2>1. \A q \in Runs : pc[q] \in Terminal =>
            pc'[q] \in Terminal /\ written'[q] = written[q]
    BY <1>1, <1>4 DEF Terminal
  <2>2. \A q \in Runs : plan'[q] = plan[q] \/ plan'[q] = NoPlan
    BY <1>1
  <2>3. ASSUME NEW q \in Runs, pc'[q] = "fitting"
        PROVE  pc[q] = "fitting" /\ plan'[q] = plan[q]
    <3>1. pc[q] = "fitting" /\ q \notin RunsBy(s)
      BY <1>1, <2>3 DEF Active, Holding
    <3>. QED
      BY <1>1, <3>1
  <2>. QED
    BY <2>1, <2>2, <2>3, StillPlanned
<1>. QED
  BY <1>2, <1>3, <1>6, <1>7, <1>8 DEF RunsInv

\* Everything else leaves the runs alone.
Aside ==
    /\ UNCHANGED <<setting, directory, pc, written, plan, crowded>>
    /\ copies' \subseteq Runs /\ old' \in BOOLEAN
    /\ serving' \subseteq Servers /\ serving \subseteq serving'
    /\ sweep' \in {"idle", "asked", "clearing", "over"}
    /\ sweep' \in {"asked", "clearing"} => serving' = {}

LEMMA AsideKeeps ==
    ASSUME RunsInv, Aside
    PROVE  RunsInv' /\ Kept' = Kept
<1> USE DEF Aside, directory
<1>1. Kept' = Kept /\ Actives' = Actives
  BY DEF Kept, Actives, Active, Holding
<1>2. Typed'
  BY <1>1 DEF RunsInv, Typed, Stream
<1>3. Served'
  BY <1>1, StillServed
<1>4. Placed'
  BY <1>1 DEF Placed, RunsInv, Holding
<1>5. Planned'
  BY StillPlanned
<1>. QED
  BY <1>1, <1>2, <1>3, <1>4, <1>5 DEF RunsInv

LEMMA AsideSteps ==
    ASSUME RunsInv
    PROVE  /\ \A s \in Servers : Serve(s) \/ Fork(s) => Aside
           /\ Exec \/ Expire \/ SweepAsks \/ SweepLooks \/ Reader => Aside
           /\ UNCHANGED retained => Aside
<1> USE DEF RunsInv, Typed, Served, Aside, directory, others
<1>1. ASSUME NEW s \in Servers, Serve(s) PROVE Aside
  BY <1>1 DEF Serve
<1>2. ASSUME NEW s \in Servers, Fork(s) PROVE Aside
  <2>1. setting.by \in [DOMAIN setting.by -> Servers] /\ DOMAIN setting.by \subseteq Runs
    BY SettingsAssumption
  <2>. QED
    BY <1>2, <2>1 DEF Fork, RunsBy
<1>3. ASSUME Exec \/ Expire \/ SweepAsks \/ SweepLooks PROVE Aside
  BY <1>3 DEF Exec, Expire, SweepAsks, SweepLooks, SweepGoes
<1>4. ASSUME Reader PROVE Aside
  BY <1>4 DEF Reader, Ask, Look, Stat, TakePage, AskAgain
<1>5. ASSUME UNCHANGED retained PROVE Aside
  BY <1>5 DEF retained
<1>. QED
  BY <1>1, <1>2, <1>3, <1>4, <1>5

LEMMA RunsInitially == Init => RunsInv
<1> SUFFICES ASSUME Init PROVE RunsInv
  OBVIOUS
<1>1. Kept = {} /\ Actives = {}
  BY DEF Init, Kept, ToSet, Actives, Active, Holding
<1>2. Typed
  <2>1. <<>> \in Seq(Runs) /\ IsInjective(<<>>)
    BY EmptySeq DEF IsInjective
  <2>2. \A r \in Runs : 0 <= Len(Stream(r))
    <3> SUFFICES ASSUME NEW r \in Runs PROVE 0 <= Len(Stream(r))
      OBVIOUS
    <3>1. Stream(r) \in Seq(Bytes)
      BY SettingsAssumption DEF Init, Stream
    <3>2. Len(Stream(r)) \in Nat
      BY <3>1, LenProperties
    <3>. QED
      BY <3>2
  <2>. QED
    BY <1>1, <2>1, <2>2, NoPlanSound DEF Init, Typed
<1>3. Served
  BY <1>1, FS_EmptySet, LimitsAssumption DEF Init, Served
<1>4. Placed
  BY <1>1 DEF Init, Placed, Holding
<1>5. Planned
  BY NoPlanSound DEF Init, Planned
<1>. QED
  BY <1>2, <1>3, <1>4, <1>5 DEF RunsInv

\* What every step keeps of the runs, the directory and the evictions.
THEOREM RunsAccounted == Spec => []RunsInv
<1>1. RunsInv /\ [Next]_retained => RunsInv'
  <2> SUFFICES ASSUME RunsInv, [Next]_retained PROVE RunsInv'
    OBVIOUS
  <2>1. ASSUME NEW r \in Runs, RunStep(r) PROVE RunsInv'
    BY <2>1, BeginKeeps, EvictKeeps, PlaceKeeps, WriteKeeps, EndKeeps,
       FinishKeeps, LetGoKeeps, SpawnFailsKeeps DEF RunStep
  <2>2. ASSUME NEW s \in Servers, Serve(s) \/ Leave(s) \/ Kill(s) \/ Fork(s)
        PROVE  RunsInv'
    BY <2>2, LeaveKeeps, KillKeeps, AsideSteps, AsideKeeps
  <2>3. CASE Exec \/ Sweep \/ Reader \/ UNCHANGED retained
    BY <2>3, SweepRemovesKeeps, AsideSteps, AsideKeeps DEF Sweep
  <2>. QED
    BY <2>1, <2>2, <2>3 DEF Next
<1>. QED
  BY <1>1, RunsInitially, PTL DEF Spec

\* Nothing removes a run in progress.
THEOREM RunningIsKept == Spec => []KeptWhileRunning
<1>1. RunsInv => KeptWhileRunning
  BY DEF RunsInv, Typed, Placed, KeptWhileRunning
<1>. QED
  BY <1>1, RunsAccounted, PTL

-----------------------------------------------------------------------------
(* What is left fits.  A session has a limit on the runs and one on their  *)
(* bytes, so that what can be said of both is said of a size of sets.      *)

IsSize(size, weight) ==
    /\ size \in [SUBSET Runs -> Nat] /\ weight \in [Runs -> Nat]
    /\ \A set \in SUBSET Runs : \A part \in SUBSET set : size[part] <= size[set]
    /\ \A set \in SUBSET Runs : \A r \in set :
          size[set \ {r}] = size[set] - weight[r]

\* A set fits, or one of those at work has counted all of it and leaves no more
\* than fits.
Room(size, limit, set, by, todo, counted) ==
    \/ size[set] <= limit
    \/ \E r \in by : /\ size[set \cup todo[r]] <= counted[r]
                     /\ size[set \ todo[r]] <= limit

\* Whichever of those at work are lost, with their runs.
Fits(size, limit, set, by, todo, counted) ==
    \A lost \in SUBSET by : Room(size, limit, set \ lost, by \ lost, todo, counted)

\* Those at work go on with what they had.
GoOn(by, todo, counted, todo2, counted2) ==
    \A r \in by : todo2[r] = todo[r] /\ counted2[r] = counted[r]

\* Some are lost, some runs go, and the others go on.
LEMMA FitsLess ==
    ASSUME NEW size, NEW weight, IsSize(size, weight), NEW limit \in Nat,
           NEW set \in SUBSET Runs, NEW by \in SUBSET Runs,
           NEW todo \in [Runs -> SUBSET Runs], NEW counted \in [Runs -> Int],
           Fits(size, limit, set, by, todo, counted),
           NEW gone \in SUBSET by, NEW rest \in SUBSET (set \ gone),
           NEW todo2, NEW counted2,
           GoOn(by \ gone, todo, counted, todo2, counted2)
    PROVE  Fits(size, limit, rest, by \ gone, todo2, counted2)
<1> USE DEF GoOn
<1> SUFFICES ASSUME NEW lost \in SUBSET (by \ gone)
             PROVE  Room(size, limit, rest \ lost, (by \ gone) \ lost, todo2, counted2)
  BY DEF Fits
<1> DEFINE all == lost \cup gone
           big == set \ all
           small == rest \ lost
<1>1. all \in SUBSET by /\ by \ all = (by \ gone) \ lost
  OBVIOUS
<1>2. Room(size, limit, big, by \ all, todo, counted)
  BY <1>1 DEF Fits
<1>3. small \in SUBSET big /\ big \in SUBSET Runs
  OBVIOUS
<1> HIDE DEF all, big, small
<1>4. CASE size[big] <= limit
  <2>1. size[small] <= size[big] /\ size[small] \in Nat /\ size[big] \in Nat
    BY <1>3 DEF IsSize
  <2>2. size[small] <= limit
    BY <1>4, <2>1
  <2>. QED
    BY <2>2 DEF Room, small
<1>5. ASSUME NEW r \in by \ all, size[big \cup todo[r]] <= counted[r],
             size[big \ todo[r]] <= limit
      PROVE  Room(size, limit, small, (by \ gone) \ lost, todo2, counted2)
  <2>1. r \in Runs /\ todo[r] \in SUBSET Runs /\ counted[r] \in Int
    OBVIOUS
  <2>2. /\ small \cup todo[r] \in SUBSET (big \cup todo[r])
        /\ small \ todo[r] \in SUBSET (big \ todo[r])
        /\ big \cup todo[r] \in SUBSET Runs /\ big \ todo[r] \in SUBSET Runs
    BY <1>3, <2>1
  <2>3. /\ size[small \cup todo[r]] <= size[big \cup todo[r]]
        /\ size[small \ todo[r]] <= size[big \ todo[r]]
        /\ size[small \cup todo[r]] \in Nat /\ size[big \cup todo[r]] \in Nat
        /\ size[small \ todo[r]] \in Nat /\ size[big \ todo[r]] \in Nat
    BY <2>2 DEF IsSize
  <2>4. size[small \cup todo[r]] <= counted[r] /\ size[small \ todo[r]] <= limit
    BY <1>5, <2>1, <2>3
  <2>5. r \in (by \ gone) \ lost /\ todo2[r] = todo[r] /\ counted2[r] = counted[r]
    BY <1>1, <1>5
  <2>. QED
    BY <2>4, <2>5 DEF Room
<1>. QED
  BY <1>2, <1>4, <1>5 DEF Room, small

\* One of those at work removes the next run that it has counted.
LEMMA FitsEvict ==
    ASSUME NEW size, NEW weight, IsSize(size, weight), NEW limit \in Nat,
           NEW set \in SUBSET Runs, NEW by \in SUBSET Runs,
           NEW todo \in [Runs -> SUBSET Runs], NEW counted \in [Runs -> Int],
           Fits(size, limit, set, by, todo, counted),
           NEW r \in by, NEW q \in todo[r], q \notin by,
           NEW todo2, NEW counted2,
           todo2[r] = todo[r] \ {q}, counted2[r] = counted[r] - weight[q],
           GoOn(by \ {r}, todo, counted, todo2, counted2)
    PROVE  Fits(size, limit, set \ {q}, by, todo2, counted2)
<1> USE DEF GoOn
<1> SUFFICES ASSUME NEW lost \in SUBSET by
             PROVE  Room(size, limit, (set \ {q}) \ lost, by \ lost, todo2, counted2)
  BY DEF Fits
<1> DEFINE big == set \ lost
           small == (set \ {q}) \ lost
<1>1. Room(size, limit, big, by \ lost, todo, counted)
  BY DEF Fits
<1>2. small = big \ {q} /\ small \in SUBSET big /\ big \in SUBSET Runs
  OBVIOUS
<1> HIDE DEF big, small
<1>3. CASE size[big] <= limit
  <2>1. size[small] <= size[big] /\ size[small] \in Nat /\ size[big] \in Nat
    BY <1>2 DEF IsSize
  <2>2. size[small] <= limit
    BY <1>3, <2>1
  <2>. QED
    BY <2>2 DEF Room, small
<1>4. ASSUME NEW x \in by \ lost, size[big \cup todo[x]] <= counted[x],
             size[big \ todo[x]] <= limit
      PROVE  Room(size, limit, small, by \ lost, todo2, counted2)
  <2>1. x \in Runs /\ todo[x] \in SUBSET Runs /\ counted[x] \in Int
        /\ r \in Runs /\ q \in Runs
    OBVIOUS
  <2>2. CASE x = r
    <3>1. /\ small \cup todo2[r] = (big \cup todo[r]) \ {q}
          /\ small \ todo2[r] = big \ todo[r]
          /\ q \in big \cup todo[r] /\ big \cup todo[r] \in SUBSET Runs
      BY <1>2, <2>1
    <3>2. size[(big \cup todo[r]) \ {q}] = size[big \cup todo[r]] - weight[q]
      BY <3>1 DEF IsSize
    <3>3. size[big \cup todo[r]] \in Nat /\ weight[q] \in Nat
      BY <2>1, <3>1 DEF IsSize
    <3>4. size[big \cup todo[r]] - weight[q] <= counted[r] - weight[q]
      BY <1>4, <2>1, <2>2, <3>3
    <3>5. size[small \cup todo2[r]] <= counted2[r]
      BY <3>1, <3>2, <3>4
    <3>6. size[small \ todo2[r]] <= limit
      BY <1>4, <2>2, <3>1
    <3>. QED
      BY <1>4, <2>2, <3>5, <3>6 DEF Room
  <2>3. CASE x # r
    <3>1. /\ small \cup todo[x] \in SUBSET (big \cup todo[x])
          /\ small \ todo[x] \in SUBSET (big \ todo[x])
          /\ big \cup todo[x] \in SUBSET Runs /\ big \ todo[x] \in SUBSET Runs
      BY <1>2, <2>1
    <3>2. /\ size[small \cup todo[x]] <= size[big \cup todo[x]]
          /\ size[small \ todo[x]] <= size[big \ todo[x]]
          /\ size[small \cup todo[x]] \in Nat /\ size[big \cup todo[x]] \in Nat
          /\ size[small \ todo[x]] \in Nat /\ size[big \ todo[x]] \in Nat
      BY <3>1 DEF IsSize
    <3>3. size[small \cup todo[x]] <= counted[x] /\ size[small \ todo[x]] <= limit
      BY <1>4, <2>1, <3>2
    <3>4. todo2[x] = todo[x] /\ counted2[x] = counted[x]
      BY <1>4, <2>3
    <3>. QED
      BY <1>4, <3>3, <3>4 DEF Room
  <2>. QED
    BY <2>2, <2>3
<1>. QED
  BY <1>1, <1>3, <1>4 DEF Room, small

\* One of those at work is done: nothing is left to remove, or what it counted
\* fits.
LEMMA FitsDone ==
    ASSUME NEW size, NEW weight, IsSize(size, weight), NEW limit \in Nat,
           NEW set \in SUBSET Runs, NEW by \in SUBSET Runs,
           NEW todo \in [Runs -> SUBSET Runs], NEW counted \in [Runs -> Int],
           Fits(size, limit, set, by, todo, counted),
           NEW r \in by, todo[r] = {} \/ counted[r] <= limit,
           NEW todo2, NEW counted2,
           GoOn(by \ {r}, todo, counted, todo2, counted2)
    PROVE  Fits(size, limit, set, by \ {r}, todo2, counted2)
<1> USE DEF GoOn
<1> SUFFICES ASSUME NEW lost \in SUBSET (by \ {r})
             PROVE  Room(size, limit, set \ lost, (by \ {r}) \ lost, todo2, counted2)
  BY DEF Fits
<1> DEFINE big == set \ lost
<1>1. Room(size, limit, big, by \ lost, todo, counted)
  BY DEF Fits
<1>2. big \in SUBSET Runs
  OBVIOUS
<1> HIDE DEF big
<1>3. ASSUME NEW x \in (by \ lost) \ {r}, size[big \cup todo[x]] <= counted[x],
             size[big \ todo[x]] <= limit
      PROVE  Room(size, limit, big, (by \ {r}) \ lost, todo2, counted2)
  BY <1>3 DEF Room
<1>4. ASSUME size[big \cup todo[r]] <= counted[r], size[big \ todo[r]] <= limit
      PROVE  size[big] <= limit
  <2>1. CASE todo[r] = {}
    <3>1. big \ todo[r] = big
      BY <2>1
    <3>. QED
      BY <1>4, <3>1
  <2>2. CASE counted[r] <= limit
    <3>1. r \in Runs /\ todo[r] \in SUBSET Runs /\ counted[r] \in Int
      OBVIOUS
    <3>2. big \in SUBSET (big \cup todo[r]) /\ big \cup todo[r] \in SUBSET Runs
      BY <1>2, <3>1
    <3>3. size[big] <= size[big \cup todo[r]]
          /\ size[big] \in Nat /\ size[big \cup todo[r]] \in Nat
      BY <1>2, <3>2 DEF IsSize
    <3>. QED
      BY <1>4, <2>2, <3>1, <3>3
  <2>. QED
    BY <2>1, <2>2
<1>. QED
  BY <1>1, <1>3, <1>4 DEF Room, big

\* One more run comes to its end, has counted everything, and will leave no
\* more than fits.
LEMMA FitsFinish ==
    ASSUME NEW size, NEW weight, IsSize(size, weight), NEW limit \in Nat,
           NEW set \in SUBSET Runs, NEW by \in SUBSET Runs,
           NEW todo \in [Runs -> SUBSET Runs], NEW counted \in [Runs -> Int],
           Fits(size, limit, set, by, todo, counted),
           NEW r \in Runs, r \notin by, r \notin set,
           NEW todo2, NEW counted2 \in [Runs -> Int], todo2[r] \in SUBSET Runs,
           size[(set \cup {r}) \cup todo2[r]] <= counted2[r],
           size[(set \cup {r}) \ todo2[r]] <= limit,
           GoOn(by, todo, counted, todo2, counted2)
    PROVE  Fits(size, limit, set \cup {r}, by \cup {r}, todo2, counted2)
<1> DEFINE full == set \cup {r}
<1> USE DEF GoOn
<1> SUFFICES ASSUME NEW lost \in SUBSET (by \cup {r})
             PROVE  Room(size, limit, full \ lost, (by \cup {r}) \ lost, todo2, counted2)
  BY DEF Fits
<1>1. CASE r \in lost
  <2> DEFINE left == lost \ {r}
  <2>1. left \in SUBSET by /\ full \ lost = set \ left
        /\ (by \cup {r}) \ lost = by \ left
    BY <1>1
  <2>2. Room(size, limit, set \ left, by \ left, todo, counted)
    BY <2>1 DEF Fits
  <2> HIDE DEF left
  <2>3. Room(size, limit, set \ left, by \ left, todo2, counted2)
    BY <2>2 DEF Room
  <2>. QED
    BY <2>1, <2>3
<1>2. CASE r \notin lost
  <2>1. /\ (full \ lost) \cup todo2[r] \in SUBSET (full \cup todo2[r])
        /\ (full \ lost) \ todo2[r] \in SUBSET (full \ todo2[r])
        /\ full \cup todo2[r] \in SUBSET Runs /\ full \ todo2[r] \in SUBSET Runs
    OBVIOUS
  <2>2. /\ size[(full \ lost) \cup todo2[r]] <= size[full \cup todo2[r]]
        /\ size[(full \ lost) \ todo2[r]] <= size[full \ todo2[r]]
        /\ size[(full \ lost) \cup todo2[r]] \in Nat
        /\ size[full \cup todo2[r]] \in Nat
        /\ size[(full \ lost) \ todo2[r]] \in Nat
        /\ size[full \ todo2[r]] \in Nat
    BY <2>1 DEF IsSize
  <2>3. /\ size[(full \ lost) \cup todo2[r]] <= counted2[r]
        /\ size[(full \ lost) \ todo2[r]] <= limit
    BY <2>2
  <2>4. r \in (by \cup {r}) \ lost
    BY <1>2
  <2>. QED
    BY <2>3, <2>4 DEF Room
<1>. QED
  BY <1>1, <1>2

\* One more is at work, on a set that it is not in.
LEMMA FitsCrowded ==
    ASSUME NEW size, NEW limit, NEW set, NEW by, NEW todo, NEW counted,
           Fits(size, limit, set, by, todo, counted), NEW r, r \notin set,
           r \notin by, NEW todo2, NEW counted2,
           GoOn(by, todo, counted, todo2, counted2)
    PROVE  Fits(size, limit, set, by \cup {r}, todo2, counted2)
<1> USE DEF GoOn
<1> SUFFICES ASSUME NEW lost \in SUBSET (by \cup {r})
             PROVE  Room(size, limit, set \ lost, (by \cup {r}) \ lost, todo2, counted2)
  BY DEF Fits
<1> DEFINE left == lost \ {r}
<1>1. left \in SUBSET by /\ set \ lost = set \ left
      /\ by \ left \subseteq (by \cup {r}) \ lost
  OBVIOUS
<1>2. Room(size, limit, set \ left, by \ left, todo, counted)
  BY <1>1 DEF Fits
<1> HIDE DEF left
<1>. QED
  BY <1>1, <1>2 DEF Room

-----------------------------------------------------------------------------
(* The invariant, and that every step keeps it. *)

Counting == [set \in SUBSET Runs |-> Cardinality(set)]
Weighing(w) == [set \in SUBSET Runs |-> Cardinality(BytesOf(w, set))]

LEMMA CountingSize == IsSize(Counting, [r \in Runs |-> 1])
<1>1. \A set \in SUBSET Runs : Counting[set] = Cardinality(set)
  BY DEF Counting
<1>2. Counting \in [SUBSET Runs -> Nat]
  BY Counts DEF Counting
<1>3. ASSUME NEW set \in SUBSET Runs, NEW part \in SUBSET set
      PROVE  Counting[part] <= Counting[set]
  BY <1>1, Counts
<1>4. ASSUME NEW set \in SUBSET Runs, NEW r \in set
      PROVE  Counting[set \ {r}] = Counting[set] - [x \in Runs |-> 1][r]
  <2>1. set \ {r} \in SUBSET Runs /\ r \in Runs
    OBVIOUS
  <2>. QED
    BY <1>1, <2>1, Counts
<1>. QED
  BY <1>2, <1>3, <1>4 DEF IsSize

LEMMA WeighingSize ==
    ASSUME NEW w \in [Runs -> Nat]
    PROVE  IsSize(Weighing(w), w)
<1>1. \A set \in SUBSET Runs : Weighing(w)[set] = Cardinality(BytesOf(w, set))
  BY DEF Weighing
<1>2. Weighing(w) \in [SUBSET Runs -> Nat]
  BY BytesFinite DEF Weighing
<1>3. ASSUME NEW set \in SUBSET Runs, NEW part \in SUBSET set
      PROVE  Weighing(w)[part] <= Weighing(w)[set]
  BY <1>1, BytesMonotone
<1>4. ASSUME NEW set \in SUBSET Runs, NEW r \in set
      PROVE  Weighing(w)[set \ {r}] = Weighing(w)[set] - w[r]
  <2>1. set \ {r} \in SUBSET Runs
    OBVIOUS
  <2>. QED
    BY <1>1, <2>1, BytesWithout
<1>. QED
  BY <1>2, <1>3, <1>4 DEF IsSize

\* The runs that got as far as finish(), and the evictions of those still at it.
Fitting == {r \in Runs : pc[r] = "fitting"}
Finished == {r \in Kept : pc[r] \in {"fitting", "over"}}
Todos == [r \in Runs |-> ToSet(plan[r].todo)]
Counted == [r \in Runs |-> plan[r].count]
CountedBytes == [r \in Runs |-> plan[r].bytes]

Small == \A r \in Runs : Len(Stream(r)) <= BytesLimit

CountFits == Fits(Counting, RunsLimit, Finished, Fitting, Todos, Counted)
BytesFit ==
    Small => Fits(Weighing(written), BytesLimit, Finished \ crowded, Fitting,
                  Todos, CountedBytes)

FitsInv == CountFits /\ BytesFit

LEMMA FitsTypes ==
    ASSUME RunsInv
    PROVE  /\ Finished \in SUBSET Runs /\ Fitting \in SUBSET Finished
           /\ Fitting \in SUBSET Runs /\ Finished \ crowded \in SUBSET Runs
           /\ Todos \in [Runs -> SUBSET Runs]
           /\ Counted \in [Runs -> Int] /\ CountedBytes \in [Runs -> Int]
           /\ IsSize(Weighing(written), written)
           /\ RunsLimit \in Nat /\ BytesLimit \in Nat
<1>1. Kept \in SUBSET Runs /\ \A r \in Runs : ToSet(plan[r].todo) \in SUBSET Runs
  BY KeptRuns DEF RunsInv
<1>2. Finished \in SUBSET Runs /\ Fitting \in SUBSET Runs
  BY <1>1 DEF Finished, Fitting
<1>3. Fitting \in SUBSET Finished
  BY DEF Fitting, Finished, RunsInv, Typed, Placed, Holding
<1>4. Todos \in [Runs -> SUBSET Runs]
  BY <1>1 DEF Todos
<1>5. Counted \in [Runs -> Int] /\ CountedBytes \in [Runs -> Int]
  BY DEF Counted, CountedBytes, RunsInv, Typed, Plans
<1>6. IsSize(Weighing(written), written)
  BY WeighingSize DEF RunsInv, Typed
<1>. QED
  BY <1>2, <1>3, <1>4, <1>5, <1>6, LimitsAssumption

\* A step that lets nothing come to its end, and changes no eviction of those
\* that go on.
LEMMA FitsFrame ==
    ASSUME RunsInv, FitsInv, NEW gone \in SUBSET Fitting,
           setting' = setting, written' = written,
           Finished' \subseteq Finished \ gone, Fitting' = Fitting \ gone,
           Finished' \ crowded' \subseteq (Finished \ crowded) \ gone,
           \A r \in Fitting \ gone : plan'[r] = plan[r]
    PROVE  FitsInv'
<1>1. GoOn(Fitting \ gone, Todos, Counted, Todos', Counted')
  BY DEF GoOn, Todos, Counted, Fitting
<1>2. GoOn(Fitting \ gone, Todos, CountedBytes, Todos', CountedBytes')
  BY DEF GoOn, Todos, CountedBytes, Fitting
<1>3. /\ Finished \in SUBSET Runs /\ Fitting \in SUBSET Runs
      /\ Finished \ crowded \in SUBSET Runs
      /\ Todos \in [Runs -> SUBSET Runs]
      /\ Counted \in [Runs -> Int] /\ CountedBytes \in [Runs -> Int]
      /\ IsSize(Weighing(written), written)
      /\ RunsLimit \in Nat /\ BytesLimit \in Nat
  BY FitsTypes
<1>4. CountFits'
  <2>1. Fits(Counting, RunsLimit, Finished, Fitting, Todos, Counted)
    BY DEF FitsInv, CountFits
  <2>2. Finished' \in SUBSET (Finished \ gone)
    OBVIOUS
  <2>3. Fits(Counting, RunsLimit, Finished', Fitting \ gone, Todos', Counted')
    BY <1>1, <1>3, <2>1, <2>2, CountingSize, FitsLess
  <2>. QED
    BY <2>3 DEF CountFits
<1>5. BytesFit'
  <2> SUFFICES ASSUME Small'
               PROVE  Fits(Weighing(written'), BytesLimit, Finished' \ crowded',
                           Fitting', Todos', CountedBytes')
    BY DEF BytesFit
  <2>1. Small
    BY DEF Small, Stream
  <2>2. Fits(Weighing(written), BytesLimit, Finished \ crowded, Fitting, Todos,
             CountedBytes)
    BY <2>1 DEF FitsInv, BytesFit
  <2>3. Finished' \ crowded' \in SUBSET ((Finished \ crowded) \ gone)
    OBVIOUS
  <2>4. Fits(Weighing(written), BytesLimit, Finished' \ crowded', Fitting \ gone,
             Todos', CountedBytes')
    BY <1>2, <1>3, <2>2, <2>3, FitsLess
  <2>. QED
    BY <2>4
<1>. QED
  BY <1>4, <1>5 DEF FitsInv

LEMMA EvictFits ==
    ASSUME RunsInv, FitsInv, NEW r \in Runs, Evict(r)
    PROVE  FitsInv'
<1> USE DEF others
<1> DEFINE q == Head(plan[r].todo)
<1>1. /\ Kept' = Kept \ {q} /\ pc[q] \in Terminal
      /\ q \in ToSet(plan[r].todo)
      /\ ToSet(plan'[r].todo) = ToSet(plan[r].todo) \ {q}
      /\ plan'[r].count = plan[r].count - 1
      /\ plan'[r].bytes = plan[r].bytes - written[q]
      /\ \A x \in Runs \ {r} : plan'[x] = plan[x]
  BY EvictKeeps
<1>2. /\ pc[r] \in {"making", "fitting"}
      /\ UNCHANGED <<setting, pc, written, crowded>>
  BY DEF Evict
<1> HIDE DEF q
<1>3. /\ Finished' = Finished \ {q} /\ Fitting' = Fitting
      /\ Finished' \ crowded' = (Finished \ crowded) \ {q}
      /\ q \notin Fitting
  BY <1>1, <1>2 DEF Finished, Fitting, Terminal
<1>4. CASE pc[r] = "making"
  <2>1. \A x \in Fitting \ {} : plan'[x] = plan[x]
    BY <1>1, <1>4 DEF Fitting
  <2>2. /\ {} \in SUBSET Fitting /\ Fitting' = Fitting \ {}
        /\ Finished' \subseteq Finished \ {}
        /\ Finished' \ crowded' \subseteq (Finished \ crowded) \ {}
    BY <1>3
  <2>. QED
    BY <1>2, <2>1, <2>2, FitsFrame
<1>5. CASE pc[r] = "fitting"
  <2>1. r \in Fitting /\ q \in Todos[r] /\ q \in Runs
    <3>1. ToSet(plan[r].todo) \in SUBSET Runs
      BY KeptRuns DEF RunsInv
    <3>. QED
      BY <1>1, <1>5, <3>1 DEF Fitting, Todos
  <2>2. /\ Todos'[r] = Todos[r] \ {q}
        /\ Counted'[r] = Counted[r] - [x \in Runs |-> 1][q]
        /\ CountedBytes'[r] = CountedBytes[r] - written[q]
    BY <1>1, <2>1 DEF Todos, Counted, CountedBytes
  <2>3. /\ GoOn(Fitting \ {r}, Todos, Counted, Todos', Counted')
        /\ GoOn(Fitting \ {r}, Todos, CountedBytes, Todos', CountedBytes')
    BY <1>1 DEF GoOn, Todos, Counted, CountedBytes, Fitting
  <2>4. CountFits'
    <3>1. Fits(Counting, RunsLimit, Finished, Fitting, Todos, Counted)
      BY DEF FitsInv, CountFits
    <3>2. Fits(Counting, RunsLimit, Finished \ {q}, Fitting, Todos', Counted')
      BY <1>3, <2>1, <2>2, <2>3, <3>1, FitsTypes, CountingSize, FitsEvict
    <3>. QED
      BY <1>3, <3>2 DEF CountFits
  <2>5. BytesFit'
    <3> SUFFICES ASSUME Small'
                 PROVE  Fits(Weighing(written'), BytesLimit, Finished' \ crowded',
                             Fitting', Todos', CountedBytes')
      BY DEF BytesFit
    <3>1. Small
      BY <1>2 DEF Small, Stream
    <3>2. Fits(Weighing(written), BytesLimit, Finished \ crowded, Fitting, Todos,
               CountedBytes)
      BY <3>1 DEF FitsInv, BytesFit
    <3>3. Fits(Weighing(written), BytesLimit, (Finished \ crowded) \ {q}, Fitting,
               Todos', CountedBytes')
      BY <1>3, <2>1, <2>2, <2>3, <3>2, FitsTypes, FitsEvict
    <3>. QED
      BY <1>2, <1>3, <3>3
  <2>. QED
    BY <2>4, <2>5 DEF FitsInv
<1>. QED
  BY <1>2, <1>4, <1>5

LEMMA LetGoFits ==
    ASSUME RunsInv, FitsInv, NEW r \in Runs, LetGo(r)
    PROVE  FitsInv'
<1> USE DEF others
<1>1. /\ pc[r] = "fitting" /\ pc' = [pc EXCEPT ![r] = "over"]
      /\ plan' = [plan EXCEPT ![r] = NoPlan] /\ Done(plan[r])
      /\ UNCHANGED <<setting, written, crowded>> /\ Kept' = Kept
  BY LetGoKeeps DEF LetGo
<1>2. Finished' = Finished /\ Fitting' = Fitting \ {r} /\ r \in Fitting
  BY <1>1 DEF Finished, Fitting, RunsInv, Typed
<1>3. /\ GoOn(Fitting \ {r}, Todos, Counted, Todos', Counted')
      /\ GoOn(Fitting \ {r}, Todos, CountedBytes, Todos', CountedBytes')
  BY <1>1 DEF GoOn, Todos, Counted, CountedBytes, Fitting, RunsInv, Typed
<1>4. /\ Todos[r] = {} \/ Counted[r] <= RunsLimit
      /\ Todos[r] = {} \/ CountedBytes[r] <= BytesLimit
  <2>1. CASE plan[r].todo = <<>>
    <3>1. Todos[r] = ToSet(<<>>)
      BY <2>1 DEF Todos
    <3>2. ToSet(<<>>) = {}
      BY DEF ToSet
    <3>. QED
      BY <3>1, <3>2
  <2>2. CASE ~Over(plan[r])
    <3>1. plan[r].keep = RunsLimit /\ plan[r].count \in Int /\ plan[r].bytes \in Int
      BY <1>1 DEF RunsInv, Typed, Planned, Plans
    <3>. QED
      BY <2>2, <3>1, LimitsAssumption DEF Over, Counted, CountedBytes
  <2>. QED
    BY <1>1, <2>1, <2>2 DEF Done
<1>5. CountFits'
  <2>1. Fits(Counting, RunsLimit, Finished, Fitting, Todos, Counted)
    BY DEF FitsInv, CountFits
  <2>2. Fits(Counting, RunsLimit, Finished, Fitting \ {r}, Todos', Counted')
    BY <1>2, <1>3, <1>4, <2>1, FitsTypes, CountingSize, FitsDone
  <2>. QED
    BY <1>2, <2>2 DEF CountFits
<1>6. BytesFit'
  <2> SUFFICES ASSUME Small'
               PROVE  Fits(Weighing(written'), BytesLimit, Finished' \ crowded',
                           Fitting', Todos', CountedBytes')
    BY DEF BytesFit
  <2>1. Small
    BY <1>1 DEF Small, Stream
  <2>2. Fits(Weighing(written), BytesLimit, Finished \ crowded, Fitting, Todos,
             CountedBytes)
    BY <2>1 DEF FitsInv, BytesFit
  <2>3. Fits(Weighing(written), BytesLimit, Finished \ crowded, Fitting \ {r},
             Todos', CountedBytes')
    BY <1>2, <1>3, <1>4, <2>2, FitsTypes, FitsDone
  <2>. QED
    BY <1>1, <1>2, <2>3
<1>. QED
  BY <1>5, <1>6 DEF FitsInv

LEMMA FinishFits ==
    ASSUME RunsInv, FitsInv, NEW r \in Runs, Finish(r)
    PROVE  FitsInv'
<1> USE DEF others, directory
<1> DEFINE p == Listing({r}, RunsLimit)
           todo == {q \in Kept : q \notin {r} /\ ~InProgress(q)}
<1>1. /\ ToSet(p.todo) = todo /\ p.count = Cardinality(Kept)
      /\ p.bytes = SumOf(todo \cup {r})
  <2>1. {r} \in SUBSET Runs /\ RunsLimit \in Nat
    BY LimitsAssumption
  <2>. QED
    BY <2>1, Listed DEF RunsInv
<1>2. /\ pc[r] = "ended" /\ pc' = [pc EXCEPT ![r] = "fitting"]
      /\ plan' = [plan EXCEPT ![r] = p]
      /\ crowded' = IF \E q \in Runs \ {r} : InProgress(q)
                    THEN crowded \cup {r} ELSE crowded
      /\ UNCHANGED <<setting, written>> /\ Kept' = Kept
  BY FinishKeeps DEF Finish
<1>3. RunsInv'
  BY FinishKeeps
<1>4. r \in Kept /\ r \notin crowded /\ Kept \in SUBSET Runs
  BY <1>2, KeptRuns DEF RunsInv, Typed, Placed, Holding, Terminal
<1>5. /\ Finished' = Finished \cup {r} /\ r \notin Finished
      /\ Fitting' = Fitting \cup {r} /\ r \notin Fitting
  BY <1>2, <1>4 DEF Finished, Fitting, RunsInv, Typed
<1>6. /\ Todos'[r] = todo /\ Counted'[r] = Cardinality(Kept)
      /\ CountedBytes'[r] = SumOf(todo \cup {r})
  BY <1>1, <1>2 DEF Todos, Counted, CountedBytes, RunsInv, Typed
<1>7. /\ GoOn(Fitting, Todos, Counted, Todos', Counted')
      /\ GoOn(Fitting, Todos, CountedBytes, Todos', CountedBytes')
  BY <1>2, <1>5 DEF GoOn, Todos, Counted, CountedBytes, Fitting, RunsInv, Typed
<1>8. Counted' \in [Runs -> Int] /\ CountedBytes' \in [Runs -> Int]
      /\ Todos' \in [Runs -> SUBSET Runs]
  <2>1. plan' \in [Runs -> Plans]
    BY <1>3 DEF RunsInv, Typed
  <2>2. ASSUME NEW x \in Runs PROVE ToSet(plan'[x].todo) \in SUBSET Runs
    <3>1. plan'[x].todo \in Seq(Runs)
      BY <2>1 DEF Plans
    <3>. QED
      BY <3>1, LenProperties, ElementOfSeq DEF ToSet
  <2>. QED
    BY <2>1, <2>2 DEF Todos, Counted, CountedBytes, Plans
<1> HIDE DEF p, todo
<1>9. todo \in SUBSET Kept
  BY DEF todo
<1>10. /\ Finished \in SUBSET Runs /\ Fitting \in SUBSET Runs
       /\ Todos \in [Runs -> SUBSET Runs] /\ Todos'[r] \in SUBSET Runs
       /\ Counted \in [Runs -> Int] /\ CountedBytes \in [Runs -> Int]
       /\ IsSize(Weighing(written), written)
       /\ RunsLimit \in Nat /\ BytesLimit \in Nat
  BY <1>8, FitsTypes
<1>11. CountFits'
  <2>1. Fits(Counting, RunsLimit, Finished, Fitting, Todos, Counted)
    BY DEF FitsInv, CountFits
  <2>2. (Finished \cup {r}) \cup todo \in SUBSET Kept
    BY <1>4, <1>9 DEF Finished
  <2>3. Counting[(Finished \cup {r}) \cup Todos'[r]] <= Counted'[r]
    <3>1. Cardinality((Finished \cup {r}) \cup todo) <= Cardinality(Kept)
      BY <1>4, <2>2, Counts
    <3>. QED
      BY <1>4, <1>6, <2>2, <3>1 DEF Counting
  <2>4. (Finished \cup {r}) \ todo \in SUBSET Actives
    <3>1. ASSUME NEW x \in Finished, x \notin todo, x # r PROVE x \in Actives
      <4>1. x \in Kept /\ pc[x] \in {"fitting", "over"} /\ x \in marks
        BY <3>1 DEF Finished, todo, InProgress
      <4>. QED
        BY <1>4, <4>1 DEF Actives, Active, Holding, RunsInv, Placed
    <3>2. r \in Actives
      BY <1>2 DEF Actives, Active, Holding
    <3>. QED
      BY <3>1, <3>2
  <2>5. Counting[(Finished \cup {r}) \ Todos'[r]] <= RunsLimit
    <3>1. Actives \in SUBSET Runs
      BY DEF Actives
    <3>2. Cardinality((Finished \cup {r}) \ todo) <= Cardinality(Actives)
          /\ Cardinality((Finished \cup {r}) \ todo) \in Nat
          /\ Cardinality(Actives) \in Nat
      BY <2>4, <3>1, Counts
    <3>3. Cardinality((Finished \cup {r}) \ todo) <= RunsLimit
      BY <3>2, LimitsAssumption DEF RunsInv, Served
    <3>4. (Finished \cup {r}) \ todo \in SUBSET Runs
      BY <2>4, <3>1
    <3>. QED
      BY <1>6, <3>3, <3>4 DEF Counting
  <2>6. Fits(Counting, RunsLimit, Finished \cup {r}, Fitting \cup {r}, Todos', Counted')
    BY <1>5, <1>7, <1>8, <1>10, <2>1, <2>3, <2>5, CountingSize, FitsFinish
  <2>. QED
    BY <1>5, <2>6 DEF CountFits
<1>12. BytesFit'
  <2> SUFFICES ASSUME Small'
               PROVE  Fits(Weighing(written'), BytesLimit, Finished' \ crowded',
                           Fitting', Todos', CountedBytes')
    BY DEF BytesFit
  <2>1. Small
    BY <1>2 DEF Small, Stream
  <2>2. Fits(Weighing(written), BytesLimit, Finished \ crowded, Fitting, Todos,
             CountedBytes)
    BY <2>1 DEF FitsInv, BytesFit
  <2>3. CASE \E q \in Runs \ {r} : InProgress(q)
    <3>1. Finished' \ crowded' = Finished \ crowded
      BY <1>2, <1>5, <2>3
    <3>2. r \notin Finished \ crowded /\ r \notin Fitting
      BY <1>5
    <3>3. Fits(Weighing(written), BytesLimit, Finished \ crowded, Fitting \cup {r},
               Todos', CountedBytes')
      BY <1>7, <2>2, <3>2, FitsCrowded
    <3>. QED
      BY <1>2, <1>5, <3>1, <3>3
  <2>4. CASE ~\E q \in Runs \ {r} : InProgress(q)
    <3> DEFINE set == Finished \ crowded
    <3>1. Finished' \ crowded' = set \cup {r} /\ r \notin set
      BY <1>2, <1>4, <1>5, <2>4
    <3>2. todo = Kept \ {r}
      BY <1>4, <2>4 DEF todo
    <3>3. todo \cup {r} = Kept /\ (set \cup {r}) \cup todo = Kept
          /\ (set \cup {r}) \ todo = {r}
      BY <1>4, <3>2 DEF Finished
    <3> HIDE DEF set
    <3>4. Weighing(written)[(set \cup {r}) \cup Todos'[r]] <= CountedBytes'[r]
      <4>1. Weighing(written)[Kept] = SumOf(Kept) /\ SumOf(Kept) \in Nat
        BY <1>4, SumOfBytes, Sums DEF Weighing, RunsInv
      <4>. QED
        BY <1>6, <3>3, <4>1
    <3>5. Weighing(written)[(set \cup {r}) \ Todos'[r]] <= BytesLimit
      <4>1. written \in [Runs -> Nat] /\ written[r] <= Len(Stream(r))
        BY DEF RunsInv, Typed
      <4>2. Weighing(written)[{r}] = written[r]
        BY <4>1, BytesOfOne DEF Weighing
      <4>3. Stream(r) \in Seq(Bytes)
        BY SettingsAssumption DEF RunsInv, Typed, Stream
      <4>4. Len(Stream(r)) \in Nat
        BY <4>3, LenProperties
      <4>5. written[r] <= BytesLimit
        BY <2>1, <4>1, <4>4, LimitsAssumption DEF Small
      <4>. QED
        BY <1>6, <3>3, <4>2, <4>5
    <3>6. set \in SUBSET Runs
      BY FitsTypes DEF set
    <3>7. Fits(Weighing(written), BytesLimit, set, Fitting, Todos, CountedBytes)
      BY <2>2 DEF set
    <3>8. Fits(Weighing(written), BytesLimit, set \cup {r}, Fitting \cup {r},
               Todos', CountedBytes')
      BY <1>5, <1>7, <1>8, <1>10, <3>1, <3>4, <3>5, <3>6, <3>7, FitsFinish
    <3>. QED
      BY <1>2, <1>5, <3>1, <3>8
  <2>. QED
    BY <2>3, <2>4
<1>. QED
  BY <1>11, <1>12 DEF FitsInv

\* What is being written to has no part in it.
LEMMA FitsSame ==
    ASSUME NEW size, NEW size2, NEW limit, NEW set, NEW by, NEW todo, NEW counted,
           Fits(size, limit, set, by, todo, counted),
           NEW quiet, set \in SUBSET quiet,
           \A x \in by : todo[x] \in SUBSET quiet,
           \A part \in SUBSET quiet : size2[part] = size[part]
    PROVE  Fits(size2, limit, set, by, todo, counted)
<1> SUFFICES ASSUME NEW lost \in SUBSET by
             PROVE  Room(size2, limit, set \ lost, by \ lost, todo, counted)
  BY DEF Fits
<1> DEFINE some == set \ lost
<1>1. Room(size, limit, some, by \ lost, todo, counted)
  BY DEF Fits
<1>2. some \in SUBSET quiet /\ size2[some] = size[some]
  OBVIOUS
<1> HIDE DEF some
<1>3. ASSUME NEW x \in by \ lost
      PROVE  /\ size2[some \cup todo[x]] = size[some \cup todo[x]]
             /\ size2[some \ todo[x]] = size[some \ todo[x]]
  <2>1. some \cup todo[x] \in SUBSET quiet /\ some \ todo[x] \in SUBSET quiet
    BY <1>2
  <2>. QED
    BY <2>1
<1>4. Room(size2, limit, some, by \ lost, todo, counted)
  BY <1>1, <1>2, <1>3 DEF Room
<1>. QED
  BY <1>4 DEF some

LEMMA WriteFits ==
    ASSUME RunsInv, FitsInv, NEW r \in Runs, Write(r)
    PROVE  FitsInv'
<1> USE DEF others, directory
<1>1. /\ pc[r] = "running" /\ written' = [written EXCEPT ![r] = @ + 1]
      /\ UNCHANGED <<setting, disk, pc, plan, crowded>>
  BY DEF Write
<1>2. /\ Finished' = Finished /\ Fitting' = Fitting /\ Todos' = Todos
      /\ Counted' = Counted /\ CountedBytes' = CountedBytes
      /\ (Finished \ crowded)' = Finished \ crowded
  BY <1>1 DEF Finished, Fitting, Todos, Counted, CountedBytes, Kept
<1>3. CountFits'
  BY <1>2 DEF FitsInv, CountFits
<1>4. BytesFit'
  <2> SUFFICES ASSUME Small'
               PROVE  Fits(Weighing(written'), BytesLimit, Finished' \ crowded',
                           Fitting', Todos', CountedBytes')
    BY DEF BytesFit
  <2> DEFINE quiet == Runs \ {r}
             size == Weighing(written)
             size2 == Weighing(written')
  <2>1. Small
    BY <1>1 DEF Small, Stream
  <2>2. Fits(size, BytesLimit, Finished \ crowded, Fitting, Todos, CountedBytes)
    BY <2>1 DEF FitsInv, BytesFit
  <2>3. Finished \ crowded \in SUBSET quiet
    BY <1>1, FitsTypes DEF Finished
  <2>4. \A x \in Fitting : Todos[x] \in SUBSET quiet
    <3>1. ASSUME NEW x \in Fitting PROVE Todos[x] \in SUBSET quiet
      <4>1. x \in Runs /\ Todos[x] \in SUBSET Runs /\ Todos[x] = ToSet(plan[x].todo)
        BY FitsTypes DEF Fitting, Todos
      <4>2. \A q \in ToSet(plan[x].todo) : pc[q] \in Terminal
        BY <4>1 DEF RunsInv, Planned, Sound
      <4>3. r \notin Todos[x]
        BY <1>1, <4>1, <4>2 DEF Terminal
      <4>. QED
        BY <4>1, <4>3
    <3>. QED
      BY <3>1
  <2>5. \A part \in SUBSET quiet : size2[part] = size[part]
    <3>1. ASSUME NEW part \in SUBSET quiet PROVE size2[part] = size[part]
      <4>1. \A q \in part : written'[q] = written[q]
        BY <1>1 DEF RunsInv, Typed
      <4>2. BytesOf(written', part) = BytesOf(written, part)
        BY <4>1, BytesSame
      <4>. QED
        BY <4>2 DEF Weighing
    <3>. QED
      BY <3>1
  <2> HIDE DEF quiet, size, size2
  <2>6. Fits(size2, BytesLimit, Finished \ crowded, Fitting, Todos, CountedBytes)
    BY <2>2, <2>3, <2>4, <2>5, FitsSame
  <2>. QED
    BY <1>1, <1>2, <2>6 DEF size2
<1>. QED
  BY <1>3, <1>4 DEF FitsInv

\* Nothing comes to its end, and nothing is lost.
LEMMA QuietFits ==
    ASSUME RunsInv, FitsInv, setting' = setting, written' = written,
           crowded' = crowded, Finished' \subseteq Finished, Fitting' = Fitting,
           \A r \in Fitting : plan'[r] = plan[r]
    PROVE  FitsInv'
<1>1. /\ {} \in SUBSET Fitting /\ Fitting' = Fitting \ {}
      /\ Finished' \subseteq Finished \ {}
      /\ Finished' \ crowded' \subseteq (Finished \ crowded) \ {}
      /\ \A r \in Fitting \ {} : plan'[r] = plan[r]
  OBVIOUS
<1>. QED
  BY <1>1, FitsFrame

LEMMA BeginFits ==
    ASSUME RunsInv, FitsInv, NEW r \in Runs, Begin(r)
    PROVE  FitsInv'
<1>1. /\ pc[r] = "idle" /\ pc' = [pc EXCEPT ![r] = "making"]
      /\ \A x \in Runs \ {r} : plan'[x] = plan[x]
      /\ UNCHANGED <<setting, written, crowded>> /\ Kept' = Kept
  BY BeginKeeps DEF Begin, others, directory, RunsInv, Typed
<1>2. /\ Finished' \subseteq Finished /\ Fitting' = Fitting
      /\ \A x \in Fitting : plan'[x] = plan[x]
  BY <1>1 DEF Finished, Fitting, RunsInv, Typed
<1>. QED
  BY <1>1, <1>2, QuietFits

LEMMA PlaceFits ==
    ASSUME RunsInv, FitsInv, NEW r \in Runs, Place(r)
    PROVE  FitsInv'
<1>1. /\ pc[r] = "making" /\ pc' = [pc EXCEPT ![r] = "running"]
      /\ \A x \in Runs \ {r} : plan'[x] = plan[x]
      /\ UNCHANGED <<setting, written, crowded>> /\ Kept' = Kept \cup {r}
  BY PlaceKeeps DEF Place, others, RunsInv, Typed
<1>2. /\ Finished' \subseteq Finished /\ Fitting' = Fitting
      /\ \A x \in Fitting : plan'[x] = plan[x]
  BY <1>1 DEF Finished, Fitting, RunsInv, Typed
<1>. QED
  BY <1>1, <1>2, QuietFits

LEMMA EndFits ==
    ASSUME RunsInv, FitsInv, NEW r \in Runs, End(r)
    PROVE  FitsInv'
<1>1. /\ pc[r] = "running" /\ pc' = [pc EXCEPT ![r] = "ended"]
      /\ UNCHANGED <<setting, written, crowded, plan>> /\ Kept' = Kept
  BY EndKeeps DEF End, others
<1>2. Finished' \subseteq Finished /\ Fitting' = Fitting
  BY <1>1 DEF Finished, Fitting, RunsInv, Typed
<1>. QED
  BY <1>1, <1>2, QuietFits

LEMMA SpawnFailsFits ==
    ASSUME RunsInv, FitsInv, NEW r \in Runs, SpawnFails(r)
    PROVE  FitsInv'
<1>1. /\ pc[r] = "running" /\ pc' = [pc EXCEPT ![r] = "unstarted"]
      /\ UNCHANGED <<setting, written, crowded, plan>> /\ Kept' = Kept
  BY SpawnFailsKeeps DEF SpawnFails, others
<1>2. Finished' \subseteq Finished /\ Fitting' = Fitting
  BY <1>1 DEF Finished, Fitting, RunsInv, Typed
<1>. QED
  BY <1>1, <1>2, QuietFits

\* Runs go, in whatever way; or nothing happens to any.
LEMMA OtherFits ==
    ASSUME RunsInv, FitsInv, UNCHANGED <<setting, pc, written, plan, crowded>>,
           Kept' \subseteq Kept
    PROVE  FitsInv'
<1>1. Finished' \subseteq Finished /\ Fitting' = Fitting
  BY DEF Finished, Fitting
<1>. QED
  BY <1>1, QuietFits

\* What a killed server was about to let go of is lost with it.
LEMMA KillFits ==
    ASSUME RunsInv, FitsInv, NEW s \in Servers, Kill(s)
    PROVE  FitsInv'
<1> DEFINE gone == Fitting \cap RunsBy(s)
<1>1. /\ pc' = [r \in Runs |->
                  IF r \in RunsBy(s) /\ Active(r) THEN "dead" ELSE pc[r]]
      /\ plan' = [r \in Runs |-> IF r \in RunsBy(s) THEN NoPlan ELSE plan[r]]
      /\ UNCHANGED <<setting, written, crowded>> /\ Kept' = Kept
  BY KillKeeps DEF Kill, directory
<1>2. Kept \in SUBSET Runs
  BY KeptRuns DEF RunsInv
<1>3. \A r \in Runs : /\ pc[r] = "fitting" => Active(r)
                      /\ pc[r] = "over" => ~Active(r)
  BY DEF Active, Holding
<1>4. Finished' \subseteq Finished \ gone /\ Fitting' = Fitting \ gone
  BY <1>1, <1>2, <1>3 DEF Finished, Fitting
<1>5. /\ \A r \in Fitting \ gone : plan'[r] = plan[r]
      /\ Finished' \ crowded' \subseteq (Finished \ crowded) \ gone
      /\ gone \in SUBSET Fitting
  BY <1>1, <1>4 DEF Fitting
<1> HIDE DEF gone
<1>. QED
  BY <1>1, <1>4, <1>5, FitsFrame

LEMMA FitsInitially == Init => FitsInv
<1> SUFFICES ASSUME Init PROVE FitsInv
  OBVIOUS
<1>1. Finished = {} /\ Fitting = {}
  BY DEF Init, Finished, Fitting, Kept, ToSet
<1>2. Cardinality({}) = 0 /\ BytesOf(written, {}) = {}
  BY FS_EmptySet, InBytesOf DEF BytesOf
<1>3. Counting[{}] = 0 /\ Weighing(written)[{}] = 0
  BY <1>2 DEF Counting, Weighing
<1>4. Counting[{}] <= RunsLimit /\ Weighing(written)[{}] <= BytesLimit
  BY <1>3, LimitsAssumption
<1>5. \A lost \in SUBSET {} : {} \ lost = {}
  OBVIOUS
<1>6. CountFits /\ BytesFit
  BY <1>1, <1>4, <1>5 DEF CountFits, BytesFit, Fits, Room
<1>. QED
  BY <1>6 DEF FitsInv

\* Whatever has come to its end fits the session, or somebody at work has counted
\* it and will leave what fits; and so it is without those that a crash takes.
THEOREM FinishedFits == Spec => [](RunsInv /\ FitsInv)
<1>1. RunsInv /\ FitsInv /\ [Next]_retained => FitsInv'
  <2> SUFFICES ASSUME RunsInv, FitsInv, [Next]_retained PROVE FitsInv'
    OBVIOUS
  <2>1. ASSUME NEW r \in Runs, RunStep(r) PROVE FitsInv'
    BY <2>1, BeginFits, EvictFits, PlaceFits, WriteFits, EndFits, FinishFits,
       LetGoFits, SpawnFailsFits DEF RunStep
  <2>2. ASSUME Aside PROVE FitsInv'
    <3>1. Kept' = Kept
      BY <2>2, AsideKeeps
    <3>. QED
      BY <2>2, <3>1, OtherFits DEF Aside
  <2>3. ASSUME NEW s \in Servers, Leave(s) PROVE FitsInv'
    <3>1. Kept' \subseteq Kept
      BY <2>3, LeaveKeeps
    <3>. QED
      BY <2>3, <3>1, OtherFits DEF Leave
  <2>4. CASE SweepRemoves
    <3>1. Kept' \subseteq Kept
      BY <2>4, SweepRemovesKeeps
    <3>. QED
      BY <2>4, <3>1, OtherFits DEF SweepRemoves, SweepGoes
  <2>5. ASSUME NEW s \in Servers, Serve(s) \/ Leave(s) \/ Kill(s) \/ Fork(s)
        PROVE  FitsInv'
    BY <2>2, <2>3, <2>5, KillFits, AsideSteps
  <2>6. CASE Exec \/ Sweep \/ Reader \/ UNCHANGED retained
    BY <2>2, <2>4, <2>6, AsideSteps DEF Sweep
  <2>. QED
    BY <2>1, <2>5, <2>6 DEF Next
<1>. QED
  BY <1>1, RunsAccounted, FitsInitially, PTL DEF Spec

\* Once nothing runs, what is left fits both limits, but for what never came to
\* its end and the bytes of what ended side by side.
THEOREM FitsInTheEnd == Spec => []FitsWhenQuiet
<1>1. RunsInv /\ FitsInv => FitsWhenQuiet
  <2> SUFFICES ASSUME RunsInv, FitsInv,
                      \A r \in Runs : ~Active(r) /\ Len(Stream(r)) <= BytesLimit
               PROVE  LET short == {r \in Runs : pc[r] \in {"unstarted", "dead"}}
                      IN  /\ Cardinality(Kept \ short) <= RunsLimit
                          /\ SumOf(Kept \ (short \cup crowded)) <= BytesLimit
    BY DEF FitsWhenQuiet
  <2> DEFINE short == {r \in Runs : pc[r] \in {"unstarted", "dead"}}
  <2>1. Fitting = {} /\ Small
    BY DEF Fitting, Active, Holding, Small
  <2>2. Kept \in SUBSET Runs
    BY KeptRuns DEF RunsInv
  <2>3. Finished = Kept \ short
    BY <2>2 DEF Finished, Active, Holding, RunsInv, Typed, Placed, Terminal
  <2>4. Kept \ (short \cup crowded) = Finished \ crowded
    BY <2>3
  <2>5. Finished \in SUBSET Runs /\ Finished \ crowded \in SUBSET Runs
    BY FitsTypes
  <2> HIDE DEF short
  <2>6. Counting[Finished] <= RunsLimit
    BY <2>1 DEF FitsInv, CountFits, Fits, Room
  <2>7. Weighing(written)[Finished \ crowded] <= BytesLimit
    BY <2>1 DEF FitsInv, BytesFit, Fits, Room
  <2>8. Cardinality(Finished) <= RunsLimit
    BY <2>5, <2>6 DEF Counting
  <2>9. SumOf(Finished \ crowded) <= BytesLimit
    BY <2>5, <2>7, SumOfBytes DEF Weighing
  <2>. QED
    BY <2>3, <2>4, <2>8, <2>9 DEF short
<1>. QED
  BY <1>1, FinishedFits, PTL

-----------------------------------------------------------------------------
(* A page of a stream (OutputPage), for any stream, offset and limit. *)

LEMMA Widths ==
    \A byte \in Bytes : Width(byte) \in 0 .. 4 /\ Width("cont") = 0
  BY DEF Bytes, Width

LEMMA HasMost ==
    ASSUME NEW set \in SUBSET (0 .. 4), 0 \in set
    PROVE  \E m \in set : \A o \in set : o <= m
<1>1. \A o \in set : o = 0 \/ o = 1 \/ o = 2 \/ o = 3 \/ o = 4
  OBVIOUS
<1>2. CASE 4 \in set
  BY <1>1, <1>2
<1>3. CASE 4 \notin set /\ 3 \in set
  BY <1>1, <1>3
<1>4. CASE 4 \notin set /\ 3 \notin set /\ 2 \in set
  BY <1>1, <1>4
<1>5. CASE 4 \notin set /\ 3 \notin set /\ 2 \notin set
  BY <1>1, <1>5
<1>. QED
  BY <1>2, <1>3, <1>4, <1>5

\* A set of offsets has a least one.
LEMMA HasLeast ==
    ASSUME NEW set \in SUBSET Nat, set # {}
    PROVE  \E m \in set : \A o \in set : m <= o
<1>1. \E m \in set : \A o \in set : ~ (<<o, m>> \in OpToRel(<, Nat))
  BY NatLessThanWellFounded, WFMin
<1>2. PICK m \in set : \A o \in set : ~ (<<o, m>> \in OpToRel(<, Nat))
  BY <1>1
<1>3. \A o \in set : ~ (o < m)
  BY <1>2 DEF OpToRel
<1>4. \A o \in set : o \in Nat /\ m \in Nat
  OBVIOUS
<1>. QED
  BY <1>3, <1>4

\* Two bytes that start a character cannot both be the last before an offset.
LEMMA OneLead ==
    ASSUME NEW s, NEW at \in Nat, NEW n \in 0 .. at - 1, NEW k \in 0 .. at - 1,
           s[n + 1] # "cont", OnlyConts(s, n + 1, at),
           s[k + 1] # "cont", OnlyConts(s, k + 1, at)
    PROVE  n = k
<1>1. n < k => k + 1 \in (n + 1) + 1 .. at
  OBVIOUS
<1>2. k < n => n + 1 \in (k + 1) + 1 .. at
  OBVIOUS
<1>3. ~(n < k) /\ ~(k < n)
  BY <1>1, <1>2 DEF OnlyConts
<1>. QED
  BY <1>3

\* The character that starts at n is not finished at an offset.
Covers(s, n, at) == Width(s[n + 1]) > at - n /\ OnlyConts(s, n + 1, at)

\* What InsideCharacter skips is of one character, and it skips all of it that
\* there is.
LEMMA InsideSkips ==
    ASSUME NEW s \in Seq(Bytes), NEW at \in 0 .. Len(s)
    PROVE  LET inside == InsideCharacter(s, at)
           IN  /\ inside \in 0 .. Len(s) - at
               /\ \A j \in at .. at + inside - 1 :
                     s[j + 1] = "cont" /\ \E n \in 0 .. at - 1 : Covers(s, n, j)
               /\ \A n \in 0 .. at - 1, end \in at .. Len(s) :
                     Covers(s, n, end) => end <= at + inside
<1> DEFINE inside == InsideCharacter(s, at)
           leads == {n \in 0 .. at - 1 :
                       /\ at - n <= MaxContinuation
                       /\ s[n + 1] # "cont"
                       /\ OnlyConts(s, n + 1, at)}
           missing(n) == IF Width(s[n + 1]) > at - n
                         THEN Width(s[n + 1]) - (at - n) ELSE 0
           conts == {m \in 0 .. Len(s) - at : OnlyConts(s, at, at + m)}
           lead == CHOOSE n \in leads : TRUE
           most == {m \in conts : m <= missing(lead)}
           longest == CHOOSE m \in most : \A o \in most : o <= m
<1>1. inside = IF leads = {} THEN 0 ELSE longest
  BY DEF InsideCharacter
<1>2. Len(s) \in Nat /\ at \in Nat /\ \A n \in 0 .. Len(s) - 1 : s[n + 1] \in Bytes
  BY LenProperties, ElementOfSeq
<1>3. \A n \in 0 .. at - 1 : Width(s[n + 1]) \in 0 .. 4
  BY <1>2, Widths
<1>4. ASSUME NEW n \in 0 .. at - 1, NEW end \in at .. Len(s), Covers(s, n, end)
      PROVE  n \in leads
  <2>1. end - n >= 1 /\ Width(s[n + 1]) > end - n /\ Width(s[n + 1]) <= 4
    BY <1>2, <1>3, <1>4 DEF Covers
  <2>2. s[n + 1] # "cont"
    BY <2>1, Widths DEF Bytes
  <2>3. at - n <= MaxContinuation
    BY <1>2, <1>3, <2>1 DEF MaxContinuation
  <2>4. OnlyConts(s, n + 1, at)
    BY <1>2, <1>4 DEF Covers, OnlyConts
  <2>. QED
    BY <2>2, <2>3, <2>4
<1> HIDE DEF inside
<1>5. CASE leads = {}
  <2>1. inside = 0
    BY <1>1, <1>5
  <2>2. at .. at + inside - 1 = {}
    BY <1>2, <2>1
  <2>3. \A n \in 0 .. at - 1, end \in at .. Len(s) : ~Covers(s, n, end)
    BY <1>4, <1>5
  <2>4. inside \in 0 .. Len(s) - at
    BY <1>2, <2>1
  <2> HIDE DEF leads
  <2>. QED
    BY <2>2, <2>3, <2>4 DEF inside
<1>6. CASE leads # {}
  <2>1. lead \in leads
    BY <1>6
  <2>2. lead \in 0 .. at - 1 /\ s[lead + 1] # "cont" /\ OnlyConts(s, lead + 1, at)
    BY <2>1
  <2> HIDE DEF lead
  <2>3. missing(lead) \in 0 .. 4
    BY <1>2, <1>3, <2>2
  <2>4. most \in SUBSET (0 .. 4) /\ 0 \in most
    <3>1. \A m \in most : m \in Nat /\ m <= missing(lead)
      BY <1>2
    <3>2. OnlyConts(s, at, at + 0)
      BY <1>2 DEF OnlyConts
    <3>. QED
      BY <1>2, <2>3, <3>1, <3>2
  <2>5. inside \in most /\ \A o \in most : o <= inside
    BY <1>1, <1>6, <2>4, HasMost
  <2>6. inside \in 0 .. Len(s) - at /\ OnlyConts(s, at, at + inside)
        /\ inside <= missing(lead)
    BY <2>5
  <2> HIDE DEF most
  <2>7. ASSUME NEW j \in at .. at + inside - 1
        PROVE  s[j + 1] = "cont" /\ Covers(s, lead, j)
    <3>1. j + 1 \in at + 1 .. at + inside /\ inside > 0 /\ j - at < inside
          /\ j \in Nat
      BY <1>2, <2>6
    <3>2. s[j + 1] = "cont"
      BY <2>6, <3>1 DEF OnlyConts
    <3>3. OnlyConts(s, lead + 1, j)
      BY <1>2, <2>2, <2>6, <3>1 DEF OnlyConts
    <3>4. Width(s[lead + 1]) > j - lead
      BY <1>2, <1>3, <2>2, <2>6, <3>1
    <3>. QED
      BY <3>2, <3>3, <3>4 DEF Covers
  <2>8. ASSUME NEW n \in 0 .. at - 1, NEW end \in at .. Len(s), Covers(s, n, end)
        PROVE  end <= at + inside
    <3>1. n \in leads
      BY <1>4, <2>8
    <3>2. n = lead
      BY <1>2, <2>2, <3>1, OneLead
    <3>3. end - at <= missing(lead)
      BY <1>2, <1>3, <2>8, <3>2 DEF Covers
    <3>4. OnlyConts(s, at, end) /\ at + (end - at) = end
      BY <1>2, <2>8 DEF Covers, OnlyConts
    <3>5. end - at \in most
      BY <1>2, <3>3, <3>4 DEF most
    <3>. QED
      BY <1>2, <2>5, <2>6, <3>5
  <2>. QED
    BY <2>2, <2>6, <2>7, <2>8 DEF inside
<1>. QED
  BY <1>5, <1>6

\* What has been written of a stream is a stream.
LEMMA Prefix ==
    ASSUME NEW s \in Seq(Bytes), NEW w \in 0 .. Len(s)
    PROVE  /\ SubSeq(s, 1, w) \in Seq(Bytes) /\ Len(SubSeq(s, 1, w)) = w
           /\ \A n \in 1 .. w : SubSeq(s, 1, w)[n] = s[n]
           /\ \A n \in Nat, at \in 0 .. w : n < at =>
                 (Covers(SubSeq(s, 1, w), n, at) <=> Covers(s, n, at))
<1> DEFINE v == SubSeq(s, 1, w)
<1>1. Len(s) \in Nat /\ \A i \in 1 .. w : s[i] \in Bytes
  BY LenProperties, ElementOfSeq
<1>2. v \in Seq(Bytes) /\ Len(v) = w /\ \A n \in 1 .. w : v[n] = s[n]
  <2>1. w \in Int /\ 1 \in Int
    BY <1>1
  <2>2. /\ v \in Seq(Bytes) /\ Len(v) = IF 1 <= w THEN w - 1 + 1 ELSE 0
        /\ \A i \in 1 .. w - 1 + 1 : v[i] = s[1 + i - 1]
    BY <1>1, <2>1, SubSeqProperties
  <2>. QED
    BY <1>1, <2>2
<1> HIDE DEF v
<1>3. ASSUME NEW n \in Nat, NEW at \in 0 .. w, n < at
      PROVE  Covers(v, n, at) <=> Covers(s, n, at)
  <2>1. \A k \in n + 1 .. at : v[k] = s[k]
    BY <1>1, <1>2, <1>3
  <2>. QED
    BY <1>3, <2>1 DEF Covers, OnlyConts
<1>. QED
  BY <1>2, <1>3 DEF v

LEMMA SeamCovers ==
    \A s, at : Seam(s, at) <=> \/ at = Len(s)
                               \/ s[at + 1] # "cont"
                               \/ \A n \in 0 .. at - 1 : ~Covers(s, n, at)
  BY DEF Seam, Covers

\* The first seam at or after an offset is one.
LEMMA FirstSeamIs ==
    ASSUME NEW s \in Seq(Bytes), NEW from \in 0 .. Len(s)
    PROVE  FirstSeam(s, from) \in from .. Len(s) /\ Seam(s, FirstSeam(s, from))
<1> DEFINE seams == {n \in from .. Len(s) : Seam(s, n)}
<1>1. Len(s) \in Nat
  BY LenProperties
<1>2. seams \in SUBSET Nat /\ Len(s) \in seams
  BY <1>1, SeamCovers
<1>3. PICK m \in seams : \A o \in seams : m <= o
  BY <1>2, HasLeast
<1>4. \A o \in from .. m - 1 : ~Seam(s, o)
  BY <1>1, <1>3
<1>. QED
  BY <1>3, <1>4 DEF FirstSeam

\* What a page of the first w bytes of s holds.
Whole(page, s, w, from, limit, running) ==
    /\ Seam(s, from) => page.start = from
    /\ page.start <= FirstSeam(s, from)
    /\ page.eof => ~running /\ page.end = w
    /\ ~page.eof /\ page.end > page.start => Seam(s, page.end)
    /\ page.small => limit <= MaxContinuation
    /\ page.end > page.start \/ page.eof \/ page.small \/ running

LEMMA PageWhole ==
    ASSUME NEW s \in Seq(Bytes), NEW w \in 0 .. Len(s), NEW from \in 0 .. w,
           NEW total \in 0 .. w, NEW limit \in Nat \ {0}, NEW running \in BOOLEAN,
           running \/ total = w
    PROVE  Whole(Page(SubSeq(s, 1, w), total, from, limit, running), s, w, from,
                 limit, running)
<1> DEFINE v == SubSeq(s, 1, w)
           page == Page(v, total, from, limit, running)
           start == from + InsideCharacter(v, from)
           most == Least(w, start + limit)
           leads == {n \in start .. most - 1 :
                       /\ most - n <= MaxContinuation
                       /\ v[n + 1] # "cont"
                       /\ OnlyConts(v, n + 1, most)}
           begun == {n \in leads : Width(v[n + 1]) > most - n}
           tail == UnfinishedTail(v, start, most)
           atEnd == most >= total
           end == IF atEnd /\ ~running THEN most ELSE most - tail
<1>1. /\ Len(s) \in Nat /\ w \in Nat /\ w <= Len(s) /\ from \in Nat
      /\ total \in Nat /\ limit \in Nat /\ limit >= 1
      /\ \A n \in 0 .. Len(s) - 1 : s[n + 1] \in Bytes
  BY LenProperties, ElementOfSeq
<1>2. /\ v \in Seq(Bytes) /\ Len(v) = w /\ \A n \in 1 .. w : v[n] = s[n]
      /\ \A n \in Nat, at \in 0 .. w : n < at => (Covers(v, n, at) <=> Covers(s, n, at))
  BY Prefix
<1> HIDE DEF v
<1>3. /\ page.start = start /\ page.end = end
      /\ page.small <=> end = start /\ most > start /\ ~(atEnd /\ running)
      /\ page.eof <=> end >= total /\ ~running
  BY <1>2 DEF Page
<1>4. tail = IF begun = {} THEN 0 ELSE most - (CHOOSE n \in begun : TRUE)
  BY DEF UnfinishedTail
<1> HIDE DEF page, tail
<1>5. /\ start \in from .. w
      /\ \A j \in from .. start - 1 :
            v[j + 1] = "cont" /\ \E n \in 0 .. from - 1 : Covers(v, n, j)
      /\ \A n \in 0 .. from - 1, at \in from .. w : Covers(v, n, at) => at <= start
  <2> DEFINE inside == InsideCharacter(v, from)
  <2>1. from \in 0 .. Len(v)
    BY <1>1, <1>2
  <2>2. /\ inside \in 0 .. Len(v) - from
        /\ \A j \in from .. from + inside - 1 :
              v[j + 1] = "cont" /\ \E n \in 0 .. from - 1 : Covers(v, n, j)
        /\ \A n \in 0 .. from - 1, at \in from .. Len(v) :
              Covers(v, n, at) => at <= from + inside
    BY <1>2, <2>1, InsideSkips
  <2> HIDE DEF inside
  <2>3. start = from + inside /\ start \in from .. w
    BY <1>1, <1>2, <2>2 DEF inside
  <2> HIDE DEF start
  <2>. QED
    BY <1>2, <2>2, <2>3
<1> HIDE DEF start
<1>6. /\ start \in Nat /\ most \in start .. w /\ most \in Nat
      /\ most = w \/ most = start + limit
      /\ start < w => most > start
  BY <1>1, <1>5 DEF Least
<1>7. most < w => most = start + limit
  BY <1>1, <1>6 DEF Least
<1> HIDE DEF most
\* Where the page starts.
<1>8. \A j \in from .. start - 1 : s[j + 1] = "cont" /\ ~Seam(s, j)
  <2> SUFFICES ASSUME NEW j \in from .. start - 1
               PROVE  s[j + 1] = "cont" /\ ~Seam(s, j)
    OBVIOUS
  <2>1. j \in 0 .. w - 1 /\ j + 1 \in 1 .. w /\ j # Len(s)
    BY <1>1, <1>5
  <2>2. s[j + 1] = "cont"
    BY <1>2, <1>5, <2>1
  <2>3. PICK n \in 0 .. from - 1 : Covers(v, n, j)
    BY <1>5
  <2>4. n \in Nat /\ n < j /\ j \in 0 .. w /\ n \in 0 .. j - 1
    BY <1>1, <2>1
  <2>5. Covers(s, n, j)
    BY <1>2, <2>3, <2>4
  <2>. QED
    BY <2>1, <2>2, <2>4, <2>5, SeamCovers
<1>9. Seam(s, from) => start = from
  BY <1>1, <1>5, <1>8
<1>10. start <= FirstSeam(s, from)
  <2>1. FirstSeam(s, from) \in from .. Len(s) /\ Seam(s, FirstSeam(s, from))
    <3>1. from \in 0 .. Len(s)
      BY <1>1
    <3>. QED
      BY <3>1, FirstSeamIs
  <2>. QED
    BY <1>1, <1>5, <1>6, <1>8, <2>1
\* Where it ends.
<1>11. \/ begun = {} /\ tail = 0
       \/ \E n \in begun : tail = most - n
  BY <1>4
<1>12. ASSUME NEW n \in begun
       PROVE  /\ n \in start .. most - 1 /\ most - n <= 3
              /\ v[n + 1] # "cont" /\ Seam(s, n)
  <2>1. n \in start .. most - 1 /\ most - n <= 3 /\ v[n + 1] # "cont"
    BY DEF MaxContinuation
  <2>2. n + 1 \in 1 .. w
    BY <1>1, <1>6, <2>1
  <2>. QED
    BY <1>2, <2>1, <2>2, SeamCovers
<1>13. ASSUME begun = {}, most > start PROVE Seam(s, most)
  <2> SUFFICES ASSUME most # Len(s), s[most + 1] = "cont",
                      NEW n \in 0 .. most - 1, Covers(s, n, most)
               PROVE  FALSE
    BY SeamCovers
  <2>1. n \in Nat /\ n < most /\ most \in 0 .. w /\ n + 1 \in 1 .. w
        /\ n \in 0 .. Len(s) - 1
    BY <1>1, <1>6
  <2>2. Covers(v, n, most) /\ v[n + 1] = s[n + 1] /\ s[n + 1] \in Bytes
    BY <1>1, <1>2, <2>1
  <2>3. Width(v[n + 1]) > most - n /\ OnlyConts(v, n + 1, most)
    BY <2>2 DEF Covers
  <2>4. Width(v[n + 1]) \in 0 .. 4 /\ Width("cont") = 0
    BY <2>2, Widths
  <2>5. v[n + 1] # "cont" /\ most - n <= 3
    BY <2>1, <2>3, <2>4
  <2>6. n \notin start .. most - 1
    BY <1>13, <2>3, <2>5 DEF MaxContinuation
  <2>7. n < start
    BY <1>6, <2>1, <2>6
  <2>8. n \notin from .. start - 1
    BY <1>8, <2>2, <2>5
  <2>9. n \in 0 .. from - 1
    BY <1>1, <1>6, <2>1, <2>7, <2>8
  <2>10. most \in from .. w
    BY <1>1, <1>5, <1>6
  <2>11. most <= start
    BY <1>5, <2>2, <2>9, <2>10
  <2>. QED
    BY <1>6, <1>13, <2>11
<1> HIDE DEF begun
<1>14. /\ end \in start .. most
       /\ atEnd /\ ~running => end = most
       /\ ~(atEnd /\ ~running) => end = most - tail
       /\ atEnd <=> most >= total
  BY <1>6, <1>11, <1>12
<1> HIDE DEF end, atEnd
<1>15. page.eof => ~running /\ page.end = w
  <2> SUFFICES ASSUME end >= total, ~running PROVE end = w
    BY <1>3
  <2>1. total = w
    OBVIOUS
  <2>. QED
    BY <1>1, <1>6, <1>14, <2>1
<1>16. ~page.eof /\ page.end > page.start => Seam(s, page.end)
  <2> SUFFICES ASSUME ~page.eof, page.end > page.start PROVE Seam(s, end)
    BY <1>3
  <2>1. end = most - tail
    <3>1. CASE atEnd /\ ~running
      <4>1. end >= total
        BY <1>14, <3>1
      <4>. QED
        BY <1>3, <3>1, <4>1
    <3>. QED
      BY <1>14, <3>1
  <2>2. CASE begun = {} /\ tail = 0
    BY <1>3, <1>6, <1>13, <2>1, <2>2
  <2>3. ASSUME NEW n \in begun, tail = most - n PROVE Seam(s, end)
    <3>1. end = n
      BY <1>6, <1>12, <2>1, <2>3
    <3>. QED
      BY <1>12, <3>1
  <2>. QED
    BY <1>11, <2>2, <2>3
<1>17. page.small => limit <= MaxContinuation
  <2> SUFFICES ASSUME end = start, most > start, ~(atEnd /\ running)
               PROVE  limit <= MaxContinuation
    BY <1>3
  <2>1. end = most - tail /\ most < total
    BY <1>1, <1>6, <1>14
  <2>2. most = start + limit
    BY <1>1, <1>6, <1>7, <2>1
  <2>3. tail # 0
    BY <1>6, <2>1
  <2>4. PICK n \in begun : tail = most - n
    BY <1>11, <2>3
  <2>5. most - n <= 3 /\ n \in Nat
    BY <1>6, <1>12
  <2>6. n = start
    BY <1>6, <2>1, <2>4, <2>5
  <2>. QED
    BY <1>1, <1>6, <2>2, <2>5, <2>6 DEF MaxContinuation
<1>18. page.end > page.start \/ page.eof \/ page.small \/ running
  <2> SUFFICES ASSUME ~running, ~(end > start) PROVE page.eof \/ page.small
    BY <1>3
  <2>1. end = start
    BY <1>6, <1>14
  <2>2. CASE most >= total
    BY <1>3, <1>14, <2>2
  <2>3. CASE most < total
    <3>1. most > start
      BY <1>1, <1>6, <1>7, <2>3
    <3>. QED
      BY <1>3, <2>1, <3>1
  <2>. QED
    BY <1>1, <1>6, <2>2, <2>3
<1>19. Whole(page, s, w, from, limit, running)
  BY <1>3, <1>9, <1>10, <1>15, <1>16, <1>17, <1>18 DEF Whole
<1>. QED
  BY <1>19 DEF page, v

-----------------------------------------------------------------------------
(* The client that pages through a run while it is written. *)

Unplaced == {"idle", "making"}

\* Once a run is there it is not started again, what it has written only grows,
\* and once it has ended it does not even that.
Onward ==
    /\ setting' = setting
    /\ \A r \in Runs :
          /\ written'[r] >= written[r]
          /\ pc[r] \notin Unplaced => pc'[r] \notin Unplaced
          /\ pc[r] \notin Unplaced \cup {"running"} =>
                pc'[r] # "running" /\ written'[r] = written[r]

LEMMA OnwardKeeps ==
    ASSUME RunsInv, Next
    PROVE  Onward
<1> USE DEF Onward, Unplaced, others, directory, RunsInv, Typed, Terminal
<1>1. ASSUME UNCHANGED <<setting, pc, written>> PROVE Onward
  BY <1>1
<1>2. ASSUME NEW r \in Runs, RunStep(r) PROVE Onward
  <2>1. CASE Write(r)
    BY <2>1 DEF Write
  <2>2. CASE Begin(r) \/ Place(r) \/ End(r) \/ Finish(r) \/ LetGo(r) \/ SpawnFails(r)
    BY <2>2 DEF Begin, Place, End, Finish, LetGo, SpawnFails
  <2>3. CASE Evict(r)
    BY <1>1, <2>3 DEF Evict
  <2>. QED
    BY <1>2, <2>1, <2>2, <2>3 DEF RunStep
<1>3. ASSUME NEW s \in Servers, Kill(s) PROVE Onward
  BY <1>3 DEF Kill
<1>4. ASSUME NEW s \in Servers, Leave(s) PROVE Onward
  BY <1>1, <1>4 DEF Leave
<1>5. ASSUME Aside PROVE Onward
  BY <1>1, <1>5 DEF Aside
<1>6. CASE SweepRemoves
  BY <1>1, <1>6 DEF SweepRemoves, SweepGoes
<1> HIDE DEF Onward, Unplaced, others, directory, RunsInv, Typed, Terminal
<1>7. ASSUME NEW s \in Servers, Serve(s) \/ Leave(s) \/ Kill(s) \/ Fork(s)
      PROVE  Onward
  BY <1>3, <1>4, <1>5, <1>7, AsideSteps
<1>8. CASE Exec \/ Sweep \/ Reader
  BY <1>5, <1>6, <1>8, AsideSteps DEF Sweep
<1>. QED
  BY <1>2, <1>7, <1>8 DEF Next

\* The client's page is of a run that was started; it was told that the run has
\* ended only if it has, and then nothing more is written.
Paged ==
    /\ DOMAIN reader = {"pc", "from", "limit", "running", "total", "page"}
    /\ reader.pc \in {"asks", "looks", "stats", "reads", "has"}
    /\ reader.pc # "asks" =>
          /\ Read \in Runs /\ pc[Read] \notin Unplaced
          /\ reader.from \in 0 .. written[Read] /\ reader.limit \in Nat \ {0}
    /\ reader.pc \in {"stats", "reads", "has"} =>
          /\ reader.running \in BOOLEAN
          /\ reader.running \/ pc[Read] # "running"
    /\ reader.pc \in {"reads", "has"} =>
          /\ reader.total \in 0 .. written[Read]
          /\ reader.running \/ reader.total = written[Read]
    /\ reader.pc = "has" =>
          \E w \in 0 .. written[Read] :
              /\ reader.running \/ w = written[Read]
              /\ Whole(reader.page, Stream(Read), w, reader.from, reader.limit,
                       reader.running)

\* Nothing that others do changes what the client has been told.
LEMMA PagedStays ==
    ASSUME RunsInv, RunsInv', Paged, Onward, reader' = reader
    PROVE  Paged'
<1>1. Read' = Read /\ Stream(Read)' = Stream(Read)
  BY DEF Onward, Read, Stream
<1>2. CASE reader.pc = "asks"
  BY <1>2 DEF Paged
<1>3. CASE reader.pc # "asks"
  <2> DEFINE r == Read
  <2>1. r \in Runs /\ pc[r] \notin Unplaced /\ r' = r
    BY <1>1, <1>3 DEF Paged
  <2> HIDE DEF r
  <2>2. /\ written[r] \in Nat /\ written'[r] \in Nat /\ written'[r] >= written[r]
        /\ pc'[r] \notin Unplaced
        /\ pc[r] # "running" => pc'[r] # "running" /\ written'[r] = written[r]
    BY <2>1 DEF Onward, RunsInv, Typed
  <2>3. \A n \in 0 .. written[r] : n \in 0 .. written'[r]
    BY <2>2
  <2>. QED
    BY <1>1, <1>3, <2>1, <2>2, <2>3 DEF Paged, r
<1>. QED
  BY <1>2, <1>3

LEMMA ReaderPaged ==
    ASSUME RunsInv, Paged, Reader
    PROVE  Paged'
<1> USE DEF others, directory, Unplaced
<1>1. UNCHANGED <<setting, pc, written>> /\ Read' = Read
  BY DEF Reader, Ask, Look, Stat, TakePage, AskAgain, Read
<1>2. Stream(Read)' = Stream(Read)
  BY <1>1 DEF Stream
<1>3. CASE Ask
  <2>1. PICK n \in PageLimits, at \in 0 .. written[Read] :
           reader' = [reader EXCEPT !.pc = "looks", !.limit = n, !.from = at]
    BY <1>3 DEF Ask
  <2>2. /\ reader'.pc = "looks" /\ reader'.limit = n /\ reader'.from = at
        /\ DOMAIN reader' = DOMAIN reader
    BY <2>1 DEF Paged
  <2>3. Read \in Runs /\ pc[Read] \notin Unplaced
    BY <1>3 DEF Ask, RunsInv, Placed
  <2>. QED
    BY <1>1, <2>2, <2>3, LimitsAssumption DEF Paged
<1>4. CASE Look
  <2>1. /\ reader.pc = "looks" /\ reader'.pc = "stats" /\ reader'.running = Running
        /\ reader'.from = reader.from /\ reader'.limit = reader.limit
        /\ DOMAIN reader' = DOMAIN reader
    BY <1>4 DEF Look, Paged
  <2>2. Read \in Runs
    BY <2>1 DEF Paged
  <2>3. Running \in BOOLEAN /\ (pc[Read] = "running" => Running)
    BY <2>2 DEF Running, InProgress, RunsInv, Typed, Placed, Holding
  <2>. QED
    BY <1>1, <2>1, <2>3 DEF Paged
<1>5. CASE Stat
  <2>1. /\ reader.pc = "stats" /\ reader'.pc = "reads"
        /\ reader'.total = written[Read]
        /\ reader'.from = reader.from /\ reader'.limit = reader.limit
        /\ reader'.running = reader.running
        /\ DOMAIN reader' = DOMAIN reader
    BY <1>5 DEF Stat, Paged
  <2>2. written[Read] \in 0 .. written[Read]
    BY <2>1 DEF Paged, RunsInv, Typed
  <2>. QED
    BY <1>1, <2>1, <2>2 DEF Paged
<1>6. CASE TakePage
  <2> DEFINE w == written[Read]
             page == Page(OnDisk, reader.total, reader.from, reader.limit,
                          reader.running)
  <2>1. /\ reader.pc = "reads" /\ reader'.pc = "has" /\ reader'.page = page
        /\ reader'.total = reader.total /\ reader'.running = reader.running
        /\ reader'.from = reader.from /\ reader'.limit = reader.limit
        /\ DOMAIN reader' = DOMAIN reader
    BY <1>6 DEF TakePage, RunningThen, Paged
  <2>2. Stream(Read) \in Seq(Bytes) /\ w \in 0 .. Len(Stream(Read))
    <3>1. Read \in Runs /\ w \in Nat /\ w <= Len(Stream(Read))
      BY <2>1 DEF Paged, RunsInv, Typed
    <3>2. Stream(Read) \in Seq(Bytes)
      BY <3>1, SettingsAssumption DEF RunsInv, Typed, Stream
    <3>. QED
      BY <3>1, <3>2, LenProperties
  <2>3. /\ reader.from \in 0 .. w /\ reader.total \in 0 .. w
        /\ reader.limit \in Nat \ {0} /\ reader.running \in BOOLEAN
        /\ reader.running \/ reader.total = w
    BY <2>1 DEF Paged
  <2>4. Whole(page, Stream(Read), w, reader.from, reader.limit, reader.running)
    BY <2>2, <2>3, PageWhole DEF OnDisk
  <2> HIDE DEF page
  <2>5. w \in 0 .. w
    BY <2>2, <2>3
  <2>. QED
    BY <1>1, <1>2, <2>1, <2>4, <2>5 DEF Paged
<1>7. CASE AskAgain
  <2>1. reader'.pc = "asks" /\ DOMAIN reader' = DOMAIN reader
    BY <1>7 DEF AskAgain, Paged
  <2>. QED
    BY <2>1 DEF Paged
<1>. QED
  BY <1>3, <1>4, <1>5, <1>6, <1>7 DEF Reader

\* What the client has been told stays true of the run.
THEOREM ClientIsTold == Spec => [](RunsInv /\ Paged)
<1>1. Init => Paged
  BY DEF Init, Paged
<1>2. RunsInv /\ RunsInv' /\ Paged /\ [Next]_retained => Paged'
  <2> SUFFICES ASSUME RunsInv, RunsInv', Paged, [Next]_retained PROVE Paged'
    OBVIOUS
  <2>1. CASE Reader
    BY <2>1, ReaderPaged
  <2>2. CASE UNCHANGED retained
    <3>1. Onward /\ reader' = reader
      BY <2>2 DEF retained, Onward, RunsInv, Typed
    <3>. QED
      BY <3>1, PagedStays
  <2>3. CASE Next /\ ~Reader
    <3>1. reader' = reader
      <4>1. ASSUME NEW r \in Runs, RunStep(r) PROVE reader' = reader
        BY <4>1 DEF RunStep, Begin, Evict, Place, Write, End, Finish, LetGo, SpawnFails
      <4>2. ASSUME NEW s \in Servers, Serve(s) \/ Leave(s) \/ Kill(s) \/ Fork(s)
            PROVE  reader' = reader
        BY <4>2 DEF Serve, Leave, Kill, Fork
      <4>3. CASE Exec \/ Sweep
        BY <4>3 DEF Exec, Sweep, Expire, SweepAsks, SweepLooks, SweepRemoves, SweepGoes
      <4>. QED
        BY <2>3, <4>1, <4>2, <4>3 DEF Next
    <3>. QED
      BY <2>3, <3>1, OnwardKeeps, PagedStays
  <2>. QED
    BY <2>1, <2>2, <2>3
<1>. QED
  BY <1>1, <1>2, RunsAccounted, PTL DEF Spec

\* A page starts and ends between characters, says that it is the last only if
\* it is, and never stands still.
THEOREM PagesAreWhole == Spec => []PageIsWhole
<1>1. RunsInv /\ Paged => PageIsWhole
  <2> SUFFICES ASSUME RunsInv, Paged, reader.pc = "has"
               PROVE  PageIsWhole
    BY DEF PageIsWhole
  <2>1. PICK w \in 0 .. written[Read] :
           /\ reader.running \/ w = written[Read]
           /\ Whole(reader.page, Stream(Read), w, reader.from, reader.limit,
                    reader.running)
    BY DEF Paged
  <2>2. reader.running \/ pc[Read] # "running"
    BY DEF Paged
  <2>. QED
    BY <2>1, <2>2 DEF Whole, PageIsWhole
<1>. QED
  BY <1>1, ClientIsTold, PTL

\* What every variable is.
THEOREM RetentionTyping == Spec => []TypeOK
<1>1. RunsInv /\ Paged => TypeOK
  <2> SUFFICES ASSUME RunsInv, Paged PROVE TypeOK
    OBVIOUS
  <2>1. Kept \in SUBSET Runs
    BY KeptRuns DEF RunsInv
  <2>2. ASSUME NEW r \in Runs PROVE written[r] \in 0 .. Len(Stream(r))
    <3>1. Stream(r) \in Seq(Bytes)
      BY SettingsAssumption DEF RunsInv, Typed, Stream
    <3>. QED
      BY <3>1, LenProperties DEF RunsInv, Typed
  <2>3. ASSUME NEW r \in Runs PROVE plan[r].bytes >= 0 /\ plan[r].count >= 0
    <3>1. plan[r].todo \in Seq(Runs) /\ plan[r].count \in Int /\ plan[r].bytes \in Int
      BY DEF RunsInv, Typed, Plans
    <3>2. ToSet(plan[r].todo) \in SUBSET Runs
      BY <3>1, LenProperties, ElementOfSeq DEF ToSet
    <3>3. Cardinality(ToSet(plan[r].todo)) \in Nat
          /\ Cardinality(BytesOf(written, ToSet(plan[r].todo))) \in Nat
      BY <3>2, Counts, BytesFinite DEF RunsInv, Typed
    <3>. QED
      BY <3>1, <3>3 DEF RunsInv, Planned, Sound
  <2>. QED
    BY <2>1, <2>2, <2>3 DEF RunsInv, Typed, Paged, TypeOK, Terminal
<1>. QED
  BY <1>1, ClientIsTold, PTL
=============================================================================
