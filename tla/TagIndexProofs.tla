--------------------------- MODULE TagIndexProofs ---------------------------
(***************************************************************************)
(* What the operations of the tag index do, for any tags and workers.  An  *)
(* index is exact for a function held, from the registered workers to the  *)
(* sets of tags they carry, when it agrees with held tag by tag and keeps  *)
(* no entry for a tag that nobody carries.                                 *)
(***************************************************************************)
EXTENDS TagIndex, Integers, FiniteSetTheorems, FunctionTheorems, SequenceTheorems, TLAPS

ExactFor(index, held) ==
    /\ DOMAIN index = UNION {held[w] : w \in DOMAIN held}
    /\ \A t \in DOMAIN index : index[t] = {w \in DOMAIN held : t \in held[w]}

\* now is held with the tags of w set to S.
Retagged(held, w, S, now) ==
    /\ DOMAIN now = DOMAIN held \cup {w}
    /\ \A v \in DOMAIN now : now[v] = IF v = w THEN S ELSE held[v]

NoTags(held, w) == w \in DOMAIN held => held[w] = {}

\* A set of numbers that is not empty has a smallest member.
LEMMA SmallestOfSet ==
    ASSUME NEW S \in SUBSET Nat, S # {}
    PROVE  \E m \in S : \A n \in S : m <= n
<1> DEFINE Less == {p \in Nat \X Nat : p[1] < p[2]}
<1>1. IsWellFoundedOn(Less, Nat)
    BY NatLessThanWellFounded, Zenon DEF OpToRel
<1>2. PICK m \in S : \A n \in S : <<n, m>> \notin Less
    <2> HIDE DEF Less
    <2> QED
        BY <1>1, WFMin, Zenon
<1>3. ASSUME NEW n \in S PROVE m <= n
    <2>1. ~(n < m)
        BY <1>2
    <2> QED
        BY <2>1
<1> QED
    BY <1>3

\* If S has no more elements than T then S can be mapped into T one to one.
LEMMA InjectionOfSmaller ==
    ASSUME NEW S, NEW T, IsFiniteSet(S), IsFiniteSet(T),
           Cardinality(S) <= Cardinality(T)
    PROVE  \E f \in [S -> T] : \A x, y \in S : f[x] = f[y] => x = y
<1> DEFINE m == Cardinality(S)
           n == Cardinality(T)
<1>1. m \in Nat /\ n \in Nat /\ ExistsBijection(1 .. m, S) /\ ExistsBijection(1 .. n, T)
    BY FS_CardinalityType
<1>2. PICK g \in Bijection(1 .. m, S) : TRUE
    BY <1>1 DEF ExistsBijection
<1>3. PICK h \in Bijection(1 .. n, T) : TRUE
    BY <1>1 DEF ExistsBijection
<1>4. g \in [1 .. m -> S] /\ \A x \in S : \E i \in 1 .. m : g[i] = x
    BY <1>2, Zenon DEF Bijection, Surjection
<1>5. h \in [1 .. n -> T] /\ \A i, j \in 1 .. n : h[i] = h[j] => i = j
    BY <1>3, Zenon DEF Bijection, Injection, IsInjective
<1> DEFINE at(x) == CHOOSE i \in 1 .. m : g[i] = x
           f == [x \in S |-> h[at(x)]]
<1>6. \A x \in S : at(x) \in 1 .. m /\ g[at(x)] = x
    BY <1>4
<1>7. 1 .. m \subseteq 1 .. n
    BY <1>1
<1> HIDE DEF at, m, n
<1>8. f \in [S -> T]
    BY <1>5, <1>6, <1>7
<1>9. \A x, y \in S : f[x] = f[y] => x = y
    <2> TAKE x, y \in S
    <2> HAVE f[x] = f[y]
    <2>1. h[at(x)] = h[at(y)]
        OBVIOUS
    <2>2. at(x) = at(y)
        BY <2>1, <1>5, <1>6, <1>7
    <2> QED
        BY <2>2, <1>6
<1> QED
    BY <1>8, <1>9

\* Positions at which a tag occurs in a list.
LEMMA OccurrencesFinite ==
    ASSUME NEW T, NEW s \in Seq(T), NEW t
    PROVE  /\ IsFiniteSet({i \in DOMAIN s : s[i] = t})
           /\ Occurrences(s, t) \in Nat
<1>1. DOMAIN s = 1 .. Len(s) /\ Len(s) \in Nat
    OBVIOUS
<1>2. IsFiniteSet(DOMAIN s)
    BY <1>1, FS_Interval
<1>3. {i \in DOMAIN s : s[i] = t} \in SUBSET DOMAIN s
    OBVIOUS
<1>4. IsFiniteSet({i \in DOMAIN s : s[i] = t})
    BY <1>2, <1>3, FS_Subset
<1> QED
    BY <1>4, FS_CardinalityType DEF Occurrences

\* Lists that sameTags equates carry the same set of tags, which is why update
\* may leave the index alone.  The code compares lengths and looks only at the
\* tags of the second list; that no tag of the first is lost is a counting
\* argument: otherwise the positions of b would fit one to one into fewer
\* positions of a.
THEOREM SameTagsSameSet ==
    ASSUME NEW T, NEW a \in Seq(T), NEW b \in Seq(T), sameTags(a, b)
    PROVE  Range(a) = Range(b)
<1> DEFINE At(s, t) == {i \in DOMAIN s : s[i] = t}
<1>1. DOMAIN a = 1 .. Len(a) /\ DOMAIN b = 1 .. Len(a) /\ Len(a) \in Nat
    BY DEF sameTags
<1>2. \A t \in Range(b) : \E f \in [At(b, t) -> At(a, t)] :
          \A i, j \in At(b, t) : f[i] = f[j] => i = j
    <2> TAKE t \in Range(b)
    <2>1. IsFiniteSet(At(b, t)) /\ IsFiniteSet(At(a, t))
        BY OccurrencesFinite
    <2>2. Cardinality(At(b, t)) <= Cardinality(At(a, t))
        BY DEF sameTags, Occurrences
    <2> HIDE DEF At
    <2> QED
        BY <2>1, <2>2, InjectionOfSmaller
<1> DEFINE g == [t \in Range(b) |-> CHOOSE f \in [At(b, t) -> At(a, t)] :
                    \A i, j \in At(b, t) : f[i] = f[j] => i = j]
           F == [i \in DOMAIN b |-> g[b[i]][i]]
<1>3. \A t \in Range(b) : /\ g[t] \in [At(b, t) -> At(a, t)]
                          /\ \A i, j \in At(b, t) : g[t][i] = g[t][j] => i = j
    BY <1>2
<1>4. \A i \in DOMAIN b : b[i] \in Range(b) /\ i \in At(b, b[i])
    BY DEF Range
<1> HIDE DEF g
<1>5. \A i \in DOMAIN b : F[i] \in DOMAIN a /\ a[F[i]] = b[i]
    <2> TAKE i \in DOMAIN b
    <2>1. g[b[i]][i] \in At(a, b[i])
        BY <1>3, <1>4
    <2> QED
        BY <2>1
<1>6. \A i, j \in DOMAIN b : F[i] = F[j] => i = j
    <2> SUFFICES ASSUME NEW i \in DOMAIN b, NEW j \in DOMAIN b, F[i] = F[j] PROVE i = j
        OBVIOUS
    <2>1. b[i] = b[j]
        BY <1>5
    <2>2. i \in At(b, b[i]) /\ j \in At(b, b[i]) /\ g[b[i]][i] = g[b[i]][j]
        BY <2>1, <1>4
    <2> QED
        BY <2>2, <1>3, <1>4
<1>7. F \in Injection(1 .. Len(a), 1 .. Len(a))
    BY <1>1, <1>5, <1>6 DEF Injection, IsInjective
<1>8. F \in Surjection(1 .. Len(a), 1 .. Len(a))
    BY <1>7, <1>1, FS_Interval, FS_Injection
<1>9. \A j \in DOMAIN a : a[j] \in Range(b)
    <2> TAKE j \in DOMAIN a
    <2> HIDE DEF F
    <2>1. PICK i \in DOMAIN b : F[i] = j
        BY <1>8, <1>1 DEF Surjection
    <2> QED
        BY <2>1, <1>5, <1>4
<1>10. \A i \in DOMAIN b : b[i] \in Range(a)
    <2> TAKE i \in DOMAIN b
    <2> HIDE DEF F
    <2> QED
        BY <1>5 DEF Range
<1> QED
    BY <1>9, <1>10 DEF Range

\* add turns an index exact for held into one exact for held with the worker's
\* tags set, when the worker had none before.
LEMMA AddExact ==
    ASSUME NEW index, NEW held, NEW w, NEW ts, NEW now, ExactFor(index, held),
           NoTags(held, w), Retagged(held, w, Range(ts), now)
    PROVE  ExactFor(add(index, w, ts), now)
<1> USE DEF NoTags, Retagged
<1>1. UNION {now[v] : v \in DOMAIN now} = (UNION {held[v] : v \in DOMAIN held}) \cup Range(ts)
    <2>1. \A t : (\E v \in DOMAIN now : t \in now[v])
                   <=> (\E v \in DOMAIN held : t \in held[v]) \/ t \in Range(ts)
        OBVIOUS
    <2> QED
        BY <2>1
<1>2. ASSUME NEW t \in DOMAIN index \cup Range(ts)
      PROVE  add(index, w, ts)[t] = {v \in DOMAIN now : t \in now[v]}
    <2>1. Entry(index, t) = {v \in DOMAIN held : t \in held[v]}
        BY DEF ExactFor, Entry
    <2>2. w \notin Entry(index, t)
        BY <2>1
    <2>3. t \notin Range(ts) => Entry(index, t) = index[t]
        BY DEF Entry
    <2> QED
        BY <2>1, <2>2, <2>3 DEF add
<1>3. DOMAIN add(index, w, ts) = UNION {now[v] : v \in DOMAIN now}
    BY <1>1 DEF ExactFor, add
<1>4. DOMAIN add(index, w, ts) = DOMAIN index \cup Range(ts)
    BY DEF add
<1> QED
    BY <1>2, <1>3, <1>4 DEF ExactFor

\* remove takes away the tags the worker carried, and their entries with them
\* when nobody else carries them.
LEMMA RemoveExact ==
    ASSUME NEW index, NEW held, NEW w \in DOMAIN held, NEW ts, NEW now,
           ExactFor(index, held), Range(ts) = held[w], Retagged(held, w, {}, now)
    PROVE  ExactFor(remove(index, w, ts), now)
<1> USE DEF Retagged
<1> DEFINE left == remove(index, w, ts)
<1>1. DOMAIN left = {t \in DOMAIN index : t \in Range(ts) => index[t] \ {w} # {}}
    BY DEF remove
<1>2. ASSUME NEW t \in DOMAIN left PROVE left[t] = {v \in DOMAIN now : t \in now[v]}
    BY <1>1 DEF remove, ExactFor
<1>3. ASSUME NEW t \in DOMAIN left PROVE t \in UNION {now[v] : v \in DOMAIN now}
    <2>1. CASE t \in Range(ts)
        <3>1. left[t] # {}
            BY <1>1, <2>1 DEF remove
        <3> QED
            BY <1>2, <3>1
    <2>2. CASE t \notin Range(ts)
        <3>1. PICK v \in DOMAIN held : t \in held[v]
            BY <1>1 DEF ExactFor
        <3>2. v # w
            BY <3>1, <2>2
        <3> QED
            BY <3>1, <3>2
    <2> QED
        BY <2>1, <2>2
<1>4. ASSUME NEW v \in DOMAIN now, NEW t \in now[v] PROVE t \in DOMAIN left
    <2>1. v # w /\ v \in DOMAIN held /\ t \in held[v]
        OBVIOUS
    <2>2. t \in DOMAIN index /\ v \in index[t]
        BY <2>1 DEF ExactFor
    <2> QED
        BY <1>1, <2>1, <2>2
<1>5. DOMAIN left = UNION {now[v] : v \in DOMAIN now}
    BY <1>3, <1>4
<1> QED
    BY <1>2, <1>5 DEF ExactFor

\* update moves a worker from its previous tags to the new ones.
THEOREM UpdateExact ==
    ASSUME NEW T, NEW index, NEW held, NEW w \in DOMAIN held, ExactFor(index, held),
           NEW old \in Seq(T), NEW new \in Seq(T), Range(old) = held[w],
           NEW now, Retagged(held, w, Range(new), now)
    PROVE  ExactFor(update(index, w, old, new), now)
<1>1. CASE sameTags(old, new)
    <2>1. Range(new) = held[w]
        BY <1>1, SameTagsSameSet
    <2>2. DOMAIN now = DOMAIN held /\ \A v \in DOMAIN held : now[v] = held[v]
        BY <2>1 DEF Retagged
    <2>3. ExactFor(index, now)
        BY <2>2 DEF ExactFor
    <2> QED
        BY <1>1, <2>3 DEF update
<1>2. CASE ~sameTags(old, new)
    <2> DEFINE none == [v \in DOMAIN held |-> IF v = w THEN {} ELSE held[v]]
               left == remove(index, w, old)
    <2>1. Retagged(held, w, {}, none) /\ NoTags(none, w) /\ Retagged(none, w, Range(new), now)
        BY DEF Retagged, NoTags
    <2> HIDE DEF none
    <2>2. ExactFor(left, none)
        BY <2>1, RemoveExact
    <2> HIDE DEF left
    <2>3. ExactFor(add(left, w, new), now)
        BY <2>1, <2>2, AddExact
    <2> USE DEF left
    <2> QED
        BY <1>2, <2>3 DEF update
<1> QED
    BY <1>1, <1>2

\* smallest names one of the required tags.
LEMMA SmallestIsRequired ==
    ASSUME NEW T, NEW required \in Seq(T), required # << >>, NEW index,
           \A t : IsFiniteSet(Entry(index, t))
    PROVE  smallest(index, required) \in DOMAIN required
<1> DEFINE size(i) == Cardinality(Entry(index, required[i]))
           sizes == {size(i) : i \in DOMAIN required}
<1>1. DOMAIN required \in SUBSET Nat /\ DOMAIN required # {}
    OBVIOUS
<1>2. \A i \in DOMAIN required : size(i) \in Nat
    BY FS_CardinalityType
<1> HIDE DEF size
<1>3. PICK m \in sizes : \A n \in sizes : m <= n
    <2>1. sizes \in SUBSET Nat /\ sizes # {}
        BY <1>1, <1>2
    <2> HIDE DEF sizes
    <2> QED
        BY <2>1, SmallestOfSet
<1> DEFINE rarest == {i \in DOMAIN required : size(i) = m}
<1>4. PICK i \in rarest : \A j \in rarest : i <= j
    <2>1. rarest \in SUBSET Nat /\ rarest # {}
        BY <1>1
    <2> HIDE DEF rarest
    <2> QED
        BY <2>1, SmallestOfSet
<1>5. i \in DOMAIN required
    OBVIOUS
<1>6. \A j \in DOMAIN required : size(i) <= size(j) /\ (j < i => size(i) < size(j))
    <2> TAKE j \in DOMAIN required
    <2>1. size(i) = m /\ m <= size(j) /\ size(j) \in Nat /\ m \in Nat /\ i \in Nat /\ j \in Nat
        BY <1>1, <1>2, <1>3
    <2>2. size(j) = m => i <= j
        BY <1>4
    <2> QED
        BY <2>1, <2>2
<1> QED
    BY <1>5, <1>6 DEF smallest, size

\* The intersection that starts from the rarest required tag finds exactly the
\* workers that carry all of them.
THEOREM CandidatesExact ==
    ASSUME NEW T, NEW required \in Seq(T), required # << >>, NEW index, NEW held,
           ExactFor(index, held), IsFiniteSet(DOMAIN held)
    PROVE  candidates(index, required)
             = {w \in DOMAIN held : Range(required) \subseteq held[w]}
<1>1. \A t : Entry(index, t) = {w \in DOMAIN held : t \in held[w]}
    BY DEF ExactFor, Entry
<1>2. \A t : IsFiniteSet(Entry(index, t))
    <2> TAKE t
    <2>1. Entry(index, t) \in SUBSET DOMAIN held
        BY <1>1
    <2> QED
        BY <2>1, FS_Subset
<1>3. smallest(index, required) \in DOMAIN required
    BY <1>2, SmallestIsRequired
<1>4. required[smallest(index, required)] \in Range(required)
    BY <1>3 DEF Range
<1> QED
    BY <1>1, <1>4 DEF candidates, hasAll
=============================================================================
