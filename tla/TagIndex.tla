------------------------------ MODULE TagIndex ------------------------------
(***************************************************************************)
(* pkg/scheduler/tagindex.go: the inverted index from a resource tag to    *)
(* the set of workers that carry it.  The index is a function whose domain *)
(* is the set of tags that have an entry in the Go map; tag lists are      *)
(* sequences, which may repeat a tag, as the JSON of a heartbeat may.      *)
(* Every operator here runs under StateManager.mu.                         *)
(***************************************************************************)
EXTENDS Naturals, Sequences, FiniteSets, Functions

newTagIndex == [t \in {} |-> {}]

\* len(ti.index[tag]) and membership read a missing entry as empty.
Entry(index, t) == IF t \in DOMAIN index THEN index[t] ELSE {}

add(index, w, ts) ==
    [t \in DOMAIN index \cup Range(ts) |->
        IF t \in Range(ts) THEN Entry(index, t) \cup {w} ELSE index[t]]

\* Entries that become empty are dropped.
remove(index, w, ts) ==
    [t \in {u \in DOMAIN index : u \in Range(ts) => index[u] \ {w} # {}} |->
        IF t \in Range(ts) THEN index[t] \ {w} ELSE index[t]]

\* How often tag t occurs in the list s: counts[tag] of the code.
Occurrences(s, t) == Cardinality({i \in DOMAIN s : s[i] = t})

\* A comparison that only asks whether every new tag was there before.
sameTagsAsSets(a, b) == Len(a) = Len(b) /\ Range(b) \subseteq Range(a)

sameTags(a, b) ==
    /\ Len(a) = Len(b)
    /\ \A t \in Range(b) : Occurrences(b, t) <= Occurrences(a, t)

update(index, w, oldTags, newTags) ==
    IF sameTags(oldTags, newTags) THEN index
    ELSE add(remove(index, w, oldTags), w, newTags)

hasAll(index, w, required) == \A t \in Range(required) : w \in Entry(index, t)

\* The position of the first of the smallest entries among the required tags.
smallest(index, required) ==
    LET size(i) == Cardinality(Entry(index, required[i]))
    IN  CHOOSE i \in DOMAIN required :
            \A j \in DOMAIN required : size(i) <= size(j) /\ (j < i => size(i) < size(j))

candidates(index, required) ==
    IF required = << >> THEN {}
    ELSE {w \in Entry(index, required[smallest(index, required)]) : hasAll(index, w, required)}
=============================================================================
