---------------------------- MODULE LibraryMerge ----------------------------
(* The three-way merge of two libraries against the baseline of the last     *)
(* sync (apps/client/src/cloud/librarySnapshot.js).                          *)
(*                                                                           *)
(* A collection holds at most one state per key: a record, a tombstone, or   *)
(* nothing. A record is its content, of which the hash is taken as the       *)
(* identity (updatedAt is left out of the hash), and its time. Rank stands   *)
(* for the order of the strings stateTieBreaker makes, which begin           *)
(* "absent", "deleted" or "record" and, for records, go on with the hash.    *)
EXTENDS Integers, FiniteSets

CONSTANTS Keys,           \* the stable keys of a collection
          Docs,           \* contents of a record
          Rank,           \* the order of the contents' hashes
          ConflictLimit   \* DEFAULT_CONFLICT_HISTORY_LIMIT

ASSUME MergeAssumption ==
  /\ Docs \subseteq Nat
  /\ Rank \in [Docs -> Nat \ {0}]
  /\ \A d, e \in Docs : Rank[d] = Rank[e] => d = e
  /\ ConflictLimit \in Nat

NoDoc == -1

Record(doc, at) == [kind |-> "record", doc |-> doc, at |-> at]
Tombstone(at) == [kind |-> "deleted", doc |-> NoDoc, at |-> at]
Absent == [kind |-> "absent", doc |-> NoDoc, at |-> 0]

State == [kind : {"record"}, doc : Docs, at : Nat]
         \cup [kind : {"deleted"}, doc : {NoDoc}, at : Nat] \cup {Absent}

semanticallyEqual(left, right) ==
  left.kind = right.kind /\ (left.kind = "record" => left.doc = right.doc)

stateTieBreaker(state) ==
  IF state.kind = "record" THEN Rank[state.doc]
  ELSE IF state.kind = "deleted" THEN 0 ELSE -1

newestState(left, right) ==
  IF left.at # right.at
  THEN IF left.at > right.at THEN left ELSE right
  ELSE IF stateTieBreaker(left) >= stateTieBreaker(right) THEN left ELSE right

\* Fault: a record the library does not have counts as deleted, whether or not
\* the baseline had it.
effectiveStateUnasked(state, baseline, generatedAt) ==
  IF state # Absent THEN state ELSE Tombstone(generatedAt)

\* The state of a key in a library generated at a time: what the library says,
\* or that a record of the baseline is gone, or what the baseline says.
effectiveState(state, baseline, generatedAt) ==
  IF state # Absent THEN state
  ELSE IF baseline.kind = "record" THEN Tombstone(generatedAt)
  ELSE baseline

Changed(state, baseline) == ~semanticallyEqual(state, baseline)

\* Fault: the newest state is selected although only one side has changed.
selectedNewest(baseline, local, remote) == newestState(local, remote)

\* The state the merge selects for a key.
selected(baseline, local, remote) ==
  IF Changed(local, baseline) /\ ~Changed(remote, baseline) THEN local
  ELSE IF ~Changed(local, baseline) /\ Changed(remote, baseline) THEN remote
  ELSE newestState(local, remote)

\* Both sides have changed, and not to the same state.
Conflicting(baseline, local, remote) ==
  /\ ~semanticallyEqual(local, remote)
  /\ Changed(local, baseline) /\ Changed(remote, baseline)

\* The conflict history: the newest finding of each conflict (its id is made of
\* the key and the two alternatives), the newest ConflictLimit of them.
sortConflictHistory(conflicts) ==
  LET once == {c \in conflicts : \A d \in conflicts :
                 d.key = c.key /\ d.alternatives = c.alternatives => d.detectedAt <= c.detectedAt}
  IN  IF Cardinality(once) <= ConflictLimit THEN once
      ELSE once \cap CHOOSE newest \in SUBSET once :
             /\ Cardinality(newest) = ConflictLimit
             /\ \A c \in newest, d \in once \ newest : d.detectedAt <= c.detectedAt

\* A library document: the state of each key, the conflict history, the time it
\* was generated. A baseline is a state for each key, without record times.
Library(of, conflicts, generatedAt) ==
  [of |-> of, conflicts |-> sortConflictHistory(conflicts), generatedAt |-> generatedAt]

createLibraryManifest(library) ==
  [k \in Keys |-> IF library.of[k].kind = "record" THEN Record(library.of[k].doc, 0)
                                                   ELSE library.of[k]]

\* Fault: the loser of a conflict is not kept.
mergeForgetting(local, remote, baseline, now) ==
  LET l == [k \in Keys |-> effectiveState(local.of[k], baseline[k], local.generatedAt)]
      r == [k \in Keys |-> effectiveState(remote.of[k], baseline[k], remote.generatedAt)]
  IN  Library([k \in Keys |-> selected(baseline[k], l[k], r[k])],
              local.conflicts \cup remote.conflicts, now)

mergeLibrarySnapshots(local, remote, baseline, now) ==
  LET l == [k \in Keys |-> effectiveState(local.of[k], baseline[k], local.generatedAt)]
      r == [k \in Keys |-> effectiveState(remote.of[k], baseline[k], remote.generatedAt)]
      new == {[key |-> k, alternatives |-> {l[k], r[k]}, detectedAt |-> now] :
                k \in {x \in Keys : Conflicting(baseline[x], l[x], r[x])}}
  IN  Library([k \in Keys |-> selected(baseline[k], l[k], r[k])],
              local.conflicts \cup remote.conflicts \cup new, now)
=============================================================================
