------------------------- MODULE RuntimeStoreProofs -------------------------
(***************************************************************************)
(* For every number of publishers, records, attempts, deaths and power     *)
(* losses: what a caller was told is published stays published, the        *)
(* destination a publisher found absent stays absent until its rename, the *)
(* attempts stay numbered, and they implement the append-only RecordLog.   *)
(***************************************************************************)
EXTENDS RuntimeStore, FiniteSetTheorems, SequenceTheorems, TLAPS

Holding == {"write", "files", "check", "reuse", "dispose", "tree", "staging", "rename"}

\* What publisher p knows at each step of its operation.
Knows(p) ==
  /\ pc[p] # "idle" => lock = p /\ key[p] \in Names /\ name[p] \in Names
  /\ pc[p] \in Holding => staged[key[p]] \in Trees
  /\ pc[p] \in {"tree", "staging", "rename"} => final[name[p]] = Absent
  /\ family # "slot" /\ pc[p] \in {"discard", "create", "write", "files"} =>
       final[name[p]] = Absent
  /\ pc[p] \in {"reuse", "dispose", "final", "source", "confirm"} => final[name[p]] # Absent
  /\ pc[p] \in {"dispose", "source", "confirm"} => final[name[p]].entry
  /\ family = "slot" =>
       /\ pc[p] \in {"files", "check", "tree", "staging", "rename"} =>
            staged[key[p]].data = "whole"
       /\ pc[p] \in {"check", "tree", "staging", "rename"} => staged[key[p]].files
       /\ pc[p] \in {"staging", "rename"} => staged[key[p]].listed

\* A slot in the final parent was complete and synced before its rename.
SlotsAreSynced ==
  family = "slot" =>
    \A n \in Names : final[n] # Absent =>
      final[n].data = "whole" /\ final[n].files /\ final[n].listed

IInv ==
  /\ TypeOK
  /\ \A p \in Publishers : Knows(p)
  /\ SlotsAreSynced
  /\ ToldIsKept

-----------------------------------------------------------------------------
(* Facts about the operators *)

\* Absent is no tree.
LEMMA AbsentIsNoTree == Absent \notin Trees
BY DEF Absent, Trees

\* The names that a publisher starts with are names.
LEMMA FirstNames == \A c \in Contents : <<0, c>> \in Names
BY MaxAttemptsAssumption DEF Names

\* A sync of a parent keeps what is in it and only settles its entries.
LEMMA SyncedKeeps ==
  ASSUME NEW place \in [Names -> Trees \cup {Absent}]
  PROVE  /\ Synced(place) \in [Names -> Trees \cup {Absent}]
         /\ \A n \in Names :
              /\ (Synced(place)[n] = Absent) <=> (place[n] = Absent)
              /\ place[n] # Absent =>
                   /\ Synced(place)[n] \in Trees
                   /\ Synced(place)[n].data = place[n].data
                   /\ Synced(place)[n].files = place[n].files
                   /\ Synced(place)[n].listed = place[n].listed
                   /\ Synced(place)[n].entry = TRUE
<1> SUFFICES ASSUME NEW n \in Names
             PROVE  /\ Synced(place)[n] \in Trees \cup {Absent}
                    /\ (Synced(place)[n] = Absent) <=> (place[n] = Absent)
                    /\ place[n] # Absent =>
                         /\ Synced(place)[n] \in Trees
                         /\ Synced(place)[n].data = place[n].data
                         /\ Synced(place)[n].files = place[n].files
                         /\ Synced(place)[n].listed = place[n].listed
                         /\ Synced(place)[n].entry = TRUE
  BY DEF Synced
<1>1. CASE place[n] = Absent
  BY <1>1 DEF Synced
<1>2. CASE place[n] # Absent
  <2>1. place[n] \in Trees
    BY <1>2
  <2>2. Synced(place)[n] = [place[n] EXCEPT !.entry = TRUE]
    BY <1>2 DEF Synced
  <2>3. /\ [place[n] EXCEPT !.entry = TRUE] \in Trees
        /\ [place[n] EXCEPT !.entry = TRUE].data = place[n].data
        /\ [place[n] EXCEPT !.entry = TRUE].files = place[n].files
        /\ [place[n] EXCEPT !.entry = TRUE].listed = place[n].listed
        /\ [place[n] EXCEPT !.entry = TRUE].entry = TRUE
    BY <2>1 DEF Trees
  <2> QED BY <1>2, <2>2, <2>3, AbsentIsNoTree
<1> QED BY <1>1, <1>2

\* Opening the parents, or the final one only, changes nothing but the standing
\* of the entries.
LEMMA OpenParentsSettles ==
  ASSUME TypeOK, final' = Synced(final), staged' = Synced(staged) \/ staged' = staged
  PROVE  /\ staged' \in [Names -> Trees \cup {Absent}]
         /\ final' \in [Names -> Trees \cup {Absent}]
         /\ \A m \in Names : (final'[m] = Absent) <=> (final[m] = Absent)
         /\ \A m \in Names : final[m] # Absent => final'[m].entry
         /\ \A m \in Names : staged[m] # Absent => staged'[m] \in Trees
<1>1. /\ staged \in [Names -> Trees \cup {Absent}]
      /\ final \in [Names -> Trees \cup {Absent}]
  BY DEF TypeOK
<1>2. final' = Synced(final)
  OBVIOUS
<1>3. /\ final' \in [Names -> Trees \cup {Absent}]
      /\ \A m \in Names : (final'[m] = Absent) <=> (final[m] = Absent)
      /\ \A m \in Names : final[m] # Absent => final'[m].entry
  <2>1. /\ Synced(final) \in [Names -> Trees \cup {Absent}]
        /\ \A m \in Names : (Synced(final)[m] = Absent) <=> (final[m] = Absent)
    BY <1>1, SyncedKeeps
  <2>2. \A m \in Names : final[m] # Absent => final'[m].entry = TRUE
    BY <1>1, <1>2, SyncedKeeps
  <2> QED BY <1>2, <2>1, <2>2
<1>4. CASE staged' = Synced(staged)
  <2>1. /\ staged' \in [Names -> Trees \cup {Absent}]
        /\ \A m \in Names : staged[m] # Absent => staged'[m] \in Trees
    BY <1>1, <1>4, SyncedKeeps
  <2> QED BY <1>3, <2>1
<1>5. CASE staged' = staged
  <2>1. /\ staged' \in [Names -> Trees \cup {Absent}]
        /\ \A m \in Names : staged[m] # Absent => staged'[m] \in Trees
    BY <1>1, <1>5
  <2> QED BY <1>3, <2>1
<1> QED BY <1>4, <1>5

\* The lock leaves no second publisher at work.
LEMMA OthersAreIdle ==
  ASSUME IInv, NEW p \in Publishers, pc[p] # "idle" \/ lock = None
  PROVE  \A q \in Publishers \ {p} : pc[q] = "idle"
BY NoneAssumption DEF IInv, Knows

\* A tree comes back from a loss of power as a tree with the same place, and
\* as it was if nothing in it was exposed.
LEMMA RestoredIsTree ==
  ASSUME NEW tree \in Trees, NEW lost, NEW n
  PROVE  /\ Restored(tree, n \in lost) \in Trees
         /\ Restored(tree, n \in lost).files /\ Restored(tree, n \in lost).listed
         /\ Restored(tree, n \in lost).entry
         /\ n \notin lost => Restored(tree, n \in lost).data = tree.data
BY DEF Restored, Trees

-----------------------------------------------------------------------------
(* Each operation keeps the invariant.  In a step of p every other publisher *)
(* is idle before and after, so only what p knows can be disturbed.          *)

LEMMA AcquireKeeps ==
  ASSUME IInv, NEW p \in Publishers, Acquire(p)
  PROVE  IInv'
<1>1. \A q \in Publishers \ {p} : pc[q] = "idle"
  BY OthersAreIdle DEF Acquire
<1>2. TypeOK' /\ key'[p] \in Names /\ name'[p] \in Names
  BY FirstNames DEF IInv, TypeOK, Acquire, Goto, Labels, disk, faults
<1>3. /\ pc'[p] = IF family = "slot" THEN "create" ELSE "open"
      /\ \A q \in Publishers \ {p} : pc'[q] = "idle"
  BY <1>1 DEF IInv, TypeOK, Acquire, Goto
<1>4. \A q \in Publishers : Knows(q)'
  BY <1>2, <1>3 DEF Knows, Holding, Acquire
<1>5. SlotsAreSynced' /\ ToldIsKept'
  BY DEF IInv, SlotsAreSynced, ToldIsKept, Whole, Acquire, disk
<1> QED BY <1>2, <1>4, <1>5 DEF IInv

\* A publisher that returns knows nothing any more.
LEMMA ReturnKeeps ==
  ASSUME IInv, NEW p \in Publishers, pc[p] # "idle", Return(p)
  PROVE  /\ lock' \in Publishers \cup {None} /\ pc' \in [Publishers -> Labels]
         /\ key' \in [Publishers -> Names \cup {None}]
         /\ name' \in [Publishers -> Names \cup {None}]
         /\ \A q \in Publishers : Knows(q)'
<1>1. \A q \in Publishers : pc'[q] = "idle"
  BY OthersAreIdle DEF IInv, TypeOK, Return, Goto
<1>2. /\ pc' \in [Publishers -> Labels]
      /\ key' \in [Publishers -> Names \cup {None}]
      /\ name' \in [Publishers -> Names \cup {None}]
  BY DEF IInv, TypeOK, Return, Goto, Labels
<1>3. \A q \in Publishers : Knows(q)'
  BY <1>1 DEF Knows, Holding
<1> QED BY <1>2, <1>3 DEF Return

LEMMA OpenQualificationKeeps ==
  ASSUME IInv, NEW p \in Publishers, OpenQualification(p)
  PROVE  IInv'
<1> USE DEF OpenQualification
<1>1. \A q \in Publishers \ {p} : pc[q] = "idle"
  BY OthersAreIdle
<1>2. /\ staged \in [Names -> Trees \cup {Absent}] /\ final \in [Names -> Trees \cup {Absent}]
      /\ told \subseteq Names /\ key[p] \in Names /\ name[p] \in Names
      /\ family # "slot"
  BY DEF IInv, TypeOK, Knows
<1>3. /\ staged' \in [Names -> Trees \cup {Absent}] /\ final' \in [Names -> Trees \cup {Absent}]
      /\ \A n \in Names : (final'[n] = Absent) <=> (final[n] = Absent)
      /\ \A n \in Names : final[n] # Absent => final'[n].entry
      /\ \A n \in Names : staged[n] # Absent => staged'[n] \in Trees
  BY OpenParentsSettles DEF IInv, OpenParents
<1>4. SlotsAreSynced'
  BY <1>2 DEF SlotsAreSynced
<1>5. CASE final[name[p]] = Absent
  <2>1. /\ pc'[p] \in {"create", "discard", "tree"}
        /\ pc'[p] = "tree" => staged[key[p]] # Absent
        /\ \A q \in Publishers \ {p} : pc'[q] = "idle"
        /\ pc' \in [Publishers -> Labels]
    BY <1>1, <1>5 DEF IInv, TypeOK, Resume, Goto, Whole, Labels
  <2>2. \A q \in Publishers : Knows(q)'
    BY <1>2, <1>3, <1>5, <2>1 DEF IInv, Knows, Holding
  <2>3. TypeOK'
    BY <1>3, <1>5, <2>1 DEF IInv, TypeOK, faults
  <2>4. ToldIsKept'
    BY <1>2, <1>3, <1>5 DEF IInv, ToldIsKept
  <2> QED BY <1>4, <2>2, <2>3, <2>4 DEF IInv
<1>6. CASE final[name[p]] # Absent
  <2>1. Return(p) /\ told' = told \cup {n \in {name[p]} : Whole(final[n])}
    BY <1>6
  <2>2. TypeOK' /\ \A q \in Publishers : Knows(q)'
    BY <1>2, <1>3, <2>1, ReturnKeeps DEF IInv, TypeOK, faults
  <2>3. ToldIsKept'
    BY <1>2, <1>3, <1>6, <2>1 DEF IInv, ToldIsKept
  <2> QED BY <1>4, <2>2, <2>3 DEF IInv
<1> QED BY <1>5, <1>6

LEMMA OpenAttemptKeeps ==
  ASSUME IInv, NEW p \in Publishers, OpenAttempt(p)
  PROVE  IInv'
<1> USE DEF OpenAttempt
<1> DEFINE n == <<Cardinality(Present(final)), name[p][2]>>
<1>1. \A q \in Publishers \ {p} : pc[q] = "idle"
  BY OthersAreIdle
<1>2. /\ staged \in [Names -> Trees \cup {Absent}] /\ final \in [Names -> Trees \cup {Absent}]
      /\ told \subseteq Names /\ family # "slot"
  BY DEF IInv, TypeOK
<1>3. /\ staged' \in [Names -> Trees \cup {Absent}] /\ final' \in [Names -> Trees \cup {Absent}]
      /\ \A m \in Names : (final'[m] = Absent) <=> (final[m] = Absent)
      /\ \A m \in Names : final[m] # Absent => final'[m].entry
      /\ \A m \in Names : staged[m] # Absent => staged'[m] \in Trees
  <2>1. final' = Synced(final) /\ (staged' = Synced(staged) \/ staged' = staged)
    BY DEF OpenParents
  <2> QED BY <2>1, OpenParentsSettles DEF IInv
<1>4. SlotsAreSynced' /\ ToldIsKept'
  BY <1>2, <1>3 DEF IInv, SlotsAreSynced, ToldIsKept
<1>5. CASE Readable /\ n \in Names
  \* Every attempt has an ordinal below their number: the next one is free.
  <2>1. final[n] = Absent
    <3>1. n \in Present(final) => n[1] < Cardinality(Present(final))
      BY <1>5 DEF Readable
    <3>2. n[1] \in Int
      BY <1>5, MaxAttemptsAssumption DEF Names
    <3>3. ~ (n[1] < Cardinality(Present(final)))
      BY <3>2
    <3> QED BY <1>5, <3>1, <3>3 DEF Present
  <2>2. /\ key' = [key EXCEPT ![p] = n] /\ name' = [name EXCEPT ![p] = n]
        /\ Resume(p, n) /\ lock' = lock
    BY <1>5
  <2> HIDE DEF n
  <2>3. /\ pc'[p] \in {"create", "discard", "tree"}
        /\ pc'[p] = "tree" => staged[n] # Absent
        /\ \A q \in Publishers \ {p} : pc'[q] = "idle"
        /\ pc' \in [Publishers -> Labels]
    BY <1>1, <2>2 DEF IInv, TypeOK, Resume, Goto, Whole, Labels
  <2>4. /\ key'[p] = n /\ name'[p] = n
        /\ key' \in [Publishers -> Names \cup {None}]
        /\ name' \in [Publishers -> Names \cup {None}]
    BY <1>5, <2>2 DEF IInv, TypeOK
  <2>5. \A q \in Publishers : Knows(q)'
    BY <1>2, <1>3, <1>5, <2>1, <2>2, <2>3, <2>4 DEF IInv, Knows, Holding
  <2>6. TypeOK'
    BY <1>3, <2>2, <2>3, <2>4 DEF IInv, TypeOK, faults
  <2> QED BY <1>4, <2>5, <2>6 DEF IInv
<1>6. CASE ~ (Readable /\ n \in Names)
  <2>1. Return(p)
    BY <1>6
  <2>2. TypeOK' /\ \A q \in Publishers : Knows(q)'
    BY <1>3, <2>1, ReturnKeeps DEF IInv, TypeOK, faults
  <2> QED BY <1>4, <2>2 DEF IInv
<1> QED BY <1>5, <1>6

LEMMA StagingExistsKeeps ==
  ASSUME IInv, NEW p \in Publishers, StagingExists(p)
  PROVE  IInv'
<1>1. \A q \in Publishers \ {p} : pc[q] = "idle"
  BY OthersAreIdle DEF StagingExists
<1>2. TypeOK' /\ pc'[p] = "discard" /\ \A q \in Publishers \ {p} : pc'[q] = "idle"
  BY <1>1 DEF IInv, TypeOK, StagingExists, Goto, Labels, disk, faults
<1>3. \A q \in Publishers : Knows(q)'
  BY <1>2 DEF IInv, Knows, Holding, StagingExists, disk
<1>4. SlotsAreSynced' /\ ToldIsKept'
  BY DEF IInv, SlotsAreSynced, ToldIsKept, Whole, StagingExists, disk
<1> QED BY <1>2, <1>3, <1>4 DEF IInv

\* Removing p's staging tree: what is left is a staging parent without it.
LEMMA RemovalKeepsTypes ==
  ASSUME TypeOK, NEW k \in Names
  PROVE  Synced([staged EXCEPT ![k] = Absent]) \in [Names -> Trees \cup {Absent}]
<1>1. [staged EXCEPT ![k] = Absent] \in [Names -> Trees \cup {Absent}]
  BY DEF TypeOK
<1> QED BY <1>1, SyncedKeeps

LEMMA DiscardKeeps ==
  ASSUME IInv, NEW p \in Publishers, Discard(p)
  PROVE  IInv'
<1>1. \A q \in Publishers \ {p} : pc[q] = "idle"
  BY OthersAreIdle DEF Discard
<1>2. staged' \in [Names -> Trees \cup {Absent}]
  BY RemovalKeepsTypes DEF IInv, Knows, Discard
<1>3. TypeOK' /\ pc'[p] = "create" /\ \A q \in Publishers \ {p} : pc'[q] = "idle"
  BY <1>1, <1>2 DEF IInv, TypeOK, Discard, Goto, Labels, faults
<1>4. \A q \in Publishers : Knows(q)'
  BY <1>3 DEF IInv, Knows, Holding, Discard
<1>5. SlotsAreSynced' /\ ToldIsKept'
  BY DEF IInv, SlotsAreSynced, ToldIsKept, Whole, Discard
<1> QED BY <1>3, <1>4, <1>5 DEF IInv

LEMMA CreateKeeps ==
  ASSUME IInv, NEW p \in Publishers, Create(p)
  PROVE  IInv'
<1>1. \A q \in Publishers \ {p} : pc[q] = "idle"
  BY OthersAreIdle DEF Create
<1>2. /\ staged' \in [Names -> Trees \cup {Absent}]
      /\ key[p] \in Names /\ staged'[key[p]] \in Trees
  <2>1. key[p] \in Names
    BY DEF IInv, Knows, Create
  <2>2. [data |-> "partial", files |-> FALSE, listed |-> FALSE,
         entry |-> FALSE, from |-> key[p]] \in Trees
    BY <2>1 DEF Trees
  <2> QED BY <2>1, <2>2 DEF IInv, TypeOK, Create
<1>3. TypeOK' /\ pc'[p] = "write" /\ \A q \in Publishers \ {p} : pc'[q] = "idle"
  BY <1>1, <1>2 DEF IInv, TypeOK, Create, Goto, Labels, faults
<1>4. \A q \in Publishers : Knows(q)'
  BY <1>2, <1>3 DEF IInv, Knows, Holding, Create
<1>5. SlotsAreSynced' /\ ToldIsKept'
  BY DEF IInv, SlotsAreSynced, ToldIsKept, Whole, Create
<1> QED BY <1>3, <1>4, <1>5 DEF IInv

LEMMA WriteKeeps ==
  ASSUME IInv, NEW p \in Publishers, Write(p)
  PROVE  IInv'
<1>1. \A q \in Publishers \ {p} : pc[q] = "idle"
  BY OthersAreIdle DEF Write
<1>2. key[p] \in Names /\ staged[key[p]] \in Trees
  BY DEF IInv, Knows, Holding, Write
<1>3. [staged[key[p]] EXCEPT !.data = "whole"] \in Trees
      /\ [staged[key[p]] EXCEPT !.data = "whole"].data = "whole"
  BY <1>2 DEF Trees
<1>4. /\ staged' \in [Names -> Trees \cup {Absent}]
      /\ staged'[key[p]] \in Trees /\ staged'[key[p]].data = "whole"
  BY <1>2, <1>3 DEF IInv, TypeOK, Write
<1>5. TypeOK' /\ pc'[p] = "files" /\ \A q \in Publishers \ {p} : pc'[q] = "idle"
  BY <1>1, <1>4 DEF IInv, TypeOK, Write, Goto, Labels, faults
<1>6. \A q \in Publishers : Knows(q)'
  BY <1>4, <1>5 DEF IInv, Knows, Holding, Write
<1>7. SlotsAreSynced' /\ ToldIsKept'
  BY DEF IInv, SlotsAreSynced, ToldIsKept, Whole, Write
<1> QED BY <1>5, <1>6, <1>7 DEF IInv

LEMMA SyncFilesKeeps ==
  ASSUME IInv, NEW p \in Publishers, SyncFiles(p)
  PROVE  IInv'
<1>1. \A q \in Publishers \ {p} : pc[q] = "idle"
  BY OthersAreIdle DEF SyncFiles
<1>2. key[p] \in Names /\ staged[key[p]] \in Trees
  BY DEF IInv, Knows, Holding, SyncFiles
<1>3. /\ [staged[key[p]] EXCEPT !.files = TRUE] \in Trees
      /\ [staged[key[p]] EXCEPT !.files = TRUE].files = TRUE
      /\ [staged[key[p]] EXCEPT !.files = TRUE].data = staged[key[p]].data
  BY <1>2 DEF Trees
<1>4. /\ staged' \in [Names -> Trees \cup {Absent}]
      /\ staged'[key[p]] \in Trees /\ staged'[key[p]].files
      /\ staged'[key[p]].data = staged[key[p]].data
  BY <1>2, <1>3 DEF IInv, TypeOK, SyncFiles
<1>5. TypeOK' /\ \A q \in Publishers \ {p} : pc'[q] = "idle"
  BY <1>1, <1>4 DEF IInv, TypeOK, SyncFiles, Goto, Labels, faults
<1>6. pc'[p] = IF family = "slot" THEN "check" ELSE "tree"
  BY DEF IInv, TypeOK, SyncFiles, Goto
<1>7. \A q \in Publishers : Knows(q)'
  BY <1>4, <1>5, <1>6 DEF IInv, Knows, Holding, SyncFiles
<1>8. SlotsAreSynced' /\ ToldIsKept'
  BY DEF IInv, SlotsAreSynced, ToldIsKept, Whole, SyncFiles
<1> QED BY <1>5, <1>7, <1>8 DEF IInv

LEMMA CheckKeeps ==
  ASSUME IInv, NEW p \in Publishers, Check(p)
  PROVE  IInv'
<1>1. \A q \in Publishers \ {p} : pc[q] = "idle"
  BY OthersAreIdle DEF Check
<1>2. SlotsAreSynced' /\ ToldIsKept' /\ staged' = staged /\ final' = final
  BY DEF IInv, SlotsAreSynced, ToldIsKept, Whole, Check, disk
<1>3. CASE final[name[p]] # Absent /\ ~ Whole(final[name[p]])
  <2>1. Return(p)
    BY <1>3 DEF Check
  <2>2. TypeOK' /\ \A q \in Publishers : Knows(q)'
    BY <2>1, ReturnKeeps DEF IInv, TypeOK, faults, disk, Check
  <2> QED BY <1>2, <2>2 DEF IInv
<1>4. CASE ~ (final[name[p]] # Absent /\ ~ Whole(final[name[p]]))
  <2>1. /\ pc'[p] = IF final[name[p]] = Absent THEN "tree" ELSE "reuse"
        /\ \A q \in Publishers \ {p} : pc'[q] = "idle"
        /\ pc' \in [Publishers -> Labels]
        /\ lock' = lock /\ key' = key /\ name' = name
    BY <1>1, <1>4 DEF IInv, TypeOK, Check, Goto, Labels
  <2>2. TypeOK'
    BY <2>1 DEF IInv, TypeOK, faults, disk, Check
  <2>3. \A q \in Publishers : Knows(q)'
    BY <1>2, <2>1 DEF IInv, Knows, Holding, Check
  <2> QED BY <1>2, <2>2, <2>3 DEF IInv
<1> QED BY <1>3, <1>4

LEMMA ReuseKeeps ==
  ASSUME IInv, NEW p \in Publishers, Reuse(p)
  PROVE  IInv'
<1>1. \A q \in Publishers \ {p} : pc[q] = "idle"
  BY OthersAreIdle DEF Reuse
<1>2. /\ final' \in [Names -> Trees \cup {Absent}]
      /\ \A n \in Names : (final'[n] = Absent) <=> (final[n] = Absent)
      /\ \A n \in Names : final[n] # Absent =>
           /\ final'[n].entry = TRUE /\ final'[n].data = final[n].data
           /\ final'[n].files = final[n].files /\ final'[n].listed = final[n].listed
  BY SyncedKeeps DEF IInv, TypeOK, Reuse
<1>3. TypeOK' /\ pc'[p] = "dispose" /\ \A q \in Publishers \ {p} : pc'[q] = "idle"
  BY <1>1, <1>2 DEF IInv, TypeOK, Reuse, Goto, Labels, faults
<1>4. \A q \in Publishers : Knows(q)'
  BY <1>2, <1>3 DEF IInv, TypeOK, Knows, Holding, Reuse
<1>5. SlotsAreSynced'
  BY <1>2 DEF IInv, SlotsAreSynced, Reuse
<1>6. ToldIsKept'
  BY <1>2 DEF IInv, TypeOK, ToldIsKept, Whole, Reuse
<1> QED BY <1>3, <1>4, <1>5, <1>6 DEF IInv

LEMMA SyncFinalKeeps ==
  ASSUME IInv, NEW p \in Publishers, SyncFinal(p)
  PROVE  IInv'
<1>1. \A q \in Publishers \ {p} : pc[q] = "idle"
  BY OthersAreIdle DEF SyncFinal
<1>2. /\ final' \in [Names -> Trees \cup {Absent}]
      /\ \A n \in Names : (final'[n] = Absent) <=> (final[n] = Absent)
      /\ \A n \in Names : final[n] # Absent =>
           /\ final'[n].entry = TRUE /\ final'[n].data = final[n].data
           /\ final'[n].files = final[n].files /\ final'[n].listed = final[n].listed
  BY SyncedKeeps DEF IInv, TypeOK, SyncFinal
<1>3. TypeOK' /\ pc'[p] = "source" /\ \A q \in Publishers \ {p} : pc'[q] = "idle"
  BY <1>1, <1>2 DEF IInv, TypeOK, SyncFinal, Goto, Labels, faults
<1>4. \A q \in Publishers : Knows(q)'
  BY <1>2, <1>3 DEF IInv, TypeOK, Knows, Holding, SyncFinal
<1>5. SlotsAreSynced'
  BY <1>2 DEF IInv, SlotsAreSynced, SyncFinal
<1>6. ToldIsKept'
  BY <1>2 DEF IInv, TypeOK, ToldIsKept, Whole, SyncFinal
<1> QED BY <1>3, <1>4, <1>5, <1>6 DEF IInv

LEMMA DisposeKeeps ==
  ASSUME IInv, NEW p \in Publishers, Dispose(p)
  PROVE  IInv'
<1>1. pc[p] # "idle" /\ Return(p) /\ name[p] \in Names /\ key[p] \in Names
  BY DEF Dispose, IInv, Knows
<1>2. staged' \in [Names -> Trees \cup {Absent}]
  BY <1>1, RemovalKeepsTypes DEF IInv, Dispose
<1>3. TypeOK' /\ \A q \in Publishers : Knows(q)'
  BY <1>1, <1>2, ReturnKeeps DEF IInv, TypeOK, Dispose, faults
<1>4. SlotsAreSynced' /\ ToldIsKept'
  BY <1>1 DEF IInv, SlotsAreSynced, ToldIsKept, Whole, Knows, Dispose
<1> QED BY <1>3, <1>4 DEF IInv

LEMMA SyncTreeKeeps ==
  ASSUME IInv, NEW p \in Publishers, SyncTree(p)
  PROVE  IInv'
<1>1. \A q \in Publishers \ {p} : pc[q] = "idle"
  BY OthersAreIdle DEF SyncTree
<1>2. key[p] \in Names /\ staged[key[p]] \in Trees
  BY DEF IInv, Knows, Holding, SyncTree
<1>3. /\ [staged[key[p]] EXCEPT !.listed = TRUE] \in Trees
      /\ [staged[key[p]] EXCEPT !.listed = TRUE].listed = TRUE
      /\ [staged[key[p]] EXCEPT !.listed = TRUE].files = staged[key[p]].files
      /\ [staged[key[p]] EXCEPT !.listed = TRUE].data = staged[key[p]].data
  BY <1>2 DEF Trees
<1>4. /\ staged' \in [Names -> Trees \cup {Absent}]
      /\ staged'[key[p]] \in Trees /\ staged'[key[p]].listed
      /\ staged'[key[p]].files = staged[key[p]].files
      /\ staged'[key[p]].data = staged[key[p]].data
  BY <1>2, <1>3 DEF IInv, TypeOK, SyncTree
<1>5. TypeOK' /\ pc'[p] = "staging" /\ \A q \in Publishers \ {p} : pc'[q] = "idle"
  BY <1>1, <1>4 DEF IInv, TypeOK, SyncTree, Goto, Labels, faults
<1>6. \A q \in Publishers : Knows(q)'
  BY <1>4, <1>5 DEF IInv, Knows, Holding, SyncTree
<1>7. SlotsAreSynced' /\ ToldIsKept'
  BY DEF IInv, SlotsAreSynced, ToldIsKept, Whole, SyncTree
<1> QED BY <1>5, <1>6, <1>7 DEF IInv

LEMMA SyncStagingKeeps ==
  ASSUME IInv, NEW p \in Publishers, SyncStaging(p)
  PROVE  IInv'
<1>1. \A q \in Publishers \ {p} : pc[q] = "idle"
  BY OthersAreIdle DEF SyncStaging
<1>2. key[p] \in Names /\ staged[key[p]] \in Trees
  BY DEF IInv, Knows, Holding, SyncStaging
<1>3. /\ staged' \in [Names -> Trees \cup {Absent}]
      /\ \A n \in Names : staged[n] # Absent =>
           /\ staged'[n] \in Trees /\ staged'[n].data = staged[n].data
           /\ staged'[n].files = staged[n].files /\ staged'[n].listed = staged[n].listed
  BY SyncedKeeps DEF IInv, TypeOK, SyncStaging
<1>4. /\ final' \in [Names -> Trees \cup {Absent}]
      /\ \A n \in Names : (final'[n] = Absent) <=> (final[n] = Absent)
      /\ \A n \in Names : final[n] # Absent =>
           /\ final[n].entry => final'[n].entry
           /\ final'[n].data = final[n].data
           /\ final'[n].files = final[n].files /\ final'[n].listed = final[n].listed
  <2>1. final \in [Names -> Trees \cup {Absent}]
    BY DEF IInv, TypeOK
  <2>2. CASE family = "slot"
    <3>1. final' = Synced(final)
      BY <2>2 DEF SyncStaging
    <3> QED BY <2>1, <3>1, SyncedKeeps
  <2>3. CASE family # "slot"
    BY <2>1, <2>3 DEF SyncStaging
  <2> QED BY <2>2, <2>3
<1>5. TypeOK' /\ pc'[p] = "rename" /\ \A q \in Publishers \ {p} : pc'[q] = "idle"
  BY <1>1, <1>3, <1>4 DEF IInv, TypeOK, SyncStaging, Goto, Labels, faults
<1>6. \A q \in Publishers : Knows(q)'
  BY <1>2, <1>3, <1>4, <1>5, AbsentIsNoTree DEF IInv, Knows, Holding, SyncStaging
<1>7. SlotsAreSynced'
  BY <1>4 DEF IInv, SlotsAreSynced, SyncStaging
<1>8. ToldIsKept'
  BY <1>4 DEF IInv, TypeOK, ToldIsKept, Whole, SyncStaging
<1> QED BY <1>5, <1>6, <1>7, <1>8 DEF IInv

LEMMA RenameKeeps ==
  ASSUME IInv, NEW p \in Publishers, Rename(p)
  PROVE  IInv'
<1>1. \A q \in Publishers \ {p} : pc[q] = "idle"
  BY OthersAreIdle DEF Rename
<1>2. /\ key[p] \in Names /\ name[p] \in Names /\ staged[key[p]] \in Trees
      /\ final[name[p]] = Absent
      /\ family = "slot" =>
           /\ staged[key[p]].data = "whole" /\ staged[key[p]].files
           /\ staged[key[p]].listed
  BY DEF IInv, Knows, Holding, Rename
<1>3. /\ [staged[key[p]] EXCEPT !.entry = FALSE] \in Trees
      /\ [staged[key[p]] EXCEPT !.entry = FALSE].data = staged[key[p]].data
      /\ [staged[key[p]] EXCEPT !.entry = FALSE].files = staged[key[p]].files
      /\ [staged[key[p]] EXCEPT !.entry = FALSE].listed = staged[key[p]].listed
  BY <1>2 DEF Trees
<1>4. /\ final' \in [Names -> Trees \cup {Absent}]
      /\ staged' \in [Names -> Trees \cup {Absent}]
      /\ final'[name[p]] = [staged[key[p]] EXCEPT !.entry = FALSE]
      /\ \A n \in Names \ {name[p]} : final'[n] = final[n]
  BY <1>2, <1>3 DEF IInv, TypeOK, Rename
<1>5. TypeOK' /\ pc'[p] = "final" /\ \A q \in Publishers \ {p} : pc'[q] = "idle"
  BY <1>1, <1>4 DEF IInv, TypeOK, Rename, Goto, Labels, faults
<1>6. \A q \in Publishers : Knows(q)'
  BY <1>2, <1>3, <1>4, <1>5, AbsentIsNoTree DEF IInv, Knows, Holding, Rename
<1>7. SlotsAreSynced'
  BY <1>2, <1>3, <1>4 DEF IInv, SlotsAreSynced, Rename
<1>8. ToldIsKept'
  <2>1. told' = told /\ name[p] \notin told /\ told \subseteq Names /\ family' = family
    BY <1>2 DEF IInv, TypeOK, ToldIsKept, Rename
  <2> QED BY <1>4, <2>1 DEF IInv, ToldIsKept, Whole
<1> QED BY <1>5, <1>6, <1>7, <1>8 DEF IInv

LEMMA SyncSourceKeeps ==
  ASSUME IInv, NEW p \in Publishers, SyncSource(p)
  PROVE  IInv'
<1>1. \A q \in Publishers \ {p} : pc[q] = "idle"
  BY OthersAreIdle DEF SyncSource
<1>2. staged' \in [Names -> Trees \cup {Absent}]
  BY SyncedKeeps DEF IInv, TypeOK, SyncSource
<1>3. TypeOK' /\ pc'[p] = "confirm" /\ \A q \in Publishers \ {p} : pc'[q] = "idle"
  BY <1>1, <1>2 DEF IInv, TypeOK, SyncSource, Goto, Labels, faults
<1>4. \A q \in Publishers : Knows(q)'
  BY <1>3 DEF IInv, Knows, Holding, SyncSource
<1>5. SlotsAreSynced' /\ ToldIsKept'
  BY DEF IInv, SlotsAreSynced, ToldIsKept, Whole, SyncSource
<1> QED BY <1>3, <1>4, <1>5 DEF IInv

LEMMA ConfirmKeeps ==
  ASSUME IInv, NEW p \in Publishers, Confirm(p)
  PROVE  IInv'
<1>1. pc[p] # "idle" /\ Return(p) /\ name[p] \in Names
  BY DEF Confirm, IInv, Knows
<1>2. TypeOK' /\ \A q \in Publishers : Knows(q)'
  BY <1>1, ReturnKeeps DEF IInv, TypeOK, Confirm, disk, faults
<1>3. SlotsAreSynced' /\ ToldIsKept'
  BY <1>1 DEF IInv, SlotsAreSynced, ToldIsKept, Whole, Knows, Confirm, disk
<1> QED BY <1>2, <1>3 DEF IInv

LEMMA InterruptKeeps ==
  ASSUME IInv, NEW p \in Publishers, Interrupt(p)
  PROVE  IInv'
<1>1. pc[p] # "idle" /\ Return(p)
  BY DEF Interrupt
<1>2. interruptions' \in 0 .. Interruptions
  BY BoundsAssumption DEF IInv, TypeOK, Interrupt
<1>3. TypeOK' /\ \A q \in Publishers : Knows(q)'
  BY <1>1, <1>2, ReturnKeeps DEF IInv, TypeOK, Interrupt, disk
<1>4. SlotsAreSynced' /\ ToldIsKept'
  BY DEF IInv, SlotsAreSynced, ToldIsKept, Whole, Interrupt, disk
<1> QED BY <1>3, <1>4 DEF IInv

\* A loss of power ends every operation; an entry that was synced is still
\* there and a tree that was synced is as it was.
LEMMA LosePowerKeeps ==
  ASSUME IInv, LosePower
  PROVE  IInv'
<1>1. PICK undone \in SUBSET Unsynced(final), gone \in SUBSET Unsynced(staged),
           lostFinal \in SUBSET Exposed(final), lostStaged \in SUBSET Exposed(staged) :
       /\ final' = [n \in Names |->
            IF final[n] = Absent \/ n \in undone THEN Absent
            ELSE Restored(final[n], n \in lostFinal)]
       /\ staged' = [k \in Names |->
            IF \E n \in undone : final[n].from = k
            THEN LET n == CHOOSE n \in undone : final[n].from = k
                 IN Restored(final[n], n \in lostFinal)
            ELSE IF staged[k] = Absent \/ k \in gone THEN Absent
            ELSE Restored(staged[k], k \in lostStaged)]
  BY DEF LosePower
<1>2. /\ staged \in [Names -> Trees \cup {Absent}]
      /\ final \in [Names -> Trees \cup {Absent}]
      /\ undone \subseteq Names
      /\ \A n \in undone : final[n] \in Trees /\ ~ final[n].entry
  BY DEF IInv, TypeOK, Unsynced, Present
<1>3. ASSUME NEW n \in Names
      PROVE  /\ final'[n] \in Trees \cup {Absent}
             /\ final'[n] # Absent =>
                  /\ final[n] \in Trees /\ n \notin undone
                  /\ final'[n] = Restored(final[n], n \in lostFinal)
  BY <1>1, <1>2, RestoredIsTree
<1>4. final' \in [Names -> Trees \cup {Absent}]
  BY <1>1, <1>3
<1>5. ASSUME NEW k \in Names
      PROVE  staged'[k] \in Trees \cup {Absent}
  <2>1. CASE \E n \in undone : final[n].from = k
    <3> DEFINE m == CHOOSE n \in undone : final[n].from = k
    <3>1. m \in undone
      BY <2>1
    <3>2. staged'[k] = Restored(final[m], m \in lostFinal)
      BY <1>1, <2>1
    <3> HIDE DEF m
    <3> QED BY <1>2, <3>1, <3>2, RestoredIsTree
  <2>2. CASE ~ \E n \in undone : final[n].from = k
    <3>1. staged'[k] = IF staged[k] = Absent \/ k \in gone THEN Absent
                       ELSE Restored(staged[k], k \in lostStaged)
      BY <1>1, <2>2
    <3> QED BY <1>2, <3>1, RestoredIsTree
  <2> QED BY <2>1, <2>2
<1>6. staged' \in [Names -> Trees \cup {Absent}]
  <2>1. staged' = [k \in Names |-> staged'[k]]
    BY <1>1
  <2> QED BY <1>5, <2>1
<1>7. \A q \in Publishers : pc'[q] = "idle"
  BY DEF LosePower
<1>8. TypeOK'
  <2>1. losses' \in 0 .. PowerLosses
    BY BoundsAssumption DEF IInv, TypeOK, LosePower
  <2> QED BY <1>4, <1>6, <2>1 DEF IInv, TypeOK, LosePower, Labels
<1>9. \A q \in Publishers : Knows(q)'
  BY <1>7 DEF Knows, Holding
<1>10. SlotsAreSynced'
  <2> SUFFICES ASSUME family = "slot", NEW n \in Names, final'[n] # Absent
               PROVE  final'[n].data = "whole" /\ final'[n].files /\ final'[n].listed
    BY DEF SlotsAreSynced, LosePower
  <2>1. final[n] \in Trees /\ final'[n] = Restored(final[n], n \in lostFinal)
    BY <1>3
  <2>2. final[n].data = "whole" /\ final[n].files /\ final[n].listed
    BY <2>1, AbsentIsNoTree DEF IInv, SlotsAreSynced
  <2>3. n \notin lostFinal
    BY <2>2 DEF Exposed
  <2>4. /\ Restored(final[n], n \in lostFinal).data = final[n].data
        /\ Restored(final[n], n \in lostFinal).files
        /\ Restored(final[n], n \in lostFinal).listed
    BY <2>1, <2>3, RestoredIsTree
  <2> QED BY <2>1, <2>2, <2>4
<1>11. ToldIsKept'
  <2> SUFFICES ASSUME NEW n \in told
               PROVE  final'[n] # Absent /\ final'[n].entry
    BY <1>10 DEF ToldIsKept, SlotsAreSynced, Whole, LosePower, IInv, TypeOK
  <2>1. n \in Names /\ final[n] \in Trees /\ final[n].entry
    BY DEF IInv, TypeOK, ToldIsKept
  <2>2. n \notin undone
    BY <1>2, <2>1
  <2>3. final'[n] = Restored(final[n], n \in lostFinal)
    BY <1>1, <2>1, <2>2, AbsentIsNoTree
  <2> QED BY <2>1, <2>3, RestoredIsTree, AbsentIsNoTree
<1> QED BY <1>8, <1>9, <1>10, <1>11 DEF IInv

-----------------------------------------------------------------------------
(* The invariant and what follows from it *)

LEMMA InitHolds == Init => IInv
<1> SUFFICES ASSUME Init PROVE IInv
  OBVIOUS
<1>1. TypeOK
  BY BoundsAssumption DEF Init, TypeOK, Labels
<1>2. \A p \in Publishers : Knows(p)
  BY DEF Init, Knows, Holding
<1>3. SlotsAreSynced /\ ToldIsKept
  BY DEF Init, SlotsAreSynced, ToldIsKept
<1> QED BY <1>1, <1>2, <1>3 DEF IInv

LEMMA StepKeeps == IInv /\ [Next]_vars => IInv'
<1> SUFFICES ASSUME IInv, [Next]_vars PROVE IInv'
  OBVIOUS
<1>1. CASE LosePower
  BY <1>1, LosePowerKeeps
<1>2. ASSUME NEW p \in Publishers, Operation(p) \/ Interrupt(p)
      PROVE  IInv'
  BY <1>2, AcquireKeeps, OpenQualificationKeeps, OpenAttemptKeeps,
     StagingExistsKeeps, DiscardKeeps, CreateKeeps, WriteKeeps, SyncFilesKeeps,
     CheckKeeps, ReuseKeeps, DisposeKeeps, SyncTreeKeeps, SyncStagingKeeps,
     RenameKeeps, SyncFinalKeeps, SyncSourceKeeps, ConfirmKeeps, InterruptKeeps
     DEF Operation
<1>3. CASE UNCHANGED vars
  BY <1>3 DEF vars, IInv, TypeOK, Knows, Holding, SlotsAreSynced, ToldIsKept, Whole
<1> QED BY <1>1, <1>2, <1>3 DEF Next

LEMMA InvariantHolds == Spec => []IInv
BY InitHolds, StepKeeps, PTL DEF Spec

\* Whatever a caller of the store was told is published is in the final parent
\* and its entry is on the medium, whichever publishers died and however often
\* the power was lost; a slot is also whole (publish_slot_exclusive,
\* create_qualification_darwin, append_attempt_darwin).
THEOREM PublicationSafety == Spec => []ToldIsKept
<1>1. IInv => ToldIsKept
  BY DEF IInv
<1> QED BY InvariantHolds, <1>1, PTL

\* From the look at the destination to the rename the destination is absent:
\* the lock excludes every other publisher of the same parent.
THEOREM DestinationSafety == Spec => []DestinationStaysAbsent
<1>1. IInv => DestinationStaysAbsent
  BY DEF IInv, Knows, DestinationStaysAbsent
<1> QED BY InvariantHolds, <1>1, PTL

\* Every value the store takes is of its type.
THEOREM StoreTypes == Spec => []TypeOK
<1>1. IInv => TypeOK
  BY DEF IInv
<1> QED BY InvariantHolds, <1>1, PTL

-----------------------------------------------------------------------------
(* The attempts are numbered.  An ordinal is the number of attempts its     *)
(* publisher counted, and stays so under the lock; only the last attempt    *)
(* may have an entry that is not on the medium, so that only it can go.     *)

\* Between the count of the attempts and the rename.
Working == {"discard", "create", "write", "files", "tree", "staging", "rename"}

\* The ordinals are those below the number of attempts, each taken once, and only the last
\* attempt may have an entry that is not on the medium.
Numbered(place) ==
  /\ IsFiniteSet(Present(place))
  /\ \A n \in Present(place) : n[1] < Cardinality(Present(place))
  /\ \A m, n \in Present(place) : m[1] = n[1] => m = n
  /\ \A n \in Present(place) :
       place[n].entry \/ n[1] + 1 = Cardinality(Present(place))

\* Every attempt can be read.
AllWhole(place) == \A n \in Present(place) : place[n].data = "whole"

\* What publisher p relies on when it renames its tree to the next ordinal.
Plans(p) ==
  /\ pc[p] \notin {"check", "reuse", "dispose"}
  /\ pc[p] \in Working =>
       /\ name[p][1] = Cardinality(Present(final))
       /\ \A n \in Present(final) : final[n].entry
  /\ pc[p] \in {"files", "tree", "staging", "rename"} => staged[key[p]].data = "whole"

Inventory ==
  family = "attempt" =>
    /\ Numbered(final)
    /\ losses = 0 => AllWhole(final)
    /\ \A p \in Publishers : Plans(p)

\* An ordinal is a number.
LEMMA Ordinals == \A n \in Names : n[1] \in Nat /\ n[1] < MaxAttempts
BY MaxAttemptsAssumption DEF Names

\* Attempts that are neither added nor removed nor unsettled stay numbered.
LEMMA NumberedStays ==
  ASSUME NEW f, NEW g, Numbered(f), Present(g) = Present(f),
         \A n \in Present(f) : f[n].entry => g[n].entry
  PROVE  Numbered(g)
BY DEF Numbered

\* The sync of a parent settles every entry and loses nothing.
LEMMA SyncedNumbered ==
  ASSUME NEW place \in [Names -> Trees \cup {Absent}], Numbered(place)
  PROVE  /\ Present(Synced(place)) = Present(place)
         /\ Numbered(Synced(place))
         /\ AllWhole(place) => AllWhole(Synced(place))
         /\ \A n \in Present(place) : Synced(place)[n].entry
<1>1. \A n \in Names : (Synced(place)[n] = Absent) <=> (place[n] = Absent)
  BY SyncedKeeps
<1>2. \A n \in Present(place) : Synced(place)[n].entry = TRUE /\ Synced(place)[n].data = place[n].data
  BY SyncedKeeps DEF Present
<1>3. Present(Synced(place)) = Present(place)
  BY <1>1 DEF Present
<1>4. Numbered(Synced(place))
  BY <1>2, <1>3, NumberedStays
<1> QED BY <1>2, <1>3, <1>4 DEF AllWhole

\* A step that leaves the final parent to its attempts keeps the inventory if the
\* publisher still has its plan and the others are idle.
LEMMA InventoryStays ==
  ASSUME family = "attempt", Inventory, family' = family, losses' = losses,
         Present(final') = Present(final), Numbered(final'),
         AllWhole(final) => AllWhole(final'),
         NEW p \in Publishers, \A q \in Publishers \ {p} : pc'[q] = "idle",
         Plans(p)'
  PROVE  Inventory'
<1>1. \A q \in Publishers : Plans(q)'
  BY DEF Plans, Working
<1>2. Numbered(final)' /\ (losses' = 0 => AllWhole(final)')
  BY DEF Inventory, Numbered, AllWhole, Present
<1> QED BY <1>1, <1>2 DEF Inventory

\* A publisher that has nothing to rename yet, or any more, plans nothing.
LEMMA NothingPlanned ==
  ASSUME NEW p \in Publishers, pc'[p] \in {"idle", "open", "final", "source", "confirm"}
  PROVE  Plans(p)'
BY DEF Plans, Working

\* The operations that leave the final parent alone.
LEMMA QuietInventory ==
  ASSUME IInv, Inventory, family = "attempt", NEW p \in Publishers,
         \/ Acquire(p) \/ StagingExists(p) \/ Discard(p) \/ Create(p) \/ Write(p)
         \/ SyncFiles(p) \/ SyncTree(p) \/ SyncStaging(p) \/ SyncSource(p) \/ Confirm(p)
         \/ Interrupt(p)
  PROVE  Inventory' /\ Present(final') = Present(final)
<1>1. final' = final /\ family' = family /\ losses' = losses
  BY DEF Acquire, StagingExists, Discard, Create, Write, SyncFiles, SyncTree, SyncStaging,
         SyncSource, Confirm, Interrupt, disk, faults
<1>2. \A q \in Publishers \ {p} : pc'[q] = "idle"
  <2>1. \A q \in Publishers \ {p} : pc[q] = "idle"
    BY OthersAreIdle DEF Acquire, StagingExists, Discard, Create, Write, SyncFiles, SyncTree,
                         SyncStaging, SyncSource, Confirm, Interrupt
  <2> QED BY <2>1 DEF IInv, TypeOK, Acquire, StagingExists, Discard, Create, Write, SyncFiles,
                      SyncTree, SyncStaging, SyncSource, Confirm, Interrupt, Goto, Return
<1>3. Plans(p)'
  <2>1. CASE Acquire(p) \/ SyncSource(p) \/ Confirm(p) \/ Interrupt(p)
    <3>1. pc'[p] \in {"idle", "open", "final", "source", "confirm"}
      BY <2>1 DEF IInv, TypeOK, Acquire, SyncSource, Confirm, Interrupt, Goto, Return
    <3> QED BY <3>1, NothingPlanned
  <2>2. CASE StagingExists(p) \/ Discard(p) \/ Create(p)
    <3>1. /\ pc[p] \in Working /\ pc'[p] \in {"discard", "create", "write"}
          /\ name' = name
      BY <2>2 DEF IInv, TypeOK, StagingExists, Discard, Create, Goto, Working
    <3> QED BY <1>1, <3>1 DEF Inventory, Plans, Working
  <2>3. CASE Write(p) \/ SyncFiles(p) \/ SyncTree(p) \/ SyncStaging(p)
    <3>1. /\ pc[p] \in Working /\ pc'[p] \in {"files", "tree", "staging", "rename"}
          /\ name' = name /\ key' = key
      BY <2>3 DEF IInv, TypeOK, Write, SyncFiles, SyncTree, SyncStaging, Goto, Working
    <3>2. key[p] \in Names /\ staged[key[p]] \in Trees /\ staged \in [Names -> Trees \cup {Absent}]
      BY <2>3 DEF IInv, TypeOK, Knows, Holding, Write, SyncFiles, SyncTree, SyncStaging
    <3>3. staged'[key[p]].data = "whole"
      <4>1. CASE Write(p)
        BY <3>2, <4>1 DEF Write, Trees
      <4>2. CASE SyncFiles(p)
        <5>1. staged[key[p]].data = "whole"
          BY <4>2 DEF Inventory, Plans, SyncFiles
        <5> QED BY <3>2, <4>2, <5>1 DEF SyncFiles, Trees
      <4>3. CASE SyncTree(p)
        <5>1. staged[key[p]].data = "whole"
          BY <4>3 DEF Inventory, Plans, SyncTree
        <5> QED BY <3>2, <4>3, <5>1 DEF SyncTree, Trees
      <4>4. CASE SyncStaging(p)
        <5>1. staged[key[p]].data = "whole"
          BY <4>4 DEF Inventory, Plans, SyncStaging
        <5>2. Synced(staged)[key[p]].data = staged[key[p]].data
          BY <3>2, SyncedKeeps, AbsentIsNoTree
        <5> QED BY <4>4, <5>1, <5>2 DEF SyncStaging
      <4> QED BY <2>3, <4>1, <4>2, <4>3, <4>4
    <3> QED BY <1>1, <3>1, <3>3 DEF Inventory, Plans, Working
  <2> QED BY <2>1, <2>2, <2>3
<1>4. Inventory'
  BY <1>1, <1>2, <1>3, InventoryStays DEF Inventory
<1> QED BY <1>1, <1>4

\* The count of the attempts, under the lock and after the sync of the parents.
LEMMA CountedInventory ==
  ASSUME IInv, Inventory, family = "attempt", NEW p \in Publishers, OpenAttempt(p)
  PROVE  Inventory' /\ Present(final') = Present(final)
<1> DEFINE n == <<Cardinality(Present(final)), name[p][2]>>
<1>1. /\ staged \in [Names -> Trees \cup {Absent}] /\ final \in [Names -> Trees \cup {Absent}]
      /\ Numbered(final)
  BY DEF IInv, TypeOK, Inventory
<1>2. final' = Synced(final) /\ family' = family /\ losses' = losses
  BY DEF OpenAttempt, OpenParents, faults
<1>3. /\ Present(final') = Present(final) /\ Numbered(final')
      /\ AllWhole(final) => AllWhole(final')
      /\ \A m \in Present(final) : final'[m].entry
  BY <1>1, <1>2, SyncedNumbered
<1>4. \A q \in Publishers \ {p} : pc'[q] = "idle"
  <2>1. \A q \in Publishers \ {p} : pc[q] = "idle"
    BY OthersAreIdle DEF OpenAttempt
  <2> QED BY <2>1 DEF IInv, TypeOK, OpenAttempt, Resume, Return, Goto
<1>5. Plans(p)'
  <2>1. CASE Readable /\ n \in Names
    <3>1. /\ name' = [name EXCEPT ![p] = n] /\ key' = [key EXCEPT ![p] = n]
          /\ Resume(p, n) /\ staged' = Synced(staged)
      BY <2>1 DEF OpenAttempt, OpenParents
    <3>2. name'[p] = n /\ key'[p] = n /\ n[1] = Cardinality(Present(final))
      BY <2>1, <3>1 DEF IInv, TypeOK
    <3>3. n \in Names
      BY <2>1
    <3> HIDE DEF n
    <3>4. /\ pc'[p] \in {"create", "discard", "tree"}
          /\ pc'[p] = "tree" => Whole(staged[n])
      BY <3>1 DEF IInv, TypeOK, Resume, Goto
    <3>5. pc'[p] = "tree" => staged'[n].data = "whole"
      BY <1>1, <3>1, <3>3, <3>4, SyncedKeeps DEF Whole
    <3> QED BY <1>3, <3>2, <3>4, <3>5 DEF Plans, Working
  <2>2. CASE ~ (Readable /\ n \in Names)
    <3>1. pc'[p] = "idle"
      BY <2>2 DEF OpenAttempt, Return, Goto, IInv, TypeOK
    <3> QED BY <3>1, NothingPlanned
  <2> QED BY <2>1, <2>2
<1>6. Inventory'
  BY <1>2, <1>3, <1>4, <1>5, InventoryStays
<1> QED BY <1>3, <1>6

\* The sync of the final parent.
LEMMA SyncFinalInventory ==
  ASSUME IInv, Inventory, family = "attempt", NEW p \in Publishers, SyncFinal(p)
  PROVE  Inventory' /\ Present(final') = Present(final)
<1>1. final \in [Names -> Trees \cup {Absent}] /\ Numbered(final)
  BY DEF IInv, TypeOK, Inventory
<1>2. final' = Synced(final) /\ family' = family /\ losses' = losses
  BY DEF SyncFinal, faults
<1>3. /\ Present(final') = Present(final) /\ Numbered(final')
      /\ AllWhole(final) => AllWhole(final')
  BY <1>1, <1>2, SyncedNumbered
<1>4. pc'[p] = "source" /\ \A q \in Publishers \ {p} : pc'[q] = "idle"
  <2>1. \A q \in Publishers \ {p} : pc[q] = "idle"
    BY OthersAreIdle DEF SyncFinal
  <2> QED BY <2>1 DEF IInv, TypeOK, SyncFinal, Goto
<1>5. Inventory'
  BY <1>2, <1>3, <1>4, NothingPlanned, InventoryStays
<1> QED BY <1>3, <1>5

\* The rename gives the next ordinal to one whole tree.
LEMMA RenameInventory ==
  ASSUME IInv, Inventory, family = "attempt", NEW p \in Publishers, Rename(p)
  PROVE  /\ Inventory'
         /\ name[p] \in Names /\ name[p] \notin Present(final)
         /\ name[p][1] = Cardinality(Present(final))
         /\ Present(final') = Present(final) \cup {name[p]}
         /\ Cardinality(Present(final')) = Cardinality(Present(final)) + 1
<1>1. /\ key[p] \in Names /\ name[p] \in Names /\ staged[key[p]] \in Trees
      /\ final[name[p]] = Absent /\ final \in [Names -> Trees \cup {Absent}]
  BY DEF IInv, TypeOK, Knows, Holding, Rename
<1>2. /\ name[p][1] = Cardinality(Present(final))
      /\ \A n \in Present(final) : final[n].entry
      /\ staged[key[p]].data = "whole" /\ Numbered(final)
  BY DEF Inventory, Plans, Working, Rename
<1> DEFINE t == [staged[key[p]] EXCEPT !.entry = FALSE]
<1>3. t \in Trees /\ t.data = "whole"
  BY <1>1, <1>2 DEF Trees
<1>4. /\ final'[name[p]] = t
      /\ \A n \in Names \ {name[p]} : final'[n] = final[n]
  BY <1>1 DEF Rename
<1> HIDE DEF t
<1>5. Present(final') = Present(final) \cup {name[p]} /\ name[p] \notin Present(final)
  BY <1>1, <1>3, <1>4, AbsentIsNoTree DEF Present
<1>6. /\ IsFiniteSet(Present(final')) /\ Cardinality(Present(final)) \in Nat
      /\ Cardinality(Present(final')) = Cardinality(Present(final)) + 1
  BY <1>2, <1>5, FS_AddElement, FS_CardinalityType DEF Numbered
<1>7. \A n \in Present(final) : n \in Names /\ n[1] \in Nat
  BY Ordinals DEF Present
<1>8. Numbered(final')
  <2>1. \A n \in Present(final') : n[1] < Cardinality(Present(final'))
    BY <1>2, <1>5, <1>6, <1>7 DEF Numbered
  <2>2. \A m, n \in Present(final') : m[1] = n[1] => m = n
    BY <1>2, <1>5, <1>6, <1>7 DEF Numbered
  <2>3. \A n \in Present(final') :
          final'[n].entry \/ n[1] + 1 = Cardinality(Present(final'))
    BY <1>2, <1>4, <1>5, <1>6, <1>7
  <2> QED BY <1>6, <2>1, <2>2, <2>3 DEF Numbered
<1>9. AllWhole(final) => AllWhole(final')
  BY <1>3, <1>4, <1>5, <1>7 DEF AllWhole
<1>10. \A q \in Publishers : pc'[q] \in {"idle", "final"}
  <2>1. \A q \in Publishers \ {p} : pc[q] = "idle"
    BY OthersAreIdle DEF Rename
  <2> QED BY <2>1 DEF IInv, TypeOK, Rename, Goto
<1>11. \A q \in Publishers : Plans(q)'
  BY <1>10, NothingPlanned
<1>12. Inventory'
  <2>1. Numbered(final)' /\ (losses' = 0 => AllWhole(final)')
    BY <1>8, <1>9 DEF Inventory, Numbered, AllWhole, Present, Rename, faults
  <2> QED BY <1>11, <2>1 DEF Inventory
<1> QED BY <1>1, <1>2, <1>5, <1>6, <1>12

\* A loss of power takes the last attempt at most, and only if its entry was not synced.
LEMMA LossInventory ==
  ASSUME IInv, Inventory, family = "attempt", LosePower
  PROVE  /\ Inventory'
         /\ Present(final') \subseteq Present(final)
         /\ \A n \in Present(final) : final[n].entry => n \in Present(final')
<1>1. PICK undone \in SUBSET Unsynced(final), lost \in SUBSET Exposed(final) :
         final' = [n \in Names |->
            IF final[n] = Absent \/ n \in undone THEN Absent
            ELSE Restored(final[n], n \in lost)]
  BY DEF LosePower
<1>2. final \in [Names -> Trees \cup {Absent}] /\ Numbered(final)
  BY DEF IInv, TypeOK, Inventory
<1>3. \A n \in Names : n \in Present(final') <=> n \in Present(final) \ undone
  BY <1>1, <1>2, RestoredIsTree, AbsentIsNoTree DEF Present
<1>4. Present(final') = Present(final) \ undone
  BY <1>3 DEF Present
<1>5. \A n \in Present(final') : final'[n].entry
  BY <1>1, <1>2, <1>4, RestoredIsTree DEF Present
<1>6. \A n \in Present(final) : n[1] \in Nat
  BY Ordinals DEF Present
<1>7. /\ IsFiniteSet(Present(final')) /\ Cardinality(Present(final)) \in Nat
  BY <1>2, <1>4, FS_CardinalityType, FS_Subset DEF Numbered
<1>8. \A n \in undone : n \in Present(final) /\ n[1] + 1 = Cardinality(Present(final))
  BY <1>2 DEF Unsynced, Numbered
<1>9. Numbered(final')
  <2>1. CASE undone = {}
    BY <1>2, <1>4, <1>5, <2>1, NumberedStays
  <2>2. CASE undone # {}
    <3>1. PICK last : last \in undone
      BY <2>2
    <3>2. undone = {last}
      BY <1>2, <1>6, <1>7, <1>8, <3>1 DEF Numbered
    <3>3. Cardinality(Present(final')) = Cardinality(Present(final)) - 1
      BY <1>2, <1>4, <1>8, <3>1, <3>2, FS_RemoveElement DEF Numbered
    <3>4. ASSUME NEW n \in Present(final')
          PROVE  n[1] < Cardinality(Present(final'))
      <4>1. n[1] < Cardinality(Present(final)) /\ n[1] # last[1]
        BY <1>2, <1>4, <1>8, <3>1, <3>2 DEF Numbered
      <4> QED BY <1>4, <1>6, <1>7, <1>8, <3>1, <3>3, <4>1
    <3>5. \A m, n \in Present(final') : m[1] = n[1] => m = n
      BY <1>2, <1>4 DEF Numbered
    <3> QED BY <1>5, <1>7, <3>4, <3>5 DEF Numbered
  <2> QED BY <2>1, <2>2
<1>10. \A q \in Publishers : Plans(q)'
  BY NothingPlanned DEF LosePower
<1>11. losses' # 0
  BY BoundsAssumption DEF IInv, TypeOK, LosePower
<1>12. Inventory'
  <2>1. Numbered(final)'
    BY <1>9 DEF Numbered, Present
  <2> QED BY <1>10, <1>11, <2>1 DEF Inventory
<1>13. \A n \in Present(final) : final[n].entry => n \in Present(final')
  BY <1>4 DEF Unsynced
<1> QED BY <1>4, <1>12, <1>13

\* What a step of a publisher does to the attempts: the rename adds one, nothing else does.
LEMMA OperationInventory ==
  ASSUME IInv, Inventory, family = "attempt", NEW p \in Publishers,
         Operation(p) \/ Interrupt(p)
  PROVE  Inventory' /\ (Rename(p) \/ Present(final') = Present(final))
<1>1. ~ OpenQualification(p) /\ ~ Check(p) /\ ~ Reuse(p) /\ ~ Dispose(p)
  BY DEF OpenQualification, Check, Reuse, Dispose, Inventory, Plans
<1>2. CASE Rename(p)
  BY <1>2, RenameInventory
<1>3. CASE OpenAttempt(p) \/ SyncFinal(p)
  BY <1>3, CountedInventory, SyncFinalInventory
<1>4. CASE \/ Acquire(p) \/ StagingExists(p) \/ Discard(p) \/ Create(p) \/ Write(p)
           \/ SyncFiles(p) \/ SyncTree(p) \/ SyncStaging(p) \/ SyncSource(p) \/ Confirm(p)
           \/ Interrupt(p)
  BY <1>4, QuietInventory
<1> QED BY <1>1, <1>2, <1>3, <1>4 DEF Operation

\* The inventory is kept by every step.
LEMMA InventoryKeeps == IInv /\ Inventory /\ [Next]_vars => Inventory'
<1> SUFFICES ASSUME IInv, Inventory, [Next]_vars PROVE Inventory'
  OBVIOUS
<1>1. family' = family
  BY DEF Next, vars, LosePower, Operation, Interrupt, Acquire, OpenQualification, OpenAttempt,
         StagingExists, Discard, Create, Write, SyncFiles, Check, Reuse, Dispose, SyncTree,
         SyncStaging, Rename, SyncFinal, SyncSource, Confirm
<1>2. CASE family # "attempt"
  BY <1>1, <1>2 DEF Inventory
<1>3. CASE family = "attempt" /\ Next
  BY <1>3, LossInventory, OperationInventory DEF Next
<1>4. CASE UNCHANGED vars
  BY <1>4 DEF vars, Inventory, Numbered, AllWhole, Plans, Present
<1> QED BY <1>2, <1>3, <1>4

\* A store without attempts is numbered.
LEMMA InventoryInit == Init => Inventory
<1> SUFFICES ASSUME Init PROVE Inventory
  OBVIOUS
<1>1. Present(final) = {}
  BY DEF Init, Present
<1>2. Numbered(final) /\ AllWhole(final)
  BY <1>1, FS_EmptySet DEF Numbered, AllWhole
<1>3. \A p \in Publishers : Plans(p)
  BY DEF Init, Plans, Working
<1> QED BY <1>2, <1>3 DEF Inventory

\* The inventory of a reachable store.
LEMMA InventoryHolds == Spec => [](IInv /\ Inventory)
<1>1. IInv /\ Inventory /\ [Next]_vars => (IInv /\ Inventory)'
  BY StepKeeps, InventoryKeeps
<1> QED BY <1>1, InitHolds, InventoryInit, PTL DEF Spec

\* The attempts are numbered without a gap, for ever, and readable until the power is
\* lost: append_attempt_darwin never locks itself out.
THEOREM InventorySafety == Spec => []InventoryStaysReadable
<1>1. Inventory => InventoryStaysReadable
  BY DEF Inventory, Numbered, AllWhole, InventoryStaysReadable, Readable
<1> QED BY <1>1, InventoryHolds, PTL

-----------------------------------------------------------------------------
(* The attempts implement RecordLog.                                        *)

\* The contents of the attempts at ordinal i.
At(place, i) == {n[2] : n \in {m \in Present(place) : m[1] = i}}

Journal(place) == [i \in 1 .. Cardinality(Present(place)) |-> At(place, i - 1)]

\* The ordinals up to the last attempt that a caller was told of.
Promised(names) == {i \in 0 .. MaxAttempts - 1 : \E n \in names : i <= n[1]}

\* The log is a sequence as long as the inventory.
LEMMA JournalIsSeq ==
  ASSUME NEW f, IsFiniteSet(Present(f))
  PROVE  /\ Cardinality(Present(f)) \in Nat
         /\ Journal(f) \in Seq(SUBSET {n[2] : n \in Names})
         /\ Len(Journal(f)) = Cardinality(Present(f))
         /\ \A i \in 1 .. Cardinality(Present(f)) : Journal(f)[i] = At(f, i - 1)
<1> DEFINE k == Cardinality(Present(f))  S == SUBSET {n[2] : n \in Names}
<1>1. k \in Nat
  BY FS_CardinalityType
<1>2. \A i \in 1 .. k : At(f, i - 1) \in S
  BY DEF At, Present
<1> HIDE DEF k, S
<1>3. Journal(f) \in [1 .. k -> S]
  BY <1>2 DEF Journal, k
<1>4. Journal(f) \in Seq(S) /\ Len(Journal(f)) = k
  BY <1>1, <1>3
<1>5. \A i \in 1 .. k : Journal(f)[i] = At(f, i - 1)
  BY DEF Journal, k
<1> QED BY <1>1, <1>4, <1>5 DEF k, S

\* The promised ordinals are those of attempts that are present.
LEMMA PromisedArePresent ==
  ASSUME NEW f, Numbered(f), NEW names, names \subseteq Present(f)
  PROVE  /\ IsFiniteSet(Promised(names)) /\ Cardinality(Promised(names)) \in Nat
         /\ Cardinality(Promised(names)) <= Cardinality(Present(f))
<1> DEFINE k == Cardinality(Present(f))
<1>1. k \in Nat
  BY FS_CardinalityType DEF Numbered
<1>2. \A n \in names : n[1] \in Nat /\ n[1] < k
  BY Ordinals DEF Numbered, Present
<1>3. Promised(names) \subseteq 0 .. (k - 1)
  BY <1>1, <1>2, MaxAttemptsAssumption DEF Promised
<1>4. IsFiniteSet(0 .. (k - 1)) /\ Cardinality(0 .. (k - 1)) = k
  <2>1. /\ IsFiniteSet(0 .. (k - 1))
        /\ Cardinality(0 .. (k - 1)) = IF 0 > k - 1 THEN 0 ELSE k - 1 - 0 + 1
    BY <1>1, FS_Interval
  <2> QED BY <1>1, <2>1
<1>5. /\ IsFiniteSet(Promised(names))
      /\ Cardinality(Promised(names)) <= Cardinality(0 .. (k - 1))
  BY <1>3, <1>4, FS_Subset
<1> QED BY <1>1, <1>4, <1>5, FS_CardinalityType

\* More promises are at least as many ordinals.
LEMMA PromisesGrow ==
  ASSUME NEW f, Numbered(f), NEW fewer, NEW more, fewer \subseteq more, more \subseteq Present(f)
  PROVE  Cardinality(Promised(fewer)) <= Cardinality(Promised(more))
<1>1. Promised(fewer) \subseteq Promised(more)
  BY DEF Promised
<1>2. IsFiniteSet(Promised(more))
  BY PromisedArePresent
<1> QED BY <1>1, <1>2, FS_Subset

\* The attempt at the next ordinal extends the log by its contents.
LEMMA JournalExtends ==
  ASSUME NEW f, NEW g, Numbered(f), NEW n \in Names, n[1] = Cardinality(Present(f)),
         Present(g) = Present(f) \cup {n}, Cardinality(Present(g)) = Cardinality(Present(f)) + 1,
         IsFiniteSet(Present(g))
  PROVE  Journal(g) = Append(Journal(f), {n[2]})
<1> DEFINE k == Cardinality(Present(f))  S == SUBSET {m[2] : m \in Names}
<1>1. k \in Nat /\ Journal(f) \in Seq(S) /\ Len(Journal(f)) = k
      /\ \A i \in 1 .. k : Journal(f)[i] = At(f, i - 1)
  BY JournalIsSeq DEF Numbered
<1>2. Journal(g) \in Seq(S) /\ Len(Journal(g)) = k + 1
      /\ \A i \in 1 .. k + 1 : Journal(g)[i] = At(g, i - 1)
  BY JournalIsSeq
<1>3. \A m \in Present(f) : m[1] \in Nat /\ m[1] < k
  BY Ordinals DEF Numbered, Present
<1>4. \A i \in 1 .. k : At(g, i - 1) = At(f, i - 1)
  BY <1>1 DEF At
<1>5. At(g, k) = {n[2]}
  BY <1>1, <1>3 DEF At
<1>6. {n[2]} \in S
  OBVIOUS
<1> HIDE DEF k, S
<1>7. /\ Append(Journal(f), {n[2]}) \in Seq(S) /\ Len(Append(Journal(f), {n[2]})) = k + 1
      /\ \A i \in 1 .. k : Append(Journal(f), {n[2]})[i] = Journal(f)[i]
      /\ Append(Journal(f), {n[2]})[k + 1] = {n[2]}
  BY <1>1, <1>6
<1>8. \A i \in 1 .. k + 1 : Journal(g)[i] = Append(Journal(f), {n[2]})[i]
  <2> SUFFICES ASSUME NEW i \in 1 .. k + 1
               PROVE  Journal(g)[i] = Append(Journal(f), {n[2]})[i]
    OBVIOUS
  <2>1. CASE i \in 1 .. k
    BY <1>1, <1>2, <1>4, <1>7, <2>1
  <2>2. CASE i = k + 1
    <3>1. Journal(g)[i] = At(g, i - 1)
      BY <1>2
    <3>2. i - 1 = k
      BY <1>1, <2>2
    <3>3. Journal(g)[i] = {n[2]}
      BY <1>5, <3>1, <3>2
    <3> QED BY <1>7, <2>2, <3>3
  <2> QED BY <1>1, <2>1, <2>2
<1> QED BY <1>2, <1>7, <1>8, SeqEqual

\* Numbered attempts take every ordinal below their number.
LEMMA FullOrdinals ==
  ASSUME NEW g, Numbered(g)
  PROVE  \A i \in 0 .. Cardinality(Present(g)) - 1 : \E n \in Present(g) : n[1] = i
<1> DEFINE k == Cardinality(Present(g))  ordinal == [n \in Present(g) |-> n[1]]
<1>1. k \in Nat
  BY FS_CardinalityType DEF Numbered
<1>2. \A n \in Present(g) : n[1] \in 0 .. k - 1
  <2>1. \A n \in Present(g) : n[1] \in Nat /\ n[1] < k
    BY Ordinals DEF Numbered, Present
  <2> QED BY <1>1, <2>1
<1>3. IsFiniteSet(0 .. k - 1) /\ Cardinality(0 .. k - 1) = k
  <2>1. /\ IsFiniteSet(0 .. k - 1)
        /\ Cardinality(0 .. k - 1) = IF 0 > k - 1 THEN 0 ELSE k - 1 - 0 + 1
    BY <1>1, FS_Interval
  <2> QED BY <1>1, <2>1
<1>4. ordinal \in Injection(Present(g), 0 .. k - 1)
  <2>1. ordinal \in [Present(g) -> 0 .. k - 1]
    BY <1>2
  <2>2. \A m, n \in Present(g) : ordinal[m] = ordinal[n] => m = n
    BY DEF Numbered
  <2> QED BY <2>1, <2>2 DEF Injection, IsInjective
<1>5. ordinal \in Surjection(Present(g), 0 .. k - 1)
  BY <1>3, <1>4, FS_Injection DEF Numbered
<1>6. \A i \in 0 .. k - 1 : \E n \in Present(g) : ordinal[n] = i
  BY <1>5 DEF Surjection
<1> QED BY <1>6

\* What is left of the attempts is a prefix of the log.
LEMMA JournalShrinks ==
  ASSUME NEW f, NEW g, Numbered(f), Numbered(g), Present(g) \subseteq Present(f)
  PROVE  /\ Cardinality(Present(g)) <= Cardinality(Present(f))
         /\ Journal(g) = SubSeq(Journal(f), 1, Cardinality(Present(g)))
<1> DEFINE k == Cardinality(Present(f))  j == Cardinality(Present(g))
           S == SUBSET {m[2] : m \in Names}
<1>1. /\ k \in Nat /\ Journal(f) \in Seq(S) /\ Len(Journal(f)) = k
      /\ \A i \in 1 .. k : Journal(f)[i] = At(f, i - 1)
  BY JournalIsSeq DEF Numbered
<1>2. /\ j \in Nat /\ Journal(g) \in Seq(S) /\ Len(Journal(g)) = j
      /\ \A i \in 1 .. j : Journal(g)[i] = At(g, i - 1)
  BY JournalIsSeq DEF Numbered
<1>3. j <= k
  BY FS_Subset DEF Numbered
\* The ordinals of the remaining attempts are the first j ones: each of them is taken.
<1>4. \A i \in 0 .. j - 1 : \E n \in Present(g) : n[1] = i
  BY FullOrdinals
<1>5. \A i \in 0 .. j - 1 : At(g, i) = At(f, i)
  BY <1>4 DEF Numbered, At
<1> HIDE DEF k, j, S
<1>6. /\ SubSeq(Journal(f), 1, j) \in Seq(S) /\ Len(SubSeq(Journal(f), 1, j)) = j
      /\ \A i \in 1 .. j : SubSeq(Journal(f), 1, j)[i] = Journal(f)[i]
  BY <1>1, <1>2, <1>3, SubSeqProperties
<1>7. \A i \in 1 .. j : Journal(g)[i] = SubSeq(Journal(f), 1, j)[i]
  <2> SUFFICES ASSUME NEW i \in 1 .. j PROVE Journal(g)[i] = SubSeq(Journal(f), 1, j)[i]
    OBVIOUS
  <2>1. i \in 1 .. k /\ i - 1 \in 0 .. j - 1
    BY <1>1, <1>2, <1>3
  <2>2. Journal(g)[i] = At(g, i - 1) /\ Journal(f)[i] = At(f, i - 1)
    BY <1>1, <1>2, <2>1
  <2>3. At(g, i - 1) = At(f, i - 1)
    BY <1>5, <2>1
  <2> QED BY <1>6, <2>2, <2>3
<1>8. Journal(g) = SubSeq(Journal(f), 1, j)
  BY <1>2, <1>6, <1>7, SeqEqual
<1> QED BY <1>3, <1>8 DEF k, j


\* The log and what is settled of it, as they are defined on the store.
LEMMA LogIsJournal ==
  /\ family = "attempt" => Log = Journal(final) /\ Settled = Cardinality(Promised(told))
  /\ family # "attempt" => Log = <<>> /\ Settled = 0
BY DEF Log, Settled, Journal, Promised, At

\* The same in the next state.
LEMMA LogIsJournalNext ==
  /\ family' = "attempt" => Log' = Journal(final') /\ Settled' = Cardinality(Promised(told'))
  /\ family' # "attempt" => Log' = <<>> /\ Settled' = 0
BY DEF Log, Settled, Journal, Promised, At, Present

\* The same attempts are the same log.
LEMMA SameJournal ==
  ASSUME NEW f, NEW g, Present(f) = Present(g)
  PROVE  Journal(f) = Journal(g)
BY DEF Journal, At

\* Nobody but the publisher that confirms, and a reuse of other families, tells a caller.
LEMMA AttemptTells ==
  ASSUME IInv, Inventory, family = "attempt", NEW p \in Publishers,
         Operation(p) \/ Interrupt(p)
  PROVE  Confirm(p) \/ told' = told
BY DEF Operation, Interrupt, Acquire, OpenQualification, OpenAttempt, StagingExists, Discard,
       Create, Write, SyncFiles, Check, Reuse, Dispose, SyncTree, SyncStaging, Rename, SyncFinal,
       SyncSource, Inventory, Plans

\* A step of the abstract log, or none.
LogStep == [AttemptLog!Extend \/ AttemptLog!Settle \/ AttemptLog!Lose]_<<Log, Settled>>

\* An operation of the other families is no step of the log.
LEMMA OtherFamilies ==
  ASSUME family # "attempt", family' = family
  PROVE  LogStep
BY LogIsJournal, LogIsJournalNext DEF LogStep

\* A rename appends the contents of the tree.
LEMMA RenameExtends ==
  ASSUME IInv, Inventory, family = "attempt", NEW p \in Publishers, Rename(p)
  PROVE  LogStep
<1> DEFINE n == name[p]
<1>1. /\ Numbered(final)' /\ n \in Names /\ n[1] = Cardinality(Present(final))
      /\ Present(final') = Present(final) \cup {n}
      /\ Cardinality(Present(final')) = Cardinality(Present(final)) + 1
      /\ Numbered(final) /\ family' = family /\ told' = told
  BY RenameInventory DEF Inventory, Rename
<1>2. IsFiniteSet(Present(final'))
  BY <1>1, FS_AddElement DEF Numbered
<1> HIDE DEF n
<1>3. Log' = Append(Log, {n[2]})
  BY <1>1, <1>2, JournalExtends, LogIsJournal, LogIsJournalNext
<1>4. Settled' = Settled
  BY <1>1, LogIsJournal, LogIsJournalNext
<1>5. {n[2]} \in {{c} : c \in Contents}
  BY <1>1 DEF Names
<1>6. Len(Log) < MaxAttempts
  <2>1. Len(Log) = Cardinality(Present(final))
    BY <1>1, JournalIsSeq, LogIsJournal DEF Numbered
  <2>2. n[1] < MaxAttempts
    BY <1>1, Ordinals
  <2> QED BY <1>1, <2>1, <2>2
<1> QED BY <1>3, <1>4, <1>5, <1>6 DEF LogStep, AttemptLog!Extend

\* A caller who is told of an attempt settles it and the attempts before it.
LEMMA ConfirmSettles ==
  ASSUME IInv, Inventory, family = "attempt", NEW p \in Publishers, Confirm(p)
  PROVE  LogStep
<1>1. /\ Numbered(final) /\ final' = final /\ family' = family
      /\ told \subseteq told' /\ IInv'
  BY ConfirmKeeps DEF Inventory, Confirm, disk
<1>2. told' \subseteq Present(final)
  BY <1>1 DEF IInv, ToldIsKept, TypeOK, Present
<1>3. /\ Cardinality(Promised(told)) \in Nat /\ Cardinality(Promised(told')) \in Nat
      /\ Cardinality(Promised(told')) <= Cardinality(Present(final))
      /\ Cardinality(Promised(told)) <= Cardinality(Promised(told'))
  <2>1. told \subseteq Present(final)
    BY <1>1, <1>2
  <2> QED BY <1>1, <1>2, <2>1, PromisedArePresent, PromisesGrow
<1>4. Log' = Log /\ Len(Log) = Cardinality(Present(final))
  BY <1>1, LogIsJournal, LogIsJournalNext, JournalIsSeq DEF Numbered
<1>5. CASE Settled' = Settled
  BY <1>4, <1>5 DEF LogStep
<1>6. CASE Settled' # Settled
  <2>1. Settled = Cardinality(Promised(told)) /\ Settled' = Cardinality(Promised(told'))
    BY <1>1, LogIsJournal, LogIsJournalNext
  <2>2. Cardinality(Present(final)) \in Nat
    BY <1>1, FS_CardinalityType DEF Numbered
  <2>3. Settled' \in Settled + 1 .. Len(Log)
    BY <1>3, <1>4, <1>6, <2>1, <2>2
  <2> QED BY <1>4, <2>3 DEF LogStep, AttemptLog!Settle
<1> QED BY <1>5, <1>6

\* A loss of power leaves a prefix that has everything settled in it.
LEMMA LossLoses ==
  ASSUME IInv, Inventory, family = "attempt", LosePower
  PROVE  LogStep
<1>1. /\ Numbered(final) /\ Numbered(final') /\ Present(final') \subseteq Present(final)
      /\ family' = family /\ told' = told
  <2>1. Inventory' /\ family' = family /\ told' = told
    BY LossInventory DEF LosePower
  <2>2. Numbered(final)'
    BY <2>1 DEF Inventory
  <2> QED BY <2>1, <2>2, LossInventory DEF Inventory, Numbered, Present
<1>2. told \subseteq Present(final')
  <2>1. \A n \in told : n \in Present(final) /\ final[n].entry
    BY DEF IInv, ToldIsKept, TypeOK, Present
  <2> QED BY <2>1, LossInventory
<1> DEFINE kept == Cardinality(Present(final'))
<1>3. /\ kept \in Nat /\ Cardinality(Present(final)) \in Nat
      /\ kept <= Cardinality(Present(final))
      /\ Journal(final') = SubSeq(Journal(final), 1, kept)
  BY <1>1, JournalShrinks, FS_CardinalityType DEF Numbered
<1>4. Cardinality(Promised(told)) \in Nat /\ Cardinality(Promised(told)) <= kept
  BY <1>1, <1>2, PromisedArePresent
<1>5. Len(Log) = Cardinality(Present(final))
  BY <1>1, LogIsJournal, JournalIsSeq DEF Numbered
<1> HIDE DEF kept
<1>6. /\ Log' = SubSeq(Log, 1, kept) /\ Settled' = Settled
      /\ Settled = Cardinality(Promised(told))
  BY <1>1, <1>3, LogIsJournal, LogIsJournalNext
<1>7. kept \in Settled .. Len(Log)
  BY <1>3, <1>4, <1>5, <1>6
<1> QED BY <1>6, <1>7 DEF LogStep, AttemptLog!Lose

\* Every step of the store is a step of the log or leaves it as it is.
LEMMA StepIsLogStep == IInv /\ Inventory /\ [Next]_vars => LogStep
<1> SUFFICES ASSUME IInv, Inventory, [Next]_vars PROVE LogStep
  OBVIOUS
<1>1. family' = family
  BY DEF Next, vars, LosePower, Operation, Interrupt, Acquire, OpenQualification, OpenAttempt,
         StagingExists, Discard, Create, Write, SyncFiles, Check, Reuse, Dispose, SyncTree,
         SyncStaging, Rename, SyncFinal, SyncSource, Confirm
<1>2. CASE family # "attempt"
  BY <1>1, <1>2, OtherFamilies
<1>3. CASE family = "attempt"
  <2>1. CASE LosePower
    BY <1>3, <2>1, LossLoses
  <2>2. ASSUME NEW p \in Publishers, Operation(p) \/ Interrupt(p) PROVE LogStep
    <3>1. CASE Rename(p)
      BY <1>3, <3>1, RenameExtends
    <3>2. CASE Confirm(p)
      BY <1>3, <3>2, ConfirmSettles
    <3>3. CASE ~ Rename(p) /\ ~ Confirm(p)
      <4>1. Present(final') = Present(final) /\ told' = told
        BY <1>3, <2>2, <3>3, OperationInventory, AttemptTells
      <4>2. Log' = Log /\ Settled' = Settled
        BY <1>1, <1>3, <4>1, SameJournal, LogIsJournal, LogIsJournalNext
      <4> QED BY <4>2 DEF LogStep
    <3> QED BY <3>1, <3>2, <3>3
  <2>3. CASE UNCHANGED vars
    <3>1. Log' = Log /\ Settled' = Settled
      BY <2>3 DEF vars, Log, Settled, Present
    <3> QED BY <3>1 DEF LogStep
  <2> QED BY <2>1, <2>2, <2>3 DEF Next
<1> QED BY <1>2, <1>3

\* A store without attempts is the empty log.
LEMMA EmptyLog == Init => AttemptLog!Init
<1> SUFFICES ASSUME Init PROVE Log = <<>> /\ Settled = 0
  BY DEF AttemptLog!Init
<1>1. Present(final) = {} /\ told = {}
  BY DEF Init, Present
<1>2. CASE family # "attempt"
  BY <1>2, LogIsJournal
<1>3. CASE family = "attempt"
  <2>1. Cardinality(Present(final)) = 0 /\ IsFiniteSet(Present(final))
    BY <1>1, FS_EmptySet
  <2>2. Promised(told) = {}
    BY <1>1 DEF Promised
  <2>3. Settled = 0
    BY <1>3, <2>2, FS_EmptySet, LogIsJournal
  <2>4. Len(Journal(final)) = 0 /\ Journal(final) \in Seq(SUBSET {n[2] : n \in Names})
    BY <2>1, JournalIsSeq
  <2>5. Journal(final) = <<>>
    BY <2>4, EmptySeq
  <2> QED BY <1>3, <2>3, <2>5, LogIsJournal
<1> QED BY <1>2, <1>3

\* append_attempt_darwin implements an append-only log: a publisher appends one record
\* after the others, the records up to the last one that a caller was told of are never
\* lost, replaced or renumbered, and a power loss takes at most a suffix after them.
THEOREM StoreImplementsLog == Spec => ImplementsLog
<1>1. Init => AttemptLog!Init
  BY EmptyLog
<1>2. IInv /\ Inventory /\ [Next]_vars =>
        [AttemptLog!Extend \/ AttemptLog!Settle \/ AttemptLog!Lose]_(AttemptLog!logVars)
  BY StepIsLogStep DEF LogStep, AttemptLog!logVars
<1> QED BY <1>1, <1>2, InventoryHolds, PTL DEF Spec, ImplementsLog, AttemptLog!Spec
=============================================================================
