---------------------------- MODULE RuntimeStore ----------------------------
(***************************************************************************)
(* The filesystem store of checker-runtime on macOS: the publication of a  *)
(* slot (store.rs) and of a qualification or an attempt (store/evidence.rs)*)
(* by processes that share the store, die at any step and lose the power.  *)
(*                                                                         *)
(* The three families write disjoint directories under disjoint locks, so  *)
(* a behaviour is about one of them, chosen in Init, and about one lock:   *)
(* one target for slots, one registration for evidence.  A published       *)
(* directory is a tree; what is written in it is a function of the name it *)
(* is published under, so a tree is only partial (some file missing, short *)
(* or damaged: verification refuses it) or whole.                          *)
(*                                                                         *)
(* A write, a mkdir or a rename reaches the page cache at once, where every*)
(* process sees it, and the medium with the sync that covers it:           *)
(*   files   the contents of the files, by full_sync of each file (and the *)
(*           entries of a qualification's companions/, synced with them);  *)
(*   listed  the entries of the tree, by full_sync of its directories;     *)
(*   entry   the tree's own place, by full_sync of the parent.             *)
(* full_sync of a directory does not write the data of the files in it.    *)
(***************************************************************************)
EXTENDS Naturals, FiniteSets, Functions

CONSTANTS Publishers, Contents, MaxAttempts, Families, Interruptions,
          PowerLosses, None

ASSUME MaxAttemptsAssumption == MaxAttempts \in Nat \ {0}
ASSUME FamiliesAssumption == Families \subseteq {"slot", "qualification", "attempt"}
ASSUME BoundsAssumption == Interruptions \in Nat /\ PowerLosses \in Nat

\* An ordinal and a digest.  Slots and qualifications have ordinal 0; the
\* names of slot staging directories are transactions, drawn from Contents.
Names == (0 .. MaxAttempts - 1) \X Contents

Absent == [data |-> "absent"]

ASSUME NoneAssumption == None \notin Publishers \cup Names

Trees == [data : {"partial", "whole"}, files : BOOLEAN, listed : BOOLEAN,
          entry : BOOLEAN, from : Names]

Labels == {"idle", "open", "discard", "create", "write", "files", "check",
           "reuse", "dispose", "tree", "staging", "rename", "final", "source",
           "confirm"}

VARIABLES
  family,        \* which operation this behaviour is about
  lock,          \* the process that holds the target or registration lock
  staged,        \* the staging parent: name -> tree or Absent
  final,         \* the final parent: name -> tree or Absent
  pc,            \* the next step of each publisher's operation
  key,           \* the staging name each publisher works under
  name,          \* the final name each publisher works for
  told,          \* names that a caller was told are published
  interruptions, losses

vars == <<family, lock, staged, final, pc, key, name, told, interruptions, losses>>
disk == <<staged, final>>
faults == <<interruptions, losses>>

Init ==
  /\ family \in Families
  /\ lock = None
  /\ staged = [n \in Names |-> Absent]
  /\ final = [n \in Names |-> Absent]
  /\ pc = [p \in Publishers |-> "idle"]
  /\ key = [p \in Publishers |-> None] /\ name = [p \in Publishers |-> None]
  /\ told = {}
  /\ interruptions = 0 /\ losses = 0

Present(place) == {n \in Names : place[n] # Absent}

Whole(tree) == tree # Absent /\ tree.data = "whole"

\* full_sync of a parent directory: the entries in it are on the medium.
Synced(place) ==
  [n \in Names |-> IF place[n] = Absent THEN Absent
                   ELSE [place[n] EXCEPT !.entry = TRUE]]

Goto(p, label) == pc' = [pc EXCEPT ![p] = label]

\* The operation ends, with a result or an error, and drops its lock.
Return(p) ==
  /\ Goto(p, "idle")
  /\ lock' = None
  /\ key' = [key EXCEPT ![p] = None] /\ name' = [name EXCEPT ![p] = None]

-----------------------------------------------------------------------------
(* One operation of publisher p *)

\* try_lock.  A busy lock is an error that changes nothing: the call is not
\* a step.  A slot publisher names its transaction and its record.
Acquire(p) ==
  /\ pc[p] = "idle"
  /\ lock = None
  /\ lock' = p
  /\ \E t, c \in Contents :
       /\ family # "slot" => t = c
       /\ key' = [key EXCEPT ![p] = <<0, t>>]
       /\ name' = [name EXCEPT ![p] = <<0, c>>]
  /\ Goto(p, IF family = "slot" THEN "create" ELSE "open")
  /\ UNCHANGED <<family, disk, told, faults>>

\* The attempts in the final parent are numbered from 0 without a gap and
\* each of them parses; otherwise every append fails.
Readable ==
  /\ \A n \in Present(final) : final[n].data = "whole"
  /\ \A n \in Present(final) : n[1] < Cardinality(Present(final))
  /\ \A m, n \in Present(final) : m[1] = n[1] => m = n

\* What the staging name holds: a whole tree is taken as it is.
Resume(p, n) ==
  IF staged[n] = Absent THEN Goto(p, "create")
  ELSE IF Whole(staged[n]) THEN Goto(p, "tree") ELSE Goto(p, "discard")

OpenParentsUnsynced == UNCHANGED disk   \* mutant: the chains are only opened

\* darwin_evidence_parent syncs both chains down to the two parents.
OpenParents == staged' = Synced(staged) /\ final' = Synced(final)

OpenQualification(p) ==
  /\ family = "qualification" /\ pc[p] = "open"
  /\ OpenParents
  /\ IF final[name[p]] = Absent
     THEN Resume(p, key[p]) /\ UNCHANGED <<lock, key, name, told>>
     ELSE /\ Return(p)                          \* qualification-exists
          /\ told' = told \cup {n \in {name[p]} : Whole(final[n])}
  /\ UNCHANGED <<family, faults>>

OpenAttempt(p) ==
  /\ family = "attempt" /\ pc[p] = "open"
  /\ LET n == <<Cardinality(Present(final)), name[p][2]>>
     IN IF Readable /\ n \in Names
        THEN /\ OpenParents
             /\ key' = [key EXCEPT ![p] = n]
             /\ name' = [name EXCEPT ![p] = n]
             /\ Resume(p, n)
             /\ UNCHANGED lock
        ELSE \* the staging parent is not reached
             /\ final' = Synced(final) /\ UNCHANGED staged
             /\ Return(p)
  /\ UNCHANGED <<family, told, faults>>

\* Slots: staging-exists.  The caller discards what is left of the earlier
\* transaction of that name (discard_owned_staging), or gives up (Interrupt).
StagingExists(p) ==
  /\ pc[p] = "create"
  /\ staged[key[p]] # Absent
  /\ Goto(p, "discard")
  /\ UNCHANGED <<family, lock, disk, key, name, told, faults>>

\* Emptied, removed and the staging parent synced: a crash in between leaves
\* a partial tree or none, which the next operation handles alike.
Discard(p) ==
  /\ pc[p] = "discard"
  /\ staged' = Synced([staged EXCEPT ![key[p]] = Absent])
  /\ Goto(p, "create")
  /\ UNCHANGED <<family, lock, final, key, name, told, faults>>

Create(p) ==
  /\ pc[p] = "create"
  /\ staged[key[p]] = Absent
  /\ staged' = [staged EXCEPT ![key[p]] =
       [data |-> "partial", files |-> FALSE, listed |-> FALSE,
        entry |-> FALSE, from |-> key[p]]]
  /\ Goto(p, "write")
  /\ UNCHANGED <<family, lock, final, key, name, told, faults>>

\* write_all: every file is complete in the page cache.
Write(p) ==
  /\ pc[p] = "write"
  /\ staged' = [staged EXCEPT ![key[p]].data = "whole"]
  /\ Goto(p, "files")
  /\ UNCHANGED <<family, lock, final, key, name, told, faults>>

SyncFiles(p) ==
  /\ pc[p] = "files"
  /\ staged' = [staged EXCEPT ![key[p]].files = TRUE]
  /\ Goto(p, IF family = "slot" THEN "check" ELSE "tree")
  /\ UNCHANGED <<family, lock, final, key, name, told, faults>>

CheckSkipped(p) ==              \* mutant: the rename is exclusive anyway
  /\ pc[p] = "check"
  /\ Goto(p, "tree")
  /\ UNCHANGED <<family, lock, disk, key, name, told, faults>>

\* verify_owned_staging and the look at the destination.
Check(p) ==
  /\ pc[p] = "check"
  /\ IF final[name[p]] # Absent /\ ~ Whole(final[name[p]])
     THEN Return(p)
     ELSE /\ Goto(p, IF final[name[p]] = Absent THEN "tree" ELSE "reuse")
          /\ UNCHANGED <<lock, key, name>>
  /\ UNCHANGED <<family, disk, told, faults>>

\* The destination is the same slot: its parent is synced before the caller
\* is told, whoever renamed it.
ReuseUnsynced(p) ==             \* mutant: reused as it is found
  /\ pc[p] = "reuse"
  /\ Goto(p, "dispose")
  /\ UNCHANGED <<family, lock, disk, key, name, told, faults>>

Reuse(p) ==
  /\ pc[p] = "reuse"
  /\ final' = Synced(final)
  /\ Goto(p, "dispose")
  /\ UNCHANGED <<family, lock, staged, key, name, told, faults>>

Dispose(p) ==
  /\ pc[p] = "dispose"
  /\ staged' = Synced([staged EXCEPT ![key[p]] = Absent])
  /\ told' = told \cup {name[p]}
  /\ Return(p)
  /\ UNCHANGED <<family, final, faults>>

\* The directories of the tree, not the files in them (DarwinEntry::File).
SyncTree(p) ==
  /\ pc[p] = "tree"
  /\ staged' = [staged EXCEPT ![key[p]].listed = TRUE]
  /\ Goto(p, "staging")
  /\ UNCHANGED <<family, lock, final, key, name, told, faults>>

\* The staging parent; for a slot the chain of the final parent as well.
SyncStaging(p) ==
  /\ pc[p] = "staging"
  /\ staged' = Synced(staged)
  /\ final' = IF family = "slot" THEN Synced(final) ELSE final
  /\ Goto(p, "rename")
  /\ UNCHANGED <<family, lock, key, name, told, faults>>

\* rename_directory_exclusive.  Its AlreadyExists branch is never reached:
\* DestinationStaysAbsent.
Rename(p) ==
  /\ pc[p] = "rename"
  /\ final[name[p]] = Absent
  /\ final' = [final EXCEPT ![name[p]] = [staged[key[p]] EXCEPT !.entry = FALSE]]
  /\ staged' = [staged EXCEPT ![key[p]] = Absent]
  /\ Goto(p, "final")
  /\ UNCHANGED <<family, lock, key, name, told, faults>>

SyncFinalSkipped(p) ==          \* mutant: only the staging parent is synced
  /\ pc[p] = "final"
  /\ Goto(p, "source")
  /\ UNCHANGED <<family, lock, disk, key, name, told, faults>>

SyncFinal(p) ==
  /\ pc[p] = "final"
  /\ final' = Synced(final)
  /\ Goto(p, "source")
  /\ UNCHANGED <<family, lock, staged, key, name, told, faults>>

SyncSource(p) ==
  /\ pc[p] = "source"
  /\ staged' = Synced(staged)
  /\ Goto(p, "confirm")
  /\ UNCHANGED <<family, lock, final, key, name, told, faults>>

\* The published tree is opened and verified again; then the caller is told.
Confirm(p) ==
  /\ pc[p] = "confirm"
  /\ told' = told \cup {n \in {name[p]} : Whole(final[n])}
  /\ Return(p)
  /\ UNCHANGED <<family, disk, faults>>

-----------------------------------------------------------------------------
(* Faults *)

\* A call fails and its error is returned, or the process dies: the lock is
\* dropped, the page cache stays.
Interrupt(p) ==
  /\ pc[p] # "idle"
  /\ interruptions < Interruptions
  /\ interruptions' = interruptions + 1
  /\ Return(p)
  /\ UNCHANGED <<family, disk, told, losses>>

Unsynced(place) == {n \in Present(place) : ~ place[n].entry}

Exposed(place) == {n \in Present(place) : ~ (place[n].files /\ place[n].listed)}

\* What the medium holds of a tree after the power is back.
Restored(tree, damaged) ==
  [tree EXCEPT !.data = IF damaged THEN "partial" ELSE tree.data,
               !.files = TRUE, !.listed = TRUE, !.entry = TRUE]

\* The power goes.  A rename that was not synced is undone or not, a staging
\* directory whose entry was not synced is gone or not, a tree whose files or
\* entries were not synced is damaged or not.
LosePower ==
  /\ losses < PowerLosses
  /\ losses' = losses + 1
  /\ \E undone \in SUBSET Unsynced(final), gone \in SUBSET Unsynced(staged),
        lostFinal \in SUBSET Exposed(final), lostStaged \in SUBSET Exposed(staged) :
       /\ final' = [n \in Names |->
            IF final[n] = Absent \/ n \in undone THEN Absent
            ELSE Restored(final[n], n \in lostFinal)]
       /\ staged' = [k \in Names |->
            IF \E n \in undone : final[n].from = k
            THEN LET n == CHOOSE n \in undone : final[n].from = k
                 IN Restored(final[n], n \in lostFinal)
            ELSE IF staged[k] = Absent \/ k \in gone THEN Absent
            ELSE Restored(staged[k], k \in lostStaged)]
  /\ lock' = None
  /\ pc' = [p \in Publishers |-> "idle"]
  /\ key' = [p \in Publishers |-> None] /\ name' = [p \in Publishers |-> None]
  /\ UNCHANGED <<family, told, interruptions>>

-----------------------------------------------------------------------------

Operation(p) ==
  \/ Acquire(p) \/ OpenQualification(p) \/ OpenAttempt(p)
  \/ StagingExists(p) \/ Discard(p) \/ Create(p) \/ Write(p) \/ SyncFiles(p)
  \/ Check(p) \/ Reuse(p) \/ Dispose(p)
  \/ SyncTree(p) \/ SyncStaging(p) \/ Rename(p)
  \/ SyncFinal(p) \/ SyncSource(p) \/ Confirm(p)

Next == LosePower \/ \E p \in Publishers : Operation(p) \/ Interrupt(p)

Spec == Init /\ [][Next]_vars

-----------------------------------------------------------------------------
(* Properties *)

TypeOK ==
  /\ family \in Families
  /\ lock \in Publishers \cup {None}
  /\ staged \in [Names -> Trees \cup {Absent}]
  /\ final \in [Names -> Trees \cup {Absent}]
  /\ pc \in [Publishers -> Labels]
  /\ key \in [Publishers -> Names \cup {None}]
  /\ name \in [Publishers -> Names \cup {None}]
  /\ told \subseteq Names
  /\ interruptions \in 0 .. Interruptions /\ losses \in 0 .. PowerLosses

\* Whatever a caller was told is published is there, and stays there through
\* deaths of publishers and power losses, whoever did the rename; a slot also
\* keeps its contents.  (The sync of the final parent on the reuse path of
\* publish_slot_exclusive, and in darwin_evidence_parent before a
\* qualification-exists, carry this for a rename whose publisher died.)
ToldIsKept ==
  \A n \in told :
    /\ final[n] # Absent /\ final[n].entry
    /\ family = "slot" => Whole(final[n]) /\ final[n].files /\ final[n].listed

\* Between the look at the destination and the rename nobody creates it: the
\* lock is what makes the check of publish_slot_exclusive (and the portable
\* rename, which would replace) and the ordinal of append_attempt valid.
DestinationStaysAbsent ==
  \A p \in Publishers :
    pc[p] \in {"tree", "staging", "rename"} => final[name[p]] = Absent

\* The attempts are numbered without a gap, so appends are not refused for
\* ever, and until the power is lost each of them is whole.
InventoryStaysReadable ==
  family = "attempt" =>
    /\ \A n \in Present(final) : n[1] < Cardinality(Present(final))
    /\ \A m, n \in Present(final) : m[1] = n[1] => m = n
    /\ losses = 0 => Readable

\* Success is returned only after every file of the published tree was synced
\* ("f-fullfsync-files-and-directories-before-success").
SuccessMeansSynced ==
  \A n \in told : final[n] # Absent => final[n].files

\* The attempts as a log: at each ordinal the contents published there; the
\* settled prefix ends with the last attempt that a caller was told of.
Log ==
  IF family # "attempt" THEN <<>>
  ELSE [i \in 1 .. Cardinality(Present(final)) |->
          {n[2] : n \in {m \in Present(final) : m[1] = i - 1}}]

Settled ==
  IF family # "attempt" THEN 0
  ELSE Cardinality({i \in 0 .. MaxAttempts - 1 : \E n \in told : i <= n[1]})

AttemptLog == INSTANCE RecordLog WITH
  Entries <- {{c} : c \in Contents}, Capacity <- MaxAttempts,
  log <- Log, settled <- Settled

ImplementsLog == AttemptLog!Spec
=============================================================================
