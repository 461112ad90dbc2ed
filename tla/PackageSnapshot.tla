--------------------------- MODULE PackageSnapshot ---------------------------
(* A snapshot of a package directory that others may be writing: the tree is *)
(* read whole, file after file, until two reads in a row agree.              *)
EXTENDS Integers, FiniteSets

CONSTANTS
    Absent,     \* what is not there
    Files,      \* the paths a package may have, numbered in their order
    Contents,   \* what a file may hold
    SNAPSHOT_VERIFY_RETRIES

ASSUME FilesAssumption == Files \subseteq Int
ASSUME AbsentAssumption == Absent \notin Contents
ASSUME RetriesAssumption == SNAPSHOT_VERIFY_RETRIES \in Nat

VARIABLES
    tree,       \* what each file holds; Absent for one that is not there
    retired,    \* what each file has held and holds no more
    reading,    \* "idle", "tree", and how the snapshot ended
    unlisted,   \* the paths this read has yet to look for
    unread,     \* the files it found and has yet to read
    current,    \* what it has read
    observed,   \* what the read before it read; Absent during the first
    attempt,    \* the comparisons that failed
    before      \* the tree when this read began

treeVars == <<tree, retired>>
readVars == <<reading, unlisted, unread, current, observed, attempt, before>>
snapshotVars == <<treeVars, readVars>>

Trees == [Files -> Contents \cup {Absent}]

Nothing == [f \in Files |-> Absent]

SnapshotTypeOK ==
    /\ tree \in Trees
    /\ retired \in [Files -> SUBSET (Contents \cup {Absent})]
    /\ reading \in {"idle", "tree", "done", "failed"}
    /\ unlisted \subseteq Files
    /\ unread \subseteq Files
    /\ current \in Trees
    /\ observed \in Trees \cup {Absent}
    /\ attempt \in 0..SNAPSHOT_VERIFY_RETRIES
    /\ before \in Trees

SnapshotInit ==
    /\ tree \in Trees
    /\ retired = [f \in Files |-> {}]
    /\ reading = "idle"
    /\ unlisted = {}
    /\ unread = {}
    /\ current = Nothing
    /\ observed = Absent
    /\ attempt = 0
    /\ before = tree

\* Someone writes, creates or deletes a file.  No one brings back what a file
\* held before: a change and its reversal between two reads are not seen.
Write(f, content) ==
    /\ content # tree[f]
    /\ content \notin retired[f]
    /\ tree' = [tree EXCEPT ![f] = content]
    /\ retired' = [retired EXCEPT ![f] = @ \cup {tree[f]}]
    /\ UNCHANGED readVars

\* read_package_tree starts.
BeginRead ==
    /\ unlisted' = Files
    /\ unread' = {}
    /\ current' = Nothing
    /\ before' = tree

BeginSnapshot ==
    /\ reading = "idle"
    /\ reading' = "tree"
    /\ BeginRead
    /\ UNCHANGED <<treeVars, observed, attempt>>

\* collect_content_files meets the files in any order.
ListFile(f) ==
    /\ reading = "tree"
    /\ f \in unlisted
    /\ unlisted' = unlisted \ {f}
    /\ unread' = IF tree[f] = Absent THEN unread ELSE unread \cup {f}
    /\ UNCHANGED <<treeVars, reading, current, observed, attempt, before>>

\* The files found are read in their order; one that is gone by then ends
\* the snapshot.
NextFile(f) ==
    /\ reading = "tree"
    /\ unlisted = {}
    /\ f \in unread
    /\ \A g \in unread : f <= g

ReadFile(f) ==
    /\ NextFile(f)
    /\ tree[f] # Absent
    /\ unread' = unread \ {f}
    /\ current' = [current EXCEPT ![f] = tree[f]]
    /\ UNCHANGED <<treeVars, reading, unlisted, observed, attempt, before>>

FileGone(f) ==
    /\ NextFile(f)
    /\ tree[f] = Absent
    /\ reading' = "failed"
    /\ UNCHANGED <<treeVars, unlisted, unread, current, observed, attempt, before>>

ReadComplete ==
    /\ reading = "tree"
    /\ unlisted = {}
    /\ unread = {}

\* The first read is there to be compared with the second.
FirstReadEnds ==
    /\ ReadComplete
    /\ observed = Absent
    /\ observed' = current
    /\ BeginRead
    /\ UNCHANGED <<treeVars, reading, attempt>>

\* A mistake to detect: two reads agree when they find the same files.
AgreesOnPaths ==
    \A f \in Files : (observed[f] = Absent) = (current[f] = Absent)

Agrees == observed = current

ReadsAgree ==
    /\ ReadComplete
    /\ observed # Absent
    /\ Agrees
    /\ reading' = "done"
    /\ UNCHANGED <<treeVars, unlisted, unread, current, observed, attempt, before>>

ReadsDiffer ==
    /\ ReadComplete
    /\ observed # Absent
    /\ ~Agrees

Retry ==
    /\ ReadsDiffer
    /\ attempt < SNAPSHOT_VERIFY_RETRIES
    /\ attempt' = attempt + 1
    /\ observed' = current
    /\ BeginRead
    /\ UNCHANGED <<treeVars, reading>>

RemainsUnstable ==
    /\ ReadsDiffer
    /\ attempt = SNAPSHOT_VERIFY_RETRIES
    /\ reading' = "failed"
    /\ UNCHANGED <<treeVars, unlisted, unread, current, observed, attempt, before>>

ReadTree ==
    \/ \E f \in Files : ListFile(f) \/ ReadFile(f) \/ FileGone(f)
    \/ FirstReadEnds
    \/ ReadsAgree
    \/ Retry
    \/ RemainsUnstable

SnapshotNext ==
    \/ \E f \in Files, c \in Contents \cup {Absent} : Write(f, c)
    \/ BeginSnapshot
    \/ ReadTree

SnapshotSpec == SnapshotInit /\ [][SnapshotNext]_snapshotVars

-----------------------------------------------------------------------------

(* What a snapshot returns the package held, all of it at one instant,       *)
(* however its files are written while they are listed and read, so that     *)
(* the two hashes made of it are of one state of the package: it is the tree *)
(* as it was when the second of the reads that agree began                   *)
(* (package_snapshot).                                                       *)
SnapshotExisted == reading = "done" => current = before
=============================================================================
