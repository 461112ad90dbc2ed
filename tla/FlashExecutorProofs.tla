------------------------ MODULE FlashExecutorProofs ------------------------
(* Proofs about the snapshot of a package, and about the planning and the    *)
(* execution of a flash, for any locks, packages, files, images and devices, *)
(* and any disturbances between the steps.                                   *)
EXTENDS FlashExecutor, FiniteSetTheorems, TLAPS

-----------------------------------------------------------------------------
(* The snapshot of a package.                                                *)

\* This read is done with the file.
Done(f) == f \notin unlisted /\ f \notin unread

Past(f) == retired[f] \cup {tree[f]}

(* What makes SnapshotExisted inductive.  Nothing a file holds was retired.  *)
(* What this read has is something the file held, so that once a file has    *)
(* departed from what the read before it found, that is retired and cannot   *)
(* be found again.                                                           *)
NothingReturns == \A f \in Files : tree[f] \notin retired[f]

ReadsArePast ==
    reading = "tree" =>
        \A f \in Files :
            IF Done(f) THEN current[f] \in Past(f) ELSE current[f] = Absent

DepartedIsNotFound ==
    reading = "tree" /\ observed # Absent =>
        \A f \in Files :
            \/ observed[f] = before[f]
            \/ /\ observed[f] \in retired[f]
               /\ Done(f) => current[f] # observed[f]

SnapshotInv ==
    /\ SnapshotTypeOK
    /\ NothingReturns
    /\ ReadsArePast
    /\ DepartedIsNotFound
    /\ SnapshotExisted

(* A snapshot that has not begun, and one that begins, has its invariant.    *)
LEMMA SnapshotInvInit == SnapshotInit => SnapshotInv
<1> SUFFICES ASSUME SnapshotInit PROVE SnapshotInv
    OBVIOUS
<1>1. SnapshotTypeOK
    BY RetriesAssumption DEF SnapshotInit, SnapshotTypeOK, Trees, Nothing
<1>2. NothingReturns
    BY DEF SnapshotInit, NothingReturns
<1> QED
    BY <1>1, <1>2
    DEF SnapshotInit, SnapshotInv, ReadsArePast, DepartedIsNotFound, SnapshotExisted

(* Steps that begin a read from what the last one found keep the invariant.  *)
LEMMA BeginReadKeeps ==
    ASSUME SnapshotTypeOK, NothingReturns, BeginRead, UNCHANGED treeVars,
           reading' = "tree", attempt' \in 0..SNAPSHOT_VERIFY_RETRIES,
           observed' \in Trees \cup {Absent},
           observed' # Absent => \A f \in Files : observed'[f] \in Past(f)
    PROVE  SnapshotInv'
<1>1. SnapshotTypeOK'
    BY DEF SnapshotTypeOK, BeginRead, treeVars, Trees, Nothing
<1>2. NothingReturns'
    BY DEF NothingReturns, treeVars
<1>3. ReadsArePast'
    BY DEF ReadsArePast, BeginRead, Done, Nothing
<1>4. DepartedIsNotFound'
    <2> SUFFICES ASSUME observed' # Absent, NEW f \in Files
                 PROVE  \/ observed'[f] = before'[f]
                        \/ /\ observed'[f] \in retired'[f]
                           /\ Done(f)' => current'[f] # observed'[f]
        BY DEF DepartedIsNotFound
    <2>1. ~Done(f)'
        BY DEF Done, BeginRead
    <2>2. before' = tree /\ retired' = retired
        BY DEF BeginRead, treeVars
    <2> QED
        BY <2>1, <2>2 DEF Past
<1>5. SnapshotExisted'
    BY DEF SnapshotExisted
<1> QED
    BY <1>1, <1>2, <1>3, <1>4, <1>5 DEF SnapshotInv

(* Someone writes.                                                           *)
LEMMA WriteKeeps ==
    ASSUME SnapshotInv, NEW g \in Files, NEW c \in Contents \cup {Absent}, Write(g, c)
    PROVE  SnapshotInv'
<1> USE DEF SnapshotInv
<1>1. tree \in Trees /\ retired \in [Files -> SUBSET (Contents \cup {Absent})]
    BY DEF SnapshotTypeOK
<1>2. \A f \in Files :
        /\ tree'[f] = IF f = g THEN c ELSE tree[f]
        /\ retired'[f] = IF f = g THEN retired[f] \cup {tree[f]} ELSE retired[f]
    BY <1>1 DEF Write, Trees
<1>3. SnapshotTypeOK'
    BY <1>1 DEF Write, SnapshotTypeOK, readVars, Trees
<1>4. NothingReturns'
    BY <1>2 DEF NothingReturns, Write
<1>5. \A f \in Files : Past(f) \subseteq Past(f)' /\ retired[f] \subseteq retired'[f]
    BY <1>2 DEF Past
<1>6. UNCHANGED readVars
    BY DEF Write
<1>7. \A f \in Files : Done(f)' <=> Done(f)
    BY <1>6 DEF Done, readVars
<1>8. ReadsArePast'
    BY <1>5, <1>6, <1>7 DEF ReadsArePast, readVars
<1>9. DepartedIsNotFound'
    BY <1>5, <1>6, <1>7 DEF DepartedIsNotFound, readVars
<1>10. SnapshotExisted'
    BY <1>6 DEF SnapshotExisted, readVars
<1> QED
    BY <1>3, <1>4, <1>8, <1>9, <1>10

(* A read finds what a file holds now, present or not.                       *)
LEMMA FindKeeps ==
    ASSUME SnapshotInv, NEW g \in Files, ListFile(g) \/ ReadFile(g)
    PROVE  SnapshotInv'
<1> USE DEF SnapshotInv
<1>1. /\ UNCHANGED treeVars
      /\ reading = "tree"
      /\ UNCHANGED <<reading, observed, attempt, before>>
    BY DEF ListFile, ReadFile, NextFile
<1>2. SnapshotTypeOK'
    BY DEF ListFile, ReadFile, NextFile, SnapshotTypeOK, Trees, treeVars
<1>3. NothingReturns'
    BY <1>1 DEF NothingReturns, treeVars
<1>4. ASSUME NEW f \in Files, Done(f)', ~Done(f)
      PROVE  current'[f] = tree[f]
    <2>1. CASE ReadFile(g)
        BY <2>1, <1>4 DEF ReadFile, NextFile, Done, SnapshotTypeOK, Trees
    <2>2. CASE ListFile(g)
        BY <2>2, <1>4 DEF ListFile, Done, ReadsArePast
    <2> QED
        BY <2>1, <2>2
<1>5. ASSUME NEW f \in Files, Done(f)
      PROVE  current'[f] = current[f]
    BY <1>5 DEF ListFile, ReadFile, NextFile, Done, SnapshotTypeOK, Trees
<1>6. ASSUME NEW f \in Files, ~Done(f)'
      PROVE  ~Done(f) /\ current'[f] = current[f]
    BY <1>6 DEF ListFile, ReadFile, NextFile, Done, SnapshotTypeOK, Trees
<1>9. ReadsArePast'
    BY <1>1, <1>4, <1>5, <1>6 DEF ReadsArePast, Past, treeVars
<1>7. DepartedIsNotFound'
    BY <1>1, <1>4, <1>5 DEF DepartedIsNotFound, NothingReturns, treeVars
<1>8. SnapshotExisted'
    BY <1>1 DEF SnapshotExisted
<1> QED
    BY <1>2, <1>3, <1>7, <1>8, <1>9

(* A step of the snapshot keeps the invariant.                               *)
LEMMA ReadTreeKeeps ==
    ASSUME SnapshotInv, ReadTree
    PROVE  SnapshotInv'
<1> USE DEF SnapshotInv
<1>1. ASSUME NEW f \in Files, ListFile(f) \/ ReadFile(f)
      PROVE  SnapshotInv'
    BY <1>1, FindKeeps
<1>2. ASSUME NEW f \in Files, FileGone(f)
      PROVE  SnapshotInv'
    BY <1>2 DEF FileGone, NextFile, treeVars, SnapshotTypeOK, NothingReturns,
        ReadsArePast, DepartedIsNotFound, SnapshotExisted
<1>3. ASSUME ReadComplete
      PROVE  \A f \in Files : Done(f) /\ current[f] \in Past(f)
    BY <1>3 DEF ReadComplete, Done, ReadsArePast
<1>4. current \in Trees
    BY DEF SnapshotTypeOK
<1>5. CASE FirstReadEnds
    <2>1. attempt' \in 0..SNAPSHOT_VERIFY_RETRIES /\ reading' = "tree"
        BY <1>5 DEF FirstReadEnds, ReadComplete, SnapshotTypeOK
    <2> QED
        BY <1>3, <1>4, <1>5, <2>1, BeginReadKeeps DEF FirstReadEnds
<1>6. CASE Retry
    <2>1. attempt' \in 0..SNAPSHOT_VERIFY_RETRIES /\ reading' = "tree"
        BY <1>6, RetriesAssumption DEF Retry, ReadsDiffer, ReadComplete, SnapshotTypeOK
    <2> QED
        BY <1>3, <1>4, <1>6, <2>1, BeginReadKeeps DEF Retry, ReadsDiffer
<1>7. CASE ReadsAgree
    <2>1. \A f \in Files : observed[f] = before[f]
        BY <1>3, <1>7
        DEF ReadsAgree, Agrees, ReadComplete, DepartedIsNotFound
    <2>2. current = before
        BY <2>1, <1>4, <1>7 DEF ReadsAgree, Agrees, SnapshotTypeOK, Trees
    <2> QED
        BY <1>7, <2>2 DEF ReadsAgree, treeVars, SnapshotTypeOK, NothingReturns,
            ReadsArePast, DepartedIsNotFound, SnapshotExisted
<1>8. CASE RemainsUnstable
    BY <1>8 DEF RemainsUnstable, treeVars, SnapshotTypeOK, NothingReturns,
        ReadsArePast, DepartedIsNotFound, SnapshotExisted
<1> QED
    BY <1>1, <1>2, <1>5, <1>6, <1>7, <1>8 DEF ReadTree

(* A snapshot begins.                                                        *)
LEMMA BeginSnapshotKeeps ==
    ASSUME SnapshotInv, observed = Absent, BeginSnapshot
    PROVE  SnapshotInv'
<1>1. observed' = Absent /\ attempt' \in 0..SNAPSHOT_VERIFY_RETRIES /\ reading' = "tree"
    BY DEF BeginSnapshot, SnapshotInv, SnapshotTypeOK
<1> QED
    BY <1>1, BeginReadKeeps DEF BeginSnapshot, SnapshotInv

(* Before the snapshot there is nothing observed.                            *)
IdleObservesNothing == reading = "idle" => observed = Absent

(* A step of anyone keeps the invariant, for any files, contents and number  *)
(* of retries.                                                               *)
LEMMA SnapshotInvStep ==
    ASSUME SnapshotInv, IdleObservesNothing, [SnapshotNext]_snapshotVars
    PROVE  SnapshotInv' /\ IdleObservesNothing'
<1>1. IdleObservesNothing'
    BY DEF IdleObservesNothing, SnapshotNext, Write, BeginSnapshot, ReadTree,
        ListFile, ReadFile, FileGone, NextFile, FirstReadEnds, ReadsAgree, Retry,
        ReadsDiffer, ReadComplete, RemainsUnstable, readVars, snapshotVars
<1> SUFFICES SnapshotInv'
    BY <1>1
<1>2. CASE UNCHANGED snapshotVars
    BY <1>2 DEF SnapshotInv, SnapshotTypeOK, NothingReturns, ReadsArePast,
        DepartedIsNotFound, SnapshotExisted, Done, Past, snapshotVars, treeVars,
        readVars
<1>3. ASSUME NEW f \in Files, NEW c \in Contents \cup {Absent}, Write(f, c)
      PROVE  SnapshotInv'
    BY <1>3, WriteKeeps
<1>4. CASE BeginSnapshot
    BY <1>4, BeginSnapshotKeeps DEF BeginSnapshot, IdleObservesNothing
<1>5. CASE ReadTree
    BY <1>5, ReadTreeKeeps
<1> QED
    BY <1>2, <1>3, <1>4, <1>5 DEF SnapshotNext

(* Whatever the files, whoever writes them and however many retries there    *)
(* are: a snapshot that is returned is one state the package was in, as long *)
(* as no one brings back what a file held before (package_snapshot).         *)
THEOREM SnapshotTheorem == SnapshotSpec => []SnapshotExisted
<1>1. SnapshotInit => SnapshotInv /\ IdleObservesNothing
    BY SnapshotInvInit DEF SnapshotInit, IdleObservesNothing
<1>2. SnapshotInv /\ IdleObservesNothing /\ [SnapshotNext]_snapshotVars
        => SnapshotInv' /\ IdleObservesNothing'
    BY SnapshotInvStep
<1>3. SnapshotInv => SnapshotExisted
    BY DEF SnapshotInv
<1> QED
    BY <1>1, <1>2, <1>3, PTL DEF SnapshotSpec

-----------------------------------------------------------------------------

LockedImage == controller_image_manifest(request.lock, request.controller)

-----------------------------------------------------------------------------
(* The planning.                                                             *)

(* The request passed its checks before anything was read.                   *)
RequestHolds ==
    planning \in {"snapshot", "board", "artifact", "planned"} =>
        verify_build_plan(request.lock, request.controller, request.build_plan)

(* The package was the locked one when its snapshot was taken, and what is   *)
(* read of it later is the same or shows that it is that no more.            *)
PackageHolds ==
    /\ planning = "snapshot" => reading # "idle"
    /\ planning \in {"board", "artifact", "planned"} =>
            reading = "done" /\ current = Locked
    /\ planning \in {"artifact", "planned"} =>
            rule = Boards(Locked[Manifest]) \/ Locked[Manifest] \in retired[Manifest]

BeforeWasThere == reading # "idle" => \A f \in Files : before[f] \in Past(f)

(* The plan is of what was read.                                             *)
PlanHolds ==
    plan # None =>
        /\ planning = "planned"
        /\ "artifact" \in DOMAIN plan
        /\ plan.artifact = expected_artifact
        /\ plan.controller = request.controller
        /\ plan.blocked_reasons = Blocked(plan.observed)

DiscoveredAreDevices ==
    planning # "discover" => discovered \subseteq Devices

PlanInv ==
    /\ SnapshotInv
    /\ IdleObservesNothing
    /\ devices \subseteq Devices
    /\ RequestHolds
    /\ PackageHolds
    /\ BeforeWasThere
    /\ PlanHolds
    /\ DiscoveredAreDevices

\* A build plan that verifies names the image the lock names.
LEMMA RequestGivesImage ==
    ASSUME verify_build_plan(request.lock, request.controller, request.build_plan)
    PROVE  expected_artifact.sha256 = LockedImage
BY DEF verify_build_plan, build_controller, expected_artifact, LockedImage

\* A unique match is one device, and no other one meets the rule.
LEMMA UniqueCandidate ==
    ASSUME discovered \subseteq Devices, MatchStatus(Candidates(rule.select)) = "Unique"
    PROVE  \E d \in discovered :
                \A e \in discovered : Meets(e, rule.select) <=> e = d
<1>1. Candidates(rule.select) \in SUBSET Devices
    BY DEF Candidates
<1>2. IsFiniteSet(Candidates(rule.select))
    BY <1>1, DevicesAssumption, FS_Subset
<1>3. Cardinality(Candidates(rule.select)) = 1
    BY DEF MatchStatus
<1>4. PICK d : Candidates(rule.select) = {d}
    BY <1>2, <1>3, FS_Singleton
<1> QED
    BY <1>4 DEF Candidates

\* It implies the property.
LEMMA InvIsFromLock == PlanInv => PlanFromLock
<1> SUFFICES ASSUME PlanInv, plan # None
             PROVE  /\ before = Locked
                    /\ rule # Boards(Locked[Manifest]) => tree # Locked
                    /\ plan.blocked_reasons \subseteq {"NotDeployable"} =>
                        /\ plan.observed =
                            controller_image_manifest(request.lock, plan.controller)
                        /\ \E d \in discovered :
                            \A e \in discovered : Meets(e, rule.select) <=> e = d
    BY DEF PlanFromLock
<1>1. planning = "planned"
    BY DEF PlanInv, PlanHolds
<1>2. before = Locked
    BY <1>1 DEF PlanInv, PackageHolds, SnapshotInv, SnapshotExisted
<1>3. rule # Boards(Locked[Manifest]) => tree # Locked
    BY <1>1, ManifestAssumption DEF PlanInv, PackageHolds, SnapshotInv, NothingReturns
<1>4. ASSUME plan.blocked_reasons \subseteq {"NotDeployable"}
      PROVE  /\ plan.observed = expected_artifact.sha256
             /\ MatchStatus(Candidates(rule.select)) = "Unique"
    <2>1. Blocked(plan.observed) \subseteq {"NotDeployable"}
        BY <1>4 DEF PlanInv, PlanHolds
    <2> DEFINE status == MatchStatus(Candidates(rule.select))
    <2>2. status \in {"Missing", "Unique", "Ambiguous"}
        BY DEF MatchStatus
    <2> HIDE DEF status
    <2>3. /\ Code(status, status # "Unique") \subseteq {"NotDeployable"}
          /\ Code("ChecksumMismatch", plan.observed # expected_artifact.sha256)
                \subseteq {"NotDeployable"}
        BY <2>1, Zenon DEF Blocked, status
    <2> QED
        BY <2>2, <2>3 DEF Code, status
<1>5. expected_artifact.sha256 = LockedImage
    BY <1>1, RequestGivesImage DEF PlanInv, RequestHolds
<1>6. plan.controller = request.controller /\ discovered \subseteq Devices
    BY <1>1 DEF PlanInv, PlanHolds, DiscoveredAreDevices
<1> QED
    BY <1>2, <1>3, <1>4, <1>5, <1>6, UniqueCandidate DEF LockedImage

(* What the plan is computed from.                                           *)
LEMMA LockedUnchanged ==
    ASSUME UNCHANGED request
    PROVE  /\ Locked' = Locked
           /\ expected_artifact' = expected_artifact
           /\ RequestHolds' <=>
                (planning' \in {"snapshot", "board", "artifact", "planned"} =>
                    verify_build_plan(request.lock, request.controller,
                                      request.build_plan))
BY DEF Locked, Pinned, BoardPath, expected_artifact, RequestHolds

\* What blocks a plan depends on the request, the rule and the devices only.
LEMMA BlockedUnchanged ==
    ASSUME UNCHANGED <<request, rule, discovered>>, NEW image
    PROVE  Blocked(image)' = Blocked(image)
<1>1. Candidates(rule.select)' = Candidates(rule.select)
    BY DEF Candidates
<1>2. MatchStatus(Candidates(rule.select))' = MatchStatus(Candidates(rule.select))
    BY <1>1 DEF MatchStatus
<1> QED
    BY <1>2 DEF Blocked, expected_artifact, Code

(* What the tree's steps keep of it.                                         *)
LEMMA TreeKeeps ==
    ASSUME PlanInv, [SnapshotNext]_snapshotVars
    PROVE  /\ SnapshotInv' /\ IdleObservesNothing' /\ BeforeWasThere'
           /\ \A f \in Files : retired[f] \subseteq retired'[f]
<1>1. SnapshotInv' /\ IdleObservesNothing'
    BY SnapshotInvStep DEF PlanInv
<1>2. CASE UNCHANGED treeVars
    <2>1. \A f \in Files : Past(f)' = Past(f) /\ tree[f] \in Past(f)
        BY <1>2 DEF Past, treeVars
    <2>2. /\ before' = before \/ before' = tree
          /\ before' = before => reading # "idle" \/ reading' = "idle" \/ before' = tree
        BY <1>2, Zenon DEF SnapshotNext, Write, BeginSnapshot, BeginRead, ReadTree,
            ListFile, ReadFile, FileGone, NextFile, ReadComplete, FirstReadEnds,
            ReadsAgree, ReadsDiffer, Retry, RemainsUnstable, snapshotVars, readVars
    <2> QED
        BY <1>1, <1>2, <2>1, <2>2 DEF PlanInv, BeforeWasThere, treeVars
<1>3. ASSUME NEW g \in Files, NEW c \in Contents \cup {Absent}, Write(g, c)
      PROVE  /\ BeforeWasThere'
             /\ \A f \in Files : retired[f] \subseteq retired'[f]
    <2>1. tree \in Trees /\ retired \in [Files -> SUBSET (Contents \cup {Absent})]
        BY DEF PlanInv, SnapshotInv, SnapshotTypeOK
    <2>2. \A f \in Files :
            /\ tree'[f] = IF f = g THEN c ELSE tree[f]
            /\ retired'[f] = IF f = g THEN retired[f] \cup {tree[f]} ELSE retired[f]
        BY <1>3, <2>1 DEF Write, Trees
    <2>3. \A f \in Files : Past(f) \subseteq Past(f)'
        BY <2>2 DEF Past
    <2> QED
        BY <1>3, <2>2, <2>3 DEF PlanInv, BeforeWasThere, Write, readVars
<1> QED
    BY <1>1, <1>2, <1>3 DEF SnapshotNext, snapshotVars, BeginSnapshot, ReadTree,
        ListFile, ReadFile, FileGone, FirstReadEnds, ReadsAgree, Retry,
        RemainsUnstable

Refused == planning' \notin {"discover", "snapshot", "board", "artifact", "planned"}

(* A refusal ends the planning without a plan.                               *)
LEMMA RefusedKeeps ==
    ASSUME PlanInv, Refused, planning # "planned", planning # "discover",
           [SnapshotNext]_snapshotVars, UNCHANGED <<request, discovered, plan, devices>>
    PROVE  PlanInv'
<1>1. plan' = None
    BY DEF PlanInv, PlanHolds
<1> QED
    BY <1>1, TreeKeeps
    DEF Refused, PlanInv, RequestHolds, PackageHolds, PlanHolds, DiscoveredAreDevices

(* The reasons for which a plan is refused.                                  *)
LEMMA ReasonRefuses ==
    ASSUME NEW reason,
           Refuse(reason),
           reason \in {"InvalidLock", "RegistryDrift", "InvalidInput",
                      "UnknownController", "BuildOutput", "RegistryIo",
                      "InvalidBoardMetadata", "MissingFlashMetadata", "ArtifactIo"}
    PROVE  Refused /\ UNCHANGED <<snapshotVars, request, files, devices, discovered,
                                 rule, plan>>
BY DEF Refuse, Refused

\* Discovery keeps it.
LEMMA DiscoverKeeps ==
    ASSUME PlanInv, discover_usb_devices
    PROVE  PlanInv'
<1>1. plan' = None /\ planning' = "check"
    BY DEF PlanInv, PlanHolds, discover_usb_devices
<1>2. [SnapshotNext]_snapshotVars
    BY DEF discover_usb_devices
<1> QED
    BY <1>1, <1>2, TreeKeeps
    DEF discover_usb_devices, PlanInv, RequestHolds, PackageHolds, PlanHolds,
        DiscoveredAreDevices

\* A refused request keeps it.
LEMMA RefuseRequestKeeps ==
    ASSUME PlanInv, RefuseRequest
    PROVE  PlanInv'
<1>1. PICK reason \in RequestErrors : Refuse(reason)
    BY DEF RefuseRequest
<1>2. reason \in {"InvalidLock", "RegistryDrift", "InvalidInput",
                 "UnknownController", "BuildOutput"}
    BY <1>1, Zenon DEF RequestErrors, Code
<1> QED
    BY <1>1, <1>2, ReasonRefuses, RefusedKeeps DEF RefuseRequest

\* Reading the manifest keeps it.
LEMMA ReadManifestKeeps ==
    ASSUME PlanInv, ReadManifest
    PROVE  PlanInv'
<1>1. planning = "check" /\ RequestErrors = {}
    BY DEF ReadManifest
<1>2. CASE tree[Manifest] = Locked[Manifest]
    <2>1. /\ BeginSnapshot /\ planning' = "snapshot"
          /\ UNCHANGED <<request, files, devices, discovered, rule, plan>>
        BY <1>2 DEF ReadManifest
    <2>2. verify_build_plan(request.lock, request.controller, request.build_plan)
        BY <1>1, Zenon DEF RequestErrors
    <2>3. RequestHolds'
        BY <2>1, <2>2, LockedUnchanged
    <2>4. PackageHolds'
        BY <2>1 DEF PackageHolds, BeginSnapshot
    <2>5. plan' = None
        BY <1>1, <2>1 DEF PlanInv, PlanHolds
    <2>6. [SnapshotNext]_snapshotVars
        BY <2>1 DEF SnapshotNext
    <2> QED
        BY <1>1, <2>1, <2>3, <2>4, <2>5, <2>6, TreeKeeps
        DEF PlanInv, PlanHolds, DiscoveredAreDevices
<1>3. CASE tree[Manifest] # Locked[Manifest]
    <2>1. PICK reason \in {"RegistryIo", "RegistryDrift"} : Refuse(reason)
        BY <1>3, Zenon DEF ReadManifest
    <2> QED
        BY <1>1, <2>1, ReasonRefuses, RefusedKeeps
<1> QED
    BY <1>2, <1>3

\* Taking the snapshot keeps it.
LEMMA TakeSnapshotKeeps ==
    ASSUME PlanInv, TakeSnapshot
    PROVE  PlanInv'
<1>1. /\ planning = "snapshot" /\ planning' = "snapshot"
      /\ UNCHANGED <<request, devices, discovered, plan>>
      /\ ReadTree
    BY DEF TakeSnapshot, planVars
<1>2. reading' # "idle"
    BY <1>1 DEF PlanInv, PackageHolds, ReadTree, ListFile, ReadFile, FileGone,
        NextFile, ReadComplete, FirstReadEnds, ReadsAgree, ReadsDiffer, Retry,
        RemainsUnstable
<1>3. [SnapshotNext]_snapshotVars
    BY <1>1 DEF SnapshotNext
<1>4. RequestHolds'
    BY <1>1, LockedUnchanged DEF PlanInv, RequestHolds
<1> QED
    BY <1>1, <1>2, <1>3, <1>4, TreeKeeps
    DEF PlanInv, PackageHolds, PlanHolds, DiscoveredAreDevices

\* Comparing the content keeps it.
LEMMA CompareContentKeeps ==
    ASSUME PlanInv, CompareContent
    PROVE  PlanInv'
<1>1. planning = "snapshot" /\ reading \in {"done", "failed"}
    BY DEF CompareContent
<1>2. CASE reading = "done" /\ ContentAgrees
    <2>1. Refuse("board")
        BY <1>2, Zenon DEF CompareContent
    <2>2. /\ planning' = "board"
          /\ UNCHANGED <<snapshotVars, request, devices, discovered, plan>>
        BY <2>1 DEF Refuse
    <2>3. RequestHolds'
        BY <1>1, <2>2, LockedUnchanged DEF PlanInv, RequestHolds
    <2>4. PackageHolds'
        BY <1>2, <2>2, LockedUnchanged
        DEF PackageHolds, ContentAgrees, snapshotVars, readVars
    <2>5. [SnapshotNext]_snapshotVars
        BY <2>2
    <2> QED
        BY <1>1, <2>2, <2>3, <2>4, <2>5, TreeKeeps
        DEF PlanInv, PlanHolds, DiscoveredAreDevices
<1>3. CASE ~(reading = "done" /\ ContentAgrees)
    <2>1. PICK reason \in {"RegistryIo", "RegistryDrift"} : Refuse(reason)
        BY <1>1, <1>3, Zenon DEF CompareContent
    <2> QED
        BY <1>1, <2>1, ReasonRefuses, RefusedKeeps
<1> QED
    BY <1>2, <1>3

\* Reading the board keeps it.
LEMMA ReadBoardKeeps ==
    ASSUME PlanInv, ReadBoard
    PROVE  PlanInv'
<1>1. planning = "board" /\ reading = "done" /\ current = Locked
    BY DEF ReadBoard, PlanInv, PackageHolds
<1>2. tree[Manifest] \in Contents \cup {Absent}
    BY ManifestAssumption DEF PlanInv, SnapshotInv, SnapshotTypeOK, Trees
<1>3. CASE tree[Manifest] # Absent /\ Boards(tree[Manifest]).error = None
    <2>1. /\ planning' = "artifact" /\ rule' = Boards(tree[Manifest])
          /\ UNCHANGED <<snapshotVars, request, devices, discovered, plan>>
        BY <1>3 DEF ReadBoard
    <2>2. RequestHolds'
        BY <1>1, <2>1, LockedUnchanged DEF PlanInv, RequestHolds
    <2>3. Locked[Manifest] \in Past(Manifest)
        BY <1>1, ManifestAssumption DEF PlanInv, SnapshotInv, SnapshotExisted,
            BeforeWasThere
    <2>4. PackageHolds'
        BY <1>1, <2>1, <2>3, LockedUnchanged
        DEF PackageHolds, Past, snapshotVars, treeVars, readVars
    <2>5. [SnapshotNext]_snapshotVars
        BY <2>1
    <2> QED
        BY <1>1, <2>1, <2>2, <2>4, <2>5, TreeKeeps
        DEF PlanInv, PlanHolds, DiscoveredAreDevices
<1>4. CASE ~(tree[Manifest] # Absent /\ Boards(tree[Manifest]).error = None)
    <2>1. PICK reason \in {"InvalidBoardMetadata", "MissingFlashMetadata"} :
            Refuse(reason)
        <3>1. CASE tree[Manifest] = Absent
            BY <1>4, <3>1, Zenon DEF ReadBoard
        <3>2. CASE tree[Manifest] # Absent
            <4>1. Refuse(Boards(tree[Manifest]).error)
                BY <1>4, <3>2, Zenon DEF ReadBoard
            <4>2. Boards(tree[Manifest]).error
                    \in {"InvalidBoardMetadata", "MissingFlashMetadata"}
                BY <1>2, <1>4, <3>2, BoardsAssumption
            <4> QED
                BY <4>1, <4>2
        <3> QED
            BY <3>1, <3>2
    <2> QED
        BY <1>1, <2>1, ReasonRefuses, RefusedKeeps
<1> QED
    BY <1>3, <1>4

\* Reading the artifact keeps it.
LEMMA ReadArtifactKeeps ==
    ASSUME PlanInv, ReadArtifact
    PROVE  PlanInv'
<1> DEFINE image == files[request.artifact]
<1>1. planning = "artifact"
    BY DEF ReadArtifact
<1>2. CASE image = None
    <2>1. Refuse("ArtifactIo")
        BY <1>2 DEF ReadArtifact
    <2> QED
        BY <1>1, <2>1, ReasonRefuses, RefusedKeeps
<1>3. CASE image # None
    <2>1. /\ "artifact" \in DOMAIN plan'
          /\ plan'.artifact = expected_artifact
          /\ plan'.controller = request.controller
          /\ plan'.observed = image
          /\ plan'.blocked_reasons = Blocked(image)
          /\ planning' = "planned"
          /\ UNCHANGED <<snapshotVars, request, devices, discovered, rule>>
        BY <1>3 DEF ReadArtifact
    <2> HIDE DEF image
    <2>2. RequestHolds'
        BY <1>1, <2>1, LockedUnchanged DEF PlanInv, RequestHolds
    <2>3. PackageHolds'
        BY <1>1, <2>1, LockedUnchanged
        DEF PlanInv, PackageHolds, snapshotVars, treeVars, readVars
    <2>4. PlanHolds'
        BY <2>1, LockedUnchanged, BlockedUnchanged DEF PlanHolds
    <2>5. [SnapshotNext]_snapshotVars
        BY <2>1
    <2> QED
        BY <1>1, <2>1, <2>2, <2>3, <2>4, <2>5, TreeKeeps
        DEF PlanInv, DiscoveredAreDevices
<1> QED
    BY <1>2, <1>3

(* Whatever else goes on leaves what was planned as it was.                  *)
LEMMA BesidePlanKeeps ==
    ASSUME PlanInv, [SnapshotNext]_snapshotVars, readVars' = readVars,
           UNCHANGED <<request, discovered, rule, planning, plan>>,
           devices' \subseteq Devices
    PROVE  PlanInv'
<1>1. RequestHolds'
    BY LockedUnchanged DEF PlanInv, RequestHolds
<1>2. PackageHolds'
    BY LockedUnchanged, TreeKeeps, ManifestAssumption
    DEF PlanInv, PackageHolds, readVars
<1>3. PlanHolds'
    BY LockedUnchanged, BlockedUnchanged DEF PlanInv, PlanHolds
<1> QED
    BY <1>1, <1>2, <1>3, TreeKeeps DEF PlanInv, DiscoveredAreDevices

\* What happens beside planning leaves the plan alone.
LEMMA BesideIs ==
    ASSUME devices \subseteq Devices,
           Execute \/ EditPackage \/ Rebuild \/ Plug \/ Unplug \/ UNCHANGED vars
    PROVE  /\ [SnapshotNext]_snapshotVars /\ readVars' = readVars
           /\ UNCHANGED <<request, discovered, rule, planning, plan>>
           /\ devices' \subseteq Devices
<1>1. CASE Execute
    BY <1>1, Zenon DEF Execute, Order, Validate, StageInPlace, StageCopy, Pretend,
        SpawnFails, Spawn, ToolWrites, ToolEnds, Executor, planVars, snapshotVars
<1>2. CASE EditPackage
    BY <1>2 DEF EditPackage, SnapshotNext, Write, planVars
<1>3. CASE Rebuild \/ Plug \/ Unplug \/ UNCHANGED vars
    BY <1>3 DEF Rebuild, Plug, Unplug, Disturb, vars, planVars, snapshotVars
<1> QED
    BY <1>1, <1>2, <1>3

\* Every step keeps it.
LEMMA PlanInvStep ==
    ASSUME PlanInv, [Next]_vars
    PROVE  PlanInv'
<1>1. CASE Plan
    BY <1>1, DiscoverKeeps, RefuseRequestKeeps, ReadManifestKeeps, TakeSnapshotKeeps,
        CompareContentKeeps, ReadBoardKeeps, ReadArtifactKeeps DEF Plan, PlanDryRun
<1>2. CASE Execute \/ EditPackage \/ Rebuild \/ Plug \/ Unplug \/ UNCHANGED vars
    BY <1>2, BesideIs, BesidePlanKeeps DEF PlanInv
<1> QED
    BY <1>1, <1>2 DEF Next

\* It holds initially.
LEMMA PlanInvInit == Init => PlanInv
<1> SUFFICES ASSUME Init PROVE PlanInv
    OBVIOUS
<1>1. SnapshotInit /\ planning = "discover" /\ plan = None /\ devices \subseteq Devices
    BY DEF Init, PlanInit
<1> QED
    BY <1>1, SnapshotInvInit
    DEF PlanInv, SnapshotInit, IdleObservesNothing, RequestHolds, PackageHolds,
        BeforeWasThere, PlanHolds, DiscoveredAreDevices

(* A plan is made of the locked board package as it was at one instant, and  *)
(* of a device and an image the lock and the package's rule ask for,         *)
(* whatever is written meanwhile (plan_dry_run).                             *)
THEOREM PlanTheorem == Spec => []PlanFromLock
<1>1. PlanInv /\ [Next]_vars => PlanInv'
    BY PlanInvStep
<1> QED
    BY <1>1, PlanInvInit, InvIsFromLock, PTL DEF Spec

-----------------------------------------------------------------------------
(* The execution.                                                            *)

Ordered == {"validate", "stage", "run", "tool", "ended"}

(* The order has the locked image, and what was staged or written has passed *)
(* its checks; until then there is no copy.  An artifact used where it lies  *)
(* has the image that was checked until one is rebuilt.                      *)
ExecutorInv ==
    /\ step \in Ordered \cup {"idle"}
    /\ step \in Ordered => order.artifact.sha256 = LockedImage
    /\ step \in {"idle", "validate", "stage"} => temp = None
    /\ step \in {"stage", "run", "tool"} =>
            /\ artifact_bytes = order.artifact.sha256
            /\ Cardinality(order.candidates) = 1
    /\ step \in {"run", "tool"} =>
            /\ temp \in {None, artifact_bytes}
            /\ ~Copied /\ ~rebuilt => files[staged] = artifact_bytes
    /\ written # None => step \in {"tool", "ended"}
    /\ FlashedAsPlanned
    /\ NoCopyLeft

(* Making a plan ready does not touch the artifact's digest.                 *)
LEMMA OrderHasImage ==
    ASSUME PlanInv, plan # None
    PROVE  plan.artifact.sha256 = LockedImage /\ Approved.artifact.sha256 = LockedImage
<1>1. expected_artifact.sha256 = LockedImage
    BY RequestGivesImage DEF PlanInv, PlanHolds, RequestHolds
<1>2. plan.artifact = expected_artifact /\ "artifact" \in DOMAIN plan
    BY DEF PlanInv, PlanHolds
<1>3. "sha256" \in DOMAIN expected_artifact
    BY DEF PlanInv, PlanHolds, RequestHolds, verify_build_plan, build_controller,
        expected_artifact
<1>4. ASSUME NEW p, "artifact" \in DOMAIN p, "sha256" \in DOMAIN p.artifact
      PROVE  [p EXCEPT !.ready = TRUE, !.blocked_reasons = {},
                       !.artifact.deployable = TRUE].artifact.sha256
                = p.artifact.sha256
    BY <1>4, Zenon
<1> QED
    BY <1>1, <1>2, <1>3, <1>4, Zenon DEF Approved

(* Nothing but the execution concerns the execution.                         *)
LEMMA ExecutorUnconcerned ==
    ASSUME ExecutorInv, UNCHANGED request,
           UNCHANGED <<order, artifact_bytes, step, staged, temp, written, result>>,
           UNCHANGED removal_refused,
           rebuilt' = TRUE \/ UNCHANGED <<files, rebuilt>>
    PROVE  ExecutorInv'
BY DEF ExecutorInv, LockedImage, FlashedAsPlanned, NoCopyLeft, Copied

\* What happens beside the execution leaves the executor alone.
LEMMA BesideExecution ==
    Plan \/ EditPackage \/ Rebuild \/ Plug \/ Unplug \/ UNCHANGED vars
    => /\ UNCHANGED request
       /\ UNCHANGED <<order, artifact_bytes, step, staged, temp, written, result>>
       /\ UNCHANGED removal_refused
       /\ rebuilt' = TRUE \/ UNCHANGED <<files, rebuilt>>
<1>1. CASE Plan
    BY <1>1, Zenon DEF Plan, PlanDryRun, discover_usb_devices, RefuseRequest,
        ReadManifest, TakeSnapshot, CompareContent, ReadBoard, ReadArtifact, Refuse,
        planVars, executorVars, history
<1>2. CASE EditPackage
    BY <1>2 DEF EditPackage, planVars, executorVars, history
<1>3. CASE Rebuild \/ Plug \/ Unplug \/ UNCHANGED vars
    BY <1>3 DEF Rebuild, Plug, Unplug, Disturb, vars, planVars, executorVars, history
<1> QED
    BY <1>1, <1>2, <1>3

\* Every step of an execution keeps it.
LEMMA ExecuteKeeps ==
    ASSUME PlanInv, ExecutorInv, Execute
    PROVE  ExecutorInv'
<1>1. UNCHANGED <<request, files>>
    BY Zenon DEF Execute, Order, Validate, StageInPlace, StageCopy, Pretend,
        SpawnFails, Spawn, ToolWrites, ToolEnds, Executor, planVars
<1> USE DEF Ordered, Copied, history
<1>2. CASE Order
    <2>1. order'.artifact.sha256 = LockedImage
        BY <1>2, OrderHasImage DEF Order
    <2> QED
        BY <1>1, <1>2, <2>1
        DEF Order, ExecutorInv, LockedImage, FlashedAsPlanned, NoCopyLeft
<1>3. CASE Validate
    <2>1. CASE PlanErrors = {}
        <3>1. artifact_bytes = order.artifact.sha256 /\ Cardinality(order.candidates) = 1
            BY <2>1, Zenon DEF PlanErrors
        <3> QED
            BY <1>1, <1>3, <2>1, <3>1
            DEF Validate, ExecutorInv, LockedImage, FlashedAsPlanned, NoCopyLeft
    <2>2. CASE PlanErrors # {}
        BY <1>1, <1>3, <2>2
        DEF Validate, End, ExecutorInv, LockedImage, FlashedAsPlanned, NoCopyLeft
    <2> QED
        BY <2>1, <2>2
<1>4. CASE StageInPlace
    BY <1>1, <1>4
    DEF StageInPlace, ExecutorInv, LockedImage, FlashedAsPlanned, NoCopyLeft
<1>5. CASE StageCopy
    BY <1>1, <1>5
    DEF StageCopy, End, ExecutorInv, LockedImage, FlashedAsPlanned, NoCopyLeft
<1>6. CASE Pretend
    BY <1>1, <1>6
    DEF Pretend, End, RemoveTemp, ExecutorInv, LockedImage, FlashedAsPlanned, NoCopyLeft
<1>7. CASE SpawnFails
    BY <1>1, <1>7
    DEF SpawnFails, End, ExecutorInv, LockedImage, FlashedAsPlanned, NoCopyLeft
<1>8. CASE Spawn
    BY <1>1, <1>8
    DEF Spawn, ExecutorInv, LockedImage, FlashedAsPlanned, NoCopyLeft
<1>9. CASE ToolWrites
    <2>1. /\ step = "tool" /\ step' = "tool"
          /\ UNCHANGED <<order, artifact_bytes, staged, temp, result>>
          /\ written'.image = Staged /\ Staged # None
        BY <1>9 DEF ToolWrites
    <2>2. Staged = artifact_bytes \/ (~Copied /\ rebuilt)
        BY <2>1 DEF Staged, ExecutorInv
    <2>3. UNCHANGED <<rebuilt, removal_refused>>
        BY <1>9 DEF ToolWrites
    <2> QED
        BY <1>1, <2>1, <2>2, <2>3
        DEF ExecutorInv, LockedImage, FlashedAsPlanned, NoCopyLeft
<1>10. CASE ToolEnds
    BY <1>1, <1>10
    DEF ToolEnds, End, RemoveTemp, ExecutorInv, LockedImage, FlashedAsPlanned,
        NoCopyLeft
<1> QED
    BY <1>2, <1>3, <1>4, <1>5, <1>6, <1>7, <1>8, <1>9, <1>10 DEF Execute

\* Every step keeps both.
LEMMA FlashInvStep ==
    ASSUME PlanInv, ExecutorInv, [Next]_vars
    PROVE  PlanInv' /\ ExecutorInv'
<1>1. CASE Execute
    BY <1>1, ExecuteKeeps, PlanInvStep
<1>2. CASE Plan \/ EditPackage \/ Rebuild \/ Plug \/ Unplug \/ UNCHANGED vars
    BY <1>2, BesideExecution, ExecutorUnconcerned, PlanInvStep
<1> QED
    BY <1>1, <1>2 DEF Next

\* Both hold initially.
LEMMA FlashInvInit == Init => PlanInv /\ ExecutorInv
BY PlanInvInit DEF Init, ExecutorInv, Ordered, FlashedAsPlanned, NoCopyLeft

(* What a tool writes is the locked controller's image, from the executor's  *)
(* copy always and from an artifact in its place unless one was rebuilt      *)
(* since the staging, and the plan named one device (execute_flash).         *)
THEOREM FlashedTheorem == Spec => []FlashedAsPlanned
<1>1. PlanInv /\ ExecutorInv /\ [Next]_vars => PlanInv' /\ ExecutorInv'
    BY FlashInvStep
<1>2. ExecutorInv => FlashedAsPlanned
    BY DEF ExecutorInv
<1> QED
    BY <1>1, <1>2, FlashInvInit, PTL DEF Spec

(* However the tool ends, the executor's copy is gone; one that stays is     *)
(* there because it could not be written or removed, or the tool not be      *)
(* started (execute_flash, create_temp_artifact).                            *)
THEOREM NoCopyTheorem == Spec => []NoCopyLeft
<1>1. PlanInv /\ ExecutorInv /\ [Next]_vars => PlanInv' /\ ExecutorInv'
    BY FlashInvStep
<1>2. ExecutorInv => NoCopyLeft
    BY DEF ExecutorInv
<1> QED
    BY <1>1, <1>2, FlashInvInit, PTL DEF Spec
=============================================================================
