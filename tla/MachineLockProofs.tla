-------------------------- MODULE MachineLockProofs --------------------------
(* Proofs about the resolution of a machine, for any manifests, registries,  *)
(* versions, names, safety profiles and number of rounds: the closure, the   *)
(* connectors and timers it gives away, the safety policy, and the lock.     *)
EXTENDS MachineLock, TLAPS

-----------------------------------------------------------------------------
(* The closure of packages.                                                  *)

(* What ClosureConsistent says of an accepted selection.                     *)
Closure ==
    /\ pins \cup implicit_roots \subseteq DOMAIN chosen
    /\ \A p \in DOMAIN chosen :
        /\ chosen[p] \in versions(p)
        /\ p \in pins => chosen[p] = Pin(p)
        /\ \A d \in DOMAIN Dependencies(p, chosen[p]) : Len(d) = 2 =>
            d \in DOMAIN chosen
            /\ chosen[d] \in Dependencies(p, chosen[p])[d]
        /\ p \in pins \cup implicit_roots
            \/ \E q \in DOMAIN chosen : p \in DOMAIN Dependencies(q, chosen[q])

(* Pins are well formed in every manifest the parser accepts.                *)
LEMMA PinsAreReferences ==
    ASSUME ManifestErrors(doc) = {}
    PROVE  \A p \in pins : Len(p) = 2
<1> DEFINE references == {doc.workflows[w].package : w \in DOMAIN doc.workflows}
                            \cup {doc.packages[i].path : i \in DOMAIN doc.packages}
<1>1. Code("E0500", \E r \in references : ~valid_package_ref_name(r))
        \subseteq ManifestErrors(doc)
    BY Zenon DEF ManifestErrors
<1>2. \A r \in references : valid_package_ref_name(r)
    BY <1>1 DEF Code
<1> QED
    BY <1>2 DEF pins, valid_package_ref_name

(* A version is chosen among those that satisfy the requirements.            *)
LEMMA HighestIsChosen ==
    ASSUME registry \in Registries, NEW p, Satisfying(p) # {}
    PROVE  Highest(Satisfying(p)) \in Satisfying(p)
<1>1. Satisfying(p) \in SUBSET Versions
    BY RegistriesAssumption DEF Satisfying, versions
<1>2. \E v \in Satisfying(p) : \A w \in Satisfying(p) : w <= v
    BY <1>1, VersionsAssumption
<1> QED
    BY <1>2 DEF Highest

(* What a round without errors chooses of a path.                            *)
LEMMA RoundChooses ==
    ASSUME registry \in Registries, RoundErrors = {}, NEW p \in paths
    PROVE  /\ p \in DOMAIN RoundChoice
           /\ RoundChoice[p] \in versions(p)
           /\ p \in pins => RoundChoice[p] = Pin(p)
           /\ \A r \in requirements(p) : RoundChoice[p] \in r.requirement
<1>1. PathErrors(p) = {}
    BY Zenon DEF RoundErrors
<1>2. p \in DOMAIN RoundChoice
    BY <1>1 DEF RoundChoice
<1>3. RoundChoice[p] = IF p \in pins THEN Pin(p) ELSE Highest(Satisfying(p))
    BY <1>1 DEF RoundChoice
<1>4. CASE p \in pins
    BY <1>1, <1>2, <1>3, <1>4 DEF PathErrors, Code
<1>5. CASE p \notin pins
    <2>1. Satisfying(p) # {}
        BY <1>1, <1>5 DEF PathErrors, Code
    <2> QED
        BY <1>2, <1>3, <1>5, <2>1, HighestIsChosen DEF Satisfying
<1> QED
    BY <1>4, <1>5

(* A round that changes nothing and reports nothing has chosen a closure:    *)
(* the requirements it went by are those of what it chose.                   *)
LEMMA StableIsClosed ==
    ASSUME registry \in Registries, ManifestErrors(doc) = {},
           RoundErrors = {}, Stable
    PROVE  Closure
<1>1. chosen = RoundChoice /\ constraints = RequiredBy(chosen)
    BY DEF Stable
<1>2. DOMAIN chosen \subseteq paths
    BY <1>1 DEF RoundChoice
<1>3. pins \cup implicit_roots \subseteq paths
    BY PinsAreReferences DEF paths, implicit_roots, valid_package_ref_name
<1>4. \A p \in paths :
        /\ p \in DOMAIN chosen
        /\ chosen[p] \in versions(p)
        /\ p \in pins => chosen[p] = Pin(p)
        /\ \A r \in requirements(p) : chosen[p] \in r.requirement
    BY <1>1, RoundChooses
<1>5. \A p : p \in DOMAIN constraints <=>
                \E q \in DOMAIN chosen : p \in DOMAIN Dependencies(q, chosen[q])
    BY <1>1 DEF RequiredBy
<1>6. ASSUME NEW p \in DOMAIN chosen,
             NEW d \in DOMAIN Dependencies(p, chosen[p]), Len(d) = 2
      PROVE  d \in DOMAIN chosen /\ chosen[d] \in Dependencies(p, chosen[p])[d]
    <2> DEFINE r == [required_by |-> p,
                     requirement |-> Dependencies(p, chosen[p])[d]]
    <2>1. d \in DOMAIN constraints
        BY <1>5
    <2>2. r \in constraints[d]
        BY <1>1, <2>1 DEF RequiredBy
    <2>3. d \in paths
        BY <1>6, <2>1 DEF paths
    <2>4. r \in requirements(d)
        BY <2>1, <2>2 DEF requirements
    <2>5. r.requirement = Dependencies(p, chosen[p])[d]
        OBVIOUS
    <2> HIDE DEF r
    <2> QED
        BY <1>4, <2>3, <2>4, <2>5
<1>7. ASSUME NEW p \in DOMAIN chosen
      PROVE  p \in pins \cup implicit_roots
                \/ \E q \in DOMAIN chosen : p \in DOMAIN Dependencies(q, chosen[q])
    BY <1>2, <1>5 DEF paths
<1> QED
    BY <1>2, <1>3, <1>4, <1>6, <1>7 DEF Closure

-----------------------------------------------------------------------------

(* The manifest of a resolution that goes on is one the parser accepts.      *)
ManifestParsed == phase \notin {"parse", "failed"} => ManifestErrors(doc) = {}

SelectionInv ==
    /\ registry \in Registries
    /\ ManifestParsed
    /\ ClosureConsistent

\* The property in terms of the selection.
LEMMA ClosureStated == ClosureConsistent <=> (Accepted => Closure)
BY DEF ClosureConsistent, Closure

(* What every step after the selection leaves alone.                         *)
AfterSelection ==
    /\ UNCHANGED <<doc, registry, chosen>>
    /\ phase \notin {"parse", "package_dependencies"}
    /\ phase = "failed" => phase' = "failed"

(* A closure is one of the manifest, the registry and the choice.            *)
LEMMA ClosureUnchanged ==
    ASSUME UNCHANGED <<doc, registry, chosen>>
    PROVE  Closure => Closure'
<1>1. pins' = pins /\ implicit_roots' = implicit_roots
    BY DEF pins, implicit_roots, valid_package_ref_name
<1>2. ASSUME NEW p
      PROVE  versions(p)' = versions(p)
    BY DEF versions
<1>3. ASSUME NEW p
      PROVE  Pin(p)' = Pin(p)
    BY DEF Pin
<1>4. ASSUME NEW p, NEW v
      PROVE  Dependencies(p, v)' = Dependencies(p, v)
    BY DEF Dependencies
<1>5. ASSUME Closure
      PROVE  Closure'
    <2>1. pins' \cup implicit_roots' \subseteq DOMAIN chosen'
        BY <1>1, <1>5 DEF Closure
    <2>2. ASSUME NEW p \in DOMAIN chosen'
          PROVE  /\ chosen'[p] \in versions(p)'
                 /\ p \in pins' => chosen'[p] = Pin(p)'
                 /\ \A d \in DOMAIN Dependencies(p, chosen[p])' : Len(d) = 2 =>
                        /\ d \in DOMAIN chosen'
                        /\ chosen'[d] \in Dependencies(p, chosen[p])'[d]
        BY <1>1, <1>2, <1>3, <1>4, <1>5 DEF Closure
    <2>3. ASSUME NEW p \in DOMAIN chosen'
          PROVE  p \in pins' \cup implicit_roots'
                    \/ \E q \in DOMAIN chosen' :
                            p \in DOMAIN Dependencies(q, chosen[q])'
        BY <1>1, <1>4, <1>5 DEF Closure
    <2> QED
        BY <2>1, <2>2, <2>3 DEF Closure
<1> QED
    BY <1>5

\* The phases after the selection keep it.
LEMMA AfterSelectionKeeps ==
    ASSUME SelectionInv, AfterSelection
    PROVE  SelectionInv'
<1>1. Closure => Closure'
    BY ClosureUnchanged DEF AfterSelection
<1>2. Accepted' => Accepted
    BY DEF Accepted, AfterSelection
<1>3. ClosureConsistent'
    BY <1>1, <1>2, ClosureStated DEF SelectionInv, ClosureConsistent, Closure
<1>4. ManifestParsed'
    BY DEF SelectionInv, ManifestParsed, AfterSelection
<1> QED
    BY <1>3, <1>4 DEF SelectionInv, AfterSelection

(* The selection's steps: only a round that changed nothing is accepted.     *)
LEMMA SelectKeeps ==
    ASSUME SelectionInv, SelectionNext
    PROVE  SelectionInv'
<1>1. CASE Parse
    BY <1>1 DEF Parse, Proceed, SelectionInv, ManifestParsed, ClosureConsistent, Accepted
<1>2. CASE Reselect
    BY <1>2 DEF Reselect, TakeRound, SelectionInv, ManifestParsed, ClosureConsistent,
        Accepted
<1>3. CASE Converge
    <2>1. /\ chosen' = chosen
          /\ UNCHANGED <<doc, registry>>
          /\ phase = "package_dependencies"
        BY <1>3 DEF Converge, TakeRound, Stable
    <2>2. CASE RoundErrors = {}
        <3>1. Closure
            BY <1>3, <2>1, <2>2, StableIsClosed
            DEF Converge, SelectionInv, ManifestParsed
        <3>2. Closure'
            BY <3>1, <2>1, ClosureUnchanged
        <3> QED
            BY <2>1, <3>2, ClosureStated DEF SelectionInv, ManifestParsed,
                ClosureConsistent, Closure
    <2>3. CASE RoundErrors # {}
        BY <1>3, <2>1, <2>3 DEF Converge, Proceed, SelectionInv, ManifestParsed,
            ClosureConsistent, Accepted
    <2> QED
        BY <2>2, <2>3
<1>4. CASE GiveUp
    <2>1. phase' = "failed"
        BY <1>4, Zenon DEF GiveUp, Proceed
    <2> QED
        BY <1>4, <2>1 DEF GiveUp, TakeRound, SelectionInv, ManifestParsed,
            ClosureConsistent, Accepted
<1> QED
    BY <1>1, <1>2, <1>3, <1>4 DEF SelectionNext

(* The allocation and the phases after it come after the selection.          *)
LEMMA AllocateAfterSelection == AllocationNext => AfterSelection
BY DEF AllocationNext, LoadTargets, ExpandGraph, ClaimConnector, RefuseClaim,
    SearchConnector, SearchFails, PlaceNext, FinishAllocation, AfterSelection

\* The validations and the lock come after the selection.
LEMMA ValidateAfterSelection ==
    ValidateElectrical \/ ValidateSafety \/ PartitionFirmware \/ PlanArtifacts
        \/ Lock \/ VerifyLock
    => AfterSelection
BY DEF ValidateElectrical, ValidateSafety, PartitionFirmware, PlanArtifacts, Validate,
    Lock, VerifyLock, AfterSelection, selectionVars

\* Every step keeps it.
LEMMA SelectionInvStep ==
    ASSUME SelectionInv, [LockNext]_<<vars, lockVars>>
    PROVE  SelectionInv'
<1>1. CASE LockNext /\ AfterSelection
    BY <1>1, AfterSelectionKeeps
<1>2. CASE Select
    BY <1>2, SelectKeeps DEF Select
<1>3. CASE UNCHANGED <<vars, lockVars>>
    <2>1. Closure => Closure'
        BY <1>3, ClosureUnchanged DEF vars, selectionVars
    <2> QED
        BY <1>3, <2>1, ClosureStated DEF vars, selectionVars, SelectionInv,
            ManifestParsed, ClosureConsistent, Closure, Accepted
<1>4. LockNext => Select \/ AfterSelection \/ UNCHANGED <<vars, lockVars>>
    BY AllocateAfterSelection, ValidateAfterSelection
    DEF LockNext, Resolve, Allocate, Stop
<1> QED
    BY <1>1, <1>2, <1>3, <1>4

(* Whatever the manifest, the registry and the number of rounds: what a      *)
(* resolution goes on with, to the lock, is a closure that holds together    *)
(* (PackageSelection::resolve).                                              *)
THEOREM ClosureTheorem == LockSpec => []ClosureConsistent
<1>1. LockInit => SelectionInv
    BY DEF LockInit, Init, SelectionInit, SelectionInv, ManifestParsed,
        ClosureConsistent, Accepted
<1>2. SelectionInv /\ [LockNext]_<<vars, lockVars>> => SelectionInv'
    BY SelectionInvStep
<1>3. SelectionInv => ClosureConsistent
    BY DEF SelectionInv
<1> QED
    BY <1>1, <1>2, <1>3, PTL DEF LockSpec

-----------------------------------------------------------------------------
(* The connectors and timers a resolution gives away.                        *)

(* What makes HardwareExclusive inductive.  The claims are the connectors    *)
(* given away, so that a connector that is not claimed was given to nobody;  *)
(* and a socket that steps has its timer among those reserved.               *)
ClaimsAreAssigned == claims = {a.resource : a \in assignments}

GivenOnce == \A a, b \in assignments : a.resource = b.resource => a = b

SteppedReserved ==
    StepRateDeclared =>
        \A r \in Stepped : StepTimers(r) # {} /\ Timer(r) \in timer_claims

TimersDiffer ==
    StepRateDeclared => \A r, s \in Stepped : Timer(r) = Timer(s) => r = s

(* What is given away depends on the manifest, the closure and the expanded  *)
(* machine, which nothing changes once something is given away.              *)
BeforeAllocation ==
    {"parse", "package_dependencies", "package_loading", "graph_expansion"}

NothingAssigned == phase \in BeforeAllocation => assignments = {} /\ claims = {}

ExclusiveInv ==
    /\ NothingAssigned
    /\ ClaimsAreAssigned
    /\ GivenOnce
    /\ SteppedReserved
    /\ TimersDiffer

\* It implies the property.
LEMMA InvIsExclusive == ExclusiveInv => HardwareExclusive
BY DEF ExclusiveInv, GivenOnce, SteppedReserved, TimersDiffer, HardwareExclusive,
    TimersSeparate

-----------------------------------------------------------------------------

Machine == <<doc, registry, chosen, expanded>>

(* What a board and its chip offer is one of the machine and the registry.   *)
LEMMA BoardUnchanged ==
    ASSUME UNCHANGED Machine, NEW c
    PROVE  Board(c)' = Board(c) /\ Chip(c)' = Chip(c)
<1>1. ASSUME NEW p
      PROVE  Payload(p)' = Payload(p)
    BY DEF Machine, Payload, PackageAt, select, versions
<1>2. Board(c)' = Board(c)
    BY <1>1 DEF Board, Machine
<1> QED
    BY <1>1, <1>2 DEF Chip

\* Nor do the connectors change.
LEMMA ConnectorUnchanged ==
    ASSUME UNCHANGED Machine, NEW r
    PROVE  Connector(r)' = Connector(r) /\ Capabilities(r)' = Capabilities(r)
<1>1. Board(r[1])' = Board(r[1]) /\ Chip(r[1])' = Chip(r[1])
    BY BoardUnchanged
<1>2. Connector(r)' = Connector(r)
    BY <1>1 DEF Connector
<1> QED
    BY <1>1, <1>2 DEF Capabilities

\* Nor the timers.
LEMMA TimerUnchanged ==
    ASSUME UNCHANGED Machine, NEW r
    PROVE  StepTimers(r)' = StepTimers(r) /\ Timer(r)' = Timer(r)
<1>1. Capabilities(r)' = Capabilities(r)
    BY ConnectorUnchanged
<1>2. StepTimers(r)' = StepTimers(r)
    BY <1>1 DEF StepTimers
<1> QED
    BY <1>1, <1>2 DEF Timer

\* Nor the rates.
LEMMA RateUnchanged ==
    ASSUME UNCHANGED Machine
    PROVE  StepRateDeclared' = StepRateDeclared
BY DEF Machine, StepRateDeclared, ParsesAs

(* Of the given resources those that step are told by the machine.           *)
Steps(r) == Connector(r).kind = Socket /\ "step" \in DOMAIN Capabilities(r)

\* Nor who is stepped.
LEMMA StepsUnchanged ==
    ASSUME UNCHANGED Machine, NEW r
    PROVE  Steps(r)' = Steps(r)
BY ConnectorUnchanged DEF Steps, Socket

(* A step that gives nothing away and does not touch the machine.            *)
Keeps ==
    /\ UNCHANGED Machine
    /\ UNCHANGED <<claims, timer_claims, assignments>>
    /\ phase' \in BeforeAllocation => phase \in BeforeAllocation

\* Such a step keeps the exclusivity.
LEMMA KeepsExclusive ==
    ASSUME ExclusiveInv, Keeps
    PROVE  ExclusiveInv'
<1>1. Stepped' = Stepped
    <2>1. \A r : Steps(r)' = Steps(r)
        BY StepsUnchanged DEF Keeps
    <2> QED
        BY <2>1 DEF Keeps, Stepped, SocketsDriven, Steps
<1>2. \A r : StepTimers(r)' = StepTimers(r) /\ Timer(r)' = Timer(r)
    BY TimerUnchanged DEF Keeps
<1>3. StepRateDeclared' = StepRateDeclared
    BY RateUnchanged DEF Keeps
<1>4. NothingAssigned'
    BY DEF ExclusiveInv, NothingAssigned, Keeps
<1>5. ClaimsAreAssigned' /\ GivenOnce'
    BY DEF ExclusiveInv, ClaimsAreAssigned, GivenOnce, Keeps
<1>6. SteppedReserved' /\ TimersDiffer'
    BY <1>1, <1>2, <1>3 DEF ExclusiveInv, SteppedReserved, TimersDiffer, Keeps
<1> QED
    BY <1>4, <1>5, <1>6 DEF ExclusiveInv

(* A step before anything is given away.                                     *)
Begins ==
    /\ phase \in BeforeAllocation
    /\ UNCHANGED <<claims, timer_claims, assignments>>

\* So does one that begins the allocation anew.
LEMMA BeginsExclusive ==
    ASSUME ExclusiveInv, Begins
    PROVE  ExclusiveInv'
<1>1. assignments' = {} /\ claims' = {}
    BY DEF ExclusiveInv, NothingAssigned, Begins
<1>2. Stepped' = {}
    BY <1>1 DEF Stepped, SocketsDriven
<1> QED
    BY <1>1, <1>2 DEF ExclusiveInv, NothingAssigned, ClaimsAreAssigned, GivenOnce,
        SteppedReserved, TimersDiffer

(* A connector is given away that nobody has, and its timer with it.         *)
LEMMA GrantExclusive ==
    ASSUME ExclusiveInv, UNCHANGED Machine,
           phase \notin BeforeAllocation, phase' = phase,
           NEW component, NEW via, NEW resource, NEW kind,
           resource \notin claims, kind = Connector(resource).kind,
           TimerFree(resource, kind),
           Grant(component, via, resource, kind)
    PROVE  ExclusiveInv'
<1> DEFINE given == [component |-> component, via |-> via, resource |-> resource]
<1>1. /\ assignments' = assignments \cup {given}
      /\ claims' = claims \cup {resource}
      /\ given.resource = resource
    BY DEF Grant
<1> HIDE DEF given
<1>2. NothingAssigned'
    BY DEF NothingAssigned
<1>3. ClaimsAreAssigned'
    BY <1>1 DEF ExclusiveInv, ClaimsAreAssigned
<1>4. GivenOnce'
    BY <1>1 DEF ExclusiveInv, ClaimsAreAssigned, GivenOnce
<1>5. /\ \A r : Steps(r)' = Steps(r)
      /\ \A r : StepTimers(r)' = StepTimers(r) /\ Timer(r)' = Timer(r)
      /\ StepRateDeclared' = StepRateDeclared
    BY StepsUnchanged, TimerUnchanged, RateUnchanged
<1>6. Stepped' = Stepped \cup {r \in {resource} : Steps(r)}
    BY <1>1, <1>5 DEF Stepped, SocketsDriven, Steps
<1>7. CASE ~StepRateDeclared
    BY <1>2, <1>3, <1>4, <1>5, <1>7
    DEF ExclusiveInv, SteppedReserved, TimersDiffer
<1>8. CASE StepRateDeclared /\ ~Steps(resource)
    <2>1. Stepped' = Stepped
        BY <1>6, <1>8
    <2>2. timer_claims \subseteq timer_claims'
        BY DEF Grant
    <2> QED
        BY <1>2, <1>3, <1>4, <1>5, <2>1, <2>2
        DEF ExclusiveInv, SteppedReserved, TimersDiffer
<1>9. CASE StepRateDeclared /\ Steps(resource)
    <2>1. NeedsTimer(resource, kind)
        BY <1>9 DEF NeedsTimer, Steps
    <2>2. /\ StepTimers(resource) # {}
          /\ Timer(resource) \notin timer_claims
          /\ timer_claims' = timer_claims \cup {Timer(resource)}
        BY <2>1 DEF TimerFree, Grant
    <2>3. Stepped' = Stepped \cup {resource}
        BY <1>6, <1>9
    <2>4. SteppedReserved'
        BY <1>5, <2>2, <2>3 DEF ExclusiveInv, SteppedReserved
    <2>5. TimersDiffer'
        BY <1>5, <1>9, <2>2, <2>3 DEF ExclusiveInv, SteppedReserved, TimersDiffer
    <2> QED
        BY <1>2, <1>3, <1>4, <2>4, <2>5 DEF ExclusiveInv
<1> QED
    BY <1>7, <1>8, <1>9

-----------------------------------------------------------------------------
(* The phases.                                                               *)

\* The selection leads to an allocation that has not begun.
LEMMA SelectionBegins ==
    SelectionNext /\ UNCHANGED allocationVars => Begins
BY DEF SelectionNext, Parse, Reselect, Converge, GiveUp, TakeRound, Begins,
    BeforeAllocation, allocationVars

\* Every step of the allocation keeps it.
LEMMA AllocationExclusive ==
    ASSUME ExclusiveInv, AllocationNext
    PROVE  ExclusiveInv'
<1>1. CASE LoadTargets \/ ExpandGraph
    <2>1. Begins
        BY <1>1, Zenon DEF LoadTargets, ExpandGraph, Begins, BeforeAllocation,
            allocationVars
    <2> QED
        BY <2>1, BeginsExclusive
<1>2. CASE ClaimConnector
    <2>1. PICK p \in pending :
            /\ PlaceNext(p)
            /\ Claimable(p[1], p[2], Target(p))
            /\ Grant(p[1], p[2], Target(p), ExpectedKind(p[1], p[2]))
        BY <1>2 DEF ClaimConnector
    <2>2. /\ UNCHANGED Machine
          /\ phase' = phase /\ phase \notin BeforeAllocation
        BY <2>1 DEF PlaceNext, Machine, BeforeAllocation
    <2>3. /\ Target(p) \notin claims
          /\ ExpectedKind(p[1], p[2]) = Connector(Target(p)).kind
          /\ TimerFree(Target(p), ExpectedKind(p[1], p[2]))
        BY <2>1 DEF Claimable
    <2> QED
        BY <2>1, <2>2, <2>3, GrantExclusive
<1>3. CASE SearchConnector
    <2>1. PICK p \in pending :
            /\ PlaceNext(p)
            /\ \E port \in Eligible(p[1]) :
                Grant(p[1], Search, <<SearchedController(p[1]), port>>,
                      Connector(<<SearchedController(p[1]), port>>).kind)
        BY <1>3, Zenon DEF SearchConnector
    <2>2. /\ UNCHANGED Machine
          /\ phase' = phase /\ phase \notin BeforeAllocation
        BY <2>1 DEF PlaceNext, Machine, BeforeAllocation
    <2>3. PICK port \in Eligible(p[1]) :
            Grant(p[1], Search, <<SearchedController(p[1]), port>>,
                  Connector(<<SearchedController(p[1]), port>>).kind)
        BY <2>1
    <2> DEFINE resource == <<SearchedController(p[1]), port>>
    <2>4. /\ resource \notin claims
          /\ TimerFree(resource, Connector(resource).kind)
        BY Zenon DEF Eligible
    <2> HIDE DEF resource
    <2> QED
        BY <2>2, <2>3, <2>4, GrantExclusive DEF resource
<1>4. CASE RefuseClaim \/ SearchFails \/ FinishAllocation
    <2>1. Keeps
        BY <1>4, Zenon DEF RefuseClaim, SearchFails, FinishAllocation, PlaceNext, Refuse,
            Proceed, Keeps, Machine, BeforeAllocation, allocationVars
    <2> QED
        BY <2>1, KeepsExclusive
<1> QED
    BY <1>1, <1>2, <1>3, <1>4 DEF AllocationNext

(* Nothing is given away or taken back afterwards.                           *)
LEMMA LaterKeeps ==
    ValidateElectrical \/ ValidateSafety \/ PartitionFirmware \/ PlanArtifacts
        \/ Lock \/ VerifyLock \/ UNCHANGED <<vars, lockVars>>
    => Keeps
<1>1. ASSUME NEW this, NEW found, NEW next, next \notin BeforeAllocation,
             Validate(this, found, next)
      PROVE  Keeps
    BY <1>1 DEF Validate, Proceed, allocationVars, Keeps, Machine, BeforeAllocation
<1>2. CASE ValidateElectrical
    BY <1>1, <1>2 DEF ValidateElectrical, BeforeAllocation
<1>3. CASE ValidateSafety
    BY <1>1, <1>3 DEF ValidateSafety, BeforeAllocation
<1>4. CASE PartitionFirmware
    BY <1>1, <1>4 DEF PartitionFirmware, BeforeAllocation
<1>5. CASE PlanArtifacts
    BY <1>1, <1>5 DEF PlanArtifacts, BeforeAllocation
<1>6. CASE Lock
    BY <1>6 DEF Lock, Proceed, allocationVars, Keeps, Machine, BeforeAllocation
<1>7. CASE VerifyLock \/ UNCHANGED <<vars, lockVars>>
    BY <1>7 DEF VerifyLock, vars, selectionVars, allocationVars, Keeps, Machine
<1> QED
    BY <1>2, <1>3, <1>4, <1>5, <1>6, <1>7

\* Every step keeps it.
LEMMA ExclusiveStep ==
    ASSUME ExclusiveInv, [LockNext]_<<vars, lockVars>>
    PROVE  ExclusiveInv'
<1>1. CASE Select
    <2>1. Begins
        BY <1>1, SelectionBegins DEF Select
    <2> QED
        BY <2>1, BeginsExclusive
<1>2. CASE Allocate
    BY <1>2, AllocationExclusive DEF Allocate
<1>3. CASE Keeps
    BY <1>3, KeepsExclusive
<1> QED
    BY <1>1, <1>2, <1>3, LaterKeeps DEF LockNext, Resolve, Stop

(* No connector is ever given to two components or claims, and under a       *)
(* declared step rate no two motors step from one timer channel, whatever    *)
(* the machine, its boards and its devices (allocation::allocate).           *)
THEOREM ExclusiveTheorem == LockSpec => []HardwareExclusive
<1>1. LockInit => ExclusiveInv
    <2> SUFFICES ASSUME LockInit PROVE ExclusiveInv
        OBVIOUS
    <2>1. assignments = {} /\ claims = {}
        BY DEF LockInit, Init, AllocationInit
    <2>2. Stepped = {}
        BY <2>1 DEF Stepped, SocketsDriven
    <2> QED
        BY <2>1, <2>2 DEF ExclusiveInv, NothingAssigned, ClaimsAreAssigned, GivenOnce,
            SteppedReserved, TimersDiffer
<1>2. ExclusiveInv /\ [LockNext]_<<vars, lockVars>> => ExclusiveInv'
    BY ExclusiveStep
<1>3. ExclusiveInv => HardwareExclusive
    BY InvIsExclusive
<1> QED
    BY <1>1, <1>2, <1>3, PTL DEF LockSpec

-----------------------------------------------------------------------------
(* The safety policy of a resolved machine.                                  *)

(* What the partition has to start from: every component passed, and no two  *)
(* components govern a resource.                                             *)
SafetyValidated == \A c \in DOMAIN components : ComponentSafetyErrors(c) = {}

GovernedOnce ==
    \A r \in GovernedResources : \A c, d \in Governors(r) : c = d

Partition ==
    UNION {{SafetyBinding(c, r) : c \in FirstGovernor(r)} : r \in GovernedResources}

(* What makes HazardsGuarded inductive: what the phases have established so  *)
(* far of a machine that does not change any more.                           *)
SafetyInv ==
    /\ phase \in {"firmware_partitioning", "artifact_planning", "resolved"}
        => SafetyValidated
    /\ phase \in {"artifact_planning", "resolved"}
        => GovernedOnce /\ controller_safety = Partition

-----------------------------------------------------------------------------
(* Of a machine that passed, whatever can heat or move is guarded.           *)

\* A policy covers the component of every hazard.
LEMMA HazardIsGoverned ==
    ASSUME SafetyValidated,
           NEW c \in DOMAIN components, NEW r \in Hazards(c)
    PROVE  Covered(c) /\ r \in SafetyTargets(c)
<1>1. ComponentSafetyErrors(c) = {}
    BY DEF SafetyValidated
<1>2. Hazardous(c)
    BY Zenon DEF Hazards, Hazardous
<1>3. r \in SafetyTargets(c)
    BY DEF Hazards, SafetyTargets, Delegates
<1>4. Covered(c)
    BY <1>1, <1>2 DEF ComponentSafetyErrors, Code
<1> QED
    BY <1>3, <1>4

\* Where the policy requires a sensor, there is one on the same controller.
LEMMA SensorIsThere ==
    ASSUME SafetyValidated,
           NEW c \in DOMAIN components, NEW r \in SafetyTargets(c),
           Covered(c), Policy(c).requires_sensor
    PROVE  SensorInputs(c, r[1]) # {}
<1>1. ComponentSafetyErrors(c) = {}
    BY DEF SafetyValidated
<1>2. SensorErrors(c) = {}
    BY <1>1, Zenon DEF ComponentSafetyErrors
<1>3. Code("E1504", \E s \in SafetyTargets(c) : SensorInputs(c, s[1]) = {}) = {}
    BY <1>2 DEF SensorErrors
<1> QED
    BY <1>3 DEF Code

\* The partition binds every hazard to its policy.
LEMMA PartitionGuards ==
    ASSUME SafetyValidated, GovernedOnce, controller_safety = Partition,
           NEW c \in DOMAIN components, NEW r \in Hazards(c)
    PROVE  \E b \in controller_safety :
                /\ Bindings(r) = {b}
                /\ b.component = c
                /\ b.state = Policy(c).safe_state
                /\ Policy(c).requires_sensor =>
                    /\ b.sensor \in ResourcesOf(Attribute(c, "sensor"))
                    /\ b.sensor[1] = r[1]
                    /\ Connector(b.sensor).kind \in SensorKinds
<1> DEFINE b == SafetyBinding(c, r)
<1>1. Covered(c) /\ r \in SafetyTargets(c)
    BY HazardIsGoverned
<1>2. r \in GovernedResources /\ c \in Governors(r)
    BY <1>1 DEF GovernedResources, Governors
<1>3. Governors(r) = {c}
    BY <1>2 DEF GovernedOnce
<1>4. FirstGovernor(r) = {c}
    BY <1>3 DEF FirstGovernor
<1>5. b \in controller_safety
    BY <1>2, <1>4 DEF Partition
<1>6. \A d, s : SafetyBinding(d, s).resource = s
    BY DEF SafetyBinding
<1>7. Bindings(r) = {b}
    <2>1. ASSUME NEW other \in controller_safety, other.resource = r
          PROVE  other = b
        <3>1. PICK s \in GovernedResources :
                \E d \in FirstGovernor(s) : other = SafetyBinding(d, s)
            BY <2>1 DEF Partition
        <3>2. s = r
            BY <2>1, <3>1, <1>6
        <3> QED
            BY <3>1, <3>2, <1>4
    <2> QED
        BY <2>1, <1>5, <1>6 DEF Bindings
<1>8. b.component = c /\ b.state = Policy(c).safe_state
    BY DEF SafetyBinding
<1>9. ASSUME Policy(c).requires_sensor
      PROVE  /\ b.sensor \in ResourcesOf(Attribute(c, "sensor"))
             /\ b.sensor[1] = r[1]
             /\ Connector(b.sensor).kind \in SensorKinds
    <2>1. SensorInputs(c, r[1]) # {}
        BY <1>1, <1>9, SensorIsThere
    <2>2. b.sensor = CHOOSE s \in SensorInputs(c, r[1]) : TRUE
        BY <1>9, <2>1 DEF SafetyBinding
    <2>3. b.sensor \in SensorInputs(c, r[1])
        BY <2>1, <2>2
    <2> HIDE DEF b
    <2> QED
        BY <2>3 DEF SensorInputs
<1> QED
    BY <1>5, <1>7, <1>8, <1>9

\* It implies the property.
LEMMA InvIsGuarded == SafetyInv => HazardsGuarded
BY PartitionGuards DEF SafetyInv, HazardsGuarded

-----------------------------------------------------------------------------
(* What all this is computed from does not change once it is allocated.      *)

AssignedMachine == <<doc, registry, chosen, expanded, assignments>>

\* The attributes of the components stay what they are ...
LEMMA AttributesUnchanged ==
    ASSUME UNCHANGED AssignedMachine
    PROVE  /\ components' = components
           /\ \A c, n : Attribute(c, n)' = Attribute(c, n)
           /\ \A c : Covered(c)' = Covered(c) /\ Policy(c)' = Policy(c)
<1>1. components' = components
    BY DEF AssignedMachine, components
<1>2. Policies' = Policies
    <2>1. doc'.profile = doc.profile
        BY DEF AssignedMachine
    <2>2. Payload(doc.profile)' = Payload(doc.profile)
        BY <2>1 DEF AssignedMachine, Payload, PackageAt, select, versions
    <2> QED
        BY <2>2 DEF Policies
<1>3. ASSUME NEW c, NEW n
      PROVE  Attribute(c, n)' = Attribute(c, n)
    BY <1>1 DEF Attribute
<1>4. ASSUME NEW c
      PROVE  Covered(c)' = Covered(c) /\ Policy(c)' = Policy(c)
    BY <1>1, <1>2 DEF Covered, Policy
<1> QED
    BY <1>1, <1>3, <1>4

\* ... and so do their resources,
LEMMA ResourcesUnchanged ==
    ASSUME UNCHANGED AssignedMachine
    PROVE  /\ \A c : ResourcesOf(c)' = ResourcesOf(c)
           /\ \A r : Connector(r)' = Connector(r)
<1>1. ASSUME NEW c
      PROVE  ResourcesOf(c)' = ResourcesOf(c)
    BY DEF AssignedMachine, ResourcesOf, Assigned
<1>2. ASSUME NEW r
      PROVE  Connector(r)' = Connector(r)
    <2>1. Board(r[1])' = Board(r[1])
        BY DEF Board, AssignedMachine, Payload, PackageAt, select, versions
    <2> QED
        BY <2>1 DEF Connector
<1> QED
    BY <1>1, <1>2

\* what a policy of theirs governs,
LEMMA TargetsUnchanged ==
    ASSUME UNCHANGED AssignedMachine, NEW c
    PROVE  /\ Delegates(c)' = Delegates(c)
           /\ SafetyTargets(c)' = SafetyTargets(c)
           /\ \A controller : SensorInputs(c, controller)' = SensorInputs(c, controller)
<1>1. /\ ResourcesOf(c)' = ResourcesOf(c)
      /\ Attribute(c, "driver")' = Attribute(c, "driver")
      /\ Attribute(c, "sensor")' = Attribute(c, "sensor")
    BY AttributesUnchanged, ResourcesUnchanged
<1>2. ResourcesOf(Attribute(c, "driver"))' = ResourcesOf(Attribute(c, "driver"))
    BY <1>1 DEF AssignedMachine, ResourcesOf, Assigned
<1>3. ResourcesOf(Attribute(c, "sensor"))' = ResourcesOf(Attribute(c, "sensor"))
    BY <1>1 DEF AssignedMachine, ResourcesOf, Assigned
<1>4. Delegates(c)' = Delegates(c)
    BY <1>1 DEF Delegates
<1>5. SafetyTargets(c)' = SafetyTargets(c)
    BY <1>1, <1>2, <1>4 DEF SafetyTargets
<1>6. ASSUME NEW controller
      PROVE  SensorInputs(c, controller)' = SensorInputs(c, controller)
    BY <1>3, ResourcesUnchanged DEF SensorInputs, SensorKinds
<1> QED
    BY <1>4, <1>5, <1>6

\* the errors the validation finds,
LEMMA ErrorsUnchanged ==
    ASSUME UNCHANGED AssignedMachine, NEW c
    PROVE  ComponentSafetyErrors(c)' = ComponentSafetyErrors(c)
<1>1. /\ ResourcesOf(c)' = ResourcesOf(c)
      /\ \A r : Connector(r)' = Connector(r)
      /\ Attribute(c, "driver")' = Attribute(c, "driver")
      /\ Attribute(c, "sensor")' = Attribute(c, "sensor")
      /\ Covered(c)' = Covered(c) /\ Policy(c)' = Policy(c)
    BY AttributesUnchanged, ResourcesUnchanged
<1>2. /\ Delegates(c)' = Delegates(c)
      /\ SafetyTargets(c)' = SafetyTargets(c)
      /\ \A controller : SensorInputs(c, controller)' = SensorInputs(c, controller)
    BY TargetsUnchanged
<1>3. ResourcesOf(Attribute(c, "sensor"))' = ResourcesOf(Attribute(c, "sensor"))
    BY <1>1 DEF AssignedMachine, ResourcesOf, Assigned
<1>4. DriverMisfit(c)' = DriverMisfit(c)
    BY <1>1, <1>2 DEF DriverMisfit, Socket
<1>5. Hazardous(c)' = Hazardous(c)
    BY <1>1, <1>2 DEF Hazardous
<1>6. SensorErrors(c)' = SensorErrors(c)
    BY <1>1, <1>2, <1>3 DEF SensorErrors, SensorKinds, Code
<1> QED
    BY <1>1, <1>2, <1>4, <1>5, <1>6 DEF ComponentSafetyErrors, Code

\* its verdict,
LEMMA ValidationUnchanged ==
    ASSUME UNCHANGED AssignedMachine
    PROVE  SafetyValidated' = SafetyValidated
BY ErrorsUnchanged, AttributesUnchanged DEF SafetyValidated

\* and the partition that follows from it.
LEMMA PartitionUnchanged ==
    ASSUME UNCHANGED AssignedMachine
    PROVE  GovernedOnce' = GovernedOnce /\ Partition' = Partition
<1>1. components' = components
    BY AttributesUnchanged
<1>2. \A c : Covered(c)' = Covered(c) /\ SafetyTargets(c)' = SafetyTargets(c)
    BY AttributesUnchanged, TargetsUnchanged
<1>3. GovernedResources' = GovernedResources
    BY <1>1, <1>2 DEF GovernedResources
<1>4. ASSUME NEW r
      PROVE  /\ Governors(r)' = Governors(r)
             /\ FirstGovernor(r)' = FirstGovernor(r)
    BY <1>1, <1>2 DEF Governors, FirstGovernor
<1>5. ASSUME NEW c, NEW r
      PROVE  SafetyBinding(c, r)' = SafetyBinding(c, r)
    <2>1. SensorInputs(c, r[1])' = SensorInputs(c, r[1])
        BY TargetsUnchanged
    <2>2. Policy(c)' = Policy(c)
        BY AttributesUnchanged
    <2> QED
        BY <1>1, <2>1, <2>2 DEF SafetyBinding
<1>6. GovernedOnce' = GovernedOnce
    BY <1>3, <1>4 DEF GovernedOnce
<1>7. Partition' = Partition
    BY <1>3, <1>4, <1>5 DEF Partition
<1> QED
    BY <1>6, <1>7

-----------------------------------------------------------------------------
(* The phases.                                                               *)

Established == {"firmware_partitioning", "artifact_planning", "resolved"}

(* A step that goes on to none of the phases the invariant speaks of.        *)
LEMMA ElsewhereSafe ==
    ASSUME phase' \notin Established
    PROVE  SafetyInv'
BY DEF SafetyInv, Established

\* The selection does not end in an established phase.
LEMMA SelectElsewhere == SelectionNext => phase' \notin Established
<1>1. CASE Parse
    BY <1>1 DEF Parse, Proceed, Established
<1>2. CASE Reselect
    BY <1>2 DEF Reselect, TakeRound, Established
<1>3. CASE Converge
    BY <1>3 DEF Converge, Proceed, Established
<1>4. CASE GiveUp
    <2>1. PICK found : Proceed(found, "package_loading")
        BY <1>4, Zenon DEF GiveUp
    <2> QED
        BY <2>1 DEF Proceed, Established
<1> QED
    BY <1>1, <1>2, <1>3, <1>4 DEF SelectionNext

\* Nor does the allocation.
LEMMA AllocateElsewhere == AllocationNext => phase' \notin Established
<1>1. ASSUME NEW found, NEW next, Proceed(found, next), next \notin Established
      PROVE  phase' \notin Established
    BY <1>1 DEF Proceed, Established
<1>2. CASE LoadTargets
    <2>1. PICK found : Proceed(found, "graph_expansion")
        BY <1>2, Zenon DEF LoadTargets
    <2> QED
        BY <1>1, <2>1 DEF Established
<1>3. CASE ExpandGraph
    <2>1. PICK found : Proceed(found, "resource_allocation")
        BY <1>3, Zenon DEF ExpandGraph
    <2> QED
        BY <1>1, <2>1 DEF Established
<1>4. CASE FinishAllocation
    BY <1>1, <1>4 DEF FinishAllocation, Established
<1>5. CASE ClaimConnector \/ RefuseClaim \/ SearchConnector \/ SearchFails
    BY <1>5 DEF ClaimConnector, RefuseClaim, SearchConnector, SearchFails, PlaceNext,
        Established
<1> QED
    BY <1>2, <1>3, <1>4, <1>5 DEF AllocationNext

\* The safety validation establishes it.
LEMMA ValidateSafetyKeeps ==
    ASSUME ValidateSafety
    PROVE  SafetyInv'
<1> DEFINE found == SafetyErrors \cup UNION {WorkflowErrors(w) : w \in DOMAIN doc.workflows}
<1>1. /\ Proceed(found, "firmware_partitioning")
      /\ UNCHANGED AssignedMachine
    BY Zenon DEF ValidateSafety, Validate, AssignedMachine, allocationVars
<1>2. CASE SafetyErrors # {}
    <2>1. found # {}
        BY <1>2
    <2> HIDE DEF found
    <2>2. phase' = "failed"
        BY <1>1, <2>1 DEF Proceed
    <2> QED
        BY <2>2, ElsewhereSafe DEF Established
<1>3. CASE SafetyErrors = {}
    <2>1. SafetyErrors = UNION {ComponentSafetyErrors(c) : c \in DOMAIN components}
        <3>1. PayloadErrors(PackageAt(doc.profile), "safety-profile") # {}
                \/ Readable(doc.profile, "safety-profile") \/ select(doc.profile) = None
            BY Zenon DEF Readable
        <3> QED
            BY <1>3, <3>1 DEF SafetyErrors
    <2>2. SafetyValidated
        BY <1>3, <2>1, Zenon DEF SafetyValidated
    <2>3. SafetyValidated'
        BY <1>1, <2>2, ValidationUnchanged
    <2> HIDE DEF found
    <2>4. phase' \in {"failed", "firmware_partitioning"}
        BY <1>1 DEF Proceed
    <2> QED
        BY <2>3, <2>4 DEF SafetyInv
<1> QED
    BY <1>2, <1>3

\* The partitioning keeps it.
LEMMA PartitionKeeps ==
    ASSUME SafetyInv, PartitionFirmware
    PROVE  SafetyInv'
<1> DEFINE found == Code("E1508", \E r \in GovernedResources :
                                    \E c, d \in Governors(r) : c # d)
<1>1. /\ phase = "firmware_partitioning"
      /\ Proceed(found, "artifact_planning")
      /\ UNCHANGED AssignedMachine
      /\ controller_safety' = Partition
    BY Zenon DEF PartitionFirmware, Validate, AssignedMachine, allocationVars, Partition
<1>2. SafetyValidated' /\ controller_safety' = Partition'
    BY <1>1, ValidationUnchanged, PartitionUnchanged DEF SafetyInv
<1>3. CASE GovernedOnce
    <2>1. GovernedOnce'
        BY <1>1, <1>3, PartitionUnchanged
    <2> QED
        BY <1>2, <2>1 DEF SafetyInv
<1>4. CASE ~GovernedOnce
    <2>1. found # {}
        BY <1>4 DEF GovernedOnce, Code
    <2> HIDE DEF found
    <2>2. phase' = "failed"
        BY <1>1, <2>1 DEF Proceed
    <2> QED
        BY <2>2, ElsewhereSafe DEF Established
<1> QED
    BY <1>3, <1>4

(* The rest leaves the machine and its partition alone.                      *)
LEMMA UnchangedSafe ==
    ASSUME SafetyInv, UNCHANGED AssignedMachine, UNCHANGED controller_safety,
           phase' \in Established =>
                phase = phase' \/ (phase = "artifact_planning" /\ phase' = "resolved")
    PROVE  SafetyInv'
BY ValidationUnchanged, PartitionUnchanged DEF SafetyInv, Established

\* Every step keeps it.
LEMMA SafetyInvStep ==
    ASSUME SafetyInv, [LockNext]_<<vars, lockVars>>
    PROVE  SafetyInv'
<1>1. CASE Select \/ Allocate
    BY <1>1, SelectElsewhere, AllocateElsewhere, ElsewhereSafe DEF Select, Allocate
<1>2. CASE ValidateElectrical
    <2>1. phase' \notin Established
        BY <1>2 DEF ValidateElectrical, Validate, Proceed, Established
    <2> QED
        BY <2>1, ElsewhereSafe
<1>3. CASE ValidateSafety
    BY <1>3, ValidateSafetyKeeps
<1>4. CASE PartitionFirmware
    BY <1>4, PartitionKeeps
<1>5. CASE PlanArtifacts
    <2>1. /\ phase = "artifact_planning"
          /\ phase' \in {"failed", "resolved"}
          /\ UNCHANGED AssignedMachine /\ UNCHANGED controller_safety
        BY <1>5 DEF PlanArtifacts, Validate, Proceed, AssignedMachine, allocationVars
    <2> QED
        BY <2>1, UnchangedSafe DEF Established
<1>6. CASE Lock
    <2>1. phase' \notin Established
        BY <1>6 DEF Lock, Proceed, Established
    <2> QED
        BY <2>1, ElsewhereSafe
<1>7. CASE VerifyLock \/ UNCHANGED <<vars, lockVars>>
    BY <1>7, UnchangedSafe
    DEF VerifyLock, vars, selectionVars, allocationVars, resolverVars, AssignedMachine
<1> QED
    BY <1>1, <1>2, <1>3, <1>4, <1>5, <1>6, <1>7 DEF LockNext, Resolve, Stop

(* A machine is not resolved unless whatever in it can heat or move has one  *)
(* safe state on its own controller, and the sensor its class demands beside *)
(* it (safety::validate, safety::partition).                                 *)
THEOREM GuardedTheorem == LockSpec => []HazardsGuarded
<1>1. LockInit => SafetyInv
    BY DEF LockInit, Init, SelectionInit, SafetyInv
<1>2. SafetyInv /\ [LockNext]_<<vars, lockVars>> => SafetyInv'
    BY SafetyInvStep
<1>3. SafetyInv => HazardsGuarded
    BY InvIsGuarded
<1> QED
    BY <1>1, <1>2, <1>3, PTL DEF LockSpec
-----------------------------------------------------------------------------
(* What was placed, and where.                                               *)

(* What the lock needs to know of the assignments: it finds them by their    *)
(* component and claim, which must not be ambiguous, and files them under a  *)
(* controller, which must be one of the machine's.                           *)
Allocating == {"graph_expansion", "resource_allocation"}

\* The connectors of the machine's boards have names, once the boards are read.
ConnectorsNamed ==
    phase \in Allocating =>
        \A c \in DOMAIN doc.controllers : DOMAIN Board(c).connectors \subseteq Identifiers

\* What was placed is not placed again,
KeysFresh == \A a \in assignments : <<a.component, a.via>> \notin pending

\* so that a claim of a component got one connector.
KeysUnique ==
    \A a, b \in assignments : a.component = b.component /\ a.via = b.via => a = b

\* What is given away is a connector of one of the machine's controllers.
ResourcesNamed ==
    \A a \in assignments :
        /\ a.resource \in Identifiers \X Identifiers
        /\ a.resource[1] \in DOMAIN doc.controllers

PlacementsPaired == \A p \in pending : p = <<p[1], p[2]>>

KeyInv ==
    ConnectorsNamed /\ KeysFresh /\ KeysUnique /\ ResourcesNamed /\ PlacementsPaired

\* The names of a parsed manifest's controllers are identifiers.
LEMMA ControllersNamed ==
    ASSUME ManifestErrors(doc) = {}
    PROVE  DOMAIN doc.controllers \subseteq Identifiers
<1> DEFINE names == DOMAIN doc.controllers \cup DOMAIN doc.components
                        \cup DOMAIN doc.workflows
<1>1. Code("E0300", \E n \in names : ~valid_identifier(n)) \subseteq ManifestErrors(doc)
    BY Zenon DEF ManifestErrors
<1>2. \A n \in names : valid_identifier(n)
    BY <1>1 DEF Code
<1> QED
    BY <1>2 DEF valid_identifier

\* So are those of the connectors of a board that was read.
LEMMA ReadConnectorsNamed ==
    ASSUME NEW c, TargetErrors(c) = {}
    PROVE  DOMAIN Board(c).connectors \subseteq Identifiers
<1> DEFINE board == Board(c)
           ref == doc.controllers[c].board
<1>1. Readable(ref, "board")
    BY Zenon DEF TargetErrors, Readable
<1>2. BoardErrors(board) = {}
    BY <1>1 DEF Readable, PayloadErrors, Board, Payload
<1>3. Code("E0613", \E n \in DOMAIN board.connectors : ~valid_identifier(n))
        \subseteq BoardErrors(board)
    BY Zenon DEF BoardErrors
<1> HIDE DEF board
<1>4. \A n \in DOMAIN board.connectors : valid_identifier(n)
    BY <1>2, <1>3 DEF Code
<1> QED
    BY <1>4 DEF valid_identifier, board

\* The boards are those of the manifest and the selection.
LEMMA ConnectorsUnchanged ==
    ASSUME UNCHANGED <<doc, registry, chosen>>, phase' \in Allocating => phase \in Allocating,
           ConnectorsNamed
    PROVE  ConnectorsNamed'
<1>1. ASSUME NEW c
      PROVE  Board(c)' = Board(c)
    BY DEF Board, Payload, PackageAt, select, versions
<1> QED
    BY <1>1 DEF ConnectorsNamed, Allocating

\* A step that gives nothing away.
LEMMA KeysKept ==
    ASSUME KeyInv, ConnectorsNamed', UNCHANGED assignments,
           pending' \subseteq pending, doc' = doc
    PROVE  KeyInv'
BY DEF KeyInv, KeysFresh, KeysUnique, ResourcesNamed, PlacementsPaired

\* A step before anything is given away.
LEMMA KeysBegin ==
    ASSUME ConnectorsNamed', assignments' = {}, PlacementsPaired'
    PROVE  KeyInv'
BY DEF KeyInv, KeysFresh, KeysUnique, ResourcesNamed, PlacementsPaired

\* A placement is given a connector of a controller.
LEMMA KeysGranted ==
    ASSUME KeyInv, phase = "resource_allocation", ManifestErrors(doc) = {},
           NEW p \in pending, PlaceNext(p),
           NEW c \in DOMAIN doc.controllers, NEW port \in DOMAIN Board(c).connectors,
           NEW kind, Grant(p[1], p[2], <<c, port>>, kind)
    PROVE  KeyInv'
<1> DEFINE given == [component |-> p[1], via |-> p[2], resource |-> <<c, port>>]
<1>1. /\ assignments' = assignments \cup {given}
      /\ pending' = pending \ {p}
      /\ UNCHANGED <<phase, doc, registry, chosen>>
    BY DEF Grant, PlaceNext
<1>2. /\ <<given.component, given.via>> = p
      /\ given.resource = <<c, port>> /\ given.resource[1] = c
    BY DEF KeyInv, PlacementsPaired
<1> HIDE DEF given
<1>3. <<c, port>> \in Identifiers \X Identifiers
    BY ControllersNamed DEF KeyInv, ConnectorsNamed, Allocating
<1>4. ConnectorsNamed'
    BY <1>1, ConnectorsUnchanged DEF KeyInv
<1>5. KeysFresh'
    BY <1>1, <1>2 DEF KeyInv, KeysFresh
<1>6. KeysUnique'
    BY <1>1, <1>2 DEF KeyInv, KeysFresh, KeysUnique
<1>7. ResourcesNamed'
    BY <1>1, <1>2, <1>3 DEF KeyInv, ResourcesNamed
<1> QED
    BY <1>1, <1>4, <1>5, <1>6, <1>7 DEF KeyInv, PlacementsPaired


\* The selection does not end in the allocation.
LEMMA SelectNamed == SelectionNext => phase' \notin Allocating
<1>1. CASE Parse
    BY <1>1 DEF Parse, Proceed, Allocating
<1>2. CASE Reselect
    BY <1>2 DEF Reselect, TakeRound, Allocating
<1>3. CASE Converge
    BY <1>3 DEF Converge, Proceed, Allocating
<1>4. CASE GiveUp
    <2>1. PICK found : Proceed(found, "package_loading")
        BY <1>4, Zenon DEF GiveUp
    <2> QED
        BY <2>1 DEF Proceed, Allocating
<1> QED
    BY <1>1, <1>2, <1>3, <1>4 DEF SelectionNext

\* Reading the targets establishes the names of the connectors.
LEMMA LoadTargetsNamed ==
    ASSUME LoadTargets
    PROVE  ConnectorsNamed'
<1> DEFINE found == UNION {TargetErrors(c) : c \in DOMAIN doc.controllers}
<1>1. Proceed(found, "graph_expansion") /\ UNCHANGED <<doc, registry, chosen>>
    BY Zenon DEF LoadTargets
<1>2. ASSUME NEW c
      PROVE  Board(c)' = Board(c)
    BY <1>1 DEF Board, Payload, PackageAt, select, versions
<1>3. CASE found = {}
    <2>1. \A c \in DOMAIN doc.controllers : TargetErrors(c) = {}
        BY <1>3, Zenon
    <2> QED
        BY <1>1, <1>2, <2>1, ReadConnectorsNamed DEF ConnectorsNamed
<1>4. CASE found # {}
    <2> HIDE DEF found
    <2> QED
        BY <1>1, <1>4 DEF Proceed, ConnectorsNamed, Allocating
<1> QED
    BY <1>3, <1>4

\* The expansion lists pairs of a component and a claim.
LEMMA ExpandPairs ==
    ASSUME ExpandGraph
    PROVE  PlacementsPaired'
<1>1. pending' = Placements(expanded'.components)
    BY Zenon DEF ExpandGraph
<1>2. ASSUME NEW e, NEW p \in Placements(e)
      PROVE  \E c, via : p = <<c, via>>
    <2> DEFINE claimed == UNION {{<<c, via>> : via \in ClaimsOf(e, c)} : c \in DOMAIN e}
               searched == {c \in DOMAIN e : /\ ClaimsOf(e, c) = {}
                                            /\ HasDevice(e[c].kind)
                                            /\ Device(e[c].kind).connector # None}
    <2>1. p \in claimed \cup {<<c, Search>> : c \in searched}
        <3>1. Placements(e) = {<<c, Search>> : c \in searched} \cup claimed
            BY DEF Placements
        <3> HIDE DEF claimed, searched
        <3> QED
            BY <1>2, <3>1
    <2>2. CASE p \in claimed
        BY <2>2
    <2>3. CASE p \in {<<c, Search>> : c \in searched}
        <3> HIDE DEF searched
        <3> QED
            BY <2>3
    <2> QED
        BY <2>1, <2>2, <2>3
<1>3. \A p \in pending' : \E c, via : p = <<c, via>>
    BY <1>1, <1>2
<1> QED
    BY <1>3 DEF PlacementsPaired

\* Every step of the allocation keeps the keys.
LEMMA AllocationKeys ==
    ASSUME KeyInv, SelectionInv, ExclusiveInv, AllocationNext
    PROVE  KeyInv'
<1>1. CASE LoadTargets
    <2>1. ConnectorsNamed'
        BY <1>1, LoadTargetsNamed
    <2>2. UNCHANGED <<assignments, pending, doc>>
        BY <1>1, Zenon DEF LoadTargets, allocationVars
    <2> QED
        BY <2>1, <2>2, KeysKept
<1>2. CASE ExpandGraph
    <2>1. /\ assignments' = {} /\ phase = "graph_expansion"
          /\ UNCHANGED <<doc, registry, chosen>>
        <3>1. /\ phase = "graph_expansion" /\ assignments' = assignments
              /\ UNCHANGED <<doc, registry, chosen>>
            BY <1>2, Zenon DEF ExpandGraph
        <3> QED
            BY <3>1 DEF ExclusiveInv, NothingAssigned, BeforeAllocation
    <2>2. ConnectorsNamed'
        BY <2>1, ConnectorsUnchanged DEF KeyInv, Allocating
    <2> QED
        BY <1>2, <2>1, <2>2, ExpandPairs, KeysBegin
<1>3. CASE ClaimConnector
    <2>1. PICK p \in pending :
            /\ PlaceNext(p)
            /\ NamesConnector(Target(p))
            /\ Grant(p[1], p[2], Target(p), ExpectedKind(p[1], p[2]))
        BY <1>3 DEF ClaimConnector, Claimable
    <2>2. PICK c \in DOMAIN doc.controllers :
            \E port \in DOMAIN Board(c).connectors : Target(p) = <<c, port>>
        BY <2>1 DEF NamesConnector
    <2>3. PICK port \in DOMAIN Board(c).connectors : Target(p) = <<c, port>>
        BY <2>2
    <2>4. phase = "resource_allocation" /\ ManifestErrors(doc) = {}
        BY <2>1 DEF PlaceNext, SelectionInv, ManifestParsed
    <2> QED
        BY <2>1, <2>3, <2>4, KeysGranted
<1>4. CASE SearchConnector
    <2>1. PICK p \in pending :
            /\ PlaceNext(p) /\ p[2] = Search
            /\ \E port \in Eligible(p[1]) :
                Grant(p[1], Search, <<SearchedController(p[1]), port>>,
                      Connector(<<SearchedController(p[1]), port>>).kind)
        BY <1>4, Zenon DEF SearchConnector
    <2> DEFINE c == SearchedController(p[1])
    <2>2. PICK port \in Eligible(p[1]) :
            Grant(p[1], p[2], <<c, port>>, Connector(<<c, port>>).kind)
        BY <2>1
    <2>3. c \in DOMAIN doc.controllers /\ port \in DOMAIN Board(c).connectors
        BY Zenon DEF Eligible
    <2>4. phase = "resource_allocation" /\ ManifestErrors(doc) = {}
        BY <2>1 DEF PlaceNext, SelectionInv, ManifestParsed
    <2> HIDE DEF c
    <2> QED
        BY <2>1, <2>2, <2>3, <2>4, KeysGranted
<1>5. CASE RefuseClaim \/ SearchFails \/ FinishAllocation
    <2>1. /\ UNCHANGED <<assignments, doc, registry, chosen>>
          /\ pending' \subseteq pending
          /\ phase' \in Allocating => phase \in Allocating
        BY <1>5, Zenon DEF RefuseClaim, SearchFails, FinishAllocation, PlaceNext, Refuse,
            Proceed, Allocating, allocationVars
    <2>2. ConnectorsNamed'
        BY <2>1, ConnectorsUnchanged DEF KeyInv
    <2> QED
        BY <2>1, <2>2, KeysKept
<1> QED
    BY <1>1, <1>2, <1>3, <1>4, <1>5 DEF AllocationNext

\* Nothing is placed or given away afterwards.
LEMMA LaterKeys ==
    ASSUME KeyInv,
           ValidateElectrical \/ ValidateSafety \/ PartitionFirmware \/ PlanArtifacts
                \/ Lock \/ VerifyLock \/ UNCHANGED <<vars, lockVars>>
    PROVE  KeyInv'
<1>1. /\ UNCHANGED <<assignments, pending, doc, registry, chosen>>
      /\ phase' \in Allocating => phase \in Allocating
    <2>1. ASSUME NEW this, NEW found, NEW next, next \notin Allocating,
                 Validate(this, found, next)
          PROVE  /\ UNCHANGED <<assignments, pending, doc, registry, chosen>>
                 /\ phase' \notin Allocating
        BY <2>1 DEF Validate, Proceed, allocationVars, Allocating
    <2>2. CASE ValidateElectrical
        BY <2>1, <2>2 DEF ValidateElectrical, Allocating
    <2>3. CASE ValidateSafety
        BY <2>1, <2>3 DEF ValidateSafety, Allocating
    <2>4. CASE PartitionFirmware
        <3>1. PICK found : Validate("firmware_partitioning", found, "artifact_planning")
            BY <2>4, Zenon DEF PartitionFirmware
        <3> QED
            BY <2>1, <3>1 DEF Allocating
    <2>5. CASE PlanArtifacts
        BY <2>1, <2>5 DEF PlanArtifacts, Allocating
    <2>6. CASE Lock
        BY <2>6 DEF Lock, Proceed, allocationVars, Allocating
    <2>7. CASE VerifyLock \/ UNCHANGED <<vars, lockVars>>
        BY <2>7 DEF VerifyLock, vars, selectionVars, allocationVars
    <2> QED
        BY <2>2, <2>3, <2>4, <2>5, <2>6, <2>7
<1>2. ConnectorsNamed'
    BY <1>1, ConnectorsUnchanged DEF KeyInv
<1> QED
    BY <1>1, <1>2, KeysKept

\* Every step keeps it.
LEMMA KeyInvStep ==
    ASSUME KeyInv, SelectionInv, ExclusiveInv, [LockNext]_<<vars, lockVars>>
    PROVE  KeyInv'
<1>1. CASE Select
    <2>1. phase' \notin Allocating /\ UNCHANGED <<assignments, pending>>
        BY <1>1, SelectNamed DEF Select, allocationVars
    <2>2. assignments = {}
        BY <1>1, SelectionBegins DEF Select, Begins, ExclusiveInv, NothingAssigned
    <2> QED
        BY <2>1, <2>2, KeysBegin DEF KeyInv, ConnectorsNamed, PlacementsPaired
<1>2. CASE Allocate
    BY <1>2, AllocationKeys DEF Allocate
<1> QED
    BY <1>1, <1>2, LaterKeys DEF LockNext, Resolve, Stop

-----------------------------------------------------------------------------
(* The lock.                                                                 *)

\* The lock finds what a claim got by the claim.
LEMMA LockHasResources ==
    ASSUME KeyInv
    PROVE  ResourcesCarried(lock)
<1>1. SUFFICES ASSUME NEW a \in assignments
               PROVE  LET resources == lock.controllers[a.resource[1]].resolved_resources
                      IN  /\ <<a.component, a.via>> \in DOMAIN resources
                          /\ resources[<<a.component, a.via>>] = a.resource[2]
    BY DEF ResourcesCarried
<1> DEFINE controller == a.resource[1]
           own == {b \in assignments : b.resource[1] = controller}
           key == <<a.component, a.via>>
           found == CHOOSE b \in own : <<b.component, b.via>> = key
<1>2. lock.controllers[controller].resolved_resources = LockedResources(controller)
    <2>1. controller \in DOMAIN doc.controllers
        BY DEF KeyInv, ResourcesNamed
    <2> QED
        BY <2>1 DEF lock, LockedController
<1>3. a \in own
    OBVIOUS
<1>4. found = a
    <2>1. found \in own /\ <<found.component, found.via>> = key
        BY <1>3
    <2>2. found \in assignments /\ found.component = a.component /\ found.via = a.via
        BY <2>1
    <2> HIDE DEF found
    <2> QED
        BY <2>2 DEF KeyInv, KeysUnique
<1>5. /\ key \in DOMAIN LockedResources(controller)
      /\ LockedResources(controller)[key] = found.resource[2]
    BY <1>3 DEF LockedResources
<1> QED
    BY <1>2, <1>4, <1>5

\* The lock has the bindings of a controller.
LEMMA LockHasSafety ==
    ASSUME KeyInv, SafetyInv, phase = "resolved"
    PROVE  SafetyCarried(lock)
<1>1. SUFFICES ASSUME NEW c \in DOMAIN components, NEW r \in Hazards(c)
               PROVE  \E s \in lock.controllers[r[1]].safety :
                        /\ s.resource = r[2] /\ s.component = c
                        /\ Policy(c).requires_sensor =>
                            <<r[1], s.sensor>> \in ResourcesOf(Attribute(c, "sensor"))
    BY DEF SafetyCarried
<1>2. PICK b \in controller_safety :
        /\ Bindings(r) = {b}
        /\ b.component = c
        /\ Policy(c).requires_sensor =>
            /\ b.sensor \in ResourcesOf(Attribute(c, "sensor"))
            /\ b.sensor[1] = r[1]
    BY PartitionGuards DEF SafetyInv
<1>3. b.resource = r
    BY <1>2 DEF Bindings
<1>4. \E d : r \in ResourcesOf(d)
    BY DEF Hazards, SafetyTargets, Delegates
<1>5. r[1] \in DOMAIN doc.controllers
    BY <1>4 DEF ResourcesOf, Assigned, KeyInv, ResourcesNamed
<1> DEFINE s == [component |-> b.component, class |-> b.class, resource |-> b.resource[2],
                 state |-> b.state,
                 heartbeat_timeout_us |->
                    IF b.heartbeat_timeout = None THEN None ELSE b.heartbeat_timeout.value,
                 sensor |-> IF b.sensor = None THEN None ELSE b.sensor[2]]
<1>6. s \in LockedSafety(r[1])
    BY <1>3 DEF LockedSafety, BindingsOn
<1>7. lock.controllers[r[1]].safety = LockedSafety(r[1])
    BY <1>5 DEF lock, LockedController
<1>8. ASSUME Policy(c).requires_sensor
      PROVE  <<r[1], s.sensor>> \in ResourcesOf(Attribute(c, "sensor"))
    <2>1. b.sensor \in Identifiers \X Identifiers
        BY <1>2, <1>8 DEF ResourcesOf, Assigned, KeyInv, ResourcesNamed
    <2>2. b.sensor # None /\ b.sensor = <<b.sensor[1], b.sensor[2]>>
        BY <2>1, NoneAssumption
    <2> QED
        BY <1>2, <1>8, <2>2
<1>9. s.resource = r[2] /\ s.component = c
    BY <1>2, <1>3
<1> HIDE DEF s
<1> QED
    BY <1>6, <1>7, <1>8, <1>9

\* The lock was validated.
LEMMA LockHasFirmware ==
    ASSUME LockErrors = {}
    PROVE  FirmwarePinned(lock)
<1>1. validate(lock)
    BY DEF LockErrors, Code
<1>2. SUFFICES ASSUME NEW c \in DOMAIN doc.controllers,
                      NEW id \in {lock.controllers[c].build.board,
                                  lock.controllers[c].build.chip}
                                 \cup lock.controllers[c].build.native_drivers
               PROVE  \E p \in lock.packages :
                        /\ p.path = id.path /\ p.version = id.version
                        /\ \A q \in lock.packages : q.path = p.path => q = p
    BY Zenon DEF FirmwarePinned
<1>3. ValidBuild(lock, lock.controllers[c])
    <2>1. lock.lock_version = 5 /\ c \in DOMAIN lock.controllers
        BY DEF lock
    <2> QED
        BY <1>1, <2>1 DEF validate, Controllers
<1>4. id \in PinnedIds(lock)
    BY <1>3 DEF ValidBuild
<1>5. PICK p \in lock.packages : id = [path |-> p.path, version |-> p.version]
    BY <1>4 DEF PinnedIds
<1>6. \A q \in lock.packages : \E path \in DOMAIN chosen : q = LockedPackage(path)
    BY DEF lock
<1>7. \A path : LockedPackage(path).path = path
    BY DEF LockedPackage
<1>8. \A q \in lock.packages : q.path = p.path => q = p
    BY <1>6, <1>7
<1> QED
    BY <1>5, <1>8

\* What the parts of the property speak of does not change any more.
LEMMA CarriedUnchanged ==
    ASSUME UNCHANGED AssignedMachine,
           ResourcesCarried(lockfile'), SafetyCarried(lockfile'), FirmwarePinned(lockfile')
    PROVE  LockCarriesResolution'
<1>1. ResourcesCarried(lockfile)'
    BY DEF AssignedMachine, ResourcesCarried
<1>2. SafetyCarried(lockfile)'
    <2>1. \A c : Hazards(c)' = Hazards(c)
        BY ResourcesUnchanged, TargetsUnchanged DEF Hazards
    <2>2. \A c : ResourcesOf(Attribute(c, "sensor"))' = ResourcesOf(Attribute(c, "sensor"))
        BY AttributesUnchanged DEF AssignedMachine, ResourcesOf, Assigned
    <2> QED
        BY <2>1, <2>2, AttributesUnchanged DEF SafetyCarried
<1>3. FirmwarePinned(lockfile)'
    BY DEF AssignedMachine, FirmwarePinned
<1> QED
    BY <1>1, <1>2, <1>3 DEF LockCarriesResolution

\* Only the lock command leads to a lock.
LEMMA LockedBefore ==
    ASSUME [LockNext]_<<vars, lockVars>>, phase' = "locked"
    PROVE  \/ Lock
           \/ phase = "locked" /\ UNCHANGED <<AssignedMachine, lockfile>>
<1>1. CASE Select
    <2>1. ASSUME NEW found, NEW next, Proceed(found, next), next # "locked"
          PROVE  phase' # "locked"
        BY <2>1 DEF Proceed
    <2>2. CASE Parse
        BY <2>1, <2>2 DEF Parse
    <2>3. CASE Reselect
        BY <2>3 DEF Reselect, TakeRound
    <2>4. CASE Converge
        BY <2>1, <2>4 DEF Converge
    <2>5. CASE GiveUp
        <3>1. PICK found : Proceed(found, "package_loading")
            BY <2>5, Zenon DEF GiveUp
        <3> QED
            BY <2>1, <3>1
    <2> QED
        BY <1>1, <2>2, <2>3, <2>4, <2>5 DEF Select, SelectionNext
<1>2. CASE Allocate
    <2>1. ASSUME NEW found, NEW next, Proceed(found, next), next # "locked"
          PROVE  phase' # "locked"
        BY <2>1 DEF Proceed
    <2>2. CASE LoadTargets
        <3>1. PICK found : Proceed(found, "graph_expansion")
            BY <2>2, Zenon DEF LoadTargets
        <3> QED
            BY <2>1, <3>1
    <2>3. CASE ExpandGraph
        <3>1. PICK found : Proceed(found, "resource_allocation")
            BY <2>3, Zenon DEF ExpandGraph
        <3> QED
            BY <2>1, <3>1
    <2>4. CASE FinishAllocation
        BY <2>1, <2>4 DEF FinishAllocation
    <2>5. CASE ClaimConnector \/ RefuseClaim \/ SearchConnector \/ SearchFails
        BY <2>5 DEF ClaimConnector, RefuseClaim, SearchConnector, SearchFails, PlaceNext
    <2> QED
        BY <1>2, <2>2, <2>3, <2>4, <2>5 DEF Allocate, AllocationNext
<1>3. CASE ValidateElectrical \/ ValidateSafety \/ PartitionFirmware \/ PlanArtifacts
    <2>1. ASSUME NEW this, NEW found, NEW next, Validate(this, found, next), next # "locked"
          PROVE  phase' # "locked"
        BY <2>1 DEF Validate, Proceed
    <2>2. CASE ValidateElectrical
        BY <2>1, <2>2 DEF ValidateElectrical
    <2>3. CASE ValidateSafety
        BY <2>1, <2>3 DEF ValidateSafety
    <2>4. CASE PartitionFirmware
        <3>1. PICK found : Validate("firmware_partitioning", found, "artifact_planning")
            BY <2>4, Zenon DEF PartitionFirmware
        <3> QED
            BY <2>1, <3>1
    <2>5. CASE PlanArtifacts
        BY <2>1, <2>5 DEF PlanArtifacts
    <2> QED
        BY <1>3, <2>2, <2>3, <2>4, <2>5
<1>4. CASE VerifyLock
    BY <1>4 DEF VerifyLock, selectionVars, allocationVars, AssignedMachine
<1>5. CASE UNCHANGED <<vars, lockVars>>
    BY <1>5 DEF vars, lockVars, selectionVars, allocationVars, AssignedMachine
<1> QED
    BY <1>1, <1>2, <1>3, <1>4, <1>5 DEF LockNext, Resolve, Stop

\* Every step keeps the property.
LEMMA CarriedStep ==
    ASSUME KeyInv, SafetyInv, LockCarriesResolution, [LockNext]_<<vars, lockVars>>
    PROVE  LockCarriesResolution'
<1>1. CASE phase' # "locked"
    BY <1>1 DEF LockCarriesResolution
<1>2. CASE Lock /\ phase' = "locked"
    <2>1. /\ phase = "resolved" /\ LockErrors = {}
          /\ UNCHANGED AssignedMachine
        BY <1>2, Zenon DEF Lock, Proceed, AssignedMachine, allocationVars
    <2>2. lockfile' = lock
        BY <1>2, <2>1, Zenon DEF Lock
    <2>3. ResourcesCarried(lock) /\ SafetyCarried(lock) /\ FirmwarePinned(lock)
        BY <2>1, LockHasResources, LockHasSafety, LockHasFirmware
    <2> QED
        BY <2>1, <2>2, <2>3, CarriedUnchanged
<1>3. CASE phase = "locked" /\ UNCHANGED <<AssignedMachine, lockfile>>
    BY <1>3, CarriedUnchanged DEF LockCarriesResolution
<1> QED
    BY <1>1, <1>2, <1>3, LockedBefore

(* What makes LockCarriesResolution inductive: what was selected, given away *)
(* and validated before there is a lock.                                     *)
ResolutionInv ==
    /\ SelectionInv
    /\ ExclusiveInv
    /\ SafetyInv
    /\ KeyInv
    /\ LockCarriesResolution

(* Whatever the machine, a lock holds every connector under the controller   *)
(* and the claim that got it, a safe state and its sensor for all that can   *)
(* heat or move, and one version of each package the firmware is built from  *)
(* (generate::lock).                                                         *)
THEOREM CarriedTheorem == LockSpec => []LockCarriesResolution
<1>1. LockInit => ResolutionInv
    <2> SUFFICES ASSUME LockInit PROVE ResolutionInv
        OBVIOUS
    <2>1. phase = "parse" /\ assignments = {} /\ claims = {} /\ pending = {}
          /\ registry \in Registries
        BY DEF LockInit, Init, SelectionInit, AllocationInit
    <2>2. Stepped = {}
        BY <2>1 DEF Stepped, SocketsDriven
    <2>3. SelectionInv
        BY <2>1 DEF SelectionInv, ManifestParsed, ClosureConsistent, Accepted
    <2>4. ExclusiveInv
        BY <2>1, <2>2 DEF ExclusiveInv, NothingAssigned, ClaimsAreAssigned, GivenOnce,
            SteppedReserved, TimersDiffer
    <2>5. SafetyInv /\ LockCarriesResolution
        BY <2>1 DEF SafetyInv, LockCarriesResolution
    <2>6. KeyInv
        BY <2>1 DEF KeyInv, ConnectorsNamed, Allocating, KeysFresh, KeysUnique,
            ResourcesNamed, PlacementsPaired
    <2> QED
        BY <2>3, <2>4, <2>5, <2>6 DEF ResolutionInv
<1>2. ResolutionInv /\ [LockNext]_<<vars, lockVars>> => ResolutionInv'
    BY SelectionInvStep, ExclusiveStep, SafetyInvStep, KeyInvStep, CarriedStep
    DEF ResolutionInv
<1>3. ResolutionInv => LockCarriesResolution
    BY DEF ResolutionInv
<1> QED
    BY <1>1, <1>2, <1>3, PTL DEF LockSpec
=============================================================================
