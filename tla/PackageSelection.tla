-------------------------- MODULE PackageSelection --------------------------
(* The first phases of a resolution: parsing the manifest and choosing a     *)
(* version of every package the machine needs.  The selection is repeated,   *)
(* each round under the requirements of the packages the round before chose, *)
(* until a round changes nothing; a machine's pins are absolute.             *)
EXTENDS MachineDocuments

CONSTANTS
    Versions,     \* the versions packages have
    Documents,    \* the manifests a resolution may start from
    Registries,   \* the registries it may read
    MaxRounds     \* the rounds after which it gives up

\* Any versions that exist have a highest one: semver orders them and a
\* registry holds finitely many.
ASSUME VersionsAssumption ==
    \A S \in SUBSET Versions : S # {} => \E v \in S : \A w \in S : w <= v

\* A registry's packages: for a path, each version's package.
ASSUME RegistriesAssumption ==
    \A r \in Registries : \A p \in DOMAIN r.packages :
        DOMAIN r.packages[p] \subseteq Versions

VARIABLES
    phase,         \* the phase to run next, or how the resolution ended
    doc,           \* the manifest
    registry,      \* the registry, as it was loaded
    chosen,        \* the version chosen for each path
    constraints,   \* the requirements on each path
    round,         \* the rounds run
    errors,        \* the errors reported
    warnings       \* the warnings reported

selectionVars ==
    <<phase, doc, registry, chosen, constraints, round, errors, warnings>>

Highest(S) == CHOOSE v \in S : \A w \in S : w <= v

versions(path) ==
    IF path \in DOMAIN registry.packages
    THEN DOMAIN registry.packages[path]
    ELSE {}

\* The requirements of a package: the range of a dependency, the versions it
\* allows, is None when it does not parse.  The loader reports such a range and
\* keeps the package; the selection passes over the dependency.
Dependencies(path, version) ==
    LET declared == registry.packages[path][version].dependencies
    IN  [d \in {e \in DOMAIN declared : declared[e] # None} |-> declared[d]]

pins == {doc.packages[i].path : i \in DOMAIN doc.packages}

\* The version a path is pinned at: the last entry wins.
Pin(path) ==
    LET entries == {i \in DOMAIN doc.packages : doc.packages[i].path = path}
    IN  doc.packages[CHOOSE i \in entries : \A j \in entries : j <= i].version

implicit_roots ==
    {ref \in {doc.controllers[c].board : c \in DOMAIN doc.controllers}
                \cup {doc.profile}
                \cup {doc.workflows[w].package : w \in DOMAIN doc.workflows} :
        valid_package_ref_name(ref)}

-----------------------------------------------------------------------------
(* One round.                                                                *)

\* A dependency whose name is no "namespace/name" is passed over.
paths ==
    {p \in pins \cup implicit_roots \cup DOMAIN constraints : Len(p) = 2}

requirements(path) ==
    IF path \in DOMAIN constraints THEN constraints[path] ELSE {}

Satisfying(path) ==
    {v \in versions(path) : \A r \in requirements(path) : v \in r.requirement}

\* What the round reports of one path; a path it reports is not selected.
PathErrors(path) ==
    IF versions(path) = {}
    THEN {"E1100"}
    ELSE IF path \in pins
    THEN Code("E1101", Pin(path) \notin versions(path))
            \cup Code("E1103", \E r \in requirements(path) :
                                    Pin(path) \notin r.requirement)
    ELSE Code("E1104", Satisfying(path) = {})

RoundErrors == UNION {PathErrors(p) : p \in paths}

RoundWarnings ==
    Code("E1106", \E p \in implicit_roots \ pins :
                    requirements(p) = {} /\ PathErrors(p) = {})

\* next: what the round chooses.
RoundChoice ==
    [p \in {q \in paths : PathErrors(q) = {}} |->
        IF p \in pins THEN Pin(p) ELSE Highest(Satisfying(p))]

\* new_constraints: what the chosen packages require.
RequiredBy(choice) ==
    LET Requires(q) == DOMAIN Dependencies(q, choice[q])
    IN  [p \in UNION {Requires(q) : q \in DOMAIN choice} |->
            {[required_by |-> q, requirement |-> Dependencies(q, choice[q])[p]] :
                q \in {r \in DOMAIN choice : p \in Requires(r)}}]

Stable ==
    RoundChoice = chosen /\ RequiredBy(RoundChoice) = constraints

-----------------------------------------------------------------------------

SelectionInit ==
    /\ phase = "parse"
    /\ doc \in Documents
    /\ registry \in Registries
    /\ chosen = << >>
    /\ constraints = << >>
    /\ round = 0
    /\ errors = {}
    /\ warnings = {}

\* Goes on to the next phase, or stops on errors.
Proceed(found, next) ==
    /\ errors' = found
    /\ phase' = IF found = {} THEN next ELSE "failed"

\* Parse and schema validation.
Parse ==
    /\ phase = "parse"
    /\ Proceed(ManifestErrors(doc), "package_dependencies")
    /\ UNCHANGED <<doc, registry, chosen, constraints, round, warnings>>

TakeRound ==
    /\ phase = "package_dependencies"
    /\ round' = round + 1
    /\ chosen' = RoundChoice
    /\ constraints' = RequiredBy(RoundChoice)
    /\ UNCHANGED <<doc, registry>>

\* The round changed something, and another is allowed.
Reselect ==
    /\ TakeRound
    /\ ~Stable
    /\ round + 1 < MaxRounds
    /\ UNCHANGED <<phase, errors, warnings>>

\* The round changed nothing: its findings are the selection's.
Converge ==
    /\ TakeRound
    /\ Stable
    /\ warnings' = RoundWarnings
    /\ Proceed(RoundErrors, "package_loading")

\* A mistake to detect: the last round is accepted like any other.
GiveUpQuietly ==
    /\ TakeRound
    /\ ~Stable
    /\ round + 1 = MaxRounds
    /\ warnings' = RoundWarnings
    /\ Proceed(RoundErrors, "package_loading")

\* The last round still changed something.
GiveUp ==
    /\ TakeRound
    /\ ~Stable
    /\ round + 1 = MaxRounds
    /\ warnings' = RoundWarnings
    /\ Proceed(IF RoundErrors = {} THEN {"E1107"} ELSE RoundErrors,
               "package_loading")

SelectionNext == Parse \/ Reselect \/ Converge \/ GiveUp

-----------------------------------------------------------------------------
(* What later phases ask of the selection.                                   *)

\* select: the chosen version of a path, or the highest there is of a path
\* outside the closure, or None.
select(path) ==
    IF path \in DOMAIN chosen
    THEN chosen[path]
    ELSE IF versions(path) = {} THEN None ELSE Highest(versions(path))

PackageAt(path) == registry.packages[path][select(path)]

\* Reading a path's package as one kind.
Readable(path, kind) ==
    select(path) # None /\ PayloadErrors(PackageAt(path), kind) = {}

Payload(path) == PackageAt(path).payload

-----------------------------------------------------------------------------
(* Once the selection is accepted it is a closure that holds together: every *)
(* pin is honoured, whatever is chosen is available and within the range of  *)
(* everything chosen that requires it, whatever is required by a range that  *)
(* parses is chosen, and nothing is chosen that is neither a root nor        *)
(* required. The requirements change while versions are chosen, so this is a *)
(* property of the fixpoint (PackageSelection::resolve).                     *)
Accepted == phase \notin {"parse", "package_dependencies", "failed"}

ClosureConsistent ==
    Accepted =>
        /\ pins \cup implicit_roots \subseteq DOMAIN chosen
        /\ \A p \in DOMAIN chosen :
            /\ chosen[p] \in versions(p)
            /\ p \in pins => chosen[p] = Pin(p)
            /\ \A d \in DOMAIN Dependencies(p, chosen[p]) : Len(d) = 2 =>
                d \in DOMAIN chosen
                /\ chosen[d] \in Dependencies(p, chosen[p])[d]
            /\ p \in pins \cup implicit_roots
                \/ \E q \in DOMAIN chosen : p \in DOMAIN Dependencies(q, chosen[q])
=============================================================================
