----------------------------- MODULE HelperRegisters ---------------------------
(***************************************************************************)
(* The register file of one launch: the vector rename table (VRAT), which   *)
(* maps a register lane by lane to a physical name, the reference counts    *)
(* that issued VIR copies hold on the names they read, and the masked       *)
(* renames of a destination.  A scalar name has a cell for every lane; a    *)
(* vector name has one for each lane of its copy, and a vector register is  *)
(* a bundle of names, one for each copy.                                    *)
(*                                                                          *)
(* The lanes run a straight-line program.  A lane enters when its source    *)
(* value returns, and is parked at a load until the value of that returns;  *)
(* which lanes of a uop are held back on a deferred path, whether the path  *)
(* diverges, and where there are branches between the uops, is left open    *)
(* (ReplayLanes models the paths).                                          *)
(***************************************************************************)
EXTENDS Integers, Sequences, FiniteSets

CONSTANTS
    NumArch,            \* architectural registers, x0 apart
    Trigger,            \* destination of the trigger load
    Programs,           \* sequences of uops [dst, src0, src1, load]
    Branches,           \* conditional branches [src0, src1]
    Copies,             \* VectorCopies
    LanesPerCopy,       \* LanesPerVectorCopy
    NumScalar,          \* NumScalarPhysicalRegs
    NumVector,          \* NumVectorPhysicalRegs
    Values,             \* register values, 0 among them
    Evaluate(_, _),     \* DVRInstructionRecorder::Uop::evaluate
    VIRCapacity         \* issued copies that may wait to retire at once

ASSUME HelperRegistersAssumption ==
    /\ {NumArch, Copies, LanesPerCopy, NumScalar, NumVector, VIRCapacity}
           \subseteq Nat \ {0}
    /\ NumArch <= NumScalar
    /\ Copies <= NumVector
    /\ Trigger \in 1 .. NumArch
    /\ Programs \subseteq Seq([dst : 1 .. NumArch, src0 : 1 .. NumArch,
                               src1 : 1 .. NumArch, load : BOOLEAN])
    /\ Branches \subseteq [src0 : 1 .. NumArch, src1 : 1 .. NumArch]
    /\ 0 \in Values
    /\ \A x, y \in Values : Evaluate(x, y) \in Values

VARIABLES
    program,            \* replay->uops, from uops[1] on
    at,                 \* per lane: index in program, 0 before it enters
    parked,             \* lanes that wait for the value of a load
    vrat,               \* lanePhysical and laneVectorized of each register
    allocated,          \* names in use
    users,              \* VIR references to each name
    pending,            \* names to free at their last reference
    value,              \* contents of the names
    vir                 \* virBuffer: per copy, the references it holds while issued

vars == <<program, at, parked, vrat, allocated, users, pending, value, vir>>

Arch == 1 .. NumArch
Lanes == 0 .. Copies * LanesPerCopy - 1
CopyIds == 0 .. Copies - 1
ScalarNames == 1 .. NumScalar
VectorNames == NumScalar + 1 .. NumScalar + NumVector
Names == ScalarNames \cup VectorNames

CopyOf(lane) == lane \div LanesPerCopy
ElementOf(lane) == lane % LanesPerCopy

Blank == [lane \in Lanes |-> 0]
NoReferences == [name \in Names |-> 0]

(***************************************************************************)
(* Reading through the table.                                               *)
(***************************************************************************)
CellOf(map, lane) ==
    <<map.name[lane], IF map.vector[lane] THEN ElementOf(lane) ELSE lane>>

ReadCell(contents, cell) == contents[cell[1]][cell[2]]
Read(arch, lane) == ReadCell(value, CellOf(vrat[arch], lane))

MappedNames(map) == {map.name[lane] : lane \in Lanes}

(***************************************************************************)
(* Allocation takes the lowest free names.                                  *)
(***************************************************************************)
FreeScalar(used) ==
    {name \in ScalarNames \ used :
        \A other \in ScalarNames \ used : name <= other}

Bundles(used) ==
    {bundle \in [CopyIds -> VectorNames \ used] :
        /\ \A c, d \in CopyIds : c < d => bundle[c] < bundle[d]
        /\ \A name \in VectorNames \ used :
               \/ \E c \in CopyIds : bundle[c] = name
               \/ \A c \in CopyIds : bundle[c] < name}

(***************************************************************************)
(* A launch: every register has a scalar name with the snapshot in every    *)
(* lane; then the trigger's destination is vectorized and its scalar name   *)
(* is freed.                                                                *)
(***************************************************************************)
Scalar(name) == [name   |-> [lane \in Lanes |-> name],
                 vector |-> [lane \in Lanes |-> FALSE]]
Vector(bundle) == [name   |-> [lane \in Lanes |-> bundle[CopyOf(lane)]],
                   vector |-> [lane \in Lanes |-> TRUE]]

Init ==
    /\ program \in Programs
    /\ at = [lane \in Lanes |-> 0]
    /\ parked = {}
    /\ \E bundle \in Bundles({}), snapshot \in [Arch -> Values] :
          /\ vrat = [arch \in Arch |-> IF arch = Trigger THEN Vector(bundle)
                                       ELSE Scalar(arch)]
          /\ allocated = (Arch \ {Trigger}) \cup {bundle[c] : c \in CopyIds}
          /\ value = [name \in Names |->
                         IF name \in Arch \ {Trigger}
                         THEN [lane \in Lanes |-> snapshot[name]]
                         ELSE IF \E c \in CopyIds : bundle[c] = name
                         THEN [lane \in Lanes |-> IF lane < LanesPerCopy
                                                  THEN snapshot[Trigger] ELSE 0]
                         ELSE Blank]
    /\ users = NoReferences
    /\ pending = {}
    /\ vir = [c \in CopyIds |-> NoReferences]

(***************************************************************************)
(* Renames.  The new names receive the current values, every lane of a      *)
(* bundle and the masked lanes of a scalar; only the masked lanes are       *)
(* mapped to them.                                                          *)
(***************************************************************************)
\* Faulty: the lanes of every copy are mapped to the first name of the bundle.
VectorMasked_FirstCopy(map, bundle, mask) ==
    [name   |-> [lane \in Lanes |-> IF lane \in mask THEN bundle[0]
                                    ELSE map.name[lane]],
     vector |-> [lane \in Lanes |-> lane \in mask \/ map.vector[lane]]]

VectorMasked(map, bundle, mask) ==
    [name   |-> [lane \in Lanes |-> IF lane \in mask THEN bundle[CopyOf(lane)]
                                    ELSE map.name[lane]],
     vector |-> [lane \in Lanes |-> lane \in mask \/ map.vector[lane]]]

ScalarMasked(map, name, mask) ==
    [name   |-> [lane \in Lanes |-> IF lane \in mask THEN name
                                    ELSE map.name[lane]],
     vector |-> [lane \in Lanes |-> lane \notin mask /\ map.vector[lane]]]

\* What arch reads in the lanes of copy c, as the contents of a vector name.
CopyContents(arch, c) ==
    [lane \in Lanes |-> IF lane < LanesPerCopy
                        THEN Read(arch, c * LanesPerCopy + lane) ELSE 0]

VectorContents(arch, bundle) ==
    [name \in Names |->
        IF \E c \in CopyIds : bundle[c] = name
        THEN CopyContents(arch, CHOOSE c \in CopyIds : bundle[c] = name)
        ELSE value[name]]

\* Faulty: the new name does not receive the current values.
ScalarContents_Blank(arch, new, mask) == [value EXCEPT ![new] = Blank]

ScalarContents(arch, new, mask) ==
    [value EXCEPT ![new] = [lane \in Lanes |-> IF lane \in mask
                                               THEN Read(arch, lane) ELSE 0]]

\* The outcomes of renaming arch for mask: its map, the contents and the
\* names taken.
VectorRenames(arch, mask) ==
    {[map   |-> VectorMasked(vrat[arch], bundle, mask),
      value |-> VectorContents(arch, bundle),
      taken |-> {bundle[c] : c \in CopyIds}] : bundle \in Bundles(allocated)}

ScalarRenames(arch, mask) ==
    {[map   |-> ScalarMasked(vrat[arch], name, mask),
      value |-> ScalarContents(arch, name, mask),
      taken |-> {name}] : name \in FreeScalar(allocated)}

Unrenamed(arch) == [map |-> vrat[arch], value |-> value, taken |-> {}]

\* A full bank leaves the destination as it is.
Attempt(renames, arch) == IF renames = {} THEN {Unrenamed(arch)} ELSE renames

(***************************************************************************)
(* Reference counts and release.                                            *)
(***************************************************************************)
References(uop, group) ==
    [name \in Names |->
        Cardinality({lane \in group : vrat[uop.src0].name[lane] = name}) +
        Cardinality({lane \in group : vrat[uop.src1].name[lane] = name})]

Retained(references) == [name \in Names |-> users[name] + references[name]]

\* Names of the old mapping that no lane has any more.
Dead(old, new) == MappedNames(old) \ MappedNames(new)

\* Faulty: a dead name is freed although a copy still refers to it.
Reclaimable_Retained(dead, counts) == dead

Reclaimable(dead, counts) == {name \in dead : counts[name] = 0}

Erased(contents, freed) ==
    [name \in Names |-> IF name \in freed THEN Blank ELSE contents[name]]

Written(contents, map, group, result) ==
    [name \in Names |-> [i \in Lanes |->
        IF \E lane \in group : CellOf(map, lane) = <<name, i>>
        THEN result[CHOOSE lane \in group : CellOf(map, lane) = <<name, i>>]
        ELSE contents[name][i]]]

(***************************************************************************)
(* Actions.                                                                 *)
(***************************************************************************)
\* enqueueReplayLane: the source value of a lane.
Enter(lane, v) ==
    /\ at[lane] = 0
    /\ at' = [at EXCEPT ![lane] = 1]
    /\ value' = Written(value, vrat[Trigger], {lane}, [l \in {lane} |-> v])
    /\ UNCHANGED <<program, parked, vrat, allocated, users, pending, vir>>

\* resumeDependentLane: the value of the load a lane is parked at.
Resume(lane, v) ==
    LET dst == program[at[lane]].dst
    IN  /\ lane \in parked
        /\ parked' = parked \ {lane}
        /\ at' = [at EXCEPT ![lane] = @ + 1]
        /\ value' = Written(value, vrat[dst], {lane}, [l \in {lane} |-> v])
        /\ UNCHANGED <<program, vrat, allocated, users, pending, vir>>

\* Lanes that may issue uop u.
Waiting(u) == {lane \in Lanes \ parked : at[lane] = u}

IsVectorized(arch) == \E lane \in Lanes : vrat[arch].vector[lane]
SourceVectorized(uop, group) ==
    \E lane \in group : vrat[uop.src0].vector[lane] \/ vrat[uop.src1].vector[lane]

\* A destination that has no vector lane gets a bundle if a source is a
\* vector or the path diverges; one that has gets a scalar name.
Renames(uop, group, mask, diverged) ==
    IF IsVectorized(uop.dst)
    THEN Attempt(ScalarRenames(uop.dst, mask), uop.dst)
    ELSE IF SourceVectorized(uop, group) \/ diverged
    THEN Attempt(VectorRenames(uop.dst, mask), uop.dst)
    ELSE {Unrenamed(uop.dst)}

\* The table, what a lane reads through it, and what is written, once the
\* destination is renamed.
After(dst, renamed) == [vrat EXCEPT ![dst] = renamed.map]

ReadAfter(dst, renamed, arch, lane) ==
    ReadCell(renamed.value, CellOf(After(dst, renamed)[arch], lane))

Results(uop, group, renamed) ==
    [lane \in group |-> Evaluate(ReadAfter(uop.dst, renamed, uop.src0, lane),
                                 ReadAfter(uop.dst, renamed, uop.src1, lane))]

Contents(uop, group, renamed) ==
    IF uop.load THEN renamed.value
    ELSE Written(renamed.value, renamed.map, group,
                 Results(uop, group, renamed))

\* One VIR copy: lanes of copy c, out of those at uop u on this path, for all
\* of which the destination is renamed.  The names it reads are retained before the rename; a lane
\* whose destination could not be renamed ends, but still writes.
Issue(u, c, group, diverged, renamed) ==
    LET uop        == program[u]
        wanted     == IsVectorized(uop.dst) \/ SourceVectorized(uop, group)
                          \/ diverged
        failed     == wanted /\ renamed.taken = {}
        references == References(uop, group)
        counts     == Retained(references)
        dead       == Dead(vrat[uop.dst], renamed.map)
        freed      == Reclaimable(dead, counts)
    IN  /\ vir[c] = NoReferences
        /\ Cardinality({d \in CopyIds : vir[d] # NoReferences}) < VIRCapacity
        /\ vir' = [vir EXCEPT ![c] = references]
        /\ vrat' = After(uop.dst, renamed)
        /\ allocated' = (allocated \cup renamed.taken) \ freed
        /\ users' = counts
        /\ pending' = pending \cup (dead \ freed)
        /\ value' = Erased(Contents(uop, group, renamed), freed)
        /\ at' = [lane \in Lanes |->
                     CASE lane \notin group -> at[lane]
                       [] lane \in group /\ failed -> Len(program) + 1
                       [] lane \in group /\ ~failed ->
                              IF uop.load THEN u ELSE u + 1]
        /\ parked' = IF uop.load /\ ~failed THEN parked \cup group ELSE parked
        /\ UNCHANGED program

\* A branch in front of uop u, for the lanes of group.  It has no destination,
\* but once the seed's next PC is committed the loop over the group finds the
\* seed at uop u, and executes that too, without a rename.
IssueBranch(branch, u, c, group, seed) ==
    LET uop        == program[u]
        references == References(branch, group)
        v          == Evaluate(Read(uop.src0, seed), Read(uop.src1, seed))
    IN  /\ vir[c] = NoReferences
        /\ Cardinality({d \in CopyIds : vir[d] # NoReferences}) < VIRCapacity
        /\ vir' = [vir EXCEPT ![c] = references]
        /\ users' = Retained(references)
        /\ value' = IF uop.load THEN value
                    ELSE Written(value, vrat[uop.dst], {seed},
                                 [l \in {seed} |-> v])
        /\ at' = IF uop.load THEN at ELSE [at EXCEPT ![seed] = u + 1]
        /\ parked' = IF uop.load THEN parked \cup {seed} ELSE parked
        /\ UNCHANGED <<program, vrat, allocated, pending>>

\* retireCompletedVIR
Retire(c) ==
    LET counts == [name \in Names |-> users[name] - vir[c][name]]
        freed  == {name \in pending : vir[c][name] # 0 /\ counts[name] = 0}
    IN  /\ vir[c] # NoReferences
        /\ vir' = [vir EXCEPT ![c] = NoReferences]
        /\ users' = counts
        /\ allocated' = allocated \ freed
        /\ pending' = pending \ freed
        /\ value' = Erased(value, freed)
        /\ UNCHANGED <<program, at, parked, vrat>>

\* A launch that finds the helper idle clears virBuffer and the replay lanes;
\* the references of the copies stay, and so do the lanes yet to enter.
Begin ==
    /\ vir' = [c \in CopyIds |-> NoReferences]
    /\ at' = [lane \in Lanes |-> IF at[lane] = 0 THEN 0 ELSE Len(program) + 1]
    /\ parked' = {}
    /\ UNCHANGED <<program, vrat, allocated, users, pending, value>>

IssueAny ==
    \E u \in DOMAIN program, c \in CopyIds, diverged \in BOOLEAN :
        \E mask \in SUBSET Waiting(u) :
            \E group \in SUBSET {lane \in mask : CopyOf(lane) = c} :
                /\ group # {}
                /\ \E renamed \in Renames(program[u], group, mask, diverged) :
                       Issue(u, c, group, diverged, renamed)

BranchAny ==
    \E branch \in Branches, u \in DOMAIN program, c \in CopyIds :
        \E group \in SUBSET {lane \in Waiting(u) : CopyOf(lane) = c} :
            \E seed \in group : IssueBranch(branch, u, c, group, seed)

Next ==
    \/ \E lane \in Lanes, v \in Values : Enter(lane, v) \/ Resume(lane, v)
    \/ IssueAny
    \/ BranchAny
    \/ \E c \in CopyIds : Retire(c)
    \/ Begin

Spec == Init /\ [][Next]_vars

--------------------------------------------------------------------------------
\* Every variable has its type.
TypeOK ==
    /\ program \in Programs
    /\ at \in [Lanes -> 0 .. Len(program) + 1]
    /\ parked \subseteq Lanes
    /\ vrat \in [Arch -> [name : [Lanes -> Names], vector : [Lanes -> BOOLEAN]]]
    /\ allocated \subseteq Names
    /\ users \in [Names -> Nat]
    /\ pending \subseteq Names
    /\ value \in [Names -> [Lanes -> Values]]
    /\ vir \in [CopyIds -> [Names -> Nat]]

\* conservationValid, which the code asserts after every rename and retire, and
\* what it is for: a mapped name is allocated, and so is a name that an issued
\* copy still refers to, since a free name has no user and no release
\* outstanding.
Conservation ==
    /\ \A arch \in Arch : MappedNames(vrat[arch]) \subseteq allocated
    /\ \A name \in Names \ allocated : users[name] = 0 /\ name \notin pending
    /\ \A c \in CopyIds, name \in Names : users[name] >= vir[c][name]

\* Two registers, or two lanes of one, never share a cell, whatever masked
\* renames, deferred paths and late responses came before.
CellsDistinct ==
    \A a, b \in Arch, l, m \in Lanes :
        CellOf(vrat[a], l) = CellOf(vrat[b], m) => a = b /\ l = m

\* The register file implements registers that are private to a lane.
Private == INSTANCE LaneRegisters WITH
    regs <- [arch \in Arch |-> [lane \in Lanes |-> Read(arch, lane)]]
LanePrivate == Private!Spec
================================================================================
