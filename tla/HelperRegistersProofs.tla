-------------------------- MODULE HelperRegistersProofs ------------------------
(***************************************************************************)
(* For every number of registers, lanes, copies and names, every program    *)
(* and every evaluation function: no two lanes share a cell, the register   *)
(* file implements registers that are private to a lane, and no name is     *)
(* free while a lane has it or an issued copy refers to it.                 *)
(***************************************************************************)
EXTENDS HelperRegisters, FiniteSetTheorems, TLAPS

Maps == [name : [Lanes -> Names], vector : [Lanes -> BOOLEAN]]
Bank == [Names -> [Lanes -> Values]]

Types ==
    /\ program \in Programs
    /\ at \in [Lanes -> 0 .. Len(program) + 1]
    /\ parked \subseteq {lane \in Lanes : at[lane] \in DOMAIN program}
    /\ vrat \in [Arch -> Maps]
    /\ allocated \subseteq Names
    /\ value \in Bank

\* A map is regular: vector lanes have vector names, and a vector name belongs
\* to the lanes of one copy.
Regular(map) ==
    /\ \A l \in Lanes : map.vector[l] <=> map.name[l] \in VectorNames
    /\ \A l, m \in Lanes : map.vector[l] /\ map.name[l] = map.name[m] =>
                               CopyOf(l) = CopyOf(m)

\* No name belongs to two registers.
Separate ==
    \A a, b \in Arch, l, m \in Lanes :
        vrat[a].name[l] = vrat[b].name[m] => a = b

\* Mapped names are allocated, and not on their way out.
Held == \A a \in Arch, l \in Lanes :
            vrat[a].name[l] \in allocated /\ vrat[a].name[l] \notin pending

\* The inductive invariant.
IInv ==
    /\ Types
    /\ \A a \in Arch : Regular(vrat[a])
    /\ Separate
    /\ pending \subseteq allocated
    /\ Held

(***************************************************************************)
(* Lanes, copies and elements.                                              *)
(***************************************************************************)
\* A lane is the element of its copy at its place, and only that.
LEMMA LaneDecomposed ==
    /\ \A l \in Lanes : /\ CopyOf(l) \in CopyIds
                        /\ ElementOf(l) \in Lanes
                        /\ ElementOf(l) < LanesPerCopy
                        /\ CopyOf(l) * LanesPerCopy + ElementOf(l) = l
    /\ \A l, m \in Lanes :
          CopyOf(l) = CopyOf(m) /\ ElementOf(l) = ElementOf(m) => l = m
<1> DEFINE k == LanesPerCopy
<1>1. k \in Nat \ {0} /\ Copies \in Nat \ {0}
  BY HelperRegistersAssumption
<1> HIDE DEF k
<1>2. \A l \in Nat : l = (l \div k) * k + (l % k) /\ l % k \in 0 .. k - 1
                         /\ l \div k \in Nat
  BY <1>1
<1>3. \A l \in 0 .. Copies * k - 1 : l \div k \in 0 .. Copies - 1
  BY <1>1
<1>4. Copies * k \in Nat /\ k <= Copies * k
  BY <1>1
<1>5. \A l \in 0 .. Copies * k - 1 : l % k \in 0 .. Copies * k - 1
  BY <1>1, <1>2, <1>4
<1>6. \A l, m \in Nat : l \div k = m \div k /\ l % k = m % k => l = m
  BY <1>2
<1>7. Lanes = 0 .. Copies * k - 1 /\ CopyIds = 0 .. Copies - 1
      /\ (\A l : CopyOf(l) = l \div k /\ ElementOf(l) = l % k)
  BY DEF k, Lanes, CopyIds, CopyOf, ElementOf
<1>8. \A l \in Lanes : l \in Nat
  BY <1>4, <1>7
<1>9. \A l \in Lanes : l % k < k
  BY <1>1, <1>2, <1>8
<1>10. QED
  BY <1>2, <1>3, <1>5, <1>6, <1>7, <1>8, <1>9, Zenon DEF k

\* Every element of every copy is a lane.
LEMMA LaneComposed ==
    \A c \in CopyIds, e \in Lanes :
        e < LanesPerCopy => c * LanesPerCopy + e \in Lanes
<1>1. ASSUME NEW k \in Nat \ {0}, NEW n \in Nat \ {0},
             NEW e \in 0 .. k - 1, NEW c \in 0 .. n - 1
      PROVE  c * k + e \in 0 .. n * k - 1
  OBVIOUS
<1>2. LanesPerCopy \in Nat \ {0} /\ Copies \in Nat \ {0}
  BY HelperRegistersAssumption
<1>3. \A e \in Lanes : e < LanesPerCopy => e \in 0 .. LanesPerCopy - 1
  BY <1>2 DEF Lanes
<1>4. QED
  BY <1>1, <1>2, <1>3 DEF CopyIds, Lanes

\* Scalar names and vector names are different names.
LEMMA NamesDisjoint ==
    /\ ScalarNames \cap VectorNames = {}
    /\ Names = ScalarNames \cup VectorNames
    /\ Arch \subseteq ScalarNames
BY HelperRegistersAssumption DEF ScalarNames, VectorNames, Names, Arch

\* A bundle has a free vector name of its own for each copy.
LEMMA BundleInjective ==
    ASSUME NEW used, NEW bundle \in Bundles(used)
    PROVE  /\ bundle \in [CopyIds -> VectorNames \ used]
           /\ \A c, d \in CopyIds : bundle[c] = bundle[d] => c = d
<1>1. bundle \in [CopyIds -> VectorNames \ used]
      /\ \A c, d \in CopyIds : c < d => bundle[c] < bundle[d]
  BY DEF Bundles
<1>2. \A c \in CopyIds : bundle[c] \in Int /\ c \in Int
  <2>1. \A c \in CopyIds : c \in Int
    BY HelperRegistersAssumption DEF CopyIds
  <2>2. VectorNames \subseteq Int
    BY HelperRegistersAssumption DEF VectorNames
  <2>3. QED
    BY <1>1, <2>1, <2>2, Zenon
<1>3. QED
  BY <1>1, <1>2

\* In a table whose maps are regular and share no name, cells are distinct.
LEMMA RegularCells ==
    ASSUME NEW table \in [Arch -> Maps],
           \A a \in Arch : Regular(table[a]),
           \A a, b \in Arch, l, m \in Lanes :
               table[a].name[l] = table[b].name[m] => a = b
    PROVE  \A a, b \in Arch, l, m \in Lanes :
               CellOf(table[a], l) = CellOf(table[b], m) => a = b /\ l = m
<1> SUFFICES ASSUME NEW a \in Arch, NEW b \in Arch,
                    NEW l \in Lanes, NEW m \in Lanes,
                    CellOf(table[a], l) = CellOf(table[b], m)
             PROVE  a = b /\ l = m
  OBVIOUS
<1>1. table[a].name[l] = table[b].name[m]
  BY DEF CellOf
<1>2. a = b
  BY <1>1
<1>3. table[a].vector[l] = table[a].vector[m]
  <2>1. table[a].vector[l] \in BOOLEAN /\ table[a].vector[m] \in BOOLEAN
    BY DEF Maps
  <2>2. QED
    BY <2>1, <1>1, <1>2 DEF Regular
<1>4. CASE table[a].vector[l]
  <2>1. CopyOf(l) = CopyOf(m)
    BY <1>1, <1>2, <1>4 DEF Regular
  <2>2. ElementOf(l) = ElementOf(m)
    BY <1>2, <1>3, <1>4 DEF CellOf
  <2>3. QED
    BY <1>2, <2>1, <2>2, LaneDecomposed
<1>5. CASE ~table[a].vector[l]
  BY <1>2, <1>3, <1>5 DEF CellOf
<1>6. QED
  BY <1>4, <1>5

(***************************************************************************)
(* What a rename of arch leaves true, whatever its mask.                    *)
(***************************************************************************)
Sound(arch, renamed) ==
    /\ renamed.map \in Maps
    /\ renamed.value \in Bank
    /\ renamed.taken \subseteq Names \ allocated
    /\ Regular(renamed.map)
    /\ \A l \in Lanes : \/ renamed.map.name[l] = vrat[arch].name[l]
                        \/ renamed.map.name[l] \in renamed.taken
    /\ \A b \in Arch, l \in Lanes :
          ReadAfter(arch, renamed, b, l) = Read(b, l)

\* A read gives a value.
LEMMA ReadTyped ==
    ASSUME Types, NEW arch \in Arch, NEW l \in Lanes
    PROVE  Read(arch, l) \in Values
<1>1. vrat[arch] \in Maps
  BY DEF Types
<1>2. vrat[arch].name[l] \in Names
  BY <1>1 DEF Maps
<1>3. CellOf(vrat[arch], l)[1] \in Names /\ CellOf(vrat[arch], l)[2] \in Lanes
  BY <1>2, LaneDecomposed DEF CellOf
<1>4. QED
  BY <1>3 DEF Types, Bank, Read, ReadCell

\* Leaving the destination as it is is sound.
LEMMA UnrenamedSound ==
    ASSUME IInv, NEW arch \in Arch
    PROVE  Sound(arch, Unrenamed(arch))
<1>1. vrat \in [Arch -> Maps]
  BY DEF IInv, Types
<1>2. After(arch, Unrenamed(arch)) = vrat
  BY <1>1 DEF After, Unrenamed
<1>3. QED
  BY <1>1, <1>2 DEF Sound, Unrenamed, IInv, Types, ReadAfter, Read

\* A scalar name for the masked lanes is sound.
LEMMA ScalarSound ==
    ASSUME IInv, NEW arch \in Arch, NEW mask \in SUBSET Lanes,
           NEW renamed \in ScalarRenames(arch, mask)
    PROVE  Sound(arch, renamed)
<1> PICK name \in FreeScalar(allocated) :
          renamed = [map   |-> ScalarMasked(vrat[arch], name, mask),
                     value |-> ScalarContents(arch, name, mask),
                     taken |-> {name}]
  BY DEF ScalarRenames
<1> DEFINE map == ScalarMasked(vrat[arch], name, mask)
           bank == ScalarContents(arch, name, mask)
<1>1. name \in ScalarNames /\ name \notin allocated /\ name \in Names
      /\ name \notin VectorNames
  BY NamesDisjoint DEF FreeScalar
<1>2. vrat[arch] \in Maps /\ vrat \in [Arch -> Maps] /\ value \in Bank
      /\ Regular(vrat[arch])
  BY DEF IInv, Types
<1>3. /\ \A l \in Lanes : map.name[l] = IF l \in mask THEN name
                                         ELSE vrat[arch].name[l]
      /\ \A l \in Lanes : map.vector[l] = (l \notin mask /\ vrat[arch].vector[l])
  BY DEF ScalarMasked
<1>4. map \in Maps
  BY <1>1, <1>2 DEF ScalarMasked, Maps
<1>5. 0 \in Values
  BY HelperRegistersAssumption
<1>6. \A l \in Lanes : Read(arch, l) \in Values
  BY ReadTyped DEF IInv
<1>7. bank \in Bank
  BY <1>1, <1>2, <1>5, <1>6 DEF ScalarContents, Bank
<1>8. Regular(map)
  <2>1. \A l \in Lanes : map.vector[l] <=> map.name[l] \in VectorNames
    BY <1>1, <1>2, <1>3, Zenon DEF Regular
  <2>2. \A l \in Lanes : map.vector[l] => l \notin mask /\ vrat[arch].vector[l]
    BY <1>3, Zenon
  <2>3. \A l, m \in Lanes : map.vector[l] /\ map.name[l] = map.name[m] =>
                                m \notin mask
    BY <1>1, <1>3, <2>1
  <2>4. QED
    BY <1>2, <1>3, <2>1, <2>2, <2>3 DEF Regular
<1>9. ASSUME NEW b \in Arch, NEW l \in Lanes
      PROVE  ReadAfter(arch, renamed, b, l) = Read(b, l)
  <2>1. CASE b = arch /\ l \in mask
    <3>1. CellOf(map, l) = <<name, l>>
      BY <1>3, <2>1, Zenon DEF CellOf
    <3>2. bank[name][l] = Read(arch, l)
      BY <1>1, <1>2, <2>1 DEF ScalarContents, Bank
    <3>3. QED
      BY <1>2, <2>1, <3>1, <3>2 DEF ReadAfter, ReadCell, After
  <2>2. CASE ~(b = arch /\ l \in mask)
    <3>1. CellOf(After(arch, renamed)[b], l) = CellOf(vrat[b], l)
      <4>1. CASE b = arch
        <5>1. map.name[l] = vrat[arch].name[l] /\ map.vector[l] = vrat[arch].vector[l]
          <6>1. vrat[arch].vector[l] \in BOOLEAN
            BY <1>2 DEF Maps
          <6>2. QED
            BY <1>3, <2>2, <4>1, <6>1
        <5>2. QED
          BY <1>2, <4>1, <5>1 DEF After, CellOf
      <4>2. CASE b # arch
        BY <1>2, <4>2 DEF After
      <4>3. QED
        BY <4>1, <4>2
    <3>2. vrat[b].name[l] \in allocated
      BY DEF IInv, Held
    <3>3. CellOf(vrat[b], l)[1] # name
      BY <1>1, <3>2 DEF CellOf
    <3>4. \A n \in Names \ {name} : bank[n] = value[n]
      BY <1>1, <1>2 DEF ScalarContents, Bank
    <3>5. CellOf(vrat[b], l)[1] \in Names
      BY <3>2 DEF CellOf, IInv, Types
    <3>6. QED
      BY <3>1, <3>3, <3>4, <3>5 DEF ReadAfter, ReadCell, Read
  <2>3. QED
    BY <2>1, <2>2
<1>10. QED
  BY <1>1, <1>3, <1>4, <1>7, <1>8, <1>9, Zenon DEF Sound

\* A vector name of a new bundle holds what arch reads in the lanes of its copy.
LEMMA BundleContents ==
    ASSUME IInv, NEW arch \in Arch, NEW bundle \in Bundles(allocated)
    PROVE  /\ VectorContents(arch, bundle) \in Bank
           /\ \A l \in Lanes :
                  VectorContents(arch, bundle)[bundle[CopyOf(l)]][ElementOf(l)]
                      = Read(arch, l)
           /\ \A n \in Names \ {bundle[c] : c \in CopyIds} :
                  VectorContents(arch, bundle)[n] = value[n]
<1> DEFINE bank == VectorContents(arch, bundle)
<1>1. /\ bundle \in [CopyIds -> VectorNames \ allocated]
      /\ \A c, d \in CopyIds : bundle[c] = bundle[d] => c = d
  BY BundleInjective
<1>2. value \in Bank
  BY DEF IInv, Types
<1>3. \A c \in CopyIds, e \in Lanes : e < LanesPerCopy =>
          c * LanesPerCopy + e \in Lanes
  BY LaneComposed
<1>4. \A c \in CopyIds : CopyContents(arch, c) \in [Lanes -> Values]
  <2>1. 0 \in Values
    BY HelperRegistersAssumption
  <2>2. \A k \in Lanes : Read(arch, k) \in Values
    BY ReadTyped DEF IInv
  <2>3. QED
    BY <1>3, <2>1, <2>2 DEF CopyContents
<1>5. \A c \in CopyIds : bank[bundle[c]] = CopyContents(arch, c)
  <2> SUFFICES ASSUME NEW c \in CopyIds
               PROVE  bank[bundle[c]] = CopyContents(arch, c)
    OBVIOUS
  <2>1. (CHOOSE d \in CopyIds : bundle[d] = bundle[c]) = c
    BY <1>1
  <2>2. bundle[c] \in Names
    BY <1>1, NamesDisjoint
  <2>3. QED
    BY <2>1, <2>2 DEF VectorContents
<1>6. bank \in Bank
  <2>1. ASSUME NEW n \in Names
        PROVE  bank[n] \in [Lanes -> Values]
    <3>1. CASE \E c \in CopyIds : bundle[c] = n
      BY <1>4, <1>5, <3>1
    <3>2. CASE ~\E c \in CopyIds : bundle[c] = n
      BY <1>2, <3>2 DEF VectorContents, Bank
    <3>3. QED
      BY <3>1, <3>2
  <2>2. bank = [n \in Names |-> bank[n]]
    BY DEF VectorContents
  <2>3. QED
    BY <2>1, <2>2 DEF Bank
<1>7. ASSUME NEW l \in Lanes
      PROVE  bank[bundle[CopyOf(l)]][ElementOf(l)] = Read(arch, l)
  <2>1. /\ CopyOf(l) \in CopyIds /\ ElementOf(l) \in Lanes
        /\ ElementOf(l) < LanesPerCopy
        /\ CopyOf(l) * LanesPerCopy + ElementOf(l) = l
    BY LaneDecomposed
  <2>2. CopyContents(arch, CopyOf(l))[ElementOf(l)] =
            Read(arch, CopyOf(l) * LanesPerCopy + ElementOf(l))
    BY <2>1 DEF CopyContents
  <2>3. QED
    BY <1>5, <2>1, <2>2
<1>8. \A n \in Names \ {bundle[c] : c \in CopyIds} : bank[n] = value[n]
  BY DEF VectorContents
<1>9. QED
  BY <1>6, <1>7, <1>8

\* A bundle for the masked lanes is sound.
LEMMA VectorSound ==
    ASSUME IInv, NEW arch \in Arch, NEW mask \in SUBSET Lanes,
           NEW renamed \in VectorRenames(arch, mask)
    PROVE  Sound(arch, renamed)
<1> PICK bundle \in Bundles(allocated) :
          renamed = [map   |-> VectorMasked(vrat[arch], bundle, mask),
                     value |-> VectorContents(arch, bundle),
                     taken |-> {bundle[c] : c \in CopyIds}]
  BY DEF VectorRenames
<1> DEFINE map == VectorMasked(vrat[arch], bundle, mask)
           bank == VectorContents(arch, bundle)
           taken == {bundle[c] : c \in CopyIds}
<1>1. /\ bundle \in [CopyIds -> VectorNames \ allocated]
      /\ \A c, d \in CopyIds : bundle[c] = bundle[d] => c = d
  BY BundleInjective
<1>2. taken \subseteq VectorNames \ allocated /\ VectorNames \subseteq Names
  BY <1>1, NamesDisjoint
<1>3. vrat[arch] \in Maps /\ vrat \in [Arch -> Maps] /\ Regular(vrat[arch])
  BY DEF IInv, Types
<1>4. /\ \A l \in Lanes : map.name[l] = IF l \in mask THEN bundle[CopyOf(l)]
                                         ELSE vrat[arch].name[l]
      /\ \A l \in Lanes : map.vector[l] = (l \in mask \/ vrat[arch].vector[l])
  BY DEF VectorMasked
<1>5. \A l \in Lanes : bundle[CopyOf(l)] \in taken
  BY LaneDecomposed
<1>6. map \in Maps
  BY <1>2, <1>3, <1>5 DEF VectorMasked, Maps
<1>7. bank \in Bank
  BY BundleContents
<1>8. Regular(map)
  <2>1. \A l \in Lanes : map.vector[l] <=> map.name[l] \in VectorNames
    BY <1>2, <1>3, <1>4, <1>5, Zenon DEF Regular
  <2>2. ASSUME NEW l \in Lanes, NEW m \in Lanes,
               map.vector[l], map.name[l] = map.name[m]
        PROVE  CopyOf(l) = CopyOf(m)
    <3>1. \A k \in Lanes : vrat[arch].name[k] \notin taken
      BY <1>2 DEF IInv, Held
    <3>2. l \in mask <=> m \in mask
      BY <1>4, <1>5, <2>2, <3>1
    <3>3. CASE l \in mask
      BY <1>1, <1>4, <2>2, <3>2, <3>3, LaneDecomposed
    <3>4. CASE l \notin mask
      BY <1>3, <1>4, <2>2, <3>2, <3>4, Zenon DEF Regular
    <3>5. QED
      BY <3>3, <3>4
  <2>3. QED
    BY <2>1, <2>2 DEF Regular
<1>9. ASSUME NEW b \in Arch, NEW l \in Lanes
      PROVE  ReadAfter(arch, renamed, b, l) = Read(b, l)
  <2>1. CASE b = arch /\ l \in mask
    <3>1. CellOf(map, l) = <<bundle[CopyOf(l)], ElementOf(l)>>
      BY <1>4, <2>1, ZenonT(30) DEF CellOf
    <3>2. bank[bundle[CopyOf(l)]][ElementOf(l)] = Read(arch, l)
      BY BundleContents
    <3>3. QED
      BY <1>3, <2>1, <3>1, <3>2 DEF ReadAfter, ReadCell, After
  <2>2. CASE ~(b = arch /\ l \in mask)
    <3>1. CellOf(After(arch, renamed)[b], l) = CellOf(vrat[b], l)
      <4>1. CASE b = arch
        <5>1. map.name[l] = vrat[arch].name[l] /\ map.vector[l] = vrat[arch].vector[l]
          <6>1. vrat[arch].vector[l] \in BOOLEAN
            BY <1>3 DEF Maps
          <6>2. QED
            BY <1>4, <2>2, <4>1, <6>1
        <5>2. QED
          BY <1>3, <4>1, <5>1 DEF After, CellOf
      <4>2. CASE b # arch
        BY <1>3, <4>2 DEF After
      <4>3. QED
        BY <4>1, <4>2
    <3>2. vrat[b].name[l] \in allocated
      BY DEF IInv, Held
    <3>3. CellOf(vrat[b], l)[1] \in Names \ taken
      BY <1>2, <3>2, Zenon, SMTT(30) DEF CellOf, IInv, Types
    <3>4. \A n \in Names \ taken : bank[n] = value[n]
      BY BundleContents
    <3>5. QED
      BY <3>1, <3>3, <3>4 DEF ReadAfter, ReadCell, Read
  <2>3. QED
    BY <2>1, <2>2
<1>10. QED
  BY <1>2, <1>4, <1>5, <1>6, <1>7, <1>8, <1>9 DEF Sound

\* Every outcome of the rename of an issue is sound.
LEMMA RenamesSound ==
    ASSUME IInv, NEW uop, uop.dst \in Arch, NEW mask \in SUBSET Lanes,
           NEW group, NEW diverged,
           NEW renamed \in Renames(uop, group, mask, diverged)
    PROVE  Sound(uop.dst, renamed)
<1>1. \/ renamed \in ScalarRenames(uop.dst, mask)
      \/ renamed \in VectorRenames(uop.dst, mask)
      \/ renamed = Unrenamed(uop.dst)
  BY DEF Renames, Attempt
<1>2. QED
  BY <1>1, ScalarSound, VectorSound, UnrenamedSound

(***************************************************************************)
(* Writing.                                                                 *)
(***************************************************************************)
\* A table whose maps are regular and share no name.
Exclusive(table) ==
    /\ table \in [Arch -> Maps]
    /\ \A a \in Arch : Regular(table[a])
    /\ \A a, b \in Arch, l, m \in Lanes :
          table[a].name[l] = table[b].name[m] => a = b

\* A write of a register in some lanes changes what those lanes read in that
\* register, and nothing else.
WritesOnly(table, contents, dst, group, result) ==
    /\ Written(contents, table[dst], group, result) \in Bank
    /\ \A b \in Arch, l \in Lanes :
          ReadCell(Written(contents, table[dst], group, result),
                   CellOf(table[b], l)) =
              IF b = dst /\ l \in group THEN result[l]
              ELSE ReadCell(contents, CellOf(table[b], l))

\* When no two registers share a cell, every write is of that kind.
LEMMA WrittenRead ==
    ASSUME NEW table, Exclusive(table), NEW contents \in Bank,
           NEW dst \in Arch, NEW group \in SUBSET Lanes,
           NEW result \in [group -> Values]
    PROVE  WritesOnly(table, contents, dst, group, result)
<1> DEFINE bank == Written(contents, table[dst], group, result)
<1>1. \A a, b \in Arch, l, m \in Lanes :
          CellOf(table[a], l) = CellOf(table[b], m) => a = b /\ l = m
  BY RegularCells DEF Exclusive
<1>2. bank \in Bank
  <2>1. ASSUME NEW n \in Names, NEW i \in Lanes
        PROVE  bank[n][i] \in Values
    <3>1. CASE \E lane \in group : CellOf(table[dst], lane) = <<n, i>>
      <4>1. (CHOOSE lane \in group : CellOf(table[dst], lane) = <<n, i>>)
                \in group
        BY <3>1
      <4>2. QED
        BY <3>1, <4>1 DEF Written
    <3>2. CASE ~\E lane \in group : CellOf(table[dst], lane) = <<n, i>>
      BY <3>2 DEF Written, Bank
    <3>3. QED
      BY <3>1, <3>2
  <2>2. bank = [n \in Names |-> [i \in Lanes |-> bank[n][i]]]
    BY DEF Written
  <2>3. QED
    BY <2>1, <2>2 DEF Bank
<1>3. ASSUME NEW b \in Arch, NEW l \in Lanes
      PROVE  ReadCell(bank, CellOf(table[b], l)) =
                 IF b = dst /\ l \in group THEN result[l]
                 ELSE ReadCell(contents, CellOf(table[b], l))
  <2> DEFINE n == CellOf(table[b], l)[1]
             i == CellOf(table[b], l)[2]
  <2>1. n \in Names /\ i \in Lanes /\ CellOf(table[b], l) = <<n, i>>
    BY LaneDecomposed DEF CellOf, Exclusive, Maps
  <2> HIDE DEF n, i
  <2>2. ReadCell(bank, CellOf(table[b], l)) = bank[n][i]
    BY <2>1 DEF ReadCell
  <2>3. CASE b = dst /\ l \in group
    <3>1. \E lane \in group : CellOf(table[dst], lane) = <<n, i>>
      BY <2>1, <2>3
    <3>2. (CHOOSE lane \in group : CellOf(table[dst], lane) = <<n, i>>) = l
      <4>1. \A lane \in group : CellOf(table[dst], lane) = <<n, i>> => lane = l
        BY <1>1, <2>1, <2>3
      <4>2. QED
        BY <3>1, <4>1
    <3>3. bank[n][i] = result[CHOOSE lane \in group :
                                  CellOf(table[dst], lane) = <<n, i>>]
      BY <2>1, <3>1 DEF Written
    <3>4. QED
      BY <2>2, <2>3, <3>2, <3>3, Zenon
  <2>4. CASE ~(b = dst /\ l \in group)
    <3>1. ~\E lane \in group : CellOf(table[dst], lane) = <<n, i>>
      BY <1>1, <2>1, <2>4
    <3>2. bank[n][i] = contents[n][i]
      BY <2>1, <3>1 DEF Written
    <3>3. QED
      BY <2>1, <2>2, <2>4, <3>2 DEF ReadCell
  <2>5. QED
    BY <2>3, <2>4
<1>4. QED
  BY <1>2, <1>3 DEF WritesOnly

\* Freeing names that no lane has changes nothing a lane reads.
Unmapped(table, freed) ==
    \A b \in Arch, l \in Lanes : table[b].name[l] \notin freed

ErasesNothing(table, contents, freed) ==
    /\ Erased(contents, freed) \in Bank
    /\ \A b \in Arch, l \in Lanes :
          ReadCell(Erased(contents, freed), CellOf(table[b], l)) =
              ReadCell(contents, CellOf(table[b], l))

\* Freeing them is of that kind.
LEMMA ErasedRead ==
    ASSUME NEW table, Exclusive(table), NEW contents \in Bank, NEW freed,
           Unmapped(table, freed)
    PROVE  ErasesNothing(table, contents, freed)
<1>1. Blank \in [Lanes -> Values]
  BY HelperRegistersAssumption DEF Blank
<1>2. Erased(contents, freed) \in Bank
  BY <1>1 DEF Erased, Bank
<1>3. \A b \in Arch, l \in Lanes : CellOf(table[b], l)[1] = table[b].name[l]
                                   /\ table[b].name[l] \in Names
  BY DEF CellOf, Exclusive, Maps
<1>4. QED
  BY <1>2, <1>3 DEF ErasesNothing, Unmapped, ReadCell, Erased

(***************************************************************************)
(* The steps.                                                               *)
(***************************************************************************)
\* The invariant makes the registers of the table exclusive.
LEMMA IInvExclusive == IInv => Exclusive(vrat)
BY DEF IInv, Types, Separate, Exclusive

\* What a sequence holds at a place of its domain.
LEMMA SeqElement ==
    ASSUME NEW S, NEW s \in Seq(S), NEW i \in DOMAIN s
    PROVE  s[i] \in S /\ i \in 1 .. Len(s) /\ Len(s) \in Nat
OBVIOUS

\* A uop names registers.
LEMMA UopTyped ==
    ASSUME Types, NEW u \in DOMAIN program
    PROVE  /\ program[u].dst \in Arch
           /\ program[u].src0 \in Arch
           /\ program[u].src1 \in Arch
           /\ u \in 1 .. Len(program) /\ Len(program) \in Nat
<1> DEFINE Uops == [dst : 1 .. NumArch, src0 : 1 .. NumArch,
                    src1 : 1 .. NumArch, load : BOOLEAN]
<1>1. \A r \in Uops : r.dst \in Arch /\ r.src0 \in Arch /\ r.src1 \in Arch
  BY DEF Arch
<1>2. Programs \subseteq Seq(Uops)
  BY HelperRegistersAssumption, Zenon
<1> HIDE DEF Uops
<1>3. program \in Seq(Uops)
  BY <1>2 DEF Types
<1>4. program[u] \in Uops /\ u \in 1 .. Len(program) /\ Len(program) \in Nat
  BY <1>3, SeqElement
<1>5. QED
  BY <1>1, <1>4

\* The value of a load reaches one register of one lane.
Loaded(dst, lane, v) ==
    /\ value' \in Bank
    /\ \A b \in Arch, l \in Lanes :
          Read(b, l)' = IF b = dst /\ l = lane THEN v ELSE Read(b, l)

\* What Enter and Resume do to the contents of the names.
LEMMA LoadStep ==
    ASSUME IInv, NEW dst \in Arch, NEW lane \in Lanes, NEW v \in Values,
           value' = Written(value, vrat[dst], {lane}, [l \in {lane} |-> v]),
           vrat' = vrat
    PROVE  Loaded(dst, lane, v)
<1> DEFINE result == [l \in {lane} |-> v]
<1>1. result \in [{lane} -> Values] /\ {lane} \in SUBSET Lanes
      /\ value \in Bank
  BY DEF IInv, Types
<1>2. value' = Written(value, vrat[dst], {lane}, result)
  OBVIOUS
<1>3. result[lane] = v
  OBVIOUS
<1> HIDE DEF result
<1>4. WritesOnly(vrat, value, dst, {lane}, result)
  BY <1>1, IInvExclusive, WrittenRead, Zenon, SMTT(30)
<1>5. QED
  BY <1>2, <1>3, <1>4 DEF Loaded, Read, WritesOnly

\* The issue of a uop computes in its group, or nowhere if it is a load.
Issued(uop, group) ==
    /\ Exclusive(vrat')
    /\ value' \in Bank
    /\ allocated' \subseteq Names
    /\ pending' \subseteq allocated'
    /\ Held'
    /\ \A b \in Arch, l \in Lanes :
          Read(b, l)' = IF ~uop.load /\ b = uop.dst /\ l \in group
                        THEN Evaluate(Read(uop.src0, l), Read(uop.src1, l))
                        ELSE Read(b, l)

\* Renaming, writing and freeing together have that effect.
LEMMA IssueStep ==
    ASSUME IInv, NEW u \in DOMAIN program, NEW c, NEW mask \in SUBSET Lanes,
           NEW group \in SUBSET mask, NEW diverged,
           NEW renamed \in Renames(program[u], group, mask, diverged),
           Issue(u, c, group, diverged, renamed)
    PROVE  Issued(program[u], group)
<1> DEFINE uop == program[u]
           dst == uop.dst
           references == References(uop, group)
           dead  == Dead(vrat[dst], renamed.map)
           freed == Reclaimable(dead, Retained(references))
<1>1. /\ vrat' = After(dst, renamed)
      /\ allocated' = (allocated \cup renamed.taken) \ freed
      /\ pending' = pending \cup (dead \ freed)
      /\ value' = Erased(Contents(uop, group, renamed), freed)
  BY DEF Issue
<1>2. dst \in Arch /\ uop.src0 \in Arch /\ uop.src1 \in Arch
  BY UopTyped DEF IInv
<1>3. Sound(dst, renamed)
  BY <1>2, RenamesSound
<1>4. freed \subseteq dead
      /\ dead = MappedNames(vrat[dst]) \ MappedNames(renamed.map)
  BY DEF Reclaimable, Dead
<1>5. group \in SUBSET Lanes
  OBVIOUS
<1> HIDE DEF uop, dst, references, dead, freed
<1>6. /\ vrat \in [Arch -> Maps] /\ allocated \subseteq Names
      /\ \A a \in Arch : Regular(vrat[a])
      /\ Separate /\ Held /\ pending \subseteq allocated
  BY Zenon, SMTT(30) DEF IInv, Types
<1>7. /\ vrat'[dst] = renamed.map
      /\ \A b \in Arch \ {dst} : vrat'[b] = vrat[b]
      /\ vrat' \in [Arch -> Maps]
  BY <1>1, <1>2, <1>3, <1>6, Zenon, SMTT(30) DEF After, Sound
<1>8. \A b \in Arch \ {dst}, l, m \in Lanes :
          vrat'[b].name[l] # vrat'[dst].name[m]
  <2> SUFFICES ASSUME NEW b \in Arch \ {dst}, NEW l \in Lanes, NEW m \in Lanes
               PROVE  vrat[b].name[l] # renamed.map.name[m]
    BY <1>7
  <2>1. vrat[b].name[l] \in allocated /\ vrat[b].name[l] # vrat[dst].name[m]
    BY <1>2, <1>6 DEF Held, Separate
  <2>2. QED
    BY <1>3, <2>1 DEF Sound
<1>9. Exclusive(vrat')
  <2>1. \A a \in Arch : Regular(vrat'[a])
    BY <1>3, <1>6, <1>7 DEF Sound
  <2>2. ASSUME NEW a \in Arch, NEW b \in Arch, NEW l \in Lanes, NEW m \in Lanes,
               vrat'[a].name[l] = vrat'[b].name[m]
        PROVE  a = b
    <3>1. CASE a = dst \/ b = dst
      BY <1>8, <2>2, <3>1
    <3>2. CASE a # dst /\ b # dst
      BY <1>6, <1>7, <2>2, <3>2 DEF Separate
    <3>3. QED
      BY <3>1, <3>2
  <2>3. QED
    BY <1>7, <2>1, <2>2, Zenon, SMTT(30) DEF Exclusive
<1>10. \A b \in Arch, l \in Lanes : vrat'[b].name[l] \notin dead
  <2> SUFFICES ASSUME NEW b \in Arch, NEW l \in Lanes
               PROVE  vrat'[b].name[l] \notin dead
    OBVIOUS
  <2>1. CASE b = dst
    BY <1>4, <1>7, <2>1 DEF MappedNames
  <2>2. CASE b # dst
    <3>1. \A m \in Lanes : vrat[b].name[l] # vrat[dst].name[m]
      BY <1>2, <1>6, <2>2 DEF Separate
    <3>2. vrat[b].name[l] \notin MappedNames(vrat[dst])
      BY <3>1 DEF MappedNames
    <3>3. QED
      BY <1>4, <1>7, <2>2, <3>2
  <2>3. QED
    BY <2>1, <2>2
<1>11. dead \subseteq allocated
  BY <1>2, <1>4, <1>6, Zenon, SMTT(30) DEF MappedNames, Held
<1>12. allocated' \subseteq Names /\ pending' \subseteq allocated'
  <2>1. pending \cap freed = {}
    <3>1. \A name \in MappedNames(vrat[dst]) : name \notin pending
      BY <1>2, <1>6, Zenon, SMTT(30) DEF MappedNames, Held
    <3>2. QED
      BY <1>4, <3>1
  <2>2. QED
    BY <1>1, <1>3, <1>4, <1>6, <1>11, <2>1 DEF Sound
<1>13. Held'
  <2> SUFFICES ASSUME NEW b \in Arch, NEW l \in Lanes
               PROVE  vrat'[b].name[l] \in allocated' /\ vrat'[b].name[l] \notin pending'
    BY DEF Held
  <2>1. /\ vrat'[b].name[l] \in allocated \cup renamed.taken
        /\ vrat'[b].name[l] \notin pending
    <3>1. CASE b = dst
      BY <1>2, <1>3, <1>6, <1>7, <3>1, Zenon, SMTT(30) DEF Held, Sound
    <3>2. CASE b # dst
      BY <1>6, <1>7, <3>2, Zenon, SMTT(30) DEF Held
    <3>3. QED
      BY <3>1, <3>2, Zenon, SMTT(30)
  <2>2. QED
    BY <1>1, <1>4, <1>10, <2>1
<1>14. \A b \in Arch, l \in Lanes :
          ReadCell(renamed.value, CellOf(vrat'[b], l)) = Read(b, l)
  BY <1>1, <1>3, Zenon, SMTT(30) DEF Sound, ReadAfter
<1>15. /\ Contents(uop, group, renamed) \in Bank
       /\ \A b \in Arch, l \in Lanes :
             ReadCell(Contents(uop, group, renamed), CellOf(vrat'[b], l)) =
                 IF ~uop.load /\ b = dst /\ l \in group
                 THEN Evaluate(Read(uop.src0, l), Read(uop.src1, l))
                 ELSE Read(b, l)
  <2>1. CASE uop.load
    BY <1>3, <1>14, <2>1, Zenon, SMTT(30) DEF Contents, Sound
  <2>2. CASE ~uop.load
    <3> DEFINE result == Results(uop, group, renamed)
    <3>1. result = [l \in group |-> Evaluate(Read(uop.src0, l), Read(uop.src1, l))]
      BY <1>2, <1>3, <1>5, Zenon, SMTT(30) DEF Results, Sound, dst
    <3>2. \A l \in group : Read(uop.src0, l) \in Values
                           /\ Read(uop.src1, l) \in Values
      BY <1>2, <1>5, ReadTyped, Zenon, SMTT(30) DEF IInv
    <3>3. result \in [group -> Values]
      BY <3>1, <3>2, HelperRegistersAssumption
    <3>4. Contents(uop, group, renamed) =
              Written(renamed.value, vrat'[dst], group, result)
      BY <1>7, <2>2, Zenon, SMTT(30) DEF Contents
    <3> HIDE DEF result
    <3>5. renamed.value \in Bank
      BY <1>3, Zenon, SMTT(30) DEF Sound
    <3>6. WritesOnly(vrat', renamed.value, dst, group, result)
      BY <1>2, <1>5, <1>9, <3>3, <3>5, WrittenRead, Zenon, SMTT(30)
    <3>7. \A l \in group : result[l] = Evaluate(Read(uop.src0, l), Read(uop.src1, l))
      BY <3>1, SMTT(30)
    <3>8. QED
      BY <1>14, <2>2, <3>4, <3>6, <3>7, Zenon, SMTT(30) DEF WritesOnly
  <2>3. QED
    BY <2>1, <2>2, Zenon, SMTT(30)
<1>16. /\ value' \in Bank
       /\ \A b \in Arch, l \in Lanes :
             ReadCell(value', CellOf(vrat'[b], l)) =
                 ReadCell(Contents(uop, group, renamed), CellOf(vrat'[b], l))
  <2>1. Unmapped(vrat', freed)
    BY <1>4, <1>10, Zenon, SMTT(30) DEF Unmapped
  <2>2. ErasesNothing(vrat', Contents(uop, group, renamed), freed)
    BY <1>9, <1>15, <2>1, ErasedRead
  <2>3. QED
    BY <1>1, <2>2, ZenonT(30) DEF ErasesNothing
<1>17. QED
  BY <1>9, <1>12, <1>13, <1>15, <1>16 DEF Issued, Read, uop, dst

(***************************************************************************)
(* The control of the lanes: where they are, and who is parked.             *)
(***************************************************************************)
Places == /\ program' \in Programs
          /\ at' \in [Lanes -> 0 .. Len(program') + 1]
          /\ parked' \subseteq {lane \in Lanes : at'[lane] \in DOMAIN program'}

\* The places of a program are numbered from 1.
LEMMA ProgramDomain ==
    ASSUME Types
    PROVE  DOMAIN program = 1 .. Len(program) /\ Len(program) \in Nat
<1> DEFINE Uops == [dst : 1 .. NumArch, src0 : 1 .. NumArch,
                    src1 : 1 .. NumArch, load : BOOLEAN]
<1>1. program \in Seq(Uops)
  BY HelperRegistersAssumption, Zenon DEF Types
<1> HIDE DEF Uops
<1>2. QED
  BY <1>1

\* A lane that enters is at the first place.
LEMMA EnterPlaces ==
    ASSUME Types, NEW lane \in Lanes, NEW v, Enter(lane, v)
    PROVE  Places
BY ProgramDomain DEF Types, Enter, Places

\* A lane that resumes is past the load it was parked at.
LEMMA ResumePlaces ==
    ASSUME Types, NEW lane \in Lanes, NEW v, Resume(lane, v)
    PROVE  Places
BY ProgramDomain DEF Types, Resume, Places

\* A lane that issues moves on or is parked where it is; parked lanes stay.
LEMMA IssuePlaces ==
    ASSUME Types, NEW u \in DOMAIN program, NEW c,
           NEW mask \in SUBSET Waiting(u), NEW group \in SUBSET mask,
           NEW diverged, NEW renamed,
           Issue(u, c, group, diverged, renamed)
    PROVE  Places
<1> DEFINE failed == (IsVectorized(program[u].dst)
                          \/ SourceVectorized(program[u], group) \/ diverged)
                     /\ renamed.taken = {}
<1>1. /\ program' = program
      /\ at' = [lane \in Lanes |->
                   CASE lane \notin group -> at[lane]
                     [] lane \in group /\ failed -> Len(program) + 1
                     [] lane \in group /\ ~failed ->
                            IF program[u].load THEN u ELSE u + 1]
      /\ parked' = IF program[u].load /\ ~failed THEN parked \cup group
                   ELSE parked
  BY DEF Issue
<1> HIDE DEF failed
<1>2. DOMAIN program = 1 .. Len(program) /\ Len(program) \in Nat
  BY ProgramDomain
<1>3. group \subseteq Lanes /\ parked \cap group = {}
  BY DEF Waiting
<1>4. at' \in [Lanes -> 0 .. Len(program') + 1]
  BY <1>1, <1>2 DEF Types
<1>5. \A lane \in parked : lane \in Lanes /\ at'[lane] = at[lane]
  BY <1>1, <1>3 DEF Types
<1>6. program[u].load /\ ~failed => \A lane \in group : at'[lane] = u
  BY <1>1, <1>3
<1>7. QED
  BY <1>1, <1>3, <1>4, <1>5, <1>6 DEF Types, Places

\* Behind a branch the seed moves on or is parked where it is.
LEMMA BranchPlaces ==
    ASSUME Types, NEW branch, NEW u \in DOMAIN program, NEW c, NEW group,
           NEW seed \in Waiting(u), IssueBranch(branch, u, c, group, seed)
    PROVE  Places
<1>1. /\ program' = program
      /\ at' = IF program[u].load THEN at ELSE [at EXCEPT ![seed] = u + 1]
      /\ parked' = IF program[u].load THEN parked \cup {seed} ELSE parked
  BY DEF IssueBranch
<1>2. DOMAIN program = 1 .. Len(program) /\ Len(program) \in Nat
  BY ProgramDomain
<1>3. seed \in Lanes \ parked /\ at[seed] = u
  BY DEF Waiting
<1>4. at' \in [Lanes -> 0 .. Len(program') + 1]
  BY <1>1, <1>2, <1>3 DEF Types
<1>5. \A lane \in parked : lane \in Lanes /\ at'[lane] = at[lane]
  BY <1>1, <1>3 DEF Types
<1>6. program[u].load => at'[seed] = u
  BY <1>1, <1>3
<1>7. QED
  BY <1>1, <1>3, <1>4, <1>5, <1>6, Zenon, SMTT(30) DEF Types, Places

(***************************************************************************)
(* The initial states.                                                      *)
(***************************************************************************)
\* A launch establishes the invariant, and every lane reads the snapshot.
LEMMA InitInvariant ==
    ASSUME Init
    PROVE  /\ IInv
           /\ \E snapshot \in [Arch -> Values] :
                 \A a \in Arch, l \in Lanes : Read(a, l) = snapshot[a]
<1>0. PICK bundle \in Bundles({}), snapshot \in [Arch -> Values] :
          /\ vrat = [arch \in Arch |-> IF arch = Trigger THEN Vector(bundle)
                                       ELSE Scalar(arch)]
          /\ allocated = (Arch \ {Trigger}) \cup {bundle[c] : c \in CopyIds}
          /\ value = [name \in Names |->
                         IF name \in Arch \ {Trigger}
                         THEN [lane \in Lanes |-> snapshot[name]]
                         ELSE IF \E c \in CopyIds : bundle[c] = name
                         THEN [lane \in Lanes |-> IF lane < LanesPerCopy
                                                  THEN snapshot[Trigger] ELSE 0]
                         ELSE Blank]
  BY Zenon DEF Init
<1>1. bundle \in [CopyIds -> VectorNames]
      /\ \A c, d \in CopyIds : bundle[c] = bundle[d] => c = d
  BY BundleInjective, Zenon DEF Bundles
<1>2. Trigger \in Arch /\ Arch \subseteq ScalarNames
      /\ ScalarNames \cap VectorNames = {}
  BY HelperRegistersAssumption, NamesDisjoint DEF Arch, ScalarNames
<1>3. \A l \in Lanes : CopyOf(l) \in CopyIds /\ ElementOf(l) \in Lanes
                       /\ ElementOf(l) < LanesPerCopy
  BY LaneDecomposed
<1>4. /\ vrat[Trigger] = Vector(bundle)
      /\ \A a \in Arch \ {Trigger} : vrat[a] = Scalar(a)
  BY <1>0, <1>2
<1>5. /\ \A l \in Lanes : /\ vrat[Trigger].name[l] = bundle[CopyOf(l)]
                          /\ vrat[Trigger].vector[l]
                          /\ bundle[CopyOf(l)] \in VectorNames
      /\ \A a \in Arch \ {Trigger}, l \in Lanes :
            vrat[a].name[l] = a /\ ~vrat[a].vector[l]
  <2>1. ASSUME NEW l \in Lanes
        PROVE  /\ Vector(bundle).name[l] = bundle[CopyOf(l)]
               /\ Vector(bundle).vector[l] = TRUE
               /\ bundle[CopyOf(l)] \in VectorNames
    BY <1>1, <1>3 DEF Vector
  <2>2. ASSUME NEW a \in Arch \ {Trigger}, NEW l \in Lanes
        PROVE  vrat[a].name[l] = a /\ vrat[a].vector[l] = FALSE
    <3>1. vrat[a] = Scalar(a)
      BY <1>4
    <3>2. QED
      BY <3>1 DEF Scalar
  <2>3. ASSUME NEW l \in Lanes
        PROVE  /\ vrat[Trigger].name[l] = bundle[CopyOf(l)]
               /\ vrat[Trigger].vector[l] = TRUE
               /\ bundle[CopyOf(l)] \in VectorNames
    BY <1>4, <2>1, Zenon
  <2>4. QED
    BY <2>2, <2>3, Zenon
<1>6. vrat \in [Arch -> Maps]
  <2>1. Vector(bundle) \in Maps
    BY <1>1, <1>3 DEF Vector, Maps, Names
  <2>2. \A a \in Arch : Scalar(a) \in Maps
    BY <1>2 DEF Scalar, Maps, Names
  <2>3. QED
    BY <1>0, <2>1, <2>2
<1>7. allocated \subseteq Names
  BY <1>0, <1>1, <1>2 DEF Names
<1>8. value \in Bank
  <2>1. Blank \in [Lanes -> Values] /\ 0 \in Values
    BY HelperRegistersAssumption DEF Blank
  <2>2. \A name \in Names : value[name] \in [Lanes -> Values]
    BY <1>0, <1>2, <2>1, Zenon, SMTT(30)
  <2>3. QED
    BY <1>0, <2>2 DEF Bank
<1>9. Types
  BY <1>6, <1>7, <1>8 DEF Init, Types
<1>10. \A a \in Arch : Regular(vrat[a])
  <2>1. Regular(vrat[Trigger])
    <3>1. \A l \in Lanes : vrat[Trigger].vector[l]
                           <=> vrat[Trigger].name[l] \in VectorNames
      BY <1>5, Zenon, SMTT(30)
    <3>2. \A l, m \in Lanes : vrat[Trigger].name[l] = vrat[Trigger].name[m]
                                  => CopyOf(l) = CopyOf(m)
      BY <1>1, <1>3, <1>5
    <3>3. QED
      BY <3>1, <3>2 DEF Regular
  <2>2. ASSUME NEW a \in Arch \ {Trigger} PROVE Regular(vrat[a])
    BY <1>2, <1>5 DEF Regular
  <2>3. QED
    BY <2>1, <2>2
<1>11. Separate
  BY <1>2, <1>5 DEF Separate
<1>12. Held /\ pending \subseteq allocated
  <2>1. pending = {}
    BY DEF Init
  <2>2. \A a \in Arch, l \in Lanes : vrat[a].name[l] \in allocated
    <3>1. ASSUME NEW l \in Lanes PROVE vrat[Trigger].name[l] \in allocated
      <4>1. bundle[CopyOf(l)] \in {bundle[c] : c \in CopyIds}
        BY <1>3, Zenon, SMTT(30)
      <4>2. vrat[Trigger].name[l] = bundle[CopyOf(l)]
        BY <1>5
      <4>3. {bundle[c] : c \in CopyIds} \subseteq allocated
        BY <1>0, Zenon, SMTT(30)
      <4>4. QED
        BY <4>1, <4>2, <4>3
    <3>2. \A a \in Arch \ {Trigger}, l \in Lanes : vrat[a].name[l] \in allocated
      <4>1. Arch \ {Trigger} \subseteq allocated
        BY <1>0
      <4>2. QED
        BY <1>5, <4>1
    <3>3. QED
      BY <3>1, <3>2
  <2>3. QED
    BY <2>1, <2>2, Zenon, SMTT(30) DEF Held
<1>13. ASSUME NEW a \in Arch, NEW l \in Lanes PROVE Read(a, l) = snapshot[a]
  <2>1. CASE a = Trigger
    <3>1. CellOf(vrat[a], l) = <<bundle[CopyOf(l)], ElementOf(l)>>
      BY <1>5, <2>1, Zenon, SMTT(30) DEF CellOf
    <3>2. value[bundle[CopyOf(l)]][ElementOf(l)] = snapshot[Trigger]
      BY <1>0, <1>1, <1>2, <1>3, <1>5, Zenon, SMTT(30) DEF Names
    <3>3. QED
      BY <2>1, <3>1, <3>2 DEF Read, ReadCell
  <2>2. CASE a # Trigger
    <3>1. CellOf(vrat[a], l) = <<a, l>>
      BY <1>5, <2>2, Zenon, SMTT(30) DEF CellOf
    <3>2. value[a][l] = snapshot[a]
      BY <1>0, <1>2, <2>2, Zenon, SMTT(30) DEF Names
    <3>3. QED
      BY <3>1, <3>2 DEF Read, ReadCell
  <2>3. QED
    BY <2>1, <2>2, Zenon, SMTT(30)
<1>14. QED
  BY <1>9, <1>10, <1>11, <1>12, <1>13 DEF IInv

(***************************************************************************)
(* The theorems.                                                            *)
(***************************************************************************)
Regs == [arch \in Arch |-> [lane \in Lanes |-> Read(arch, lane)]]

\* The invariant after a step, from its parts.
LEMMA IInvPrimed ==
    ASSUME Places, Exclusive(vrat'), value' \in Bank, allocated' \subseteq Names,
           pending' \subseteq allocated', Held'
    PROVE  IInv'
BY DEF Places, Exclusive, IInv, Types, Separate, Regular

\* Every step keeps the invariant, and is for the lanes a computation, a load
\* or nothing.
LEMMA NextStep ==
    ASSUME IInv, Next
    PROVE  IInv' /\ (Private!Next \/ Regs' = Regs)
<1>1. Types /\ Held /\ pending \subseteq allocated /\ value \in Bank
      /\ allocated \subseteq Names /\ Exclusive(vrat)
  BY IInvExclusive DEF IInv, Types
<1>2. ASSUME NEW dst \in Arch, NEW lane \in Lanes, NEW v \in Values, Places,
             value' = Written(value, vrat[dst], {lane}, [l \in {lane} |-> v]),
             UNCHANGED <<vrat, allocated, pending>>
      PROVE  IInv' /\ Private!Next
  <2>1. Loaded(dst, lane, v)
    BY <1>2, LoadStep, Zenon
  <2>2. IInv'
    BY <1>1, <1>2, <2>1, IInvPrimed DEF Held, Loaded
  <2>3. Regs' = [Regs EXCEPT ![dst][lane] = v]
    BY <2>1, Zenon DEF Regs, Loaded
  <2>4. Private!Load(dst, lane, v)
    BY <2>3 DEF Regs, Private!Load
  <2>5. QED
    BY <2>2, <2>4 DEF Private!Next
<1>3. ASSUME NEW lane \in Lanes, NEW v \in Values, Enter(lane, v)
      PROVE  IInv' /\ Private!Next
  <2>1. Trigger \in Arch
    BY HelperRegistersAssumption DEF Arch
  <2>2. QED
    BY <1>1, <1>2, <1>3, <2>1, EnterPlaces, ZenonT(30) DEF Enter
<1>4. ASSUME NEW lane \in Lanes, NEW v \in Values, Resume(lane, v)
      PROVE  IInv' /\ Private!Next
  <2>1. program[at[lane]].dst \in Arch
    BY <1>1, <1>4, UopTyped, Zenon DEF Resume, Types
  <2>2. QED
    BY <1>1, <1>2, <1>4, <2>1, ResumePlaces, Zenon DEF Resume
<1>5. CASE IssueAny
  <2>a. PICK u \in DOMAIN program, c \in CopyIds, diverged \in BOOLEAN :
            \E mask \in SUBSET Waiting(u) :
                \E group \in SUBSET {lane \in mask : CopyOf(lane) = c} :
                    /\ group # {}
                    /\ \E renamed \in Renames(program[u], group, mask, diverged) :
                           Issue(u, c, group, diverged, renamed)
    BY <1>5 DEF IssueAny
  <2>b. PICK mask \in SUBSET Waiting(u) :
            \E group \in SUBSET {lane \in mask : CopyOf(lane) = c} :
                /\ group # {}
                /\ \E renamed \in Renames(program[u], group, mask, diverged) :
                       Issue(u, c, group, diverged, renamed)
    BY <2>a
  <2>c. PICK group \in SUBSET mask :
            \E renamed \in Renames(program[u], group, mask, diverged) :
                Issue(u, c, group, diverged, renamed)
    BY <2>b
  <2>1. PICK renamed \in Renames(program[u], group, mask, diverged) :
            Issue(u, c, group, diverged, renamed)
    BY <2>c
  <2>2. mask \in SUBSET Lanes /\ group \in SUBSET Lanes
    BY DEF Waiting
  <2> DEFINE uop == program[u]
  <2>3. uop.dst \in Arch /\ uop.src0 \in Arch /\ uop.src1 \in Arch
    BY <1>1, UopTyped
  <2> HIDE DEF uop
  <2>4. Issued(uop, group)
    BY <2>1, <2>2, IssueStep DEF uop
  <2>5. Places
    BY <1>1, <2>1, IssuePlaces, ZenonT(30)
  <2>6. CASE uop.load
    BY <2>4, <2>5, <2>6, IInvPrimed, SMTT(30) DEF Issued, Regs
  <2>7. CASE ~uop.load
    <3>1. Regs' = [Regs EXCEPT ![uop.dst] =
                      [lane \in Lanes |->
                          IF lane \in group
                          THEN Evaluate(Regs[uop.src0][lane], Regs[uop.src1][lane])
                          ELSE Regs[uop.dst][lane]]]
      BY <2>2, <2>3, <2>4, <2>7, ZenonT(30) DEF Issued, Regs
    <3>2. Private!Compute(uop.dst, uop.src0, uop.src1, group)
      BY <3>1, Zenon, SMTT(30) DEF Regs, Private!Compute
    <3>3. QED
      BY <2>2, <2>3, <2>4, <2>5, <3>2, IInvPrimed, Zenon DEF Issued, Private!Next
  <2>8. QED
    BY <2>6, <2>7
<1>6. ASSUME NEW c \in CopyIds, Retire(c)
      PROVE  IInv' /\ Regs' = Regs
  <2> DEFINE counts == [name \in Names |-> users[name] - vir[c][name]]
             freed  == {name \in pending : vir[c][name] # 0 /\ counts[name] = 0}
  <2>1. /\ allocated' = allocated \ freed
        /\ pending' = pending \ freed
        /\ value' = Erased(value, freed)
        /\ UNCHANGED <<program, at, parked, vrat>>
    BY <1>6 DEF Retire
  <2>2. freed \subseteq pending
    OBVIOUS
  <2> HIDE DEF freed
  <2>3. Unmapped(vrat, freed)
    BY <1>1, <2>2 DEF Held, Unmapped
  <2>4. ErasesNothing(vrat, value, freed)
    BY <1>1, <2>3, ErasedRead
  <2>5. Regs' = Regs
    BY <2>1, <2>4 DEF Regs, Read, ErasesNothing
  <2>6. Held'
    BY <1>1, <2>1, <2>3 DEF Held, Unmapped
  <2>7. Places
    BY <1>1, <2>1 DEF Types, Places
  <2>8. QED
    BY <1>1, <2>1, <2>2, <2>4, <2>5, <2>6, <2>7, IInvPrimed, Zenon, SMTT(30)
    DEF ErasesNothing
<1>7. CASE Begin
  <2>1. UNCHANGED <<program, vrat, allocated, pending, value>>
    BY <1>7 DEF Begin
  <2>2. Places
    BY <1>1, <1>7, ProgramDomain DEF Begin, Types, Places
  <2>3. Regs' = Regs
    BY <2>1 DEF Regs, Read
  <2>4. QED
    BY <1>1, <2>1, <2>2, <2>3, IInvPrimed DEF Held
<1>8. CASE BranchAny
  <2>1. PICK branch \in Branches, u \in DOMAIN program, c \in CopyIds :
            \E group \in SUBSET {lane \in Waiting(u) : CopyOf(lane) = c} :
                \E seed \in group : IssueBranch(branch, u, c, group, seed)
    BY <1>8 DEF BranchAny
  <2>2. PICK group \in SUBSET Waiting(u) :
            \E seed \in group : IssueBranch(branch, u, c, group, seed)
    BY <2>1
  <2>3. PICK seed \in group : IssueBranch(branch, u, c, group, seed)
    BY <2>2
  <2>4. seed \in Waiting(u) /\ seed \in Lanes
    BY DEF Waiting
  <2>5. Places
    BY <1>1, <2>3, <2>4, BranchPlaces, Zenon, SMTT(30)
  <2> DEFINE uop == program[u]
             v   == Evaluate(Read(uop.src0, seed), Read(uop.src1, seed))
  <2>6. uop.dst \in Arch /\ uop.src0 \in Arch /\ uop.src1 \in Arch
    BY <1>1, UopTyped, Zenon, SMTT(30)
  <2>7. v \in Values
    <3>1. Read(uop.src0, seed) \in Values /\ Read(uop.src1, seed) \in Values
      BY <1>1, <2>4, <2>6, ReadTyped, SMTT(30)
    <3>2. QED
      BY <3>1, HelperRegistersAssumption, Zenon, SMTT(30)
  <2>8. /\ UNCHANGED <<vrat, allocated, pending>>
        /\ value' = IF uop.load THEN value
                    ELSE Written(value, vrat[uop.dst], {seed},
                                 [l \in {seed} |-> v])
    BY <2>3, ZenonT(30) DEF IssueBranch
  <2> HIDE DEF uop, v
  <2>9. CASE uop.load
    <3>1. Regs' = Regs
      BY <2>8, <2>9, ZenonT(30) DEF Regs, Read
    <3>2. QED
      BY <1>1, <2>5, <2>8, <2>9, <3>1, IInvPrimed, ZenonT(30) DEF Held
  <2>10. CASE ~uop.load
    BY <1>2, <2>4, <2>5, <2>6, <2>7, <2>8, <2>10, Zenon
  <2>11. QED
    BY <2>9, <2>10
<1>9. QED
  BY <1>3, <1>4, <1>5, <1>6, <1>7, <1>8, Zenon, SMTT(30) DEF Next

\* The invariant holds throughout.
THEOREM Invariant == Spec => []IInv
<1>1. Init => IInv
  BY InitInvariant
<1>2. IInv /\ [Next]_vars => IInv'
  <2>1. CASE Next
    BY <2>1, NextStep
  <2>2. CASE UNCHANGED vars
    <3>1. ASSUME IInv PROVE IInv'
      <4>1. UNCHANGED <<program, at, parked, vrat, allocated, pending, value>>
        BY <2>2 DEF vars
      <4>2. Places /\ Held'
        BY <3>1, <4>1 DEF IInv, Types, Places, Held
      <4>3. QED
        BY <3>1, <4>1, <4>2, IInvExclusive, IInvPrimed DEF IInv, Types
    <3>2. QED
      BY <3>1, Zenon, SMTT(30)
  <2>3. QED
    BY <2>1, <2>2
<1>3. QED
  BY <1>1, <1>2, PTL DEF Spec

\* No two registers and no two lanes ever share a cell of the register file,
\* whatever is renamed, masked, released and returned late.
THEOREM DistinctCells == Spec => []CellsDistinct
<1>1. IInv => CellsDistinct
  <2> SUFFICES ASSUME IInv PROVE CellsDistinct
    OBVIOUS
  <2>1. QED
    BY RegularCells DEF IInv, Types, CellsDistinct, Separate
<1>2. QED
  BY <1>1, Invariant, PTL

\* The register file gives every lane registers of its own: each step is a
\* computation from the lane's sources into its destination, a load into one
\* register of one lane, or changes no register of any lane.
THEOREM Refinement == Spec => LanePrivate
<1>1. Init => Private!Init
  <2> SUFFICES ASSUME Init PROVE Private!Init
    OBVIOUS
  <2>1. PICK snapshot \in [Arch -> Values] :
            \A a \in Arch, l \in Lanes : Read(a, l) = snapshot[a]
    BY InitInvariant
  <2>2. QED
    BY <2>1 DEF Private!Init
<1>2. IInv /\ [Next]_vars => [Private!Next]_Regs
  <2>1. CASE Next
    BY <2>1, NextStep
  <2>2. CASE UNCHANGED vars
    BY <2>2 DEF vars, Regs, Read
  <2>3. QED
    BY <2>1, <2>2
<1>3. QED
  BY <1>1, <1>2, Invariant, PTL DEF Spec, LanePrivate, Private!Spec, Regs

(***************************************************************************)
(* Reference counts.  The count of a name covers the references of all the  *)
(* issued copies together, which no sum over a set has to say: a ledger     *)
(* enters them copy by copy, and the count is at least its last entry.      *)
(***************************************************************************)
Covers(n, held) ==
    \E ledger \in [0 .. Copies -> Nat] :
        /\ \A c \in CopyIds : ledger[c + 1] = ledger[c] + held[c]
        /\ \A i, j \in 0 .. Copies : i <= j => ledger[i] <= ledger[j]
        /\ ledger[Copies] <= n

\* What each copy holds of a name.
HeldOf(name) == [c \in CopyIds |-> vir[c][name]]

Counted ==
    /\ users \in [Names -> Nat]
    /\ vir \in [CopyIds -> [Names -> Nat]]
    /\ \A name \in Names : Covers(users[name], HeldOf(name))
    /\ \A name \in Names \ allocated : users[name] = 0

\* Copies are numbered from 0.
LEMMA CopyIdsProperties ==
    /\ Copies \in Nat \ {0}
    /\ CopyIds = 0 .. Copies - 1
    /\ \A c \in CopyIds : c \in 0 .. Copies /\ c + 1 \in 0 .. Copies
BY HelperRegistersAssumption DEF CopyIds

\* Any count covers copies that hold nothing.
LEMMA CoversNothing ==
    ASSUME NEW n \in Nat, NEW held, \A c \in CopyIds : held[c] = 0
    PROVE  Covers(n, held)
<1> DEFINE ledger == [i \in 0 .. Copies |-> 0]
<1>1. ledger \in [0 .. Copies -> Nat]
  OBVIOUS
<1>2. /\ \A c \in CopyIds : ledger[c + 1] = ledger[c] + held[c]
      /\ \A i, j \in 0 .. Copies : i <= j => ledger[i] <= ledger[j]
      /\ ledger[Copies] <= n
  BY CopyIdsProperties
<1>3. QED
  BY <1>1, <1>2, Zenon DEF Covers

\* A copy that holds nothing takes references, and the count grows with them.
LEMMA CoversMore ==
    ASSUME NEW n \in Nat, NEW held \in [CopyIds -> Nat], NEW c \in CopyIds,
           NEW r \in Nat, Covers(n, held), held[c] = 0
    PROVE  Covers(n + r, [held EXCEPT ![c] = r])
<1> DEFINE more == [held EXCEPT ![c] = r]
<1>1. PICK old \in [0 .. Copies -> Nat] :
          /\ \A d \in CopyIds : old[d + 1] = old[d] + held[d]
          /\ \A i, j \in 0 .. Copies : i <= j => old[i] <= old[j]
          /\ old[Copies] <= n
  BY Zenon DEF Covers
<1> DEFINE ledger == [i \in 0 .. Copies |-> IF i > c THEN old[i] + r ELSE old[i]]
<1>2. ledger \in [0 .. Copies -> Nat]
  OBVIOUS
<1>3. c \in Int /\ c < Copies /\ Copies \in Nat
  BY CopyIdsProperties
<1>4. ASSUME NEW d \in CopyIds PROVE ledger[d + 1] = ledger[d] + more[d]
  <2>1. d \in 0 .. Copies /\ d + 1 \in 0 .. Copies /\ d \in Int
    BY CopyIdsProperties
  <2>2. old[d] \in Nat /\ old[d + 1] \in Nat /\ old[d + 1] = old[d] + held[d] /\ held[d] \in Nat
    BY <1>1, <2>1
  <2>3. ledger[d] = (IF d > c THEN old[d] + r ELSE old[d])
        /\ ledger[d + 1] = (IF d + 1 > c THEN old[d + 1] + r ELSE old[d + 1])
    BY <2>1
  <2>4. more[d] = IF d = c THEN r ELSE held[d]
    OBVIOUS
  <2> HIDE DEF ledger, more
  <2>5. QED
    BY <1>3, <2>1, <2>2, <2>3, <2>4
<1>5. ASSUME NEW i \in 0 .. Copies, NEW j \in 0 .. Copies, i <= j
      PROVE  ledger[i] <= ledger[j]
  <2>1. old[i] \in Nat /\ old[j] \in Nat /\ old[i] <= old[j]
    BY <1>1, <1>5
  <2>2. QED
    BY <1>3, <1>5, <2>1
<1>6. ledger[Copies] <= n + r
  <2>1. old[Copies] \in Nat /\ old[Copies] <= n
    BY <1>1, <1>3
  <2>2. QED
    BY <1>3, <2>1
<1> HIDE DEF ledger, more
<1>7. Covers(n + r, more)
  BY <1>2, <1>4, <1>5, <1>6, Zenon DEF Covers
<1>8. QED
  BY <1>7 DEF more

\* The count covers what any one copy holds, and without it the others still.
LEMMA CoversLess ==
    ASSUME NEW n \in Nat, NEW held \in [CopyIds -> Nat], NEW c \in CopyIds,
           Covers(n, held)
    PROVE  /\ held[c] <= n
           /\ Covers(n - held[c], [held EXCEPT ![c] = 0])
<1> DEFINE r == held[c]
           less == [held EXCEPT ![c] = 0]
<1>1. PICK old \in [0 .. Copies -> Nat] :
          /\ \A d \in CopyIds : old[d + 1] = old[d] + held[d]
          /\ \A i, j \in 0 .. Copies : i <= j => old[i] <= old[j]
          /\ old[Copies] <= n
  BY Zenon DEF Covers
<1> DEFINE ledger == [i \in 0 .. Copies |-> IF i > c THEN old[i] - r ELSE old[i]]
<1>2. c \in Int /\ c < Copies /\ Copies \in Nat /\ c \in 0 .. Copies
      /\ c + 1 \in 0 .. Copies /\ Copies \in 0 .. Copies
  BY CopyIdsProperties
<1>3. old[c] \in Nat /\ old[c + 1] \in Nat /\ old[c + 1] = old[c] + r /\ r \in Nat
  BY <1>1, <1>2
<1>4. ASSUME NEW i \in 0 .. Copies, i > c
      PROVE  old[i] \in Nat /\ old[i] - r \in Nat /\ old[c] <= old[i] - r
  <2>1. c + 1 <= i
    BY <1>2, <1>4
  <2>2. old[c + 1] <= old[i] /\ old[i] \in Nat
    BY <1>1, <1>2, <2>1
  <2>3. QED
    BY <1>3, <2>2
<1>5. r <= n
  <2>1. old[Copies] \in Nat /\ old[Copies] <= n /\ old[Copies] - r \in Nat
    BY <1>1, <1>2, <1>4
  <2>2. QED
    BY <1>3, <2>1
<1>6. ledger \in [0 .. Copies -> Nat]
  BY <1>4, Zenon, SMTT(30)
<1>7. ASSUME NEW d \in CopyIds PROVE ledger[d + 1] = ledger[d] + less[d]
  <2>1. d \in 0 .. Copies /\ d + 1 \in 0 .. Copies /\ d \in Int
    BY CopyIdsProperties
  <2>2. old[d] \in Nat /\ old[d + 1] \in Nat /\ old[d + 1] = old[d] + held[d] /\ held[d] \in Nat
    BY <1>1, <2>1
  <2>3. ledger[d] = (IF d > c THEN old[d] - r ELSE old[d])
        /\ ledger[d + 1] = (IF d + 1 > c THEN old[d + 1] - r ELSE old[d + 1])
    BY <2>1
  <2>4. less[d] = IF d = c THEN 0 ELSE held[d]
    OBVIOUS
  <2> HIDE DEF ledger, less
  <2>5. QED
    BY <1>2, <1>3, <2>1, <2>2, <2>3, <2>4, SMTT(30)
<1>8. ASSUME NEW i \in 0 .. Copies, NEW j \in 0 .. Copies, i <= j
      PROVE  ledger[i] <= ledger[j]
  <2>1. old[i] \in Nat /\ old[j] \in Nat /\ old[i] <= old[j]
    BY <1>1, <1>8
  <2>2. i <= c => old[i] <= old[c]
    BY <1>1, <1>2
  <2>3. /\ ledger[i] = IF i > c THEN old[i] - r ELSE old[i]
        /\ ledger[j] = IF j > c THEN old[j] - r ELSE old[j]
    OBVIOUS
  <2>4. j > c => old[c] <= old[j] - r
    BY <1>4
  <2> HIDE DEF ledger, r
  <2>5. QED
    BY <1>2, <1>3, <1>8, <2>1, <2>2, <2>3, <2>4, SMTT(30)
<1>9. ledger[Copies] <= n - r
  <2>1. old[Copies] \in Nat /\ old[Copies] <= n
    BY <1>1, <1>2
  <2>2. QED
    BY <1>2, <1>3, <2>1
<1> HIDE DEF ledger, less
<1>10. Covers(n - r, less)
  BY <1>6, <1>7, <1>8, <1>9, Zenon DEF Covers
<1>11. QED
  BY <1>5, <1>10 DEF less

(***************************************************************************)
(* The steps of the counts.                                                 *)
(***************************************************************************)
\* The references of a copy are counts, and go to names its lanes have.
LEMMA ReferencesProperties ==
    ASSUME IInv, NEW uop, uop.src0 \in Arch, uop.src1 \in Arch,
           NEW group \in SUBSET Lanes
    PROVE  /\ References(uop, group) \in [Names -> Nat]
           /\ \A name \in Names \ allocated : References(uop, group)[name] = 0
<1> DEFINE at0(name) == {lane \in group : vrat[uop.src0].name[lane] = name}
           at1(name) == {lane \in group : vrat[uop.src1].name[lane] = name}
<1>1. IsFiniteSet(Lanes)
  <2>1. 0 \in Int /\ Copies * LanesPerCopy - 1 \in Int
    BY HelperRegistersAssumption
  <2>2. QED
    BY <2>1, FS_Interval DEF Lanes
<1>2. ASSUME NEW name
      PROVE  Cardinality(at0(name)) \in Nat /\ Cardinality(at1(name)) \in Nat
  <2>1. at0(name) \in SUBSET Lanes /\ at1(name) \in SUBSET Lanes
    OBVIOUS
  <2> HIDE DEF at0, at1
  <2>2. IsFiniteSet(at0(name)) /\ IsFiniteSet(at1(name))
    BY <1>1, <2>1, FS_Subset
  <2>3. QED
    BY <2>2, FS_CardinalityType
<1>3. References(uop, group) =
          [name \in Names |-> Cardinality(at0(name)) + Cardinality(at1(name))]
  BY DEF References
<1>4. ASSUME NEW name \in Names \ allocated
      PROVE  at0(name) = {} /\ at1(name) = {}
  BY DEF IInv, Held
<1> HIDE DEF at0, at1
<1>5. \A name \in Names \ allocated :
          Cardinality(at0(name)) = 0 /\ Cardinality(at1(name)) = 0
  BY <1>4, FS_EmptySet
<1>6. QED
  BY <1>2, <1>3, <1>5

\* Issuing a copy that holds nothing adds its references on both sides.
LEMMA RetainCounts ==
    ASSUME Counted, NEW c \in CopyIds, vir[c] = NoReferences,
           NEW references \in [Names -> Nat],
           vir' = [vir EXCEPT ![c] = references],
           users' = Retained(references)
    PROVE  /\ users' \in [Names -> Nat]
           /\ vir' \in [CopyIds -> [Names -> Nat]]
           /\ \A name \in Names : Covers(users'[name], HeldOf(name)')
<1>1. users \in [Names -> Nat] /\ vir \in [CopyIds -> [Names -> Nat]]
  BY DEF Counted
<1>2. users' \in [Names -> Nat] /\ vir' \in [CopyIds -> [Names -> Nat]]
      /\ \A name \in Names : users'[name] = users[name] + references[name]
  BY <1>1 DEF Retained
<1>3. ASSUME NEW name \in Names PROVE Covers(users'[name], HeldOf(name)')
  <2> DEFINE held == HeldOf(name)
  <2>1. held \in [CopyIds -> Nat] /\ held[c] = 0
    BY <1>1 DEF HeldOf, NoReferences
  <2>2. HeldOf(name)' = [held EXCEPT ![c] = references[name]]
    BY <1>1, Zenon DEF HeldOf
  <2>3. Covers(users[name], held) /\ users[name] \in Nat /\ references[name] \in Nat
    BY <1>1 DEF Counted
  <2> HIDE DEF held
  <2>4. Covers(users[name] + references[name], [held EXCEPT ![c] = references[name]])
    BY <2>1, <2>3, CoversMore, ZenonT(30)
  <2>5. QED
    BY <1>2, <2>2, <2>4
<1>4. QED
  BY <1>2, <1>3

\* The issue of a uop keeps the counts: a name is free afterwards if it was,
\* or if the rename left it without a lane and without a reference.
LEMMA IssueCounts ==
    ASSUME IInv, Counted, NEW u \in DOMAIN program, NEW c \in CopyIds,
           NEW group \in SUBSET Lanes, NEW diverged, NEW renamed,
           Issue(u, c, group, diverged, renamed)
    PROVE  Counted'
<1> DEFINE uop == program[u]
           references == References(uop, group)
           dead == Dead(vrat[uop.dst], renamed.map)
           freed == Reclaimable(dead, Retained(references))
<1>1. /\ vir[c] = NoReferences
      /\ vir' = [vir EXCEPT ![c] = references]
      /\ users' = Retained(references)
      /\ allocated' = (allocated \cup renamed.taken) \ freed
  BY DEF Issue
<1>2. uop.src0 \in Arch /\ uop.src1 \in Arch
  BY UopTyped, Zenon, SMTT(30) DEF IInv
<1>3. \A name \in freed : Retained(references)[name] = 0
  BY Zenon, SMTT(30) DEF Reclaimable
<1> HIDE DEF uop, freed
<1>4. /\ references \in [Names -> Nat]
      /\ \A name \in Names \ allocated : references[name] = 0
  BY <1>2, ReferencesProperties, SMTT(30)
<1> HIDE DEF references
<1>5. /\ users' \in [Names -> Nat]
      /\ vir' \in [CopyIds -> [Names -> Nat]]
      /\ \A name \in Names : Covers(users'[name], HeldOf(name)')
  BY <1>1, <1>4, RetainCounts, ZenonT(30)
<1>6. ASSUME NEW name \in Names \ allocated' PROVE users'[name] = 0
  <2>1. CASE name \in freed
    BY <1>1, <1>3, <2>1, Zenon, SMTT(30)
  <2>2. CASE name \notin allocated
    <3>1. users[name] = 0 /\ references[name] = 0
      BY <1>4, <2>2 DEF Counted
    <3>2. QED
      BY <1>1, <3>1 DEF Retained
  <2>3. QED
    BY <1>1, <2>1, <2>2, Zenon, SMTT(30)
<1>7. QED
  BY <1>5, <1>6 DEF Counted

\* So does the issue of a branch.
LEMMA BranchCounts ==
    ASSUME IInv, Counted, NEW branch \in Branches, NEW u, NEW c \in CopyIds,
           NEW group \in SUBSET Lanes, NEW seed,
           IssueBranch(branch, u, c, group, seed)
    PROVE  Counted'
<1> DEFINE references == References(branch, group)
<1>1. /\ vir[c] = NoReferences
      /\ vir' = [vir EXCEPT ![c] = references]
      /\ users' = Retained(references)
      /\ allocated' = allocated
  BY DEF IssueBranch
<1>2. branch.src0 \in Arch /\ branch.src1 \in Arch
  BY HelperRegistersAssumption, SMTT(30) DEF Arch
<1>3. /\ references \in [Names -> Nat]
      /\ \A name \in Names \ allocated : references[name] = 0
  BY <1>2, ReferencesProperties, Zenon
<1> HIDE DEF references
<1>4. /\ users' \in [Names -> Nat]
      /\ vir' \in [CopyIds -> [Names -> Nat]]
      /\ \A name \in Names : Covers(users'[name], HeldOf(name)')
  BY <1>1, <1>3, RetainCounts, Zenon
<1>5. \A name \in Names \ allocated' : users'[name] = 0
  BY <1>1, <1>3 DEF Counted, Retained
<1>6. QED
  BY <1>4, <1>5, Zenon, SMTT(30) DEF Counted

\* A copy that retires gives back what it holds, and nobody else's.
LEMMA RetireCounts ==
    ASSUME Counted, NEW c \in CopyIds, Retire(c)
    PROVE  Counted'
<1> DEFINE counts == [name \in Names |-> users[name] - vir[c][name]]
           freed == {name \in pending : vir[c][name] # 0 /\ counts[name] = 0}
<1>1. /\ vir' = [vir EXCEPT ![c] = NoReferences]
      /\ users' = counts
      /\ allocated' = allocated \ freed
  BY DEF Retire
<1>2. users \in [Names -> Nat] /\ vir \in [CopyIds -> [Names -> Nat]]
      /\ NoReferences \in [Names -> Nat]
  BY Zenon, SMTT(30) DEF Counted, NoReferences
<1>3. ASSUME NEW name \in Names
      PROVE  /\ vir[c][name] <= users[name]
             /\ Covers(counts[name], HeldOf(name)')
  <2> DEFINE held == HeldOf(name)
  <2>1. held \in [CopyIds -> Nat] /\ held[c] = vir[c][name]
    BY <1>2 DEF HeldOf
  <2>2. HeldOf(name)' = [held EXCEPT ![c] = 0]
    BY <1>1, <1>2, Zenon DEF HeldOf, NoReferences
  <2>3. Covers(users[name], held) /\ users[name] \in Nat
    BY <1>2 DEF Counted
  <2> HIDE DEF held
  <2>4. held[c] <= users[name] /\ Covers(users[name] - held[c], [held EXCEPT ![c] = 0])
    BY <2>1, <2>3, CoversLess, Zenon
  <2>5. QED
    BY <2>1, <2>2, <2>4
<1>4. users' \in [Names -> Nat] /\ vir' \in [CopyIds -> [Names -> Nat]]
  BY <1>1, <1>2, <1>3
<1>5. ASSUME NEW name \in Names \ allocated' PROVE counts[name] = 0
  <2>1. CASE name \in freed
    BY <2>1
  <2>2. CASE name \notin allocated
    <3>1. users[name] = 0 /\ vir[c][name] \in Nat /\ vir[c][name] <= users[name]
      BY <1>2, <1>3, <2>2 DEF Counted
    <3>2. QED
      BY <3>1
  <2>3. QED
    BY <1>1, <2>1, <2>2, Zenon, SMTT(30)
<1>6. QED
  BY <1>1, <1>3, <1>4, <1>5, Zenon, SMTT(30) DEF Counted

\* Every step keeps the counts.
LEMMA NextCounts ==
    ASSUME IInv, Counted, [Next]_vars
    PROVE  Counted'
<1>1. ASSUME UNCHANGED <<users, vir, allocated>> PROVE Counted'
  BY <1>1 DEF Counted, HeldOf
<1>2. CASE IssueAny
  <2>1. PICK u \in DOMAIN program, c \in CopyIds, diverged \in BOOLEAN :
            \E mask \in SUBSET Waiting(u) :
                \E group \in SUBSET {lane \in mask : CopyOf(lane) = c} :
                    /\ group # {}
                    /\ \E renamed \in Renames(program[u], group, mask, diverged) :
                           Issue(u, c, group, diverged, renamed)
    BY <1>2 DEF IssueAny
  <2>2. PICK mask \in SUBSET Waiting(u) :
            \E group \in SUBSET {lane \in mask : CopyOf(lane) = c} :
                \E renamed : Issue(u, c, group, diverged, renamed)
    BY <2>1
  <2>3. PICK group \in SUBSET mask :
            \E renamed : Issue(u, c, group, diverged, renamed)
    BY <2>2
  <2>4. PICK renamed : Issue(u, c, group, diverged, renamed)
    BY <2>3
  <2>5. group \in SUBSET Lanes
    BY DEF Waiting
  <2>6. QED
    BY <2>4, <2>5, IssueCounts
<1>3. CASE BranchAny
  <2>1. PICK branch \in Branches, u \in DOMAIN program, c \in CopyIds :
            \E group \in SUBSET {lane \in Waiting(u) : CopyOf(lane) = c} :
                \E seed \in group : IssueBranch(branch, u, c, group, seed)
    BY <1>3 DEF BranchAny
  <2>2. PICK group \in SUBSET Waiting(u) :
            \E seed \in group : IssueBranch(branch, u, c, group, seed)
    BY <2>1
  <2>3. PICK seed \in group : IssueBranch(branch, u, c, group, seed)
    BY <2>2
  <2>4. group \in SUBSET Lanes
    BY DEF Waiting
  <2>5. QED
    BY <2>3, <2>4, BranchCounts
<1>4. CASE Begin
  <2>1. /\ vir' = [c \in CopyIds |-> NoReferences]
        /\ users' = users /\ allocated' = allocated
    BY <1>4 DEF Begin
  <2>2. vir' \in [CopyIds -> [Names -> Nat]]
    BY <2>1 DEF NoReferences
  <2>3. ASSUME NEW name \in Names PROVE Covers(users'[name], HeldOf(name)')
    <3>1. \A c \in CopyIds : HeldOf(name)'[c] = 0
      BY <2>1 DEF HeldOf, NoReferences
    <3>2. users'[name] \in Nat
      BY <2>1, Zenon, SMTT(30) DEF Counted
    <3>3. QED
      BY <3>1, <3>2, CoversNothing
  <2>4. QED
    BY <2>1, <2>2, <2>3 DEF Counted
<1>5. CASE \E lane \in Lanes, v \in Values : Enter(lane, v) \/ Resume(lane, v)
  BY <1>1, <1>5 DEF Enter, Resume
<1>6. CASE UNCHANGED vars
  BY <1>1, <1>6 DEF vars
<1>7. QED
  BY <1>2, <1>3, <1>4, <1>5, <1>6, RetireCounts DEF Next

\* A launch starts with no reference.
LEMMA InitCounts ==
    ASSUME Init
    PROVE  Counted
<1>1. users = NoReferences /\ vir = [c \in CopyIds |-> NoReferences]
  BY DEF Init
<1>2. users \in [Names -> Nat] /\ vir \in [CopyIds -> [Names -> Nat]]
      /\ \A name \in Names : users[name] = 0 /\ \A c \in CopyIds : HeldOf(name)[c] = 0
  BY <1>1 DEF NoReferences, HeldOf
<1>3. QED
  BY <1>2, CoversNothing, Zenon, SMTT(30) DEF Counted

\* The counts hold throughout.
THEOREM CountsHold == Spec => []Counted
<1>1. Init => Counted
  BY InitCounts
<1>2. IInv /\ Counted /\ [Next]_vars => Counted'
  BY NextCounts
<1>3. QED
  BY <1>1, <1>2, Invariant, PTL DEF Spec

\* The register file never loses or reuses a name in use: whatever is renamed,
\* issued, retired, and forgotten by a launch, a name that a lane has or that
\* an issued copy still refers to is allocated, and a copy that retires finds
\* its references in the count, which therefore never falls below zero.
THEOREM NamesConserved == Spec => []Conservation
<1>1. IInv /\ Counted => Conservation
  <2> SUFFICES ASSUME IInv, Counted PROVE Conservation
    OBVIOUS
  <2>1. \A arch \in Arch : MappedNames(vrat[arch]) \subseteq allocated
    BY DEF IInv, Held, MappedNames
  <2>2. \A name \in Names \ allocated : users[name] = 0 /\ name \notin pending
    BY DEF IInv, Counted
  <2>3. ASSUME NEW c \in CopyIds, NEW name \in Names PROVE users[name] >= vir[c][name]
    <3> DEFINE held == HeldOf(name)
    <3>1. held \in [CopyIds -> Nat] /\ held[c] = vir[c][name]
      BY DEF Counted, HeldOf
    <3>2. Covers(users[name], held) /\ users[name] \in Nat
      BY DEF Counted
    <3> HIDE DEF held
    <3>3. held[c] <= users[name]
      BY <3>1, <3>2, CoversLess, Zenon
    <3>4. QED
      BY <3>1, <3>2, <3>3
  <2>4. QED
    BY <2>1, <2>2, <2>3 DEF Conservation
<1>2. QED
  BY <1>1, Invariant, CountsHold, PTL

\* Every variable of the register file keeps its type: in particular no count
\* falls below zero, and no lane leaves the program.
THEOREM RegistersTypeCorrect == Spec => []TypeOK
<1>1. IInv /\ Counted => TypeOK
  BY DEF IInv, Types, Counted, TypeOK, Maps, Bank
<1>2. QED
  BY <1>1, Invariant, CountsHold, PTL
================================================================================
