------------------------ MODULE ExportRestoreProofs -------------------------
(***************************************************************************)
(* Export, reset, restore and verification, for any keys, tables, rows,    *)
(* page sizes, numbers of writes and damaged files: what a tool has passed *)
(* and nobody touched since is as the tool left it.                        *)
(***************************************************************************)
EXTENDS ExportRestore, FiniteSetTheorems, TLAPS

PipelineStep == \/ \E i \in Item : Write(i)
                \/ \E k \in Key : Expire(k)

ExportStep ==
    \/ StartExport \/ ListPage \/ WriteManifest
    \/ \E k \in Key : GetObject(k)
    \/ \E t \in Table : ScanTable(t)
    \/ \E r \in Row : ScanRow(r)

RestoreStep ==
    \/ StartRestore \/ AllChecked \/ PutFails \/ RestoreReturns
    \/ \E f \in File : CheckFile(f)
    \/ \E k \in Key : PutObject(k)
    \/ \E t \in Table : FillTable(t)
    \/ \E r \in Row : PutRow(r)

VerifyStep ==
    \/ StartVerify \/ VerifyReturns
    \/ \E k \in Key : CompareObject(k)
    \/ \E t \in Table : ReadTable(t)
    \/ \E r \in Row : CompareRow(r)

LEMMA StepIsOf ==
    ASSUME [Next]_vars
    PROVE  \/ PipelineStep \/ \E i \in Item : Damage(i)
           \/ ExportStep \/ Reset \/ RestoreStep \/ VerifyStep
           \/ Fail \/ UNCHANGED vars
BY DEF Next, PipelineStep, ExportStep, RestoreStep, VerifyStep

LEMMA Kinds ==
    /\ Key \subseteq Item /\ Row \subseteq Item
    /\ Key \cap Row = {} /\ Key \cap Table = {}
    /\ Absent \in Content /\ Damaged \notin Content /\ Content \subseteq AnyContent
    /\ Nothing \in [Item -> Content] /\ Nothing \in [Item -> AnyContent]
    /\ \A t \in Table : RowsOf(t) \subseteq Row
BY ExportAssumption DEF Item, Content, AnyContent, Nothing, RowsOf

-----------------------------------------------------------------------------
(* An old core has no damaged contents: they only come from the copy.      *)
LEMMA OldIsUndamaged ==
    ASSUME ExportInv, core = "old"
    PROVE  cloud \in [Item -> Content]
BY DEF ExportInv, ToolInv, NothingDamagedIsRestored, TypeOK, AnyContent

LEMMA TypeStep ==
    ASSUME ExportInv, [Next]_vars
    PROVE  TypeOK'
<1> USE Kinds
<1>t. TypeOK
  BY DEF ExportInv
<1>1. CASE PipelineStep
  <2>1. writes + 1 \in Nat /\ writes + 1 \in AnyContent /\ Absent \in AnyContent
    BY <1>t DEF TypeOK, AnyContent, Content
  <2>2. ASSUME NEW i \in Item, Changes(i),
               NEW c \in AnyContent, cloud' = [cloud EXCEPT ![i] = c]
        PROVE  TypeOK'
    BY <1>t, <2>1, <2>2 DEF Changes, TypeOK, dirVars
  <2> QED
    BY <1>1, <2>1, <2>2 DEF PipelineStep, Write, Expire
<1>2. ASSUME NEW i \in Item, Damage(i)
      PROVE  TypeOK'
  BY <1>t, <1>2 DEF Damage, TypeOK, AnyContent
<1>3. CASE ExportStep
  <2> USE <1>t DEF TypeOK, dirVars, history
  <2>1. CASE StartExport
    BY <2>1 DEF StartExport, Tools
  <2>2. CASE ListPage
    BY <2>2 DEF ListPage, Page, Unlisted, Tools, File
  <2>3. CASE WriteManifest
    BY <2>3 DEF WriteManifest
  <2>4. ASSUME NEW k \in Key, GetObject(k)
        PROVE  TypeOK'
    <3>1. ExportInv /\ core = "old"
      BY <2>4 DEF GetObject, ExportInv, ToolInv
    <3>2. cloud[k] \in Content
      BY <3>1, OldIsUndamaged
    <3> QED
      BY <2>4, <3>2 DEF GetObject, Raise
  <2>5. ASSUME NEW t \in Table, ScanTable(t)
        PROVE  TypeOK'
    BY <2>5 DEF ScanTable, NextTable, Tools, File
  <2>6. ASSUME NEW r \in Row, ScanRow(r)
        PROVE  TypeOK'
    <3>1. ExportInv /\ core = "old"
      BY <2>6 DEF ScanRow, ExportInv, ToolInv
    <3>2. cloud[r] \in Content
      BY <3>1, OldIsUndamaged
    <3> QED
      BY <2>6, <3>2 DEF ScanRow
  <2> QED
    BY <1>3, <2>1, <2>2, <2>3, <2>4, <2>5, <2>6 DEF ExportStep
<1>4. CASE Reset
  BY <1>t, <1>4, OldIsUndamaged DEF Reset, TypeOK, dirVars
<1>5. CASE RestoreStep
  <2> USE <1>t DEF TypeOK, dirVars, history, Tools
  <2>1. CASE StartRestore
    BY <2>1 DEF StartRestore, Listed, File
  <2>2. CASE AllChecked
    BY <2>2 DEF AllChecked, Listed, File
  <2>3. CASE PutFails \/ RestoreReturns
    BY <2>3 DEF PutFails, RestoreReturns
  <2>4. ASSUME NEW f \in File, CheckFile(f)
        PROVE  TypeOK'
    BY <2>4 DEF CheckFile, Raise
  <2>5. ASSUME NEW k \in Key, PutObject(k)
        PROVE  TypeOK'
    BY <2>5 DEF PutObject
  <2>6. ASSUME NEW t \in Table, FillTable(t)
        PROVE  TypeOK'
    BY <2>6 DEF FillTable, NextTable, File
  <2>7. ASSUME NEW r \in Row, PutRow(r)
        PROVE  TypeOK'
    BY <2>7 DEF PutRow
  <2> QED
    BY <1>5, <2>1, <2>2, <2>3, <2>4, <2>5, <2>6, <2>7 DEF RestoreStep
<1>6. CASE VerifyStep
  <2> USE <1>t DEF TypeOK, dirVars, history, Tools
  <2>1. CASE StartVerify
    BY <2>1 DEF StartVerify, Listed, File
  <2>2. CASE VerifyReturns
    BY <2>2 DEF VerifyReturns
  <2>3. ASSUME NEW k \in Key, CompareObject(k)
        PROVE  TypeOK'
    BY <2>3 DEF CompareObject, Raise
  <2>4. ASSUME NEW t \in Table, ReadTable(t)
        PROVE  TypeOK'
    BY <2>4 DEF ReadTable, NextTable, File
  <2>5. ASSUME NEW r \in Row, CompareRow(r)
        PROVE  TypeOK'
    BY <2>5 DEF CompareRow, Raise
  <2> QED
    BY <1>6, <2>1, <2>2, <2>3, <2>4, <2>5 DEF VerifyStep
<1>7. CASE Fail \/ UNCHANGED vars
  BY <1>t, <1>7 DEF Fail, Raise, vars, dirVars, history, TypeOK
<1> QED
  BY <1>1, <1>2, <1>3, <1>4, <1>5, <1>6, <1>7, StepIsOf

-----------------------------------------------------------------------------
LEMMA ToolFrame ==
    ASSUME ToolInv, UNCHANGED <<core, hash, manifest, tool, tables, verified, late>>,
           todo' \subseteq todo
    PROVE  ToolInv'
<1> USE DEF ToolInv, Tools
<1>1. (tool \in {"list", "get", "scan"} => core = "old" /\ ~manifest)'
  OBVIOUS
<1>2. (tool \in Tools \ {"list", "get", "scan"} => core = "new" /\ ~verified)'
  OBVIOUS
<1>3. (core = "old" => ~verified /\ late = {})'
  OBVIOUS
<1>4. (tool \in {"list", "get", "put", "put raises", "compare"} => todo \subseteq Key)'
  OBVIOUS
<1>5. (tool \in {"scan", "fill", "recount"} => todo \subseteq Row)'
  OBVIOUS
<1>6. (tool \in {"list", "get", "compare"} => tables = Table)'
  OBVIOUS
<1>7. (tool = "list" => hash = Nothing)'
  OBVIOUS
<1> QED
  BY <1>1, <1>2, <1>3, <1>4, <1>5, <1>6, <1>7

LEMMA ToolStep ==
    ASSUME ExportInv, [Next]_vars
    PROVE  ToolInv'
<1> USE Kinds DEF ToolInv, Tools
<1>t. TypeOK /\ ToolInv
  BY DEF ExportInv
<1>1. CASE PipelineStep
  <2>1. UNCHANGED <<core, hash, manifest, tool, todo, tables, verified, late>>
    BY <1>1 DEF PipelineStep, Write, Expire, Changes, dirVars
  <2> QED
    BY <1>t, <2>1, ToolFrame
<1>2. ASSUME NEW i \in Item, Damage(i)
      PROVE  ToolInv'
  <2>1. core = "old" => ~Checked(i)
    BY <1>t DEF Checked, TypeOK
  <2> QED
    BY <1>t, <1>2, <2>1 DEF Damage
<1>3. CASE ExportStep
  <2> USE <1>t DEF dirVars, history
  <2>1. CASE StartExport
    BY <2>1 DEF StartExport
  <2>2. CASE ListPage
    BY <2>2 DEF ListPage, Page, Unlisted
  <2>3. CASE WriteManifest
    BY <2>3 DEF WriteManifest
  <2>4. ASSUME NEW k \in Key, GetObject(k)
        PROVE  ToolInv'
    BY <2>4 DEF GetObject, Raise
  <2>5. ASSUME NEW t \in Table, ScanTable(t)
        PROVE  ToolInv'
    BY <2>5 DEF ScanTable, NextTable
  <2>6. ASSUME NEW r \in Row, ScanRow(r)
        PROVE  ToolInv'
    BY <2>6 DEF ScanRow
  <2> QED
    BY <1>3, <2>1, <2>2, <2>3, <2>4, <2>5, <2>6 DEF ExportStep
<1>4. CASE Reset
  BY <1>t, <1>4 DEF Reset, dirVars
<1>5. CASE RestoreStep
  <2> USE <1>t DEF dirVars, history
  <2>1. CASE StartRestore
    BY <2>1 DEF StartRestore
  <2>2. CASE AllChecked
    BY <2>2 DEF AllChecked, Listed
  <2>3. CASE PutFails
    BY <2>3 DEF PutFails
  <2>r. CASE RestoreReturns
    BY <2>r DEF RestoreReturns
  <2>4. ASSUME NEW f \in File, CheckFile(f)
        PROVE  ToolInv'
    BY <2>4 DEF CheckFile, Raise
  <2>5. ASSUME NEW k \in Key, PutObject(k)
        PROVE  ToolInv'
    BY <2>5 DEF PutObject
  <2>6. ASSUME NEW t \in Table, FillTable(t)
        PROVE  ToolInv'
    BY <2>6 DEF FillTable, NextTable
  <2>7. ASSUME NEW r \in Row, PutRow(r)
        PROVE  ToolInv'
    BY <2>7 DEF PutRow
  <2> QED
    BY <1>5, <2>1, <2>2, <2>3, <2>r, <2>4, <2>5, <2>6, <2>7 DEF RestoreStep
<1>6. CASE VerifyStep
  <2> USE <1>t DEF dirVars, history
  <2>1. CASE StartVerify
    BY <2>1 DEF StartVerify, Listed
  <2>2. CASE VerifyReturns
    BY <2>2 DEF VerifyReturns
  <2>3. ASSUME NEW k \in Key, CompareObject(k)
        PROVE  ToolInv'
    BY <2>3 DEF CompareObject, Raise
  <2>4. ASSUME NEW t \in Table, ReadTable(t)
        PROVE  ToolInv'
    BY <2>4 DEF ReadTable, NextTable
  <2>5. ASSUME NEW r \in Row, CompareRow(r)
        PROVE  ToolInv'
    BY <2>5 DEF CompareRow, Raise
  <2> QED
    BY <1>6, <2>1, <2>2, <2>3, <2>4, <2>5 DEF VerifyStep
<1>7. CASE Fail
  BY <1>t, <1>7 DEF Fail, Raise, dirVars, history
<1>8. CASE UNCHANGED vars
  <2>1. UNCHANGED <<core, hash, manifest, tool, todo, tables, verified, late>>
    BY <1>8 DEF vars, dirVars, history
  <2> QED
    BY <1>t, <2>1, ToolFrame
<1> QED
  BY <1>1, <1>2, <1>3, <1>4, <1>5, <1>6, <1>7, <1>8, StepIsOf

-----------------------------------------------------------------------------
(* A page holds what is not listed below any key of it.                    *)
LEMMA PageIsPrefix ==
    ASSUME NEW k \in Unlisted, NEW j \in Page, k <= j
    PROVE  k \in Page
<1> DEFINE Below(n) == {x \in Unlisted : x < n}
<1>1. k \in Nat /\ j \in Nat /\ Unlisted \subseteq Nat
  BY ExportAssumption DEF Page, Unlisted
<1>2. Below(k) \subseteq Below(j) /\ Below(j) \subseteq 0 .. j
  <2>1. \A x \in Unlisted : x < k => x < j
    BY <1>1
  <2>2. \A x \in Unlisted : x < j => x \in 0 .. j
    BY <1>1
  <2> QED
    BY <2>1, <2>2
<1>3. IsFiniteSet(Below(j))
  <2>1. IsFiniteSet(0 .. j)
    BY <1>1, FS_Interval
  <2> QED
    BY <1>2, <2>1, FS_Subset
<1>4. Cardinality(Below(k)) <= Cardinality(Below(j))
  BY <1>2, <1>3, FS_Subset
<1>5. /\ Cardinality(Below(k)) \in Nat /\ Cardinality(Below(j)) \in Nat
      /\ Cardinality(Below(j)) < PageSize
  BY <1>2, <1>3, FS_Subset, FS_CardinalityType DEF Page
<1> HIDE DEF Below
<1>6. Cardinality(Below(k)) < PageSize
  BY <1>4, <1>5, ExportAssumption
<1> QED
  BY <1>6 DEF Page, Below

(* The parts of the invariant about the copy, while an export runs.        *)
LEMMA ExportKeepsCopy ==
    ASSUME ExportInv, ExportStep
    PROVE  CopyInv' /\ ExportIsFaithful'
<1> USE Kinds DEF CopyInv, ExportIsFaithful
<1>t. TypeOK /\ ToolInv /\ CopyInv /\ ExportIsFaithful
  BY DEF ExportInv
<1> USE <1>t DEF dirVars, history, ToolInv, Tools
<1>1. CASE StartExport
  BY <1>1 DEF StartExport, Nothing, Item
<1>2. CASE ListPage
  <2>1. /\ core = "old" /\ ~manifest /\ tool = "list" /\ todo \subseteq Key
        /\ tables = Table /\ hash = Nothing
        /\ todo' = todo \cup Page /\ Page \subseteq Unlisted
        /\ tool' = IF LastPage THEN "get" ELSE "list"
        /\ UNCHANGED <<cloud, core, local, hash, manifest, tables, touched, before>>
    BY <1>2 DEF ListPage, Page
  <2>2. ASSUME NEW k \in Key \ touched, NEW j \in todo \cup Page,
               cloud[k] # Absent, k <= j
        PROVE  k \in todo \cup Page
    <3>1. CASE j \in todo
      BY <2>1, <2>2, <3>1
    <3>2. CASE j \in Page /\ k \in Unlisted
      BY <2>2, <3>2, PageIsPrefix
    <3>3. CASE k \notin Unlisted
      <4>1. PICK x \in todo : ~(x < k)
        BY <2>2, <3>3 DEF Unlisted
      <4>2. k <= x
        BY <2>1, <4>1, ExportAssumption
      <4> QED
        BY <2>1, <2>2, <4>1, <4>2
    <3> QED
      BY <3>1, <3>2, <3>3
  <2>3. ASSUME LastPage, NEW i \in Item \ touched
        PROVE  Ahead(i)' \/ hash'[i] = cloud'[i]
    <3>1. CASE i \in Row
      BY <2>1, <3>1, ExportAssumption DEF Ahead
    <3>2. CASE i \in Key /\ cloud[i] = Absent
      BY <2>1, <3>2 DEF Nothing
    <3>3. CASE i \in Key /\ cloud[i] # Absent
      <4>1. CASE i \in Unlisted
        BY <2>1, <2>3, <4>1 DEF LastPage, Ahead
      <4>2. CASE i \notin Unlisted
        <5>1. PICK x \in todo : ~(x < i)
          BY <3>3, <4>2 DEF Unlisted
        <5>2. i <= x
          BY <2>1, <3>3, <5>1, ExportAssumption
        <5> QED
          BY <2>1, <2>3, <3>3, <5>1, <5>2 DEF Ahead
      <4> QED
        BY <4>1, <4>2
    <3> QED
      BY <3>1, <3>2, <3>3 DEF Item
  <2> QED
    BY <2>1, <2>2, <2>3
<1>3. CASE WriteManifest
  BY <1>3 DEF WriteManifest, Ahead
<1>4. ASSUME NEW k \in Key, GetObject(k)
      PROVE  CopyInv' /\ ExportIsFaithful'
  BY <1>4 DEF GetObject, Raise, Ahead, TypeOK
<1>5. ASSUME NEW t \in Table, ScanTable(t)
      PROVE  CopyInv' /\ ExportIsFaithful'
  BY <1>5 DEF ScanTable, NextTable, Ahead, RowsOf
<1>6. ASSUME NEW r \in Row, ScanRow(r)
      PROVE  CopyInv' /\ ExportIsFaithful'
  BY <1>6 DEF ScanRow, Ahead, TypeOK
<1> QED
  BY <1>1, <1>2, <1>3, <1>4, <1>5, <1>6 DEF ExportStep

LEMMA CopyStep ==
    ASSUME ExportInv, [Next]_vars
    PROVE  CopyInv' /\ ExportIsFaithful'
<1> USE Kinds DEF CopyInv, ExportIsFaithful, Ahead
<1>t. TypeOK /\ ToolInv /\ CopyInv /\ ExportIsFaithful
  BY DEF ExportInv
<1>1. ASSUME NEW i \in Item, Changes(i), NEW c, cloud' = [cloud EXCEPT ![i] = c]
      PROVE  CopyInv' /\ ExportIsFaithful'
  BY <1>t, <1>1 DEF Changes, dirVars, ToolInv, Tools, TypeOK
<1>2. CASE PipelineStep
  BY <1>1, <1>2 DEF PipelineStep, Write, Expire
<1>3. ASSUME NEW i \in Item, Damage(i)
      PROVE  CopyInv' /\ ExportIsFaithful'
  BY <1>t, <1>3 DEF Damage, TypeOK
<1>4. CASE Reset
  BY <1>t, <1>4 DEF Reset, dirVars
<1>5. CASE RestoreStep \/ VerifyStep
  <2>1. /\ core = "new" /\ core' = "new" /\ tool' \notin {"list", "get", "scan"}
        /\ UNCHANGED <<local, hash, before, touched>>
    BY <1>t, <1>5 DEF RestoreStep, VerifyStep, StartRestore, AllChecked, PutFails,
       RestoreReturns, CheckFile, PutObject, FillTable, PutRow, StartVerify,
       VerifyReturns, CompareObject, ReadTable, CompareRow, Raise, dirVars, history,
       ToolInv, Tools
  <2> QED
    BY <1>t, <2>1
<1>6. CASE Fail \/ UNCHANGED vars
  BY <1>t, <1>6 DEF Fail, Raise, vars, dirVars, history
<1> QED
  BY <1>2, <1>3, <1>4, <1>5, <1>6, StepIsOf, ExportKeepsCopy

-----------------------------------------------------------------------------
(* A file that passes its check has no damage but what came too late.      *)
LEMMA CheckPasses ==
    ASSUME TypeOK, CheckInv, tool = "check", NEW f \in File, Intact(f),
           NEW i \in Item, local[i] # hash[i]
    PROVE  i \in late \/ \E g \in todo \ {f} : i \in Parts(g)
<1>1. i \notin Parts(f)
  BY DEF Intact
<1>2. i \in late \/ \E g \in todo : i \in Parts(g)
  BY DEF CheckInv
<1> QED
  BY <1>1, <1>2

(* Every item with a file that is to be checked belongs to one.            *)
LEMMA ItemHasFile ==
    ASSUME NEW i \in Item
    PROVE  \/ i \in Key /\ i \in Parts(i)
           \/ \E t \in Table : i \in Parts(t)
<1>1. CASE i \in Key
  BY <1>1, Kinds DEF Parts
<1>2. CASE i \in Row
  BY <1>2, ExportAssumption DEF Parts, RowsOf
<1> QED
  BY <1>1, <1>2 DEF Item

LEMMA CheckStep ==
    ASSUME ExportInv, [Next]_vars
    PROVE  CheckInv'
<1> USE DEF CheckInv
<1>t. TypeOK /\ CheckInv /\ CopyInv
  BY DEF ExportInv
<1>1. CASE PipelineStep
  BY <1>t, <1>1 DEF PipelineStep, Write, Expire, Changes, dirVars
<1>2. ASSUME NEW i \in Item, Damage(i)
      PROVE  CheckInv'
  <2>1. /\ UNCHANGED <<tool, todo, hash>> /\ local' = [local EXCEPT ![i] = Damaged]
        /\ late' = IF Checked(i) THEN late \cup {i} ELSE late
    BY <1>2 DEF Damage
  <2>2. ASSUME tool = "check", NEW j \in Item, local'[j] # hash[j]
        PROVE  j \in late' \/ \E f \in todo : j \in Parts(f)
    <3>1. CASE j = i
      BY <2>1, <2>2, <3>1 DEF Checked
    <3>2. CASE j # i
      BY <1>t, <2>1, <2>2, <3>2 DEF TypeOK
    <3> QED
      BY <3>1, <3>2
  <2> QED
    BY <2>1, <2>2
<1>3. CASE ExportStep
  BY <1>3 DEF ExportStep, StartExport, ListPage, WriteManifest, GetObject, ScanTable,
     ScanRow, Raise
<1>4. CASE Reset
  BY <1>4 DEF Reset
<1>5. CASE StartRestore
  <2>1. UNCHANGED <<local, hash, late>> /\ todo' = Listed \cup Table
    BY <1>5 DEF StartRestore, dirVars, history
  <2>2. ASSUME NEW i \in Item, local[i] # hash[i]
        PROVE  \E f \in Listed \cup Table : i \in Parts(f)
    <3>1. hash[i] # Absent
      BY <1>t, <2>2 DEF CopyInv
    <3> QED
      BY <3>1, ItemHasFile DEF Listed
  <2> QED
    BY <2>1, <2>2
<1>6. ASSUME NEW f \in File, CheckFile(f)
      PROVE  CheckInv'
  <2>1. UNCHANGED <<local, hash, late>> /\ tool = "check"
    BY <1>6 DEF CheckFile, dirVars, history
  <2>2. CASE Intact(f)
    <3>1. todo' = todo \ {f}
      BY <1>6, <2>2 DEF CheckFile
    <3> QED
      BY <1>t, <2>1, <2>2, <3>1, CheckPasses
  <2>3. CASE ~Intact(f)
    BY <1>6, <2>3 DEF CheckFile, Raise
  <2> QED
    BY <2>2, <2>3
<1>7. CASE VerifyStep \/ (RestoreStep /\ ~StartRestore /\ \A f \in File : ~CheckFile(f))
  <2>1. tool' # "check"
    BY <1>7 DEF VerifyStep, RestoreStep, AllChecked, PutFails, RestoreReturns, PutObject,
       FillTable, PutRow, StartVerify, VerifyReturns, CompareObject, ReadTable,
       CompareRow, Raise
  <2> QED
    BY <2>1
<1>8. CASE Fail \/ UNCHANGED vars
  BY <1>t, <1>8 DEF Fail, Raise, vars, dirVars, history
<1> QED
  BY <1>1, <1>2, <1>3, <1>4, <1>5, <1>6, <1>7, <1>8, StepIsOf DEF RestoreStep

-----------------------------------------------------------------------------
LEMMA NextWrite ==
    ASSUME TypeOK
    PROVE  writes + 1 \in Content
BY DEF TypeOK, Content

LEMMA DamageStep ==
    ASSUME ExportInv, [Next]_vars
    PROVE  NothingDamagedIsRestored'
<1> USE Kinds DEF NothingDamagedIsRestored
<1>t. TypeOK /\ ToolInv /\ CheckInv /\ NothingDamagedIsRestored
  BY DEF ExportInv
<1>1. ASSUME NEW i \in Item, Changes(i),
             NEW c \in Content, cloud' = [cloud EXCEPT ![i] = c]
      PROVE  NothingDamagedIsRestored'
  BY <1>t, <1>1 DEF Changes, dirVars, TypeOK
<1>2. CASE PipelineStep
  <2>1. writes + 1 \in Content
    BY <1>t, NextWrite
  <2> QED
    BY <1>1, <1>2, <2>1 DEF PipelineStep, Write, Expire
<1>3. ASSUME NEW i \in Item, Damage(i)
      PROVE  NothingDamagedIsRestored'
  <2>1. /\ UNCHANGED <<cloud, tool, hash>> /\ local' = [local EXCEPT ![i] = Damaged]
        /\ late' = IF Checked(i) THEN late \cup {i} ELSE late
    BY <1>3 DEF Damage
  <2> QED
    BY <1>t, <2>1 DEF TypeOK, Checked
<1>4. CASE ExportStep \/ VerifyStep
  <2>1. UNCHANGED <<cloud, late>> /\ tool' \notin {"put", "put raises", "fill"}
    BY <1>4 DEF ExportStep, StartExport, ListPage, WriteManifest, GetObject, ScanTable,
       ScanRow, VerifyStep, StartVerify, VerifyReturns, CompareObject, ReadTable,
       CompareRow, Raise, history
  <2> QED
    BY <1>t, <2>1
<1>5. CASE Reset
  BY <1>t, <1>5 DEF Reset, Nothing
<1>6. CASE AllChecked
  <2>1. \A i \in Item : local[i] # hash[i] => i \in late
    BY <1>t, <1>6 DEF AllChecked, CheckInv
  <2> QED
    BY <1>t, <1>6, <2>1 DEF AllChecked, dirVars, history
<1>7. ASSUME NEW k \in Item, tool \in {"put", "put raises", "fill"},
             UNCHANGED <<dirVars, history, tool>>,
             cloud' = [cloud EXCEPT ![k] = local[k]]
      PROVE  NothingDamagedIsRestored'
  <2>1. local[k] = Damaged => k \in late
    <3>1. hash[k] \in Content
      BY <1>t DEF TypeOK
    <3> QED
      BY <1>t, <1>7, <3>1
  <2> QED
    BY <1>t, <1>7, <2>1 DEF TypeOK, dirVars, history
<1>8. CASE RestoreStep /\ ~AllChecked
  <2>1. ASSUME NEW k \in Key, PutObject(k)
        PROVE  NothingDamagedIsRestored'
    BY <1>7, <2>1 DEF PutObject
  <2>2. ASSUME NEW r \in Row, PutRow(r)
        PROVE  NothingDamagedIsRestored'
    <3>1. CASE local[r] = Absent
      BY <1>t, <2>2, <3>1 DEF PutRow, dirVars, history
    <3>2. CASE local[r] # Absent
      BY <1>7, <2>2, <3>2 DEF PutRow
    <3> QED
      BY <3>1, <3>2
  <2>3. ASSUME \/ StartRestore \/ PutFails \/ RestoreReturns
               \/ \E f \in File : CheckFile(f)
               \/ \E t \in Table : FillTable(t)
        PROVE  NothingDamagedIsRestored'
    <3>1. /\ UNCHANGED <<cloud, local, hash, late>>
          /\ tool' \in {"put", "put raises", "fill"} =>
                 tool \in {"put", "put raises", "fill"}
      BY <2>3 DEF StartRestore, PutFails, RestoreReturns, CheckFile, FillTable, Raise,
         dirVars, history
    <3> QED
      BY <1>t, <3>1
  <2> QED
    BY <1>8, <2>1, <2>2, <2>3 DEF RestoreStep
<1>9. CASE Fail \/ UNCHANGED vars
  BY <1>t, <1>9 DEF Fail, Raise, vars, dirVars, history
<1> QED
  BY <1>2, <1>3, <1>4, <1>5, <1>6, <1>8, <1>9, StepIsOf DEF RestoreStep

-----------------------------------------------------------------------------
(* A verification only finds what is there.                                *)
LEMMA VerifyKeeps ==
    ASSUME ExportInv, VerifyStep
    PROVE  VerifyInv'
<1> USE Kinds DEF VerifyInv, dirVars, history
<1>t. TypeOK /\ ToolInv /\ CopyInv /\ VerifyInv
  BY DEF ExportInv
<1>1. CASE StartVerify
  <2>1. /\ tool' = "compare" /\ todo' = Listed /\ tables' = Table /\ ~verified'
        /\ UNCHANGED <<cloud, local, hash>>
    BY <1>1 DEF StartVerify
  <2>2. \A i \in Item : Ahead(i)' \/ Agrees(i)'
    BY <2>1, ExportAssumption DEF Ahead, Agrees, Listed
  <2> QED
    BY <2>1, <2>2
<1>2. CASE VerifyReturns
  <2>1. /\ tool \in {"compare", "recount"} /\ todo = {} /\ tables = {}
        /\ tool' = "none" /\ UNCHANGED <<cloud, local, hash, busy>>
    BY <1>2 DEF VerifyReturns
  <2>2. \A i \in Item \ busy : Agrees(i)'
    BY <1>t, <2>1 DEF Ahead, Agrees, Listed
  <2> QED
    BY <2>1, <2>2
<1>3. ASSUME NEW k \in Key, CompareObject(k)
      PROVE  VerifyInv'
  <2>1. /\ tool = "compare" /\ k \in todo /\ ~verified /\ UNCHANGED verified
        /\ UNCHANGED <<cloud, local, hash, busy>>
    BY <1>t, <1>3 DEF CompareObject, ToolInv, Tools
  <2>2. CASE cloud[k] = hash[k]
    <3>1. /\ todo' = todo \ {k} /\ UNCHANGED <<tool, tables>> /\ Agrees(k)
      BY <1>3, <2>2 DEF CompareObject, Agrees
    <3> QED
      BY <1>t, <2>1, <3>1 DEF Ahead, Agrees, Listed
  <2>3. CASE cloud[k] # hash[k]
    BY <1>3, <2>1, <2>3 DEF CompareObject, Raise
  <2> QED
    BY <2>2, <2>3
<1>4. ASSUME NEW t \in Table, ReadTable(t)
      PROVE  VerifyInv'
  <2>1. /\ tool \in {"compare", "recount"} /\ todo = {} /\ t \in tables
        /\ tables' = tables \ {t} /\ todo' = RowsOf(t) /\ tool' = "recount"
        /\ expected' = local /\ ~verified /\ UNCHANGED verified
        /\ UNCHANGED <<cloud, local, hash, busy>>
    BY <1>t, <1>4 DEF ReadTable, NextTable, ToolInv, Tools
  <2>2. \A i \in Item \ busy : Ahead(i)' \/ Agrees(i)'
    BY <1>t, <2>1 DEF Ahead, Agrees, Listed, RowsOf
  <2>3. \A r \in Row : local[r] = hash[r] \/ local[r] = Damaged
    BY <1>t DEF CopyInv
  <2> QED
    BY <2>1, <2>2, <2>3
<1>5. ASSUME NEW r \in Row, CompareRow(r)
      PROVE  VerifyInv'
  <2>1. /\ tool = "recount" /\ r \in todo /\ ~verified /\ UNCHANGED verified
        /\ UNCHANGED <<cloud, local, hash, busy, expected>>
    BY <1>t, <1>5 DEF CompareRow, ToolInv, Tools
  <2>2. CASE SameRow(r)
    <3>1. todo' = todo \ {r} /\ UNCHANGED <<tool, tables>>
      BY <1>5, <2>2 DEF CompareRow
    <3>2. Agrees(r)
      BY <1>t, <2>1, <2>2 DEF SameRow, Agrees, Listed
    <3> QED
      BY <1>t, <2>1, <3>1, <3>2 DEF Ahead, Agrees, Listed
  <2>3. CASE ~SameRow(r)
    BY <1>5, <2>1, <2>3 DEF CompareRow, Raise
  <2> QED
    BY <2>2, <2>3
<1> QED
  BY <1>1, <1>2, <1>3, <1>4, <1>5 DEF VerifyStep

LEMMA VerifyStepInv ==
    ASSUME ExportInv, [Next]_vars
    PROVE  VerifyInv'
<1> USE DEF VerifyInv
<1>t. TypeOK /\ ToolInv /\ CopyInv /\ VerifyInv
  BY DEF ExportInv
<1>1. ASSUME NEW i \in Item, Changes(i), NEW c, cloud' = [cloud EXCEPT ![i] = c]
      PROVE  VerifyInv'
  BY <1>t, <1>1 DEF Changes, dirVars, TypeOK, Ahead, Agrees, Listed
<1>2. CASE PipelineStep
  <2>1. ASSUME NEW i \in Item, Write(i)
        PROVE  VerifyInv'
    BY <1>1, <2>1 DEF Write
  <2>2. ASSUME NEW k \in Key, Expire(k)
        PROVE  VerifyInv'
    BY <1>1, <2>2, Kinds DEF Expire
  <2> QED
    BY <1>2, <2>1, <2>2 DEF PipelineStep
<1>3. ASSUME NEW i \in Item, Damage(i)
      PROVE  VerifyInv'
  <2>1. /\ UNCHANGED <<cloud, tool, todo, tables, hash, expected, verified, busy>>
        /\ local' = [local EXCEPT ![i] = Damaged]
    BY <1>3 DEF Damage
  <2>2. \A j \in Item : local[j] = Damaged => local'[j] = Damaged
    BY <1>t, <2>1 DEF TypeOK
  <2>3. \A j \in Item : Agrees(j) => Agrees(j)'
    BY <2>1, <2>2 DEF Agrees, Listed
  <2>4. \A j : Ahead(j) => Ahead(j)'
    BY <2>1 DEF Ahead
  <2> QED
    BY <1>t, <2>1, <2>2, <2>3, <2>4, Kinds
<1>4. CASE ExportStep \/ Reset \/ RestoreStep
  <2>1. CASE ExportStep \/ Reset
    <3>1. core = "old" /\ UNCHANGED verified /\ tool' \notin {"compare", "recount"}
      BY <1>t, <2>1 DEF ExportStep, StartExport, ListPage, WriteManifest, GetObject,
         ScanTable, ScanRow, Reset, Raise, ToolInv
    <3> QED
      BY <1>t, <3>1 DEF ToolInv
  <2>2. CASE StartRestore
    BY <2>2 DEF StartRestore
  <2>3. CASE RestoreStep /\ ~StartRestore
    <3>1. /\ tool \in {"check", "put", "put raises", "fill"} /\ UNCHANGED verified
          /\ tool' \notin {"compare", "recount"}
      BY <2>3 DEF RestoreStep, AllChecked, PutFails, RestoreReturns, CheckFile,
         PutObject, FillTable, PutRow, Raise
    <3> QED
      BY <1>t, <3>1 DEF ToolInv, Tools
  <2> QED
    BY <1>4, <2>1, <2>2, <2>3
<1>5. CASE Fail
  BY <1>t, <1>5 DEF Fail, Raise, dirVars, history, Agrees, Listed
<1>6. CASE UNCHANGED vars
  BY <1>t, <1>6 DEF vars, dirVars, history, Agrees, Listed, Ahead
<1> QED
  BY <1>2, <1>3, <1>4, <1>5, <1>6, StepIsOf, VerifyKeeps

-----------------------------------------------------------------------------
LEMMA ExportInit == Init => ExportInv
<1> SUFFICES ASSUME Init
             PROVE  ExportInv
  OBVIOUS
<1> USE Kinds DEF Init
<1>1. TypeOK
  BY DEF TypeOK, Content, AnyContent
<1>2. ToolInv
  BY DEF ToolInv, Tools
<1>3. CopyInv /\ ExportIsFaithful /\ CheckInv /\ VerifyInv
  BY DEF CopyInv, ExportIsFaithful, CheckInv, VerifyInv
<1>4. NothingDamagedIsRestored
  BY ExportAssumption DEF NothingDamagedIsRestored
<1> QED
  BY <1>1, <1>2, <1>3, <1>4 DEF ExportInv

(* The inductive invariant.                                                *)
THEOREM ExportInvariant == Spec => []ExportInv
<1>1. ExportInv /\ [Next]_vars => ExportInv'
  BY TypeStep, ToolStep, CopyStep, CheckStep, DamageStep, VerifyStepInv DEF ExportInv
<1> QED
  BY <1>1, ExportInit, PTL DEF Spec

(* Whatever the pipeline writes and expires meanwhile, an export that left *)
(* a manifest holds all that stayed as it was.                             *)
THEOREM ExportsAreFaithful == Spec => []ExportIsFaithful
<1>1. ExportInv => ExportIsFaithful
  BY DEF ExportInv
<1> QED
  BY <1>1, ExportInvariant, PTL

(* No damaged file is restored, unless it was damaged after its check.     *)
THEOREM DamageIsNotRestored == Spec => []NothingDamagedIsRestored
<1>1. ExportInv => NothingDamagedIsRestored
  BY DEF ExportInv
<1> QED
  BY <1>1, ExportInvariant, PTL

(* What stayed from the beginning of the export to the reset is in the new *)
(* core once a verification returned.                                      *)
THEOREM ResetLosesNothing == Spec => []NothingThatStayedIsLost
<1>1. ExportInv => NothingThatStayedIsLost
  <2> SUFFICES ASSUME ExportInv, verified, NEW i \in Item \ (touched \cup busy)
               PROVE  /\ i \in Key /\ before[i] # Absent => cloud[i] = before[i]
                      /\ i \in Row => cloud[i] = before[i] \/ local[i] = Damaged
    BY DEF NothingThatStayedIsLost
  <2>1. core = "new"
    BY DEF ExportInv, ToolInv, TypeOK
  <2>2. hash[i] = before[i] /\ Agrees(i)
    BY <2>1 DEF ExportInv, CopyInv, VerifyInv
  <2> QED
    BY <2>2 DEF Agrees, Listed
<1> QED
  BY <1>1, ExportInvariant, PTL

=============================================================================
