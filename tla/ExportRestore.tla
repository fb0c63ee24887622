---------------------------- MODULE ExportRestore ---------------------------
(***************************************************************************)
(* The copy taken before a destructive reset: export-core-data.py copies   *)
(* bucket and tables while the pipeline may still write, destroy-all.ps1   *)
(* deletes the core, restore-core-data.py fills the new one, and           *)
(* verify-core-restore.py reads it back.  One tool runs at a time; any     *)
(* call of it may fail, and the local copy may be damaged at any time.     *)
(***************************************************************************)
EXTENDS Integers, FiniteSets

CONSTANTS Key,        \* object keys, in the order of a listing
          Table,      \* the exported tables
          Row,        \* rows, by table and primary key
          TableOf,    \* the table of a row
          PageSize,   \* keys of a page of a listing
          Absent,     \* no such object or row
          Damaged,    \* contents nobody wrote
          MaxWrites,  \* bound: writes and expiries of the pipeline
          MaxDamage   \* bound: files damaged

ASSUME ExportAssumption ==
    /\ Key \subseteq Nat /\ Key \cap Row = {} /\ Key \cap Table = {}
    /\ TableOf \in [Row -> Table]
    /\ PageSize \in Nat \ {0}
    /\ MaxWrites \in Nat /\ MaxDamage \in Nat
    /\ Absent \notin Nat /\ Damaged \notin Nat /\ Absent # Damaged

Item == Key \cup Row
Content == Nat \cup {Absent}
File == Key \cup Table

VARIABLES cloud,     \* contents of the core's bucket and tables
          core,      \* "old", or "new" after the reset
          local,     \* the export directory
          hash,      \* contents as the hashes of the manifest describe them
          manifest,  \* manifest.json was written
          tool,      \* what the running tool does
          todo,      \* what it has still to do of that
          tables,    \* tables it has still to begin
          expected,  \* the table file verify has read
          verified,  \* verify has returned
          before,    \* contents of the old core when it was destroyed
          touched,   \* what the pipeline changed since the export began
          busy,      \* what it changed since the verification began
          late,      \* what was damaged after a restore had checked it
          writes     \* writes and expiries so far

dirVars == <<local, hash, manifest>>
history == <<before, touched, busy, late>>
vars == <<cloud, core, dirVars, tool, todo, tables, expected, verified, history, writes>>

RowsOf(t) == {r \in Row : TableOf[r] = t}
Parts(f) == IF f \in Table THEN RowsOf(f) ELSE {f}
Nothing == [i \in Item |-> Absent]

Init ==
    /\ cloud \in [Item -> {0, Absent}]
    /\ core = "old"
    /\ local = Nothing /\ hash = Nothing /\ manifest = FALSE
    /\ tool = "none" /\ todo = {} /\ tables = {}
    /\ expected = Nothing /\ verified = FALSE
    /\ before = Nothing /\ touched = {} /\ busy = {} /\ late = {}
    /\ writes = 0

-----------------------------------------------------------------------------
(* The pipeline: Lambdas and jobs write, the lifecycle rules expire.       *)
Changes(i) ==
    /\ writes < MaxWrites
    /\ writes' = writes + 1
    /\ touched' = IF core = "old" THEN touched \cup {i} ELSE touched
    /\ busy' = busy \cup {i}
    /\ UNCHANGED <<core, dirVars, tool, todo, tables, expected, verified, before, late>>

Write(i) == Changes(i) /\ cloud' = [cloud EXCEPT ![i] = writes + 1]

Expire(k) ==
    /\ cloud[k] # Absent
    /\ Changes(k)
    /\ cloud' = [cloud EXCEPT ![k] = Absent]

(* The running restore has done with the hash of i's file. *)
Checked(i) ==
    \/ tool \in {"put", "put raises", "fill"}
    \/ tool = "check" /\ \A f \in todo : i \notin Parts(f)

(* The local copy is damaged. *)
Damage(i) ==
    /\ hash[i] # Absent
    /\ Cardinality({j \in Item : local[j] = Damaged}) < MaxDamage
    /\ local' = [local EXCEPT ![i] = Damaged]
    /\ late' = IF Checked(i) THEN late \cup {i} ELSE late
    /\ UNCHANGED <<cloud, core, hash, manifest, tool, todo, tables, expected, verified,
                   before, touched, busy, writes>>

(* A call of the tool fails, a table has no mapping, or it is killed.      *)
Raise == tool' = "none" /\ todo' = {} /\ tables' = {}

Fail ==
    /\ tool # "none"
    /\ Raise
    /\ UNCHANGED <<cloud, core, dirVars, expected, verified, history, writes>>

-----------------------------------------------------------------------------
(* export: a directory of its own, or it raises. *)
StartExport ==
    /\ tool = "none" /\ core = "old"
    /\ tool' = "list" /\ todo' = {} /\ tables' = Table
    /\ local' = Nothing /\ hash' = Nothing /\ manifest' = FALSE
    /\ touched' = {}
    /\ UNCHANGED <<cloud, core, expected, verified, before, busy, late, writes>>

Unlisted == {k \in Key : cloud[k] # Absent /\ \A j \in todo : j < k}
Page == {k \in Unlisted : Cardinality({j \in Unlisted : j < k}) < PageSize}

(* Mutation of LastPage: one page is taken for the listing.                *)
AnyPage == TRUE

LastPage == Page = Unlisted

ListPage ==
    /\ tool = "list"
    /\ todo' = todo \cup Page
    /\ tool' = IF LastPage THEN "get" ELSE "list"
    /\ UNCHANGED <<cloud, core, dirVars, tables, expected, verified, history, writes>>

(* export_object, by any of the workers; get_object raises for an object   *)
(* that has gone since it was listed.                                      *)
GetObject(k) ==
    /\ tool = "get"
    /\ k \in todo
    /\ IF cloud[k] = Absent
       THEN Raise /\ UNCHANGED <<local, hash>>
       ELSE /\ todo' = todo \ {k}
            /\ local' = [local EXCEPT ![k] = cloud[k]]
            /\ hash' = [hash EXCEPT ![k] = cloud[k]]
            /\ UNCHANGED <<tool, tables>>
    /\ UNCHANGED <<cloud, core, manifest, expected, verified, history, writes>>

(* The next table, once the one before is done. *)
NextTable(t) ==
    /\ todo = {}
    /\ t \in tables
    /\ tables' = tables \ {t}
    /\ todo' = RowsOf(t)

ScanTable(t) ==
    /\ tool \in {"get", "scan"}
    /\ NextTable(t)
    /\ tool' = "scan"
    /\ UNCHANGED <<cloud, core, dirVars, expected, verified, history, writes>>

ScanRow(r) ==
    /\ tool = "scan"
    /\ r \in todo
    /\ todo' = todo \ {r}
    /\ local' = [local EXCEPT ![r] = cloud[r]]
    /\ hash' = [hash EXCEPT ![r] = cloud[r]]
    /\ UNCHANGED <<cloud, core, manifest, tool, tables, expected, verified, history, writes>>

WriteManifest ==
    /\ tool \in {"get", "scan"}
    /\ todo = {} /\ tables = {}
    /\ manifest' = TRUE
    /\ tool' = "none"
    /\ UNCHANGED <<cloud, core, local, hash, todo, tables, expected, verified, history, writes>>

(* destroy-all.ps1 and a new core: the operator has an export. *)
Reset ==
    /\ tool = "none" /\ core = "old"
    /\ manifest
    /\ before' = cloud
    /\ core' = "new"
    /\ cloud' = Nothing
    /\ UNCHANGED <<dirVars, tool, todo, tables, expected, verified, touched, busy, late, writes>>

-----------------------------------------------------------------------------
Listed == {k \in Key : hash[k] # Absent}

(* restore. *)
StartRestore ==
    /\ tool = "none" /\ core = "new"
    /\ tool' = "check"
    /\ todo' = Listed \cup Table
    /\ tables' = Table
    /\ verified' = FALSE
    /\ UNCHANGED <<cloud, core, dirVars, expected, history, writes>>

(* Mutation of Intact: only the objects are hashed.                        *)
IntactObject(f) == f \in Key => local[f] = hash[f]

Intact(f) == \A i \in Parts(f) : local[i] = hash[i]

(* _load_verified, a file; after the last one the writes begin.            *)
CheckFile(f) ==
    /\ tool = "check"
    /\ f \in todo
    /\ IF Intact(f)
       THEN /\ todo' = todo \ {f}
            /\ UNCHANGED <<tool, tables>>
       ELSE Raise
    /\ UNCHANGED <<cloud, core, dirVars, expected, verified, history, writes>>

AllChecked ==
    /\ tool = "check"
    /\ todo = {}
    /\ tool' = "put"
    /\ todo' = Listed
    /\ UNCHANGED <<cloud, core, dirVars, tables, expected, verified, history, writes>>

(* restore_object, by any of the workers, from the file as it is now.      *)
PutObject(k) ==
    /\ tool \in {"put", "put raises"}
    /\ k \in todo
    /\ todo' = todo \ {k}
    /\ cloud' = [cloud EXCEPT ![k] = local[k]]
    /\ UNCHANGED <<core, dirVars, tool, tables, expected, verified, history, writes>>

(* A put fails; workers that have begun one finish it.                     *)
PutFails ==
    /\ tool = "put"
    /\ todo # {}
    /\ tool' = "put raises"
    /\ \E k \in todo : todo' = todo \ {k}
    /\ UNCHANGED <<cloud, core, dirVars, tables, expected, verified, history, writes>>

FillTable(t) ==
    /\ tool \in {"put", "fill"}
    /\ NextTable(t)
    /\ tool' = "fill"
    /\ UNCHANGED <<cloud, core, dirVars, expected, verified, history, writes>>

(* put_item of one line of the table's file; it overwrites what is there.  *)
PutRow(r) ==
    /\ tool = "fill"
    /\ r \in todo
    /\ todo' = todo \ {r}
    /\ cloud' = IF local[r] = Absent THEN cloud ELSE [cloud EXCEPT ![r] = local[r]]
    /\ UNCHANGED <<core, dirVars, tool, tables, expected, verified, history, writes>>

RestoreReturns ==
    /\ tool \in {"put", "fill"}
    /\ todo = {} /\ tables = {}
    /\ tool' = "none"
    /\ UNCHANGED <<cloud, core, dirVars, todo, tables, expected, verified, history, writes>>

-----------------------------------------------------------------------------
(* verify. *)
StartVerify ==
    /\ tool = "none" /\ core = "new"
    /\ tool' = "compare"
    /\ todo' = Listed
    /\ tables' = Table
    /\ verified' = FALSE
    /\ busy' = {}
    /\ UNCHANGED <<cloud, core, dirVars, expected, before, touched, late, writes>>

(* verify_object against the hash of the manifest. *)
CompareObject(k) ==
    /\ tool = "compare"
    /\ k \in todo
    /\ IF cloud[k] = hash[k]
       THEN todo' = todo \ {k} /\ UNCHANGED <<tool, tables>>
       ELSE Raise
    /\ UNCHANGED <<cloud, core, dirVars, expected, verified, history, writes>>

(* The rows are compared with the file, which is not hashed again.         *)
ReadTable(t) ==
    /\ tool \in {"compare", "recount"}
    /\ NextTable(t)
    /\ tool' = "recount"
    /\ expected' = local
    /\ UNCHANGED <<cloud, core, dirVars, verified, history, writes>>

(* Mutation of SameRow: rows the copy lacks are not looked for. *)
RowIsThere(r) == expected[r] # Absent => cloud[r] = expected[r]

SameRow(r) == cloud[r] = expected[r]

CompareRow(r) ==
    /\ tool = "recount"
    /\ r \in todo
    /\ IF SameRow(r)
       THEN todo' = todo \ {r} /\ UNCHANGED <<tool, tables>>
       ELSE Raise
    /\ UNCHANGED <<cloud, core, dirVars, expected, verified, history, writes>>

VerifyReturns ==
    /\ tool \in {"compare", "recount"}
    /\ todo = {} /\ tables = {}
    /\ tool' = "none"
    /\ verified' = TRUE
    /\ UNCHANGED <<cloud, core, dirVars, todo, tables, expected, history, writes>>

-----------------------------------------------------------------------------
Next ==
    \/ \E i \in Item : Write(i) \/ Damage(i)
    \/ \E k \in Key : Expire(k) \/ GetObject(k) \/ PutObject(k) \/ CompareObject(k)
    \/ \E t \in Table : ScanTable(t) \/ FillTable(t) \/ ReadTable(t)
    \/ \E r \in Row : ScanRow(r) \/ PutRow(r) \/ CompareRow(r)
    \/ \E f \in File : CheckFile(f)
    \/ StartExport \/ ListPage \/ WriteManifest \/ Reset
    \/ StartRestore \/ AllChecked \/ PutFails \/ RestoreReturns
    \/ StartVerify \/ VerifyReturns \/ Fail

Spec == Init /\ [][Next]_vars

-----------------------------------------------------------------------------
(* An export that left a manifest holds every object and row that stayed   *)
(* as it was while the tool ran, however many writes and expiries it met;  *)
(* only what changed meanwhile may be older, newer or missing.             *)
ExportIsFaithful ==
    manifest /\ core = "old" => \A i \in Item \ touched : hash[i] = cloud[i]

(* A restore writes nothing of a file that was damaged before its check,   *)
(* and nothing at all when one was: the checks come before the writes.     *)
NothingDamagedIsRestored ==
    /\ tool \in {"put", "put raises", "fill"} =>
           \A i \in Item : local[i] # hash[i] => i \in late
    /\ \A i \in Item : cloud[i] = Damaged => i \in late

(* Reset, restore and a verification that returned lose nothing: what did  *)
(* not change between the beginning of the export and the reset is in the  *)
(* new core, but for what the pipeline writes there meanwhile.  A table    *)
(* file that is damaged after its check escapes the verification, which    *)
(* compares the rows with the file and not with the manifest.              *)
NothingThatStayedIsLost ==
    verified => \A i \in Item \ (touched \cup busy) :
        /\ i \in Key /\ before[i] # Absent => cloud[i] = before[i]
        /\ i \in Row => cloud[i] = before[i] \/ local[i] = Damaged

-----------------------------------------------------------------------------
Tools == {"list", "get", "scan", "check", "put", "put raises", "fill", "compare", "recount"}

(* What may be on a disk or in a bucket. *)
AnyContent == Content \cup {Damaged}

TypeOK ==
    /\ cloud \in [Item -> AnyContent] /\ before \in [Item -> Content]
    /\ hash \in [Item -> Content]
    /\ local \in [Item -> AnyContent] /\ expected \in [Item -> AnyContent]
    /\ core \in {"old", "new"} /\ tool \in Tools \cup {"none"}
    /\ manifest \in BOOLEAN /\ verified \in BOOLEAN
    /\ todo \subseteq File \cup Row /\ tables \subseteq Table
    /\ touched \subseteq Item /\ busy \subseteq Item /\ late \subseteq Item
    /\ writes \in Nat

(* Where the running tool can be found, and what it works through.         *)
ToolInv ==
    /\ tool \in {"list", "get", "scan"} => core = "old" /\ ~manifest
    /\ tool \in Tools \ {"list", "get", "scan"} => core = "new" /\ ~verified
    /\ core = "old" => ~verified /\ late = {}
    /\ tool \in {"list", "get", "put", "put raises", "compare"} => todo \subseteq Key
    /\ tool \in {"scan", "fill", "recount"} => todo \subseteq Row
    /\ tool \in {"list", "get", "compare"} => tables = Table
    /\ tool = "list" => hash = Nothing

(* The tool has still to come to i. *)
Ahead(i) == i \in todo \/ (i \in Row /\ TableOf[i] \in tables)

(* The copy so far: a listing misses no key it has passed, an export no    *)
(* item it has passed; the copy only ever differs from its hashes by       *)
(* damage.                                                                 *)
CopyInv ==
    /\ tool = "list" => \A k \in Key \ touched : \A j \in todo :
           cloud[k] # Absent /\ k <= j => k \in todo
    /\ tool \in {"get", "scan"} => \A i \in Item \ touched :
           Ahead(i) \/ hash[i] = cloud[i]
    /\ core = "new" => \A i \in Item \ touched : hash[i] = before[i]
    /\ \A i \in Item : \/ local[i] = hash[i]
                       \/ local[i] = Damaged /\ hash[i] # Absent

CheckInv ==
    tool = "check" => \A i \in Item : local[i] # hash[i] =>
        i \in late \/ \E f \in todo : i \in Parts(f)

(* The new core agrees with the copy in i, so far as a verification sees.  *)
Agrees(i) ==
    /\ i \in Listed => cloud[i] = hash[i]
    /\ i \in Row => cloud[i] = hash[i] \/ local[i] = Damaged

VerifyInv ==
    /\ tool = "recount" => \A r \in Row : expected[r] = hash[r] \/ local[r] = Damaged
    /\ tool \in {"compare", "recount"} => \A i \in Item \ busy : Ahead(i) \/ Agrees(i)
    /\ verified => \A i \in Item \ busy : Agrees(i)

(* The inductive invariant.  What each tool has passed and nobody changed  *)
(* since is as the tool left it; that is what a later step relies on.      *)
ExportInv ==
    /\ TypeOK /\ ToolInv
    /\ CopyInv /\ ExportIsFaithful
    /\ CheckInv /\ NothingDamagedIsRestored
    /\ VerifyInv

=============================================================================
