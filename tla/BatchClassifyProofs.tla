------------------------- MODULE BatchClassifyProofs ------------------------
(***************************************************************************)
(* The job's accounting, for any rows whatever: every input row is in one  *)
(* and only one of the counted classes, so unexplained_rows is 0, and what *)
(* the gate passes has one row for each valid event of the window.  Then   *)
(* the oracle's two loops by their inductive invariant, and that oracle    *)
(* and job publish and reject the same of a well typed event.              *)
(***************************************************************************)
EXTENDS BatchClassify, SequenceTheorems, FiniteSetTheorems, TLAPS

-----------------------------------------------------------------------------
(* Counting the image of a finite set. *)
LEMMA ImageIsFinite ==
    ASSUME NEW S, NEW T, NEW f \in [S -> T], IsFiniteSet(S),
           \A t \in T : \E x \in S : f[x] = t
    PROVE  IsFiniteSet(T)
<1>1. f \in Surjection(S, T)
  BY DEF Surjection
<1> QED
  BY <1>1, FS_Surjection

LEMMA OneToOneCounts ==
    ASSUME NEW S, NEW T, NEW f \in [S -> T], IsFiniteSet(S),
           \A t \in T : \E x \in S : f[x] = t,
           \A x, y \in S : f[x] = f[y] => x = y
    PROVE  IsFiniteSet(T) /\ Cardinality(T) = Cardinality(S)
<1>1. f \in Surjection(S, T) /\ f \in Injection(S, T)
  BY DEF Surjection, Injection, IsInjective
<1> QED
  BY <1>1, FS_Surjection

LEMMA DisjointCounts ==
    ASSUME NEW S, NEW T, IsFiniteSet(S), IsFiniteSet(T), S \cap T = {}
    PROVE  /\ IsFiniteSet(S \cup T)
           /\ Cardinality(S \cup T) = Cardinality(S) + Cardinality(T)
           /\ Cardinality(S) \in Nat /\ Cardinality(T) \in Nat
BY FS_Union, FS_EmptySet, FS_CardinalityType, SMTT(30)

LEMMA LeastElement ==
    ASSUME NEW N, N \subseteq Nat, N # {}
    PROVE  \E n \in N : \A m \in N : n <= m
<1>1. IsWellFoundedOn(OpToRel(<, Nat), Nat)
  BY NatLessThanWellFounded
<1>2. PICK n \in N : \A m \in N : <<m, n>> \notin OpToRel(<, Nat)
  BY <1>1, WFMin
<1>3. \A m \in N : ~(m < n)
  BY <1>2 DEF OpToRel
<1> QED
  BY <1>3

-----------------------------------------------------------------------------
InputInv == rows \in Seq(Delivery)

LEMMA InputFinite ==
    ASSUME InputInv
    PROVE  /\ Input = 1 .. Len(rows) /\ Len(rows) \in Nat
           /\ IsFiniteSet(Input) /\ Cardinality(Input) = Len(rows)
           /\ \A S : S \subseteq Input => IsFiniteSet(S)
           /\ \A i \in Input : rows[i] \in Row
<1>1. Input = 1 .. Len(rows) /\ Len(rows) \in Nat
  BY DEF InputInv, Input
<1>2. IsFiniteSet(Input) /\ Cardinality(Input) = Len(rows)
  BY <1>1, FS_Interval, SMTT(30)
<1>3. \A i \in Input : rows[i] \in Row
  BY <1>1, ElementOfSeq, DeliveryAssumption DEF InputInv
<1> QED
  BY <1>1, <1>2, <1>3, FS_Subset

(* Each event of the window has rows and payloads, finitely many.          *)
LEMMA EventCounts ==
    ASSUME InputInv, NEW i \in InScope
    PROVE  /\ i \in OfEvent(rows[i].event) /\ OfEvent(rows[i].event) \subseteq InScope
           /\ IdentityCount(rows[i].event) \in Nat \ {0}
           /\ PayloadCount(rows[i].event) \in Nat \ {0}
           /\ PayloadCount(rows[i].event) = 1 =>
                  \A j, k \in OfEvent(rows[i].event) : rows[j].fields = rows[k].fields
           /\ IdentityCount(rows[i].event) = 1 =>
                  \A j \in OfEvent(rows[i].event) : j = i
<1> DEFINE E == OfEvent(rows[i].event)
           P == {Payload(j) : j \in E}
           f == [j \in E |-> Payload(j)]
<1>1. i \in E /\ E \subseteq InScope /\ E \subseteq Input
  BY DEF OfEvent, InScope
<1>2. IsFiniteSet(E)
  BY <1>1, InputFinite
<1>3. IsFiniteSet(P)
  <2>1. f \in [E -> P] /\ \A t \in P : \E x \in E : f[x] = t
    OBVIOUS
  <2> HIDE DEF E, P, f
  <2> QED
    BY <1>2, <2>1, ImageIsFinite
<1>4. Payload(i) \in P
  BY <1>1
<1>5. /\ Cardinality(E) \in Nat \ {0} /\ Cardinality(P) \in Nat \ {0}
      /\ Cardinality(P) = 1 => \E x : P = {x}
      /\ Cardinality(E) = 1 => \E x : E = {x}
  BY <1>1, <1>2, <1>3, <1>4, FS_CardinalityType, FS_EmptySet, FS_Singleton
<1>6. ASSUME NEW x, P = {x}, NEW j \in E, NEW k \in E
      PROVE  rows[j].fields = rows[k].fields
  <2>1. Payload(j) = Payload(k)
    BY <1>6
  <2> QED
    BY <2>1 DEF Payload
<1> QED
  BY <1>1, <1>5, <1>6 DEF IdentityCount, PayloadCount

-----------------------------------------------------------------------------
(* The rows of the window are conflicts, repeated or single.               *)
Multiple == {i \in InScope : Repeated(rows[i].event)}
Single == {i \in InScope : PayloadCount(rows[i].event) = 1 /\ IdentityCount(rows[i].event) = 1}
SingleIds == {rows[i].event : i \in Single}
Ids == {rows[i].event : i \in InScope \ Conflicts}

LEMMA WindowSplits ==
    ASSUME InputInv
    PROVE  /\ IsFiniteSet(InScope) /\ IsFiniteSet(Single)
           /\ Cardinality(Conflicts) \in Nat /\ Cardinality(Multiple) \in Nat
           /\ Cardinality(Single) \in Nat
           /\ Cardinality(InScope) =
                  Cardinality(Conflicts) + Cardinality(Multiple) + Cardinality(Single)
<1>1. /\ InScope = (Conflicts \cup Multiple) \cup Single
      /\ Conflicts \cap Multiple = {} /\ (Conflicts \cup Multiple) \cap Single = {}
  BY EventCounts DEF Conflicts, Multiple, Single, Repeated
<1>2. IsFiniteSet(InScope) /\ IsFiniteSet(Conflicts) /\ IsFiniteSet(Multiple) /\ IsFiniteSet(Single)
  <2>1. InScope \subseteq Input /\ Conflicts \subseteq Input
        /\ Multiple \subseteq Input /\ Single \subseteq Input
    BY DEF InScope, Conflicts, Multiple, Single
  <2> QED
    BY <2>1, InputFinite
<1>3. IsFiniteSet(Conflicts \cup Multiple)
      /\ Cardinality(Conflicts \cup Multiple) = Cardinality(Conflicts) + Cardinality(Multiple)
      /\ Cardinality(Conflicts) \in Nat /\ Cardinality(Multiple) \in Nat
  BY <1>1, <1>2, DisjointCounts
<1>4. /\ Cardinality((Conflicts \cup Multiple) \cup Single)
            = Cardinality(Conflicts \cup Multiple) + Cardinality(Single)
      /\ Cardinality(Single) \in Nat
  BY <1>1, <1>2, <1>3, DisjointCounts
<1> QED
  BY <1>1, <1>2, <1>3, <1>4

(* Silver has one row for each event that does not conflict.               *)
LEMMA SilverCounts ==
    ASSUME InputInv
    PROVE  /\ IsFiniteSet(Ids) /\ IsFiniteSet(Silver)
           /\ Cardinality(Silver) = Cardinality(Ids)
<1>1. IsFiniteSet(Ids)
  <2> DEFINE S == InScope \ Conflicts
             f == [i \in S |-> rows[i].event]
  <2>1. IsFiniteSet(S)
    BY InputFinite DEF InScope
  <2>2. f \in [S -> Ids] /\ \A t \in Ids : \E x \in S : f[x] = t
    BY DEF Ids
  <2> QED
    BY <2>1, <2>2, ImageIsFinite
<1> DEFINE g == [e \in Ids |-> Canonical(e)]
<1>2. g \in [Ids -> Silver] /\ \A t \in Silver : \E e \in Ids : g[e] = t
  BY DEF Silver, Ids
<1>3. \A d, e \in Ids : g[d] = g[e] => d = e
  <2>1. \A e : Canonical(e).event = e
    BY DEF Canonical
  <2> QED
    BY <2>1
<1> QED
  BY <1>1, <1>2, <1>3, OneToOneCounts

(* A single row is its event's only one. *)
LEMMA SingleCounts ==
    ASSUME InputInv
    PROVE  IsFiniteSet(SingleIds) /\ Cardinality(SingleIds) = Cardinality(Single)
<1> DEFINE f == [i \in Single |-> rows[i].event]
<1>1. f \in [Single -> SingleIds] /\ \A t \in SingleIds : \E x \in Single : f[x] = t
  BY DEF SingleIds
<1>2. ASSUME NEW i \in Single, NEW j \in Single, rows[i].event = rows[j].event
      PROVE  i = j
  BY <1>2, EventCounts DEF Single
<1>3. IsFiniteSet(Single)
  BY WindowSplits
<1>4. \A i, j \in Single : f[i] = f[j] => i = j
  BY <1>2
<1> HIDE DEF f
<1> QED
  BY <1>1, <1>3, <1>4, OneToOneCounts

LEMMA IdsSplit ==
    ASSUME InputInv
    PROVE  /\ Cardinality(Ids) = Cardinality(DuplicateIds) + Cardinality(SingleIds)
           /\ Cardinality(DuplicateIds) \in Nat
<1>1. Ids = DuplicateIds \cup SingleIds /\ DuplicateIds \cap SingleIds = {}
  BY EventCounts DEF Ids, DuplicateIds, SingleIds, Single, Conflicts, Repeated
<1>2. IsFiniteSet(DuplicateIds) /\ IsFiniteSet(SingleIds)
  BY <1>1, SilverCounts, FS_Subset
<1> QED
  BY <1>1, <1>2, DisjointCounts

LEMMA Accounting ==
    ASSUME InputInv
    PROVE  EveryRowIsAccounted
<1>1. /\ Input = (Invalid \cup OutOfScope) \cup InScope
      /\ Invalid \cap OutOfScope = {} /\ (Invalid \cup OutOfScope) \cap InScope = {}
  BY DEF Invalid, OutOfScope, InScope
<1>2. IsFiniteSet(Invalid) /\ IsFiniteSet(OutOfScope) /\ IsFiniteSet(InScope)
  BY <1>1, InputFinite
<1>3. /\ Cardinality(Invalid \cup OutOfScope) = Cardinality(Invalid) + Cardinality(OutOfScope)
      /\ IsFiniteSet(Invalid \cup OutOfScope)
      /\ Cardinality(Invalid) \in Nat /\ Cardinality(OutOfScope) \in Nat
  BY <1>1, <1>2, DisjointCounts
<1>4. /\ Cardinality(Input) = Cardinality(Invalid \cup OutOfScope) + Cardinality(InScope)
      /\ Cardinality(Input) = Len(rows)
  BY <1>1, <1>2, <1>3, DisjointCounts, InputFinite
<1>5. DuplicatesDropped = Cardinality(Multiple) - Cardinality(DuplicateIds)
  BY DEF DuplicatesDropped, Multiple
<1>6. Cardinality(Silver) = Cardinality(DuplicateIds) + Cardinality(Single)
  BY SilverCounts, IdsSplit, SingleCounts
<1>7. DuplicatesDropped + Cardinality(Silver) = Cardinality(Multiple) + Cardinality(Single)
  BY <1>5, <1>6, WindowSplits, IdsSplit
<1>8. DuplicatesDropped \in Int /\ Cardinality(Silver) \in Int
  BY <1>5, <1>6, WindowSplits, IdsSplit
<1>9. AccountedRows = Cardinality(Invalid \cup OutOfScope) + Cardinality(InScope)
  <2>1. AccountedRows = Cardinality(Invalid) + Cardinality(OutOfScope)
                            + Cardinality(Conflicts) + (DuplicatesDropped + Cardinality(Silver))
    BY <1>3, <1>8, WindowSplits DEF AccountedRows
  <2> QED
    BY <2>1, <1>3, <1>7, WindowSplits
<1> QED
  BY <1>4, <1>9 DEF EveryRowIsAccounted

-----------------------------------------------------------------------------
LEMMA InputInvariant == Spec => []InputInv
<1>1. Init => InputInv
  <2>1. ASSUME NEW n \in 0 .. MaxRows, rows \in [1 .. n -> Delivery]
        PROVE  rows \in Seq(Delivery)
    BY <2>1, SeqDef, ClassifyAssumption
  <2> QED
    BY <2>1 DEF Init, InputInv
<1>2. InputInv /\ [Next]_vars => InputInv'
  BY DEF InputInv, Next, ReadRow, Decide, vars
<1> QED
  BY <1>1, <1>2, PTL DEF Spec

(* unexplained_rows is 0, whatever the input.                              *)
THEOREM RowsAreAccounted == Spec => []EveryRowIsAccounted
BY InputInvariant, Accounting, PTL

(* A table the gate passes has exactly one row for each valid event of the *)
(* window, with the only payload that event had.                           *)
THEOREM PassedTablesAreComplete == Spec => []PassedTableIsComplete
<1>1. ASSUME InputInv, QualityPassed, NEW i \in InScope
      PROVE  /\ Cardinality({s \in Silver : s.event = rows[i].event}) = 1
             /\ \A s \in Silver : s.event = rows[i].event => s.fields = rows[i].fields
  <2> DEFINE e == rows[i].event
  <2>1. PayloadCount(e) = 1
    <3>1. i \notin Conflicts
      BY <1>1 DEF QualityPassed
    <3> QED
      BY <1>1, <3>1, EventCounts DEF Conflicts
  <2>2. {s \in Silver : s.event = e} = {Canonical(e)}
    <3>1. \A d : Canonical(d).event = d
      BY DEF Canonical
    <3>2. e \in {rows[j].event : j \in InScope \ Conflicts}
      BY <1>1 DEF QualityPassed
    <3> QED
      BY <3>1, <3>2 DEF Silver
  <2>3. Canonical(e).fields = rows[i].fields
    <3>1. /\ i \in OfEvent(e) /\ OfEvent(e) \subseteq Input
          /\ \A j, k \in OfEvent(e) : rows[j].fields = rows[k].fields
      BY <1>1, <2>1, EventCounts DEF InScope
    <3>2. \E k \in OfEvent(e) : \A j \in OfEvent(e) : rows[k].source <= rows[j].source
      <4> DEFINE N == {rows[j].source : j \in OfEvent(e)}
      <4>1. N \subseteq Nat /\ rows[i].source \in N
        BY <1>1, <3>1, InputFinite, ClassifyAssumption DEF Row
      <4>2. \E n \in N : \A m \in N : n <= m
        BY <4>1, LeastElement
      <4> QED
        BY <4>2
    <3>3. \E k \in OfEvent(e) : Canonical(e).fields = rows[k].fields
      BY <3>2 DEF Canonical
    <3> QED
      BY <3>1, <3>3
  <2> QED
    BY <2>2, <2>3, FS_Singleton
<1>2. InputInv => PassedTableIsComplete
  BY <1>1 DEF PassedTableIsComplete
<1> QED
  BY <1>2, InputInvariant, PTL

-----------------------------------------------------------------------------
(* A finite set has one member exactly if it is not empty and its members  *)
(* are equal.                                                              *)
LEMMA OneMember ==
    ASSUME NEW S, IsFiniteSet(S)
    PROVE  /\ Cardinality(S) = 1 <=> S # {} /\ \A x, y \in S : x = y
           /\ Cardinality(S) \in Nat
           /\ Cardinality(S) = 0 <=> S = {}
<1>1. Cardinality(S) \in Nat /\ (Cardinality(S) = 0 <=> S = {})
  BY FS_CardinalityType, FS_EmptySet
<1>2. ASSUME Cardinality(S) = 1
      PROVE  S # {} /\ \A x, y \in S : x = y
  <2>1. \E x : S = {x}
    BY <1>2, FS_Singleton
  <2> QED
    BY <2>1
<1>3. ASSUME NEW x \in S, \A y, z \in S : y = z
      PROVE  Cardinality(S) = 1
  <2>1. S = {x}
    BY <1>3
  <2> QED
    BY <2>1, FS_Singleton
<1> QED
  BY <1>1, <1>2, <1>3

LEMMA OneValue ==
    ASSUME NEW S, NEW T, NEW f \in [S -> T], IsFiniteSet(S), S # {},
           \A t \in T : \E x \in S : f[x] = t
    PROVE  /\ Cardinality(T) = 1 <=> \A x, y \in S : f[x] = f[y]
           /\ Cardinality(T) \in Nat \ {0}
<1>1. IsFiniteSet(T) /\ T # {}
  BY ImageIsFinite
<1>2. (\A y, z \in T : y = z) <=> \A x, y \in S : f[x] = f[y]
  OBVIOUS
<1> QED
  BY <1>1, <1>2, OneMember

(* The union of a family of sets with one more member.                     *)
LEMMA OneMoreSet ==
    ASSUME NEW v, NEW D, NEW e
    PROVE  UNION {v[d] : d \in D \cup {e}} = (UNION {v[d] : d \in D}) \cup v[e]
<1> DEFINE C == {v[d] : d \in D}
<1>1. {v[d] : d \in D \cup {e}} = C \cup {v[e]}
  OBVIOUS
<1> HIDE DEF C
<1>2. UNION (C \cup {v[e]}) = (UNION C) \cup v[e]
  OBVIOUS
<1> QED
  BY <1>1, <1>2 DEF C

-----------------------------------------------------------------------------
(* The oracle's rows.                                                      *)
ValidRows(e) == {i \in 1 .. read : PassedAsSent(i) /\ rows[i].event = e}

LEMMA ValidIsFinite ==
    ASSUME InputInv, OracleInv, NEW e \in Event
    PROVE  /\ valid[e] = ValidRows(e) /\ valid[e] \subseteq Input
           /\ IsFiniteSet(valid[e]) /\ Cardinality(valid[e]) \in Nat
<1>1. valid[e] = ValidRows(e)
  BY DEF OracleInv, ValidRows
<1>2. read \in 0 .. Len(rows) /\ Input = 1 .. Len(rows) /\ Len(rows) \in Nat
  BY InputFinite DEF OracleInv
<1>3. valid[e] \subseteq Input
  BY <1>1, <1>2 DEF ValidRows
<1> QED
  BY <1>1, <1>3, InputFinite, FS_CardinalityType

(* An undisputed event has rows of one payload, a disputed one several.    *)
LEMMA UndisputedIsOne ==
    ASSUME InputInv, OracleInv, NEW e \in Event, valid[e] # {}
    PROVE  Undisputed(e) <=> \A i, j \in valid[e] : Everything(i) = Everything(j)
<1> DEFINE S == valid[e]
           T == {Everything(i) : i \in S}
           f == [i \in S |-> Everything(i)]
<1>1. f \in [S -> T] /\ \A t \in T : \E x \in S : f[x] = t
  OBVIOUS
<1>2. IsFiniteSet(S)
  BY ValidIsFinite
<1>3. \A i, j \in S : f[i] = f[j] <=> Everything(i) = Everything(j)
  OBVIOUS
<1> HIDE DEF f, S, T
<1>4. Cardinality(T) = 1 <=> \A x, y \in S : f[x] = f[y]
  BY <1>1, <1>2, OneValue DEF S
<1> QED
  BY <1>3, <1>4 DEF Undisputed, T, S

(* The sorted entries begin with a row of the first source.                *)
LEMMA LeadingIsFirst ==
    ASSUME InputInv, OracleInv, NEW e \in Event, valid[e] # {}
    PROVE  /\ Leading(e) \in valid[e]
           /\ \A j \in valid[e] : rows[Leading(e)].source <= rows[j].source
<1>1. valid[e] \subseteq Nat /\ \A i \in valid[e] : rows[i].source \in Nat
  <2>1. valid[e] \subseteq Input
    BY ValidIsFinite
  <2>2. Input \subseteq Nat
    BY InputFinite
  <2>3. \A i \in Input : rows[i].source \in Nat
    BY InputFinite, ClassifyAssumption DEF Row
  <2> QED
    BY <2>1, <2>2, <2>3
<1>2. PICK n \in {rows[j].source : j \in valid[e]} :
          \A m \in {rows[j].source : j \in valid[e]} : n <= m
  <2>1. {rows[j].source : j \in valid[e]} \subseteq Nat
    BY <1>1
  <2> QED
    BY <2>1, LeastElement
<1>3. PICK i \in {j \in valid[e] : rows[j].source = n} :
          \A j \in {k \in valid[e] : rows[k].source = n} : i <= j
  <2> DEFINE N == {j \in valid[e] : rows[j].source = n}
  <2>1. N \subseteq Nat /\ N # {}
    BY <1>1, <1>2
  <2> HIDE DEF N
  <2>2. \E i \in N : \A j \in N : i <= j
    BY <2>1, LeastElement
  <2> QED
    BY <2>2 DEF N
<1>4. \A j \in valid[e] : \/ rows[i].source < rows[j].source
                          \/ rows[i].source = rows[j].source /\ i <= j
  <2> SUFFICES ASSUME NEW j \in valid[e]
               PROVE  n < rows[j].source \/ (n = rows[j].source /\ i <= j)
    BY <1>3
  <2>1. n <= rows[j].source /\ n \in Nat /\ rows[j].source \in Nat
    BY <1>1, <1>2
  <2> QED
    BY <1>3, <2>1
<1>5. /\ Leading(e) \in valid[e]
      /\ \A j \in valid[e] : \/ rows[Leading(e)].source < rows[j].source
                             \/ rows[Leading(e)].source = rows[j].source /\ Leading(e) <= j
  BY <1>3, <1>4 DEF Leading
<1>6. ASSUME NEW j \in valid[e]
      PROVE  rows[Leading(e)].source <= rows[j].source
  <2> DEFINE a == rows[Leading(e)].source
             b == rows[j].source
  <2>1. a \in Nat /\ b \in Nat /\ (a < b \/ a = b)
    BY <1>1, <1>5
  <2> HIDE DEF a, b
  <2>2. a <= b
    BY <2>1
  <2> QED
    BY <2>2 DEF a, b
<1> QED
  BY <1>5, <1>6

-----------------------------------------------------------------------------
LEMMA OracleInit ==
    ASSUME InputInv, Init
    PROVE  OracleInv
<1>1. read = 0 /\ Len(rows) \in Nat /\ 1 .. read = {}
  BY InputFinite DEF Init
<1>2. Decided = {} /\ Kept = {}
  BY DEF Init, Decided, Kept
<1>3. Cardinality(UNION {valid[e] : e \in Kept}) = 0 /\ Cardinality(Kept) = 0
  BY <1>2, FS_EmptySet
<1> QED
  BY <1>1, <1>2, <1>3 DEF Init, OracleInv, Rejections

(* A row is filed or rejected; nothing is decided meanwhile.               *)
LEMMA ReadKeepsInv ==
    ASSUME InputInv, OracleInv, ReadRow
    PROVE  OracleInv'
<1> DEFINE i == read + 1
           e == rows[i].event
<1>1. /\ read \in Nat /\ read < Len(rows) /\ Len(rows) \in Nat
      /\ i \in Input /\ e \in Event /\ UNCHANGED rows /\ read' = i
      /\ 1 .. i = (1 .. read) \cup {i}
  <2>1. read \in Nat /\ read < Len(rows) /\ Len(rows) \in Nat /\ UNCHANGED rows
    BY InputFinite DEF ReadRow, OracleInv
  <2>2. i \in Input
    BY <2>1, InputFinite
  <2>3. e \in Event
    BY <2>2, InputFinite DEF Row
  <2> QED
    BY <2>1, <2>2, <2>3 DEF ReadRow
<1>2. Decided = {} /\ Kept = {}
  BY <1>1 DEF OracleInv, Kept
<1>3. \A j : PassedAsSent(j)' <=> PassedAsSent(j)
  BY <1>1 DEF PassedAsSent, FailedAsSent, Verdict
<1>4. valid' = [d \in Event |-> {j \in 1 .. read' : PassedAsSent(j)' /\ rows'[j].event = d}]
  <2>1. valid = [d \in Event |-> {j \in 1 .. read : PassedAsSent(j) /\ rows[j].event = d}]
    BY DEF OracleInv
  <2>2. CASE PassedAsSent(i)
    <3>1. valid' = [valid EXCEPT ![e] = @ \cup {i}]
      BY <2>2 DEF ReadRow
    <3> QED
      BY <1>1, <1>3, <2>1, <2>2, <3>1
  <2>3. CASE ~PassedAsSent(i)
    <3>1. valid' = valid
      BY <2>3 DEF ReadRow
    <3> QED
      BY <1>1, <1>3, <2>1, <2>3, <3>1
  <2> QED
    BY <2>2, <2>3
<1>5. /\ pending' \subseteq {d \in Event : valid'[d] # {}}
      /\ Decided' = {}
  <2>1. pending \subseteq {d \in Event : valid[d] # {}} /\ {d \in Event : valid[d] # {}} \subseteq pending
    BY <1>2 DEF OracleInv, Decided
  <2>2. CASE PassedAsSent(i)
    <3>1. pending' = pending \cup {e} /\ valid' = [valid EXCEPT ![e] = @ \cup {i}]
      BY <2>2 DEF ReadRow
    <3>2. \A d \in Event : valid'[d] = IF d = e THEN valid[d] \cup {i} ELSE valid[d]
      BY <1>1, <3>1 DEF OracleInv
    <3>3. e \in Event
      BY <1>1
    <3> HIDE DEF e, i
    <3>4. {d \in Event : valid'[d] # {}} = {d \in Event : valid[d] # {}} \cup {e}
      BY <3>2, <3>3
    <3> QED
      BY <2>1, <3>1, <3>4 DEF Decided
  <2>3. CASE ~PassedAsSent(i)
    BY <2>1, <2>3 DEF ReadRow, Decided
  <2> QED
    BY <2>2, <2>3
<1>6. Kept' = {}
  BY <1>5 DEF Kept
<1>7. Rejections' = {j \in 1 .. read' : ~PassedAsSent(j)'}
  <2>1. Rejections = {j \in 1 .. read : ~PassedAsSent(j)}
    BY <1>2 DEF OracleInv
  <2>2. CASE PassedAsSent(i)
    BY <1>1, <1>3, <2>1, <2>2 DEF ReadRow, Rejections
  <2>3. CASE ~PassedAsSent(i)
    <3>1. rejected' = rejected \cup {<<i, Verdict(FailedAsSent(rows[i]))>>}
      BY <2>3 DEF ReadRow
    <3>2. Rejections' = Rejections \cup {i}
      <4> DEFINE p == <<i, Verdict(FailedAsSent(rows[i]))>>
      <4>1. p[1] = i /\ rejected' = rejected \cup {p}
        BY <3>1
      <4> HIDE DEF p, i
      <4> QED
        BY <4>1 DEF Rejections
    <3> QED
      BY <1>1, <1>3, <2>1, <2>3, <3>2
  <2> QED
    BY <2>2, <2>3
<1>8. accepted = {} /\ accepted' = {}
  BY <1>2 DEF OracleInv, ReadRow
<1>9. /\ Cardinality(UNION {valid'[d] : d \in Kept'}) = 0 /\ Cardinality(Kept') = 0
      /\ duplicates' = 0
  <2>1. UNION {valid[d] : d \in Kept} = {} /\ UNION {valid'[d] : d \in Kept'} = {}
    BY <1>2, <1>6
  <2>2. duplicates = 0 /\ duplicates' = duplicates
    <3>1. duplicates = Cardinality(UNION {valid[d] : d \in Kept}) - Cardinality(Kept)
      BY DEF OracleInv
    <3>2. Cardinality(Kept) = 0 /\ Cardinality(UNION {valid[d] : d \in Kept}) = 0
      BY <1>2, <2>1, FS_EmptySet
    <3> QED
      BY <3>1, <3>2 DEF ReadRow
  <2> QED
    BY <1>6, <2>1, <2>2, FS_EmptySet
<1>a. accepted' = {Entry(d)' : d \in Kept'}
  BY <1>6, <1>8
<1>b. read' \in 0 .. Len(rows')
  BY <1>1
<1>c. /\ read' < Len(rows') => Decided' = {}
      /\ Rejections' = {j \in 1 .. read' : ~PassedAsSent(j)'}
                                        \cup UNION {valid'[d] : d \in Decided' \ Kept'}
      /\ duplicates' = Cardinality(UNION {valid'[d] : d \in Kept'}) - Cardinality(Kept')
  BY <1>5, <1>6, <1>7, <1>9
<1> QED
  BY <1>4, <1>5, <1>a, <1>b, <1>c DEF OracleInv

(* The rows of the event ids that are kept. *)
KeptRows == UNION {valid[e] : e \in Kept}

LEMMA KeptIsFinite ==
    ASSUME InputInv, OracleInv
    PROVE  /\ KeptRows \subseteq Input /\ IsFiniteSet(KeptRows) /\ IsFiniteSet(Kept)
           /\ Kept \subseteq Event
           /\ \A i \in KeptRows : PassedAsSent(i) /\ rows[i].event \in Kept
<1>1. \A e \in Kept : e \in Event /\ valid[e] # {} /\ valid[e] = ValidRows(e)
                      /\ valid[e] \subseteq Input
  BY ValidIsFinite DEF Kept, Decided
<1>2. KeptRows \subseteq Input /\ \A i \in KeptRows : PassedAsSent(i) /\ rows[i].event \in Kept
  BY <1>1 DEF KeptRows, ValidRows
<1>3. IsFiniteSet(KeptRows)
  BY <1>2, InputFinite
<1> DEFINE f == [i \in KeptRows |-> rows[i].event]
<1>4. f \in [KeptRows -> Kept]
  BY <1>2
<1>5. ASSUME NEW e \in Kept
      PROVE  \E i \in KeptRows : f[i] = e
  BY <1>1 DEF KeptRows, ValidRows
<1> HIDE DEF f
<1>6. IsFiniteSet(Kept)
  BY <1>3, <1>4, <1>5, ImageIsFinite
<1> QED
  BY <1>1, <1>2, <1>3, <1>6

LEMMA DecideKeepsInv ==
    ASSUME InputInv, OracleInv, Decide
    PROVE  OracleInv'
<1>1. PICK e \in pending : /\ pending' = pending \ {e}
                           /\ IF Undisputed(e) THEN Accept(e) ELSE Reject(e)
                           /\ UNCHANGED <<rows, read, valid>> /\ read = Len(rows)
  BY DEF Decide
<1>2. /\ e \in Event /\ valid[e] # {} /\ e \notin Decided
      /\ Decided' = Decided \cup {e}
  BY <1>1 DEF OracleInv, Decided
<1>3. /\ \A d : Undisputed(d)' <=> Undisputed(d)
      /\ \A d : Entry(d)' = Entry(d)
      /\ \A j : PassedAsSent(j)' <=> PassedAsSent(j)
  <2>1. rows' = rows /\ valid' = valid
    BY <1>1
  <2> QED
    BY <2>1 DEF Undisputed, Everything, Entry, Leading, PassedAsSent, FailedAsSent,
            Verdict
<1>4. /\ read' \in 0 .. Len(rows') /\ ~(read' < Len(rows'))
      /\ valid' = [d \in Event |-> {j \in 1 .. read' : PassedAsSent(j)' /\ rows'[j].event = d}]
      /\ pending' \subseteq {d \in Event : valid'[d] # {}}
  <2>1. valid = [d \in Event |-> {j \in 1 .. read : PassedAsSent(j) /\ rows[j].event = d}]
    BY DEF OracleInv
  <2>2. read' \in 0 .. Len(rows') /\ ~(read' < Len(rows'))
    BY <1>1, InputFinite DEF OracleInv
  <2>3. pending' \subseteq {d \in Event : valid'[d] # {}}
    BY <1>1 DEF OracleInv
  <2> QED
    BY <1>1, <1>3, <2>1, <2>2, <2>3
<1>5. {i \in 1 .. read' : ~PassedAsSent(i)'} = {i \in 1 .. read : ~PassedAsSent(i)}
  BY <1>1, <1>3
<1>6. CASE Undisputed(e)
  <2>1. /\ accepted' = accepted \cup {Entry(e)} /\ UNCHANGED rejected
        /\ duplicates' = duplicates + Cardinality(valid[e]) - 1
    BY <1>1, <1>6 DEF Accept
  <2>2. /\ Kept' = Kept \cup {e} /\ e \notin Kept
        /\ Decided' \ Kept' = Decided \ Kept
    BY <1>2, <1>3, <1>6 DEF Kept
  <2>3. Rejections' = {i \in 1 .. read' : ~PassedAsSent(i)'}
            \cup UNION {valid'[d] : d \in Decided' \ Kept'}
    BY <1>1, <1>5, <2>1, <2>2, ZenonT(60) DEF OracleInv, Rejections
  <2>4. accepted' = {Entry(d)' : d \in Kept'}
    BY <1>3, <2>1, <2>2 DEF OracleInv
  <2>5. duplicates' = Cardinality(UNION {valid'[d] : d \in Kept'}) - Cardinality(Kept')
    <3>1. UNION {valid'[d] : d \in Kept'} = KeptRows \cup valid[e]
      BY <1>1, <2>2 DEF KeptRows
    <3>2. KeptRows \cap valid[e] = {}
      BY <1>2, <2>2, KeptIsFinite, ValidIsFinite DEF ValidRows
    <3>3. /\ Cardinality(KeptRows \cup valid[e]) = Cardinality(KeptRows) + Cardinality(valid[e])
          /\ Cardinality(KeptRows) \in Nat /\ Cardinality(valid[e]) \in Nat
      BY <1>2, <3>2, KeptIsFinite, ValidIsFinite, DisjointCounts
    <3>4. Cardinality(Kept') = Cardinality(Kept) + 1 /\ Cardinality(Kept) \in Nat
      BY <2>2, KeptIsFinite, FS_AddElement, FS_CardinalityType
    <3>5. duplicates = Cardinality(KeptRows) - Cardinality(Kept)
      BY DEF OracleInv, KeptRows
    <3> DEFINE a == Cardinality(KeptRows)
               b == Cardinality(valid[e])
               c == Cardinality(Kept)
    <3>6. duplicates' = (a - c) + b - 1 /\ a \in Nat /\ b \in Nat /\ c \in Nat
      BY <2>1, <3>3, <3>4, <3>5
    <3>7. /\ Cardinality(UNION {valid'[d] : d \in Kept'}) = a + b
          /\ Cardinality(Kept') = c + 1
      BY <3>1, <3>3, <3>4
    <3> HIDE DEF a, b, c
    <3>8. (a - c) + b - 1 = (a + b) - (c + 1)
      BY <3>6
    <3> QED
      BY <3>6, <3>7, <3>8
  <2> QED
    BY <1>4, <2>3, <2>4, <2>5 DEF OracleInv
<1>7. CASE ~Undisputed(e)
  <2>1. /\ rejected' = rejected \cup {<<i, "DUPLICATE_EVENT_ID_CONFLICT">> : i \in valid[e]}
        /\ UNCHANGED <<accepted, duplicates>>
    BY <1>1, <1>7 DEF Reject
  <2>2. /\ Kept' = Kept /\ e \notin Kept
        /\ Decided' \ Kept' = (Decided \ Kept) \cup {e}
    BY <1>2, <1>3, <1>7 DEF Kept
  <2>3. Rejections' = {i \in 1 .. read' : ~PassedAsSent(i)'}
            \cup UNION {valid'[d] : d \in Decided' \ Kept'}
    <3>1. Rejections' = Rejections \cup valid[e]
      <4> DEFINE R == {<<i, "DUPLICATE_EVENT_ID_CONFLICT">> : i \in valid[e]}
      <4>1. /\ \A r \in R : r[1] \in valid[e]
            /\ \A i \in valid[e] : \E r \in R : r[1] = i
        <5>1. ASSUME NEW r \in R
              PROVE  r[1] \in valid[e]
          <6>1. PICK i \in valid[e] : r = <<i, "DUPLICATE_EVENT_ID_CONFLICT">>
            OBVIOUS
          <6> QED
            BY <6>1
        <5>2. ASSUME NEW i \in valid[e]
              PROVE  \E r \in R : r[1] = i
          <6> WITNESS <<i, "DUPLICATE_EVENT_ID_CONFLICT">> \in R
          <6> QED
            OBVIOUS
        <5> QED
          BY <5>1, <5>2
      <4> HIDE DEF R
      <4>2. {r[1] : r \in rejected \cup R} = Rejections \cup valid[e]
        BY <4>1 DEF Rejections
      <4> QED
        BY <2>1, <4>1, <4>2 DEF R, Rejections
    <3>2. UNION {valid'[d] : d \in Decided' \ Kept'}
              = (UNION {valid[d] : d \in Decided \ Kept}) \cup valid[e]
      <4> DEFINE D == Decided \ Kept
      <4>1. Decided' \ Kept' = D \cup {e} /\ valid' = valid
        BY <1>1, <2>2
      <4> HIDE DEF D
      <4>2. UNION {valid[d] : d \in D \cup {e}} = (UNION {valid[d] : d \in D}) \cup valid[e]
        BY OneMoreSet
      <4> QED
        BY <4>1, <4>2 DEF D
    <3>3. Rejections =
              {i \in 1 .. read : ~PassedAsSent(i)} \cup UNION {valid[d] : d \in Decided \ Kept}
      BY DEF OracleInv
    <3> DEFINE Was == Rejections
               Is == Rejections'
               Bad == {i \in 1 .. read : ~PassedAsSent(i)}
               Out == UNION {valid[d] : d \in Decided \ Kept}
    <3>4. Is = Was \cup valid[e] /\ Was = Bad \cup Out
      BY <3>1, <3>3
    <3> HIDE DEF Was, Bad, Out, Is
    <3>5. UNION {valid'[d] : d \in Decided' \ Kept'} = Out \cup valid[e]
      BY <3>2 DEF Out
    <3>6. {i \in 1 .. read' : ~PassedAsSent(i)'} = Bad
      BY <1>5 DEF Bad
    <3>7. Is = Bad \cup (Out \cup valid[e])
      BY <3>4
    <3> QED
      BY <3>5, <3>6, <3>7 DEF Is
  <2>4. accepted' = {Entry(d)' : d \in Kept'}
    BY <1>3, <2>1, <2>2 DEF OracleInv
  <2>5. duplicates' = Cardinality(UNION {valid'[d] : d \in Kept'}) - Cardinality(Kept')
    <3>1. duplicates = Cardinality(UNION {valid[d] : d \in Kept}) - Cardinality(Kept)
      BY DEF OracleInv
    <3>2. Kept' = Kept /\ valid' = valid /\ duplicates' = duplicates
      BY <1>1, <2>1, <2>2
    <3> QED
      BY <3>1, <3>2
  <2> QED
    BY <1>4, <2>3, <2>4, <2>5 DEF OracleInv
<1> QED
  BY <1>6, <1>7

(* The oracle's inductive invariant.                                       *)
THEOREM OracleInvariant == Spec => []OracleInv
<1>1. Init /\ InputInv => OracleInv
  BY OracleInit
<1>2. InputInv /\ OracleInv /\ [Next]_vars => OracleInv'
  <2>1. ASSUME OracleInv, UNCHANGED vars
        PROVE  OracleInv'
    <3>1. UNCHANGED <<rows, read, valid, rejected, pending, accepted, duplicates>>
      BY <2>1 DEF vars
    <3>2. UNCHANGED <<Decided, Kept>> /\ \A d : Entry(d)' = Entry(d)
          /\ \A j : PassedAsSent(j)' <=> PassedAsSent(j)
      BY <3>1 DEF Decided, Kept, Undisputed, Everything, Entry, Leading, PassedAsSent, FailedAsSent,
            Verdict
    <3>3. /\ read' \in 0 .. Len(rows')
          /\ valid' = [d \in Event |-> {j \in 1 .. read' : PassedAsSent(j)' /\ rows'[j].event = d}]
          /\ pending' \subseteq {d \in Event : valid'[d] # {}}
          /\ read' < Len(rows') => Decided' = {}
          /\ accepted' = {Entry(d)' : d \in Kept'}
      BY <2>1, <3>1, <3>2 DEF OracleInv
    <3>4. Rejections' = {j \in 1 .. read' : ~PassedAsSent(j)'}
                                         \cup UNION {valid'[d] : d \in Decided' \ Kept'}
      BY <2>1, <3>1, <3>2, ZenonT(60) DEF OracleInv, Rejections
    <3>5. duplicates' = Cardinality(UNION {valid'[d] : d \in Kept'}) - Cardinality(Kept')
      BY <2>1, <3>1, <3>2 DEF OracleInv
    <3> QED
      BY <3>3, <3>4, <3>5 DEF OracleInv
  <2> QED
    BY <2>1, ReadKeepsInv, DecideKeepsInv DEF Next
<1> QED
  BY <1>1, <1>2, InputInvariant, PTL DEF Spec

-----------------------------------------------------------------------------
(* The job's view of one event: its payloads are one exactly if its rows   *)
(* have the same fields, and its canonical row is a first one of them.     *)
LEMMA PayloadIsOne ==
    ASSUME InputInv, NEW e, OfEvent(e) # {}
    PROVE  PayloadCount(e) = 1 <=> \A i, j \in OfEvent(e) : rows[i].fields = rows[j].fields
<1> DEFINE S == OfEvent(e)
           T == {Payload(i) : i \in S}
           f == [i \in S |-> Payload(i)]
<1>1. f \in [S -> T] /\ \A t \in T : \E x \in S : f[x] = t
  OBVIOUS
<1>2. IsFiniteSet(S) /\ S # {}
  BY InputFinite DEF OfEvent, InScope
<1>3. \A i, j \in S : f[i] = f[j] <=> rows[i].fields = rows[j].fields
  BY DEF Payload
<1> HIDE DEF f, S, T
<1>4. Cardinality(T) = 1 <=> \A x, y \in S : f[x] = f[y]
  BY <1>1, <1>2, OneValue
<1> QED
  BY <1>3, <1>4 DEF PayloadCount, T, S

LEMMA CanonicalIsFirst ==
    ASSUME InputInv, NEW e, OfEvent(e) # {}
    PROVE  \E k \in OfEvent(e) :
               /\ \A j \in OfEvent(e) : rows[k].source <= rows[j].source
               /\ Canonical(e) = [event |-> e, source |-> rows[k].source,
                                  fields |-> rows[k].fields]
<1> DEFINE N == {rows[j].source : j \in OfEvent(e)}
<1>1. \A j \in OfEvent(e) : rows[j].source \in Nat
  BY InputFinite, ClassifyAssumption DEF OfEvent, InScope, Row
<1>2. N \subseteq Nat /\ N # {}
  BY <1>1
<1>3. \E n \in N : \A m \in N : n <= m
  BY <1>2, LeastElement
<1>4. \E k \in OfEvent(e) : \A j \in OfEvent(e) : rows[k].source <= rows[j].source
  BY <1>3
<1> QED
  BY <1>4 DEF Canonical

-----------------------------------------------------------------------------
(* A well typed event passes both ways or neither.                         *)
LEMMA OneVerdict ==
    ASSUME InputInv, NEW e, WellTyped(e), NEW i \in RowsOf(e)
    PROVE  /\ Passed(i) <=> PassedAsSent(i)
           /\ i \in InScope <=> Passed(i)
<1>1. i \in Input /\ rows[i].mistyped = {} /\ i \notin OutOfScope
  BY DEF RowsOf, WellTyped
<1>2. FailedAsRead(rows[i]) = FailedAsSent(rows[i])
  BY <1>1 DEF FailedAsRead, FailedAsSent
<1> QED
  BY <1>1, <1>2 DEF Passed, PassedAsSent, InScope, OutOfScope

(* When it returns, the oracle has decided each well typed event as it was *)
(* delivered.                                                              *)
LEMMA OracleHasRead ==
    ASSUME InputInv, OracleInv, Returned, NEW e \in Event, WellTyped(e)
    PROVE  /\ valid[e] = OfEvent(e) /\ OfEvent(e) \subseteq RowsOf(e)
           /\ e \in Kept <=> OfEvent(e) # {} /\ Undisputed(e)
           /\ \A i \in RowsOf(e) :
                  i \in Rejections <=> i \in Invalid \/ (i \in OfEvent(e) /\ ~Undisputed(e))
<1>1. Input = 1 .. read /\ pending = {}
  BY InputFinite DEF Returned
<1>2. \A i \in RowsOf(e) : (Passed(i) <=> PassedAsSent(i)) /\ (i \in InScope <=> Passed(i))
  BY OneVerdict
<1>3. OfEvent(e) = {i \in RowsOf(e) : PassedAsSent(i)}
  BY <1>2 DEF OfEvent, InScope, RowsOf
<1>4. valid[e] = OfEvent(e)
  BY <1>1, <1>3 DEF OracleInv, RowsOf
<1>5. e \in Decided <=> OfEvent(e) # {}
  BY <1>1, <1>4 DEF Decided
<1>6. e \in Kept <=> OfEvent(e) # {} /\ Undisputed(e)
  BY <1>5 DEF Kept
<1>7. ASSUME NEW i \in RowsOf(e)
      PROVE  i \in UNION {valid[d] : d \in Decided \ Kept} <=> i \in OfEvent(e) /\ ~Undisputed(e)
  <2>1. ASSUME NEW d \in Decided \ Kept, i \in valid[d]
        PROVE  i \in OfEvent(e) /\ ~Undisputed(e)
    <3>1. d \in Event /\ rows[i].event = d /\ rows[i].event = e
      BY <2>1, ValidIsFinite DEF ValidRows, Decided, RowsOf
    <3> QED
      BY <1>4, <1>6, <2>1, <3>1
  <2>2. ASSUME i \in OfEvent(e), ~Undisputed(e)
        PROVE  i \in UNION {valid[d] : d \in Decided \ Kept}
    <3>1. e \in Decided \ Kept /\ i \in valid[e]
      BY <1>4, <1>5, <1>6, <2>2
    <3> QED
      BY <3>1
  <2> QED
    BY <2>1, <2>2
<1>8. ASSUME NEW i \in RowsOf(e)
      PROVE  i \in {j \in 1 .. read : ~PassedAsSent(j)} <=> i \in Invalid
  BY <1>1, <1>2 DEF Invalid, RowsOf
<1> QED
  BY <1>3, <1>4, <1>6, <1>7, <1>8 DEF OracleInv

(* What it keeps has one payload for the job too, and its entry is the     *)
(* job's canonical row.                                                    *)
LEMMA KeptIsCanonical ==
    ASSUME InputInv, OracleInv, Returned, NEW e \in Kept, WellTyped(e)
    PROVE  e \in Event /\ PayloadCount(e) = 1 /\ Entry(e) = Canonical(e) /\ e \in Ids
<1>1. e \in Event /\ valid[e] = OfEvent(e) /\ OfEvent(e) # {} /\ Undisputed(e)
  BY OracleHasRead DEF Kept, Decided
<1>2. \A i, j \in OfEvent(e) : rows[i].fields = rows[j].fields
  BY <1>1, UndisputedIsOne DEF Everything
<1>3. PayloadCount(e) = 1
  BY <1>1, <1>2, PayloadIsOne
<1>4. /\ Leading(e) \in OfEvent(e)
      /\ \A j \in OfEvent(e) : rows[Leading(e)].source <= rows[j].source
  BY <1>1, LeadingIsFirst
<1>5. PICK k \in OfEvent(e) :
          /\ \A j \in OfEvent(e) : rows[k].source <= rows[j].source
          /\ Canonical(e) = [event |-> e, source |-> rows[k].source, fields |-> rows[k].fields]
  BY <1>1, CanonicalIsFirst
<1>6. rows[Leading(e)].source \in Nat /\ rows[k].source \in Nat
  BY <1>4, InputFinite, ClassifyAssumption DEF OfEvent, InScope, Row
<1>7. rows[Leading(e)].source = rows[k].source
  <2> DEFINE a == rows[Leading(e)].source
             b == rows[k].source
  <2>1. a \in Nat /\ b \in Nat /\ a <= b /\ b <= a
    BY <1>4, <1>5, <1>6
  <2> HIDE DEF a, b
  <2>2. a = b
    BY <2>1
  <2> QED
    BY <2>2 DEF a, b
<1>8. e \in Ids
  BY <1>1, <1>3 DEF Ids, Conflicts, OfEvent
<1> QED
  BY <1>1, <1>2, <1>3, <1>4, <1>5, <1>7, <1>8 DEF Entry

(* Sent with the same other fields, it is disputed for both or neither.    *)
LEMMA KeptPayloads ==
    ASSUME InputInv, OracleInv, Returned, NEW e \in Event, WellTyped(e), SameExtra(e)
    PROVE  /\ e \in Kept <=> e \in Ids
           /\ \A i \in OfEvent(e) : Undisputed(e) <=> i \notin Conflicts
<1>1. valid[e] = OfEvent(e) /\ OfEvent(e) \subseteq RowsOf(e)
  BY OracleHasRead
<1>2. \A j, k \in OfEvent(e) : Everything(j) = Everything(k) <=> rows[j].fields = rows[k].fields
  BY <1>1 DEF Everything, WellTyped, SameExtra
<1>3. OfEvent(e) # {} => (Undisputed(e) <=> PayloadCount(e) = 1)
  BY <1>1, <1>2, UndisputedIsOne, PayloadIsOne
<1>4. \A i \in OfEvent(e) : PayloadCount(e) = 1 <=> i \notin Conflicts
  BY EventCounts DEF Conflicts, OfEvent
<1>5. e \in Kept => e \in Ids
  BY KeptIsCanonical
<1>6. ASSUME e \in Ids
      PROVE  e \in Kept
  <2>1. PICK i \in OfEvent(e) : i \notin Conflicts
    BY <1>6 DEF Ids, OfEvent
  <2> QED
    BY <1>3, <1>4, <2>1, OracleHasRead
<1> QED
  BY <1>3, <1>4, <1>5, <1>6

(* The two drop as many rows: those of the kept events but one for each.   *)
LEMMA KeptCounts ==
    ASSUME InputInv, OracleInv, Returned,
           \A e \in Event : WellTyped(e) /\ SameExtra(e)
    PROVE  duplicates = DuplicatesDropped
<1>1. ASSUME NEW i \in InScope
      PROVE  rows[i].event \in Event /\ i \in OfEvent(rows[i].event)
  BY InputFinite DEF InScope, OfEvent, Row
<1>2. Kept = Ids
  <2>1. Kept \subseteq Event /\ Ids \subseteq Event
    BY <1>1 DEF Kept, Decided, Ids
  <2> QED
    BY <2>1, KeptPayloads
<1>3. KeptRows = InScope \ Conflicts
  <2>1. ASSUME NEW i \in InScope \ Conflicts
        PROVE  i \in KeptRows
    <3>1. rows[i].event \in Kept /\ i \in valid[rows[i].event]
      BY <1>1, <1>2, OracleHasRead DEF Ids
    <3> QED
      BY <3>1 DEF KeptRows
  <2>2. ASSUME NEW e \in Kept, NEW i \in valid[e]
        PROVE  i \in InScope \ Conflicts
    <3>1. e \in Event
      BY DEF Kept, Decided
    <3>2. i \in OfEvent(e) /\ Undisputed(e)
      BY <3>1, OracleHasRead
    <3> QED
      BY <3>1, <3>2, KeptPayloads DEF OfEvent
  <2> QED
    BY <2>1, <2>2 DEF KeptRows
<1>4. KeptRows = Multiple \cup Single /\ Multiple \cap Single = {}
  BY <1>3, EventCounts DEF Conflicts, Multiple, Single, Repeated
<1>5. IsFiniteSet(Multiple) /\ IsFiniteSet(Single)
  BY InputFinite DEF Multiple, Single, InScope
<1>6. Cardinality(KeptRows) = Cardinality(Multiple) + Cardinality(Single)
  BY <1>4, <1>5, DisjointCounts
<1>7. Cardinality(Kept) = Cardinality(DuplicateIds) + Cardinality(Single)
  BY <1>2, IdsSplit, SingleCounts
<1>8. duplicates = Cardinality(KeptRows) - Cardinality(Kept)
  BY DEF OracleInv, KeptRows
<1>9. DuplicatesDropped = Cardinality(Multiple) - Cardinality(DuplicateIds)
  BY DEF DuplicatesDropped, Multiple
<1>a. /\ Cardinality(Multiple) \in Nat /\ Cardinality(DuplicateIds) \in Nat
      /\ Cardinality(Single) \in Nat
  BY WindowSplits, IdsSplit
<1> QED
  BY <1>6, <1>7, <1>8, <1>9, <1>a

-----------------------------------------------------------------------------
(* Of an event whose deliveries are well typed, in the window and equal    *)
(* but for the contract's fields, the oracle of the tests publishes and    *)
(* rejects what the job does, whatever else an input of any length holds,  *)
(* and in any order; and it drops as many rows if all events are such.     *)
THEOREM OracleSpeaksForTheJob == Spec => []OracleAgreesWithJob
<1>1. ASSUME InputInv, OracleInv, Returned, NEW e \in Event, WellTyped(e), SameExtra(e)
      PROVE  /\ {a \in accepted : a.event = e} = {s \in Silver : s.event = e}
             /\ Rejections \cap RowsOf(e) = (Invalid \cup Conflicts) \cap RowsOf(e)
  <2>1. accepted = {Entry(d) : d \in Kept} /\ Silver = {Canonical(d) : d \in Ids}
    BY <1>1 DEF OracleInv, Silver, Ids
  <2>2. \A d : Entry(d).event = d /\ Canonical(d).event = d
    BY DEF Entry, Canonical
  <2>3. /\ {a \in accepted : a.event = e} = IF e \in Kept THEN {Entry(e)} ELSE {}
        /\ {s \in Silver : s.event = e} = IF e \in Ids THEN {Canonical(e)} ELSE {}
    BY <2>1, <2>2
  <2>4. (e \in Kept <=> e \in Ids) /\ (e \in Kept => Entry(e) = Canonical(e))
    BY <1>1, KeptPayloads, KeptIsCanonical
  <2>5. \A i \in RowsOf(e) : i \in Conflicts => i \in OfEvent(e)
    BY DEF Conflicts, OfEvent, RowsOf
  <2>6. \A i \in RowsOf(e) : i \in Rejections <=> i \in Invalid \cup Conflicts
    BY <1>1, <2>5, OracleHasRead, KeptPayloads
  <2> QED
    BY <2>3, <2>4, <2>6
<1>2. InputInv /\ OracleInv => OracleAgreesWithJob
  BY <1>1, KeptCounts DEF OracleAgreesWithJob
<1> QED
  BY <1>2, InputInvariant, OracleInvariant, PTL

(* With other fields than the contract's the oracle sees the job's         *)
(* conflicts and perhaps more; what it accepts of a well typed event, the  *)
(* job publishes.                                                          *)
THEOREM OracleIsTheStricter == Spec => []OracleIsStricter
<1>1. ASSUME InputInv, OracleInv, Returned, NEW e \in Event, WellTyped(e)
      PROVE  /\ Conflicts \cap RowsOf(e) \subseteq Rejections
             /\ {a \in accepted : a.event = e} \subseteq Silver
  <2>1. e \in Kept => PayloadCount(e) = 1 /\ Entry(e) = Canonical(e) /\ e \in Ids
    BY <1>1, KeptIsCanonical
  <2>2. accepted = {Entry(d) : d \in Kept} /\ Silver = {Canonical(d) : d \in Ids}
    BY <1>1 DEF OracleInv, Silver, Ids
  <2>3. \A d : Entry(d).event = d
    BY DEF Entry
  <2>4. ASSUME NEW i \in Conflicts \cap RowsOf(e)
        PROVE  i \in Rejections
    <3>1. i \in OfEvent(e) /\ PayloadCount(e) > 1
      BY DEF Conflicts, OfEvent, RowsOf
    <3>2. ~Undisputed(e)
      BY <1>1, <2>1, <3>1, OracleHasRead
    <3> QED
      BY <1>1, <3>1, <3>2, OracleHasRead
  <2> QED
    BY <2>1, <2>2, <2>3, <2>4
<1>2. InputInv /\ OracleInv => OracleIsStricter
  BY <1>1 DEF OracleIsStricter
<1> QED
  BY <1>2, InputInvariant, OracleInvariant, PTL

-----------------------------------------------------------------------------
(* The first row of each event and fields.                                 *)
LEMMA FirstOfEach ==
    ASSUME InputInv, NEW j \in InScope
    PROVE  \E k \in Firsts : /\ rows[k].event = rows[j].event
                             /\ rows[k].fields = rows[j].fields
                             /\ k <= j
<1> DEFINE N == {k \in InScope : /\ rows[k].event = rows[j].event
                                 /\ rows[k].fields = rows[j].fields}
<1>1. N \subseteq Nat /\ j \in N
  BY InputFinite DEF InScope
<1>2. PICK k \in N : \A m \in N : k <= m
  <2> HIDE DEF N
  <2> QED
    BY <1>1, LeastElement
<1>3. k \in Firsts
  BY <1>1, <1>2 DEF Firsts
<1> QED
  BY <1>1, <1>2, <1>3

(* What is published, the rows' sources apart, is what would be published  *)
(* of the first delivery of each event alone.                              *)
THEOREM RedeliveryIsHarmless == Spec => []RedeliveryChangesNothing
<1> DEFINE Alone == {i \in Firsts : \A j \in Firsts : rows[j].event = rows[i].event => j = i}
<1>1. ASSUME InputInv, NEW e \in Ids
      PROVE  \E i \in Alone : <<e, Canonical(e).fields>> = <<rows[i].event, rows[i].fields>>
  <2>1. OfEvent(e) # {} /\ PayloadCount(e) = 1
    BY <1>1, EventCounts DEF Ids, Conflicts
  <2>2. \A i, j \in OfEvent(e) : rows[i].fields = rows[j].fields
    BY <1>1, <2>1, PayloadIsOne
  <2>3. PICK k \in OfEvent(e) : Canonical(e).fields = rows[k].fields
    BY <1>1, <2>1, CanonicalIsFirst
  <2>4. PICK i \in Firsts : rows[i].event = e /\ rows[i].fields = rows[k].fields
    BY <1>1, FirstOfEach DEF OfEvent
  <2>5. ASSUME NEW j \in Firsts, rows[j].event = e
        PROVE  j = i
    <3>1. i \in OfEvent(e) /\ j \in OfEvent(e) /\ i \in Nat /\ j \in Nat /\ i > 0 /\ j > 0
      BY <1>1, <2>4, <2>5, InputFinite DEF Firsts, OfEvent, InScope
    <3>2. rows[i].fields = rows[j].fields
      BY <2>2, <3>1
    <3>3. ~(i < j) /\ ~(j < i)
      BY <2>4, <2>5, <3>1, <3>2 DEF Firsts
    <3> QED
      BY <3>1, <3>3
  <2>6. i \in Alone
    BY <2>4, <2>5
  <2> QED
    BY <2>3, <2>4, <2>6
<1>2. ASSUME InputInv, NEW i \in Alone
      PROVE  rows[i].event \in Ids /\ Canonical(rows[i].event).fields = rows[i].fields
  <2> DEFINE e == rows[i].event
  <2>1. i \in InScope /\ i \in OfEvent(e)
    BY DEF Firsts, OfEvent
  <2>2. ASSUME NEW j \in OfEvent(e)
        PROVE  rows[j].fields = rows[i].fields
    <3>1. j \in InScope /\ rows[j].event = e
      BY DEF OfEvent
    <3>2. PICK k \in Firsts : rows[k].event = e /\ rows[k].fields = rows[j].fields
      BY <1>2, <3>1, FirstOfEach
    <3> QED
      BY <3>2
  <2>3. PayloadCount(e) = 1
    BY <1>2, <2>1, <2>2, PayloadIsOne
  <2>4. e \in Ids
    BY <2>1, <2>3 DEF Ids, Conflicts
  <2> QED
    BY <1>2, <2>1, <2>2, <2>4, CanonicalIsFirst
<1>3. ASSUME InputInv
      PROVE  RedeliveryChangesNothing
  <2>1. \A e : Canonical(e).event = e
    BY DEF Canonical
  <2>2. CanonicalData = {<<e, Canonical(e).fields>> : e \in Ids}
    BY <2>1 DEF CanonicalData, Silver, Ids
  <2>3. \A e \in Ids :
            \E i \in Alone : <<e, Canonical(e).fields>> = <<rows[i].event, rows[i].fields>>
    BY <1>1, <1>3
  <2>4. \A i \in Alone :
            rows[i].event \in Ids /\ Canonical(rows[i].event).fields = rows[i].fields
    BY <1>2, <1>3
  <2> HIDE DEF Alone
  <2>5. {<<e, Canonical(e).fields>> : e \in Ids}
            = {<<rows[i].event, rows[i].fields>> : i \in Alone}
    BY <2>3, <2>4
  <2> QED
    BY <2>2, <2>5 DEF Alone, RedeliveryChangesNothing
<1> QED
  BY <1>3, InputInvariant, PTL

=============================================================================
