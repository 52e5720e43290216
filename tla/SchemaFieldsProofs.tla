------------------------- MODULE SchemaFieldsProofs -------------------------
(***************************************************************************)
(* For any names, types, keys and bounds: the columns of a version are     *)
(* distinct, the view reads a column under its own field's name in the     *)
(* rows of every version, an edit that asks for no decision leaves the     *)
(* view of the rows there are as it is, and the dedup matcher compares     *)
(* like with like for payloads of the newest version.                      *)
(***************************************************************************)
EXTENDS SchemaFields, WellFoundedInduction, TLAPS

\* The identity fields of a version are among its columns.
IdentityDeclared == \A v \in Saved : versions[v].identity \subseteq ColumnsOf(v)

FieldsInv == TypeOK /\ ColumnsDistinct /\ NamesDistinct /\ IdentityDeclared

\* What assign_column_keys returns: the fields asked for, each with a column of
\* its own.
LEMMA AssignedFields ==
    ASSUME NEW asked \in Requests, ValidRequest(asked),
           NEW fields \in assign_column_keys(asked)
    PROVE  /\ fields \in Seq(Field)
           /\ \A i, j \in DOMAIN fields : fields[i].column = fields[j].column => i = j
           /\ \A i, j \in DOMAIN fields : fields[i].name = fields[j].name => i = j
<1>1. PICK n \in 0..MaxFields : asked \in [1..n -> Asked]
    BY DEF Requests
<1>2. n \in Nat
    BY <1>1, ConstantsAssumption
<1>3. PICK c \in [DOMAIN asked -> Keys] :
          /\ \A i \in DOMAIN asked : Resolved(asked, c, i)
          /\ fields = [i \in DOMAIN asked |-> [asked[i] EXCEPT !.column = c[i]]]
    BY DEF assign_column_keys
<1>4. fields \in [1..n -> Field]
    BY <1>1, <1>3 DEF Asked, Field
<1>5. \A i \in 1..n : fields[i].column = c[i] /\ fields[i].name = asked[i].name
    BY <1>1, <1>3 DEF Asked
<1>6. ASSUME NEW i \in 1..n, NEW j \in 1..n, i < j
      PROVE  c[i] # c[j]
  <2>1. CASE Supplied(asked, j) = NoKey
    <3>1. c[j] \notin Used(asked, c, j)
        BY <1>1, <1>3, <2>1 DEF Resolved
    <3>2. c[i] \in Used(asked, c, j)
        BY <1>2, <1>6 DEF Used
    <3> QED
        BY <3>1, <3>2
  <2>2. CASE Supplied(asked, j) # NoKey /\ Supplied(asked, i) = NoKey
    <3>1. c[i] \notin Used(asked, c, i)
        BY <1>1, <1>3, <2>2 DEF Resolved
    <3>2. Supplied(asked, j) \in Used(asked, c, i)
        BY <1>1, <2>2 DEF Used, SuppliedKeys
    <3>3. c[j] = Supplied(asked, j)
        BY <1>1, <1>3, <2>2 DEF Resolved
    <3> QED
        BY <3>1, <3>2, <3>3
  <2>3. CASE Supplied(asked, j) # NoKey /\ Supplied(asked, i) # NoKey
    <3>1. c[i] = Supplied(asked, i) /\ c[j] = Supplied(asked, j)
        BY <1>1, <1>3, <2>3 DEF Resolved
    <3>2. Supplied(asked, i) # Supplied(asked, j)
        BY <1>1, <1>2, <1>6, <2>3 DEF ValidRequest
    <3> QED
        BY <3>1, <3>2
  <2> QED
      BY <2>1, <2>2, <2>3
<1>7. \A i, j \in 1..n : c[i] = c[j] => i = j
    BY <1>2, <1>6
<1>8. \A i, j \in 1..n : asked[i].name = asked[j].name => i = j
    BY <1>1 DEF ValidRequest
<1>9. DOMAIN fields = 1..n
    BY <1>4
<1>10. fields \in Seq(Field)
    BY <1>2, <1>4
<1> QED
    BY <1>5, <1>7, <1>8, <1>9, <1>10

\* Appending a version with distinct columns and names keeps the invariant.
LEMMA AppendedVersion ==
    ASSUME FieldsInv, UNCHANGED pinned,
           NEW asked \in Requests, ValidRequest(asked),
           NEW fields \in assign_column_keys(asked),
           NEW K \in IdentityChoices(fields), NEW b \in BOOLEAN,
           versions' = Append(versions, [fields |-> fields, identity |-> K, breaking |-> b])
    PROVE  FieldsInv'
<1> DEFINE new == [fields |-> fields, identity |-> K, breaking |-> b]
<1>1. /\ fields \in Seq(Field)
      /\ \A i, j \in DOMAIN fields : fields[i].column = fields[j].column => i = j
      /\ \A i, j \in DOMAIN fields : fields[i].name = fields[j].name => i = j
    BY AssignedFields
<1>2. ASSUME NEW i \in DOMAIN fields
      PROVE  fields[i].column \in Keys
  <2>1. fields \in Seq(Field)
      BY <1>1
  <2>2. fields[i] \in Field
      BY <2>1
  <2> QED
      BY <2>2 DEF Field
<1>3. K \subseteq Keys
    BY <1>2 DEF IdentityChoices
<1>4. new \in Version
    BY <1>1, <1>3 DEF Version
<1>5. versions \in Seq(Version) /\ versions' = Append(versions, new)
    BY DEF FieldsInv, TypeOK
<1> HIDE DEF new
<1>6. /\ versions' \in Seq(Version)
      /\ Len(versions') = Len(versions) + 1
      /\ Len(versions) \in Nat
      /\ \A v \in 1..Len(versions) : versions'[v] = versions[v]
      /\ versions'[Len(versions) + 1] = new
    BY <1>4, <1>5
<1>7. TypeOK'
    BY <1>6 DEF FieldsInv, TypeOK
<1>8. \A v \in 1..Len(versions') : v \in 1..Len(versions) \/ versions'[v] = new
    BY <1>6
<1>9. new.fields = fields
    BY DEF new
<1>10. ColumnsDistinct'
    BY <1>1, <1>6, <1>8, <1>9 DEF FieldsInv, ColumnsDistinct, Saved
<1>11. NamesDistinct'
    BY <1>1, <1>6, <1>8, <1>9 DEF FieldsInv, NamesDistinct, Saved
<1>12. IdentityDeclared'
  <2>1. K \subseteq {fields[i].column : i \in DOMAIN fields}
      BY DEF IdentityChoices
  <2>2. new.identity = K
      BY DEF new
  <2>3. ASSUME NEW v \in Saved'
        PROVE  versions'[v].identity \subseteq ColumnsOf(v)'
    <3>1. CASE versions'[v] = new
      <4>1. FieldsOf(v)' = {fields[i] : i \in DOMAIN fields}
          BY <1>9, <3>1 DEF FieldsOf
      <4>2. ASSUME NEW k \in K
            PROVE  k \in ColumnsOf(v)'
        <5>1. PICK i \in DOMAIN fields : fields[i].column = k
            BY <2>1
        <5>2. fields[i] \in FieldsOf(v)'
            BY <4>1
        <5> QED
            BY <5>1, <5>2 DEF ColumnsOf
      <4>3. versions'[v].identity = K
          BY <2>2, <3>1
      <4> QED
          BY <4>2, <4>3
    <3>2. CASE v \in Saved /\ versions'[v] = versions[v]
      <4>1. versions[v].identity \subseteq ColumnsOf(v)
          BY <3>2 DEF FieldsInv, IdentityDeclared
      <4>2. ColumnsOf(v)' = ColumnsOf(v)
          BY <3>2 DEF ColumnsOf, FieldsOf
      <4> QED
          BY <3>2, <4>1, <4>2
    <3> QED
        BY <1>6, <1>8, <2>3, <3>1, <3>2 DEF Saved
  <2> QED
      BY <2>3 DEF IdentityDeclared
<1> QED
    BY <1>7, <1>10, <1>11, <1>12 DEF FieldsInv

LEMMA FieldsInvHolds == Spec => []FieldsInv
<1>1. Init => FieldsInv
    BY DEF Init, FieldsInv, TypeOK, ColumnsDistinct, NamesDistinct, IdentityDeclared, Saved
<1>2. ASSUME FieldsInv, [Next]_vars
      PROVE  FieldsInv'
  <2>1. CASE UNCHANGED vars
      BY <1>2, <2>1 DEF FieldsInv, TypeOK, ColumnsDistinct, NamesDistinct, IdentityDeclared,
                              ColumnsOf, FieldsOf, Saved, vars
  <2>2. CASE \E asked \in Requests : create_schema(asked)
    <3>1. PICK asked \in Requests : create_schema(asked)
        BY <2>2
    <3>2. PICK fields \in assign_column_keys(asked) :
            \E K \in IdentityChoices(fields) :
              versions' = <<[fields |-> fields, identity |-> K, breaking |-> FALSE]>>
        BY <3>1 DEF create_schema
    <3>3. PICK K \in IdentityChoices(fields) :
            versions' = <<[fields |-> fields, identity |-> K, breaking |-> FALSE]>>
        BY <3>2
    <3>4. versions = <<>> /\ ValidRequest(asked) /\ UNCHANGED pinned
        BY <3>1 DEF create_schema
    <3>5. versions' = Append(versions, [fields |-> fields, identity |-> K, breaking |-> FALSE])
        BY <3>3, <3>4
    <3> QED
        BY <1>2, <3>4, <3>5, AppendedVersion
  <2>3. CASE \E asked \in Requests : create_schema_version(asked)
    <3>1. PICK asked \in Requests : create_schema_version(asked)
        BY <2>3
    <3>2. PICK fields \in assign_column_keys(asked) :
            \E K \in IdentityChoices(fields) :
              versions' = Append(versions, [fields |-> fields, identity |-> K,
                                            breaking |-> Breaking(fields)])
        BY <3>1 DEF create_schema_version
    <3>3. PICK K \in IdentityChoices(fields) :
            versions' = Append(versions, [fields |-> fields, identity |-> K,
                                          breaking |-> Breaking(fields)])
        BY <3>2
    <3>4. ValidRequest(asked) /\ UNCHANGED pinned
        BY <3>1 DEF create_schema_version
    <3>5. Breaking(fields) \in BOOLEAN
        BY DEF Breaking
    <3> QED
        BY <1>2, <3>3, <3>4, <3>5, AppendedVersion
  <2>4. CASE StartRun \/ FinishRun
      BY <1>2, <2>4 DEF StartRun, FinishRun, FieldsInv, TypeOK, ColumnsDistinct,
                        NamesDistinct, IdentityDeclared, ColumnsOf, FieldsOf, Saved, Newest
  <2> QED
      BY <1>2, <2>1, <2>2, <2>3, <2>4 DEF Next
<1> QED
    BY <1>1, <1>2, PTL DEF Spec

\* The lineage and the run are typed, for any names, types, keys and bounds.
THEOREM TypeCorrect == Spec => []TypeOK
<1>1. FieldsInv => TypeOK
    BY DEF FieldsInv
<1> QED
    BY <1>1, FieldsInvHolds, PTL

\* assign_column_keys never gives two fields of a version one column.
THEOREM ColumnsAreDistinct == Spec => []ColumnsDistinct
<1>1. FieldsInv => ColumnsDistinct
    BY DEF FieldsInv
<1> QED
    BY <1>1, FieldsInvHolds, PTL

\* What the view reads under a column, whatever the lineage.
LEMMA ReadsOwnName ==
    ASSUME NEW v \in Saved, NEW k
    PROVE  ReadsAs(k, v) = {f.name : f \in {g \in FieldsOf(v) : g.column = k}}
<1> DEFINE own == {f.name : f \in {g \in FieldsOf(v) : g.column = k}}
<1>1. \A n : n \in own <=> Declares(v, k, n)
    BY DEF Declares
<1>2. own \subseteq NamesOf(k)
    BY DEF NamesOf
<1>3. CASE _plain_is_safe(k)
  <2>1. PICK n \in NamesOf(k) :
          /\ NamesOf(k) = {n}
          /\ OwnersOf(n) = {k}
          /\ \A w \in Saved : \E l \in OwnersOf(n) : Declares(w, l, n)
      BY <1>3 DEF _plain_is_safe
  <2>2. n \in own
      BY <1>1, <2>1
  <2> QED
      BY <1>2, <1>3, <2>1, <2>2 DEF ReadsAs
<1>4. CASE ~_plain_is_safe(k)
    BY <1>1, <1>2, <1>4 DEF ReadsAs
<1> QED
    BY <1>3, <1>4

\* Every column of the view reads its own field in the rows of every version,
\* and nothing where there is none.
THEOREM ViewIsFaithful == Spec => []ViewReadsOwnField
<1>1. ViewReadsOwnField
    BY ReadsOwnName DEF ViewReadsOwnField
<1> QED
    BY <1>1, PTL

\* A field is alone under its name in its version.
LEMMA NameHasOneColumn ==
    ASSUME FieldsInv, NEW v \in Saved,
           NEW f \in FieldsOf(v), NEW g \in FieldsOf(v), f.name = g.name
    PROVE  f = g
<1>1. PICK i \in DOMAIN versions[v].fields : f = versions[v].fields[i]
    BY DEF FieldsOf
<1>2. PICK j \in DOMAIN versions[v].fields : g = versions[v].fields[j]
    BY DEF FieldsOf
<1>3. i = j
    BY <1>1, <1>2 DEF FieldsInv, NamesDistinct
<1> QED
    BY <1>1, <1>2, <1>3

\* For a payload of the newest version the matcher compares each identity field
\* with itself, in records of every version.
THEOREM DedupIsFaithfulNow == Spec => []DedupComparesTheFieldNow
<1>1. ASSUME FieldsInv, pinned # 0, pinned = Newest, NEW k \in versions[pinned].identity
      PROVE  /\ PayloadFields(k) = {k}
             /\ \A v \in Saved : RecordFields(k, v) \subseteq {k}
  <2>1. Newest \in Nat /\ Newest \in Saved
      BY <1>1 DEF FieldsInv, TypeOK, Newest, Saved
  <2>2. k \in ColumnsOf(Newest)
      BY <1>1, <2>1 DEF FieldsInv, IdentityDeclared
  <2>3. NewestDeclaring(k) = Newest
    <3>1. \A w \in Newest + 1..Newest : k \notin ColumnsOf(w)
        BY <2>1
    <3>2. \A v \in Saved : (\A w \in v + 1..Newest : k \notin ColumnsOf(w)) => v = Newest
        BY <2>1, <2>2 DEF Saved, Newest
    <3> QED
        BY <2>1, <2>2, <3>1, <3>2 DEF NewestDeclaring
  <2>4. PICK f \in FieldsOf(Newest) : f.column = k
      BY <2>2 DEF ColumnsOf
  <2>5. Declaration(k) \in FieldsOf(Newest) /\ Declaration(k).column = k
      BY <2>3, <2>4 DEF Declaration
  <2>6. \A g \in FieldsOf(Newest) : g.name = Declaration(k).name => g = Declaration(k)
      BY <1>1, <2>1, <2>5, NameHasOneColumn
  <2>7. PayloadFields(k) = {k}
      BY <1>1, <2>5, <2>6 DEF PayloadFields
  <2>8. ASSUME NEW v \in Saved, NEW g \in FieldsOf(v), g.name \in ReadsAs(k, v)
        PROVE  g.column = k
    <3>1. PICK h \in FieldsOf(v) : h.column = k /\ g.name = h.name
        BY <2>8, ReadsOwnName
    <3> QED
        BY <1>1, <3>1, NameHasOneColumn
  <2>9. \A v \in Saved : RecordFields(k, v) \subseteq {k}
      BY <2>8 DEF RecordFields
  <2> QED
      BY <2>7, <2>9
<1>2. FieldsInv => DedupComparesTheFieldNow
    BY <1>1 DEF DedupComparesTheFieldNow, DedupComparesTheField
<1> QED
    BY <1>2, FieldsInvHolds, PTL

\* A known column has a newest version that declares it, and only one.
LEMMA NewestExists ==
    ASSUME versions \in Seq(Version), NEW k \in KnownKeys
    PROVE  \E v \in Saved : k \in ColumnsOf(v) /\ \A w \in v + 1..Newest : k \notin ColumnsOf(w)
<1> DEFINE T == {n \in 0..Newest : \E v \in Saved : k \in ColumnsOf(v) /\ n = Newest - v}
<1>1. Newest \in Nat /\ Saved = 1..Newest
    BY DEF Newest, Saved
<1>2. T \subseteq Nat
    BY <1>1
<1>3. T # {}
  <2>1. PICK v \in Saved : k \in ColumnsOf(v)
      BY DEF KnownKeys
  <2>2. Newest - v \in 0..Newest
      BY <1>1
  <2> QED
      BY <2>1, <2>2
<1>4. PICK n \in T : \A m \in T : ~(<<m, n>> \in OpToRel(<, Nat))
  <2> HIDE DEF T
  <2> QED
      BY <1>2, <1>3, NatLessThanWellFounded, WFMin
<1>5. \A m \in T : ~(m < n)
    BY <1>2, <1>4 DEF OpToRel
<1>6. PICK v \in Saved : k \in ColumnsOf(v) /\ n = Newest - v
    BY <1>4
<1>7. ASSUME NEW w \in v + 1..Newest, k \in ColumnsOf(w)
      PROVE  FALSE
  <2>1. w \in Saved /\ Newest - w \in 0..Newest /\ Newest - w < n
      BY <1>1, <1>6
  <2>2. Newest - w \in T
      BY <1>7, <2>1
  <2> QED
      BY <1>5, <2>1, <2>2
<1> QED
    BY <1>6, <1>7

\* The view reads its own fields now and after the step.
LEMMA ReadsOwnAlways == ViewReadsOwnField /\ ViewReadsOwnField'
<1>1. ViewReadsOwnField
    BY ReadsOwnName DEF ViewReadsOwnField
<1> QED
    BY <1>1, PTL

\* What a column is declared as after a version is added: as that version
\* declares it, or as before.
LEMMA DeclaredAfter ==
    ASSUME FieldsInv, FieldsInv', NEW new, versions' = Append(versions, new),
           NEW k \in KnownKeys
    PROVE  /\ \A f \in FieldsOf(Newest)' : f.column = k => Declaration(k)' = f
           /\ k \notin ColumnsOf(Newest)' => Declaration(k)' = Declaration(k)
<1>1. /\ Newest \in Nat /\ Newest' = Newest + 1
      /\ Saved = 1..Newest /\ Saved' = 1..Newest + 1
      /\ \A v \in Saved : versions'[v] = versions[v]
      /\ versions \in Seq(Version)
    BY DEF FieldsInv, TypeOK, Newest, Saved
<1>2. ASSUME NEW v \in Saved
      PROVE  FieldsOf(v)' = FieldsOf(v) /\ ColumnsOf(v)' = ColumnsOf(v)
  <2>1. FieldsOf(v)' = FieldsOf(v)
      BY <1>1 DEF FieldsOf
  <2> QED
      BY <2>1 DEF ColumnsOf
<1>3. ASSUME NEW f \in FieldsOf(Newest)', f.column = k
      PROVE  Declaration(k)' = f
  <2>1. k \in ColumnsOf(Newest)'
      BY <1>3 DEF ColumnsOf
  <2>2. \A v \in Saved' : (\A w \in v + 1..Newest' : k \notin ColumnsOf(w)') => v = Newest'
      BY <1>1, <2>1
  <2>3. NewestDeclaring(k)' = Newest'
      BY <1>1, <2>1, <2>2 DEF NewestDeclaring
  <2>4. \A g \in FieldsOf(Newest)' : g.column = k => g = f
    <3>1. Newest' \in Saved'
        BY <1>1
    <3> QED
        BY <1>3, <3>1 DEF FieldsInv, ColumnsDistinct, FieldsOf
  <2> QED
      BY <1>3, <2>3, <2>4 DEF Declaration
<1>4. ASSUME k \notin ColumnsOf(Newest)'
      PROVE  Declaration(k)' = Declaration(k)
  <2>1. PICK v \in Saved : k \in ColumnsOf(v) /\ \A w \in v + 1..Newest : k \notin ColumnsOf(w)
      BY <1>1, NewestExists
  <2>2. \A u \in Saved : k \in ColumnsOf(u) /\ (\A w \in u + 1..Newest : k \notin ColumnsOf(w))
                           => u = v
      BY <1>1, <2>1
  <2>3. NewestDeclaring(k) = v
      BY <2>1, <2>2 DEF NewestDeclaring
  <2>4. v \in Saved' /\ k \in ColumnsOf(v)'
      BY <1>1, <1>2, <2>1
  <2>5. \A w \in v + 1..Newest' : k \notin ColumnsOf(w)'
    <3>1. v \in 1..Newest
        BY <1>1
    <3>2. \A w \in v + 1..Newest + 1 : w = Newest + 1 \/ (w \in v + 1..Newest /\ w \in 1..Newest)
        BY <1>1, <3>1
    <3> QED
        BY <1>1, <1>2, <1>4, <2>1, <3>2
  <2>6. \A u \in Saved' : k \in ColumnsOf(u)' /\ (\A w \in u + 1..Newest' : k \notin ColumnsOf(w)')
                            => u = v
      BY <1>1, <2>4, <2>5
  <2>7. NewestDeclaring(k)' = v
      BY <2>4, <2>5, <2>6 DEF NewestDeclaring
  <2> QED
      BY <1>2, <2>1, <2>3, <2>7 DEF Declaration
<1> QED
    BY <1>3, <1>4

\* Saving a version that is not breaking changes nothing the view reads in the
\* rows there are, nor the type and scope of a column it had.
LEMMA QuietSave ==
    ASSUME FieldsInv, FieldsInv', Newest # 0, NEW fields, NEW K,
           versions' = Append(versions, [fields |-> fields, identity |-> K,
                                         breaking |-> Breaking(fields)]),
           ~versions'[Newest'].breaking, NEW k \in KnownKeys
    PROVE  /\ \A v \in Saved : ReadsAs(k, v)' = ReadsAs(k, v)
           /\ k \in ColumnsOf(Newest) \/ k \notin ColumnsOf(Newest)'
                => /\ Declaration(k)'.type = Declaration(k).type
                   /\ Declaration(k)'.scope = Declaration(k).scope
<1> DEFINE new == [fields |-> fields, identity |-> K, breaking |-> Breaking(fields)]
<1>1. /\ Newest \in Nat /\ Newest' = Newest + 1
      /\ Saved = 1..Newest /\ Saved' = 1..Newest + 1
      /\ \A v \in Saved : versions'[v] = versions[v]
      /\ versions'[Newest'] = new
    BY DEF FieldsInv, TypeOK, Newest, Saved
<1>2. ASSUME NEW v \in Saved
      PROVE  FieldsOf(v)' = FieldsOf(v) /\ ColumnsOf(v)' = ColumnsOf(v)
  <2>1. FieldsOf(v)' = FieldsOf(v)
      BY <1>1 DEF FieldsOf
  <2> QED
      BY <2>1 DEF ColumnsOf
<1>3. k \in KnownKeys'
    BY <1>1, <1>2 DEF KnownKeys
<1>4. ASSUME NEW v \in Saved
      PROVE  ReadsAs(k, v)' = ReadsAs(k, v)
  <2>1. ReadsAs(k, v) = {f.name : f \in {g \in FieldsOf(v) : g.column = k}}
      BY ReadsOwnAlways DEF ViewReadsOwnField
  <2>2. v \in Saved'
      BY <1>1
  <2>3. ReadsAs(k, v)' = {f.name : f \in {g \in FieldsOf(v)' : g.column = k}}
      BY <1>3, <2>2, ReadsOwnAlways DEF ViewReadsOwnField
  <2> QED
      BY <1>2, <2>1, <2>3
<1>5. ~Breaking(fields) /\ FieldsOf(Newest)' = {fields[i] : i \in DOMAIN fields}
  <2>1. new.breaking = Breaking(fields) /\ new.fields = fields
      OBVIOUS
  <2> HIDE DEF new
  <2> QED
      BY <1>1, <2>1 DEF FieldsOf
<1>6. CASE k \in ColumnsOf(Newest)
  <2>1. PICK old \in FieldsOf(Newest) : old.column = k
      BY <1>6 DEF ColumnsOf
  <2>2. NewestDeclaring(k) = Newest
    <3>1. \A v \in Saved : (\A w \in v + 1..Newest : k \notin ColumnsOf(w)) => v = Newest
        BY <1>1, <1>6
    <3> QED
        BY <1>1, <1>6, <3>1 DEF NewestDeclaring
  <2>3. Declaration(k) \in FieldsOf(Newest) /\ Declaration(k).column = k
      BY <2>1, <2>2 DEF Declaration
  <2>4. PICK i \in DOMAIN fields : /\ fields[i].column = k
                                   /\ fields[i].type = Declaration(k).type
                                   /\ fields[i].scope = Declaration(k).scope
      BY <1>5, <2>3 DEF Breaking
  <2>5. Declaration(k)' = fields[i]
      BY <1>5, <2>4, DeclaredAfter
  <2> QED
      BY <1>4, <2>4, <2>5
<1>7. CASE k \notin ColumnsOf(Newest)
    BY <1>4, <1>7, DeclaredAfter
<1> QED
    BY <1>6, <1>7

\* An edit saved without a decision leaves the view of the rows there are as it
\* is, except for a column it brings back.
THEOREM QuietEditsAreSafe == Spec => QuietEditsKeepTheView
<1> DEFINE Kept == (Newest # 0 /\ Newest' = Newest + 1 /\ ~versions'[Newest'].breaking)
                     => \A k \in KnownKeys :
                          /\ \A v \in Saved : ReadsAs(k, v)' = ReadsAs(k, v)
                          /\ k \in ColumnsOf(Newest) \/ k \notin ColumnsOf(Newest)'
                               => /\ Declaration(k)'.type = Declaration(k).type
                                  /\ Declaration(k)'.scope = Declaration(k).scope
<1>1. ASSUME FieldsInv, FieldsInv', [Next]_vars
      PROVE  Kept
  <2>1. CASE \E asked \in Requests : create_schema_version(asked)
    <3>1. PICK fields, K :
            versions' = Append(versions, [fields |-> fields, identity |-> K,
                                          breaking |-> Breaking(fields)])
        BY <2>1 DEF create_schema_version
    <3> QED
        BY <1>1, <3>1, QuietSave
  <2>2. CASE \E asked \in Requests : create_schema(asked)
      BY <2>2 DEF create_schema, Newest
  <2>3. CASE UNCHANGED versions
      BY <1>1, <2>3 DEF FieldsInv, TypeOK, Newest
  <2> QED
      BY <1>1, <2>1, <2>2, <2>3 DEF Next, StartRun, FinishRun, vars
<1> QED
    BY <1>1, FieldsInvHolds, PTL DEF Spec, QuietEditsKeepTheView

\* A known column has an oldest version that declares it.
LEMMA OldestExists ==
    ASSUME versions \in Seq(Version), NEW k \in KnownKeys
    PROVE  \E v \in Saved : k \in ColumnsOf(v) /\ \A w \in 1..v - 1 : k \notin ColumnsOf(w)
<1> DEFINE T == {v \in Saved : k \in ColumnsOf(v)}
<1>1. Len(versions) \in Nat
    OBVIOUS
<1>2. T \subseteq Nat
    BY <1>1 DEF Saved
<1>3. T # {}
    BY DEF KnownKeys
<1>4. \E v \in T : \A w \in T : ~(<<w, v>> \in OpToRel(<, Nat))
  <2> HIDE DEF T
  <2> QED
      BY <1>2, <1>3, NatLessThanWellFounded, WFMin
<1>5. PICK v \in T : \A w \in T : ~(<<w, v>> \in OpToRel(<, Nat))
    BY <1>4
<1>6. \A w \in T : ~(w < v)
    BY <1>2, <1>5 DEF OpToRel
<1>7. v \in 1..Len(versions)
    BY <1>5 DEF Saved
<1>8. \A w \in 1..v - 1 : w \in Saved /\ w < v
    BY <1>1, <1>7 DEF Saved
<1> QED
    BY <1>5, <1>6, <1>8

\* A new version moves no column, and puts its own to the right.
LEMMA NewVersionAppendsColumns ==
    ASSUME versions \in Seq(Version), NEW new, versions' = Append(versions, new)
    PROVE  /\ \A k, l \in KnownKeys : ColumnBefore(k, l) => ColumnBefore(k, l)'
           /\ \A k \in KnownKeys : \A l \in KnownKeys' \ KnownKeys : ColumnBefore(k, l)'
<1>1. /\ Newest \in Nat
      /\ Newest' = Newest + 1
      /\ \A v \in Saved : versions'[v] = versions[v]
    BY DEF Newest, Saved
<1>2. /\ Saved = 1..Newest
      /\ Saved' = 1..Newest + 1
    BY <1>1 DEF Saved, Newest
<1>3. \A v \in Saved : ColumnsOf(v)' = ColumnsOf(v)
    BY <1>1 DEF ColumnsOf, FieldsOf
<1>4. ASSUME NEW k \in KnownKeys
      PROVE  /\ OldestDeclaring(k) \in Saved
             /\ OldestDeclaring(k)' = OldestDeclaring(k)
             /\ Place(k, OldestDeclaring(k))' = Place(k, OldestDeclaring(k))
  <2>1. PICK v \in Saved : /\ v = OldestDeclaring(k)
                          /\ k \in ColumnsOf(v)
                          /\ \A w \in 1..v - 1 : k \notin ColumnsOf(w)
      BY OldestExists DEF OldestDeclaring
  <2>2. \A u \in 1..v : u \in Saved
      BY <1>1, <1>2, <2>1
  <2>3. /\ v \in Saved'
        /\ k \in ColumnsOf(v)'
        /\ \A w \in 1..v - 1 : k \notin ColumnsOf(w)'
      BY <1>1, <1>2, <1>3, <2>1, <2>2
  <2>4. ASSUME NEW u \in Saved', k \in ColumnsOf(u)',
               \A w \in 1..u - 1 : k \notin ColumnsOf(w)'
        PROVE  u = v
      BY <1>1, <1>2, <2>1, <2>3, <2>4
  <2>5. OldestDeclaring(k)' = v
      BY <2>3, <2>4 DEF OldestDeclaring
  <2>6. Place(k, v)' = Place(k, v)
      BY <1>1, <2>1 DEF Place
  <2> QED
      BY <2>1, <2>5, <2>6
<1>5. ASSUME NEW l \in KnownKeys' \ KnownKeys
      PROVE  OldestDeclaring(l)' = Newest + 1
  <2>1. \A u \in Saved : l \notin ColumnsOf(u)'
      BY <1>3, <1>5 DEF KnownKeys
  <2>2. PICK u \in Saved' : l \in ColumnsOf(u)'
      BY <1>5 DEF KnownKeys
  <2>3. u = Newest + 1
      BY <1>1, <1>2, <2>1, <2>2
  <2>4. \A w \in 1..u - 1 : l \notin ColumnsOf(w)'
      BY <1>1, <1>2, <2>1, <2>3
  <2>5. \A w \in Saved' : l \in ColumnsOf(w)' => w = u
      BY <1>1, <1>2, <2>1, <2>3
  <2>6. OldestDeclaring(l)' = u
      BY <2>2, <2>4, <2>5 DEF OldestDeclaring
  <2> QED
      BY <2>3, <2>6
<1>6. ASSUME NEW k \in KnownKeys, NEW l \in KnownKeys, ColumnBefore(k, l)
      PROVE  ColumnBefore(k, l)'
    BY <1>4, <1>6 DEF ColumnBefore
<1>7. ASSUME NEW k \in KnownKeys, NEW l \in KnownKeys' \ KnownKeys
      PROVE  ColumnBefore(k, l)'
    BY <1>1, <1>2, <1>4, <1>5 DEF ColumnBefore
<1> QED
    BY <1>6, <1>7

\* The columns a consumer of the view sees stay where they were.
THEOREM ColumnsAreStable == Spec => ColumnsKeepTheirPlaces
<1> DEFINE Stable ==
        /\ \A k, l \in KnownKeys : ColumnBefore(k, l) => ColumnBefore(k, l)'
        /\ \A k \in KnownKeys : \A l \in KnownKeys' \ KnownKeys : ColumnBefore(k, l)'
<1>1. ASSUME FieldsInv, [Next]_vars
      PROVE  Stable \/ UNCHANGED vars
  <2>1. versions \in Seq(Version)
      BY <1>1 DEF FieldsInv, TypeOK
  <2>2. CASE \E asked \in Requests : create_schema_version(asked)
    <3>1. PICK new : versions' = Append(versions, new)
        BY <2>2 DEF create_schema_version
    <3> QED
        BY <2>1, <3>1, NewVersionAppendsColumns
  <2>3. CASE \E asked \in Requests : create_schema(asked)
    <3>1. versions = <<>>
        BY <2>3 DEF create_schema
    <3>2. KnownKeys = {}
        BY <3>1 DEF KnownKeys, Saved
    <3> QED
        BY <3>2
  <2>4. CASE UNCHANGED versions
    <3>1. KnownKeys' = KnownKeys
        BY <2>4 DEF KnownKeys, Saved, ColumnsOf, FieldsOf
    <3>2. \A k, l : ColumnBefore(k, l)' = ColumnBefore(k, l)
        BY <2>4 DEF ColumnBefore, OldestDeclaring, Place, Saved, ColumnsOf, FieldsOf
    <3> QED
        BY <3>1, <3>2
  <2> QED
      BY <1>1, <2>2, <2>3, <2>4 DEF Next, StartRun, FinishRun, vars
<1> QED
    BY <1>1, FieldsInvHolds, PTL DEF Spec, ColumnsKeepTheirPlaces
=============================================================================
