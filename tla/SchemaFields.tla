---------------------------- MODULE SchemaFields ----------------------------
(***************************************************************************)
(* The fields of one schema over its versions: the column key each field   *)
(* is given when a version is saved (schema_fields.py), the column that    *)
(* key becomes in the generated view (views.py), and the name under which  *)
(* the dedup matcher looks for an identity field (extract.py).             *)
(*                                                                         *)
(* Records are stored under the names of the version they were extracted   *)
(* for and are never rewritten, so a column must be read under another     *)
(* name in the rows of another version.  Which name, and so whose value,   *)
(* is what this module is about; values are left out.                      *)
(*                                                                         *)
(* Saving is one step: of two saves that overlap, the unique constraint on *)
(* (schema_id, version) lets one commit.                                   *)
(***************************************************************************)
EXTENDS Naturals, Sequences, FiniteSets

CONSTANTS
    Names,          \* field names
    Types,          \* field types
    Keys,           \* column keys
    MaxFields,      \* bound: fields of a version
    MaxIdentity,    \* bound: identity fields of a version
    MaxVersions     \* bound

NoKey == "no key"

ASSUME ConstantsAssumption ==
    /\ NoKey \notin Keys
    /\ MaxFields \in Nat /\ MaxIdentity \in Nat /\ MaxVersions \in Nat

VARIABLES
    versions,   \* schema_versions of the lineage, oldest first
    pinned      \* the version a pipeline run extracts for; 0: no run

vars == <<versions, pinned>>

Scope == {"document", "row"}
Field == [name : Names, type : Types, scope : Scope, column : Keys]
Version == [fields : Seq(Field), identity : SUBSET Keys, breaking : BOOLEAN]

Saved == 1..Len(versions)
Newest == Len(versions)

FieldsOf(v) == {versions[v].fields[i] : i \in DOMAIN versions[v].fields}

\* Version v stores the field of column k under name n.
Declares(v, k, n) == \E f \in FieldsOf(v) : f.column = k /\ f.name = n

ColumnsOf(v) == {f.column : f \in FieldsOf(v)}
KnownKeys == UNION {ColumnsOf(v) : v \in Saved}
NamesOf(k) == {f.name : f \in {g \in UNION {FieldsOf(v) : v \in Saved} : g.column = k}}
OwnersOf(n) == {f.column : f \in {g \in UNION {FieldsOf(v) : v \in Saved} : g.name = n}}

TypeOK ==
    /\ versions \in Seq(Version)
    /\ pinned \in 0..Len(versions)

Init ==
    /\ versions = <<>>
    /\ pinned = 0

-----------------------------------------------------------------------------
(* Column keys *)

Asked == [name : Names, type : Types, scope : Scope, column : Keys \cup {NoKey}]
Requests == UNION {[1..n -> Asked] : n \in 0..MaxFields}

\* The keys a request supplies; a new lineage trusts none.
Supplied(asked, i) == IF versions = <<>> THEN NoKey ELSE asked[i].column
SuppliedKeys(asked) == {Supplied(asked, i) : i \in DOMAIN asked} \ {NoKey}

\* Names are distinct, and so are the keys supplied, which the lineage knows.
ValidRequest(asked) ==
    /\ \A i, j \in DOMAIN asked : asked[i].name = asked[j].name => i = j
    /\ \A i, j \in DOMAIN asked :
         Supplied(asked, i) = Supplied(asked, j) /\ i # j => Supplied(asked, i) = NoKey
    /\ SuppliedKeys(asked) \subseteq KnownKeys

\* name_to_key: the key of the newest version that has the name, if any.
lineage_name_map(n) ==
    {k \in KnownKeys : \E v \in Saved :
        /\ Declares(v, k, n)
        /\ \A w \in v + 1..Newest, l \in KnownKeys : ~Declares(w, l, n)}

\* Keys claimed in this request before field i is resolved.
Used(asked, column, i) == SuppliedKeys(asked) \cup {column[j] : j \in 1..i - 1}

\* Mutant: a name may claim a key that another field of the request supplied.
ResolvedIgnoringUsed(asked, column, i) ==
    LET match == lineage_name_map(asked[i].name) IN
    IF Supplied(asked, i) # NoKey THEN column[i] = Supplied(asked, i)
    ELSE IF match # {} THEN column[i] \in match
    ELSE column[i] \notin KnownKeys \cup Used(asked, column, i)

\* The key supplied, or the one that goes with the name unless it is taken, or
\* a new one.
Resolved(asked, column, i) ==
    LET used == Used(asked, column, i)
        match == lineage_name_map(asked[i].name) \ used
    IN IF Supplied(asked, i) # NoKey THEN column[i] = Supplied(asked, i)
       ELSE IF match # {} THEN column[i] \in match
       ELSE column[i] \notin KnownKeys \cup used

assign_column_keys(asked) ==
    {[i \in DOMAIN asked |-> [asked[i] EXCEPT !.column = column[i]]] :
        column \in {c \in [DOMAIN asked -> Keys] :
                      \A i \in DOMAIN asked : Resolved(asked, c, i)}}

\* Identity fields are named in the request and stored as keys; a field that
\* repeats in a document cannot identify it.
IdentityChoices(fields) ==
    {K \in SUBSET {fields[i].column : i \in {j \in DOMAIN fields : fields[j].scope = "document"}} :
        Cardinality(K) <= MaxIdentity}

\* Mutant: fields are matched by name.
BreakingByName(fields) ==
    \E old \in FieldsOf(Newest) :
      ~\E i \in DOMAIN fields : /\ fields[i].name = old.name
                                /\ fields[i].type = old.type
                                /\ fields[i].scope = old.scope

\* A column of the newest version is dropped, retyped or rescoped.
Breaking(fields) ==
    \E old \in FieldsOf(Newest) :
      ~\E i \in DOMAIN fields : /\ fields[i].column = old.column
                                /\ fields[i].type = old.type
                                /\ fields[i].scope = old.scope

create_schema(asked) ==
    /\ versions = <<>>
    /\ ValidRequest(asked)
    /\ \E fields \in assign_column_keys(asked) : \E K \in IdentityChoices(fields) :
         versions' = <<[fields |-> fields, identity |-> K, breaking |-> FALSE]>>
    /\ UNCHANGED pinned

create_schema_version(asked) ==
    /\ versions # <<>>
    /\ Newest < MaxVersions
    /\ ValidRequest(asked)
    /\ \E fields \in assign_column_keys(asked) : \E K \in IdentityChoices(fields) :
         versions' = Append(versions, [fields |-> fields, identity |-> K,
                                       breaking |-> Breaking(fields)])
    /\ UNCHANGED pinned

-----------------------------------------------------------------------------
(* The view *)

\* Mutant: "only one historical name, so read it directly".
PlainIfOneName(k) ==
    \E n \in NamesOf(k) :
      /\ NamesOf(k) = {n}
      /\ \A v \in Saved : \E l \in OwnersOf(n) : Declares(v, l, n)

\* The value can be read under the one name whatever the row's version.
_plain_is_safe(k) ==
    \E n \in NamesOf(k) :
      /\ NamesOf(k) = {n}
      /\ OwnersOf(n) = {k}
      /\ \A v \in Saved : \E l \in OwnersOf(n) : Declares(v, l, n)

\* The names under which column k is looked for in a row of version v.
ReadsAs(k, v) ==
    IF _plain_is_safe(k) THEN NamesOf(k) ELSE {n \in NamesOf(k) : Declares(v, k, n)}

\* The declaration a column takes its name, type and scope from.
NewestDeclaring(k) ==
    CHOOSE v \in Saved : k \in ColumnsOf(v) /\ \A w \in v + 1..Newest : k \notin ColumnsOf(w)
OldestDeclaring(k) ==
    CHOOSE v \in Saved : k \in ColumnsOf(v) /\ \A w \in 1..v - 1 : k \notin ColumnsOf(w)

Declaration(k) == CHOOSE f \in FieldsOf(NewestDeclaring(k)) : f.column = k

Place(k, v) == CHOOSE i \in DOMAIN versions[v].fields : versions[v].fields[i].column = k

\* Mutant: columns in the order of their newest declarations.
ColumnBeforeByNewest(k, l) ==
    LET v == NewestDeclaring(k)  w == NewestDeclaring(l)
    IN v < w \/ (v = w /\ Place(k, v) < Place(l, w))

\* Columns stand in the order in which they were first seen.
ColumnBefore(k, l) ==
    LET v == OldestDeclaring(k)  w == OldestDeclaring(l)
    IN v < w \/ (v = w /\ Place(k, v) < Place(l, w))

-----------------------------------------------------------------------------
(* Deduplication *)

\* A run resolves the version it extracts for: the one its document points at,
\* whichever was current when it was filed, or else the newest.  The model
\* calls follow.
StartRun ==
    /\ pinned = 0
    /\ pinned' \in Saved
    /\ UNCHANGED versions

\* The payload is searched and the run is over.
FinishRun ==
    /\ pinned # 0
    /\ pinned' = 0
    /\ UNCHANGED versions

\* The fields of the payload whose value is taken for identity field k: a
\* payload is keyed by the names of its own version, and the matcher reads it
\* under the name of the newest declaration.
PayloadFields(k) == {f.column : f \in {g \in FieldsOf(pinned) : g.name = Declaration(k).name}}

\* Mutant: records are read under the newest name.
RecordFieldsByNewestName(k, v) ==
    {f.column : f \in {g \in FieldsOf(v) : g.name = Declaration(k).name}}

\* The fields of a record of version v it is compared with.
RecordFields(k, v) == {f.column : f \in {g \in FieldsOf(v) : g.name \in ReadsAs(k, v)}}

-----------------------------------------------------------------------------
Next ==
    \/ \E asked \in Requests : create_schema(asked) \/ create_schema_version(asked)
    \/ StartRun
    \/ FinishRun

Spec == Init /\ [][Next]_vars

-----------------------------------------------------------------------------
(* Properties *)

\* No two fields of a version share a column, whatever was renamed, dropped,
\* added again or supplied.
ColumnsDistinct ==
    \A v \in Saved : \A i, j \in DOMAIN versions[v].fields :
      versions[v].fields[i].column = versions[v].fields[j].column => i = j

\* No two fields of a version share a name.
NamesDistinct ==
    \A v \in Saved : \A i, j \in DOMAIN versions[v].fields :
      versions[v].fields[i].name = versions[v].fields[j].name => i = j

\* In a row of any version a column reads the name its own field had then, and
\* nothing where the version did not declare it: not what another field, or the
\* reviewer, put under a name it has at some other time.
ViewReadsOwnField ==
    \A v \in Saved : \A k \in KnownKeys :
      ReadsAs(k, v) = {f.name : f \in {g \in FieldsOf(v) : g.column = k}}

\* An edit that asks for no decision leaves the view of the rows there are as
\* it is: every column reads the same names in rows of every version and keeps
\* its type, and what one document produces keeps its scope.  Not so for a
\* column the newest version had dropped, when its name is added again with
\* another type: that edit counts as an addition too.
QuietEditsKeepTheView ==
    [][(Newest # 0 /\ Newest' = Newest + 1 /\ ~versions'[Newest'].breaking)
         => \A k \in KnownKeys :
              /\ \A v \in Saved : ReadsAs(k, v)' = ReadsAs(k, v)
              /\ k \in ColumnsOf(Newest) \/ k \notin ColumnsOf(Newest)'
                   => /\ Declaration(k)'.type = Declaration(k).type
                      /\ Declaration(k)'.scope = Declaration(k).scope]_vars

\* Columns are only ever added, on the right.
ColumnsKeepTheirPlaces ==
    [][/\ \A k, l \in KnownKeys : ColumnBefore(k, l) => ColumnBefore(k, l)'
       /\ \A k \in KnownKeys : \A l \in KnownKeys' \ KnownKeys : ColumnBefore(k, l)']_vars

\* What the dedup matcher compares for an identity field is that field, in the
\* payload and in every record.  Not so for a payload of an older version.
DedupComparesTheField ==
    pinned # 0 => \A k \in versions[pinned].identity :
        /\ PayloadFields(k) = {k}
        /\ \A v \in Saved : RecordFields(k, v) \subseteq {k}

\* It holds for payloads of the newest version, whatever versions the records
\* are of and however the field was renamed.
DedupComparesTheFieldNow == pinned = Newest => DedupComparesTheField
=============================================================================
