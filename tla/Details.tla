-------------------------------- MODULE Details --------------------------------
(***************************************************************************)
(* PATCH of the name and the metadata of a ledger, an account or a         *)
(* category, and of a monitor, which has no name: one row that is read for *)
(* update, changed and written back in one transaction.  A description is  *)
(* changed like a name, and so is the name of an account, but both may be  *)
(* empty.                                                                  *)
(*                                                                         *)
(* An object of JSON is a function on Fields, Absent where it has no such  *)
(* member; members are values that are replaced as a whole or objects of   *)
(* such values.  In a patch, a member may also be Null.                    *)
(***************************************************************************)
EXTENDS Integers, Sequences, FiniteSets

CONSTANTS
    Fields,       \* names of members
    Scalars,      \* strings, numbers and arrays
    Absent, Null,
    Patchers,     \* calls of PATCH
    Patches,      \* what they may send: [name, metadata]
    MaxMembers,   \* stands for maxMetadataBytes
    MaxTries      \* attempts of a call, the repetitions of its client included

IsObject(v) == v \notin Scalars \cup {Absent, Null}

\* Objects of values, as a member of a patch may be.
Objects == [Fields -> Scalars \cup {Absent, Null}]

ASSUME DetailsAssumption ==
    /\ MaxMembers \in Nat /\ MaxTries \in Nat \ {0}
    /\ {Absent, Null} \cap Scalars = {} /\ Absent # Null
    /\ \A v \in Objects : IsObject(v)
    /\ \A p \in Patches : p.metadata \in {Absent, Null} \cup [Fields -> Scalars \cup {Absent, Null} \cup Objects]

VARIABLES
    details,   \* the row: [name, metadata, version]
    patching,  \* call -> [step, patch, read, tries]
    merged     \* history: the patches that were committed, in their order

detailVars == <<details, patching, merged>>

NoPatch == [name |-> Absent, metadata |-> Absent]
NoMembers == [f \in Fields |-> Absent]
NoDetails == [name |-> "first", metadata |-> NoMembers, version |-> 0]

-------------------------------------------------------------------------------
(***************************************************************************)
(* applyUpdate.                                                            *)
(***************************************************************************)

\* mergePatch one level down, where nothing is an object.
MergeMembers(target, patch) ==
    [f \in Fields |-> IF patch[f] = Null THEN Absent ELSE IF patch[f] = Absent THEN target[f] ELSE patch[f]]

MergePatch(target, patch) ==
    [f \in Fields |->
        IF IsObject(patch[f])
        THEN MergeMembers(IF IsObject(target[f]) THEN target[f] ELSE NoMembers, patch[f])
        ELSE MergeMembers(target, patch)[f]]

Updated(row, p) ==
    [row EXCEPT !.name = IF p.name = Absent THEN @ ELSE p.name,
                !.metadata = IF p.metadata = Absent THEN @
                             ELSE IF p.metadata = Null THEN NoMembers ELSE MergePatch(@, p.metadata)]

Members(metadata) ==
    {f \in Fields : metadata[f] \in Scalars} \cup
    {x \in Fields \X Fields : IsObject(metadata[x[1]]) /\ metadata[x[1]][x[2]] # Absent}

\* validateDetails looks at what the patch would make of the row.
Valid(row) == row.name # "" /\ Cardinality(Members(row.metadata)) <= MaxMembers

SameDetails(row, next) == row.name = next.name /\ row.metadata = next.metadata

-------------------------------------------------------------------------------
(***************************************************************************)
(* updateLedger, updateAccount, updateCategory, updateMonitor.             *)
(***************************************************************************)

\* Mutant: without FOR UPDATE.
DetailsFreeAlways == TRUE

DetailsFree == \A u \in Patchers : patching[u].step # "locked"

\* SELECT ... FOR UPDATE.  A call that is tried again sends what it sent.
LockDetails(u, p) ==
    /\ patching[u].step = "new"
    /\ patching[u].patch \in {NoPatch, p}
    /\ patching[u].tries < MaxTries
    /\ DetailsFree
    /\ patching' = [patching EXCEPT ![u] = [step |-> "locked", patch |-> p, read |-> details, tries |-> @.tries + 1]]
    /\ UNCHANGED <<details, merged>>

\* A patch that changes nothing is answered, and nothing is written.
WriteDetails(u, step) ==
    LET p    == patching[u].patch
        row  == patching[u].read
        next == Updated(row, p)
    IN  /\ patching[u].step = "locked"
        /\ Valid(next)
        /\ details' = IF SameDetails(row, next) THEN details ELSE [next EXCEPT !.version = details.version + 1]
        /\ merged' = Append(merged, p)
        /\ patching' = [patching EXCEPT ![u].step = step, ![u].read = NoDetails]

RefusePatch(u) ==
    /\ patching[u].step = "locked"
    /\ ~Valid(Updated(patching[u].read, patching[u].patch))
    /\ patching' = [patching EXCEPT ![u].step = "refused", ![u].read = NoDetails]
    /\ UNCHANGED <<details, merged>>

\* The transaction fails; RunTx or the client tries again.
AbortPatch(u) ==
    /\ patching[u].step = "locked"
    /\ patching' = [patching EXCEPT ![u].step = "new", ![u].read = NoDetails]
    /\ UNCHANGED <<details, merged>>

DetailsInit ==
    /\ details = NoDetails
    /\ patching = [u \in Patchers |-> [step |-> "new", patch |-> NoPatch, read |-> NoDetails, tries |-> 0]]
    /\ merged = <<>>

\* The answer to a commit may be lost, and the client sends its patch again.
DetailsStep ==
    \E u \in Patchers :
        \/ \E p \in Patches : LockDetails(u, p)
        \/ \E step \in {"done", "new"} : WriteDetails(u, step)
        \/ RefusePatch(u) \/ AbortPatch(u)

-------------------------------------------------------------------------------
(***************************************************************************)
(* Properties.                                                             *)
(***************************************************************************)

Latest(S) == CHOOSE i \in S \cup {0} : \A j \in S : j <= i

\* What the first n patches say of the name: the last one that speaks of it decides.
NameAfter(n) ==
    LET i == Latest({j \in 1 .. n : merged[j].name # Absent}) IN IF i = 0 THEN "first" ELSE merged[i].name

\* Patches that leave nothing of what the member f was, and later ones that speak of parts of it.
Replaces(f, n) ==
    {j \in 1 .. n : merged[j].metadata # Absent /\
        (merged[j].metadata = Null \/ (merged[j].metadata[f] # Absent /\ ~IsObject(merged[j].metadata[f])))}
Extends(f, from, n) ==
    {j \in from + 1 .. n : merged[j].metadata \notin {Absent, Null} /\ merged[j].metadata[f] # Absent}

Since(f, n) == Latest(Replaces(f, n))
Parts(f, n) == Extends(f, Since(f, n), n)

WholeAfter(f, n) ==
    LET i == Since(f, n)
    IN  IF i = 0 \/ merged[i].metadata = Null \/ merged[i].metadata[f] = Null THEN Absent ELSE merged[i].metadata[f]

PartAfter(f, g, n) ==
    LET j == Latest({k \in Parts(f, n) : merged[k].metadata[f][g] # Absent})
    IN  IF j = 0 \/ merged[j].metadata[f][g] = Null THEN Absent ELSE merged[j].metadata[f][g]

MemberAfter(f, n) == IF Parts(f, n) = {} THEN WholeAfter(f, n) ELSE [g \in Fields |-> PartAfter(f, g, n)]

DetailsAfter(n) == <<NameAfter(n), [f \in Fields |-> MemberAfter(f, n)]>>

\* The row is what the patches that were accepted say, each member by the last one that
\* speaks of it, and its version counts the patches that changed it, whatever calls run
\* at the same time or are repeated after a lost answer (updateLedger, mergePatch).
NoUpdateLost ==
    LET n == Len(merged)
    IN  /\ <<details.name, details.metadata>> = DetailsAfter(n)
        /\ details.version = Cardinality({i \in 1 .. n : DetailsAfter(i) # DetailsAfter(i - 1)})
===============================================================================
