------------------------------ MODULE Categories ------------------------------
(***************************************************************************)
(* internal/modules/ledger/categories.go: categories of accounts, nested   *)
(* in each other.  A change of the graph locks the row of the ledger, then *)
(* reads what its checks need and writes, all in one READ COMMITTED        *)
(* transaction; calls change the graph at the same time.                   *)
(***************************************************************************)
EXTENDS Integers, FiniteSets, FiniteSetsExt

CONSTANTS
    Categories,
    Wallets,        \* accounts
    LedgerOf,       \* category or account -> its ledger
    CurrencyOf,     \* category or account -> its currency
    BalanceOf,      \* account -> its posted balance
    Editors,        \* calls that may be under way at one time
    NoCategory,
    MaxDepth,       \* maxCategoryDepth
    MaxChanges      \* bound on calls

ASSUME CategoriesAssumption ==
    /\ IsFiniteSet(Categories) /\ NoCategory \notin Categories
    /\ Categories \cap Wallets = {}
    /\ MaxDepth \in Nat \ {0} /\ MaxChanges \in Nat

VARIABLES
    category,   \* category -> "new", "live" or "deleted"
    edges,      \* ledger_category_edges: <<parent, child>>
    members,    \* ledger_category_accounts: <<category, account>>
    edit,       \* call -> [step, op, on, with]
    changes     \* calls so far

categoryVars == <<category, edges, members, edit, changes>>

Idle == [step |-> "idle", op |-> "none", on |-> NoCategory, with |-> NoCategory]

Live == {c \in Categories : category[c] = "live"}

SameKind(x, y) == LedgerOf[x] = LedgerOf[y] /\ CurrencyOf[x] = CurrencyOf[y]

\* What a call may ask for: setChild, setMember and deleteCategory.
Requests ==
    [op : {"nest", "unnest"}, on : Categories, with : Categories]
        \cup [op : {"join", "leave"}, on : Categories, with : Wallets]
        \cup [op : {"delete"}, on : Categories, with : {NoCategory}]

-------------------------------------------------------------------------------

CreateCategory(c) ==
    /\ category[c] = "new"
    /\ category' = [category EXCEPT ![c] = "live"]
    /\ UNCHANGED <<edges, members, edit, changes>>

\* changeGraph, up to its lock: a category that is not there is an error.
FindCategory(e, r) ==
    /\ edit[e] = Idle
    /\ changes < MaxChanges
    /\ r.on \in Live
    /\ edit' = [edit EXCEPT ![e] = [step |-> "found", op |-> r.op, on |-> r.on, with |-> r.with]]
    /\ changes' = changes + 1
    /\ UNCHANGED <<category, edges, members>>

\* Mutant: the row of the ledger is not locked.
LedgerFreeAlways(e) == TRUE

\* SELECT ... FROM ledger_ledgers ... FOR NO KEY UPDATE, to the end of the transaction.
LedgerFree(e) ==
    \A f \in Editors \ {e} :
        edit[f].step \in {"locked", "checked"} => LedgerOf[edit[f].on] # LedgerOf[edit[e].on]

LockLedger(e) ==
    /\ edit[e].step = "found"
    /\ LedgerFree(e)
    /\ edit' = [edit EXCEPT ![e].step = "locked"]
    /\ UNCHANGED <<category, edges, members, changes>>

\* The categories n - 1 steps up or down from c: the rows of up and down with depth n.
Up(c) ==
    LET up[n \in 1 .. MaxDepth + 1] ==
            IF n = 1 THEN {c} ELSE {e[1] : e \in {d \in edges : d[2] \in up[n - 1]}}
    IN  up

Down(c) ==
    LET down[n \in 1 .. MaxDepth + 1] ==
            IF n = 1 THEN {c} ELSE {e[2] : e \in {d \in edges : d[1] \in down[n - 1]}}
    IN  down

Deepest(levels) == Max({n \in 1 .. MaxDepth + 1 : levels[n] # {}})

\* What setChild and setMember require of the graph they read.
Permitted(op, c, x) ==
    CASE op = "nest" ->
            /\ x \in Live /\ SameKind(c, x)
            /\ \A n \in 1 .. MaxDepth + 1 : c \notin Down(x)[n]
            /\ Deepest(Up(c)) + Deepest(Down(x)) <= MaxDepth
      [] op = "join" -> SameKind(c, x)
      [] OTHER -> TRUE

\* The category is read again, and the checks are made.
Check(e) ==
    /\ edit[e].step = "locked"
    /\ edit' = [edit EXCEPT ![e] =
            IF edit[e].on \in Live /\ Permitted(edit[e].op, edit[e].on, edit[e].with)
            THEN [edit[e] EXCEPT !.step = "checked"] ELSE Idle]
    /\ UNCHANGED <<category, edges, members, changes>>

\* The write and the commit.  Rows of a deleted category go with it (ON DELETE CASCADE).
Apply(e) ==
    LET op == edit[e].op
        c == edit[e].on
        x == edit[e].with
    IN  /\ edit[e].step = "checked"
        /\ edges' = CASE op = "nest" -> edges \cup {<<c, x>>}
                      [] op = "unnest" -> edges \ {<<c, x>>}
                      [] op = "delete" -> {d \in edges : c \notin {d[1], d[2]}}
                      [] OTHER -> edges
        /\ members' = CASE op = "join" -> members \cup {<<c, x>>}
                        [] op = "leave" -> members \ {<<c, x>>}
                        [] op = "delete" -> {m \in members : m[1] # c}
                        [] OTHER -> members
        /\ category' = IF op = "delete" THEN [category EXCEPT ![c] = "deleted"] ELSE category
        /\ edit' = [edit EXCEPT ![e] = Idle]
        /\ UNCHANGED changes

CategoriesInit ==
    /\ category = [c \in Categories |-> "new"]
    /\ edges = {}
    /\ members = {}
    /\ edit = [e \in Editors |-> Idle]
    /\ changes = 0

CategoriesStep ==
    \/ \E c \in Categories : CreateCategory(c)
    \/ \E e \in Editors, r \in Requests : FindCategory(e, r)
    \/ \E e \in Editors : LockLedger(e) \/ Check(e) \/ Apply(e)

-------------------------------------------------------------------------------
(***************************************************************************)
(* rollUp.                                                                 *)
(***************************************************************************)

\* The categories in c: tree of categoryMembers, with UNION.
Tree(c) ==
    LET tree[n \in 0 .. Cardinality(Categories)] ==
            IF n = 0 THEN {c} ELSE tree[n - 1] \cup {e[2] : e \in {d \in edges : d[1] \in tree[n - 1]}}
    IN  tree[Cardinality(Categories)]

\* Mutant: without DISTINCT an account is added once for every category it is in.
RollUpPerMembership(c) ==
    MapThenSumSet(LAMBDA m : BalanceOf[m[2]], {m \in members : m[1] \in Tree(c)})

RollUp(c) == MapThenSumSet(LAMBDA a : BalanceOf[a], {m[2] : m \in {x \in members : x[1] \in Tree(c)}})

-------------------------------------------------------------------------------

\* Whatever calls run at the same time, the categories of a ledger can be put on
\* MaxDepth levels with every child below its parents: there is no cycle and no longer
\* chain.  Only what is live and of one ledger and currency is linked (setChild, setMember).
GraphIsSound ==
    /\ \E level \in [Categories -> 1 .. MaxDepth] : \A e \in edges : level[e[1]] < level[e[2]]
    /\ \A e \in edges : {e[1], e[2]} \subseteq Live /\ SameKind(e[1], e[2])
    /\ \A m \in members : m[1] \in Live /\ SameKind(m[1], m[2])

\* An account counts once in a category, by whichever branches it is reached: it counts
\* if every set of categories that holds the category and its members' children also
\* holds one the account is in (rollUp).
RollUpCountsOnce ==
    \A c \in Live :
        LET closed == {S \in SUBSET Categories : c \in S /\ \A e \in edges : e[1] \in S => e[2] \in S}
            counted == {a \in Wallets : \A S \in closed : \E d \in S : <<d, a>> \in members}
        IN  RollUp(c) = MapThenSumSet(LAMBDA a : BalanceOf[a], counted)
===============================================================================
