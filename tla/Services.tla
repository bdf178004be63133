------------------------------- MODULE Services -------------------------------
(***************************************************************************)
(* Services beside the single transaction of LedgerCore, in one            *)
(* specification: settlements and statements, which read the entries that  *)
(* are posted in the meantime, categories, API keys, batches of postings   *)
(* and the monitors that watch them, the PATCH of details, and amounts.    *)
(* None writes what another reads, so a behaviour follows one of them,     *)
(* chosen at the start: interleaving two would reach no other state of     *)
(* either.                                                                 *)
(***************************************************************************)
EXTENDS Settlements, Statements, Categories, ApiKeys, Monitors, Details, Money

VARIABLE part   \* the service that is followed

vars ==
    <<part, historyVars, settleVars, statementVars, categoryVars, keyVars, monitorVars, detailVars, operands>>

Init ==
    /\ part \in {"settlements", "statements", "categories", "keys", "monitors", "details", "money"}
    /\ HistoryInit
    /\ SettlementsInit
    /\ StatementsInit
    /\ CategoriesInit
    /\ ApiKeysInit
    /\ MonitorsInit
    /\ DetailsInit
    /\ MoneyInit

SettlementsNext ==
    /\ part = "settlements"
    /\ (\E c \in Settles : SettleStep(c)) \/ (\E p \in Posts : PostMeanwhile(p))
    /\ UNCHANGED <<part, statementVars, categoryVars, keyVars, monitorVars, detailVars, operands>>

StatementsNext ==
    /\ part = "statements"
    /\ (\E s \in Statements : StatementStep(s)) \/ (\E p \in Posts : PostNumbered(p))
    /\ UNCHANGED <<part, settleVars, categoryVars, keyVars, monitorVars, detailVars, operands>>

CategoriesNext ==
    /\ part = "categories"
    /\ CategoriesStep
    /\ UNCHANGED <<part, historyVars, settleVars, statementVars, keyVars, monitorVars, detailVars, operands>>

ApiKeysNext ==
    /\ part = "keys"
    /\ ApiKeysStep
    /\ UNCHANGED <<part, historyVars, settleVars, statementVars, categoryVars, monitorVars, detailVars, operands>>

MonitorsNext ==
    /\ part = "monitors"
    /\ MonitorsStep
    /\ UNCHANGED <<part, historyVars, settleVars, statementVars, categoryVars, keyVars, detailVars, operands>>

DetailsNext ==
    /\ part = "details"
    /\ DetailsStep
    /\ UNCHANGED <<part, historyVars, settleVars, statementVars, categoryVars, keyVars, monitorVars, operands>>

MoneyNext ==
    /\ part = "money"
    /\ MoneyStep
    /\ UNCHANGED <<part, historyVars, settleVars, statementVars, categoryVars, keyVars, monitorVars, detailVars>>

Next ==
    \/ SettlementsNext \/ StatementsNext \/ CategoriesNext \/ ApiKeysNext
    \/ MonitorsNext \/ DetailsNext \/ MoneyNext

Spec == Init /\ [][Next]_vars
===============================================================================
