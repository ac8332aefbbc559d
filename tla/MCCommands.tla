----------------------------- MODULE MCCommands -----------------------------
(***************************************************************************)
(* The clients of the journal, the wallets' own transfers, the owners'     *)
(* order intents, the evidence files and the archive of former holders,    *)
(* for TLC.  subject says which of them lives in a behaviour: one run      *)
(* checks them all under one set of variables.                             *)
(***************************************************************************)
EXTENDS JournalClient, FiniteSets, TLC

CONSTANTS
    Subjects,   \* the clients to check
    MaxTotal, MaxRetries,
    Coins, Tokens, Elsewhere, NonceOf, Funds, MaxSyncs,   \* of the wallet
    Submissions, Cancels, Modifies, OrderOf, MaxChallenges,
    Documents, MaxCopies,
    Members, MaxValue, MaxTransfers, MaxDay, Retention

VARIABLES
    subject,    \* which client this behaviour is about
    row,        \* its command rows
    target,     \* the database row the commands change
    contract    \* the contract behind it

vars == <<subject, row, target, contract, operation, worker>>

Pause == INSTANCE PauseChange WITH change <- row, token <- target
NAV == INSTANCE NAVUpdate WITH update <- row, token <- target
Capital == INSTANCE CapitalIncrease WITH increase <- row, token <- target
Mint == INSTANCE MintRequest WITH request <- row
Deploy == INSTANCE TokenDeployment WITH deployment <- row, token <- target
Approval == INSTANCE SwapApproval WITH approval <- row
Whitelist == INSTANCE WhitelistChange WITH change <- row, entry <- target
Wallet == INSTANCE WalletTransfers WITH tx <- row, holding <- target, chain <- contract
Intents == INSTANCE OrderIntents WITH
    intent <- row, order <- target, challenge <- contract, session <- worker
Evidence == INSTANCE EvidenceFiles WITH
    document <- row, claim <- target, storage <- contract
Holders == INSTANCE FormerHolders WITH archive <- row, chain <- contract

Clients ==
    {"pause", "nav", "capital", "mint", "deploy", "approval", "whitelist",
     "wallet", "orders", "files", "holders"}

ASSUME SubjectAssumption ==
    /\ Subjects \subseteq Clients
    /\ Wallet!TransferAssumption /\ Intents!IntentAssumption
    /\ Evidence!FileAssumption /\ Holders!HolderAssumption /\ Capital!TotalAssumption

\* One transfer of each asset, signed in that order; the coin pays one of them
\* in full or the fees of both.
InOrder == [t \in Coins \cup Tokens |-> IF t \in Coins THEN 0 ELSE 1]
Purse == [coin |-> 2, token |-> 1]

\* One order with its actions.
OfTheOne == [a \in Cancels \cup Modifies |-> CHOOSE s \in Submissions : TRUE]

\* Rows that have nothing in common are checked one at a time.
OneOf(r, absent) == Cardinality({c \in Commands : r[c] # absent}) = 1

Init ==
    /\ subject \in Subjects
    /\ subject = "pause" => Pause!Init
    /\ subject = "nav" => NAV!Init
    /\ subject = "capital" => Capital!Init
    /\ subject = "mint" =>
          Mint!Init /\ OneOf(row, Mint!LegacyRequest) /\ target = None /\ contract = None
    /\ subject = "deploy" => Deploy!Init /\ OneOf(target, Deploy!OtherToken)
    /\ subject = "approval" =>
          Approval!Init /\ OneOf(row, Approval!NewApproval("not_configured")) /\ target = None
    /\ subject = "whitelist" => Whitelist!Init
    /\ subject = "wallet" => Wallet!Init /\ operation = [c \in Commands |-> NoOperation]
    /\ subject = "orders" => Intents!Init /\ operation = [c \in Commands |-> NoOperation]
    /\ subject = "files" => Evidence!Init /\ operation = [c \in Commands |-> NoOperation]
    /\ subject = "holders" =>
          Holders!Init /\ target = None /\ operation = [c \in Commands |-> NoOperation]

Next ==
    /\ \/ subject = "pause" /\ Pause!Next
       \/ subject = "nav" /\ NAV!Next
       \/ subject = "capital" /\ Capital!Next
       \/ subject = "mint" /\ Mint!Next /\ UNCHANGED <<target, contract>>
       \/ subject = "deploy" /\ Deploy!Next
       \/ subject = "approval" /\ Approval!Next /\ UNCHANGED target
       \/ subject = "whitelist" /\ Whitelist!Next
       \/ subject = "wallet" /\ Wallet!Next /\ UNCHANGED operation
       \/ subject = "orders" /\ Intents!Next /\ UNCHANGED operation
       \/ subject = "files" /\ Evidence!Next /\ UNCHANGED operation
       \/ subject = "holders" /\ Holders!Next /\ UNCHANGED <<target, operation>>
    /\ UNCHANGED subject

Spec == Init /\ [][Next]_vars

\* Rows, targets, contracts, operations and runs keep their types, whichever
\* client is checked.
TypeOK ==
    /\ subject = "pause" => Pause!TypeOK
    /\ subject = "nav" => NAV!TypeOK
    /\ subject = "capital" => Capital!TypeOK
    /\ subject = "mint" => Mint!TypeOK
    /\ subject = "deploy" => Deploy!TypeOK
    /\ subject = "approval" => Approval!TypeOK
    /\ subject = "whitelist" => Whitelist!TypeOK
    /\ subject = "wallet" => Wallet!TypeOK
    /\ subject = "orders" => Intents!TypeOK
    /\ subject = "files" => Evidence!TypeOK
    /\ subject = "holders" => Holders!TypeOK

\* The row a command changes says what the contract behind it does, as soon as
\* nothing is left to recover: paused or not, the valuation, the cap, executed
\* mints, the deployed contract, the approval, the membership.  A wallet's
\* holdings are what the chain last showed less the deductions made since, and
\* include every transfer whose outcome left no balance to read again.  A
\* document's row says whether its bytes, and what was read from them, exist.
\* The archive names the members who left, as the token's transfers have it.
TargetIsTrue ==
    /\ subject = "pause" => Pause!PausedIsTrue
    /\ subject = "nav" => NAV!ValuationIsTrue
    /\ subject = "capital" => Capital!CapIsTrue
    /\ subject = "mint" => Mint!MintIsTrue
    /\ subject = "deploy" => Deploy!DeployedIsTrue
    /\ subject = "approval" => Approval!ApprovedIsTrue
    /\ subject = "whitelist" => Whitelist!MembershipIsTrue
    /\ subject = "wallet" => Wallet!BalancesAreTrue
    /\ subject = "files" => Evidence!FilesAreKept
    /\ subject = "holders" => Holders!ArchiveIsTrue

\* However often an intent is sent, signed and executed, it takes effect at
\* most once, and its one outcome names the one challenge spent on it
\* (execute_order_submission, execute_order_action).
OneEffect == subject = "orders" => Intents!OneEffect

\* The recorded cap never goes down, whichever approved totals are executed,
\* retried or overtaken, in whatever order (capital_execution.admit, _project).
CapOnlyRises == [][subject = "capital" => Capital!CapOnlyRises]_vars

\* A row that ended without effect, or is held for an operator, has nothing of
\* it left that could still execute, and what may is work a sweep takes.
FailedIsOver ==
    /\ subject = "pause" => Pause!FailedIsOver
    /\ subject = "nav" => NAV!FailedIsOver
    /\ subject = "capital" => Capital!FailedIsOver
    /\ subject = "mint" => Mint!FailedIsOver
    /\ subject = "deploy" => Deploy!FailedIsOver
    /\ subject = "approval" => Approval!FailedIsOver
    /\ subject = "whitelist" => Whitelist!FailedIsOver

\* No decision and no projection of a service is one the database triggers of its
\* migration refuse: none is rolled back for good.  Rows a step leaves alone pass
\* their trigger too, so that a sweep may touch them, but for one case: a failed
\* mint over an attempt opened again takes neither notes nor a new time until it
\* is bound or projected (_admit, recover of mint_service.py).
GuardsNeverRefuse ==
    [][/\ subject = "pause" => Pause!Guards
       /\ subject = "nav" => NAV!Guards
       /\ subject = "capital" => Capital!Guards
       /\ subject = "mint" => Mint!Guards
       /\ subject = "deploy" => Deploy!Guards
       /\ subject = "approval" => Approval!Guards
       /\ subject = "whitelist" => Whitelist!Guards]_vars

Interchangeable ==
    Permutations(Workers) \cup Permutations(Commands) \cup Permutations(Members)
=============================================================================
