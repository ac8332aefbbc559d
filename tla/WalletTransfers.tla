--------------------------- MODULE WalletTransfers ---------------------------
(***************************************************************************)
(* Transfers out of one EVM wallet and the balances shown for it           *)
(* (backend/wallets/services: submissions, transaction_confirmation,       *)
(* holdings, sync and history_receipts, with their jobs and sweeps).       *)
(*                                                                         *)
(* A transfer is signed by its owner.  Recording it takes its amount and   *)
(* fee off the holdings at once; reading the chain corrects them.  Every   *)
(* transaction that writes locks the wallet's row; the chain is read under *)
(* no lock.  Chain reads are current and blocks are final: mark_reorged    *)
(* and mark_replaced have no caller outside the tests.                     *)
(***************************************************************************)
EXTENDS Naturals, FiniteSets, FiniteSetsExt, Sequences

CONSTANTS
    Coins,      \* signed transfers of the native coin
    Tokens,     \* signed ERC-20 transfers
    Elsewhere,  \* transfers the owner may also give to a node directly
    NonceOf,    \* the nonce each was signed with
    Funds,      \* what the wallet holds of each asset to begin with
    Workers,    \* concurrent requests, jobs and sweeps
    MaxSyncs,   \* model bound: syncs of the wallet at one time
    None        \* no transfer

Transfers == Coins \cup Tokens
Assets == {"coin", "token"}

TransferAssumption ==
    /\ Coins \cap Tokens = {} /\ None \notin Transfers /\ Elsewhere \subseteq Transfers
    /\ NonceOf \in [Transfers -> Nat]
    /\ Funds \in [Assets -> Nat]
    /\ MaxSyncs \in Nat

VARIABLES
    tx,         \* Transaction rows, each with its WalletSubmission unless imported
    holding,    \* Holding rows
    worker,     \* what each worker carries
    chain       \* external: what became of each signed transfer

vars == <<tx, holding, worker, chain>>

-----------------------------------------------------------------------------
(* Balances.  Every transfer moves one unit and may burn one unit of coin. *)

AssetOf(t) == IF t \in Coins THEN "coin" ELSE "token"

\* What recording t takes from a: the amount, and the fee from the coin.
Cost(t, a) == (IF a = AssetOf(t) THEN 1 ELSE 0) + (IF a = "coin" THEN 1 ELSE 0)

\* What an executed t took from a; a reverted one only burns its fee.
Effect(t, a) ==
    IF chain[t] = "mined" THEN Cost(t, a) ELSE IF a = "coin" THEN 1 ELSE 0

Executed == {t \in Transfers : chain[t] \in {"mined", "reverted"}}

\* The chain's balance once the transfers in S had their effect.
BalanceAfter(S, a) == Funds[a] - MapThenSumSet(LAMBDA t : Effect(t, a), S)

Balance(a) == BalanceAfter(Executed, a)

-----------------------------------------------------------------------------
(* Rows.                                                                   *)

NoDebit == [a \in Assets |-> 0]

Transaction ==
    [status : {"none", "pending", "confirmed", "failed"},
     imported : BOOLEAN,                \* imported_from_history
     token : BOOLEAN,                   \* balance_reconciliation_token is set
     debit : [Assets -> 0..2]]          \* deducted_amount and deducted_fee

NoTransaction == [status |-> "none", imported |-> FALSE, token |-> FALSE, debit |-> NoDebit]

\* Versions are kept as what they are compared for: current holds the reads
\* in flight since the row's balance_version, debited the transfers whose
\* deduction names its sync_version.
HoldingRow ==
    [quantity : Nat, current : SUBSET Workers, debited : SUBSET Transfers,
     synced : SUBSET Transfers]         \* ghost: what the last balance written had seen

Idle == [pc |-> "idle", transfer |-> None, assets |-> <<>>, seen |-> {}, ok |-> TRUE]

Carried ==
    [pc : {"idle", "record", "version", "balance", "write"},
     transfer : Transfers \cup {None},
     assets : {<<>>, <<"coin">>, <<"token">>, <<"token", "coin">>, <<"coin", "token">>},
     seen : SUBSET Transfers,
     ok : BOOLEAN]                      \* every read so far was written

Recorded == {t \in Transfers : tx[t].status # "none"}
Submitted == {t \in Recorded : ~tx[t].imported}

Goto(w, pc) == worker' = [worker EXCEPT ![w].pc = pc]
Finish(w) == worker' = [worker EXCEPT ![w] = Idle]

\* _move_holding, for every asset at once: never below zero, and a new
\* balance_version whether or not anything moved.
Taken(t, a) == IF Cost(t, a) > holding[a].quantity THEN holding[a].quantity ELSE Cost(t, a)

-----------------------------------------------------------------------------
(* Submissions.                                                            *)

\* _submission_plan: no history without a submission, no second submission
\* of the nonce.
Planned(t) == t \notin Recorded /\ \A u \in Submitted : NonceOf[u] # NonceOf[t]

\* _mined_nonce, and what submit_evm_transfer requires of it.
Observed(t) ==
    /\ NonceOf[t] >= Cardinality(Executed)
    /\ Balance("coin") >= Cost(t, "coin")

\* submit_evm_transfer up to its second transaction, in which it finds again
\* whatever has been recorded since the first: the observation of the chain is
\* what may be old by then.  Bytes recorded already are only delivered again.
Submit(w, t) ==
    /\ worker[w] = Idle
    /\ Planned(t)
    /\ Observed(t)
    /\ worker' = [worker EXCEPT ![w] = [Idle EXCEPT !.pc = "record", !.transfer = t]]
    /\ UNCHANGED <<tx, holding, chain>>

\* Mutant: the plan made before the observation is not made again.
StillPlanned_Assumed(t) == TRUE

StillPlanned(t) == Planned(t)

\* Mutant: the whole cost is noted as deducted though the holding had less.
Deducted_Whole(t, a) == Cost(t, a)

\* deducted_amount, deducted_fee
Deducted(t, a) == Taken(t, a)

\* create_pending_transaction and _store_submission, in one transaction.
Record(w) ==
    LET t == worker[w].transfer IN
    /\ worker[w].pc = "record"
    /\ IF StillPlanned(t)
       THEN /\ tx' = [tx EXCEPT ![t] =
                 [NoTransaction EXCEPT !.status = "pending", !.debit = [a \in Assets |-> Deducted(t, a)]]]
            /\ holding' = [a \in Assets |->
                 IF Cost(t, a) = 0 THEN holding[a]
                 ELSE [holding[a] EXCEPT !.quantity = @ - Taken(t, a),
                                         !.current = {},
                                         !.debited = @ \cup {t}]]
       ELSE UNCHANGED <<tx, holding>>
    /\ Finish(w)
    /\ UNCHANGED chain

\* attempt_submission, after recording and from recover_wallet_submissions:
\* the node may answer and forget, so what is sent may have been sent before.
Deliver(t) ==
    /\ t \in Submitted
    /\ tx[t].status = "pending"
    /\ chain[t] = "none"
    /\ chain' = [chain EXCEPT ![t] = "sent"]
    /\ UNCHANGED <<tx, holding, worker>>

-----------------------------------------------------------------------------
(* External: the owner's other clients, and the chain.                     *)

SendElsewhere(t) ==
    /\ t \in Elsewhere
    /\ chain[t] = "none"
    /\ chain' = [chain EXCEPT ![t] = "sent"]
    /\ UNCHANGED <<tx, holding, worker>>

\* Nonces run in order; what the wallet cannot pay for reverts or waits.
Execute(t, outcome) ==
    /\ chain[t] = "sent"
    /\ NonceOf[t] = Cardinality(Executed)
    /\ Balance("coin") >= Cost(t, "coin")
    /\ outcome = "mined" => Balance(AssetOf(t)) >= Cost(t, AssetOf(t))
    /\ chain' = [chain EXCEPT ![t] = outcome]
    /\ UNCHANGED <<tx, holding, worker>>

-----------------------------------------------------------------------------
(* Outcomes.                                                               *)

\* Mutant: a deduction is given back though the holding was read since.
Outstanding_Any(t, a) == tx[t].debit[a]

\* _outstanding_deduction
Outstanding(t, a) == IF t \in holding[a].debited THEN tx[t].debit[a] ELSE 0

\* _invalidate_balance_reads: the reads of a still current once t has an
\* outcome, none for its own asset and the coin.
ReadsAfter(t, a) == IF a \in {AssetOf(t), "coin"} THEN {} ELSE holding[a].current

\* confirm_transaction, up to its reconciliation.
Confirm(t) ==
    /\ tx' = [tx EXCEPT ![t].status = "confirmed", ![t].token = TRUE]
    /\ holding' = [a \in Assets |-> [holding[a] EXCEPT !.current = ReadsAfter(t, a)]]

\* fail_transaction: _settle_the_optimistic_debit, likewise.
Fail(t) ==
    /\ tx' = [tx EXCEPT ![t].status = "failed", ![t].token = TRUE, ![t].debit = NoDebit]
    /\ holding' = [a \in Assets |-> [holding[a] EXCEPT !.quantity = @ + Outstanding(t, a),
                                                       !.current = ReadsAfter(t, a)]]

\* _confirm_pending_transaction of a pending row: the receipt read without a
\* lock is final, and the row must be as it was when it was read.
Settle(t) ==
    /\ tx[t].status = "pending"
    /\ t \in Executed
    /\ IF tx[t].imported
       THEN /\ tx' = [tx EXCEPT ![t].status = IF chain[t] = "mined" THEN "confirmed" ELSE "failed"]
            /\ UNCHANGED holding
       ELSE IF chain[t] = "mined" THEN Confirm(t) ELSE Fail(t)
    /\ UNCHANGED <<worker, chain>>

\* reconcile_transaction, after an outcome and from
\* check_all_pending_transactions while the token is set.
Reconcile(w, t) ==
    /\ worker[w] = Idle
    /\ tx[t].token
    /\ worker' = [worker EXCEPT ![w] =
          [Idle EXCEPT !.pc = "version", !.transfer = t,
                       !.assets = IF t \in Coins THEN <<"coin">> ELSE <<"token", "coin">>]]
    /\ UNCHANGED <<tx, holding, chain>>

\* The holdings are read largest first (Holding.Meta.ordering).
LargestFirst == {order \in {<<"coin", "token">>, <<"token", "coin">>} :
                    holding[order[1]].quantity >= holding[order[2]].quantity}

Syncing == {w \in Workers : worker[w] # Idle /\ worker[w].transfer = None}

\* sync_wallet: what its history shows and no row has is imported, then every
\* holding is read.  A history may be behind, or be readable only in part.
SyncWallet(w, found) ==
    /\ worker[w] = Idle
    /\ Cardinality(Syncing) < MaxSyncs
    /\ found \subseteq Executed \ Recorded
    /\ tx' = [t \in Transfers |->
          IF t \in found THEN [NoTransaction EXCEPT !.status = "pending", !.imported = TRUE] ELSE tx[t]]
    /\ \E order \in LargestFirst :
          worker' = [worker EXCEPT ![w] = [Idle EXCEPT !.pc = "version", !.assets = order]]
    /\ UNCHANGED <<holding, chain>>

-----------------------------------------------------------------------------
(* sync_holding: the version, the chain's balance, and the write.          *)

ReadVersion(w) ==
    LET a == Head(worker[w].assets) IN
    /\ worker[w].pc = "version"
    /\ holding' = [holding EXCEPT ![a].current = @ \cup {w}]
    /\ Goto(w, "balance")
    /\ UNCHANGED <<tx, chain>>

ReadBalance(w) ==
    /\ worker[w].pc = "balance"
    /\ worker' = [worker EXCEPT ![w].pc = "write", ![w].seen = Executed]
    /\ UNCHANGED <<tx, holding, chain>>

\* Mutant: a sync that wrote nothing counts as one that did.
Onward_Regardless(w, written) ==
    [worker[w] EXCEPT !.pc = "version", !.assets = Tail(@), !.seen = {}]

\* The next asset, a reconciliation remembering whether every one was written.
Onward(w, written) ==
    [worker[w] EXCEPT !.pc = "version", !.assets = Tail(@), !.seen = {}, !.ok = @ /\ (written \/ worker[w].transfer = None)]

\* _verify_holding_balance has its answer, or sync_wallet is done: the token
\* is cleared only for a reconciliation whose every read was written.
Ended(w, written) ==
    /\ Finish(w)
    /\ LET t == worker[w].transfer IN
       tx' = IF t # None /\ written /\ Onward(w, written).ok /\ tx[t].token
             THEN [tx EXCEPT ![t].token = FALSE] ELSE tx

\* Mutant: the version is not compared.
IsCurrent_Dropped(w, a) == TRUE

\* Nothing changed the row since its version was read.
IsCurrent(w, a) == w \in holding[a].current

\* The write; a balance the chain did not give is not written either.
WriteBalance(w, answered) ==
    LET a == Head(worker[w].assets)
        written == answered /\ IsCurrent(w, a)
    IN
    /\ worker[w].pc = "write"
    /\ holding' = IF written
                  THEN [holding EXCEPT ![a] = [quantity |-> BalanceAfter(worker[w].seen, a),
                                               current |-> {}, debited |-> {},
                                               synced |-> worker[w].seen]]
                  ELSE [holding EXCEPT ![a].current = @ \ {w}]
    /\ IF Len(worker[w].assets) > 1
       THEN worker' = [worker EXCEPT ![w] = Onward(w, written)] /\ UNCHANGED tx
       ELSE Ended(w, written)
    /\ UNCHANGED chain

\* A crash, an unreachable provider, a refused request.
Abandon(w) ==
    /\ worker[w] # Idle
    /\ Finish(w)
    /\ holding' = [a \in Assets |-> [holding[a] EXCEPT !.current = @ \ {w}]]
    /\ UNCHANGED <<tx, chain>>

-----------------------------------------------------------------------------
Init ==
    /\ tx = [t \in Transfers |-> NoTransaction]
    /\ holding = [a \in Assets |-> [quantity |-> Funds[a], current |-> {}, debited |-> {}, synced |-> {}]]
    /\ worker = [w \in Workers |-> Idle]
    /\ chain = [t \in Transfers |-> "none"]

Next ==
    \/ \E w \in Workers, t \in Transfers : Submit(w, t) \/ Reconcile(w, t)
    \/ \E w \in Workers :
          \/ Record(w) \/ Abandon(w)
          \/ ReadVersion(w) \/ ReadBalance(w)
          \/ \E answered \in BOOLEAN : WriteBalance(w, answered)
          \/ \E found \in SUBSET Transfers : SyncWallet(w, found)
    \/ \E t \in Transfers :
          \/ Deliver(t) \/ SendElsewhere(t) \/ Settle(t)
          \/ \E outcome \in {"mined", "reverted"} : Execute(t, outcome)

Spec == Init /\ [][Next]_vars

-----------------------------------------------------------------------------
TypeOK ==
    /\ tx \in [Transfers -> Transaction]
    /\ holding \in [Assets -> HoldingRow]
    /\ worker \in [Workers -> Carried]
    /\ chain \in [Transfers -> {"none", "sent", "mined", "reverted"}]

\* A holding is what the chain last showed less every deduction made since,
\* whichever reads, outcomes and deductions were interleaved.
DebitsAreAccounted ==
    \A a \in Assets :
        holding[a].quantity + MapThenSumSet(LAMBDA t : tx[t].debit[a], holding[a].debited)
            = BalanceAfter(holding[a].synced, a)

\* Once a submitted transfer has its outcome and nothing of it is left to
\* reconcile, the holdings it touched have seen it.
ReconciledIsTrue ==
    \A t \in Submitted :
        tx[t].status \in {"confirmed", "failed"} /\ ~tx[t].token =>
            t \in holding[AssetOf(t)].synced /\ t \in holding["coin"].synced

\* Two recorded submissions never compete for one nonce.
NonceRecordedOnce ==
    \A t, u \in Submitted : NonceOf[t] = NonceOf[u] => t = u

BalancesAreTrue == DebitsAreAccounted /\ ReconciledIsTrue /\ NonceRecordedOnce
=============================================================================
