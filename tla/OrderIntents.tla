----------------------------- MODULE OrderIntents ----------------------------
(***************************************************************************)
(* The identities behind an owner's orders: a submission makes an order,   *)
(* an action cancels or modifies one, and each is carried out by spending  *)
(* one of the challenges signed for it (backend/tokens/services:           *)
(* trading_order_create, order_actions, signing_challenge).                *)
(*                                                                         *)
(* Requests repeat, overlap and lose their answers.  What an order then    *)
(* does in the book is Trading's; here it is open, held by a match, or     *)
(* over.  A request that is refused before it writes is no step.           *)
(***************************************************************************)
EXTENDS Naturals, FiniteSets

CONSTANTS
    Submissions,    \* account-scoped submission identifiers, each naming an order
    Cancels,        \* account-scoped action identifiers of either purpose
    Modifies,
    OrderOf,        \* the submission whose order an action is about
    MaxChallenges,  \* bound: challenges issued for one intent
    Workers,        \* concurrent requests
    None            \* no intent

Actions == Cancels \cup Modifies
Intents == Submissions \cup Actions

IntentAssumption ==
    /\ Submissions \cap Actions = {} /\ Cancels \cap Modifies = {} /\ None \notin Intents
    /\ OrderOf \in [Actions -> Submissions]
    /\ MaxChallenges \in Nat

VARIABLES
    intent,     \* OrderSubmission and OrderActionSubmission rows
    order,      \* the TransferOrder of each submission
    challenge,  \* SigningChallenge rows of each intent, in order of issue
    session     \* what a request for an action carries between its transactions

vars == <<intent, order, challenge, session>>

Statuses == {"none", "pending", "created", "applied", "refused"}

Numbers == 1..MaxChallenges

\* executed_challenge is a number, 0 for none.
Intent == [status : Statuses, executed : 0..MaxChallenges]

\* made counts the orders created for a submission, modified is
\* modification_count; "open" stands for both statuses an owner may act on.
Order == [status : {"none", "open", "held", "filled", "cancelled"}, made : Nat, modified : Nat]

ChallengeStatuses == {"none", "issued", "expired", "spent", "purged"}

Idle == [intent |-> None, number |-> 0]

Spent(i) == {n \in Numbers : challenge[i][n] = "spent"}

-----------------------------------------------------------------------------
(* Messages to sign.                                                       *)

\* issue_challenge: a new row of its own nonce each time.
IssueChallenge(i, n) ==
    /\ challenge[i][n] = "none"
    /\ \A k \in 1..(n - 1) : challenge[i][k] # "none"
    /\ challenge' = [challenge EXCEPT ![i][n] = "issued"]

\* issue_order_submission: the row and its challenge, in one transaction.
IssueSubmission(s, n) ==
    /\ intent[s].status \in {"none", "pending"}
    /\ IssueChallenge(s, n)
    /\ intent' = [intent EXCEPT ![s].status = "pending"]
    /\ UNCHANGED <<order, session>>

\* _register_action: the row in a transaction of its own, which the message
\* may never follow.
RegisterAction(a) ==
    /\ intent[a].status = "none"
    /\ order[OrderOf[a]].status # "none"
    /\ intent' = [intent EXCEPT ![a].status = "pending"]
    /\ UNCHANGED <<order, challenge, session>>

\* can_cancel, validate_can_modify
Actionable(a) == order[OrderOf[a]].status = "open"

\* issue_order_action, its second transaction.
IssueAction(a, n) ==
    /\ intent[a].status = "pending"
    /\ Actionable(a)
    /\ IssueChallenge(a, n)
    /\ UNCHANGED <<intent, order, session>>

-----------------------------------------------------------------------------
(* Executions.                                                             *)

\* consume_challenge: the intent's own, not spent, not expired.
Consumable(i, n) == challenge[i][n] = "issued"

\* spend and the recorded outcome: one commit with whatever was done.
Resolve(i, n, status) ==
    /\ challenge' = [challenge EXCEPT ![i][n] = "spent"]
    /\ intent' = [intent EXCEPT ![i] = [status |-> status, executed |-> n]]

\* execute_order_submission: creation and matching, or the refusal that keeps
\* the spent challenge and nothing else.
ExecuteSubmission(s, n) ==
    /\ intent[s].status = "pending"
    /\ Consumable(s, n)
    /\ \/ /\ Resolve(s, n, "created")
          /\ \E status \in {"open", "held"} :
                order' = [order EXCEPT ![s].status = status, ![s].made = @ + 1]
       \/ Resolve(s, n, "refused") /\ UNCHANGED order
    /\ UNCHANGED session

\* execute_order_action, its first transaction: the signature is verified and
\* nothing kept, for the balance is read outside.
VerifyAction(w, a, n) ==
    /\ session[w] = Idle
    /\ intent[a].status = "pending"
    /\ Consumable(a, n)
    /\ session' = [session EXCEPT ![w] = [intent |-> a, number |-> n]]
    /\ UNCHANGED <<intent, order, challenge>>

\* Mutant: what the first transaction verified is taken to hold still.
StillPending_Verified(a, n) == Consumable(a, n)

\* The second transaction finds the action pending and its challenge unspent.
StillPending(a, n) == intent[a].status = "pending" /\ Consumable(a, n)

\* _apply of a cancellation
Cancel(a) == order' = [order EXCEPT ![OrderOf[a]].status = "cancelled"]

\* apply_order_modification
Modify(a) == order' = [order EXCEPT ![OrderOf[a]].modified = @ + 1]

\* The second transaction.  A modification may be refused over its values or
\* the balance; a cancellation only over the order's status.
ApplyAction(w) ==
    LET a == session[w].intent
        n == session[w].number
    IN
    /\ a # None
    /\ IF StillPending(a, n)
       THEN \/ /\ Actionable(a)
               /\ Resolve(a, n, "applied")
               /\ IF a \in Cancels THEN Cancel(a) ELSE Modify(a)
            \/ /\ Actionable(a) => a \in Modifies
               /\ Resolve(a, n, "refused")
               /\ UNCHANGED order
       ELSE UNCHANGED <<intent, order, challenge>>
    /\ session' = [session EXCEPT ![w] = Idle]

\* The request ends without its second transaction, or that rolls back.
GiveUp(w) ==
    /\ session[w] # Idle
    /\ session' = [session EXCEPT ![w] = Idle]
    /\ UNCHANGED <<intent, order, challenge>>

-----------------------------------------------------------------------------
(* Time, and the book.                                                     *)

\* is_expired
Expire(i, n) ==
    /\ challenge[i][n] = "issued"
    /\ challenge' = [challenge EXCEPT ![i][n] = "expired"]
    /\ UNCHANGED <<intent, order, session>>

\* Mutant: spent challenges are purged with the rest.
Purgeable_Spent(i, n) == challenge[i][n] \in {"expired", "spent"}

\* SigningChallengeQuerySet.purgeable: expired and never spent.
Purgeable(i, n) == challenge[i][n] = "expired"

\* purge_expired_challenges
Purge(i, n) ==
    /\ Purgeable(i, n)
    /\ challenge' = [challenge EXCEPT ![i][n] = "purged"]
    /\ UNCHANGED <<intent, order, session>>

\* Other owners' orders and the settlement of matches, in Trading.
Trade(s) ==
    /\ \E step \in {<<"open", "held">>, <<"held", "open">>, <<"held", "filled">>} :
          /\ order[s].status = step[1]
          /\ order' = [order EXCEPT ![s].status = step[2]]
    /\ UNCHANGED <<intent, challenge, session>>

-----------------------------------------------------------------------------
Init ==
    /\ intent = [i \in Intents |-> [status |-> "none", executed |-> 0]]
    /\ order = [s \in Submissions |-> [status |-> "none", made |-> 0, modified |-> 0]]
    /\ challenge = [i \in Intents |-> [n \in Numbers |-> "none"]]
    /\ session = [w \in Workers |-> Idle]

Next ==
    \/ \E s \in Submissions :
          Trade(s) \/ \E n \in Numbers : IssueSubmission(s, n) \/ ExecuteSubmission(s, n)
    \/ \E a \in Actions :
          \/ RegisterAction(a)
          \/ \E n \in Numbers : IssueAction(a, n) \/ \E w \in Workers : VerifyAction(w, a, n)
    \/ \E w \in Workers : ApplyAction(w) \/ GiveUp(w)
    \/ \E i \in Intents, n \in Numbers : Expire(i, n) \/ Purge(i, n)

Spec == Init /\ [][Next]_vars

-----------------------------------------------------------------------------
TypeOK ==
    /\ intent \in [Intents -> Intent]
    /\ order \in [Submissions -> Order]
    /\ challenge \in [Intents -> [Numbers -> ChallengeStatuses]]
    /\ session \in [Workers -> [intent : Actions \cup {None}, number : 0..MaxChallenges]]

Applied(S, s) == {a \in S : OrderOf[a] = s /\ intent[a].status = "applied"}

\* However often an intent is sent, signed and executed, it has one outcome:
\* one challenge of it is spent, a created submission made one order, an
\* order was modified once by each action applied to it and is cancelled
\* exactly if an action cancelled it.
OneEffect ==
    /\ \A i \in Intents :
          Spent(i) = IF intent[i].status \in {"created", "applied", "refused"}
                     THEN {intent[i].executed} ELSE {}
    /\ \A s \in Submissions :
          /\ order[s].made = IF intent[s].status = "created" THEN 1 ELSE 0
          /\ order[s].modified = Cardinality(Applied(Modifies, s))
          /\ order[s].status = "cancelled" <=> Applied(Cancels, s) # {}
=============================================================================
