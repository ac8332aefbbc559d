----------------------------- MODULE ClientProofs -----------------------------
(***************************************************************************)
(* What holds of every command row and of its operation, for any number of *)
(* rows, runs and attempts: first whichever client drives it, then client  *)
(* by client: the pause, the valuation, the whitelist, the swap approval   *)
(* and the mint.                                                           *)
(*                                                                         *)
(* Seven clients share the journal's steps.  Each takes no other step on   *)
(* an operation, and those steps alone keep two transactions of a command  *)
(* from being live at once: what a run carries and what its row says are   *)
(* not needed for it.                                                      *)
(*                                                                         *)
(* Each client then has an invariant in two parts.  Fits relates a row and *)
(* its operation: what a status says of the attempt, which attempt a       *)
(* recorded transaction or a retry names.  Suits relates a run to both:    *)
(* what it was admitted with, and what it read and has yet to act on.      *)
(* Most steps leave the columns they speak of alone and move an operation  *)
(* on without opening it again: one lemma for each client covers them, and *)
(* what is left are the steps the invariant is about.  The lemma that ends *)
(* in Keeps adds that no step is one a trigger refuses.                    *)
(***************************************************************************)
EXTENDS MCCommands, TLAPS

USE DEF Undone

-----------------------------------------------------------------------------
(* One operation.                                                          *)

\* An attempt is opened over nothing, or over one that never can execute; the
\* status is that of the transaction its claim signed.
Sound(o) ==
    /\ o \in Operation
    /\ o.status = "none" <=> o.claim = 0
    /\ \A k \in Claims : k > o.claim => o.tx[k] = "none"
    /\ \A k \in Claims : k < o.claim => o.tx[k] \in {"none", "reverted"}
    /\ \A k \in Claims : k = o.claim =>
          /\ o.status \in {"preparing", "failed"} => o.tx[k] = "none"
          /\ o.status = "signed" => o.tx[k] # "none"
          /\ o.status = "confirmed" => o.tx[k] = "mined"
          /\ o.status = "reverted" => o.tx[k] = "reverted"

\* What the journal's steps make of an operation.
Opened(o, p) ==
    /\ o.status \in {"none"} \cup Undone
    /\ o.claim < MaxClaims
    /\ p = [o EXCEPT !.status = "preparing", !.claim = @ + 1]

Signed(o, p) ==
    /\ o.status = "preparing"
    /\ p = [o EXCEPT !.status = "signed", !.tx[o.claim] = "signed"]

Failed(o, p) == o.status = "preparing" /\ p = [o EXCEPT !.status = "failed"]

Received(o, p) ==
    /\ o.status = "signed"
    /\ o.tx[o.claim] \in {"mined", "reverted"}
    /\ p = [o EXCEPT !.status = IF o.tx[o.claim] = "mined" THEN "confirmed" ELSE "reverted"]

Sent(o, p) ==
    /\ o.status \in {"signed", "confirmed"}
    /\ o.tx[o.claim] = "signed"
    /\ p = [o EXCEPT !.tx[o.claim] = "sent"]

Settled(o, p) ==
    \E k \in Claims, outcome \in {"mined", "reverted"} :
        o.tx[k] = "sent" /\ p = [o EXCEPT !.tx[k] = outcome]

Moves(o, p) ==
    p = o \/ Opened(o, p) \/ Signed(o, p) \/ Failed(o, p) \/ Received(o, p) \/ Sent(o, p)
      \/ Settled(o, p)

LEMMA Bounded == MaxClaims \in Nat \ {0} /\ Claims = 1..MaxClaims /\ None \notin Commands
BY ClientAssumption DEF Claims

LEMMA NothingIsSound == Sound(NoOperation)
BY Bounded DEF Sound, NoOperation, Operation, TxState

LEMMA MovesAreSound ==
    ASSUME NEW o, NEW p, Sound(o), Moves(o, p)
    PROVE  Sound(p)
<1>0. /\ o \in [status : {"none", "preparing", "signed", "confirmed", "reverted", "failed"},
                claim : 0..MaxClaims, tx : [Claims -> TxState]]
      /\ o.claim \in Nat /\ o.claim <= MaxClaims
  BY Bounded DEF Sound, Operation
<1>1. CASE p = o
  BY <1>1
<1>2. CASE Opened(o, p)
  <2>1. p.status = "preparing" /\ p.claim = o.claim + 1 /\ p.tx = o.tx
    BY <1>0, <1>2 DEF Opened
  <2>2. p \in Operation
    <3>1. o.claim + 1 \in 0..MaxClaims
      BY <1>0, <1>2, Bounded DEF Opened
    <3>2. p = [o EXCEPT !.status = "preparing", !.claim = o.claim + 1]
      BY <1>2 DEF Opened
    <3> QED BY <1>0, <3>1, <3>2 DEF Operation
  <2>3. \A k \in Claims : k <= o.claim => o.tx[k] \in {"none", "reverted"}
    BY <1>0, <1>2, Bounded DEF Opened, Sound
  <2> QED BY <1>0, <2>1, <2>2, <2>3, Bounded DEF Sound
<1>3. CASE Signed(o, p)
  <2>1. p.status = "signed" /\ p.claim = o.claim /\ p.tx = [o.tx EXCEPT ![o.claim] = "signed"]
    BY <1>0, <1>3 DEF Signed
  <2>2. p \in Operation
    BY <1>0, <1>3 DEF Signed, Operation, TxState
  <2>3. o.claim \in Claims /\ o.status = "preparing"
    BY <1>0, <1>3, Bounded DEF Sound, Signed
  <2>4. \A k \in Claims : p.tx[k] = IF k = o.claim THEN "signed" ELSE o.tx[k]
    BY <1>0, <2>1
  <2> QED BY <1>0, <2>1, <2>2, <2>3, <2>4, Bounded DEF Sound
<1>4. CASE Failed(o, p)
  <2>1. p.status = "failed" /\ p.claim = o.claim /\ p.tx = o.tx /\ p \in Operation
    BY <1>0, <1>4 DEF Failed, Operation
  <2> QED BY <1>0, <1>4, <2>1, Bounded DEF Sound, Failed
<1>5. CASE Received(o, p)
  <2>1. /\ p.status = (IF o.tx[o.claim] = "mined" THEN "confirmed" ELSE "reverted")
        /\ p.claim = o.claim /\ p.tx = o.tx /\ p \in Operation
    BY <1>0, <1>5 DEF Received, Operation
  <2> QED BY <1>0, <1>5, <2>1, Bounded DEF Sound, Received
<1>6. CASE Sent(o, p)
  <2>1. p.status = o.status /\ p.claim = o.claim /\ p.tx = [o.tx EXCEPT ![o.claim] = "sent"]
    BY <1>0, <1>6 DEF Sent
  <2>2. p \in Operation
    BY <1>0, <1>6 DEF Sent, Operation, TxState
  <2>3. o.status \in {"signed", "confirmed"} /\ o.tx[o.claim] = "signed"
    BY <1>6 DEF Sent
  <2>4. \A k \in Claims : p.tx[k] = IF k = o.claim THEN "sent" ELSE o.tx[k]
    BY <1>0, <2>1
  <2> QED BY <1>0, <2>1, <2>2, <2>3, <2>4, Bounded DEF Sound
<1>7. CASE Settled(o, p)
  <2>1. PICK k \in Claims, outcome \in {"mined", "reverted"} :
           o.tx[k] = "sent" /\ p = [o EXCEPT !.tx[k] = outcome]
    BY <1>7 DEF Settled
  <2>2. p.status = o.status /\ p.claim = o.claim /\ p.tx = [o.tx EXCEPT ![k] = outcome]
    BY <1>0, <2>1
  <2>3. p \in Operation
    BY <1>0, <2>1 DEF Operation, TxState
  <2>4. k = o.claim /\ o.status = "signed"
    BY <1>0, <2>1, Bounded DEF Sound
  <2>5. \A j \in Claims : p.tx[j] = IF j = k THEN outcome ELSE o.tx[j]
    BY <1>0, <2>2
  <2> QED BY <1>0, <2>2, <2>3, <2>4, <2>5, Bounded DEF Sound
<1> QED BY <1>1, <1>2, <1>3, <1>4, <1>5, <1>6, <1>7 DEF Moves

-----------------------------------------------------------------------------
(* The journal's steps.                                                    *)

OperationsSound ==
    /\ operation \in [Commands -> Operation]
    /\ \A c \in Commands : Sound(operation[c])

\* Each step on the operations, without what it does to the run.
Journaled ==
    \/ UNCHANGED operation
    \/ \E w \in Workers : Open(w) \/ FailPreparing(w) \/ Receive(w) \/ Broadcast(w) \/ Sign(w)
    \/ \E c \in Commands, k \in Claims, outcome \in {"mined", "reverted"} : Mined(c, k, outcome)

LEMMA OneOperation ==
    ASSUME OperationsSound, NEW c, NEW p,
           operation' = [operation EXCEPT ![c] = p],
           c \in Commands => Moves(operation[c], p)
    PROVE  OperationsSound'
<1>1. CASE c \in Commands
  <2>1. Sound(p)
    BY <1>1, MovesAreSound DEF OperationsSound
  <2> QED BY <1>1, <2>1 DEF OperationsSound, Sound
<1>2. CASE c \notin Commands
  BY <1>2 DEF OperationsSound
<1> QED BY <1>1, <1>2

LEMMA JournalKeepsSound ==
    ASSUME OperationsSound, Journaled
    PROVE  OperationsSound'
<1>1. CASE UNCHANGED operation
  BY <1>1 DEF OperationsSound
<1>2. ASSUME NEW w \in Workers, Open(w) PROVE OperationsSound'
  <2> DEFINE c == worker[w].command
             p == [operation[c] EXCEPT !.status = "preparing", !.claim = @ + 1]
  <2>1. CASE UNCHANGED operation
    BY <2>1 DEF OperationsSound
  <2>2. CASE /\ operation[c].status = "none" \/ Reopens(operation[c], worker[w].retry)
             /\ operation[c].claim < MaxClaims
             /\ operation' = [operation EXCEPT ![c].status = "preparing", ![c].claim = @ + 1]
    <3>1. operation' = [operation EXCEPT ![c] = p]
      BY <2>2 DEF OperationsSound, Operation
    <3>2. c \in Commands => Opened(operation[c], p)
      BY <2>2 DEF Opened, Reopens
    <3> HIDE DEF c, p
    <3> QED BY <3>1, <3>2, OneOperation DEF Moves
  <2> QED BY <1>2, <2>1, <2>2 DEF Open
<1>3. ASSUME NEW w \in Workers, FailPreparing(w) PROVE OperationsSound'
  <2> DEFINE c == worker[w].command
             p == [operation[c] EXCEPT !.status = "failed"]
  <2>1. CASE UNCHANGED operation
    BY <2>1 DEF OperationsSound
  <2>2. CASE Signs(w)
    <3>1. operation' = [operation EXCEPT ![c] = p]
      BY <1>3, <2>2 DEF FailPreparing
    <3>2. c \in Commands => Failed(operation[c], p)
      BY <2>2 DEF Failed, Signs, Own
    <3> HIDE DEF c, p
    <3> QED BY <3>1, <3>2, OneOperation DEF Moves
  <2> QED BY <1>3, <2>1, <2>2 DEF FailPreparing
<1>4. ASSUME NEW w \in Workers, Receive(w) PROVE OperationsSound'
  <2> DEFINE c == worker[w].command
             o == operation[c]
             p == [o EXCEPT !.status = IF o.tx[o.claim] = "mined" THEN "confirmed" ELSE "reverted"]
  <2>1. o.claim = worker[w].claim /\ o.status = "signed" /\ o.tx[o.claim] \in {"mined", "reverted"}
    BY <1>4 DEF Receive, Owns, Own
  <2>2. operation' = [operation EXCEPT ![c] = p]
    BY <1>4, <2>1 DEF Receive, Own
  <2>3. Received(o, p)
    BY <2>1 DEF Received
  <2> HIDE DEF c, p
  <2> QED BY <2>2, <2>3, OneOperation DEF Moves
<1>5. ASSUME NEW w \in Workers, Broadcast(w) PROVE OperationsSound'
  <2> DEFINE c == worker[w].command
             o == operation[c]
             p == [o EXCEPT !.tx[o.claim] = "sent"]
  <2>1. o.claim = worker[w].claim /\ o.status \in {"signed", "confirmed"}
    BY <1>5 DEF Broadcast, Owns, Own
  <2>2. CASE UNCHANGED operation
    BY <2>2 DEF OperationsSound
  <2>3. CASE /\ o.tx[o.claim] = "signed"
             /\ operation' = [operation EXCEPT ![c].tx[o.claim] = "sent"]
    <3>1. operation' = [operation EXCEPT ![c] = p]
      BY <2>3
    <3>2. Sent(o, p)
      BY <2>1, <2>3 DEF Sent
    <3> HIDE DEF c, p
    <3> QED BY <3>1, <3>2, OneOperation DEF Moves
  <2> QED BY <1>5, <2>1, <2>2, <2>3 DEF Broadcast, Own
<1>6. ASSUME NEW w \in Workers, Sign(w) PROVE OperationsSound'
  <2> DEFINE c == worker[w].command
             o == operation[c]
             p == [o EXCEPT !.status = "signed", !.tx[o.claim] = "signed"]
  <2>1. o.claim = worker[w].claim /\ o.status = "preparing"
    BY <1>6 DEF Sign, Signs, Owns, Own
  <2>2. operation' = [operation EXCEPT ![c].status = "signed", ![c].tx[o.claim] = "signed"]
    BY <1>6, <2>1 DEF Sign
  <2>3. operation' = [operation EXCEPT ![c] = p]
    BY <2>2 DEF OperationsSound, Operation
  <2>4. Signed(o, p)
    BY <2>1 DEF Signed
  <2> HIDE DEF c, p
  <2> QED BY <2>3, <2>4, OneOperation DEF Moves
<1>7. ASSUME NEW c \in Commands, NEW k \in Claims, NEW outcome \in {"mined", "reverted"},
             Mined(c, k, outcome)
      PROVE  OperationsSound'
  <2> DEFINE p == [operation[c] EXCEPT !.tx[k] = outcome]
  <2>1. operation' = [operation EXCEPT ![c] = p] /\ Settled(operation[c], p)
    BY <1>7 DEF Mined, Settled
  <2> HIDE DEF p
  <2> QED BY <2>1, OneOperation DEF Moves
<1> QED BY <1>1, <1>2, <1>3, <1>4, <1>5, <1>6, <1>7 DEF Journaled

LEMMA SoundIsOnce == OperationsSound => LiveOnce
BY Bounded DEF OperationsSound, Sound, Operation, LiveOnce, TxState

LEMMA BeginsSound == operation = [c \in Commands |-> NoOperation] => OperationsSound
BY NothingIsSound DEF OperationsSound, Sound
-----------------------------------------------------------------------------
(* No client takes another step on an operation.                           *)

LEMMA PauseIs ==
    /\ \A w : Pause!Open(w) <=> Open(w)
    /\ \A w : Pause!FailPreparing(w) <=> FailPreparing(w)
    /\ \A w : Pause!Receive(w) <=> Receive(w)
    /\ \A w : Pause!Broadcast(w) <=> Broadcast(w)
    /\ \A w : Pause!Sign(w) <=> Sign(w)
    /\ \A c, k, outcome : Pause!Mined(c, k, outcome) <=> Mined(c, k, outcome)
BY DEF Pause!Open, Open, Pause!FailPreparing, FailPreparing, Pause!Receive, Receive,
   Pause!Broadcast, Broadcast, Pause!Sign, Sign, Pause!Mined, Mined, Pause!At, At,
   Pause!Reopens, Reopens, Pause!Undone, Undone, Pause!Own, Own, Pause!Owns, Owns,
   Pause!Signs, Signs, Pause!Goto, Goto

LEMMA NAVIs ==
    /\ \A w : NAV!Open(w) <=> Open(w)
    /\ \A w : NAV!FailPreparing(w) <=> FailPreparing(w)
    /\ \A w : NAV!Receive(w) <=> Receive(w)
    /\ \A w : NAV!Broadcast(w) <=> Broadcast(w)
    /\ \A w : NAV!Sign(w) <=> Sign(w)
    /\ \A c, k, outcome : NAV!Mined(c, k, outcome) <=> Mined(c, k, outcome)
BY DEF NAV!Open, Open, NAV!FailPreparing, FailPreparing, NAV!Receive, Receive,
   NAV!Broadcast, Broadcast, NAV!Sign, Sign, NAV!Mined, Mined, NAV!At, At,
   NAV!Reopens, Reopens, NAV!Undone, Undone, NAV!Own, Own, NAV!Owns, Owns,
   NAV!Signs, Signs, NAV!Goto, Goto

LEMMA CapitalIs ==
    /\ \A w : Capital!Open(w) <=> Open(w)
    /\ \A w : Capital!FailPreparing(w) <=> FailPreparing(w)
    /\ \A w : Capital!Receive(w) <=> Receive(w)
    /\ \A w : Capital!Broadcast(w) <=> Broadcast(w)
    /\ \A w : Capital!Sign(w) <=> Sign(w)
    /\ \A c, k, outcome : Capital!Mined(c, k, outcome) <=> Mined(c, k, outcome)
BY DEF Capital!Open, Open, Capital!FailPreparing, FailPreparing, Capital!Receive, Receive,
   Capital!Broadcast, Broadcast, Capital!Sign, Sign, Capital!Mined, Mined, Capital!At, At,
   Capital!Reopens, Reopens, Capital!Undone, Undone, Capital!Own, Own, Capital!Owns, Owns,
   Capital!Signs, Signs, Capital!Goto, Goto

LEMMA MintIs ==
    /\ \A w : Mint!Open(w) <=> Open(w)
    /\ \A w : Mint!FailPreparing(w) <=> FailPreparing(w)
    /\ \A w : Mint!Receive(w) <=> Receive(w)
    /\ \A w : Mint!Broadcast(w) <=> Broadcast(w)
    /\ \A w : Mint!Sign(w) <=> Sign(w)
    /\ \A c, k, outcome : Mint!Mined(c, k, outcome) <=> Mined(c, k, outcome)
BY DEF Mint!Open, Open, Mint!FailPreparing, FailPreparing, Mint!Receive, Receive,
   Mint!Broadcast, Broadcast, Mint!Sign, Sign, Mint!Mined, Mined, Mint!At, At,
   Mint!Reopens, Reopens, Mint!Undone, Undone, Mint!Own, Own, Mint!Owns, Owns,
   Mint!Signs, Signs, Mint!Goto, Goto

LEMMA DeployIs ==
    /\ \A w : Deploy!Open(w) <=> Open(w)
    /\ \A w : Deploy!FailPreparing(w) <=> FailPreparing(w)
    /\ \A w : Deploy!Receive(w) <=> Receive(w)
    /\ \A w : Deploy!Broadcast(w) <=> Broadcast(w)
    /\ \A w : Deploy!Sign(w) <=> Sign(w)
    /\ \A c, k, outcome : Deploy!Mined(c, k, outcome) <=> Mined(c, k, outcome)
BY DEF Deploy!Open, Open, Deploy!FailPreparing, FailPreparing, Deploy!Receive, Receive,
   Deploy!Broadcast, Broadcast, Deploy!Sign, Sign, Deploy!Mined, Mined, Deploy!At, At,
   Deploy!Reopens, Reopens, Deploy!Undone, Undone, Deploy!Own, Own, Deploy!Owns, Owns,
   Deploy!Signs, Signs, Deploy!Goto, Goto

LEMMA ApprovalIs ==
    /\ \A w : Approval!Open(w) <=> Open(w)
    /\ \A w : Approval!FailPreparing(w) <=> FailPreparing(w)
    /\ \A w : Approval!Receive(w) <=> Receive(w)
    /\ \A w : Approval!Broadcast(w) <=> Broadcast(w)
    /\ \A w : Approval!Sign(w) <=> Sign(w)
    /\ \A c, k, outcome : Approval!Mined(c, k, outcome) <=> Mined(c, k, outcome)
BY DEF Approval!Open, Open, Approval!FailPreparing, FailPreparing, Approval!Receive, Receive,
   Approval!Broadcast, Broadcast, Approval!Sign, Sign, Approval!Mined, Mined, Approval!At, At,
   Approval!Reopens, Reopens, Approval!Undone, Undone, Approval!Own, Own, Approval!Owns, Owns,
   Approval!Signs, Signs, Approval!Goto, Goto

LEMMA WhitelistIs ==
    /\ \A w : Whitelist!Open(w) <=> Open(w)
    /\ \A w : Whitelist!FailPreparing(w) <=> FailPreparing(w)
    /\ \A w : Whitelist!Receive(w) <=> Receive(w)
    /\ \A w : Whitelist!Broadcast(w) <=> Broadcast(w)
    /\ \A w : Whitelist!Sign(w) <=> Sign(w)
    /\ \A c, k, outcome : Whitelist!Mined(c, k, outcome) <=> Mined(c, k, outcome)
BY DEF Whitelist!Open, Open, Whitelist!FailPreparing, FailPreparing, Whitelist!Receive, Receive,
   Whitelist!Broadcast, Broadcast, Whitelist!Sign, Sign, Whitelist!Mined, Mined, Whitelist!At, At,
   Whitelist!Reopens, Reopens, Whitelist!Undone, Undone, Whitelist!Own, Own, Whitelist!Owns, Owns,
   Whitelist!Signs, Signs, Whitelist!Goto, Goto

LEMMA PauseMoves == Pause!Next => Journaled
BY PauseIs
   DEF Journaled, Pause!Claims, Claims,
   Pause!Next, Pause!Recover, Pause!Journal, Pause!Look, Pause!ReceiveNothing,
   Pause!Abandon, Pause!Submit, Pause!ChangeOwner, Pause!Begin,
   Pause!ReadContract, Pause!RecordDecision, Pause!RefuseUnsigned, Pause!Bind,
   Pause!Resume, Pause!Settle, Pause!RecordOutcome, Pause!Project,
   Pause!SignPause, Pause!GiveUp, Pause!Mine

LEMMA NAVMoves == NAV!Next => Journaled
BY NAVIs
   DEF Journaled, NAV!Claims, Claims,
   NAV!Next, NAV!Recover, NAV!Journal, NAV!Look, NAV!ReceiveNothing,
   NAV!Abandon, NAV!Submit, NAV!Begin, NAV!Decide, NAV!RefuseUnsigned,
   NAV!Bind, NAV!Resume, NAV!Settle, NAV!RecordOutcome, NAV!Project,
   NAV!SignUpdate, NAV!GiveUp, NAV!Mine

LEMMA CapitalMoves == Capital!Next => Journaled
BY CapitalIs
   DEF Journaled, Capital!Claims, Claims,
   Capital!Next, Capital!Staff, Capital!Recover, Capital!Journal,
   Capital!Look, Capital!ReceiveNothing, Capital!Abandon, Capital!Draft,
   Capital!Review, Capital!Submit, Capital!Admit, Capital!Retry,
   Capital!Begin, Capital!ReadClaim, Capital!Bind, Capital!Resume,
   Capital!CheckPreparation, Capital!HoldForChain, Capital!Settle,
   Capital!ProjectExecuted, Capital!ProjectFailed, Capital!ProjectNothing,
   Capital!SetElsewhere, Capital!SignIncrease, Capital!GiveUp, Capital!Mine

LEMMA MintMoves == Mint!Next => Journaled
BY MintIs
   DEF Journaled, Mint!Claims, Claims,
   Mint!Next, Mint!Recover, Mint!Journal, Mint!ReceiveNothing, Mint!Abandon,
   Mint!Reject, Mint!Execute, Mint!Begin, Mint!ReadClaim, Mint!Retain,
   Mint!Bind, Mint!Resume, Mint!Project, Mint!SignMint, Mint!GiveUp, Mint!Mine

LEMMA DeployMoves == Deploy!Next => Journaled
BY DeployIs
   DEF Journaled, Deploy!Claims, Claims,
   Deploy!Next, Deploy!Recover, Deploy!Journal, Deploy!Look,
   Deploy!ReceiveNothing, Deploy!Abandon, Deploy!Start,
   Deploy!CreateElsewhere, Deploy!Deploy, Deploy!Begin, Deploy!ReadClaim,
   Deploy!Retain, Deploy!Bind, Deploy!Resume, Deploy!ReadFactory,
   Deploy!Settle, Deploy!RecordOutcome, Deploy!Project, Deploy!MarkProjected,
   Deploy!SignDeployment, Deploy!GiveUp, Deploy!Mine,
   Deploy!HoldExistingContract, Deploy!Holds, FailPreparing, Signs, Own, Owns,
   Deploy!Own, Deploy!Owns

LEMMA ApprovalMoves == Approval!Next => Journaled
BY ApprovalIs
   DEF Journaled, Approval!Claims, Claims,
   Approval!Next, Approval!Recover, Approval!Journal, Approval!Look,
   Approval!ReceiveNothing, Approval!Abandon, Approval!Retry, Approval!Begin,
   Approval!ReadContract, Approval!Decide, Approval!Bind, Approval!Resume,
   Approval!Settle, Approval!RecordOutcome, Approval!ApproveElsewhere,
   Approval!SignApproval, Approval!GiveUp, Approval!Mine

LEMMA WhitelistMoves == Whitelist!Next => Journaled
BY WhitelistIs
   DEF Journaled, Whitelist!Claims, Claims,
   Whitelist!Next, Whitelist!Recover, Whitelist!Sync, Whitelist!Journal,
   Whitelist!ReceiveNothing, Whitelist!Abandon, Whitelist!Admit,
   Whitelist!Begin, Whitelist!ReadMembership, Whitelist!RecordUnchanged,
   Whitelist!RecordDecision, Whitelist!Bind, Whitelist!Resume,
   Whitelist!Project, Whitelist!SyncBegin, Whitelist!SyncRead,
   Whitelist!SyncWrite, Whitelist!SignChange, Whitelist!GiveUp, Whitelist!Mine

LEMMA StepsAreJournaled == Next => Journaled
<1> SUFFICES ASSUME Next PROVE Journaled
  OBVIOUS
<1>1. CASE UNCHANGED operation
  BY <1>1 DEF Journaled
<1> QED BY <1>1, PauseMoves, NAVMoves, CapitalMoves, MintMoves, DeployMoves, ApprovalMoves,
        WhitelistMoves DEF Next

LEMMA InitIsSound == Init => OperationsSound
<1> SUFFICES ASSUME Init PROVE operation = [c \in Commands |-> NoOperation]
  BY BeginsSound
<1>1. subject \in Clients
  BY SubjectAssumption DEF Init
<1>2. CASE subject \in {"pause", "nav", "capital", "mint"}
  BY <1>2 DEF Init, Pause!Init, Pause!JournalInit, NAV!Init, NAV!JournalInit,
     Capital!Init, Capital!JournalInit, Mint!Init, Mint!JournalInit,
     Pause!NoOperation, NAV!NoOperation, Capital!NoOperation, Mint!NoOperation, NoOperation,
     Pause!Claims, NAV!Claims, Capital!Claims, Mint!Claims, Claims
<1>3. CASE subject \in {"deploy", "approval", "whitelist"}
  BY <1>3 DEF Init, Deploy!Init, Deploy!JournalInit, Approval!Init, Approval!JournalInit,
     Whitelist!Init, Whitelist!JournalInit,
     Deploy!NoOperation, Approval!NoOperation, Whitelist!NoOperation, NoOperation,
     Deploy!Claims, Approval!Claims, Whitelist!Claims, Claims
<1>4. CASE subject \in {"wallet", "orders", "files", "holders"}
  BY <1>4 DEF Init
<1> QED BY <1>1, <1>2, <1>3, <1>4 DEF Clients

\* Whichever client drives them, operations stay sound.
THEOREM OperationsInvariant == Spec => []OperationsSound
<1>1. OperationsSound /\ [Next]_vars => OperationsSound'
  <2>1. OperationsSound /\ UNCHANGED vars => OperationsSound'
    BY DEF vars, OperationsSound
  <2> QED BY <2>1, StepsAreJournaled, JournalKeepsSound
<1> QED BY InitIsSound, <1>1, PTL DEF Spec

\* No two transactions of one command can both execute, or have, for any number
\* of commands, runs and attempts and whichever of the seven clients drives them.
THEOREM EffectsAreUnique == Spec => []LiveOnce
BY OperationsInvariant, SoundIsOnce, PTL

-----------------------------------------------------------------------------
(* Runs.                                                                   *)

\* Whoever has a command in hand has one that exists.
RunsSound ==
    /\ worker \in [Workers -> Run]
    /\ \A w \in Workers :
          worker[w].pc \notin {"idle", "sync", "write"} => worker[w].command \in Commands

\* Only run w moves on.
Only(w) == \A v \in Workers : v # w => worker'[v] = worker[v]

\* It goes on with the command and the retry it had.
Carries(w) ==
    /\ worker'[w].command = worker[w].command
    /\ worker'[w].retry = worker[w].retry

LEMMA RunType ==
    ASSUME RunsSound, NEW w \in Workers
    PROVE  /\ worker[w].pc \in Steps /\ worker[w].command \in Commands \cup {None}
           /\ worker[w].claim \in 0..MaxClaims /\ worker[w].seen \in BOOLEAN
           /\ worker[w].retry \in 0..MaxClaims
BY DEF RunsSound, Run

LEMMA RunGoes ==
    ASSUME RunsSound, NEW w \in Workers, NEW r \in Run, worker' = [worker EXCEPT ![w] = r],
           r.pc \in {"idle", "sync", "write"} \/ r.command \in Commands
    PROVE  RunsSound' /\ Only(w) /\ worker'[w] = r
BY DEF RunsSound, Only

LEMMA GotoGoes ==
    ASSUME RunsSound, NEW w \in Workers, worker[w].command \in Commands,
           NEW pc \in Steps, Goto(w, pc)
    PROVE  /\ RunsSound' /\ Only(w) /\ Carries(w)
           /\ worker'[w].pc = pc /\ worker'[w].claim = worker[w].claim
           /\ worker'[w].seen = worker[w].seen
<1> DEFINE r == [worker[w] EXCEPT !.pc = pc]
<1>1. /\ r \in Run /\ r.pc = pc /\ r.command = worker[w].command /\ r.retry = worker[w].retry
      /\ r.claim = worker[w].claim /\ r.seen = worker[w].seen
  BY DEF RunsSound, Run
<1>2. worker' = [worker EXCEPT ![w] = r]
  BY DEF Goto
<1> HIDE DEF r
<1> QED BY <1>1, <1>2, RunGoes DEF Carries

LEMMA GotoSeeingGoes ==
    ASSUME RunsSound, NEW w \in Workers, worker[w].command \in Commands,
           NEW pc \in Steps, NEW seen \in BOOLEAN, GotoSeeing(w, pc, seen)
    PROVE  /\ RunsSound' /\ Only(w) /\ Carries(w)
           /\ worker'[w].pc = pc /\ worker'[w].claim = worker[w].claim
           /\ worker'[w].seen = seen
<1> DEFINE r == [worker[w] EXCEPT !.pc = pc, !.seen = seen]
<1>1. /\ r \in Run /\ r.pc = pc /\ r.command = worker[w].command /\ r.retry = worker[w].retry
      /\ r.claim = worker[w].claim /\ r.seen = seen
  BY DEF RunsSound, Run
<1>2. worker' = [worker EXCEPT ![w] = r]
  BY DEF GotoSeeing
<1> HIDE DEF r
<1> QED BY <1>1, <1>2, RunGoes DEF Carries

LEMMA IdleRun ==
    Idle \in Run /\ Idle.pc = "idle" /\ Idle.command = None /\ Idle.retry = 0 /\ ~Idle.seen
    /\ Idle.claim = 0
BY Bounded DEF Idle, Run, Steps

LEMMA FinishGoes ==
    ASSUME RunsSound, NEW w \in Workers, Finish(w)
    PROVE  RunsSound' /\ Only(w) /\ worker'[w] = Idle
BY RunGoes, IdleRun DEF Finish

LEMMA TakeGoes ==
    ASSUME RunsSound, NEW w \in Workers, NEW pc \in Steps, NEW c \in Commands,
           NEW retry \in 0..MaxClaims, Take(w, pc, c, retry)
    PROVE  /\ RunsSound' /\ Only(w)
           /\ worker'[w].pc = pc /\ worker'[w].command = c /\ worker'[w].retry = retry
           /\ worker'[w].claim = 0 /\ ~worker'[w].seen
<1> DEFINE r == [Idle EXCEPT !.pc = pc, !.command = c, !.retry = retry]
<1>1. \A x \in Run :
         LET y == [x EXCEPT !.pc = pc, !.command = c, !.retry = retry]
         IN  y \in Run /\ y.pc = pc /\ y.command = c /\ y.retry = retry /\ y.seen = x.seen
             /\ y.claim = x.claim
  BY DEF Run
<1>3. r \in Run /\ r.pc = pc /\ r.command = c /\ r.retry = retry /\ ~r.seen /\ r.claim = 0
  BY <1>1, IdleRun
<1>2. worker' = [worker EXCEPT ![w] = r]
  BY DEF Take
<1> HIDE DEF r
<1> QED BY <1>2, <1>3, RunGoes

LEMMA ClaimGoes ==
    ASSUME RunsSound, NEW w \in Workers, worker[w].command \in Commands,
           NEW pc \in Steps, NEW claim \in 0..MaxClaims,
           worker' = [worker EXCEPT ![w].pc = pc, ![w].claim = claim]
    PROVE  RunsSound' /\ Only(w) /\ Carries(w) /\ worker'[w].pc = pc /\ worker'[w].claim = claim
<1> DEFINE r == [worker[w] EXCEPT !.pc = pc, !.claim = claim]
<1>1. /\ r \in Run /\ r.pc = pc /\ r.command = worker[w].command /\ r.retry = worker[w].retry
      /\ r.claim = claim
  BY DEF RunsSound, Run
<1>2. worker' = [worker EXCEPT ![w] = r]
  OBVIOUS
<1> HIDE DEF r
<1> QED BY <1>1, <1>2, RunGoes DEF Carries

LEMMA RetryGoes ==
    ASSUME RunsSound, NEW w \in Workers, worker[w].command \in Commands,
           NEW pc \in Steps, NEW retry \in 0..MaxClaims,
           worker' = [worker EXCEPT ![w].pc = pc, ![w].retry = retry]
    PROVE  /\ RunsSound' /\ Only(w) /\ worker'[w].command = worker[w].command
           /\ worker'[w].pc = pc /\ worker'[w].retry = retry
<1> DEFINE r == [worker[w] EXCEPT !.pc = pc, !.retry = retry]
<1>1. /\ r \in Run /\ r.pc = pc /\ r.command = worker[w].command /\ r.retry = retry
  BY DEF RunsSound, Run
<1>2. worker' = [worker EXCEPT ![w] = r]
  OBVIOUS
<1> HIDE DEF r
<1> QED BY <1>1, <1>2, RunGoes

-----------------------------------------------------------------------------
(* Operations that move on.                                                *)

\* The attempt is the same, and one that ended stays ended.
Advances(o, p) ==
    /\ p.claim = o.claim
    /\ \/ p.status = o.status
       \/ (o.status = "preparing" /\ p.status \in {"signed", "failed"})
       \/ (o.status = "signed" /\ p.status \in {"confirmed", "reverted"})

AllAdvance == \A c \in Commands : Advances(operation[c], operation'[c])

\* None of them is signed.
NoneSigned ==
    \A c \in Commands : operation'[c].status = "signed" => operation[c].status = "signed"

LEMMA OneAdvances ==
    ASSUME operation \in [Commands -> Operation], NEW c, NEW p,
           operation' = [operation EXCEPT ![c] = p], c \in Commands => Advances(operation[c], p)
    PROVE  /\ AllAdvance
           /\ (c \in Commands /\ p.status = "signed" => operation[c].status = "signed") => NoneSigned
BY DEF AllAdvance, Advances, NoneSigned

LEMMA NoneMoves ==
    UNCHANGED operation => AllAdvance /\ NoneSigned /\ (OperationsSound => OperationsSound')
BY DEF AllAdvance, Advances, NoneSigned, OperationsSound

LEMMA SignAdvances ==
    ASSUME OperationsSound, NEW w \in Workers, Sign(w)
    PROVE  OperationsSound' /\ AllAdvance /\ At(w, "prepare") /\ Goto(w, "look")
<1> DEFINE c == worker[w].command
           o == operation[c]
           p == [o EXCEPT !.status = "signed", !.tx[o.claim] = "signed"]
<1>1. o.claim = worker[w].claim /\ o.status = "preparing"
  BY DEF Sign, Signs, Owns, Own
<1>2. operation' = [operation EXCEPT ![c].status = "signed", ![c].tx[o.claim] = "signed"]
  BY <1>1 DEF Sign
<1>3. operation' = [operation EXCEPT ![c] = p]
  BY <1>2 DEF OperationsSound, Operation
<1>4. c \in Commands => Advances(o, p)
  BY <1>1 DEF Advances, OperationsSound, Operation
<1> HIDE DEF c, p
<1>5. OperationsSound'
  BY JournalKeepsSound DEF Journaled
<1> QED BY <1>3, <1>4, <1>5, OneAdvances DEF Sign, OperationsSound

LEMMA FailAdvances ==
    ASSUME OperationsSound, NEW w \in Workers, FailPreparing(w)
    PROVE  OperationsSound' /\ AllAdvance /\ NoneSigned
<1> DEFINE c == worker[w].command
           p == [operation[c] EXCEPT !.status = "failed"]
<1>1. OperationsSound'
  BY JournalKeepsSound DEF Journaled
<1>2. CASE Signs(w)
  <2>1. operation' = [operation EXCEPT ![c] = p]
    BY <1>2 DEF FailPreparing
  <2>2. c \in Commands => Advances(operation[c], p) /\ p.status = "failed"
    BY <1>2 DEF Advances, OperationsSound, Operation, Signs, Own
  <2> HIDE DEF c, p
  <2> QED BY <1>1, <2>1, <2>2, OneAdvances DEF OperationsSound
<1>3. CASE ~Signs(w)
  BY <1>1, <1>3, NoneMoves DEF FailPreparing
<1> QED BY <1>2, <1>3

LEMMA MinedAdvances ==
    ASSUME OperationsSound, NEW c \in Commands, NEW k \in Claims,
           NEW outcome \in {"mined", "reverted"}, Mined(c, k, outcome)
    PROVE  OperationsSound' /\ AllAdvance /\ NoneSigned /\ worker' = worker
<1> DEFINE p == [operation[c] EXCEPT !.tx[k] = outcome]
<1>1. operation' = [operation EXCEPT ![c] = p] /\ worker' = worker
  BY DEF Mined
<1>2. Advances(operation[c], p) /\ p.status = operation[c].status
  BY DEF Advances, OperationsSound, Operation
<1>3. OperationsSound'
  BY JournalKeepsSound DEF Journaled
<1> HIDE DEF p
<1> QED BY <1>1, <1>2, <1>3, OneAdvances DEF OperationsSound

\* The steps of the journal that open nothing.
Followed(w) == Receive(w) \/ ReceiveNothing(w) \/ Broadcast(w) \/ Abandon(w) \/ Look(w)

LEMMA FollowedAdvances ==
    ASSUME OperationsSound, NEW w \in Workers, Followed(w)
    PROVE  OperationsSound' /\ AllAdvance /\ NoneSigned
<1>1. ASSUME Receive(w) PROVE OperationsSound' /\ AllAdvance /\ NoneSigned
  <2> DEFINE c == worker[w].command
             o == operation[c]
             p == [o EXCEPT !.status = IF o.tx[o.claim] = "mined" THEN "confirmed" ELSE "reverted"]
  <2>1. o.claim = worker[w].claim /\ o.status = "signed" /\ o.tx[o.claim] \in {"mined", "reverted"}
    BY <1>1 DEF Receive, Owns, Own
  <2>2. operation' = [operation EXCEPT ![c] = p]
    BY <1>1, <2>1 DEF Receive, Own
  <2>3. operation[c].status = "signed" /\ (c \in Commands => Advances(o, p))
    BY <2>1 DEF Advances, OperationsSound, Operation
  <2>4. OperationsSound'
    BY <1>1, JournalKeepsSound DEF Journaled
  <2> HIDE DEF c, p
  <2> QED BY <2>2, <2>3, <2>4, OneAdvances DEF OperationsSound
<1>2. ASSUME Broadcast(w) PROVE OperationsSound' /\ AllAdvance /\ NoneSigned
  <2> DEFINE c == worker[w].command
             k == worker[w].claim
             p == [operation[c] EXCEPT !.tx[k] = "sent"]
  <2>1. OperationsSound'
    BY <1>2, JournalKeepsSound DEF Journaled
  <2>2. CASE UNCHANGED operation
    BY <2>1, <2>2, NoneMoves
  <2>3. CASE operation' = [operation EXCEPT ![c] = p]
    <3>1. c \in Commands => Advances(operation[c], p) /\ p.status = operation[c].status
      BY DEF Advances, OperationsSound, Operation
    <3> HIDE DEF c, p
    <3> QED BY <2>1, <2>3, <3>1, OneAdvances DEF OperationsSound
  <2> QED BY <1>2, <2>2, <2>3 DEF Broadcast
<1>3. CASE UNCHANGED operation
  BY <1>3, NoneMoves DEF OperationsSound
<1> QED BY <1>1, <1>2, <1>3 DEF Followed, ReceiveNothing, Abandon, Look

\* They lead a run on with its command and its claim, or end it.
LEMMA FollowedGoes ==
    ASSUME RunsSound, NEW w \in Workers, Followed(w)
    PROVE  /\ RunsSound' /\ Only(w)
           /\ \/ worker'[w] = Idle
              \/ /\ Carries(w) /\ worker'[w].claim = worker[w].claim
                 /\ worker'[w].seen = worker[w].seen
                 /\ worker[w].pc \in {"reconcile", "broadcast", "observe", "look"}
                 /\ worker'[w].pc \in {"reconcile", "broadcast", "observe", "settle"}
<1>1. CASE Finish(w)
  BY <1>1, FinishGoes
<1>2. ASSUME NEW pc \in {"reconcile", "broadcast", "observe", "settle"}, Goto(w, pc),
             worker[w].pc \in {"reconcile", "broadcast", "observe", "look"}
      PROVE  /\ RunsSound' /\ Only(w) /\ Carries(w) /\ worker'[w].claim = worker[w].claim
             /\ worker'[w].pc = pc /\ worker'[w].seen = worker[w].seen
  <2>1. worker[w].command \in Commands /\ pc \in Steps
    BY <1>2 DEF RunsSound, Steps
  <2> QED BY <1>2, <2>1, GotoGoes
<1>3. \/ Finish(w)
      \/ /\ \E pc \in {"reconcile", "broadcast", "observe", "settle"} : Goto(w, pc)
         /\ worker[w].pc \in {"reconcile", "broadcast", "observe", "look"}
  BY DEF Followed, Receive, ReceiveNothing, Broadcast, Abandon, Look, At
<1> QED BY <1>1, <1>2, <1>3

\* Opening an operation: one that was never opened, or the failed attempt the
\* run was admitted to retry.
LEMMA OpenDoes ==
    ASSUME OperationsSound, RunsSound, NEW w \in Workers, Open(w)
    PROVE  /\ OperationsSound' /\ RunsSound' /\ Only(w) /\ Carries(w)
           /\ worker[w].pc = "open" /\ worker'[w].pc = "bind"
           /\ worker[w].command \in Commands
           /\ worker'[w].claim = operation'[worker[w].command].claim
           /\ worker'[w].seen = worker[w].seen
           /\ \A d \in Commands : d # worker[w].command => operation'[d] = operation[d]
           /\ \/ /\ operation' = operation /\ operation[worker[w].command].status # "none"
                 /\ ~Reopens(operation[worker[w].command], worker[w].retry)
              \/ LET o == operation[worker[w].command]
                     p == operation'[worker[w].command]
                 IN  /\ o.status = "none" \/ Reopens(o, worker[w].retry)
                     /\ p.status = "preparing" /\ p.claim = o.claim + 1 /\ p.tx = o.tx
<1> DEFINE c == worker[w].command
           o == operation[c]
           p == operation'[c]
<1>1. At(w, "open") /\ c \in Commands
  BY DEF Open, At, RunsSound
<1>2. OperationsSound'
  BY JournalKeepsSound DEF Journaled
<1>3. p \in Operation /\ p.claim \in 0..MaxClaims
  BY <1>1, <1>2 DEF OperationsSound, Operation
<1>4. /\ RunsSound' /\ Only(w) /\ Carries(w) /\ worker'[w].pc = "bind"
      /\ worker'[w].claim = p.claim /\ worker'[w].seen = worker[w].seen
  <2> DEFINE r == [worker[w] EXCEPT !.pc = "bind", !.claim = p.claim]
  <2>1. worker' = [worker EXCEPT ![w].pc = "bind", ![w].claim = p.claim]
    BY DEF Open
  <2>2. worker' = [worker EXCEPT ![w] = r]
    BY <2>1 DEF RunsSound, Run
  <2>3. /\ r \in Run /\ r.pc = "bind" /\ r.command = c /\ r.retry = worker[w].retry
        /\ r.claim = p.claim /\ r.seen = worker[w].seen
    BY <1>3 DEF RunsSound, Run, Steps
  <2> HIDE DEF r, p
  <2> QED BY <1>1, <2>2, <2>3, RunGoes DEF Carries
<1>5. CASE /\ o.status = "none" \/ Reopens(o, worker[w].retry)
           /\ operation' = [operation EXCEPT ![c].status = "preparing", ![c].claim = @ + 1]
  <2>1. o \in [status : {"none", "preparing", "signed", "confirmed", "reverted", "failed"},
               claim : 0..MaxClaims, tx : [Claims -> TxState]]
    BY <1>1 DEF OperationsSound, Operation
  <2>2. operation' = [operation EXCEPT ![c] = [o EXCEPT !.status = "preparing", !.claim = o.claim + 1]]
    BY <1>5, <2>1 DEF OperationsSound
  <2>3. p.status = "preparing" /\ p.claim = o.claim + 1 /\ p.tx = o.tx
    BY <1>1, <2>1, <2>2 DEF OperationsSound
  <2>4. \A d \in Commands : d # c => operation'[d] = operation[d]
    BY <2>2 DEF OperationsSound
  <2> QED BY <1>1, <1>2, <1>4, <1>5, <2>3, <2>4 DEF At
<1>6. CASE o.status # "none" /\ ~Reopens(o, worker[w].retry) /\ UNCHANGED operation
  BY <1>1, <1>2, <1>4, <1>6 DEF At
<1> QED BY <1>5, <1>6 DEF Open

\* What an attempt whose transaction was signed can be.
Attempted == {"signed", "confirmed", "reverted"}

LEMMA SignedIsAttempted ==
    ASSUME NEW o, Sound(o)
    PROVE  /\ o.claim \in 0..MaxClaims
           /\ (o.claim # 0 /\ o.tx[o.claim] # "none") <=> o.status \in Attempted
<1>1. /\ o.claim \in 0..MaxClaims
      /\ o.status \in {"none", "preparing", "signed", "confirmed", "reverted", "failed"}
      /\ (o.status = "none" <=> o.claim = 0)
  BY DEF Sound, Operation
<1>2. o.claim # 0 => o.claim \in Claims
  BY <1>1, Bounded
<1> QED BY <1>1, <1>2 DEF Sound, Attempted

\* What may still execute is signed, or confirmed.
LEMMA LiveIsSigned ==
    ASSUME OperationsSound, NEW c \in Commands, Live(c)
    PROVE  operation[c].status \in {"signed", "confirmed"}
<1>1. Sound(operation[c])
  BY DEF OperationsSound
<1>2. PICK k \in Claims : operation[c].tx[k] \in {"signed", "sent", "mined"}
  BY DEF Live
<1>3. operation[c].claim \in 0..MaxClaims /\ operation[c].status \in
         {"none", "preparing", "signed", "confirmed", "reverted", "failed"}
  BY <1>1 DEF Sound, Operation
<1>4. k = operation[c].claim
  BY <1>1, <1>2, <1>3, Bounded DEF Sound
<1> QED BY <1>1, <1>2, <1>3, <1>4, Bounded DEF Sound

-----------------------------------------------------------------------------
(* PauseChange.                                                            *)

\* A row that was not decided has no operation, and one that ended says what
\* became of it.
PauseFits(o, r) ==
    /\ r \in Pause!Change
    /\ r.status \in {"none", "pending", "observed"} => o.status = "none" /\ ~r.bound
    /\ r.status = "confirmed" => o.status = "confirmed" /\ r.bound
    /\ r.status = "failed" => IF r.bound THEN o.status \in Undone ELSE o.status = "none"
    /\ r.completed => r.status \in Pause!Terminal

\* No run names an attempt to reopen, none opens one for a row that was refused,
\* and what one saw of an event came from a confirmed attempt.
PauseSuits(v, o, r) ==
    /\ v.retry = 0
    /\ r.status # "none"
    /\ v.pc = "open" => r.status \in {"executing", "confirmed"} \/ (r.status = "failed" /\ r.bound)
    /\ v.seen => v.pc = "decide" \/ o.status = "confirmed"

PauseInv ==
    /\ OperationsSound /\ RunsSound
    /\ row \in [Commands -> Pause!Change]
    /\ \A c \in Commands : PauseFits(operation[c], row[c])
    /\ \A w \in Workers : worker[w].pc # "idle" =>
          /\ worker[w].command \in Commands
          /\ PauseSuits(worker[w], operation[worker[w].command], row[worker[w].command])

LEMMA PauseRuns ==
    /\ \A w, pc : Pause!At(w, pc) <=> worker[w].pc = pc
    /\ \A w, pc : Pause!Goto(w, pc) <=> Goto(w, pc)
    /\ \A w, pc, seen : Pause!GotoSeeing(w, pc, seen) <=> GotoSeeing(w, pc, seen)
    /\ \A w : Pause!Finish(w) <=> Finish(w)
    /\ \A w, pc, c, retry : Pause!Take(w, pc, c, retry) <=> Take(w, pc, c, retry)
    /\ \A w : Pause!Own(w) = operation[worker[w].command]
    /\ \A w : Pause!Signs(w) <=> Signs(w)
    /\ \A w : Pause!Journal(w) \/ Pause!Look(w) <=> Open(w) \/ Followed(w)
    /\ Pause!Undone = Undone
<1>1. \A w : Pause!Journal(w) \/ Pause!Look(w) <=> Open(w) \/ Followed(w)
  BY PauseIs DEF Pause!Journal, Pause!Look, Look, Pause!ReceiveNothing, ReceiveNothing,
     Pause!Abandon, Abandon, Followed, Pause!At, At, Pause!Goto, Goto, Pause!Finish, Finish,
     Pause!Idle, Idle, Pause!Own, Own, Pause!Owns, Owns
<1>2. /\ \A w, pc : Pause!Goto(w, pc) <=> Goto(w, pc)
      /\ \A w, pc, seen : Pause!GotoSeeing(w, pc, seen) <=> GotoSeeing(w, pc, seen)
      /\ \A w : Pause!Finish(w) <=> Finish(w)
      /\ \A w, pc, c, retry : Pause!Take(w, pc, c, retry) <=> Take(w, pc, c, retry)
  BY DEF Pause!Goto, Goto, Pause!GotoSeeing, GotoSeeing, Pause!Finish, Finish, Pause!Idle, Idle,
     Pause!Take, Take
<1>3. /\ \A w, pc : Pause!At(w, pc) <=> worker[w].pc = pc
      /\ \A w : Pause!Own(w) = operation[worker[w].command]
      /\ \A w : Pause!Signs(w) <=> Signs(w)
      /\ Pause!Undone = Undone
  BY DEF Pause!At, Pause!Own, Own, Pause!Signs, Signs, Pause!Owns, Owns, Pause!Undone
<1> QED BY <1>1, <1>2, <1>3

\* An operation that moves on leaves what was said of it true.
LEMMA PauseFitsOn ==
    ASSUME NEW o, NEW p, NEW r, PauseFits(o, r), Advances(o, p)
    PROVE  PauseFits(p, r)
BY DEF PauseFits, Advances

LEMMA PauseSuitsOn ==
    ASSUME NEW v, NEW o, NEW p, NEW r, PauseSuits(v, o, r), Advances(o, p)
    PROVE  PauseSuits(v, p, r)
BY DEF PauseSuits, Advances

\* A sweep touches a row that stays as it is.
LEMMA PauseTouched ==
    ASSUME NEW c \in Commands, PauseFits(operation'[c], row[c]), row'[c] = row[c]
    PROVE  row'[c].status # "none" => Pause!ChangeGuard(c)
BY DEF PauseFits, Pause!ChangeGuard, Pause!Undone, Pause!Terminal, Pause!Change, Pause!ChangeStatus

LEMMA PauseAdvances ==
    ASSUME PauseInv, OperationsSound', RunsSound', AllAdvance, row' = row,
           \A w \in Workers :
              \/ worker'[w] = worker[w] \/ worker'[w].pc = "idle"
              \/ /\ worker'[w].command \in Commands
                 /\ PauseSuits(worker'[w], operation[worker'[w].command], row[worker'[w].command])
    PROVE  PauseInv' /\ Pause!Guards
<1>1. \A c \in Commands : PauseFits(operation'[c], row'[c])
  BY PauseFitsOn DEF PauseInv, AllAdvance
<1>2. ASSUME NEW w \in Workers, worker'[w].pc # "idle"
      PROVE  /\ worker'[w].command \in Commands
             /\ PauseSuits(worker'[w], operation'[worker'[w].command], row'[worker'[w].command])
  <2> DEFINE c == worker'[w].command
  <2>1. c \in Commands /\ PauseSuits(worker'[w], operation[c], row[c])
    BY <1>2 DEF PauseInv
  <2>2. Advances(operation[c], operation'[c])
    BY <2>1 DEF AllAdvance
  <2> QED BY <2>1, <2>2, PauseSuitsOn
<1>3. ASSUME NEW c \in Commands
      PROVE  (row'[c].status # "none" => Pause!ChangeGuard(c)) /\ Pause!OperationGuard(c)
  <2>1. Advances(operation[c], operation'[c])
    BY DEF AllAdvance
  <2>2. Pause!OperationGuard(c)
    BY <2>1 DEF Pause!OperationGuard, Pause!Inserted, Pause!Reclaimed, Advances
  <2> QED BY <1>1, <2>2, PauseTouched
<1> QED BY <1>1, <1>2, <1>3 DEF PauseInv, Pause!Guards

\* A step of one row, its operation and the runs that have it in hand.
LEMMA PauseSteps ==
    ASSUME PauseInv, OperationsSound', RunsSound', NEW c \in Commands, NEW r \in Pause!Change,
           row' = [row EXCEPT ![c] = r],
           \A d \in Commands : d # c => operation'[d] = operation[d],
           PauseFits(operation'[c], r),
           \A v \in Run : PauseSuits(v, operation[c], row[c]) => PauseSuits(v, operation'[c], r),
           \A w \in Workers :
              \/ worker'[w] = worker[w] \/ worker'[w].pc = "idle"
              \/ (worker'[w].command = c /\ PauseSuits(worker'[w], operation'[c], r)),
           (row'[c].status # "none" => Pause!ChangeGuard(c)) /\ Pause!OperationGuard(c)
    PROVE  PauseInv' /\ Pause!Guards
<1>1. row' \in [Commands -> Pause!Change] /\ row'[c] = r
      /\ \A d \in Commands : d # c => row'[d] = row[d]
  BY DEF PauseInv
<1>2. \A d \in Commands : PauseFits(operation'[d], row'[d])
  BY <1>1 DEF PauseInv
<1>3. ASSUME NEW w \in Workers, worker'[w].pc # "idle"
      PROVE  /\ worker'[w].command \in Commands
             /\ PauseSuits(worker'[w], operation'[worker'[w].command], row'[worker'[w].command])
  <2>1. CASE worker'[w].command = c /\ PauseSuits(worker'[w], operation'[c], r)
    BY <1>1, <2>1
  <2>2. CASE worker'[w] = worker[w]
    <3>1. worker[w] \in Run /\ worker[w].command \in Commands
          /\ PauseSuits(worker[w], operation[worker[w].command], row[worker[w].command])
      BY <1>3, <2>2 DEF PauseInv, RunsSound
    <3>2. CASE worker[w].command = c
      BY <1>1, <2>2, <3>1, <3>2
    <3>3. CASE worker[w].command # c
      BY <1>1, <2>2, <3>1, <3>3
    <3> QED BY <3>2, <3>3
  <2> QED BY <1>3, <2>1, <2>2
<1>4. ASSUME NEW d \in Commands
      PROVE  (row'[d].status # "none" => Pause!ChangeGuard(d)) /\ Pause!OperationGuard(d)
  <2>1. CASE d = c
    BY <2>1
  <2>2. CASE d # c
    <3>1. row'[d] = row[d] /\ operation'[d] = operation[d]
      BY <1>1, <2>2
    <3>2. Pause!OperationGuard(d)
      BY <3>1 DEF Pause!OperationGuard, Pause!Inserted, Pause!Reclaimed
    <3> QED BY <1>2, <3>1, <3>2, PauseTouched
  <2> QED BY <2>1, <2>2
<1> QED BY <1>1, <1>2, <1>3, <1>4 DEF PauseInv, Pause!Guards

LEMMA PauseOpens ==
    ASSUME PauseInv, NEW w \in Workers, Open(w), row' = row
    PROVE  PauseInv' /\ Pause!Guards
<1> DEFINE c == worker[w].command
           o == operation[c]
           p == operation'[c]
<1>1. /\ OperationsSound' /\ RunsSound' /\ Only(w) /\ Carries(w) /\ c \in Commands
      /\ worker[w].pc = "open" /\ worker'[w].pc = "bind" /\ worker'[w].seen = worker[w].seen
      /\ \A d \in Commands : d # c => operation'[d] = operation[d]
      /\ \/ operation' = operation
         \/ /\ o.status = "none" \/ Reopens(o, worker[w].retry)
            /\ p.status = "preparing" /\ p.claim = o.claim + 1
  BY OpenDoes DEF PauseInv
<1>2. row[c] \in Pause!Change /\ PauseFits(o, row[c]) /\ PauseSuits(worker[w], o, row[c])
  BY <1>1 DEF PauseInv
<1>3. Sound(o)
  BY <1>1 DEF PauseInv, OperationsSound
<1>4. worker'[w].command = c /\ PauseSuits(worker'[w], o, row[c])
  BY <1>1, <1>2 DEF PauseSuits, Carries
<1>5. CASE operation' = operation
  BY <1>1, <1>4, <1>5, NoneMoves, PauseAdvances DEF Only, PauseInv
<1>6. CASE /\ o.status = "none" \/ Reopens(o, worker[w].retry)
           /\ p.status = "preparing" /\ p.claim = o.claim + 1
  <2>1. o.status = "none"
    BY <1>2, <1>3, <1>6 DEF PauseSuits, Reopens, Sound
  <2>2. row[c].status = "executing"
    BY <1>1, <1>2, <2>1 DEF PauseSuits, PauseFits
  <2>3. PauseFits(p, row[c]) /\ row[c].status # "none"
    BY <1>2, <2>2 DEF PauseFits, Pause!Terminal
  <2>4. \A v \in Run : PauseSuits(v, o, row[c]) => PauseSuits(v, p, row[c])
    BY <2>1 DEF PauseSuits
  <2>5. \A x \in Workers : \/ worker'[x] = worker[x]
                             \/ (worker'[x].command = c /\ PauseSuits(worker'[x], p, row[c]))
    <3>1. PauseSuits(worker'[w], p, row[c])
      BY <1>1, <1>4, <2>1 DEF PauseSuits
    <3> HIDE DEF p, c
    <3> QED BY <1>1, <1>4, <3>1 DEF Only
  <2>6. Pause!OperationGuard(c)
    BY <1>2, <2>1, <2>2 DEF Pause!OperationGuard, Pause!Inserted, Pause!Reclaimed, PauseFits, Pause!Terminal
  <2>7. row'[c].status # "none" => Pause!ChangeGuard(c)
    BY <1>1, <2>3, PauseTouched
  <2>8. row' = [row EXCEPT ![c] = row[c]]
    BY DEF PauseInv
  <2> HIDE DEF c, o, p
  <2> QED BY <1>1, <1>2, <2>3, <2>4, <2>5, <2>6, <2>7, <2>8, PauseSteps DEF o, p
<1> QED BY <1>1, <1>5, <1>6

\* Steps of one run that touch no row.
LEMMA PauseGoes ==
    ASSUME PauseInv, NEW w \in Workers, row' = row, OperationsSound', AllAdvance,
           RunsSound', Only(w), worker[w].pc # "idle",
           \/ worker'[w].pc = "idle"
           \/ /\ Carries(w)
              /\ worker'[w].pc # "open" \/ worker[w].pc = "open"
              /\ worker'[w].seen => worker'[w].pc = "decide"
                                    \/ operation[worker[w].command].status = "confirmed"
    PROVE  PauseInv' /\ Pause!Guards
<1> DEFINE c == worker[w].command
<1>1. c \in Commands /\ PauseSuits(worker[w], operation[c], row[c])
  BY DEF PauseInv
<1>2. \/ worker'[w].pc = "idle"
      \/ (worker'[w].command = c /\ PauseSuits(worker'[w], operation[c], row[c]))
  BY <1>1 DEF PauseSuits, Carries
<1> HIDE DEF c
<1> QED BY <1>1, <1>2, PauseAdvances DEF Only

LEMMA PauseStaff ==
    ASSUME PauseInv, NEW c \in Commands, NEW paused \in BOOLEAN, Pause!Submit(c, paused)
    PROVE  PauseInv' /\ Pause!Guards
<1> DEFINE r == [status |-> IF Pause!Refused(c) THEN "failed" ELSE "pending", paused |-> paused,
                 bound |-> FALSE, completed |-> Pause!Refused(c)]
<1>1. row' = [row EXCEPT ![c] = r] /\ row[c].status = "none" /\ UNCHANGED <<operation, worker>>
  BY DEF Pause!Submit
<1>2. /\ Pause!Refused(c) \in BOOLEAN
      /\ r.status = IF Pause!Refused(c) THEN "failed" ELSE "pending"
      /\ r \in Pause!Change /\ r.completed = Pause!Refused(c) /\ ~r.bound
  BY DEF Pause!Change, Pause!ChangeStatus, Pause!Refused
<1> HIDE DEF r
<1>3. operation[c].status = "none" /\ PauseFits(operation[c], row[c])
  BY <1>1 DEF PauseInv, PauseFits
<1>4. PauseFits(operation[c], r)
  BY <1>2, <1>3 DEF PauseFits, Pause!Terminal
<1>5. \A v \in Run : ~PauseSuits(v, operation[c], row[c])
  BY <1>1 DEF PauseSuits
<1>6. row'[c] = r
  BY <1>1 DEF PauseInv
<1>7. Pause!ChangeGuard(c) /\ Pause!OperationGuard(c)
  BY <1>1, <1>2, <1>3, <1>6 DEF PauseFits, Pause!ChangeGuard, Pause!OperationGuard,
     Pause!Inserted, Pause!Reclaimed, Pause!Terminal, Pause!Undone
<1>8. OperationsSound' /\ RunsSound'
  BY <1>1 DEF PauseInv, OperationsSound, RunsSound
<1> QED BY <1>1, <1>2, <1>4, <1>5, <1>7, <1>8, PauseSteps

\* Steps of one run that write the row it has in hand.
LEMMA PauseWrites ==
    ASSUME PauseInv, NEW w \in Workers, NEW c \in Commands, NEW r \in Pause!Change,
           UNCHANGED operation, row' = [row EXCEPT ![c] = r], RunsSound', Only(w),
           PauseFits(operation[c], r),
           \A v \in Run : PauseSuits(v, operation[c], row[c]) => PauseSuits(v, operation[c], r),
           \/ worker'[w].pc = "idle"
           \/ (worker'[w].command = c /\ PauseSuits(worker'[w], operation[c], r)),
           Pause!ChangeGuard(c)
    PROVE  PauseInv' /\ Pause!Guards
<1>1. OperationsSound'
  BY NoneMoves DEF PauseInv
<1>2. Pause!OperationGuard(c)
  BY DEF Pause!OperationGuard, Pause!Inserted, Pause!Reclaimed
<1>3. \A x \in Workers :
         \/ worker'[x] = worker[x] \/ worker'[x].pc = "idle"
         \/ (worker'[x].command = c /\ PauseSuits(worker'[x], operation[c], r))
  BY DEF Only
<1> QED BY <1>1, <1>2, <1>3, PauseSteps

LEMMA PauseInHand ==
    ASSUME PauseInv, NEW w \in Workers, worker[w].pc # "idle"
    PROVE  LET c == worker[w].command IN
           /\ c \in Commands /\ PauseSuits(worker[w], operation[c], row[c])
           /\ PauseFits(operation[c], row[c]) /\ row[c] \in Pause!Change /\ Sound(operation[c])
           /\ RunsSound /\ OperationsSound
BY DEF PauseInv, OperationsSound

LEMMA PauseDecides ==
    ASSUME PauseInv, NEW w \in Workers, Pause!RecordDecision(w) \/ Pause!RefuseUnsigned(w)
    PROVE  PauseInv' /\ Pause!Guards
<1> DEFINE c == worker[w].command
           o == operation[c]
           old == row[c]
<1>1. /\ c \in Commands /\ PauseSuits(worker[w], o, old) /\ PauseFits(o, old)
      /\ old \in Pause!Change /\ RunsSound /\ worker[w].pc \in {"decide", "refused"}
  BY PauseInHand, PauseRuns DEF Pause!RecordDecision, Pause!RefuseUnsigned
<1>2. PICK status \in Pause!ChangeStatus :
         /\ row' = [row EXCEPT ![c].status = status] /\ UNCHANGED operation
         /\ status # old.status =>
               /\ old.status = "pending"
               /\ status = "executing" \/ (status \in {"observed", "failed"} /\ o.status = "none")
  <2>1. CASE row' = row /\ UNCHANGED operation
    <3>1. row' = [row EXCEPT ![c].status = old.status] /\ old.status \in Pause!ChangeStatus
      BY <1>1, <2>1 DEF PauseInv, Pause!Change
    <3> QED BY <2>1, <3>1
  <2>2. CASE /\ Pause!RecordDecision(w) /\ old.status = "pending" /\ o.status = "none"
             /\ row' = [row EXCEPT ![c].status =
                   IF worker[w].seen = old.paused THEN "observed" ELSE "executing"]
    BY <2>2 DEF Pause!RecordDecision, Pause!ChangeStatus
  <2>3. CASE /\ Pause!RefuseUnsigned(w) /\ old.status = "pending" /\ o.status = "none"
             /\ row' = [row EXCEPT ![c].status = "failed"]
    BY <2>3 DEF Pause!RefuseUnsigned, Pause!ChangeStatus
  <2> QED BY <2>1, <2>2, <2>3, PauseRuns DEF Pause!RecordDecision, Pause!RefuseUnsigned,
             Pause!Undecided, Pause!Row
<1> DEFINE r == [old EXCEPT !.status = status]
<1>3. /\ r \in Pause!Change /\ r.status = status /\ r.bound = old.bound
      /\ r.completed = old.completed /\ r.paused = old.paused
      /\ row' = [row EXCEPT ![c] = r] /\ row'[c] = r /\ (status = old.status => r = old)
  BY <1>1, <1>2 DEF PauseInv, Pause!Change
<1>4. ASSUME NEW pc \in Steps, pc # "idle",
             (Goto(w, pc) /\ worker[w].pc = "refused") \/ GotoSeeing(w, pc, FALSE),
             pc = "open" => row'[c].status = "executing"
      PROVE  /\ RunsSound' /\ Only(w) /\ worker'[w].command = c
             /\ worker'[w].retry = worker[w].retry
             /\ worker'[w].pc = "open" => status = "executing"
             /\ worker'[w].seen => worker[w].seen /\ worker[w].pc = "refused"
  BY <1>1, <1>3, <1>4, GotoGoes, GotoSeeingGoes DEF Carries
<1>5. /\ RunsSound' /\ Only(w) /\ worker'[w].command = c
      /\ worker'[w].retry = worker[w].retry
      /\ worker'[w].pc = "open" => status = "executing"
      /\ worker'[w].seen => worker[w].seen /\ worker[w].pc = "refused"
  <2>1. CASE Pause!RecordDecision(w)
    <3>1. \/ GotoSeeing(w, "refused", FALSE)
          \/ GotoSeeing(w, Pause!Onward(row'[c].status), FALSE)
      <4>1. CASE old.status # "pending"
        BY <1>1, <2>1, <4>1, PauseRuns DEF Pause!RecordDecision, Pause!Undecided, Pause!Row
      <4>2. CASE old.status = "pending" /\ (~target.owned \/ o.status # "none")
        BY <2>1, <4>2, PauseRuns DEF Pause!RecordDecision, Pause!Undecided, Pause!Row
      <4>3. CASE old.status = "pending" /\ target.owned /\ o.status = "none"
        <5> DEFINE x == IF worker[w].seen = old.paused THEN "observed" ELSE "executing"
        <5>1. row' = [row EXCEPT ![c].status = x] /\ GotoSeeing(w, Pause!Onward(x), FALSE)
          BY <2>1, <4>3, PauseRuns DEF Pause!RecordDecision, Pause!Undecided, Pause!Row
        <5>2. row'[c].status = x
          BY <1>1, <5>1 DEF PauseInv, Pause!Change
        <5> QED BY <5>1, <5>2
      <4> QED BY <4>1, <4>2, <4>3
    <3>2. /\ Pause!Onward(row'[c].status) \in Steps /\ Pause!Onward(row'[c].status) # "idle"
          /\ Pause!Onward(row'[c].status) = "open" => row'[c].status = "executing"
      BY DEF Pause!Onward, Steps
    <3>3. "refused" \in Steps
      BY DEF Steps
    <3> QED BY <1>4, <3>1, <3>2, <3>3
  <2>2. CASE Pause!RefuseUnsigned(w)
    BY <1>1, <1>3, <1>4, <2>2, PauseRuns DEF Pause!RefuseUnsigned, Pause!Row, Steps
  <2> QED BY <2>1, <2>2
<1> HIDE DEF r
<1>6. PauseFits(o, r)
  BY <1>1, <1>2, <1>3 DEF PauseFits, Pause!Terminal
<1>7. \A v \in Run : PauseSuits(v, o, old) => PauseSuits(v, o, r)
  BY <1>1, <1>2, <1>3 DEF PauseSuits, Pause!Change
<1>8. PauseSuits(worker'[w], o, r)
  BY <1>1, <1>2, <1>3, <1>4, <1>5 DEF PauseSuits
<1>9. Pause!ChangeGuard(c)
  BY <1>1, <1>2, <1>3 DEF Pause!ChangeGuard, Pause!Transitions, PauseFits, PauseSuits,
     Pause!Terminal, Pause!Undone
<1> QED BY <1>1, <1>2, <1>3, <1>5, <1>6, <1>7, <1>8, <1>9, PauseWrites

LEMMA PauseBinds ==
    ASSUME PauseInv, NEW w \in Workers, Pause!Bind(w)
    PROVE  PauseInv' /\ Pause!Guards
<1> DEFINE c == worker[w].command
           o == operation[c]
           old == row[c]
           r == [old EXCEPT !.bound = TRUE]
<1>1. /\ c \in Commands /\ PauseSuits(worker[w], o, old) /\ PauseFits(o, old)
      /\ old \in Pause!Change /\ RunsSound /\ worker[w].pc = "bind"
  BY PauseInHand, PauseRuns DEF Pause!Bind
<1>2. /\ old.bound \/ old.status = "executing"
      /\ row' = [row EXCEPT ![c].bound = TRUE] /\ UNCHANGED operation /\ Goto(w, "resume")
  BY PauseRuns DEF Pause!Bind, Pause!Row
<1>3. /\ r \in Pause!Change /\ r.status = old.status /\ r.bound
      /\ r.completed = old.completed /\ (old.bound => r = old)
      /\ row' = [row EXCEPT ![c] = r] /\ row'[c] = r
  BY <1>1, <1>2 DEF PauseInv, Pause!Change
<1>4. /\ RunsSound' /\ Only(w) /\ worker'[w].command = c /\ worker'[w].pc = "resume"
      /\ worker'[w].retry = worker[w].retry /\ worker'[w].seen = worker[w].seen
  BY <1>1, <1>2, GotoGoes DEF Carries, Steps
<1> HIDE DEF r
<1>5. PauseFits(o, r)
  BY <1>1, <1>2, <1>3 DEF PauseFits, Pause!Terminal
<1>6. \A v \in Run : PauseSuits(v, o, old) => PauseSuits(v, o, r)
  BY <1>3 DEF PauseSuits
<1>7. PauseSuits(worker'[w], o, r)
  BY <1>1, <1>3, <1>4 DEF PauseSuits
<1>8. Pause!ChangeGuard(c)
  BY <1>1, <1>2, <1>3 DEF Pause!ChangeGuard, PauseFits, PauseSuits, Pause!Terminal, Pause!Undone
<1> QED BY <1>1, <1>2, <1>3, <1>4, <1>5, <1>6, <1>7, <1>8, PauseWrites

LEMMA PauseRecords ==
    ASSUME PauseInv, NEW w \in Workers, Pause!RecordOutcome(w)
    PROVE  PauseInv' /\ Pause!Guards
<1> DEFINE c == worker[w].command
           o == operation[c]
           old == row[c]
           r == [old EXCEPT !.status = Pause!Outcome(w)]
<1>1. /\ c \in Commands /\ PauseSuits(worker[w], o, old) /\ PauseFits(o, old)
      /\ old \in Pause!Change /\ RunsSound /\ worker[w].pc = "outcome"
  BY PauseInHand, PauseRuns DEF Pause!RecordOutcome
<1>2. /\ old.bound /\ row' = [row EXCEPT ![c].status = Pause!Outcome(w)]
      /\ UNCHANGED operation /\ Goto(w, "project")
  BY PauseRuns DEF Pause!RecordOutcome, Pause!Row
<1>3. \/ Pause!Outcome(w) = old.status
      \/ (old.status = "executing" /\ Pause!Outcome(w) = "confirmed" /\ o.status = "confirmed")
      \/ (old.status = "executing" /\ Pause!Outcome(w) = "failed" /\ o.status \in Undone)
  BY <1>1, PauseRuns DEF Pause!Outcome, Pause!Row, PauseSuits
<1>4. /\ r \in Pause!Change /\ r.status = Pause!Outcome(w) /\ r.bound
      /\ r.completed = old.completed /\ (Pause!Outcome(w) = old.status => r = old)
      /\ row' = [row EXCEPT ![c] = r] /\ row'[c] = r
  BY <1>1, <1>2, <1>3 DEF PauseInv, Pause!Change, Pause!ChangeStatus
<1>5. /\ RunsSound' /\ Only(w) /\ worker'[w].command = c /\ worker'[w].pc = "project"
      /\ worker'[w].retry = worker[w].retry /\ worker'[w].seen = worker[w].seen
  BY <1>1, <1>2, GotoGoes DEF Carries, Steps
<1> HIDE DEF r
<1>6. PauseFits(o, r)
  BY <1>1, <1>2, <1>3, <1>4 DEF PauseFits, Pause!Terminal
<1>7. \A v \in Run : PauseSuits(v, o, old) => PauseSuits(v, o, r)
  BY <1>2, <1>3, <1>4 DEF PauseSuits
<1>8. PauseSuits(worker'[w], o, r)
  BY <1>1, <1>3, <1>4, <1>5 DEF PauseSuits
<1>9. Pause!ChangeGuard(c)
  BY <1>1, <1>2, <1>3, <1>4 DEF Pause!ChangeGuard, PauseFits, PauseSuits, Pause!Terminal,
     Pause!Undone, Pause!Transitions
<1> QED BY <1>1, <1>2, <1>4, <1>5, <1>6, <1>7, <1>8, <1>9, PauseWrites

LEMMA PauseProjects ==
    ASSUME PauseInv, NEW w \in Workers, Pause!Project(w)
    PROVE  PauseInv' /\ Pause!Guards
<1> DEFINE c == worker[w].command
           o == operation[c]
           old == row[c]
           r == [old EXCEPT !.completed = TRUE]
<1>1. /\ c \in Commands /\ PauseSuits(worker[w], o, old) /\ PauseFits(o, old)
      /\ old \in Pause!Change /\ RunsSound /\ worker[w].pc = "project"
  BY PauseInHand, PauseRuns DEF Pause!Project
<1>2. Finish(w) /\ UNCHANGED operation
  BY PauseRuns DEF Pause!Project
<1>3. RunsSound' /\ Only(w) /\ worker'[w].pc = "idle"
  BY <1>1, <1>2, FinishGoes, IdleRun
<1>4. CASE row' = row
  BY <1>1, <1>2, <1>3, <1>4, NoneMoves, PauseGoes DEF PauseInv
<1>5. CASE /\ ~old.completed /\ old.status \in Pause!Terminal
           /\ row' = [row EXCEPT ![c].completed = TRUE]
  <2>1. /\ r \in Pause!Change /\ r.status = old.status /\ r.bound = old.bound /\ r.completed
        /\ row' = [row EXCEPT ![c] = r] /\ row'[c] = r
    BY <1>1, <1>5 DEF PauseInv, Pause!Change
  <2> HIDE DEF r
  <2>2. PauseFits(o, r)
    BY <1>1, <1>5, <2>1 DEF PauseFits
  <2>3. \A v \in Run : PauseSuits(v, o, old) => PauseSuits(v, o, r)
    BY <2>1 DEF PauseSuits
  <2>4. Pause!ChangeGuard(c)
    BY <1>1, <1>2, <1>5, <2>1 DEF Pause!ChangeGuard, PauseFits, PauseSuits, Pause!Terminal,
       Pause!Undone
  <2> QED BY <1>1, <1>2, <1>3, <2>1, <2>2, <2>3, <2>4, PauseWrites
<1> QED BY <1>4, <1>5 DEF Pause!Project, Pause!Row, Pause!rows

LEMMA PauseBegins ==
    ASSUME PauseInv, NEW w \in Workers, Pause!Begin(w)
    PROVE  PauseInv' /\ Pause!Guards
<1>1. PICK c \in Commands :
         /\ row[c].status # "none" /\ ~row[c].completed
         /\ Take(w, Pause!Onward(row[c].status), c, 0)
  BY PauseRuns DEF Pause!Begin, Pause!Unresolved
<1>2. UNCHANGED operation /\ row' = row
  BY DEF Pause!Begin, Pause!rows
<1>3. /\ Pause!Onward(row[c].status) \in Steps
      /\ Pause!Onward(row[c].status) = "open" => row[c].status = "executing"
  BY DEF Pause!Onward, Steps
<1>4. 0 \in 0..MaxClaims
  BY Bounded
<1>5. /\ RunsSound' /\ Only(w) /\ worker'[w].command = c /\ worker'[w].retry = 0 /\ ~worker'[w].seen
      /\ worker'[w].pc = Pause!Onward(row[c].status)
  BY <1>1, <1>3, <1>4, TakeGoes DEF PauseInv
<1>6. PauseSuits(worker'[w], operation[c], row[c])
  BY <1>1, <1>3, <1>5 DEF PauseSuits
<1> QED BY <1>2, <1>5, <1>6, NoneMoves, PauseAdvances DEF PauseInv, Only

\* Steps of a run that leave the row as it is.
LEMMA PauseLeads ==
    ASSUME PauseInv, NEW w \in Workers, worker[w].pc \notin {"idle", "decide"},
           row' = row, OperationsSound', AllAdvance, NEW pc \in Steps \ {"open"},
           Goto(w, pc) \/ Finish(w)
    PROVE  PauseInv' /\ Pause!Guards
<1> DEFINE c == worker[w].command
<1>1. c \in Commands /\ PauseSuits(worker[w], operation[c], row[c]) /\ RunsSound
  BY PauseInHand
<1>2. CASE Goto(w, pc)
  BY <1>1, <1>2, GotoGoes, PauseGoes DEF PauseSuits
<1>3. CASE Finish(w)
  BY <1>1, <1>3, FinishGoes, IdleRun, PauseGoes
<1> QED BY <1>2, <1>3

LEMMA PauseSees ==
    ASSUME PauseInv, NEW w \in Workers, worker[w].pc # "idle", row' = row, UNCHANGED operation,
           NEW pc \in Steps \ {"open"}, NEW seen \in BOOLEAN, GotoSeeing(w, pc, seen),
           seen => pc = "decide" \/ operation[worker[w].command].status = "confirmed"
    PROVE  PauseInv' /\ Pause!Guards
<1>1. worker[w].command \in Commands /\ RunsSound /\ OperationsSound
  BY PauseInHand
<1> QED BY <1>1, GotoSeeingGoes, NoneMoves, PauseGoes

LEMMA PauseReads ==
    ASSUME PauseInv, NEW w \in Workers, contract \in BOOLEAN,
           Pause!ReadContract(w) \/ Pause!Settle(w)
    PROVE  PauseInv' /\ Pause!Guards
<1>1. UNCHANGED operation /\ row' = row
  BY DEF Pause!ReadContract, Pause!Settle, Pause!rows
<1>2. AllAdvance /\ OperationsSound'
  BY <1>1, NoneMoves DEF PauseInv
<1>3. {"decide", "refused", "outcome"} \subseteq Steps \ {"open"}
  BY DEF Steps
<1>4. CASE Pause!ReadContract(w)
  BY <1>1, <1>2, <1>3, <1>4, PauseRuns, PauseSees, PauseLeads DEF Pause!ReadContract
<1>5. CASE Pause!Settle(w)
  <2>1. PICK seen \in BOOLEAN :
           /\ seen => operation[worker[w].command].status = "confirmed"
           /\ GotoSeeing(w, "outcome", seen)
    BY <1>5, PauseRuns DEF Pause!Settle
  <2> QED BY <1>1, <1>3, <1>5, <2>1, PauseRuns, PauseSees DEF Pause!Settle
<1> QED BY <1>4, <1>5

LEMMA PauseQuiet ==
    ASSUME PauseInv, NEW w \in Workers, Pause!Resume(w) \/ Pause!SignPause(w) \/ Pause!GiveUp(w)
    PROVE  PauseInv' /\ Pause!Guards
<1>1. row' = row
  BY DEF Pause!Resume, Pause!SignPause, Pause!GiveUp, Pause!rows
<1>2. {"outcome", "prepare", "look"} \subseteq Steps \ {"open"}
  BY DEF Steps
<1>3. CASE Pause!Resume(w)
  <2>1. AllAdvance /\ OperationsSound' /\ worker[w].pc = "resume"
    BY <1>3, NoneMoves, PauseRuns DEF PauseInv, Pause!Resume
  <2>2. Goto(w, "outcome") \/ Goto(w, "prepare") \/ Goto(w, "look")
    BY <1>3, PauseRuns DEF Pause!Resume
  <2> QED BY <1>1, <1>2, <2>1, <2>2, PauseLeads
<1>4. CASE Pause!SignPause(w)
  <2>1. Sign(w)
    BY <1>4, PauseIs DEF Pause!SignPause
  <2>2. AllAdvance /\ OperationsSound' /\ worker[w].pc = "prepare" /\ Goto(w, "look")
    BY <2>1, SignAdvances DEF PauseInv, At
  <2> QED BY <1>1, <1>2, <2>2, PauseLeads
<1>5. CASE Pause!GiveUp(w)
  <2>1. FailPreparing(w) /\ worker[w].pc = "prepare"
    BY <1>5, PauseIs, PauseRuns DEF Pause!GiveUp
  <2>2. AllAdvance /\ OperationsSound'
    BY <2>1, FailAdvances DEF PauseInv
  <2>3. Goto(w, "outcome") \/ Goto(w, "look") \/ Finish(w)
    BY <1>5, PauseRuns DEF Pause!GiveUp
  <2> QED BY <1>1, <1>2, <2>1, <2>2, <2>3, PauseLeads
<1> QED BY <1>3, <1>4, <1>5

LEMMA PauseFollows ==
    ASSUME PauseInv, NEW w \in Workers, Followed(w), row' = row
    PROVE  PauseInv' /\ Pause!Guards
<1>1. OperationsSound' /\ AllAdvance /\ RunsSound' /\ Only(w)
  BY FollowedAdvances, FollowedGoes DEF PauseInv
<1>2. worker[w].pc # "idle"
  BY DEF Followed, Receive, ReceiveNothing, Broadcast, Abandon, Look, At
<1>3. PauseSuits(worker[w], operation[worker[w].command], row[worker[w].command])
  BY <1>2, PauseInHand
<1>4. CASE worker'[w] = Idle
  BY <1>1, <1>2, <1>4, IdleRun, PauseGoes
<1>5. CASE /\ Carries(w) /\ worker'[w].seen = worker[w].seen
           /\ worker[w].pc \in {"reconcile", "broadcast", "observe", "look"}
           /\ worker'[w].pc \in {"reconcile", "broadcast", "observe", "settle"}
  BY <1>1, <1>2, <1>3, <1>5, PauseGoes DEF PauseSuits
<1> QED BY <1>4, <1>5, FollowedGoes DEF PauseInv

\* Every step of a pause keeps the invariant and passes the triggers.
LEMMA PauseKeeps ==
    ASSUME PauseInv, Pause!Next, contract \in BOOLEAN
    PROVE  PauseInv' /\ Pause!Guards
<1>1. ASSUME NEW c \in Commands, NEW paused \in BOOLEAN, Pause!Submit(c, paused)
      PROVE  PauseInv' /\ Pause!Guards
  BY <1>1, PauseStaff
<1>2. CASE Pause!ChangeOwner
  BY <1>2, NoneMoves, PauseAdvances DEF Pause!ChangeOwner, PauseInv, RunsSound
<1>3. ASSUME NEW w \in Workers, Pause!Recover(w)
      PROVE  PauseInv' /\ Pause!Guards
  <2>1. CASE (Pause!Journal(w) \/ Pause!Look(w)) /\ UNCHANGED <<row, target, contract>>
    BY <2>1, PauseRuns, PauseOpens, PauseFollows
  <2> QED BY <1>3, <2>1, PauseBegins, PauseDecides, PauseBinds, PauseRecords, PauseProjects,
             PauseReads, PauseQuiet DEF Pause!Recover, Pause!rows
<1>4. ASSUME NEW c \in Commands, NEW k \in Claims, NEW outcome \in {"mined", "reverted"},
             Pause!Mine(c, k, outcome)
      PROVE  PauseInv' /\ Pause!Guards
  <2>1. Mined(c, k, outcome) /\ row' = row
    BY <1>4, PauseIs DEF Pause!Mine, Pause!rows
  <2>2. OperationsSound' /\ AllAdvance /\ worker' = worker
    BY <2>1, MinedAdvances DEF PauseInv
  <2>3. RunsSound'
    BY <2>2 DEF PauseInv, RunsSound
  <2> QED BY <2>1, <2>2, <2>3, PauseAdvances
<1> QED BY <1>1, <1>2, <1>3, <1>4 DEF Pause!Next, Pause!Claims, Claims

-----------------------------------------------------------------------------
(* NAVUpdate.                                                              *)

\* A queued row and one meant for the database only have no operation, and
\* one that ended says what became of it.
NAVFits(o, r) ==
    /\ r \in NAV!Update
    /\ r.status \in {"none", "queued"} => o.status = "none" /\ ~r.bound /\ ~r.completed
    /\ r.status = "applied" => r.completed
    /\ r.mode = "local" =>
          /\ r.status \in {"none", "applied", "failed"} /\ o.status = "none" /\ ~r.bound
          /\ r.status = "failed" => r.completed
    /\ r.mode = "chain" => r.status # "applied"
    /\ r.status = "confirmed" => o.status = "confirmed" /\ r.bound
    /\ r.status = "failed" => IF r.bound THEN o.status \in Undone ELSE o.status = "none" /\ r.completed
    /\ r.completed => r.status \in {"applied", "confirmed", "failed"}

\* A run names no attempt to reopen, opens one for a row that was decided, and
\* what it saw of an event came from a confirmed attempt.
NAVSuits(v, o, r) ==
    /\ v.retry = 0
    /\ r.status # "none" /\ r.mode = "chain"
    /\ v.pc = "open" => r.status \in {"executing", "confirmed"} \/ (r.status = "failed" /\ r.bound)
    /\ v.seen => o.status = "confirmed"

NAVInv ==
    /\ OperationsSound /\ RunsSound
    /\ row \in [Commands -> NAV!Update]
    /\ \A c \in Commands : NAVFits(operation[c], row[c])
    /\ \A c, d \in NAV!Unresolved : c = d
    /\ \A w \in Workers : worker[w].pc # "idle" =>
          /\ worker[w].command \in Commands
          /\ NAVSuits(worker[w], operation[worker[w].command], row[worker[w].command])

LEMMA NAVRuns ==
    /\ \A w, pc : NAV!At(w, pc) <=> worker[w].pc = pc
    /\ \A w, pc : NAV!Goto(w, pc) <=> Goto(w, pc)
    /\ \A w, pc, seen : NAV!GotoSeeing(w, pc, seen) <=> GotoSeeing(w, pc, seen)
    /\ \A w : NAV!Finish(w) <=> Finish(w)
    /\ \A w, pc, c, retry : NAV!Take(w, pc, c, retry) <=> Take(w, pc, c, retry)
    /\ \A w : NAV!Own(w) = operation[worker[w].command]
    /\ \A w : NAV!Signs(w) <=> Signs(w)
    /\ \A w : NAV!Journal(w) \/ NAV!Look(w) <=> Open(w) \/ Followed(w)
    /\ NAV!Undone = Undone
<1>1. \A w : NAV!Journal(w) \/ NAV!Look(w) <=> Open(w) \/ Followed(w)
  BY NAVIs DEF NAV!Journal, NAV!Look, Look, NAV!ReceiveNothing, ReceiveNothing,
     NAV!Abandon, Abandon, Followed, NAV!At, At, NAV!Goto, Goto, NAV!Finish, Finish,
     NAV!Idle, Idle, NAV!Own, Own, NAV!Owns, Owns
<1>2. /\ \A w, pc : NAV!Goto(w, pc) <=> Goto(w, pc)
      /\ \A w, pc, seen : NAV!GotoSeeing(w, pc, seen) <=> GotoSeeing(w, pc, seen)
      /\ \A w : NAV!Finish(w) <=> Finish(w)
      /\ \A w, pc, c, retry : NAV!Take(w, pc, c, retry) <=> Take(w, pc, c, retry)
  BY DEF NAV!Goto, Goto, NAV!GotoSeeing, GotoSeeing, NAV!Finish, Finish, NAV!Idle, Idle,
     NAV!Take, Take
<1>3. /\ \A w, pc : NAV!At(w, pc) <=> worker[w].pc = pc
      /\ \A w : NAV!Own(w) = operation[worker[w].command]
      /\ \A w : NAV!Signs(w) <=> Signs(w)
      /\ NAV!Undone = Undone
  BY DEF NAV!At, NAV!Own, Own, NAV!Signs, Signs, NAV!Owns, Owns, NAV!Undone
<1> QED BY <1>1, <1>2, <1>3

\* An operation that moves on leaves what was said of it true.
LEMMA NAVFitsOn ==
    ASSUME NEW o, NEW p, NEW r, NAVFits(o, r), Advances(o, p)
    PROVE  NAVFits(p, r)
BY DEF NAVFits, Advances

LEMMA NAVSuitsOn ==
    ASSUME NEW v, NEW o, NEW p, NEW r, NAVSuits(v, o, r), Advances(o, p)
    PROVE  NAVSuits(v, p, r)
BY DEF NAVSuits, Advances

\* A sweep touches a row that stays as it is.
LEMMA NAVTouched ==
    ASSUME NEW c \in Commands, NAVFits(operation'[c], row[c]), row'[c] = row[c]
    PROVE  row'[c].status # "none" => NAV!UpdateGuard(c)
BY DEF NAVFits, NAV!UpdateGuard, NAV!Undone, NAV!Update, NAV!UpdateStatus

LEMMA NAVAdvances ==
    ASSUME NAVInv, OperationsSound', RunsSound', AllAdvance, row' = row, target' = target,
           \A w \in Workers :
              \/ worker'[w] = worker[w] \/ worker'[w].pc = "idle"
              \/ /\ worker'[w].command \in Commands
                 /\ NAVSuits(worker'[w], operation[worker'[w].command], row[worker'[w].command])
    PROVE  NAVInv' /\ NAV!Guards
<1>1. \A c \in Commands : NAVFits(operation'[c], row'[c])
  BY NAVFitsOn DEF NAVInv, AllAdvance
<1>2. ASSUME NEW w \in Workers, worker'[w].pc # "idle"
      PROVE  /\ worker'[w].command \in Commands
             /\ NAVSuits(worker'[w], operation'[worker'[w].command], row'[worker'[w].command])
  <2> DEFINE c == worker'[w].command
  <2>1. c \in Commands /\ NAVSuits(worker'[w], operation[c], row[c])
    BY <1>2 DEF NAVInv
  <2>2. Advances(operation[c], operation'[c])
    BY <2>1 DEF AllAdvance
  <2> QED BY <2>1, <2>2, NAVSuitsOn
<1>3. ASSUME NEW c \in Commands
      PROVE  (row'[c].status # "none" => NAV!UpdateGuard(c)) /\ NAV!OperationGuard(c)
  <2>1. Advances(operation[c], operation'[c])
    BY DEF AllAdvance
  <2>2. NAV!OperationGuard(c)
    BY <2>1 DEF NAV!OperationGuard, NAV!Inserted, NAV!Reclaimed, Advances
  <2> QED BY <1>1, <2>2, NAVTouched
<1>4. NAV!TargetGuard
  BY DEF NAV!TargetGuard
<1> QED BY <1>1, <1>2, <1>3, <1>4 DEF NAVInv, NAV!Guards, NAV!Unresolved

\* A step of one row, its operation and the runs that have it in hand.
LEMMA NAVSteps ==
    ASSUME NAVInv, OperationsSound', RunsSound', NEW c \in Commands, NEW r \in NAV!Update,
           row' = [row EXCEPT ![c] = r],
           \A d \in Commands : d # c => operation'[d] = operation[d],
           NAVFits(operation'[c], r),
           \A v \in Run : NAVSuits(v, operation[c], row[c]) => NAVSuits(v, operation'[c], r),
           \A w \in Workers :
              \/ worker'[w] = worker[w] \/ worker'[w].pc = "idle"
              \/ (worker'[w].command = c /\ NAVSuits(worker'[w], operation'[c], r)),
           (row'[c].status # "none" => NAV!UpdateGuard(c)) /\ NAV!OperationGuard(c),
           r.status = "none" \/ r.completed \/ c \in NAV!Unresolved \/ NAV!Unresolved = {},
           NAV!TargetGuard
    PROVE  NAVInv' /\ NAV!Guards
<1>1. row' \in [Commands -> NAV!Update] /\ row'[c] = r
      /\ \A d \in Commands : d # c => row'[d] = row[d]
  BY DEF NAVInv
<1>2. \A d \in Commands : NAVFits(operation'[d], row'[d])
  BY <1>1 DEF NAVInv
<1>3. ASSUME NEW w \in Workers, worker'[w].pc # "idle"
      PROVE  /\ worker'[w].command \in Commands
             /\ NAVSuits(worker'[w], operation'[worker'[w].command], row'[worker'[w].command])
  <2>1. CASE worker'[w].command = c /\ NAVSuits(worker'[w], operation'[c], r)
    BY <1>1, <2>1
  <2>2. CASE worker'[w] = worker[w]
    <3>1. worker[w] \in Run /\ worker[w].command \in Commands
          /\ NAVSuits(worker[w], operation[worker[w].command], row[worker[w].command])
      BY <1>3, <2>2 DEF NAVInv, RunsSound
    <3>2. CASE worker[w].command = c
      BY <1>1, <2>2, <3>1, <3>2
    <3>3. CASE worker[w].command # c
      BY <1>1, <2>2, <3>1, <3>3
    <3> QED BY <3>2, <3>3
  <2> QED BY <1>3, <2>1, <2>2
<1>4. ASSUME NEW d \in Commands
      PROVE  (row'[d].status # "none" => NAV!UpdateGuard(d)) /\ NAV!OperationGuard(d)
  <2>1. CASE d = c
    BY <2>1
  <2>2. CASE d # c
    <3>1. row'[d] = row[d] /\ operation'[d] = operation[d]
      BY <1>1, <2>2
    <3>2. NAV!OperationGuard(d)
      BY <3>1 DEF NAV!OperationGuard, NAV!Inserted, NAV!Reclaimed
    <3> QED BY <1>2, <3>1, <3>2, NAVTouched
  <2> QED BY <2>1, <2>2
<1>5. \A d, e \in NAV!Unresolved' : d = e
  BY <1>1 DEF NAVInv, NAV!Unresolved
<1> QED BY <1>1, <1>2, <1>3, <1>4, <1>5 DEF NAVInv, NAV!Guards

LEMMA NAVOpens ==
    ASSUME NAVInv, NEW w \in Workers, Open(w), row' = row, target' = target
    PROVE  NAVInv' /\ NAV!Guards
<1> DEFINE c == worker[w].command
           o == operation[c]
           p == operation'[c]
<1>1. /\ OperationsSound' /\ RunsSound' /\ Only(w) /\ Carries(w) /\ c \in Commands
      /\ worker[w].pc = "open" /\ worker'[w].pc = "bind" /\ worker'[w].seen = worker[w].seen
      /\ \A d \in Commands : d # c => operation'[d] = operation[d]
      /\ \/ operation' = operation
         \/ /\ o.status = "none" \/ Reopens(o, worker[w].retry)
            /\ p.status = "preparing" /\ p.claim = o.claim + 1
  BY OpenDoes DEF NAVInv
<1>2. row[c] \in NAV!Update /\ NAVFits(o, row[c]) /\ NAVSuits(worker[w], o, row[c])
  BY <1>1 DEF NAVInv
<1>3. Sound(o)
  BY <1>1 DEF NAVInv, OperationsSound
<1>4. worker'[w].command = c /\ NAVSuits(worker'[w], o, row[c])
  BY <1>1, <1>2 DEF NAVSuits, Carries
<1>5. CASE operation' = operation
  BY <1>1, <1>4, <1>5, NoneMoves, NAVAdvances DEF Only, NAVInv
<1>6. CASE /\ o.status = "none" \/ Reopens(o, worker[w].retry)
           /\ p.status = "preparing" /\ p.claim = o.claim + 1
  <2>1. o.status = "none"
    BY <1>2, <1>3, <1>6 DEF NAVSuits, Reopens, Sound
  <2>2. row[c].status = "executing"
    BY <1>1, <1>2, <2>1 DEF NAVSuits, NAVFits
  <2>3. NAVFits(p, row[c]) /\ row[c].status # "none"
    BY <1>2, <2>2 DEF NAVFits
  <2>4. \A v \in Run : NAVSuits(v, o, row[c]) => NAVSuits(v, p, row[c])
    BY <2>1 DEF NAVSuits
  <2>5. \A x \in Workers : \/ worker'[x] = worker[x]
                             \/ (worker'[x].command = c /\ NAVSuits(worker'[x], p, row[c]))
    <3>1. NAVSuits(worker'[w], p, row[c])
      BY <1>1, <1>4, <2>1 DEF NAVSuits
    <3> HIDE DEF p, c
    <3> QED BY <1>1, <1>4, <3>1 DEF Only
  <2>6. NAV!OperationGuard(c)
    BY <1>2, <2>1, <2>2 DEF NAV!OperationGuard, NAV!Inserted, NAV!Reclaimed, NAVFits, NAVSuits
  <2>7. row'[c].status # "none" => NAV!UpdateGuard(c)
    BY <1>1, <2>3, NAVTouched
  <2>8. row' = [row EXCEPT ![c] = row[c]]
    BY DEF NAVInv
  <2>9. row[c].completed \/ c \in NAV!Unresolved
    BY <1>1, <2>3 DEF NAV!Unresolved
  <2>10. NAV!TargetGuard
    BY DEF NAV!TargetGuard
  <2> HIDE DEF c, o, p
  <2> QED BY <1>1, <1>2, <2>3, <2>4, <2>5, <2>6, <2>7, <2>8, <2>9, <2>10, NAVSteps DEF o, p
<1> QED BY <1>1, <1>5, <1>6

\* Steps of one run that touch no row.
LEMMA NAVGoes ==
    ASSUME NAVInv, NEW w \in Workers, row' = row, target' = target, OperationsSound', AllAdvance,
           RunsSound', Only(w), worker[w].pc # "idle",
           \/ worker'[w].pc = "idle"
           \/ /\ Carries(w)
              /\ worker'[w].pc # "open" \/ worker[w].pc = "open"
              /\ worker'[w].seen => operation[worker[w].command].status = "confirmed"
    PROVE  NAVInv' /\ NAV!Guards
<1> DEFINE c == worker[w].command
<1>1. c \in Commands /\ NAVSuits(worker[w], operation[c], row[c])
  BY DEF NAVInv
<1>2. \/ worker'[w].pc = "idle"
      \/ (worker'[w].command = c /\ NAVSuits(worker'[w], operation[c], row[c]))
  BY <1>1 DEF NAVSuits, Carries
<1> HIDE DEF c
<1> QED BY <1>1, <1>2, NAVAdvances DEF Only

LEMMA NAVStaff ==
    ASSUME NAVInv, NEW c \in Commands, NEW mode \in {"local", "chain"}, NAV!Submit(c, mode)
    PROVE  NAVInv' /\ NAV!Guards
<1> DEFINE status == IF NAV!Refused(mode) THEN "failed"
                     ELSE IF mode = "local" THEN "applied" ELSE "queued"
           r == [status |-> status, mode |-> mode, bound |-> FALSE, completed |-> status # "queued"]
<1>1. /\ row' = [row EXCEPT ![c] = r] /\ row[c].status = "none" /\ UNCHANGED <<operation, worker>>
      /\ target' = IF status = "applied" THEN c ELSE target
  BY DEF NAV!Submit
<1>2. /\ \/ status = "failed"
         \/ status = "applied" /\ mode = "local" /\ NAV!Unresolved = {}
         \/ status = "queued" /\ mode = "chain" /\ NAV!Unresolved = {}
      /\ r \in NAV!Update /\ r.status = status /\ r.mode = mode /\ ~r.bound
      /\ r.completed = (status # "queued")
  BY DEF NAV!Update, NAV!UpdateStatus, NAV!Refused
<1> HIDE DEF r, status
<1>3. operation[c].status = "none" /\ NAVFits(operation[c], row[c]) /\ ~row[c].completed
  BY <1>1 DEF NAVInv, NAVFits
<1>4. NAVFits(operation[c], r)
  BY <1>2, <1>3 DEF NAVFits
<1>5. \A v \in Run : ~NAVSuits(v, operation[c], row[c])
  BY <1>1 DEF NAVSuits
<1>6. row'[c] = r
  BY <1>1 DEF NAVInv
<1>7. NAV!UpdateGuard(c) /\ NAV!OperationGuard(c)
  BY <1>1, <1>2, <1>3, <1>6 DEF NAVFits, NAV!UpdateGuard, NAV!OperationGuard,
     NAV!Inserted, NAV!Reclaimed, NAV!Undone
<1>8. OperationsSound' /\ RunsSound'
  BY <1>1 DEF NAVInv, OperationsSound, RunsSound
<1>9. NAV!TargetGuard /\ (r.completed \/ NAV!Unresolved = {})
  BY <1>1, <1>2 DEF NAV!TargetGuard
<1> QED BY <1>1, <1>2, <1>4, <1>5, <1>7, <1>8, <1>9, NAVSteps

\* Steps of one run that write the row it has in hand.
LEMMA NAVWrites ==
    ASSUME NAVInv, NEW w \in Workers, NEW c \in Commands, NEW r \in NAV!Update,
           UNCHANGED operation, row' = [row EXCEPT ![c] = r], RunsSound', Only(w),
           NAVFits(operation[c], r),
           \A v \in Run : NAVSuits(v, operation[c], row[c]) => NAVSuits(v, operation[c], r),
           \/ worker'[w].pc = "idle"
           \/ (worker'[w].command = c /\ NAVSuits(worker'[w], operation[c], r)),
           row[c].status # "none", row[c].completed => r.completed,
           NAV!UpdateGuard(c), NAV!TargetGuard
    PROVE  NAVInv' /\ NAV!Guards
<1>1. OperationsSound'
  BY NoneMoves DEF NAVInv
<1>2. NAV!OperationGuard(c)
  BY DEF NAV!OperationGuard, NAV!Inserted, NAV!Reclaimed
<1>3. \A x \in Workers :
         \/ worker'[x] = worker[x] \/ worker'[x].pc = "idle"
         \/ (worker'[x].command = c /\ NAVSuits(worker'[x], operation[c], r))
  BY DEF Only
<1>4. r.completed \/ c \in NAV!Unresolved
  BY DEF NAV!Unresolved
<1> QED BY <1>1, <1>2, <1>3, <1>4, NAVSteps

LEMMA NAVInHand ==
    ASSUME NAVInv, NEW w \in Workers, worker[w].pc # "idle"
    PROVE  LET c == worker[w].command IN
           /\ c \in Commands /\ NAVSuits(worker[w], operation[c], row[c])
           /\ NAVFits(operation[c], row[c]) /\ row[c] \in NAV!Update /\ Sound(operation[c])
           /\ RunsSound /\ OperationsSound
BY DEF NAVInv, OperationsSound

\* Steps of a run that leave the row as it is.
LEMMA NAVLeads ==
    ASSUME NAVInv, NEW w \in Workers, worker[w].pc # "idle",
           row' = row, target' = target, OperationsSound', AllAdvance, NEW pc \in Steps \ {"open"},
           Goto(w, pc) \/ Finish(w)
    PROVE  NAVInv' /\ NAV!Guards
<1> DEFINE c == worker[w].command
<1>1. c \in Commands /\ NAVSuits(worker[w], operation[c], row[c]) /\ RunsSound
  BY NAVInHand
<1>2. CASE Goto(w, pc)
  BY <1>1, <1>2, GotoGoes, NAVGoes DEF NAVSuits
<1>3. CASE Finish(w)
  BY <1>1, <1>3, FinishGoes, IdleRun, NAVGoes
<1> QED BY <1>2, <1>3

LEMMA NAVSees ==
    ASSUME NAVInv, NEW w \in Workers, worker[w].pc # "idle",
           row' = row, target' = target, UNCHANGED operation, NEW pc \in Steps \ {"open"}, NEW seen \in BOOLEAN, GotoSeeing(w, pc, seen),
           seen => operation[worker[w].command].status = "confirmed"
    PROVE  NAVInv' /\ NAV!Guards
<1>1. worker[w].command \in Commands /\ RunsSound /\ OperationsSound
  BY NAVInHand
<1> QED BY <1>1, GotoSeeingGoes, NoneMoves, NAVGoes

LEMMA NAVDecides ==
    ASSUME NAVInv, NEW w \in Workers, NAV!Decide(w)
    PROVE  NAVInv' /\ NAV!Guards
<1> DEFINE c == worker[w].command
           o == operation[c]
           old == row[c]
<1>1. /\ c \in Commands /\ NAVSuits(worker[w], o, old) /\ NAVFits(o, old)
      /\ old \in NAV!Update /\ RunsSound /\ worker[w].pc = "decide"
  BY NAVInHand, NAVRuns DEF NAV!Decide
<1>2. UNCHANGED operation /\ target' = target
  BY DEF NAV!Decide
<1>3. CASE Goto(w, "refused") /\ row' = row
  <2>1. "refused" \in Steps \ {"open"}
    BY DEF Steps
  <2> QED BY <1>1, <1>2, <1>3, <2>1, NoneMoves, NAVLeads DEF NAVInv
<1>4. CASE /\ row' = IF old.status = "queued" THEN [row EXCEPT ![c].status = "executing"] ELSE row
           /\ Goto(w, NAV!Onward(row'[c].status))
  <2> DEFINE status == IF old.status = "queued" THEN "executing" ELSE old.status
             r == [old EXCEPT !.status = status]
  <2>1. /\ r \in NAV!Update /\ r.status = status /\ r.bound = old.bound /\ r.mode = old.mode
        /\ r.completed = old.completed /\ row' = [row EXCEPT ![c] = r] /\ row'[c] = r
        /\ (old.status # "queued" => r = old)
    BY <1>1, <1>4 DEF NAVInv, NAV!Update, NAV!UpdateStatus
  <2>2. /\ status # "queued" /\ (status = old.status \/ (old.status = "queued" /\ status = "executing"))
    OBVIOUS
  <2> HIDE DEF r, status
  <2>3. /\ NAV!Onward(status) \in Steps /\ (NAV!Onward(status) = "open" => status = "executing")
    BY <2>2 DEF NAV!Onward, Steps
  <2>4. /\ RunsSound' /\ Only(w) /\ worker'[w].command = c
        /\ worker'[w].retry = worker[w].retry /\ worker'[w].seen = worker[w].seen
        /\ worker'[w].pc = "open" => status = "executing"
    BY <1>1, <1>4, <2>1, <2>3, GotoGoes DEF Carries
  <2>5. NAVFits(o, r)
    BY <1>1, <2>1, <2>2 DEF NAVFits, NAVSuits
  <2>6. \A v \in Run : NAVSuits(v, o, old) => NAVSuits(v, o, r)
    BY <2>1, <2>2 DEF NAVSuits
  <2>7. NAVSuits(worker'[w], o, r)
    BY <1>1, <2>1, <2>2, <2>4 DEF NAVSuits
  <2>8. NAV!UpdateGuard(c)
    BY <1>1, <1>2, <2>1, <2>2 DEF NAV!UpdateGuard, NAV!Transitions, NAVFits, NAVSuits, NAV!Undone
  <2>9. NAV!TargetGuard
    BY <1>2 DEF NAV!TargetGuard
  <2>10. old.status # "none"
    BY <1>1 DEF NAVSuits
  <2> QED BY <1>1, <1>2, <2>1, <2>4, <2>5, <2>6, <2>7, <2>8, <2>9, <2>10, NAVWrites
<1> QED BY <1>3, <1>4, NAVRuns DEF NAV!Decide, NAV!Row

LEMMA NAVRefuses ==
    ASSUME NAVInv, NEW w \in Workers, NAV!RefuseUnsigned(w)
    PROVE  NAVInv' /\ NAV!Guards
<1> DEFINE c == worker[w].command
           o == operation[c]
           old == row[c]
           r == [old EXCEPT !.status = "failed", !.completed = TRUE]
<1>1. /\ c \in Commands /\ NAVSuits(worker[w], o, old) /\ NAVFits(o, old)
      /\ old \in NAV!Update /\ RunsSound /\ worker[w].pc = "refused"
  BY NAVInHand, NAVRuns DEF NAV!RefuseUnsigned
<1>2. Finish(w) /\ UNCHANGED operation /\ target' = target
  BY NAVRuns DEF NAV!RefuseUnsigned
<1>3. RunsSound' /\ Only(w) /\ worker'[w].pc = "idle"
  BY <1>1, <1>2, FinishGoes, IdleRun
<1>4. CASE row' = row
  BY <1>1, <1>2, <1>3, <1>4, NoneMoves, NAVGoes DEF NAVInv
<1>5. CASE /\ old.status = "queued" /\ o.status = "none"
           /\ row' = [row EXCEPT ![c].status = "failed", ![c].completed = TRUE]
  <2>1. /\ r \in NAV!Update /\ r.status = "failed" /\ r.bound = old.bound /\ r.mode = old.mode
        /\ r.completed /\ row' = [row EXCEPT ![c] = r] /\ row'[c] = r
    BY <1>1, <1>5 DEF NAVInv, NAV!Update, NAV!UpdateStatus
  <2> HIDE DEF r
  <2>2. NAVFits(o, r)
    BY <1>1, <1>5, <2>1 DEF NAVFits
  <2>3. \A v \in Run : NAVSuits(v, o, old) => NAVSuits(v, o, r)
    BY <1>5, <2>1 DEF NAVSuits
  <2>4. NAV!UpdateGuard(c) /\ NAV!TargetGuard /\ old.status # "none"
    BY <1>1, <1>2, <1>5, <2>1 DEF NAV!UpdateGuard, NAV!TargetGuard, NAVFits, NAVSuits, NAV!Undone,
       NAV!Transitions
  <2> QED BY <1>1, <1>2, <1>3, <2>1, <2>2, <2>3, <2>4, NAVWrites
<1> QED BY <1>4, <1>5, NAVRuns DEF NAV!RefuseUnsigned, NAV!Refusable, NAV!Row

LEMMA NAVBinds ==
    ASSUME NAVInv, NEW w \in Workers, NAV!Bind(w)
    PROVE  NAVInv' /\ NAV!Guards
<1> DEFINE c == worker[w].command
           o == operation[c]
           old == row[c]
           r == [old EXCEPT !.bound = TRUE]
<1>1. /\ c \in Commands /\ NAVSuits(worker[w], o, old) /\ NAVFits(o, old)
      /\ old \in NAV!Update /\ RunsSound /\ worker[w].pc = "bind"
  BY NAVInHand, NAVRuns DEF NAV!Bind
<1>2. /\ old.bound \/ old.status = "executing"
      /\ row' = [row EXCEPT ![c].bound = TRUE] /\ UNCHANGED operation /\ Goto(w, "resume")
  BY NAVRuns DEF NAV!Bind, NAV!Row
<1>3. /\ r \in NAV!Update /\ r.status = old.status /\ r.bound
      /\ r.completed = old.completed /\ r.mode = old.mode /\ (old.bound => r = old)
      /\ row' = [row EXCEPT ![c] = r] /\ row'[c] = r
  BY <1>1, <1>2 DEF NAVInv, NAV!Update
<1>4. /\ RunsSound' /\ Only(w) /\ worker'[w].command = c /\ worker'[w].pc = "resume"
      /\ worker'[w].retry = worker[w].retry /\ worker'[w].seen = worker[w].seen
  BY <1>1, <1>2, GotoGoes DEF Carries, Steps
<1> HIDE DEF r
<1>5. NAVFits(o, r)
  BY <1>1, <1>2, <1>3 DEF NAVFits
<1>6. \A v \in Run : NAVSuits(v, o, old) => NAVSuits(v, o, r)
  BY <1>3 DEF NAVSuits
<1>7. NAVSuits(worker'[w], o, r)
  BY <1>1, <1>3, <1>4 DEF NAVSuits
<1>8. NAV!UpdateGuard(c)
  BY <1>1, <1>2, <1>3 DEF NAV!UpdateGuard, NAVFits, NAVSuits, NAV!Undone
<1>9. NAV!TargetGuard /\ old.status # "none"
  BY <1>1 DEF NAV!Bind, NAV!TargetGuard, NAVSuits
<1> QED BY <1>1, <1>2, <1>3, <1>4, <1>5, <1>6, <1>7, <1>8, <1>9, NAVWrites

LEMMA NAVRecords ==
    ASSUME NAVInv, NEW w \in Workers, NAV!RecordOutcome(w)
    PROVE  NAVInv' /\ NAV!Guards
<1> DEFINE c == worker[w].command
           o == operation[c]
           old == row[c]
           r == [old EXCEPT !.status = NAV!Outcome(w)]
<1>1. /\ c \in Commands /\ NAVSuits(worker[w], o, old) /\ NAVFits(o, old)
      /\ old \in NAV!Update /\ RunsSound /\ worker[w].pc = "outcome"
  BY NAVInHand, NAVRuns DEF NAV!RecordOutcome
<1>2. /\ old.bound /\ row' = [row EXCEPT ![c].status = NAV!Outcome(w)]
      /\ UNCHANGED operation /\ Goto(w, "project")
  BY NAVRuns DEF NAV!RecordOutcome, NAV!Row
<1>3. \/ NAV!Outcome(w) = old.status
      \/ (old.status = "executing" /\ NAV!Outcome(w) = "confirmed" /\ o.status = "confirmed")
      \/ (old.status = "executing" /\ NAV!Outcome(w) = "failed" /\ o.status \in Undone)
  BY <1>1, NAVRuns DEF NAV!Outcome, NAV!Row, NAVSuits
<1>4. /\ r \in NAV!Update /\ r.status = NAV!Outcome(w) /\ r.bound
      /\ r.completed = old.completed /\ r.mode = old.mode /\ (NAV!Outcome(w) = old.status => r = old)
      /\ row' = [row EXCEPT ![c] = r] /\ row'[c] = r
  BY <1>1, <1>2, <1>3 DEF NAVInv, NAV!Update, NAV!UpdateStatus
<1>5. /\ RunsSound' /\ Only(w) /\ worker'[w].command = c /\ worker'[w].pc = "project"
      /\ worker'[w].retry = worker[w].retry /\ worker'[w].seen = worker[w].seen
  BY <1>1, <1>2, GotoGoes DEF Carries, Steps
<1> HIDE DEF r
<1>6. NAVFits(o, r)
  BY <1>1, <1>2, <1>3, <1>4 DEF NAVFits
<1>7. \A v \in Run : NAVSuits(v, o, old) => NAVSuits(v, o, r)
  BY <1>2, <1>3, <1>4 DEF NAVSuits
<1>8. NAVSuits(worker'[w], o, r)
  BY <1>1, <1>3, <1>4, <1>5 DEF NAVSuits
<1>9. NAV!UpdateGuard(c)
  BY <1>1, <1>2, <1>3, <1>4 DEF NAV!UpdateGuard, NAVFits, NAVSuits,
     NAV!Undone, NAV!Transitions
<1>10. NAV!TargetGuard /\ old.status # "none"
  BY <1>1 DEF NAV!RecordOutcome, NAV!TargetGuard, NAVSuits
<1> QED BY <1>1, <1>2, <1>4, <1>5, <1>6, <1>7, <1>8, <1>9, <1>10, NAVWrites

LEMMA NAVProjects ==
    ASSUME NAVInv, NEW w \in Workers, NAV!Project(w)
    PROVE  NAVInv' /\ NAV!Guards
<1> DEFINE c == worker[w].command
           o == operation[c]
           old == row[c]
           r == [old EXCEPT !.completed = TRUE]
<1>1. /\ c \in Commands /\ NAVSuits(worker[w], o, old) /\ NAVFits(o, old)
      /\ old \in NAV!Update /\ RunsSound /\ worker[w].pc = "project"
  BY NAVInHand, NAVRuns DEF NAV!Project
<1>2. Finish(w) /\ UNCHANGED operation
  BY NAVRuns DEF NAV!Project
<1>3. RunsSound' /\ Only(w) /\ worker'[w].pc = "idle"
  BY <1>1, <1>2, FinishGoes, IdleRun
<1>4. CASE row' = row /\ target' = target
  BY <1>1, <1>2, <1>3, <1>4, NoneMoves, NAVGoes DEF NAVInv
<1>5. CASE /\ ~old.completed /\ old.status \in {"confirmed", "failed"}
           /\ row' = [row EXCEPT ![c].completed = TRUE]
           /\ target' = IF old.status = "confirmed" THEN c ELSE target
  <2>1. /\ r \in NAV!Update /\ r.status = old.status /\ r.bound = old.bound /\ r.completed
        /\ r.mode = old.mode /\ row' = [row EXCEPT ![c] = r] /\ row'[c] = r
    BY <1>1, <1>5 DEF NAVInv, NAV!Update
  <2> HIDE DEF r
  <2>2. NAVFits(o, r)
    BY <1>1, <1>5, <2>1 DEF NAVFits
  <2>3. \A v \in Run : NAVSuits(v, o, old) => NAVSuits(v, o, r)
    BY <2>1 DEF NAVSuits
  <2>4. c \in NAV!Unresolved
    BY <1>1, <1>5 DEF NAV!Unresolved
  <2>5. \A d \in NAV!Unresolved : d = c
    BY <2>4 DEF NAVInv
  <2>6. NAV!TargetGuard
    BY <1>5, <2>5 DEF NAV!TargetGuard
  <2>7. NAV!UpdateGuard(c) /\ old.status # "none"
    BY <1>1, <1>2, <1>5, <2>1 DEF NAV!UpdateGuard, NAVFits, NAVSuits, NAV!Undone
  <2> QED BY <1>1, <1>2, <1>3, <2>1, <2>2, <2>3, <2>6, <2>7, NAVWrites
<1> QED BY <1>4, <1>5 DEF NAV!Project, NAV!Projects, NAV!Row, NAV!rows

LEMMA NAVBegins ==
    ASSUME NAVInv, NEW w \in Workers, NAV!Begin(w)
    PROVE  NAVInv' /\ NAV!Guards
<1>1. PICK c \in Commands :
         /\ row[c].status # "none" /\ ~row[c].completed
         /\ Take(w, NAV!Onward(row[c].status), c, 0)
  BY NAVRuns DEF NAV!Begin, NAV!Unresolved
<1>2. UNCHANGED operation /\ row' = row /\ target' = target
  BY DEF NAV!Begin, NAV!rows
<1>3. /\ NAV!Onward(row[c].status) \in Steps
      /\ NAV!Onward(row[c].status) = "open" => row[c].status = "executing"
  BY DEF NAV!Onward, Steps
<1>4. 0 \in 0..MaxClaims
  BY Bounded
<1>5. /\ RunsSound' /\ Only(w) /\ worker'[w].command = c /\ worker'[w].retry = 0 /\ ~worker'[w].seen
      /\ worker'[w].pc = NAV!Onward(row[c].status)
  BY <1>1, <1>3, <1>4, TakeGoes DEF NAVInv
<1>6. NAVFits(operation[c], row[c])
  BY DEF NAVInv
<1>7. row[c].mode = "chain"
  BY <1>1, <1>6 DEF NAVFits, NAV!Update
<1>8. NAVSuits(worker'[w], operation[c], row[c])
  BY <1>1, <1>3, <1>5, <1>7 DEF NAVSuits
<1> QED BY <1>2, <1>5, <1>8, NoneMoves, NAVAdvances DEF NAVInv, Only

LEMMA NAVSettles ==
    ASSUME NAVInv, NEW w \in Workers, NAV!Settle(w)
    PROVE  NAVInv' /\ NAV!Guards
<1>1. UNCHANGED operation /\ row' = row /\ target' = target /\ worker[w].pc # "idle"
  BY NAVRuns DEF NAV!Settle, NAV!rows
<1>2. PICK seen \in BOOLEAN :
         /\ seen => operation[worker[w].command].status = "confirmed"
         /\ GotoSeeing(w, "outcome", seen)
  BY NAVRuns DEF NAV!Settle
<1>3. "outcome" \in Steps \ {"open"}
  BY DEF Steps
<1> QED BY <1>1, <1>2, <1>3, NAVSees

LEMMA NAVQuiet ==
    ASSUME NAVInv, NEW w \in Workers, NAV!Resume(w) \/ NAV!SignUpdate(w) \/ NAV!GiveUp(w)
    PROVE  NAVInv' /\ NAV!Guards
<1>1. row' = row /\ target' = target
  BY DEF NAV!Resume, NAV!SignUpdate, NAV!GiveUp, NAV!rows
<1>2. {"outcome", "prepare", "look"} \subseteq Steps \ {"open"}
  BY DEF Steps
<1>3. CASE NAV!Resume(w)
  <2>1. AllAdvance /\ OperationsSound' /\ worker[w].pc = "resume"
    BY <1>3, NoneMoves, NAVRuns DEF NAVInv, NAV!Resume
  <2>2. Goto(w, "outcome") \/ Goto(w, "prepare") \/ Goto(w, "look")
    BY <1>3, NAVRuns DEF NAV!Resume
  <2> QED BY <1>1, <1>2, <2>1, <2>2, NAVLeads
<1>4. CASE NAV!SignUpdate(w)
  <2>1. Sign(w)
    BY <1>4, NAVIs DEF NAV!SignUpdate
  <2>2. AllAdvance /\ OperationsSound' /\ worker[w].pc = "prepare" /\ Goto(w, "look")
    BY <2>1, SignAdvances DEF NAVInv, At
  <2> QED BY <1>1, <1>2, <2>2, NAVLeads
<1>5. CASE NAV!GiveUp(w)
  <2>1. FailPreparing(w) /\ worker[w].pc = "prepare"
    BY <1>5, NAVIs, NAVRuns DEF NAV!GiveUp
  <2>2. AllAdvance /\ OperationsSound'
    BY <2>1, FailAdvances DEF NAVInv
  <2>3. Goto(w, "outcome") \/ Goto(w, "look") \/ Finish(w)
    BY <1>5, NAVRuns DEF NAV!GiveUp
  <2> QED BY <1>1, <1>2, <2>1, <2>2, <2>3, NAVLeads
<1> QED BY <1>3, <1>4, <1>5

LEMMA NAVFollows ==
    ASSUME NAVInv, NEW w \in Workers, Followed(w), row' = row, target' = target
    PROVE  NAVInv' /\ NAV!Guards
<1>1. OperationsSound' /\ AllAdvance /\ RunsSound' /\ Only(w)
  BY FollowedAdvances, FollowedGoes DEF NAVInv
<1>2. worker[w].pc # "idle"
  BY DEF Followed, Receive, ReceiveNothing, Broadcast, Abandon, Look, At
<1>3. NAVSuits(worker[w], operation[worker[w].command], row[worker[w].command])
  BY <1>2, NAVInHand
<1>4. CASE worker'[w] = Idle
  BY <1>1, <1>2, <1>4, IdleRun, NAVGoes
<1>5. CASE /\ Carries(w) /\ worker'[w].seen = worker[w].seen
           /\ worker[w].pc \in {"reconcile", "broadcast", "observe", "look"}
           /\ worker'[w].pc \in {"reconcile", "broadcast", "observe", "settle"}
  BY <1>1, <1>2, <1>3, <1>5, NAVGoes DEF NAVSuits
<1> QED BY <1>4, <1>5, FollowedGoes DEF NAVInv

\* Every step of a valuation keeps the invariant and passes the triggers.
LEMMA NAVKeeps ==
    ASSUME NAVInv, NAV!Next
    PROVE  NAVInv' /\ NAV!Guards
<1>1. ASSUME NEW c \in Commands, NEW mode \in {"local", "chain"}, NAV!Submit(c, mode)
      PROVE  NAVInv' /\ NAV!Guards
  BY <1>1, NAVStaff
<1>2. ASSUME NEW w \in Workers, NAV!Recover(w)
      PROVE  NAVInv' /\ NAV!Guards
  <2>1. CASE (NAV!Journal(w) \/ NAV!Look(w)) /\ UNCHANGED <<row, target, contract>>
    BY <2>1, NAVRuns, NAVOpens, NAVFollows
  <2> QED BY <1>2, <2>1, NAVBegins, NAVDecides, NAVRefuses, NAVBinds, NAVRecords, NAVProjects,
             NAVSettles, NAVQuiet DEF NAV!Recover, NAV!rows
<1>3. ASSUME NEW c \in Commands, NEW k \in Claims, NEW outcome \in {"mined", "reverted"},
             NAV!Mine(c, k, outcome)
      PROVE  NAVInv' /\ NAV!Guards
  <2>1. Mined(c, k, outcome) /\ row' = row /\ target' = target
    BY <1>3, NAVIs DEF NAV!Mine, NAV!rows
  <2>2. OperationsSound' /\ AllAdvance /\ worker' = worker
    BY <2>1, MinedAdvances DEF NAVInv
  <2>3. RunsSound'
    BY <2>2 DEF NAVInv, RunsSound
  <2> QED BY <2>1, <2>2, <2>3, NAVAdvances
<1> QED BY <1>1, <1>2, <1>3 DEF NAV!Next, NAV!Claims, Claims

-----------------------------------------------------------------------------
(* WhitelistChange.                                                        *)

\* A row that was not decided has no operation, and one that ended says what
\* became of it; the transaction of a change that was made is recorded.
WhitelistFits(o, r) ==
    /\ r \in Whitelist!Change
    /\ r.status \in {"none", "pending", "unchanged"} => o.status = "none" /\ ~r.bound
    /\ r.status = "confirmed" => o.status = "confirmed" /\ r.bound /\ r.recorded
    /\ r.status = "failed" => o.status \in Undone /\ r.bound
    /\ r.recorded => r.bound

\* A run names no attempt to reopen, and opens one for a row that was decided.
WhitelistSuits(v, o, r) ==
    /\ v.retry = 0
    /\ r.status # "none"
    /\ v.pc = "open" => r.status \in {"executing", "confirmed", "failed"}

\* A sync has no change in hand.
Syncs == {"idle", "sync", "write"}

WhitelistInv ==
    /\ OperationsSound /\ RunsSound
    /\ row \in [Commands -> Whitelist!Change]
    /\ \A c \in Commands : WhitelistFits(operation[c], row[c])
    /\ \A c, d \in Whitelist!Unresolved : c = d
    /\ \A w \in Workers : worker[w].pc \notin Syncs =>
          /\ worker[w].command \in Commands
          /\ WhitelistSuits(worker[w], operation[worker[w].command], row[worker[w].command])

LEMMA WhitelistRuns ==
    /\ \A w, pc : Whitelist!At(w, pc) <=> worker[w].pc = pc
    /\ \A w, pc : Whitelist!Goto(w, pc) <=> Goto(w, pc)
    /\ \A w, pc, seen : Whitelist!GotoSeeing(w, pc, seen) <=> GotoSeeing(w, pc, seen)
    /\ \A w : Whitelist!Finish(w) <=> Finish(w)
    /\ \A w, pc, c, retry : Whitelist!Take(w, pc, c, retry) <=> Take(w, pc, c, retry)
    /\ \A w : Whitelist!Own(w) = operation[worker[w].command]
    /\ \A w : Whitelist!Signs(w) <=> Signs(w)
    /\ \A w : Whitelist!Journal(w) \/ Whitelist!Look(w) <=> Open(w) \/ Followed(w)
    /\ Whitelist!Undone = Undone
<1>1. \A w : Whitelist!Journal(w) \/ Whitelist!Look(w) <=> Open(w) \/ Followed(w)
  BY WhitelistIs DEF Whitelist!Journal, Whitelist!Look, Look, Whitelist!ReceiveNothing, ReceiveNothing,
     Whitelist!Abandon, Abandon, Followed, Whitelist!At, At, Whitelist!Goto, Goto, Whitelist!Finish, Finish,
     Whitelist!Idle, Idle, Whitelist!Own, Own, Whitelist!Owns, Owns
<1>2. /\ \A w, pc : Whitelist!Goto(w, pc) <=> Goto(w, pc)
      /\ \A w, pc, seen : Whitelist!GotoSeeing(w, pc, seen) <=> GotoSeeing(w, pc, seen)
      /\ \A w : Whitelist!Finish(w) <=> Finish(w)
      /\ \A w, pc, c, retry : Whitelist!Take(w, pc, c, retry) <=> Take(w, pc, c, retry)
  BY DEF Whitelist!Goto, Goto, Whitelist!GotoSeeing, GotoSeeing, Whitelist!Finish, Finish, Whitelist!Idle, Idle,
     Whitelist!Take, Take
<1>3. /\ \A w, pc : Whitelist!At(w, pc) <=> worker[w].pc = pc
      /\ \A w : Whitelist!Own(w) = operation[worker[w].command]
      /\ \A w : Whitelist!Signs(w) <=> Signs(w)
      /\ Whitelist!Undone = Undone
  BY DEF Whitelist!At, Whitelist!Own, Own, Whitelist!Signs, Signs, Whitelist!Owns, Owns, Whitelist!Undone
<1> QED BY <1>1, <1>2, <1>3

\* An operation that moves on leaves what was said of it true.
LEMMA WhitelistFitsOn ==
    ASSUME NEW o, NEW p, NEW r, WhitelistFits(o, r), Advances(o, p)
    PROVE  WhitelistFits(p, r)
BY DEF WhitelistFits, Advances

LEMMA WhitelistSuitsOn ==
    ASSUME NEW v, NEW o, NEW p, NEW r, WhitelistSuits(v, o, r), Advances(o, p)
    PROVE  WhitelistSuits(v, p, r)
BY DEF WhitelistSuits, Advances

\* A sweep touches a row that stays as it is.
LEMMA WhitelistTouched ==
    ASSUME NEW c \in Commands, WhitelistFits(operation'[c], row[c]), row'[c] = row[c]
    PROVE  row'[c].status # "none" => Whitelist!ChangeGuard(c)
BY DEF WhitelistFits, Whitelist!ChangeGuard, Whitelist!Undone, Whitelist!Terminal, Whitelist!Change

LEMMA WhitelistAdvances ==
    ASSUME WhitelistInv, OperationsSound', RunsSound', AllAdvance, row' = row,
           \A w \in Workers :
              \/ worker'[w] = worker[w] \/ worker'[w].pc \in Syncs
              \/ /\ worker'[w].command \in Commands
                 /\ WhitelistSuits(worker'[w], operation[worker'[w].command], row[worker'[w].command])
    PROVE  WhitelistInv' /\ Whitelist!Guards
<1>1. \A c \in Commands : WhitelistFits(operation'[c], row'[c])
  BY WhitelistFitsOn DEF WhitelistInv, AllAdvance
<1>2. ASSUME NEW w \in Workers, worker'[w].pc \notin Syncs
      PROVE  /\ worker'[w].command \in Commands
             /\ WhitelistSuits(worker'[w], operation'[worker'[w].command], row'[worker'[w].command])
  <2> DEFINE c == worker'[w].command
  <2>1. c \in Commands /\ WhitelistSuits(worker'[w], operation[c], row[c])
    BY <1>2 DEF WhitelistInv
  <2>2. Advances(operation[c], operation'[c])
    BY <2>1 DEF AllAdvance
  <2> QED BY <2>1, <2>2, WhitelistSuitsOn
<1>3. ASSUME NEW c \in Commands
      PROVE  row'[c].status # "none" => Whitelist!ChangeGuard(c) /\ ~Whitelist!Reclaimed(c)
  <2>1. Advances(operation[c], operation'[c])
    BY DEF AllAdvance
  <2>2. ~Whitelist!Reclaimed(c)
    BY <2>1 DEF Whitelist!Reclaimed, Advances
  <2> QED BY <1>1, <2>2, WhitelistTouched
<1>4. \A c, d \in Whitelist!Unresolved' : c = d
  BY DEF WhitelistInv, Whitelist!Unresolved
<1> QED BY <1>1, <1>2, <1>3, <1>4 DEF WhitelistInv, Whitelist!Guards

\* A step of one row, its operation and the runs that have it in hand.
LEMMA WhitelistSteps ==
    ASSUME WhitelistInv, OperationsSound', RunsSound', NEW c \in Commands, NEW r \in Whitelist!Change,
           row' = [row EXCEPT ![c] = r],
           \A d \in Commands : d # c => operation'[d] = operation[d],
           WhitelistFits(operation'[c], r),
           \A v \in Run : WhitelistSuits(v, operation[c], row[c]) => WhitelistSuits(v, operation'[c], r),
           \A w \in Workers :
              \/ worker'[w] = worker[w] \/ worker'[w].pc \in Syncs
              \/ (worker'[w].command = c /\ WhitelistSuits(worker'[w], operation'[c], r)),
           row'[c].status # "none" => Whitelist!ChangeGuard(c) /\ ~Whitelist!Reclaimed(c),
           \/ r.status \notin {"pending", "executing"}
           \/ c \in Whitelist!Unresolved \/ Whitelist!Unresolved = {}
    PROVE  WhitelistInv' /\ Whitelist!Guards
<1>1. row' \in [Commands -> Whitelist!Change] /\ row'[c] = r
      /\ \A d \in Commands : d # c => row'[d] = row[d]
  BY DEF WhitelistInv
<1>2. \A d \in Commands : WhitelistFits(operation'[d], row'[d])
  BY <1>1 DEF WhitelistInv
<1>3. ASSUME NEW w \in Workers, worker'[w].pc \notin Syncs
      PROVE  /\ worker'[w].command \in Commands
             /\ WhitelistSuits(worker'[w], operation'[worker'[w].command], row'[worker'[w].command])
  <2>1. CASE worker'[w].command = c /\ WhitelistSuits(worker'[w], operation'[c], r)
    BY <1>1, <2>1
  <2>2. CASE worker'[w] = worker[w]
    <3>1. worker[w] \in Run /\ worker[w].command \in Commands
          /\ WhitelistSuits(worker[w], operation[worker[w].command], row[worker[w].command])
      BY <1>3, <2>2 DEF WhitelistInv, RunsSound
    <3>2. CASE worker[w].command = c
      BY <1>1, <2>2, <3>1, <3>2
    <3>3. CASE worker[w].command # c
      BY <1>1, <2>2, <3>1, <3>3
    <3> QED BY <3>2, <3>3
  <2> QED BY <1>3, <2>1, <2>2
<1>4. ASSUME NEW d \in Commands
      PROVE  row'[d].status # "none" => Whitelist!ChangeGuard(d) /\ ~Whitelist!Reclaimed(d)
  <2>1. CASE d = c
    BY <2>1
  <2>2. CASE d # c
    <3>1. row'[d] = row[d] /\ operation'[d] = operation[d]
      BY <1>1, <2>2
    <3>2. ~Whitelist!Reclaimed(d)
      BY <3>1 DEF Whitelist!Reclaimed
    <3> QED BY <1>2, <3>1, <3>2, WhitelistTouched
  <2> QED BY <2>1, <2>2
<1>5. \A d, e \in Whitelist!Unresolved' : d = e
  BY <1>1 DEF WhitelistInv, Whitelist!Unresolved
<1> QED BY <1>1, <1>2, <1>3, <1>4, <1>5 DEF WhitelistInv, Whitelist!Guards

LEMMA WhitelistOpens ==
    ASSUME WhitelistInv, NEW w \in Workers, Open(w), row' = row
    PROVE  WhitelistInv' /\ Whitelist!Guards
<1> DEFINE c == worker[w].command
           o == operation[c]
           p == operation'[c]
<1>1. /\ OperationsSound' /\ RunsSound' /\ Only(w) /\ Carries(w) /\ c \in Commands
      /\ worker[w].pc = "open" /\ worker'[w].pc = "bind" /\ worker'[w].seen = worker[w].seen
      /\ \A d \in Commands : d # c => operation'[d] = operation[d]
      /\ \/ operation' = operation
         \/ /\ o.status = "none" \/ Reopens(o, worker[w].retry)
            /\ p.status = "preparing" /\ p.claim = o.claim + 1
  BY OpenDoes DEF WhitelistInv
<1>2. row[c] \in Whitelist!Change /\ WhitelistFits(o, row[c]) /\ WhitelistSuits(worker[w], o, row[c])
  BY <1>1 DEF WhitelistInv, Syncs
<1>3. Sound(o)
  BY <1>1 DEF WhitelistInv, OperationsSound
<1>4. worker'[w].command = c /\ WhitelistSuits(worker'[w], o, row[c])
  BY <1>1, <1>2 DEF WhitelistSuits, Carries
<1>5. CASE operation' = operation
  BY <1>1, <1>4, <1>5, NoneMoves, WhitelistAdvances DEF Only, WhitelistInv
<1>6. CASE /\ o.status = "none" \/ Reopens(o, worker[w].retry)
           /\ p.status = "preparing" /\ p.claim = o.claim + 1
  <2>1. o.status = "none"
    BY <1>2, <1>3, <1>6 DEF WhitelistSuits, Reopens, Sound
  <2>2. row[c].status = "executing"
    BY <1>1, <1>2, <2>1 DEF WhitelistSuits, WhitelistFits
  <2>3. WhitelistFits(p, row[c]) /\ row[c].status # "none"
    BY <1>2, <2>2 DEF WhitelistFits
  <2>4. \A v \in Run : WhitelistSuits(v, o, row[c]) => WhitelistSuits(v, p, row[c])
    BY <2>1 DEF WhitelistSuits
  <2>5. \A x \in Workers : \/ worker'[x] = worker[x]
                             \/ (worker'[x].command = c /\ WhitelistSuits(worker'[x], p, row[c]))
    <3>1. WhitelistSuits(worker'[w], p, row[c])
      BY <1>1, <1>4, <2>1 DEF WhitelistSuits
    <3> HIDE DEF p, c
    <3> QED BY <1>1, <1>4, <3>1 DEF Only
  <2>6. ~Whitelist!Reclaimed(c) /\ c \in Whitelist!Unresolved
    BY <1>1, <2>1, <2>2 DEF Whitelist!Reclaimed, Whitelist!Unresolved
  <2>7. row'[c].status # "none" => Whitelist!ChangeGuard(c)
    BY <1>1, <2>3, WhitelistTouched
  <2>8. row' = [row EXCEPT ![c] = row[c]]
    BY DEF WhitelistInv
  <2> HIDE DEF c, o, p
  <2> QED BY <1>1, <1>2, <2>3, <2>4, <2>5, <2>6, <2>7, <2>8, WhitelistSteps DEF o, p
<1> QED BY <1>1, <1>5, <1>6

\* Steps of one run that touch no row.
LEMMA WhitelistGoes ==
    ASSUME WhitelistInv, NEW w \in Workers, row' = row, OperationsSound', AllAdvance,
           RunsSound', Only(w),
           \/ worker'[w].pc \in Syncs
           \/ /\ worker[w].pc \notin Syncs /\ Carries(w)
              /\ worker'[w].pc # "open" \/ worker[w].pc = "open"
    PROVE  WhitelistInv' /\ Whitelist!Guards
<1> DEFINE c == worker[w].command
<1>1. CASE worker'[w].pc \in Syncs
  BY <1>1, WhitelistAdvances DEF Only
<1>2. CASE /\ worker[w].pc \notin Syncs /\ Carries(w)
           /\ worker'[w].pc # "open" \/ worker[w].pc = "open"
  <2>1. c \in Commands /\ WhitelistSuits(worker[w], operation[c], row[c])
    BY <1>2 DEF WhitelistInv
  <2>2. worker'[w].command = c /\ WhitelistSuits(worker'[w], operation[c], row[c])
    BY <1>2, <2>1 DEF WhitelistSuits, Carries
  <2> HIDE DEF c
  <2> QED BY <2>1, <2>2, WhitelistAdvances DEF Only
<1> QED BY <1>1, <1>2

LEMMA WhitelistAdmits ==
    ASSUME WhitelistInv, NEW c \in Commands, NEW add \in BOOLEAN, Whitelist!Admit(c, add)
    PROVE  WhitelistInv' /\ Whitelist!Guards
<1> DEFINE r == [Whitelist!NoChange EXCEPT !.status = "pending", !.add = add]
<1>1. /\ row' = [row EXCEPT ![c] = r] /\ row[c].status = "none" /\ UNCHANGED <<operation, worker>>
      /\ Whitelist!Unresolved = {}
  BY DEF Whitelist!Admit, Whitelist!Write
<1>2. r \in Whitelist!Change /\ r.status = "pending" /\ ~r.bound /\ ~r.recorded
  BY DEF Whitelist!Change, Whitelist!NoChange
<1> HIDE DEF r
<1>3. operation[c].status = "none" /\ WhitelistFits(operation[c], row[c])
  BY <1>1 DEF WhitelistInv, WhitelistFits
<1>4. WhitelistFits(operation[c], r)
  BY <1>2, <1>3 DEF WhitelistFits
<1>5. \A v \in Run : ~WhitelistSuits(v, operation[c], row[c])
  BY <1>1 DEF WhitelistSuits
<1>6. row'[c] = r
  BY <1>1 DEF WhitelistInv
<1>7. Whitelist!ChangeGuard(c) /\ ~Whitelist!Reclaimed(c)
  BY <1>1, <1>2, <1>3, <1>6 DEF WhitelistFits, Whitelist!ChangeGuard, Whitelist!Reclaimed,
     Whitelist!Terminal, Whitelist!Transitions
<1>8. OperationsSound' /\ RunsSound'
  BY <1>1 DEF WhitelistInv, OperationsSound, RunsSound
<1> QED BY <1>1, <1>2, <1>4, <1>5, <1>7, <1>8, WhitelistSteps

\* Steps of one run that write the row it has in hand.
LEMMA WhitelistWrites ==
    ASSUME WhitelistInv, NEW w \in Workers, NEW c \in Commands, NEW r \in Whitelist!Change,
           UNCHANGED operation, row' = [row EXCEPT ![c] = r], RunsSound', Only(w),
           WhitelistFits(operation[c], r),
           \A v \in Run : WhitelistSuits(v, operation[c], row[c]) => WhitelistSuits(v, operation[c], r),
           \/ worker'[w].pc = "idle"
           \/ (worker'[w].command = c /\ WhitelistSuits(worker'[w], operation[c], r)),
           r.status \in {"pending", "executing"} => row[c].status \in {"pending", "executing"},
           Whitelist!ChangeGuard(c)
    PROVE  WhitelistInv' /\ Whitelist!Guards
<1>1. OperationsSound'
  BY NoneMoves DEF WhitelistInv
<1>2. ~Whitelist!Reclaimed(c)
  BY DEF Whitelist!Reclaimed
<1>3. \A x \in Workers :
         \/ worker'[x] = worker[x] \/ worker'[x].pc \in Syncs
         \/ (worker'[x].command = c /\ WhitelistSuits(worker'[x], operation[c], r))
  BY DEF Only, Syncs
<1>4. r.status \notin {"pending", "executing"} \/ c \in Whitelist!Unresolved
  BY DEF Whitelist!Unresolved
<1> QED BY <1>1, <1>2, <1>3, <1>4, WhitelistSteps

LEMMA WhitelistInHand ==
    ASSUME WhitelistInv, NEW w \in Workers, worker[w].pc \notin Syncs
    PROVE  LET c == worker[w].command IN
           /\ c \in Commands /\ WhitelistSuits(worker[w], operation[c], row[c])
           /\ WhitelistFits(operation[c], row[c]) /\ row[c] \in Whitelist!Change /\ Sound(operation[c])
           /\ RunsSound /\ OperationsSound
BY DEF WhitelistInv, OperationsSound

\* Steps of a run that leave the row as it is.
LEMMA WhitelistLeads ==
    ASSUME WhitelistInv, NEW w \in Workers, worker[w].pc \notin Syncs,
           row' = row, OperationsSound', AllAdvance, NEW pc \in Steps \ {"open"},
           Goto(w, pc) \/ Finish(w)
    PROVE  WhitelistInv' /\ Whitelist!Guards
<1> DEFINE c == worker[w].command
<1>1. c \in Commands /\ WhitelistSuits(worker[w], operation[c], row[c]) /\ RunsSound
  BY WhitelistInHand
<1>2. CASE Goto(w, pc)
  BY <1>1, <1>2, GotoGoes, WhitelistGoes
<1>3. CASE Finish(w)
  BY <1>1, <1>3, FinishGoes, IdleRun, WhitelistGoes DEF Syncs
<1> QED BY <1>2, <1>3

LEMMA WhitelistUnchanged ==
    ASSUME WhitelistInv, NEW w \in Workers, Whitelist!RecordUnchanged(w)
    PROVE  WhitelistInv' /\ Whitelist!Guards
<1> DEFINE c == worker[w].command
           o == operation[c]
           old == row[c]
           r == [old EXCEPT !.status = "unchanged"]
<1>1. worker[w].pc = "decide" /\ Finish(w) /\ UNCHANGED operation /\ old.status = "pending"
      /\ row' = [row EXCEPT ![c] = r]
  BY WhitelistRuns DEF Whitelist!RecordUnchanged, Whitelist!Undecided, Whitelist!Write, Whitelist!Row
<1>2. /\ c \in Commands /\ WhitelistFits(o, old) /\ old \in Whitelist!Change /\ RunsSound
  BY <1>1, WhitelistInHand DEF Syncs
<1>3. RunsSound' /\ Only(w) /\ worker'[w].pc = "idle"
  BY <1>1, <1>2, FinishGoes, IdleRun
<1>4. /\ r \in Whitelist!Change /\ r.status = "unchanged" /\ r.bound = old.bound
      /\ r.recorded = old.recorded /\ row'[c] = r
  BY <1>1, <1>2 DEF WhitelistInv, Whitelist!Change, Whitelist!Terminal
<1> HIDE DEF r
<1>5. WhitelistFits(o, r)
  BY <1>1, <1>2, <1>4 DEF WhitelistFits
<1>6. \A v \in Run : WhitelistSuits(v, o, old) => WhitelistSuits(v, o, r)
  BY <1>1, <1>4 DEF WhitelistSuits
<1>7. Whitelist!ChangeGuard(c)
  BY <1>1, <1>2, <1>4 DEF Whitelist!ChangeGuard, WhitelistFits, Whitelist!Terminal,
     Whitelist!Transitions
<1> QED BY <1>1, <1>2, <1>3, <1>4, <1>5, <1>6, <1>7, WhitelistWrites

LEMMA WhitelistDecides ==
    ASSUME WhitelistInv, NEW w \in Workers, Whitelist!RecordDecision(w)
    PROVE  WhitelistInv' /\ Whitelist!Guards
<1> DEFINE c == worker[w].command
           o == operation[c]
           old == row[c]
           status == IF old.status = "pending" THEN "executing" ELSE old.status
           r == [old EXCEPT !.status = status]
<1>1. /\ worker[w].pc = "decide" /\ UNCHANGED operation
      /\ row' = [row EXCEPT ![c] = IF old.status = "pending" THEN [old EXCEPT !.status = "executing"]
                                   ELSE old]
      /\ IF old.status \in Whitelist!Terminal THEN Finish(w) ELSE GotoSeeing(w, "open", FALSE)
  BY WhitelistRuns DEF Whitelist!RecordDecision, Whitelist!Undecided, Whitelist!Write, Whitelist!Row
<1>2. /\ c \in Commands /\ WhitelistFits(o, old) /\ old \in Whitelist!Change /\ RunsSound
      /\ WhitelistSuits(worker[w], o, old)
  BY <1>1, WhitelistInHand DEF Syncs
<1>3. /\ r \in Whitelist!Change /\ r.status = status /\ r.bound = old.bound
      /\ r.recorded = old.recorded /\ row' = [row EXCEPT ![c] = r] /\ row'[c] = r
      /\ (old.status # "pending" => r = old)
  BY <1>1, <1>2 DEF WhitelistInv, Whitelist!Change
<1>4. status # "pending" /\ (status = old.status \/ (old.status = "pending" /\ status = "executing"))
  OBVIOUS
<1> HIDE DEF r, status
<1>5. CASE Finish(w) /\ old.status \in Whitelist!Terminal
  <2>1. row' = row
    BY <1>2, <1>3, <1>5 DEF WhitelistInv, Whitelist!Terminal
  <2>2. RunsSound' /\ Only(w) /\ worker'[w].pc \in Syncs
    BY <1>2, <1>5, FinishGoes, IdleRun DEF Syncs
  <2> QED BY <1>1, <2>1, <2>2, NoneMoves, WhitelistGoes DEF WhitelistInv
<1>6. CASE GotoSeeing(w, "open", FALSE) /\ old.status \notin Whitelist!Terminal
  <2>1. /\ RunsSound' /\ Only(w) /\ worker'[w].command = c
        /\ worker'[w].retry = worker[w].retry /\ worker'[w].pc = "open"
    BY <1>2, <1>6, GotoSeeingGoes DEF Carries, Steps
  <2>2. status = "executing"
    BY <1>2, <1>4, <1>6 DEF Whitelist!Change, WhitelistSuits
  <2>3. WhitelistFits(o, r)
    BY <1>2, <1>3, <1>4, <2>2 DEF WhitelistFits
  <2>4. \A v \in Run : WhitelistSuits(v, o, old) => WhitelistSuits(v, o, r)
    BY <1>3, <2>2 DEF WhitelistSuits
  <2>5. WhitelistSuits(worker'[w], o, r)
    BY <1>2, <1>3, <2>1, <2>2 DEF WhitelistSuits
  <2>6. Whitelist!ChangeGuard(c)
    BY <1>1, <1>2, <1>3, <1>4, <1>6, <2>2 DEF Whitelist!ChangeGuard, WhitelistFits, Whitelist!Transitions
  <2>7. old.status \in {"pending", "executing"}
    BY <1>4, <2>2
  <2> QED BY <1>1, <1>2, <1>3, <2>1, <2>3, <2>4, <2>5, <2>6, <2>7, WhitelistWrites
<1> QED BY <1>1, <1>5, <1>6

LEMMA WhitelistBinds ==
    ASSUME WhitelistInv, NEW w \in Workers, Whitelist!Bind(w)
    PROVE  WhitelistInv' /\ Whitelist!Guards
<1> DEFINE c == worker[w].command
           o == operation[c]
           old == row[c]
           r == [old EXCEPT !.bound = TRUE]
<1>1. /\ worker[w].pc = "bind" /\ UNCHANGED operation /\ Goto(w, "resume")
      /\ row' = [row EXCEPT ![c] = r]
      /\ old.status = "executing" \/ (old.status \in Whitelist!Terminal /\ old.bound)
  BY WhitelistRuns DEF Whitelist!Bind, Whitelist!Write, Whitelist!Row
<1>2. /\ c \in Commands /\ WhitelistFits(o, old) /\ old \in Whitelist!Change /\ RunsSound
      /\ WhitelistSuits(worker[w], o, old)
  BY <1>1, WhitelistInHand DEF Syncs
<1>3. /\ r \in Whitelist!Change /\ r.status = old.status /\ r.bound
      /\ r.recorded = old.recorded /\ (old.bound => r = old) /\ row'[c] = r
  BY <1>1, <1>2 DEF WhitelistInv, Whitelist!Change
<1>4. /\ RunsSound' /\ Only(w) /\ worker'[w].command = c /\ worker'[w].pc = "resume"
      /\ worker'[w].retry = worker[w].retry
  BY <1>1, <1>2, GotoGoes DEF Carries, Steps
<1> HIDE DEF r
<1>5. WhitelistFits(o, r)
  BY <1>1, <1>2, <1>3 DEF WhitelistFits, Whitelist!Terminal
<1>6. \A v \in Run : WhitelistSuits(v, o, old) => WhitelistSuits(v, o, r)
  BY <1>3 DEF WhitelistSuits
<1>7. WhitelistSuits(worker'[w], o, r)
  BY <1>2, <1>3, <1>4 DEF WhitelistSuits
<1>8. Whitelist!ChangeGuard(c)
  BY <1>1, <1>2, <1>3 DEF Whitelist!ChangeGuard, WhitelistFits, Whitelist!Terminal, Whitelist!Undone
<1> QED BY <1>1, <1>2, <1>3, <1>4, <1>5, <1>6, <1>7, <1>8, WhitelistWrites

LEMMA WhitelistProjects ==
    ASSUME WhitelistInv, NEW w \in Workers, Whitelist!Project(w)
    PROVE  WhitelistInv' /\ Whitelist!Guards
<1> DEFINE c == worker[w].command
           o == operation[c]
           old == row[c]
           verdict == Whitelist!Verdict(w)
           recorded == old.recorded \/ o.tx[worker[w].claim] # "none"
           r == [old EXCEPT !.status = verdict, !.recorded = recorded]
<1>1. /\ worker[w].pc \in {"look", "settle"} /\ UNCHANGED operation
      /\ Finish(w) \/ Goto(w, "reconcile")
  BY WhitelistRuns DEF Whitelist!Project
<1>2. /\ c \in Commands /\ WhitelistFits(o, old) /\ old \in Whitelist!Change /\ RunsSound
      /\ WhitelistSuits(worker[w], o, old) /\ Sound(o) /\ OperationsSound
  BY <1>1, WhitelistInHand DEF Syncs
<1>3. CASE row' = row
  <2>1. "reconcile" \in Steps \ {"open"}
    BY DEF Steps
  <2> QED BY <1>1, <1>2, <1>3, <2>1, NoneMoves, WhitelistLeads DEF Syncs
<1>4. CASE /\ old.status \notin Whitelist!Terminal /\ o.claim = worker[w].claim /\ old.bound
           /\ row' = [row EXCEPT ![c] = r]
  <2>1. /\ verdict = "confirmed" => o.status = "confirmed"
        /\ verdict = "failed" => o.status \in Undone
        /\ verdict \in {"confirmed", "failed", "executing"}
    BY WhitelistRuns DEF Whitelist!Verdict
  <2>2. old.status = "executing"
    BY <1>2, <1>4 DEF Whitelist!Change, Whitelist!Terminal, WhitelistFits
  <2>3. verdict = "confirmed" => recorded
    <3>1. SUFFICES ASSUME verdict = "confirmed" PROVE o.tx[o.claim] # "none"
      BY <1>4
    <3>2. o.status = "confirmed"
      BY <2>1, <3>1
    <3>3. o.claim \in Claims
      BY <1>2, <3>2, Bounded DEF Sound, Operation
    <3> QED BY <1>2, <3>2, <3>3 DEF Sound
  <2>4. recorded \in BOOLEAN /\ (old.recorded => recorded)
    BY <1>2 DEF Whitelist!Change
  <2>5. /\ r \in Whitelist!Change /\ r.status = verdict /\ r.bound /\ r.recorded = recorded
        /\ row'[c] = r
    BY <1>2, <1>4, <2>1, <2>4 DEF WhitelistInv, Whitelist!Change, Whitelist!Terminal
  <2>6. /\ RunsSound' /\ Only(w)
        /\ \/ worker'[w].pc = "idle"
           \/ /\ worker'[w].command = c /\ worker'[w].retry = worker[w].retry
              /\ worker'[w].pc = "reconcile"
    <3>1. CASE Finish(w)
      BY <1>2, <3>1, FinishGoes, IdleRun
    <3>2. CASE Goto(w, "reconcile")
      BY <1>2, <3>2, GotoGoes DEF Carries, Steps
    <3> QED BY <1>1, <3>1, <3>2
  <2> HIDE DEF r, verdict, recorded
  <2>7. WhitelistFits(o, r)
    BY <1>2, <1>4, <2>1, <2>2, <2>3, <2>5 DEF WhitelistFits
  <2>8. \A v \in Run : WhitelistSuits(v, o, old) => WhitelistSuits(v, o, r)
    BY <2>1, <2>5 DEF WhitelistSuits
  <2>9. \/ worker'[w].pc = "idle"
        \/ (worker'[w].command = c /\ WhitelistSuits(worker'[w], o, r))
    BY <1>2, <2>1, <2>5, <2>6 DEF WhitelistSuits
  <2>10. Whitelist!ChangeGuard(c)
    BY <1>1, <1>4, <2>1, <2>2, <2>3, <2>4, <2>5 DEF Whitelist!ChangeGuard, Whitelist!Transitions,
       Whitelist!Undone, Whitelist!Terminal
  <2> QED BY <1>1, <1>2, <1>4, <2>2, <2>5, <2>6, <2>7, <2>8, <2>9, <2>10, WhitelistWrites
<1>5. ASSUME old.status \notin Whitelist!Terminal
      PROVE  /\ o.claim = worker[w].claim /\ old.bound
             /\ row' = [row EXCEPT ![c] = [old EXCEPT !.status = verdict,
                                                      !.recorded = @ \/ o.tx[worker[w].claim] # "none"]]
  BY <1>5, WhitelistRuns DEF Whitelist!Project, Whitelist!Write, Whitelist!Row, Whitelist!Owns
<1>6. old.status \notin Whitelist!Terminal => row' = [row EXCEPT ![c] = r]
  BY <1>2, <1>5 DEF Whitelist!Change
<1>7. old.status \in Whitelist!Terminal => row' = row
  BY DEF Whitelist!Project, Whitelist!rows, Whitelist!Row
<1> QED BY <1>3, <1>4, <1>5, <1>6, <1>7

LEMMA WhitelistBegins ==
    ASSUME WhitelistInv, NEW w \in Workers, NEW c \in Commands, Whitelist!Begin(w, c)
    PROVE  WhitelistInv' /\ Whitelist!Guards
<1> DEFINE pc == IF row[c].status = "pending" THEN "read" ELSE "open"
<1>1. /\ row[c].status \in {"pending", "executing"} /\ Take(w, pc, c, 0)
      /\ UNCHANGED operation /\ row' = row
  BY WhitelistRuns DEF Whitelist!Begin, Whitelist!Unresolved, Whitelist!rows
<1>2. pc \in Steps /\ 0 \in 0..MaxClaims
  BY Bounded DEF Steps
<1>3. /\ RunsSound' /\ Only(w) /\ worker'[w].command = c /\ worker'[w].retry = 0
      /\ worker'[w].pc = pc
  BY <1>1, <1>2, TakeGoes DEF WhitelistInv
<1>4. WhitelistSuits(worker'[w], operation[c], row[c])
  BY <1>1, <1>3 DEF WhitelistSuits
<1> QED BY <1>1, <1>3, <1>4, NoneMoves, WhitelistAdvances DEF WhitelistInv, Only

LEMMA WhitelistReads ==
    ASSUME WhitelistInv, NEW w \in Workers, contract \in BOOLEAN,
           Whitelist!ReadMembership(w) \/ Whitelist!Sync(w)
    PROVE  WhitelistInv' /\ Whitelist!Guards
<1>1. UNCHANGED operation /\ row' = row
  BY DEF Whitelist!ReadMembership, Whitelist!Sync, Whitelist!SyncBegin, Whitelist!SyncRead,
         Whitelist!SyncWrite, Whitelist!rows
<1>2. AllAdvance /\ OperationsSound'
  BY <1>1, NoneMoves DEF WhitelistInv
<1>3. CASE Whitelist!ReadMembership(w)
  <2>1. worker[w].pc = "read" /\ GotoSeeing(w, "decide", contract)
    BY <1>3, WhitelistRuns DEF Whitelist!ReadMembership
  <2>2. worker[w].command \in Commands /\ RunsSound
    BY <2>1, WhitelistInHand DEF Syncs
  <2>3. RunsSound' /\ Only(w) /\ Carries(w) /\ worker'[w].pc = "decide"
    BY <2>1, <2>2, GotoSeeingGoes DEF Steps
  <2> QED BY <1>1, <1>2, <2>1, <2>3, WhitelistGoes DEF Syncs
<1>4. ASSUME Whitelist!SyncBegin(w) \/ Whitelist!SyncRead(w)
      PROVE  RunsSound' /\ Only(w) /\ worker'[w].pc \in Syncs
  <2>1. PICK r \in Run : worker' = [worker EXCEPT ![w] = r] /\ r.pc \in {"sync", "write"}
    <3>1. CASE Whitelist!SyncBegin(w)
      <4>1. worker' = [worker EXCEPT ![w] = [Idle EXCEPT !.pc = "sync"]]
        BY <3>1 DEF Whitelist!SyncBegin, Whitelist!Idle, Idle
      <4>2. \A x \in Run : [x EXCEPT !.pc = "sync"] \in Run /\ [x EXCEPT !.pc = "sync"].pc = "sync"
        BY DEF Run, Steps
      <4> QED BY <4>1, <4>2, IdleRun
    <3>2. CASE Whitelist!SyncRead(w)
      <4>1. GotoSeeing(w, "write", contract)
        BY <3>2, WhitelistRuns DEF Whitelist!SyncRead
      <4>2. /\ worker' = [worker EXCEPT ![w] = [worker[w] EXCEPT !.pc = "write", !.seen = contract]]
            /\ [worker[w] EXCEPT !.pc = "write", !.seen = contract] \in Run
            /\ [worker[w] EXCEPT !.pc = "write", !.seen = contract].pc = "write"
        BY <4>1 DEF GotoSeeing, WhitelistInv, RunsSound, Run, Steps
      <4> QED BY <4>2
    <3> QED BY <1>4, <3>1, <3>2
  <2> QED BY <2>1, RunGoes DEF WhitelistInv, Syncs
<1>5. ASSUME Whitelist!SyncWrite(w)
      PROVE  RunsSound' /\ Only(w) /\ worker'[w].pc \in Syncs
  BY <1>5, WhitelistRuns, FinishGoes, IdleRun DEF Whitelist!SyncWrite, WhitelistInv, Syncs
<1> QED BY <1>1, <1>2, <1>3, <1>4, <1>5, WhitelistGoes DEF Whitelist!Sync

LEMMA WhitelistQuiet ==
    ASSUME WhitelistInv, NEW w \in Workers,
           Whitelist!Resume(w) \/ Whitelist!SignChange(w) \/ Whitelist!GiveUp(w)
    PROVE  WhitelistInv' /\ Whitelist!Guards
<1>1. row' = row
  BY DEF Whitelist!Resume, Whitelist!SignChange, Whitelist!GiveUp, Whitelist!rows
<1>2. {"settle", "prepare", "look"} \subseteq Steps \ {"open"}
  BY DEF Steps
<1>3. CASE Whitelist!Resume(w)
  <2>1. AllAdvance /\ OperationsSound' /\ worker[w].pc = "resume"
    BY <1>3, NoneMoves, WhitelistRuns DEF WhitelistInv, Whitelist!Resume
  <2>2. Goto(w, "settle") \/ Goto(w, "prepare") \/ Goto(w, "look")
    BY <1>3, WhitelistRuns DEF Whitelist!Resume
  <2> QED BY <1>1, <1>2, <2>1, <2>2, WhitelistLeads DEF Syncs
<1>4. CASE Whitelist!SignChange(w)
  <2>1. Sign(w)
    BY <1>4, WhitelistIs DEF Whitelist!SignChange
  <2>2. AllAdvance /\ OperationsSound' /\ worker[w].pc = "prepare" /\ Goto(w, "look")
    BY <2>1, SignAdvances DEF WhitelistInv, At
  <2> QED BY <1>1, <1>2, <2>2, WhitelistLeads DEF Syncs
<1>5. CASE Whitelist!GiveUp(w)
  <2>1. FailPreparing(w) /\ worker[w].pc = "prepare" /\ Goto(w, "settle")
    BY <1>5, WhitelistIs, WhitelistRuns DEF Whitelist!GiveUp
  <2>2. AllAdvance /\ OperationsSound'
    BY <2>1, FailAdvances DEF WhitelistInv
  <2> QED BY <1>1, <1>2, <2>1, <2>2, WhitelistLeads DEF Syncs
<1> QED BY <1>3, <1>4, <1>5

LEMMA WhitelistFollows ==
    ASSUME WhitelistInv, NEW w \in Workers, Followed(w), row' = row
    PROVE  WhitelistInv' /\ Whitelist!Guards
<1>1. OperationsSound' /\ AllAdvance /\ RunsSound' /\ Only(w)
  BY FollowedAdvances, FollowedGoes DEF WhitelistInv
<1>2. CASE worker'[w] = Idle
  BY <1>1, <1>2, IdleRun, WhitelistGoes DEF Syncs
<1>3. CASE /\ Carries(w)
           /\ worker[w].pc \in {"reconcile", "broadcast", "observe", "look"}
           /\ worker'[w].pc \in {"reconcile", "broadcast", "observe", "settle"}
  BY <1>1, <1>3, WhitelistGoes DEF Syncs
<1> QED BY <1>2, <1>3, FollowedGoes DEF WhitelistInv

\* Every step of a change keeps the invariant and passes the triggers.
LEMMA WhitelistKeeps ==
    ASSUME WhitelistInv, Whitelist!Next, contract \in BOOLEAN
    PROVE  WhitelistInv' /\ Whitelist!Guards
<1>1. ASSUME NEW w \in Workers, Whitelist!Recover(w)
      PROVE  WhitelistInv' /\ Whitelist!Guards
  <2>1. CASE Whitelist!Journal(w) /\ UNCHANGED <<row, target, contract>>
    BY <2>1, WhitelistRuns, WhitelistOpens, WhitelistFollows
  <2> QED BY <1>1, <2>1, WhitelistUnchanged, WhitelistDecides, WhitelistBinds, WhitelistProjects,
             WhitelistReads, WhitelistQuiet DEF Whitelist!Recover, Whitelist!rows
<1>2. ASSUME NEW c \in Commands, NEW k \in Claims, NEW outcome \in {"mined", "reverted"},
             Whitelist!Mine(c, k, outcome)
      PROVE  WhitelistInv' /\ Whitelist!Guards
  <2>1. Mined(c, k, outcome) /\ row' = row
    BY <1>2, WhitelistIs DEF Whitelist!Mine, Whitelist!rows
  <2>2. OperationsSound' /\ AllAdvance /\ worker' = worker
    BY <2>1, MinedAdvances DEF WhitelistInv
  <2>3. RunsSound'
    BY <2>2 DEF WhitelistInv, RunsSound
  <2> QED BY <2>1, <2>2, <2>3, WhitelistAdvances
<1> QED BY <1>1, <1>2, WhitelistAdmits, WhitelistBegins, WhitelistReads
        DEF Whitelist!Next, Whitelist!Claims, Claims

-----------------------------------------------------------------------------
(* SwapApproval.                                                           *)

\* The last transaction is the current attempt's, or one known to have been
\* reverted; a retry names an attempt that came to nothing.
ApprovalFits(o, r) ==
    /\ r \in Approval!Approval
    /\ r.retry <= o.claim
    /\ r.retry # 0 /\ r.retry = o.claim =>
          o.status \in Undone /\ (o.status = "reverted" => r.record[o.claim] = "reverted")
    /\ ~r.bound => r.transaction = 0 /\ r.retry = 0 /\ r.outcome \notin {"confirmed", "failed"}
    /\ r.outcome \in {"not_configured", "pending", "observed"} => o.status = "none"
    /\ r.outcome = "confirmed" =>
          o.status = "confirmed" /\ r.record[o.claim] = "confirmed" /\ r.retry # o.claim
    /\ r.outcome = "failed" =>
          /\ o.status \in Undone /\ r.retry # o.claim
          /\ o.status = "reverted" => r.record[o.claim] = "reverted"
    /\ IF o.status \in Attempted THEN r.transaction = o.claim
       ELSE r.transaction # 0 => r.transaction < o.claim /\ r.record[r.transaction] = "reverted"
    /\ o.status = "none" => ~r.bound

\* A run reopens only what the row was admitted to retry, opens one for a row
\* that was decided, and what it saw of an event came from a confirmed attempt.
ApprovalSuits(v, o, r) ==
    /\ v.retry <= r.retry
    /\ r.outcome # "not_configured"
    /\ v.pc = "open" => r.outcome \in {"executing", "confirmed", "failed"}
    /\ v.pc = "bind" => o.status # "none"
    /\ v.seen => v.pc = "decide" \/ o.status = "confirmed"

ApprovalInv ==
    /\ OperationsSound /\ RunsSound
    /\ row \in [Commands -> Approval!Approval]
    /\ \A c \in Commands : ApprovalFits(operation[c], row[c])
    /\ \A w \in Workers : worker[w].pc # "idle" =>
          /\ worker[w].command \in Commands
          /\ ApprovalSuits(worker[w], operation[worker[w].command], row[worker[w].command])

LEMMA ApprovalRuns ==
    /\ \A w, pc : Approval!At(w, pc) <=> worker[w].pc = pc
    /\ \A w, pc : Approval!Goto(w, pc) <=> Goto(w, pc)
    /\ \A w, pc, seen : Approval!GotoSeeing(w, pc, seen) <=> GotoSeeing(w, pc, seen)
    /\ \A w : Approval!Finish(w) <=> Finish(w)
    /\ \A w, pc, c, retry : Approval!Take(w, pc, c, retry) <=> Take(w, pc, c, retry)
    /\ \A w : Approval!Own(w) = operation[worker[w].command]
    /\ \A w : Approval!Signs(w) <=> Signs(w)
    /\ \A w : Approval!Journal(w) \/ Approval!Look(w) <=> Open(w) \/ Followed(w)
    /\ Approval!Undone = Undone
<1>1. \A w : Approval!Journal(w) \/ Approval!Look(w) <=> Open(w) \/ Followed(w)
  BY ApprovalIs DEF Approval!Journal, Approval!Look, Look, Approval!ReceiveNothing, ReceiveNothing,
     Approval!Abandon, Abandon, Followed, Approval!At, At, Approval!Goto, Goto, Approval!Finish, Finish,
     Approval!Idle, Idle, Approval!Own, Own, Approval!Owns, Owns
<1>2. /\ \A w, pc : Approval!Goto(w, pc) <=> Goto(w, pc)
      /\ \A w, pc, seen : Approval!GotoSeeing(w, pc, seen) <=> GotoSeeing(w, pc, seen)
      /\ \A w : Approval!Finish(w) <=> Finish(w)
      /\ \A w, pc, c, retry : Approval!Take(w, pc, c, retry) <=> Take(w, pc, c, retry)
  BY DEF Approval!Goto, Goto, Approval!GotoSeeing, GotoSeeing, Approval!Finish, Finish, Approval!Idle, Idle,
     Approval!Take, Take
<1>3. /\ \A w, pc : Approval!At(w, pc) <=> worker[w].pc = pc
      /\ \A w : Approval!Own(w) = operation[worker[w].command]
      /\ \A w : Approval!Signs(w) <=> Signs(w)
      /\ Approval!Undone = Undone
  BY DEF Approval!At, Approval!Own, Own, Approval!Signs, Signs, Approval!Owns, Owns, Approval!Undone
<1> QED BY <1>1, <1>2, <1>3

\* An operation that moves on, but is not signed, leaves what was said of it
\* true.
LEMMA ApprovalFitsOn ==
    ASSUME NEW o, NEW p, NEW r, ApprovalFits(o, r), Advances(o, p),
           p.status = "signed" => o.status = "signed"
    PROVE  ApprovalFits(p, r)
BY DEF ApprovalFits, Advances, Attempted

LEMMA ApprovalSuitsOn ==
    ASSUME NEW v, NEW o, NEW p, NEW r, ApprovalSuits(v, o, r), Advances(o, p)
    PROVE  ApprovalSuits(v, p, r)
BY DEF ApprovalSuits, Advances

\* What is signed, or was, is what the trigger reads off the transactions.
\* The trigger lets a row pass that stays as it is.
LEMMA ApprovalTouched ==
    ASSUME NEW c \in Commands, ApprovalFits(operation'[c], row[c]), row'[c] = row[c],
           Sound(operation'[c])
    PROVE  Approval!ApprovalGuard(c)
<1> DEFINE p == operation'[c]
           r == row[c]
<1>1. /\ p.claim \in 0..MaxClaims
      /\ (p.claim # 0 /\ p.tx[p.claim] # "none") <=> p.status \in Attempted
  BY SignedIsAttempted
<1>2. r \in Approval!Approval
  BY DEF ApprovalFits
<1> QED BY <1>1, <1>2 DEF ApprovalFits, Approval!ApprovalGuard, Approval!Undone, Attempted

LEMMA ApprovalAdvances ==
    ASSUME ApprovalInv, OperationsSound', RunsSound', AllAdvance, NoneSigned, row' = row,
           \A w \in Workers :
              \/ worker'[w] = worker[w] \/ worker'[w].pc = "idle"
              \/ /\ worker'[w].command \in Commands
                 /\ ApprovalSuits(worker'[w], operation[worker'[w].command], row[worker'[w].command])
    PROVE  ApprovalInv' /\ Approval!Guards
<1>1. \A c \in Commands : ApprovalFits(operation'[c], row'[c])
  BY ApprovalFitsOn DEF ApprovalInv, AllAdvance, NoneSigned
<1>2. ASSUME NEW w \in Workers, worker'[w].pc # "idle"
      PROVE  /\ worker'[w].command \in Commands
             /\ ApprovalSuits(worker'[w], operation'[worker'[w].command], row'[worker'[w].command])
  <2> DEFINE c == worker'[w].command
  <2>1. c \in Commands /\ ApprovalSuits(worker'[w], operation[c], row[c])
    BY <1>2 DEF ApprovalInv
  <2>2. Advances(operation[c], operation'[c])
    BY <2>1 DEF AllAdvance
  <2> QED BY <2>1, <2>2, ApprovalSuitsOn
<1>3. ASSUME NEW c \in Commands PROVE Approval!ApprovalGuard(c)
  BY <1>1, ApprovalTouched DEF OperationsSound
<1> QED BY <1>1, <1>2, <1>3 DEF ApprovalInv, Approval!Guards

\* A step of one row, its operation and the runs that have it in hand.
LEMMA ApprovalSteps ==
    ASSUME ApprovalInv, OperationsSound', RunsSound', NEW c \in Commands, NEW r \in Approval!Approval,
           row' = [row EXCEPT ![c] = r],
           \A d \in Commands : d # c => operation'[d] = operation[d],
           ApprovalFits(operation'[c], r),
           \A v \in Run : ApprovalSuits(v, operation[c], row[c]) => ApprovalSuits(v, operation'[c], r),
           \A w \in Workers :
              \/ worker'[w] = worker[w] \/ worker'[w].pc = "idle"
              \/ (worker'[w].command = c /\ ApprovalSuits(worker'[w], operation'[c], r)),
           Approval!ApprovalGuard(c)
    PROVE  ApprovalInv' /\ Approval!Guards
<1>1. row' \in [Commands -> Approval!Approval] /\ row'[c] = r
      /\ \A d \in Commands : d # c => row'[d] = row[d]
  BY DEF ApprovalInv
<1>2. \A d \in Commands : ApprovalFits(operation'[d], row'[d])
  BY <1>1 DEF ApprovalInv
<1>3. ASSUME NEW w \in Workers, worker'[w].pc # "idle"
      PROVE  /\ worker'[w].command \in Commands
             /\ ApprovalSuits(worker'[w], operation'[worker'[w].command], row'[worker'[w].command])
  <2>1. CASE worker'[w].command = c /\ ApprovalSuits(worker'[w], operation'[c], r)
    BY <1>1, <2>1
  <2>2. CASE worker'[w] = worker[w]
    <3>1. worker[w] \in Run /\ worker[w].command \in Commands
          /\ ApprovalSuits(worker[w], operation[worker[w].command], row[worker[w].command])
      BY <1>3, <2>2 DEF ApprovalInv, RunsSound
    <3>2. CASE worker[w].command = c
      BY <1>1, <2>2, <3>1, <3>2
    <3>3. CASE worker[w].command # c
      BY <1>1, <2>2, <3>1, <3>3
    <3> QED BY <3>2, <3>3
  <2> QED BY <1>3, <2>1, <2>2
<1>4. ASSUME NEW d \in Commands PROVE Approval!ApprovalGuard(d)
  <2>1. CASE d = c
    BY <2>1
  <2>2. CASE d # c
    BY <1>1, <1>2, <2>2, ApprovalTouched DEF OperationsSound
  <2> QED BY <2>1, <2>2
<1> QED BY <1>1, <1>2, <1>3, <1>4 DEF ApprovalInv, Approval!Guards

\* Steps of one run that write the row it has in hand.
LEMMA ApprovalWrites ==
    ASSUME ApprovalInv, NEW w \in Workers, NEW c \in Commands, NEW r \in Approval!Approval,
           UNCHANGED operation, row' = [row EXCEPT ![c] = r], RunsSound', Only(w),
           ApprovalFits(operation[c], r),
           \A v \in Run : ApprovalSuits(v, operation[c], row[c]) => ApprovalSuits(v, operation[c], r),
           \/ worker'[w].pc = "idle"
           \/ (worker'[w].command = c /\ ApprovalSuits(worker'[w], operation[c], r)),
           Approval!ApprovalGuard(c)
    PROVE  ApprovalInv' /\ Approval!Guards
<1>1. OperationsSound'
  BY NoneMoves DEF ApprovalInv
<1>2. \A x \in Workers :
         \/ worker'[x] = worker[x] \/ worker'[x].pc = "idle"
         \/ (worker'[x].command = c /\ ApprovalSuits(worker'[x], operation[c], r))
  BY DEF Only
<1> QED BY <1>1, <1>2, ApprovalSteps

LEMMA ApprovalInHand ==
    ASSUME ApprovalInv, NEW w \in Workers, worker[w].pc # "idle"
    PROVE  LET c == worker[w].command IN
           /\ c \in Commands /\ ApprovalSuits(worker[w], operation[c], row[c])
           /\ ApprovalFits(operation[c], row[c]) /\ row[c] \in Approval!Approval /\ Sound(operation[c])
           /\ worker[w] \in Run /\ RunsSound /\ OperationsSound
BY DEF ApprovalInv, OperationsSound, RunsSound

LEMMA ApprovalOpens ==
    ASSUME ApprovalInv, NEW w \in Workers, Open(w), row' = row
    PROVE  ApprovalInv' /\ Approval!Guards
<1> DEFINE c == worker[w].command
           o == operation[c]
           p == operation'[c]
           r == row[c]
<1>1. /\ OperationsSound' /\ RunsSound' /\ Only(w) /\ Carries(w) /\ c \in Commands
      /\ worker[w].pc = "open" /\ worker'[w].pc = "bind" /\ worker'[w].seen = worker[w].seen
      /\ \A d \in Commands : d # c => operation'[d] = operation[d]
      /\ \/ operation' = operation /\ o.status # "none"
         \/ /\ o.status = "none" \/ Reopens(o, worker[w].retry)
            /\ p.status = "preparing" /\ p.claim = o.claim + 1
  BY OpenDoes DEF ApprovalInv
<1>2. /\ r \in Approval!Approval /\ ApprovalFits(o, r) /\ ApprovalSuits(worker[w], o, r)
      /\ worker[w] \in Run /\ Sound(o)
  BY <1>1, ApprovalInHand
<1>3. /\ worker'[w].command = c
      /\ \A q : q.status # "none" /\ (o.status = "confirmed" => q.status = "confirmed")
            => ApprovalSuits(worker'[w], q, r)
  BY <1>1, <1>2 DEF ApprovalSuits, Carries
<1>4. CASE operation' = operation /\ o.status # "none"
  BY <1>1, <1>3, <1>4, NoneMoves, ApprovalAdvances DEF Only, ApprovalInv
<1>5. CASE /\ o.status = "none" \/ Reopens(o, worker[w].retry)
           /\ p.status = "preparing" /\ p.claim = o.claim + 1
  <2>1. /\ o.claim \in Nat /\ worker[w].retry \in Nat /\ r.retry \in Nat /\ r.transaction \in Nat
        /\ o.status = "none" <=> o.claim = 0
    BY <1>2, Bounded DEF Sound, Operation, Run, Approval!Approval
  <2>2. o.status = "none" \/ (o.status \in Undone /\ r.retry = o.claim)
    BY <1>2, <1>5, <2>1 DEF Reopens, ApprovalSuits, ApprovalFits
  <2>3. r.outcome = "executing"
    BY <1>1, <1>2, <2>2 DEF ApprovalSuits, ApprovalFits
  <2>4. r.transaction # 0 => r.transaction <= o.claim /\ r.record[r.transaction] = "reverted"
    BY <1>2, <2>1, <2>2 DEF ApprovalFits, Attempted
  <2>5. ApprovalFits(p, r)
    BY <1>2, <1>5, <2>1, <2>3, <2>4 DEF ApprovalFits, Attempted
  <2>6. \A v \in Run : ApprovalSuits(v, o, r) => ApprovalSuits(v, p, r)
    BY <1>5, <2>2 DEF ApprovalSuits
  <2>7. ApprovalSuits(worker'[w], p, r)
    BY <1>3, <1>5, <2>2
  <2>8. Approval!ApprovalGuard(c)
    BY <1>1, <2>1, <2>5, ApprovalTouched, <1>5 DEF OperationsSound
  <2>9. row' = [row EXCEPT ![c] = r]
    BY DEF ApprovalInv
  <2> HIDE DEF c, o, p, r
  <2>10. \A x \in Workers : worker'[x] = worker[x]
                             \/ (worker'[x].command = c /\ ApprovalSuits(worker'[x], p, r))
    BY <1>1, <1>3, <2>7 DEF Only
  <2> QED BY <1>1, <1>2, <2>5, <2>6, <2>8, <2>9, <2>10, ApprovalSteps DEF o, p, r
<1> QED BY <1>1, <1>4, <1>5

\* Steps of one run that touch no row and sign nothing.
LEMMA ApprovalGoes ==
    ASSUME ApprovalInv, NEW w \in Workers, row' = row, OperationsSound', AllAdvance, NoneSigned,
           RunsSound', Only(w), worker[w].pc # "idle",
           \/ worker'[w].pc = "idle"
           \/ /\ Carries(w)
              /\ worker'[w].pc \notin {"open", "bind"}
              /\ worker'[w].seen => worker'[w].pc = "decide"
                                    \/ operation[worker[w].command].status = "confirmed"
    PROVE  ApprovalInv' /\ Approval!Guards
<1> DEFINE c == worker[w].command
<1>1. c \in Commands /\ ApprovalSuits(worker[w], operation[c], row[c])
  BY DEF ApprovalInv
<1>2. \/ worker'[w].pc = "idle"
      \/ (worker'[w].command = c /\ ApprovalSuits(worker'[w], operation[c], row[c]))
  BY <1>1 DEF ApprovalSuits, Carries
<1> HIDE DEF c
<1> QED BY <1>1, <1>2, ApprovalAdvances DEF Only

\* Steps of a run that leave the row as it is.
LEMMA ApprovalLeads ==
    ASSUME ApprovalInv, NEW w \in Workers, worker[w].pc \notin {"idle", "decide"},
           row' = row, OperationsSound', AllAdvance, NoneSigned, NEW pc \in Steps \ {"open", "bind"},
           Goto(w, pc) \/ Finish(w)
    PROVE  ApprovalInv' /\ Approval!Guards
<1> DEFINE c == worker[w].command
<1>1. c \in Commands /\ ApprovalSuits(worker[w], operation[c], row[c]) /\ RunsSound
  BY ApprovalInHand
<1>2. CASE Goto(w, pc)
  BY <1>1, <1>2, GotoGoes, ApprovalGoes DEF ApprovalSuits
<1>3. CASE Finish(w)
  BY <1>1, <1>3, FinishGoes, IdleRun, ApprovalGoes
<1> QED BY <1>2, <1>3

LEMMA ApprovalSees ==
    ASSUME ApprovalInv, NEW w \in Workers, contract \in BOOLEAN,
           Approval!ReadContract(w) \/ Approval!Settle(w)
    PROVE  ApprovalInv' /\ Approval!Guards
<1>1. UNCHANGED operation /\ row' = row /\ worker[w].pc # "idle"
  BY ApprovalRuns DEF Approval!ReadContract, Approval!Settle
<1>2. PICK pc \in {"decide", "outcome"}, seen \in BOOLEAN :
         /\ seen => pc = "decide" \/ operation[worker[w].command].status = "confirmed"
         /\ GotoSeeing(w, pc, seen)
  <2>1. CASE Approval!ReadContract(w)
    BY <2>1, ApprovalRuns DEF Approval!ReadContract
  <2>2. CASE Approval!Settle(w)
    <3>1. PICK verified \in BOOLEAN :
             /\ verified => operation[worker[w].command].status = "confirmed"
             /\ GotoSeeing(w, "outcome", verified)
      BY <2>2, ApprovalRuns DEF Approval!Settle
    <3> QED BY <3>1
  <2> QED BY <2>1, <2>2
<1>3. pc \in Steps
  BY DEF Steps
<1>4. worker[w].command \in Commands /\ RunsSound /\ OperationsSound
  BY <1>1, ApprovalInHand
<1> QED BY <1>1, <1>2, <1>3, <1>4, GotoSeeingGoes, NoneMoves, ApprovalGoes

LEMMA ApprovalRetries ==
    ASSUME ApprovalInv, NEW c \in Commands, Approval!Retry(c)
    PROVE  ApprovalInv' /\ Approval!Guards
<1> DEFINE o == operation[c]
           old == row[c]
           r == [old EXCEPT !.outcome = "executing", !.retry = o.claim]
<1>1. /\ old.outcome = "failed" /\ old.retry # o.claim /\ o.status \in Undone
      /\ o.status = "reverted" => old.record[o.claim] = "reverted"
      /\ row' = [row EXCEPT ![c] = r] /\ UNCHANGED <<operation, worker>>
  BY ApprovalRuns DEF Approval!Retry, Approval!Retriable, Approval!Write
<1>2. /\ ApprovalFits(o, old) /\ old \in Approval!Approval /\ Sound(o) /\ o.claim \in 0..MaxClaims
      /\ old.retry \in Nat /\ o.claim \in Nat
  <2>1. /\ ApprovalFits(o, old) /\ old \in Approval!Approval /\ Sound(o)
    BY DEF ApprovalInv, OperationsSound
  <2>2. o.claim \in 0..MaxClaims /\ old.retry \in 0..MaxClaims
    BY <2>1 DEF Sound, Operation, Approval!Approval
  <2> QED BY <2>1, <2>2, Bounded
<1>3. /\ r \in Approval!Approval /\ r.outcome = "executing" /\ r.retry = o.claim
      /\ r.bound = old.bound /\ r.transaction = old.transaction /\ r.record = old.record
      /\ row'[c] = r
  BY <1>1, <1>2 DEF ApprovalInv, Approval!Approval, Approval!Active
<1> HIDE DEF r
<1>4. ApprovalFits(o, r)
  BY <1>1, <1>2, <1>3 DEF ApprovalFits, Attempted
<1>5. \A v \in Run : ApprovalSuits(v, o, old) => ApprovalSuits(v, o, r)
  <2>1. SUFFICES ASSUME NEW v \in Run, ApprovalSuits(v, o, old) PROVE ApprovalSuits(v, o, r)
    OBVIOUS
  <2>2. v.retry \in Nat
    BY Bounded DEF Run
  <2> QED BY <1>1, <1>2, <1>3, <2>1, <2>2 DEF ApprovalSuits, ApprovalFits
<1>6. Approval!ApprovalGuard(c)
  <2>1. /\ o.claim \in 0..MaxClaims
        /\ (o.claim # 0 /\ o.tx[o.claim] # "none") <=> o.status \in Attempted
    BY <1>2, SignedIsAttempted
  <2> QED BY <1>1, <1>2, <1>3, <2>1 DEF ApprovalFits, Approval!ApprovalGuard, Approval!Undone,
             Approval!Transitions, Attempted
<1>7. OperationsSound' /\ RunsSound'
  BY <1>1 DEF ApprovalInv, OperationsSound, RunsSound
<1> QED BY <1>1, <1>3, <1>4, <1>5, <1>6, <1>7, ApprovalSteps

LEMMA ApprovalDecides ==
    ASSUME ApprovalInv, NEW w \in Workers, Approval!Decide(w)
    PROVE  ApprovalInv' /\ Approval!Guards
<1> DEFINE c == worker[w].command
           o == operation[c]
           old == row[c]
           outcome == IF old.outcome # "pending" THEN old.outcome
                      ELSE IF worker[w].seen THEN "observed" ELSE "executing"
           r == [old EXCEPT !.outcome = outcome]
           run == IF row'[c].outcome = "executing"
                  THEN [Idle EXCEPT !.pc = "open", !.command = c, !.retry = old.retry] ELSE Idle
<1>1. /\ worker[w].pc = "decide" /\ UNCHANGED operation
      /\ old.outcome = "pending" => o.status = "none"
      /\ row' = [row EXCEPT ![c] =
            IF old.outcome # "pending" THEN old
            ELSE [old EXCEPT !.outcome = IF worker[w].seen THEN "observed" ELSE "executing"]]
      /\ worker' = [worker EXCEPT ![w] = run]
  BY ApprovalRuns DEF Approval!Decide, Approval!Write, Approval!Row, Approval!Idle, Idle
<1>2. /\ c \in Commands /\ ApprovalFits(o, old) /\ old \in Approval!Approval /\ RunsSound
      /\ ApprovalSuits(worker[w], o, old) /\ Sound(o) /\ old.retry \in 0..MaxClaims
  BY <1>1, ApprovalInHand DEF Approval!Approval
<1>3. /\ r \in Approval!Approval /\ r.outcome = outcome /\ r.bound = old.bound
      /\ r.retry = old.retry /\ r.transaction = old.transaction /\ r.record = old.record
      /\ row' = [row EXCEPT ![c] = r] /\ row'[c] = r /\ (old.outcome # "pending" => r = old)
  BY <1>1, <1>2 DEF ApprovalInv, Approval!Approval, Approval!Active
<1>4. /\ run \in Run /\ ~run.seen
      /\ run.pc = "idle"
         \/ (run.pc = "open" /\ outcome = "executing" /\ run.command = c /\ run.retry = old.retry)
  <2>1. \A x \in Run : LET y == [x EXCEPT !.pc = "open", !.command = c, !.retry = old.retry]
                       IN  y \in Run /\ y.pc = "open" /\ y.command = c /\ y.retry = old.retry
                           /\ y.seen = x.seen
    BY <1>2 DEF Run, Steps
  <2> HIDE DEF r, outcome
  <2> QED BY <1>3, <2>1, IdleRun
<1> HIDE DEF run
<1>5. RunsSound' /\ Only(w) /\ worker'[w] = run
  BY <1>1, <1>2, <1>4, RunGoes
<1>6. old.outcome # "pending" \/ (old.outcome = "pending" /\ outcome \in {"observed", "executing"})
  OBVIOUS
<1> HIDE DEF r, outcome
<1>7. ApprovalFits(o, r)
  BY <1>1, <1>2, <1>3, <1>6 DEF ApprovalFits
<1>8. \A v \in Run : ApprovalSuits(v, o, old) => ApprovalSuits(v, o, r)
  BY <1>3, <1>6 DEF ApprovalSuits
<1>9. worker'[w].pc = "idle" \/ (worker'[w].command = c /\ ApprovalSuits(worker'[w], o, r))
  <2>1. old.retry <= old.retry
    BY <1>2, Bounded
  <2> QED BY <1>3, <1>4, <1>5, <2>1 DEF ApprovalSuits
<1>10. Approval!ApprovalGuard(c)
  <2>1. /\ o.claim \in 0..MaxClaims
        /\ (o.claim # 0 /\ o.tx[o.claim] # "none") <=> o.status \in Attempted
    BY <1>2, SignedIsAttempted
  <2>2. CASE r = old
    BY <1>1, <1>2, <1>3, <2>2, ApprovalTouched
  <2>3. CASE old.outcome = "pending" /\ outcome \in {"observed", "executing"}
    BY <1>1, <1>2, <1>3, <2>1, <2>3 DEF ApprovalFits, Approval!ApprovalGuard,
       Approval!Transitions, Attempted
  <2> QED BY <1>3, <1>6, <2>2, <2>3
<1> QED BY <1>1, <1>2, <1>3, <1>5, <1>7, <1>8, <1>9, <1>10, ApprovalWrites

LEMMA ApprovalBinds ==
    ASSUME ApprovalInv, NEW w \in Workers, Approval!Bind(w)
    PROVE  ApprovalInv' /\ Approval!Guards
<1> DEFINE c == worker[w].command
           o == operation[c]
           old == row[c]
           r == [old EXCEPT !.bound = TRUE]
<1>1. /\ worker[w].pc = "bind" /\ UNCHANGED operation /\ Goto(w, "resume")
      /\ row' = [row EXCEPT ![c] = r] /\ (old.bound \/ old.outcome = "executing")
      /\ o.claim = worker[w].claim
  BY ApprovalRuns DEF Approval!Bind, Approval!Write, Approval!Row, Approval!Owns
<1>2. /\ c \in Commands /\ ApprovalFits(o, old) /\ old \in Approval!Approval /\ RunsSound
      /\ ApprovalSuits(worker[w], o, old) /\ Sound(o)
  BY <1>1, ApprovalInHand
<1>3. /\ r \in Approval!Approval /\ r.outcome = old.outcome /\ r.bound
      /\ r.retry = old.retry /\ r.transaction = old.transaction /\ r.record = old.record
      /\ row'[c] = r /\ (old.bound => r = old)
  BY <1>1, <1>2 DEF ApprovalInv, Approval!Approval
<1>4. /\ RunsSound' /\ Only(w) /\ worker'[w].command = c /\ worker'[w].pc = "resume"
      /\ worker'[w].retry = worker[w].retry /\ worker'[w].seen = worker[w].seen
  BY <1>1, <1>2, GotoGoes DEF Carries, Steps
<1> HIDE DEF r
<1>5. o.status # "none"
  BY <1>1, <1>2 DEF ApprovalSuits
<1>6. ApprovalFits(o, r)
  BY <1>1, <1>2, <1>3, <1>5 DEF ApprovalFits
<1>7. \A v \in Run : ApprovalSuits(v, o, old) => ApprovalSuits(v, o, r)
  BY <1>3 DEF ApprovalSuits
<1>8. ApprovalSuits(worker'[w], o, r)
  BY <1>1, <1>2, <1>3, <1>4 DEF ApprovalSuits
<1>9. Approval!ApprovalGuard(c)
  <2>1. /\ o.claim \in 0..MaxClaims
        /\ (o.claim # 0 /\ o.tx[o.claim] # "none") <=> o.status \in Attempted
    BY <1>2, SignedIsAttempted
  <2> QED BY <1>1, <1>2, <1>3, <1>5, <2>1 DEF ApprovalFits, Approval!ApprovalGuard, Approval!Undone,
             Attempted
<1> QED BY <1>1, <1>2, <1>3, <1>4, <1>6, <1>7, <1>8, <1>9, ApprovalWrites

\* A row stays a row where its outcome and its records are written.
LEMMA ApprovalColumns ==
    ASSUME NEW r \in Approval!Approval
    PROVE  /\ r.transaction \in 0..MaxClaims
           /\ r.record \in [Claims -> {"none", "submitted", "confirmed", "reverted"}]
BY DEF Approval!Approval, Approval!Claims, Claims

LEMMA ApprovalRecorded ==
    ASSUME NEW r \in Approval!Approval, NEW k \in Claims,
           NEW status \in {"none", "submitted", "confirmed", "reverted"}
    PROVE  LET record == [r.record EXCEPT ![k] = status] IN
           /\ record \in [Claims -> {"none", "submitted", "confirmed", "reverted"}]
           /\ record[k] = status /\ \A j \in Claims : j # k => record[j] = r.record[j]
BY ApprovalColumns

LEMMA ApprovalSigns ==
    ASSUME ApprovalInv, NEW w \in Workers, Approval!SignApproval(w)
    PROVE  ApprovalInv' /\ Approval!Guards
<1> DEFINE c == worker[w].command
           k == worker[w].claim
           o == operation[c]
           p == operation'[c]
           old == row[c]
           r == [old EXCEPT !.transaction = k, !.record[k] = "submitted"]
<1>1. /\ Sign(w) /\ old.outcome = "executing" /\ old.bound
      /\ row' = [row EXCEPT ![c] = r]
  BY ApprovalIs, ApprovalRuns DEF Approval!SignApproval, Approval!Write, Approval!Row
<1>2. OperationsSound' /\ AllAdvance /\ worker[w].pc = "prepare" /\ Goto(w, "look")
  BY <1>1, SignAdvances DEF ApprovalInv, At
<1>3. /\ c \in Commands /\ ApprovalFits(o, old) /\ old \in Approval!Approval /\ RunsSound
      /\ ApprovalSuits(worker[w], o, old) /\ Sound(o) /\ worker[w] \in Run
  BY <1>2, ApprovalInHand
<1>4. /\ o.status = "preparing" /\ o.claim = k
      /\ operation' = [operation EXCEPT ![c].status = "signed", ![c].tx[k] = "signed"]
  BY <1>1, <1>3 DEF Sign, Signs, Own, Owns
<1>5. /\ p.status = "signed" /\ p.claim = k /\ \A d \in Commands : d # c => operation'[d] = operation[d]
  BY <1>3, <1>4 DEF ApprovalInv, OperationsSound, Sound, Operation
<1>6. k \in Claims /\ k \in Nat \ {0}
  BY <1>3, <1>4, Bounded DEF Sound, Operation
<1>7. /\ r \in Approval!Approval /\ r.outcome = "executing" /\ r.bound
      /\ r.retry = old.retry /\ r.transaction = k /\ row'[c] = r
      /\ \A j \in Claims : j # k => r.record[j] = old.record[j]
  <2>1. k \in 0..MaxClaims
    BY <1>6, Bounded
  <2>2. old = [old EXCEPT !.outcome = "executing"]
    BY <1>1, <1>3 DEF Approval!Approval
  <2> DEFINE record == [old.record EXCEPT ![k] = "submitted"]
  <2>3. r = [old EXCEPT !.outcome = "executing", !.transaction = k, !.record = record]
    BY <1>3, <2>2 DEF Approval!Approval
  <2>4. row'[c] = r
    BY <1>1, <1>3 DEF ApprovalInv
  <2>5. /\ record \in [Claims -> {"none", "submitted", "confirmed", "reverted"}]
        /\ \A j \in Claims : j # k => record[j] = old.record[j]
    BY <1>3, <1>6, ApprovalRecorded
  <2> HIDE DEF record, r
  <2>6. /\ r \in Approval!Approval /\ r.outcome = "executing" /\ r.bound = old.bound
        /\ r.retry = old.retry /\ r.transaction = k /\ r.record = record
    BY <1>3, <2>1, <2>3, <2>5 DEF Approval!Approval, Approval!Active, Approval!Claims, Claims
  <2> QED BY <1>1, <2>4, <2>5, <2>6
<1>8. /\ RunsSound' /\ Only(w) /\ worker'[w].command = c /\ worker'[w].pc = "look"
      /\ worker'[w].retry = worker[w].retry /\ worker'[w].seen = worker[w].seen
  BY <1>2, <1>3, GotoGoes DEF Carries, Steps
<1> HIDE DEF r
<1>9. old.retry \in Nat /\ old.retry # k
  BY <1>3, <1>4, <1>6, Bounded DEF ApprovalFits, Approval!Approval
<1>10. ApprovalFits(p, r)
  BY <1>3, <1>4, <1>5, <1>7, <1>9 DEF ApprovalFits, Attempted
<1>11. \A v \in Run : ApprovalSuits(v, o, old) => ApprovalSuits(v, p, r)
  BY <1>1, <1>4, <1>5, <1>7 DEF ApprovalSuits
<1>12. ApprovalSuits(worker'[w], p, r)
  BY <1>2, <1>3, <1>4, <1>5, <1>7, <1>8 DEF ApprovalSuits
<1>13. Approval!ApprovalGuard(c)
  <2>1. p.claim # 0 /\ p.tx[p.claim] # "none"
    BY <1>2, <1>3, <1>5, SignedIsAttempted DEF OperationsSound, Attempted
  <2>2. old.transaction \notin {0, k} => old.record[old.transaction] = "reverted"
    BY <1>3, <1>4 DEF ApprovalFits, Attempted
  <2> HIDE DEF p, old
  <2> QED BY <1>1, <1>5, <1>7, <2>1, <2>2 DEF Approval!ApprovalGuard, old, p
<1>14. \A x \in Workers : worker'[x] = worker[x]
                           \/ (worker'[x].command = c /\ ApprovalSuits(worker'[x], p, r))
  BY <1>8, <1>12 DEF Only
<1> QED BY <1>1, <1>2, <1>3, <1>5, <1>7, <1>8, <1>10, <1>11, <1>13, <1>14, ApprovalSteps

LEMMA ApprovalRecords ==
    ASSUME ApprovalInv, NEW w \in Workers, Approval!RecordOutcome(w)
    PROVE  ApprovalInv' /\ Approval!Guards
<1> DEFINE c == worker[w].command
           k == worker[w].claim
           o == operation[c]
           old == row[c]
           outcome == IF worker[w].seen THEN "confirmed" ELSE "failed"
           r == [old EXCEPT !.outcome = outcome,
                            !.record[k] = IF o.status = "failed" THEN old.record[k] ELSE o.status]
<1>1. /\ worker[w].pc = "outcome" /\ UNCHANGED operation /\ Finish(w) /\ o.claim = k /\ old.bound
  BY ApprovalRuns DEF Approval!RecordOutcome, Approval!Row, Approval!Owns
<1>2. /\ c \in Commands /\ ApprovalFits(o, old) /\ old \in Approval!Approval /\ RunsSound
      /\ ApprovalSuits(worker[w], o, old) /\ Sound(o)
  BY <1>1, ApprovalInHand
<1>3. RunsSound' /\ Only(w) /\ worker'[w].pc = "idle"
  BY <1>1, <1>2, FinishGoes, IdleRun
<1>4. CASE row' = row
  BY <1>1, <1>3, <1>4, NoneMoves, ApprovalGoes DEF ApprovalInv
<1>5. CASE /\ old.outcome = "executing" /\ old.retry # k
           /\ o.status \in Undone \/ worker[w].seen
           /\ row' = [row EXCEPT ![c] = r]
  <2>1. \/ (outcome = "confirmed" /\ o.status = "confirmed")
        \/ (outcome = "failed" /\ o.status \in Undone)
    BY <1>1, <1>2, <1>5 DEF ApprovalSuits
  <2>2. k \in Claims /\ k \in Nat \ {0}
    BY <1>1, <1>2, <2>1, Bounded DEF Sound, Operation
  <2> DEFINE status == IF o.status = "failed" THEN old.record[k] ELSE o.status
             record == [old.record EXCEPT ![k] = status]
  <2>3. /\ status \in {"none", "submitted", "confirmed", "reverted"}
        /\ old.record \in [Claims -> {"none", "submitted", "confirmed", "reverted"}]
        /\ old.transaction \in 0..MaxClaims /\ outcome \in {"confirmed", "failed"}
    BY <1>2, <2>1, <2>2, ApprovalColumns
  <2>4. /\ r \in Approval!Approval /\ r.outcome = outcome /\ r.bound = old.bound
        /\ r.retry = old.retry /\ r.transaction = old.transaction /\ row'[c] = r
        /\ \A j \in Claims : j # k => r.record[j] = old.record[j]
        /\ r.record[k] = IF o.status = "failed" THEN old.record[k] ELSE o.status
    <3>1. r = [old EXCEPT !.outcome = outcome, !.transaction = old.transaction, !.record = record]
      BY <1>2 DEF Approval!Approval
    <3>2. row'[c] = r
      BY <1>2, <1>5 DEF ApprovalInv
    <3>3. /\ record \in [Claims -> {"none", "submitted", "confirmed", "reverted"}]
          /\ record[k] = status /\ \A j \in Claims : j # k => record[j] = old.record[j]
      <4> HIDE DEF status
      <4> QED BY <1>2, <2>2, <2>3, ApprovalRecorded
    <3> HIDE DEF r, status, outcome, record
    <3>4. /\ r \in Approval!Approval /\ r.outcome = outcome /\ r.bound = old.bound
          /\ r.retry = old.retry /\ r.transaction = old.transaction /\ r.record = record
      BY <1>2, <2>3, <3>1, <3>3 DEF Approval!Approval, Approval!Active, Approval!Claims, Claims
    <3> QED BY <3>2, <3>3, <3>4 DEF status
  <2> HIDE DEF r, outcome
  <2>5. old.transaction \in 0..MaxClaims /\ (old.transaction # 0 => old.transaction \in Claims)
    BY <1>2, Bounded DEF Approval!Approval
  <2>6. ApprovalFits(o, r)
    BY <1>1, <1>2, <1>5, <2>1, <2>2, <2>4, <2>5 DEF ApprovalFits, Attempted
  <2>7. \A v \in Run : ApprovalSuits(v, o, old) => ApprovalSuits(v, o, r)
    BY <1>5, <2>1, <2>4 DEF ApprovalSuits
  <2>8. Approval!ApprovalGuard(c)
    <3>1. /\ o.claim \in 0..MaxClaims
          /\ (o.claim # 0 /\ o.tx[o.claim] # "none") <=> o.status \in Attempted
      BY <1>2, SignedIsAttempted
    <3>2. IF o.status \in Attempted THEN r.transaction = o.claim
          ELSE r.transaction # 0 => r.record[r.transaction] = "reverted"
      BY <2>6 DEF ApprovalFits
    <3>3. r.outcome = "confirmed" =>
             o.status = "confirmed" /\ r.record[r.transaction] = "confirmed" /\ r.retry # o.claim
      BY <2>6, <3>2 DEF ApprovalFits, Attempted
    <3>4. r.outcome = "failed" =>
             /\ o.status \in Undone /\ r.retry # o.claim
             /\ o.status = "reverted" => r.record[r.transaction] = "reverted"
      BY <2>6, <3>2 DEF ApprovalFits, Attempted
    <3>5. <<old.outcome, r.outcome>> \in Approval!Transitions
      BY <1>5, <2>1, <2>4 DEF Approval!Transitions
    <3>6. r.outcome \in {"confirmed", "failed"}
      BY <2>1, <2>4
    <3> HIDE DEF o, old
    <3> QED BY <1>1, <2>4, <3>1, <3>2, <3>3, <3>4, <3>5, <3>6, ApprovalRuns
            DEF Approval!ApprovalGuard, o, old
  <2> QED BY <1>1, <1>2, <1>3, <1>5, <2>4, <2>6, <2>7, <2>8, ApprovalWrites
<1>6. row' = [row EXCEPT ![c] =
         IF ~(old.outcome = "executing" /\ old.retry # k) \/ ~(o.status \in Undone \/ worker[w].seen)
         THEN old ELSE r]
  BY ApprovalRuns, <1>2 DEF Approval!RecordOutcome, Approval!Row, Approval!Write, Approval!Records,
     Approval!Approval
<1>7. [row EXCEPT ![c] = old] = row
  BY DEF ApprovalInv
<1> HIDE DEF r
<1> QED BY <1>4, <1>5, <1>6, <1>7

LEMMA ApprovalBegins ==
    ASSUME ApprovalInv, NEW w \in Workers, NEW c \in Commands, Approval!Begin(w, c)
    PROVE  ApprovalInv' /\ Approval!Guards
<1> DEFINE pc == IF row[c].outcome = "pending" THEN "read" ELSE "open"
<1>1. /\ row[c].outcome \in {"pending", "executing"} /\ Take(w, pc, c, row[c].retry)
      /\ UNCHANGED operation /\ row' = row
  BY ApprovalRuns DEF Approval!Begin, Approval!Active
<1>2. pc \in Steps /\ row[c].retry \in 0..MaxClaims /\ row[c].retry <= row[c].retry
  BY Bounded DEF Steps, ApprovalInv, Approval!Approval
<1>3. /\ RunsSound' /\ Only(w) /\ worker'[w].command = c /\ worker'[w].retry = row[c].retry
      /\ worker'[w].pc = pc /\ ~worker'[w].seen
  BY <1>1, <1>2, TakeGoes DEF ApprovalInv
<1>4. ApprovalSuits(worker'[w], operation[c], row[c])
  BY <1>1, <1>2, <1>3 DEF ApprovalSuits
<1> QED BY <1>1, <1>3, <1>4, NoneMoves, ApprovalAdvances DEF ApprovalInv, Only

LEMMA ApprovalQuiet ==
    ASSUME ApprovalInv, NEW w \in Workers, Approval!Resume(w) \/ Approval!GiveUp(w)
    PROVE  ApprovalInv' /\ Approval!Guards
<1>1. row' = row
  BY DEF Approval!Resume, Approval!GiveUp
<1>2. {"outcome", "prepare", "look"} \subseteq Steps \ {"open", "bind"}
  BY DEF Steps
<1>3. CASE Approval!Resume(w)
  <2>1. AllAdvance /\ NoneSigned /\ OperationsSound' /\ worker[w].pc = "resume"
    BY <1>3, NoneMoves, ApprovalRuns DEF ApprovalInv, Approval!Resume
  <2>2. Goto(w, "outcome") \/ Goto(w, "prepare") \/ Goto(w, "look")
    BY <1>3, ApprovalRuns DEF Approval!Resume
  <2> QED BY <1>1, <1>2, <2>1, <2>2, ApprovalLeads
<1>4. CASE Approval!GiveUp(w)
  <2>1. FailPreparing(w) /\ worker[w].pc = "prepare"
    BY <1>4, ApprovalIs, ApprovalRuns DEF Approval!GiveUp
  <2>2. AllAdvance /\ NoneSigned /\ OperationsSound'
    BY <2>1, FailAdvances DEF ApprovalInv
  <2>3. Goto(w, "outcome") \/ Goto(w, "look") \/ Finish(w)
    BY <1>4, ApprovalRuns DEF Approval!GiveUp
  <2> QED BY <1>1, <1>2, <2>1, <2>2, <2>3, ApprovalLeads
<1> QED BY <1>3, <1>4

LEMMA ApprovalFollows ==
    ASSUME ApprovalInv, NEW w \in Workers, Followed(w), row' = row
    PROVE  ApprovalInv' /\ Approval!Guards
<1>1. OperationsSound' /\ AllAdvance /\ NoneSigned /\ RunsSound' /\ Only(w)
  BY FollowedAdvances, FollowedGoes DEF ApprovalInv
<1>2. worker[w].pc # "idle"
  BY DEF Followed, Receive, ReceiveNothing, Broadcast, Abandon, Look, At
<1>3. ApprovalSuits(worker[w], operation[worker[w].command], row[worker[w].command])
  BY <1>2, ApprovalInHand
<1>4. CASE worker'[w] = Idle
  BY <1>1, <1>2, <1>4, IdleRun, ApprovalGoes
<1>5. CASE /\ Carries(w) /\ worker'[w].seen = worker[w].seen
           /\ worker[w].pc \in {"reconcile", "broadcast", "observe", "look"}
           /\ worker'[w].pc \in {"reconcile", "broadcast", "observe", "settle"}
  BY <1>1, <1>2, <1>3, <1>5, ApprovalGoes DEF ApprovalSuits
<1> QED BY <1>4, <1>5, FollowedGoes DEF ApprovalInv

\* Every step of an approval keeps the invariant and passes the trigger.
LEMMA ApprovalKeeps ==
    ASSUME ApprovalInv, Approval!Next, contract \in BOOLEAN
    PROVE  ApprovalInv' /\ Approval!Guards
<1>1. ASSUME NEW w \in Workers, Approval!Recover(w)
      PROVE  ApprovalInv' /\ Approval!Guards
  <2>1. CASE (Approval!Journal(w) \/ Approval!Look(w)) /\ UNCHANGED <<row, contract>>
    BY <2>1, ApprovalRuns, ApprovalOpens, ApprovalFollows
  <2> QED BY <1>1, <2>1, ApprovalSees, ApprovalDecides, ApprovalBinds, ApprovalQuiet, ApprovalSigns,
             ApprovalRecords DEF Approval!Recover
<1>2. CASE Approval!ApproveElsewhere
  BY <1>2, NoneMoves, ApprovalAdvances DEF Approval!ApproveElsewhere, ApprovalInv, RunsSound
<1>3. ASSUME NEW c \in Commands, NEW k \in Claims, NEW outcome \in {"mined", "reverted"},
             Approval!Mine(c, k, outcome)
      PROVE  ApprovalInv' /\ Approval!Guards
  <2>1. Mined(c, k, outcome) /\ row' = row
    BY <1>3, ApprovalIs DEF Approval!Mine
  <2>2. OperationsSound' /\ AllAdvance /\ NoneSigned /\ worker' = worker
    BY <2>1, MinedAdvances DEF ApprovalInv
  <2>3. RunsSound'
    BY <2>2 DEF ApprovalInv, RunsSound
  <2> QED BY <2>1, <2>2, <2>3, ApprovalAdvances
<1> QED BY <1>1, <1>2, <1>3, ApprovalRetries, ApprovalBegins DEF Approval!Next, Approval!Claims, Claims

-----------------------------------------------------------------------------
(* MintRequest.                                                            *)

\* Only an admitted request has an operation; one that counts as executed is
\* confirmed, and one that counts as failed has the revert recorded.
MintFits(o, r) ==
    /\ r \in Mint!Request
    /\ ~r.admitted => r.status \in {"legacy", "pending", "rejected"} /\ ~r.bound /\ o.status = "none"
    /\ r.admitted => r.status \in {"executing", "executed", "failed"}
    /\ ~r.bound => r.status \notin {"executed", "failed"}
    /\ r.bound => o.status # "none"
    /\ r.status = "executed" => o.status = "confirmed" /\ r.record[o.claim] # "none"
    /\ r.status = "failed" /\ o.status = "reverted" => r.record[o.claim] = "reverted"

\* A run on its way to a receipt has said on the row that it executes.
MintSuits(v, o, r) ==
    /\ r.admitted
    /\ v.claim <= o.claim
    /\ v.pc = "bind" => o.status # "none"
    /\ v.pc \notin {"read", "open", "bind"} => r.bound
    /\ v.pc \in {"reconcile", "broadcast", "observe"} /\ v.claim = o.claim
          /\ o.status \in {"preparing", "signed"} => r.status = "executing"

MintInv ==
    /\ OperationsSound /\ RunsSound
    /\ row \in [Commands -> Mint!Request]
    /\ \A c \in Commands : MintFits(operation[c], row[c])
    /\ \A w \in Workers : worker[w].pc # "idle" =>
          /\ worker[w].command \in Commands
          /\ MintSuits(worker[w], operation[worker[w].command], row[worker[w].command])

\* No row that counts as failed has its attempt reverted behind it.
FailedHold ==
    \A c \in Commands : operation'[c].status = "reverted" =>
        operation[c].status = "reverted" \/ row[c].status # "failed"

LEMMA MintRuns ==
    /\ \A w, pc : Mint!At(w, pc) <=> worker[w].pc = pc
    /\ \A w, pc : Mint!Goto(w, pc) <=> Goto(w, pc)
    /\ \A w : Mint!Finish(w) <=> Finish(w)
    /\ \A w, pc, c, retry : Mint!Take(w, pc, c, retry) <=> Take(w, pc, c, retry)
    /\ \A w : Mint!Own(w) = operation[worker[w].command]
    /\ \A w : Mint!Owns(w) <=> operation[worker[w].command].claim = worker[w].claim
    /\ \A w : Mint!Journal(w) => Open(w) \/ Followed(w)
    /\ \A w : Mint!Journal(w) => Open(w) \/ Finish(w) \/ worker[w].pc \in {"reconcile", "broadcast", "observe"}
    /\ Mint!Undone = Undone
<1>1. \A w : Mint!Journal(w) => Open(w) \/ Followed(w)
  BY MintIs DEF Mint!Journal, Mint!ReceiveNothing, ReceiveNothing,
     Mint!Abandon, Abandon, Followed, Mint!At, At, Mint!Goto, Goto, Mint!Finish, Finish,
     Mint!Idle, Idle, Mint!Own, Own, Mint!Owns, Owns
<1>2. /\ \A w, pc : Mint!Goto(w, pc) <=> Goto(w, pc)
      /\ \A w : Mint!Finish(w) <=> Finish(w)
      /\ \A w, pc, c, retry : Mint!Take(w, pc, c, retry) <=> Take(w, pc, c, retry)
  BY DEF Mint!Goto, Goto, Mint!Finish, Finish, Mint!Idle, Idle, Mint!Take, Take
<1>3. /\ \A w, pc : Mint!At(w, pc) <=> worker[w].pc = pc
      /\ \A w : Mint!Own(w) = operation[worker[w].command]
      /\ \A w : Mint!Owns(w) <=> operation[worker[w].command].claim = worker[w].claim
      /\ Mint!Undone = Undone
  BY DEF Mint!At, Mint!Own, Mint!Owns, Mint!Undone
<1>4. \A w : Mint!Journal(w) => Open(w) \/ Finish(w) \/ worker[w].pc \in {"reconcile", "broadcast", "observe"}
  BY MintIs, <1>2 DEF Mint!Journal, Mint!ReceiveNothing, Mint!Abandon, Mint!At, At, Receive, Broadcast
<1> QED BY <1>1, <1>2, <1>3, <1>4

LEMMA MintFitsOn ==
    ASSUME NEW o, NEW p, NEW r, MintFits(o, r), Advances(o, p),
           p.status = "reverted" => o.status = "reverted" \/ r.status # "failed"
    PROVE  MintFits(p, r)
BY DEF MintFits, Advances

LEMMA MintSuitsOn ==
    ASSUME NEW v, NEW o, NEW p, NEW r, MintSuits(v, o, r), Advances(o, p)
    PROVE  MintSuits(v, p, r)
BY DEF MintSuits, Advances

LEMMA MintInHand ==
    ASSUME MintInv, NEW w \in Workers, worker[w].pc # "idle"
    PROVE  LET c == worker[w].command IN
           /\ c \in Commands /\ MintSuits(worker[w], operation[c], row[c])
           /\ MintFits(operation[c], row[c]) /\ row[c] \in Mint!Request /\ Sound(operation[c])
           /\ worker[w] \in Run /\ RunsSound /\ OperationsSound
BY DEF MintInv, OperationsSound, RunsSound

\* Rows that fit their operations pass the trigger untouched, unless they count
\* as failed over an attempt opened again.
LEMMA MintPasses ==
    ASSUME \A c \in Commands : MintFits(operation'[c], row'[c]),
           \A c \in Commands : row'[c] = row[c] \/ Mint!RequestGuard(c)
    PROVE  Mint!Guards
<1>1. ASSUME NEW c \in Commands, row'[c] = row[c]
      PROVE  Mint!RequestGuard(c) \/ Mint!Reopened(c)'
  <2>1. MintFits(operation'[c], row'[c])
    OBVIOUS
  <2> QED BY <1>1, <2>1 DEF MintFits, Mint!RequestGuard, Mint!Reopened, Mint!Undone
<1> QED BY <1>1 DEF Mint!Guards

\* Steps that move operations on and write no row.
LEMMA MintAdvances ==
    ASSUME MintInv, OperationsSound', RunsSound', AllAdvance, FailedHold, row' = row,
           \A w \in Workers :
              \/ worker'[w] = worker[w] \/ worker'[w].pc = "idle"
              \/ /\ worker'[w].command \in Commands
                 /\ MintSuits(worker'[w], operation[worker'[w].command], row[worker'[w].command])
    PROVE  MintInv' /\ Mint!Guards
<1>1. \A c \in Commands : MintFits(operation'[c], row'[c])
  BY MintFitsOn DEF MintInv, AllAdvance, FailedHold
<1>2. ASSUME NEW w \in Workers, worker'[w].pc # "idle"
      PROVE  /\ worker'[w].command \in Commands
             /\ MintSuits(worker'[w], operation'[worker'[w].command], row'[worker'[w].command])
  <2> DEFINE c == worker'[w].command
  <2>1. c \in Commands /\ MintSuits(worker'[w], operation[c], row[c])
    BY <1>2 DEF MintInv
  <2>2. Advances(operation[c], operation'[c])
    BY <2>1 DEF AllAdvance
  <2> QED BY <2>1, <2>2, MintSuitsOn
<1>3. Mint!Guards
  BY <1>1, MintPasses
<1> QED BY <1>1, <1>2, <1>3 DEF MintInv

LEMMA NoneReverts == UNCHANGED operation => FailedHold
BY DEF FailedHold

\* Steps that write one row and leave the operations alone.
LEMMA MintWrites ==
    ASSUME MintInv, UNCHANGED operation, NEW c \in Commands, NEW r \in Mint!Request,
           row' = [row EXCEPT ![c] = r], RunsSound',
           MintFits(operation[c], r),
           \A v \in Run : MintSuits(v, operation[c], row[c]) => MintSuits(v, operation[c], r),
           \A w \in Workers :
              \/ worker'[w] = worker[w] \/ worker'[w].pc = "idle"
              \/ (worker'[w].command = c /\ MintSuits(worker'[w], operation[c], r)),
           r # row[c] => Mint!RequestGuard(c)
    PROVE  MintInv' /\ Mint!Guards
<1>1. row' \in [Commands -> Mint!Request] /\ row'[c] = r
      /\ \A d \in Commands : d # c => row'[d] = row[d]
  BY DEF MintInv
<1>2. OperationsSound'
  BY NoneMoves DEF MintInv
<1>3. \A d \in Commands : MintFits(operation'[d], row'[d])
  BY <1>1 DEF MintInv
<1>4. ASSUME NEW w \in Workers, worker'[w].pc # "idle"
      PROVE  /\ worker'[w].command \in Commands
             /\ MintSuits(worker'[w], operation'[worker'[w].command], row'[worker'[w].command])
  <2>1. CASE worker'[w].command = c /\ MintSuits(worker'[w], operation[c], r)
    BY <1>1, <2>1
  <2>2. CASE worker'[w] = worker[w]
    <3>1. worker[w] \in Run /\ worker[w].command \in Commands
          /\ MintSuits(worker[w], operation[worker[w].command], row[worker[w].command])
      BY <1>4, <2>2 DEF MintInv, RunsSound
    <3>2. CASE worker[w].command = c
      BY <1>1, <2>2, <3>1, <3>2
    <3>3. CASE worker[w].command # c
      BY <1>1, <2>2, <3>1, <3>3
    <3> QED BY <3>2, <3>3
  <2> QED BY <1>4, <2>1, <2>2
<1>5. Mint!Guards
  BY <1>1, <1>3, MintPasses
<1> QED BY <1>1, <1>2, <1>3, <1>4, <1>5 DEF MintInv

LEMMA MintOpens ==
    ASSUME MintInv, NEW w \in Workers, Open(w), row' = row
    PROVE  MintInv' /\ Mint!Guards
<1> DEFINE c == worker[w].command
           o == operation[c]
           p == operation'[c]
           r == row[c]
<1>1. /\ OperationsSound' /\ RunsSound' /\ Only(w) /\ Carries(w) /\ c \in Commands
      /\ worker[w].pc = "open" /\ worker'[w].pc = "bind" /\ worker'[w].claim = p.claim
      /\ \A d \in Commands : d # c => operation'[d] = operation[d]
      /\ \/ operation' = operation /\ o.status # "none"
         \/ /\ o.status = "none" \/ o.status \in Undone
            /\ p.status = "preparing" /\ p.claim = o.claim + 1
  BY OpenDoes DEF MintInv, Reopens
<1>2. /\ MintFits(o, r) /\ MintSuits(worker[w], o, r) /\ Sound(o) /\ worker'[w].command = c
  BY <1>1, MintInHand DEF Carries
<1>3. o.claim \in Nat /\ p.claim \in Nat /\ p.claim <= p.claim
  <2>1. Sound(p)
    BY <1>1 DEF OperationsSound
  <2> QED BY <1>2, <2>1, SignedIsAttempted, Bounded
<1>4. CASE operation' = operation /\ o.status # "none"
  <2>1. MintSuits(worker'[w], o, r)
    BY <1>1, <1>2, <1>3, <1>4 DEF MintSuits
  <2> QED BY <1>1, <1>2, <1>4, <2>1, NoneMoves, NoneReverts, MintAdvances DEF Only, MintInv
<1>5. CASE /\ o.status = "none" \/ o.status \in Undone
           /\ p.status = "preparing" /\ p.claim = o.claim + 1
  <2>1. MintFits(p, r)
    BY <1>2, <1>5 DEF MintFits, MintSuits
  <2>2. \A d \in Commands : MintFits(operation'[d], row'[d])
    BY <1>1, <2>1 DEF MintInv
  <2>3. ASSUME NEW x \in Workers, worker'[x].pc # "idle"
        PROVE  /\ worker'[x].command \in Commands
               /\ MintSuits(worker'[x], operation'[worker'[x].command], row'[worker'[x].command])
    <3>1. CASE x = w
      <4>1. MintSuits(worker'[w], p, r)
        BY <1>1, <1>2, <1>3, <1>5 DEF MintSuits
      <4> QED BY <1>1, <1>2, <3>1, <4>1
    <3>2. CASE x # w
      <4>1. /\ worker'[x] = worker[x] /\ worker[x].command \in Commands /\ worker[x] \in Run
            /\ MintSuits(worker[x], operation[worker[x].command], row[worker[x].command])
        BY <1>1, <2>3, <3>2 DEF Only, MintInv, RunsSound
      <4>2. CASE worker[x].command # c
        BY <1>1, <4>1, <4>2
      <4>3. CASE worker[x].command = c
        <5>1. worker[x].claim \in Nat
          BY <4>1, Bounded DEF Run
        <5>2. MintSuits(worker[x], p, r)
          BY <1>3, <1>5, <4>1, <4>3, <5>1 DEF MintSuits
        <5> QED BY <1>1, <4>1, <4>3, <5>2
      <4> QED BY <4>2, <4>3
    <3> QED BY <3>1, <3>2
  <2>4. Mint!Guards
    BY <2>2, MintPasses
  <2> QED BY <1>1, <2>2, <2>3, <2>4 DEF MintInv
<1> QED BY <1>1, <1>4, <1>5

\* Steps of a run that leave the row as it is.
LEMMA MintLeads ==
    ASSUME MintInv, NEW w \in Workers, worker[w].pc \notin {"idle", "read", "open", "bind"},
           row' = row, OperationsSound', AllAdvance, FailedHold,
           NEW pc \in Steps \ {"bind", "reconcile", "broadcast", "observe"}, Goto(w, pc) \/ Finish(w)
    PROVE  MintInv' /\ Mint!Guards
<1> DEFINE c == worker[w].command
<1>1. c \in Commands /\ MintSuits(worker[w], operation[c], row[c]) /\ RunsSound
  BY MintInHand
<1>2. CASE Goto(w, pc)
  <2>1. RunsSound' /\ Only(w) /\ Carries(w) /\ worker'[w].pc = pc /\ worker'[w].claim = worker[w].claim
    BY <1>1, <1>2, GotoGoes
  <2>2. worker'[w].command = c /\ MintSuits(worker'[w], operation[c], row[c])
    BY <1>1, <2>1 DEF MintSuits, Carries
  <2> HIDE DEF c
  <2> QED BY <1>1, <2>1, <2>2, MintAdvances DEF Only
<1>3. CASE Finish(w)
  BY <1>1, <1>3, FinishGoes, IdleRun, MintAdvances DEF Only
<1> QED BY <1>2, <1>3

LEMMA MintFollows ==
    ASSUME MintInv, NEW w \in Workers, Mint!Journal(w), Followed(w), row' = row
    PROVE  MintInv' /\ Mint!Guards
<1> DEFINE c == worker[w].command
<1>1. OperationsSound' /\ AllAdvance /\ RunsSound' /\ Only(w)
  BY FollowedAdvances, FollowedGoes DEF MintInv
<1>2. worker[w].pc # "idle"
  BY DEF Followed, Receive, ReceiveNothing, Broadcast, Abandon, Look, At
<1>3. c \in Commands /\ MintSuits(worker[w], operation[c], row[c]) /\ MintFits(operation[c], row[c])
      /\ RunsSound /\ OperationsSound /\ Sound(operation[c])
  BY <1>2, MintInHand
<1>4. FailedHold
  <2>1. ASSUME Receive(w) PROVE FailedHold
    <3>1. /\ worker[w].pc \in {"reconcile", "observe"} /\ operation[c].claim = worker[w].claim
          /\ operation[c].status = "signed"
          /\ \E status : operation' = [operation EXCEPT ![c].status = status]
      BY <2>1 DEF Receive, Owns, Own
    <3>2. row[c].status = "executing"
      BY <1>3, <3>1 DEF MintSuits
    <3>3. \A d \in Commands : d # c => operation'[d] = operation[d]
      BY <3>1, <1>3 DEF OperationsSound
    <3> QED BY <3>2, <3>3 DEF FailedHold
  <2>2. ASSUME Broadcast(w) PROVE FailedHold
    <3>1. \/ UNCHANGED operation
          \/ \E k : operation' = [operation EXCEPT ![c].tx[k] = "sent"]
      BY <2>2 DEF Broadcast
    <3>2. CASE \E k : operation' = [operation EXCEPT ![c].tx[k] = "sent"]
      BY <1>3, <3>2 DEF FailedHold, OperationsSound, Operation
    <3> QED BY <3>1, <3>2, NoneReverts
  <2>3. CASE UNCHANGED operation
    BY <2>3, NoneReverts
  <2> QED BY <2>1, <2>2, <2>3 DEF Followed, ReceiveNothing, Abandon, Look
<1>5. CASE worker'[w].pc = "idle"
  BY <1>1, <1>4, <1>5, MintAdvances DEF Only
<1>6. CASE worker'[w].pc # "idle"
  <2>1. /\ Carries(w) /\ worker'[w].claim = worker[w].claim
        /\ worker'[w].pc \in {"reconcile", "broadcast", "observe", "settle"}
    BY <1>3, <1>6, FollowedGoes, IdleRun
  <2>2. ~Open(w) /\ ~Finish(w)
    <3>1. ~Finish(w)
      BY <1>3, <1>6, FinishGoes, IdleRun
    <3>2. ~Open(w)
      BY <1>3, <2>1, OpenDoes
    <3> QED BY <3>1, <3>2
  <2>3. worker[w].pc \in {"reconcile", "broadcast", "observe"}
    BY <2>2, MintRuns
  <2>4. worker'[w].command = c /\ MintSuits(worker'[w], operation[c], row[c])
    BY <1>3, <2>1, <2>3 DEF MintSuits, Carries
  <2> HIDE DEF c
  <2> QED BY <1>1, <1>3, <1>4, <2>4, MintAdvances DEF Only
<1> QED BY <1>5, <1>6

LEMMA MintRejects ==
    ASSUME MintInv, NEW c \in Commands, Mint!Reject(c)
    PROVE  MintInv' /\ Mint!Guards
<1> DEFINE o == operation[c]
           old == row[c]
           r == [old EXCEPT !.status = "rejected"]
<1>1. old.status = "pending" /\ row' = [row EXCEPT ![c] = r] /\ UNCHANGED <<operation, worker>>
  BY DEF Mint!Reject, Mint!Write
<1>2. MintFits(o, old) /\ old \in Mint!Request /\ ~old.admitted
  BY <1>1 DEF MintInv, MintFits
<1>3. /\ r \in Mint!Request /\ r.status = "rejected" /\ r.admitted = old.admitted
      /\ r.bound = old.bound /\ r.record = old.record /\ row'[c] = r
  BY <1>1, <1>2 DEF Mint!Request, MintInv
<1> HIDE DEF r
<1>4. MintFits(o, r)
  BY <1>2, <1>3 DEF MintFits
<1>5. \A v \in Run : MintSuits(v, o, old) => MintSuits(v, o, r)
  BY <1>2 DEF MintSuits
<1>6. Mint!RequestGuard(c)
  BY <1>2, <1>3 DEF Mint!RequestGuard, MintFits
<1>7. RunsSound'
  BY <1>1 DEF MintInv, RunsSound
<1> QED BY <1>1, <1>3, <1>4, <1>5, <1>6, <1>7, MintWrites

LEMMA MintExecutes ==
    ASSUME MintInv, NEW w \in Workers, NEW c \in Commands, NEW named \in 0..MaxClaims,
           Mint!Execute(w, c, named)
    PROVE  MintInv' /\ Mint!Guards
<1> DEFINE o == operation[c]
           old == row[c]
           r == IF old.admitted THEN old ELSE [old EXCEPT !.admitted = TRUE, !.status = "executing"]
<1>1. /\ old.status \notin {"legacy", "rejected"} /\ row' = [row EXCEPT ![c] = r]
      /\ Take(w, "read", c, named) /\ UNCHANGED operation
  BY MintRuns DEF Mint!Execute, Mint!Write
<1>2. MintFits(o, old) /\ old \in Mint!Request /\ RunsSound /\ Sound(o)
  BY DEF MintInv, OperationsSound
<1>3. "read" \in Steps /\ o.claim \in Nat
  BY <1>2, SignedIsAttempted, Bounded DEF Steps
<1>4. /\ RunsSound' /\ Only(w) /\ worker'[w].pc = "read" /\ worker'[w].command = c
      /\ worker'[w].claim = 0
  BY <1>1, <1>2, <1>3, TakeGoes
<1>5. /\ r \in Mint!Request /\ r.admitted /\ r.bound = old.bound /\ r.record = old.record
      /\ r.status = (IF old.admitted THEN old.status ELSE "executing") /\ row'[c] = r
      /\ (old.admitted => r = old)
  BY <1>1, <1>2 DEF Mint!Request, MintInv
<1> HIDE DEF r
<1>6. MintFits(o, r)
  BY <1>2, <1>5 DEF MintFits
<1>7. \A v \in Run : MintSuits(v, o, old) => MintSuits(v, o, r)
  BY <1>5 DEF MintSuits
<1>8. MintSuits(worker'[w], o, r)
  BY <1>3, <1>4, <1>5 DEF MintSuits
<1>9. r # old => Mint!RequestGuard(c)
  BY <1>2, <1>5 DEF Mint!RequestGuard, MintFits
<1> QED BY <1>1, <1>4, <1>5, <1>6, <1>7, <1>8, <1>9, MintWrites DEF Only

LEMMA MintBegins ==
    ASSUME MintInv, NEW w \in Workers, NEW c \in Commands, Mint!Begin(w, c)
    PROVE  MintInv' /\ Mint!Guards
<1>1. row[c].admitted /\ Take(w, "read", c, 0) /\ UNCHANGED operation /\ row' = row
  BY MintRuns DEF Mint!Begin, Mint!Recoverable
<1>2. "read" \in Steps /\ operation[c].claim \in Nat /\ 0 \in 0..MaxClaims /\ RunsSound
  BY SignedIsAttempted, Bounded DEF Steps, MintInv, OperationsSound
<1>3. /\ RunsSound' /\ Only(w) /\ worker'[w].pc = "read" /\ worker'[w].command = c
      /\ worker'[w].claim = 0
  BY <1>1, <1>2, TakeGoes
<1>4. MintSuits(worker'[w], operation[c], row[c])
  BY <1>1, <1>2, <1>3 DEF MintSuits
<1> QED BY <1>1, <1>3, <1>4, NoneMoves, NoneReverts, MintAdvances DEF MintInv, Only

LEMMA MintReads ==
    ASSUME MintInv, NEW w \in Workers, Mint!ReadClaim(w)
    PROVE  MintInv' /\ Mint!Guards
<1> DEFINE c == worker[w].command
           o == operation[c]
           old == row[c]
           claim == IF old.bound THEN o.claim ELSE 0
           pc == IF Mint!Keeps(w) THEN "resume" ELSE IF Mint!Retains(w) THEN "retain" ELSE "open"
           v == [worker[w] EXCEPT !.claim = claim, !.pc = pc]
<1>1. /\ worker[w].pc = "read" /\ UNCHANGED operation /\ row' = row
      /\ worker' = [worker EXCEPT ![w] = v]
  BY MintRuns DEF Mint!ReadClaim, Mint!Row
<1>2. /\ c \in Commands /\ MintFits(o, old) /\ old \in Mint!Request /\ RunsSound
      /\ MintSuits(worker[w], o, old) /\ Sound(o) /\ worker[w] \in Run
  BY <1>1, MintInHand
<1>3. claim \in 0..MaxClaims /\ claim <= o.claim
  BY <1>2, SignedIsAttempted, Bounded
<1>4. pc \in {"resume", "retain", "open"} /\ (pc \in {"resume", "retain"} => old.bound)
  BY DEF Mint!Keeps, Mint!Retains, Mint!Row
<1> HIDE DEF claim, pc
<1>5. v \in Run /\ v.command = c /\ v.claim = claim /\ v.pc = pc
  BY <1>2, <1>3, <1>4 DEF Run, Steps
<1> HIDE DEF v
<1>6. RunsSound' /\ Only(w) /\ worker'[w] = v
  BY <1>1, <1>2, <1>5, RunGoes
<1>7. worker'[w].command = c /\ MintSuits(worker'[w], o, old)
  BY <1>2, <1>3, <1>4, <1>5, <1>6 DEF MintSuits
<1> QED BY <1>1, <1>2, <1>6, <1>7, NoneMoves, NoneReverts, MintAdvances DEF MintInv, Only

LEMMA MintQuiet ==
    ASSUME MintInv, NEW w \in Workers, Mint!Resume(w) \/ Mint!SignMint(w) \/ Mint!GiveUp(w)
    PROVE  MintInv' /\ Mint!Guards
<1>1. {"prepare", "look", "settle"} \subseteq Steps \ {"bind", "reconcile", "broadcast", "observe"}
  BY DEF Steps
<1>2. CASE Mint!Resume(w)
  <2>1. /\ AllAdvance /\ FailedHold /\ OperationsSound' /\ worker[w].pc = "resume" /\ row' = row
    BY <1>2, NoneMoves, NoneReverts, MintRuns DEF MintInv, Mint!Resume
  <2>2. Goto(w, "prepare") \/ Goto(w, "look") \/ Goto(w, "settle")
    BY <1>2, MintRuns DEF Mint!Resume
  <2> QED BY <1>1, <2>1, <2>2, MintLeads
<1>3. CASE Mint!SignMint(w)
  <2>1. Sign(w) /\ row' = row
    BY <1>3, MintIs DEF Mint!SignMint
  <2>2. /\ AllAdvance /\ OperationsSound' /\ worker[w].pc = "prepare" /\ Goto(w, "look")
    BY <2>1, SignAdvances DEF MintInv, At
  <2>3. FailedHold
    <3>1. \E c, k : operation' = [operation EXCEPT ![c].status = "signed", ![c].tx[k] = "signed"]
      BY <2>1 DEF Sign
    <3> QED BY <3>1 DEF FailedHold, MintInv, OperationsSound, Operation
  <2> QED BY <1>1, <2>1, <2>2, <2>3, MintLeads
<1>4. CASE Mint!GiveUp(w)
  <2>1. FailPreparing(w) /\ worker[w].pc = "prepare" /\ Goto(w, "settle") /\ row' = row
    BY <1>4, MintIs, MintRuns DEF Mint!GiveUp
  <2>2. AllAdvance /\ OperationsSound'
    BY <2>1, FailAdvances DEF MintInv
  <2>3. FailedHold
    BY <2>1 DEF FailPreparing, FailedHold, MintInv, OperationsSound, Operation
  <2> QED BY <1>1, <2>1, <2>2, <2>3, MintLeads
<1> QED BY <1>2, <1>3, <1>4

LEMMA MintBinds ==
    ASSUME MintInv, NEW w \in Workers, Mint!Bind(w)
    PROVE  MintInv' /\ Mint!Guards
<1> DEFINE c == worker[w].command
           o == operation[c]
           old == row[c]
           status == IF old.status = "failed" /\ o.status \notin Undone THEN "executing" ELSE old.status
           r == [old EXCEPT !.bound = TRUE, !.status = status]
<1>1. /\ worker[w].pc = "bind" /\ UNCHANGED operation /\ Goto(w, "resume")
      /\ row' = [row EXCEPT ![c] =
            [old EXCEPT !.bound = TRUE, !.status = IF @ = "failed" /\ o.status \notin Undone
                                                   THEN "executing" ELSE @]]
  BY MintRuns DEF Mint!Bind, Mint!Row, Mint!Write
<1>2. /\ c \in Commands /\ MintFits(o, old) /\ old \in Mint!Request /\ RunsSound
      /\ MintSuits(worker[w], o, old) /\ Sound(o)
  BY <1>1, MintInHand
<1>3. row' = [row EXCEPT ![c] = r]
  BY <1>1, <1>2 DEF Mint!Request
<1>4. old.admitted /\ o.status # "none" /\ old.status \in {"executing", "executed", "failed"}
  BY <1>1, <1>2 DEF MintSuits, MintFits
<1>5. status \in {"executing", "executed", "failed"}
      /\ (status = old.status \/ (old.status = "failed" /\ status = "executing"))
      /\ (status = "failed" => o.status \in Undone)
  BY <1>4
<1> HIDE DEF status
<1>6. /\ r \in Mint!Request /\ r.status = status /\ r.admitted = old.admitted /\ r.bound
      /\ r.record = old.record /\ row'[c] = r
  BY <1>2, <1>3, <1>5 DEF Mint!Request, MintInv
<1> HIDE DEF r
<1>7. MintFits(o, r)
  BY <1>2, <1>4, <1>5, <1>6 DEF MintFits
<1>8. \A v \in Run : MintSuits(v, o, old) => MintSuits(v, o, r)
  BY <1>5, <1>6 DEF MintSuits
<1>9. /\ RunsSound' /\ Only(w) /\ worker'[w].command = c /\ worker'[w].pc = "resume"
      /\ worker'[w].claim = worker[w].claim
  BY <1>1, <1>2, GotoGoes DEF Carries, Steps
<1>10. MintSuits(worker'[w], o, r)
  BY <1>2, <1>4, <1>6, <1>9 DEF MintSuits
<1>11. Mint!RequestGuard(c)
  BY <1>1, <1>4, <1>5, <1>6, <1>7 DEF Mint!RequestGuard, MintFits, Mint!Undone
<1> QED BY <1>1, <1>2, <1>3, <1>6, <1>7, <1>8, <1>9, <1>10, <1>11, MintWrites DEF Only

\* What _project makes of a row, with what its operation says.
LEMMA MintProjected ==
    ASSUME MintInv, NEW w \in Workers, NEW c \in Commands, c = worker[w].command,
           operation[c].claim = worker[w].claim, row[c].bound
    PROVE  /\ Mint!Projected(w) \in Mint!Request
           /\ Mint!Projected(w).admitted /\ Mint!Projected(w).bound
           /\ Mint!Projected(w).status =
                 (IF operation[c].status = "confirmed" THEN "executed"
                  ELSE IF operation[c].status \in Undone THEN "failed" ELSE "executing")
           /\ MintFits(operation[c], Mint!Projected(w))
           /\ row[c].status = "executed" => operation[c].status = "confirmed"
<1> DEFINE o == operation[c]
           old == row[c]
           k == worker[w].claim
           status == IF o.status = "confirmed" THEN "executed"
                     ELSE IF o.status \in Undone THEN "failed" ELSE "executing"
           entry == IF o.tx[k] = "none" THEN old.record[k] ELSE Mint!Recorded(o.status)
           r == [old EXCEPT !.status = status, !.record[k] = entry]
<1>1. MintFits(o, old) /\ old \in Mint!Request /\ Sound(o) /\ old.admitted /\ old.bound /\ o.status # "none"
  BY DEF MintInv, OperationsSound, MintFits
<1>2. /\ o.claim = k /\ k \in Claims /\ o.tx[k] \in TxState
      /\ o.status \in {"preparing", "signed", "confirmed", "reverted", "failed"}
      /\ o.status \in {"confirmed", "reverted"} => o.tx[k] # "none"
      /\ o.status \in {"preparing", "failed"} => o.tx[k] = "none"
  BY <1>1, Bounded DEF Sound, Operation
<1>3. Mint!Projected(w) = r
  BY <1>1, MintRuns DEF Mint!Projected, Mint!Row, Mint!Request
<1>4. old.record \in [Claims -> {"none", "submitted", "confirmed", "reverted"}]
  BY <1>1 DEF Mint!Request, Mint!Claims, Claims
<1>5. /\ entry \in {"none", "submitted", "confirmed", "reverted"}
      /\ o.status = "confirmed" => entry = "confirmed"
      /\ o.status = "reverted" => entry = "reverted"
  BY <1>2, <1>4 DEF Mint!Recorded
<1> DEFINE record == [old.record EXCEPT ![k] = entry]
<1> HIDE DEF entry
<1>6. /\ record \in [Claims -> {"none", "submitted", "confirmed", "reverted"}] /\ record[k] = entry
  BY <1>2, <1>4, <1>5
<1>7. r = [old EXCEPT !.status = status, !.record = record]
  BY <1>1 DEF Mint!Request
<1>8. status \in {"executing", "executed", "failed"}
  OBVIOUS
<1> HIDE DEF record, r, status
<1>9. /\ r \in Mint!Request /\ r.status = status /\ r.admitted /\ r.bound /\ r.record = record
  BY <1>1, <1>6, <1>7, <1>8 DEF Mint!Request, Mint!Claims, Claims
<1>10. MintFits(o, r)
  BY <1>1, <1>2, <1>5, <1>6, <1>9 DEF MintFits, status
<1>11. old.status = "executed" => o.status = "confirmed"
  BY <1>1 DEF MintFits
<1> QED BY <1>3, <1>9, <1>10, <1>11 DEF status

LEMMA MintWritten ==
    ASSUME MintInv, NEW w \in Workers, NEW c \in Commands, c = worker[w].command,
           operation[c].claim = worker[w].claim, row[c].bound, UNCHANGED operation,
           NEW r, r = Mint!Projected(w), row' = [row EXCEPT ![c] = r], RunsSound', Only(w),
           \/ worker'[w].pc = "idle"
           \/ (worker'[w].command = c /\ MintSuits(worker'[w], operation[c], r))
    PROVE  MintInv' /\ Mint!Guards
<1> DEFINE o == operation[c]
           old == row[c]
<1>1. /\ r \in Mint!Request /\ r.admitted /\ r.bound /\ MintFits(o, r)
      /\ r.status = (IF o.status = "confirmed" THEN "executed"
                     ELSE IF o.status \in Undone THEN "failed" ELSE "executing")
      /\ old.status = "executed" => o.status = "confirmed"
  BY MintProjected
<1>2. row'[c] = r
  BY DEF MintInv
<1>3. \A v \in Run : MintSuits(v, o, old) => MintSuits(v, o, r)
  BY <1>1 DEF MintSuits
<1>4. Mint!RequestGuard(c)
  BY <1>1, <1>2 DEF Mint!RequestGuard, MintFits, Mint!Undone
<1>5. \A x \in Workers : worker'[x] = worker[x] \/ worker'[x].pc = "idle"
                          \/ (worker'[x].command = c /\ MintSuits(worker'[x], o, r))
  BY DEF Only
<1> QED BY <1>1, <1>3, <1>4, <1>5, MintWrites

LEMMA MintRetains ==
    ASSUME MintInv, NEW w \in Workers, Mint!Retain(w)
    PROVE  MintInv' /\ Mint!Guards
<1> DEFINE c == worker[w].command
           o == operation[c]
           old == row[c]
           r == Mint!Projected(w)
<1>1. worker[w].pc = "retain" /\ UNCHANGED operation
  BY MintRuns DEF Mint!Retain
<1>2. /\ c \in Commands /\ old.bound /\ RunsSound /\ MintSuits(worker[w], o, old) /\ Sound(o)
  BY <1>1, MintInHand DEF MintSuits
<1>3. CASE o.claim = worker[w].claim /\ row' = [row EXCEPT ![c] = r] /\ Goto(w, "open")
  <2>1. /\ r \in Mint!Request /\ r.admitted /\ r.bound
    BY <1>2, <1>3, MintProjected
  <2>2. /\ RunsSound' /\ Only(w) /\ worker'[w].command = c /\ worker'[w].pc = "open"
        /\ worker'[w].claim = worker[w].claim
    BY <1>2, <1>3, GotoGoes DEF Carries, Steps
  <2> HIDE DEF r
  <2>3. MintSuits(worker'[w], o, r)
    BY <1>2, <2>1, <2>2 DEF MintSuits
  <2> QED BY <1>1, <1>2, <1>3, <2>2, <2>3, MintWritten DEF r
<1>4. CASE /\ worker' = [worker EXCEPT ![w].pc = "resume", ![w].claim = o.claim] /\ row' = row
  <2>1. o.claim \in 0..MaxClaims /\ o.claim <= o.claim /\ "resume" \in Steps
    BY <1>2, SignedIsAttempted, Bounded DEF Steps
  <2>2. /\ RunsSound' /\ Only(w) /\ Carries(w) /\ worker'[w].pc = "resume"
        /\ worker'[w].claim = o.claim
    <3>1. PICK claim \in 0..MaxClaims : claim = o.claim
      BY <2>1
    <3>2. worker' = [worker EXCEPT ![w].pc = "resume", ![w].claim = claim]
      BY <1>4, <3>1
    <3> HIDE DEF o
    <3> QED BY <1>2, <2>1, <3>1, <3>2, ClaimGoes
  <2>3. worker'[w].command = c /\ MintSuits(worker'[w], o, old)
    BY <1>2, <2>1, <2>2 DEF MintSuits, Carries
  <2> QED BY <1>1, <1>2, <1>4, <2>2, <2>3, NoneMoves, NoneReverts, MintAdvances DEF MintInv, Only
<1> QED BY <1>3, <1>4, MintRuns DEF Mint!Retain, Mint!Write

LEMMA MintEnds ==
    ASSUME MintInv, NEW w \in Workers, Mint!Project(w)
    PROVE  MintInv' /\ Mint!Guards
<1> DEFINE c == worker[w].command
           o == operation[c]
           old == row[c]
           r == Mint!Projected(w)
<1>1. /\ worker[w].pc \in {"look", "settle"} /\ UNCHANGED operation
      /\ o.claim = worker[w].claim /\ old.bound /\ row' = [row EXCEPT ![c] = r]
      /\ (r.status = "executing" /\ Goto(w, "reconcile")) \/ Finish(w)
  BY MintRuns DEF Mint!Project, Mint!Write, Mint!Row
<1>2. /\ c \in Commands /\ RunsSound /\ MintSuits(worker[w], o, old)
  BY <1>1, MintInHand
<1>3. r \in Mint!Request /\ r.admitted /\ r.bound
  BY <1>1, <1>2, MintProjected
<1> HIDE DEF r
<1>4. CASE r.status = "executing" /\ Goto(w, "reconcile")
  <2>1. /\ RunsSound' /\ Only(w) /\ worker'[w].command = c /\ worker'[w].pc = "reconcile"
        /\ worker'[w].claim = worker[w].claim
    BY <1>2, <1>4, GotoGoes DEF Carries, Steps
  <2>2. MintSuits(worker'[w], o, r)
    BY <1>2, <1>3, <1>4, <2>1 DEF MintSuits
  <2> QED BY <1>1, <1>2, <2>1, <2>2, MintWritten DEF r
<1>5. CASE Finish(w)
  <2>1. RunsSound' /\ Only(w) /\ worker'[w].pc = "idle"
    BY <1>2, <1>5, FinishGoes, IdleRun
  <2> QED BY <1>1, <1>2, <2>1, MintWritten DEF r
<1> QED BY <1>1, <1>4, <1>5

\* Every step of a mint keeps the invariant and passes the trigger.
LEMMA MintKeeps ==
    ASSUME MintInv, Mint!Next
    PROVE  MintInv' /\ Mint!Guards
<1>1. ASSUME NEW w \in Workers, Mint!Recover(w)
      PROVE  MintInv' /\ Mint!Guards
  <2>1. CASE Mint!Journal(w) /\ UNCHANGED row
    BY <2>1, MintRuns, MintOpens, MintFollows
  <2> QED BY <1>1, <2>1, MintReads, MintRetains, MintBinds, MintQuiet, MintEnds DEF Mint!Recover
<1>2. ASSUME NEW c \in Commands, NEW k \in Claims, NEW outcome \in {"mined", "reverted"},
             Mint!Mine(c, k, outcome)
      PROVE  MintInv' /\ Mint!Guards
  <2>1. Mined(c, k, outcome) /\ row' = row
    BY <1>2, MintIs DEF Mint!Mine
  <2>2. OperationsSound' /\ AllAdvance /\ worker' = worker
    BY <2>1, MinedAdvances DEF MintInv
  <2>3. RunsSound'
    BY <2>2 DEF MintInv, RunsSound
  <2>4. FailedHold
    BY <2>1 DEF Mined, FailedHold, MintInv, OperationsSound, Operation
  <2> QED BY <2>1, <2>2, <2>3, <2>4, MintAdvances
<1>3. ASSUME NEW c \in Commands, NEW w \in Workers, NEW named \in Mint!Named(c), Mint!Execute(w, c, named)
      PROVE  MintInv' /\ Mint!Guards
  <2>1. named \in 0..MaxClaims
    BY Bounded DEF Mint!Named, Mint!Claims
  <2> QED BY <1>3, <2>1, MintExecutes
<1> QED BY <1>1, <1>2, <1>3, MintRejects, MintBegins DEF Mint!Next, Mint!Claims, Claims
===============================================================================
