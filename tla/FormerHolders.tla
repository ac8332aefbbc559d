---------------------------- MODULE FormerHolders ----------------------------
(***************************************************************************)
(* The archive of members who left (backend/tokens/services/               *)
(* former_holders.py, its nightly tasks, FormerHolder).                    *)
(*                                                                         *)
(* A fold reads the token's transfers up to a finalized block, computes    *)
(* who ceased to hold and when, and records what is missing under the      *)
(* token's lock; a purge removes what is past its retention.  The register *)
(* itself is rebuilt from the chain on every read and keeps nothing.       *)
(***************************************************************************)
EXTENDS Naturals, Integers, SequencesExt, FiniteSetsExt

CONSTANTS
    Members,        \* addresses
    MaxValue,       \* bound: shares of one transfer
    MaxTransfers,   \* bound: transfers of the token
    MaxDay,         \* bound: days; one block is mined a day
    Retention,      \* FORMER_MEMBER_RETENTION_DAYS
    Workers,        \* concurrent folds
    None            \* the zero address

HolderAssumption ==
    /\ MaxValue \in Nat \ {0} /\ MaxTransfers \in Nat \ {0} /\ MaxDay \in Nat \ {0} /\ Retention \in Nat
    /\ None \notin Members

VARIABLES
    archive,    \* FormerHolder rows, and the token's former_holders_block or -1
    chain,      \* external: the token's transfers, and today
    worker      \* what each fold carries

vars == <<archive, chain, worker>>

-----------------------------------------------------------------------------
Days == 0..MaxDay
Shares == 1..(MaxValue * MaxTransfers)

\* unique per address and block
FormerHolder == [address : Members, block : Days, shares : Shares]

\* finalized_block: the blocks of the days before today, as far as the
\* provider asked has seen them.
Heads == 0..(MaxDay - 1)

Idle == [pc |-> "idle", head |-> 0, missing |-> {}]
Finish(w) == worker' = [worker EXCEPT ![w] = Idle]

\* retention_cutoff
Cutoff == chain.today - Retention

\* transfer_entries, in the order of the logs: their blocks never go back, so
\* those up to head come first.
TransferEntries(head) ==
    SubSeq(chain.transfers, 1,
           Max({0} \cup {i \in DOMAIN chain.transfers : chain.transfers[i].block <= head}))

\* Mutant: whoever sends shares is taken to have left.
Enter_Senders(state, entry) ==
    IF entry.from \in {None, entry.to} THEN state
    ELSE [state EXCEPT !.ceased = Append(@, [address |-> entry.from, block |-> entry.block, shares |-> entry.value])]

\* One entry of cessations_in's loop.
Enter(state, entry) ==
    LET credited == [state.balance EXCEPT ![entry.to] = @ + entry.value]
        before == credited[entry.from]
        left == before - entry.value
    IN  IF entry.from = entry.to THEN state
        ELSE [balance |-> [credited EXCEPT ![entry.from] = IF entry.from = None THEN 0 ELSE left],
              ceased |-> IF entry.from # None /\ before > 0 /\ left <= 0
                         THEN Append(state.ceased, [address |-> entry.from, block |-> entry.block, shares |-> before])
                         ELSE state.ceased]

CessationsIn(entries) ==
    FoldLeft(Enter, [balance |-> [m \in Members \cup {None} |-> 0], ceased |-> <<>>], entries).ceased

\* Keyed by address and block, so that the last of a block stands.
Retained(head) ==
    LET ceased == CessationsIn(TransferEntries(head))
        Same(i, j) == ceased[i].address = ceased[j].address /\ ceased[i].block = ceased[j].block
    IN  {ceased[i] : i \in {j \in DOMAIN ceased :
            /\ ceased[j].block >= Cutoff
            /\ \A k \in DOMAIN ceased : k > j => ~Same(j, k)}}

Recorded(c) == \E r \in archive.rows : r.address = c.address /\ r.block = c.block

-----------------------------------------------------------------------------
(* Folds and purges.                                                       *)

\* fold_former_holders: the head it will read up to
BeginFold(w, head) ==
    /\ worker[w].pc = "idle"
    /\ head < chain.today
    /\ worker' = [worker EXCEPT ![w] = [pc |-> "read", head |-> head, missing |-> {}]]
    /\ UNCHANGED <<archive, chain>>

\* Its reading of the history, then of the archive, before any lock.
ReadArchive(w) ==
    /\ worker[w].pc = "read"
    /\ worker' = [worker EXCEPT
          ![w] = [@ EXCEPT !.pc = "write",
                           !.missing = {c \in Retained(worker[w].head) : ~Recorded(c)}]]
    /\ UNCHANGED <<archive, chain>>

\* Mutant: a fold that reached less far writes its block all the same.
Overtaken_Never(w) == FALSE

\* head < locked.former_holders_block
Overtaken(w) == worker[w].head < archive.block

\* Mutant: retention as it was when the fold began.
Still_Decided(c) == TRUE

\* The second reading of the cutoff.
Still(c) == c.block >= Cutoff

\* The transaction, under the token's lock.
WriteArchive(w) ==
    /\ worker[w].pc = "write"
    /\ archive' = IF Overtaken(w) THEN archive
                  ELSE [archive EXCEPT !.rows = @ \cup {c \in worker[w].missing : Still(c) /\ ~Recorded(c)},
                                       !.block = worker[w].head]
    /\ Finish(w)
    /\ UNCHANGED chain

\* A provider fails, or the process dies.
LoseFold(w) ==
    /\ worker[w].pc # "idle"
    /\ Finish(w)
    /\ UNCHANGED <<archive, chain>>

\* purge_former_holders
Purge ==
    /\ archive' = [archive EXCEPT !.rows = {r \in @ : r.block >= Cutoff},
                                  !.purged = IF @ > Cutoff THEN @ ELSE Cutoff]
    /\ UNCHANGED <<chain, worker>>

-----------------------------------------------------------------------------
(* External: the token, which never lets an address send what it has not.  *)

\* The shares m holds after the first i transfers.
BalanceAt(m, i) ==
    LET Change(e) == (IF e.to = m THEN e.value ELSE 0) - (IF e.from = m THEN e.value ELSE 0)
    IN  MapThenSumSet(LAMBDA k : Change(chain.transfers[k]), 1..i)

Send(from, to, value) ==
    /\ Len(chain.transfers) < MaxTransfers
    /\ from # None => BalanceAt(from, Len(chain.transfers)) >= value
    /\ chain' = [chain EXCEPT !.transfers =
          Append(@, [from |-> from, to |-> to, value |-> value, block |-> chain.today])]
    /\ UNCHANGED <<archive, worker>>

DayPasses ==
    /\ chain.today < MaxDay
    /\ chain' = [chain EXCEPT !.today = @ + 1]
    /\ UNCHANGED <<archive, worker>>

-----------------------------------------------------------------------------
Init ==
    /\ archive = [rows |-> {}, block |-> -1, purged |-> -Retention]
    /\ \E m \in Members :   \* the first allotment
          chain = [transfers |-> <<[from |-> None, to |-> m, value |-> 1, block |-> 0]>>, today |-> 0]
    /\ worker = [w \in Workers |-> Idle]

Next ==
    \/ \E w \in Workers :
          \/ \E head \in Heads : BeginFold(w, head)
          \/ ReadArchive(w) \/ WriteArchive(w) \/ LoseFold(w)
    \/ Purge
    \/ \E from \in Members \cup {None}, to \in Members, value \in 1..MaxValue : Send(from, to, value)
    \/ DayPasses

Spec == Init /\ [][Next]_vars

-----------------------------------------------------------------------------
TypeOK ==
    /\ archive.rows \subseteq FormerHolder
    /\ archive.block \in Heads \cup {-1}
    /\ archive.purged \in -Retention..MaxDay
    /\ worker \in [Workers -> [pc : {"idle", "read", "write"}, head : Heads, missing : SUBSET FormerHolder]]

\* With its i-th transfer its sender gave away the last of its shares.
Left(i) ==
    LET e == chain.transfers[i]
    IN  /\ e.from \notin {None, e.to}
        /\ BalanceAt(e.from, i) = 0

\* The last time the sender left in that block.
Final(i) ==
    /\ Left(i)
    /\ \A k \in (i + 1)..Len(chain.transfers) :
          Left(k) => chain.transfers[k].from # chain.transfers[i].from
                       \/ chain.transfers[k].block # chain.transfers[i].block

Departures ==
    {[address |-> chain.transfers[i].from, block |-> chain.transfers[i].block,
      shares |-> chain.transfers[i].value] : i \in {k \in DOMAIN chain.transfers : Final(k)}}

\* The archive holds departures and nothing else, none later than the block it
\* names, every one up to that block still to be kept, and none that a purge
\* has removed, whichever folds, purges and providers overtake each other
\* (fold_former_holders, purge_former_holders).
ArchiveIsTrue ==
    /\ archive.rows \subseteq {d \in Departures : d.block <= archive.block}
    /\ {d \in Departures : d.block <= archive.block /\ d.block >= Cutoff} \subseteq archive.rows
    /\ \A r \in archive.rows : r.block >= archive.purged
=============================================================================
