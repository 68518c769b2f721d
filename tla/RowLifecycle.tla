--------------------------- MODULE RowLifecycle ----------------------------
(***************************************************************************)
(* What the operations on the rows of creators and markets promise: each   *)
(* row goes through its life in single steps, the operations, as if        *)
(* nobody else worked on it.  The promise is made for the rows that no two *)
(* requests had in hand at the same time; of the others only that they     *)
(* are not deleted.                                                        *)
(***************************************************************************)
EXTENDS Naturals

CONSTANTS Users, Markets, NoRow, NoOutcome

VARIABLES creators, markets, outcomes, refunds, contended

vars == <<creators, markets, outcomes, refunds, contended>>

Init ==
    /\ creators \in [Users -> {NoRow,
                               [status |-> "ACTIVE", stakePaid |-> TRUE,
                                stakeReturned |-> FALSE, sharesUnlocked |-> TRUE]}]
    /\ markets = [m \in Markets |-> NoRow]
    /\ outcomes = [m \in Markets |-> 0]
    /\ refunds = [u \in Users |-> 0]
    /\ contended = {}

-----------------------------------------------------------------------------
(* A creator applies once, is judged once, and may be suspended at any time, *)
(* from which there is no way back; shares are unlocked once; a stake that   *)
(* was paid is returned once.                                                *)
Applied(u) ==
    /\ creators[u] = NoRow
    /\ creators' = [creators EXCEPT ![u] =
                      [status |-> "PENDING", stakePaid |-> FALSE,
                       stakeReturned |-> FALSE, sharesUnlocked |-> FALSE]]
    /\ UNCHANGED refunds

Judged(u, verdict) ==
    /\ creators[u].status = "PENDING"
    /\ creators' = [creators EXCEPT ![u].status = verdict]
    /\ UNCHANGED refunds

Suspended(u) ==
    /\ creators' = [creators EXCEPT ![u].status = "SUSPENDED"]
    /\ UNCHANGED refunds

Unlocked(u) ==
    /\ ~creators[u].sharesUnlocked
    /\ creators' = [creators EXCEPT ![u].sharesUnlocked = TRUE]
    /\ UNCHANGED refunds

Refunded(u) ==
    /\ creators[u].stakePaid
    /\ ~creators[u].stakeReturned
    /\ creators' = [creators EXCEPT ![u].stakeReturned = TRUE]
    /\ refunds' = [refunds EXCEPT ![u] = @ + 1]

CreatorLife(u) ==
    \/ Applied(u)
    \/ /\ creators[u] # NoRow
       /\ \/ \E verdict \in {"ACTIVE", "SUSPENDED"} : Judged(u, verdict)
          \/ Suspended(u)
          \/ Unlocked(u)
          \/ Refunded(u)

-----------------------------------------------------------------------------
(* A market is opened, gets its outcomes, is extended while it is active,    *)
(* and ends by a resolution among its outcomes, which is final, or is        *)
(* disputed or cancelled.                                                    *)
Opened(m) ==
    /\ markets[m] = NoRow
    /\ markets'[m] # NoRow
    /\ markets'[m].endTime > 0
    /\ markets' = [markets EXCEPT ![m] =
                      [status |-> "ACTIVE", endTime |-> markets'[m].endTime,
                       winningOutcomeIndex |-> NoOutcome]]
    /\ UNCHANGED outcomes

Described(m) ==
    /\ outcomes[m] = 0
    /\ outcomes'[m] > 1
    /\ outcomes' = [outcomes EXCEPT ![m] = outcomes'[m]]
    /\ UNCHANGED markets

Extended(m) ==
    /\ markets[m].status = "ACTIVE"
    /\ markets'[m].endTime > markets[m].endTime
    /\ markets' = [markets EXCEPT ![m].endTime = markets'[m].endTime]

Closed(m) ==
    /\ markets[m].status = "ACTIVE"
    /\ markets' = [markets EXCEPT ![m].status = "PENDING_RESOLUTION"]

Resolved(m) ==
    /\ markets[m].status = "PENDING_RESOLUTION"
    /\ \E outcome \in 0 .. outcomes[m] - 1 :
         markets' = [markets EXCEPT ![m].status = "RESOLVED",
                                    ![m].winningOutcomeIndex = outcome]

Stopped(m) ==
    /\ markets[m].status # "RESOLVED"
    /\ \E status \in {"DISPUTED", "CANCELLED"} :
         markets' = [markets EXCEPT ![m].status = status]

MarketLife(m) ==
    \/ Opened(m)
    \/ Described(m)
    \/ /\ markets[m] # NoRow
       /\ \/ Extended(m)
          \/ Closed(m)
          \/ Resolved(m)
          \/ Stopped(m)
       /\ UNCHANGED outcomes

-----------------------------------------------------------------------------
(* A row that two requests had in hand at once may come out as anything but  *)
(* nothing.                                                                  *)
CreatorScrambled(u) ==
    /\ creators' = [creators EXCEPT ![u] = creators'[u]]
    /\ creators'[u] # NoRow
    /\ refunds' = [refunds EXCEPT ![u] = refunds'[u]]

MarketScrambled(m) ==
    /\ markets' = [markets EXCEPT ![m] = markets'[m]]
    /\ markets'[m] # NoRow
    /\ UNCHANGED outcomes

CreatorStep(u) ==
    /\ CreatorLife(u) \/ (u \in contended /\ CreatorScrambled(u))
    /\ UNCHANGED <<markets, outcomes>>

MarketStep(m) ==
    /\ MarketLife(m) \/ (m \in contended /\ MarketScrambled(m))
    /\ UNCHANGED <<creators, refunds>>

Next ==
    /\ contended \subseteq contended'
    /\ \/ \E u \in Users : CreatorStep(u)
       \/ \E m \in Markets : MarketStep(m)
       \/ UNCHANGED <<creators, markets, outcomes, refunds>>

Spec == Init /\ [][Next]_vars
=============================================================================
