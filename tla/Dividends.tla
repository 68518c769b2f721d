----------------------------- MODULE Dividends -----------------------------
(***************************************************************************)
(* dividends.service.ts: what holders of shares can claim, how a claim is  *)
(* initiated and, with a tweet, completed.                                 *)
(*                                                                         *)
(* The rows of holdings and of distributed epochs come from outside: no    *)
(* code of the backend writes them.  A request is a sequence of commands   *)
(* to the database between which others run.                               *)
(***************************************************************************)
EXTENDS Naturals, FiniteSetsExt

CONSTANTS
    Users,      \* addresses of holders
    Creators,
    Tweets,     \* ids of tweets
    Requests,   \* requests that are served at one time
    NoRow,
    NoTweet,    \* tweetId is null
    MaxShares,  \* bound: shares of one creator
    MaxFees,    \* bound: fees of one epoch, in units of 1e-6 USDC
    MaxClaims,  \* bound: claims initiated
    MaxWrites,  \* bound: writes after which none comes from outside
    MaxCompletions \* bound: completions of one claim

VARIABLES
    holdings,    \* creator_shares: sharesHeld by creator and holder
    totalShares, \* creators.totalShares
    epochs,      \* dividend_epochs: the epochs distributed, by creator
    claims,      \* dividend_claims, in the order of claimedAt
    claimedAt,   \* the time claimedAt is taken from
    request,     \* what each request has in hand
    version,     \* history: how often the tables were written
    completions, \* history: successes reported for each claim
    contended    \* history: claims two requests were completing at once

dividendsVars == <<holdings, totalShares, epochs, claims, claimedAt, request,
                  version, completions, contended>>
outside == <<holdings, totalShares, epochs>>
history == <<version, completions, contended>>

ClaimIds == 1 .. MaxClaims

(* epoch is the latest epoch at the time, which the row does not store.  A   *)
(* claim is completed with a tweet.                                          *)
Claim == [user : Users, creator : Creators, amount : Nat, epoch : Nat \ {0},
          tweetId : {NoTweet}, verified : {FALSE}]
         \union
         [user : Users, creator : Creators, amount : Nat, epoch : Nat \ {0},
          tweetId : Tweets, verified : {TRUE}]

DividendEpoch == [epochNumber : Nat \ {0}, totalFees : Nat]

CreatorShare == [sharesHeld : Nat, total : Nat]

ASSUME DividendsAssumption ==
    /\ MaxShares \in Nat /\ MaxFees \in Nat /\ MaxClaims \in Nat
    /\ MaxWrites \in Nat /\ MaxCompletions \in Nat
    /\ NoRow \notin Claim \union DividendEpoch \union Nat
    /\ NoTweet \notin Tweets

IdleRequest == [pc |-> "idle"]

(* share is a holding with the total of its creator, read in one query.      *)
Request ==
  {IdleRequest}
  \union [pc : {"listEpoch"}, user : Users, todo : SUBSET Creators,
          shares : [Creators -> CreatorShare \union {NoRow}],
          listed : SUBSET Creators, asOf : Nat]
  \union [pc : {"listClaim"}, user : Users, todo : SUBSET Creators,
          shares : [Creators -> CreatorShare \union {NoRow}],
          listed : SUBSET Creators, asOf : Nat,
          creator : Creators, epoch : DividendEpoch]
  \union [pc : {"initiateEpoch"}, user : Users, creator : Creators, share : CreatorShare]
  \union [pc : {"initiateInsert"}, id : ClaimIds, row : Claim]
  \union [pc : {"completeLoad"}, id : ClaimIds, row : Claim]
  \union [pc : {"completeUpdate"}, id : ClaimIds, row : Claim, seen : Claim]

DividendsInit ==
    /\ holdings = [u \in Users |-> [c \in Creators |-> NoRow]]
    /\ totalShares = [c \in Creators |-> 0]
    /\ epochs = [c \in Creators |-> NoRow]
    /\ claims = [id \in ClaimIds |-> NoRow]
    /\ claimedAt = 0
    /\ request = [r \in Requests |-> IdleRequest]
    /\ version = 0
    /\ completions = [id \in ClaimIds |-> 0]
    /\ contended = {}

-----------------------------------------------------------------------------
(* From outside: a holding is recorded with the total, an epoch distributed. *)
(* Of the epochs of a creator the code reads only the latest.                *)
RecordShares(u, c, shares) ==
    LET held == IF holdings[u][c] = NoRow THEN 0 ELSE holdings[u][c]
    IN  /\ version < MaxWrites
        /\ totalShares[c] + shares <= MaxShares + held
        /\ holdings' = [holdings EXCEPT ![u][c] = shares]
        /\ totalShares' = [totalShares EXCEPT ![c] = @ + shares - held]
        /\ version' = version + 1
        /\ UNCHANGED <<epochs, claims, claimedAt, request, completions, contended>>

Distribute(c, fees) ==
    /\ version < MaxWrites
    /\ epochs' = [epochs EXCEPT ![c] =
                    [epochNumber |-> IF @ = NoRow THEN 1 ELSE @.epochNumber + 1,
                     totalFees |-> fees]]
    /\ version' = version + 1
    /\ UNCHANGED <<holdings, totalShares, claims, claimedAt, request, completions, contended>>

-----------------------------------------------------------------------------
Continue(r, next) == request' = [request EXCEPT ![r] = next]

Share(u, c) == [sharesHeld |-> holdings[u][c], total |-> totalShares[c]]

(* totalFees * sharesHeld / (totalShares || 1), rounded to the six decimals  *)
(* of the column.                                                            *)
ClaimableAmount(fees, share) ==
    LET total == IF share.total = 0 THEN 1 ELSE share.total
    IN  (2 * fees * share.sharesHeld + total) \div (2 * total)

IsClaimable(fees, share) == fees * share.sharesHeld > 0

(* The claim of a user on a creator that was made last.                      *)
ClaimsOf(u, c) == {id \in ClaimIds : /\ claims[id] # NoRow
                                     /\ claims[id].user = u
                                     /\ claims[id].creator = c}

(* Mistaken form: any claim will do, completed or not.                       *)
HasClaim(u, c) == ClaimsOf(u, c) # {}

HasClaimed(u, c) == ClaimsOf(u, c) # {} /\ claims[Max(ClaimsOf(u, c))].verified

(* getClaimableDividends reads the holdings, then for each of them the       *)
(* latest epoch and the latest claim.                                        *)
getClaimableDividends(r, u) ==
    LET held == {c \in Creators : holdings[u][c] # NoRow}
    IN  /\ request[r] = IdleRequest
        /\ Continue(r, IF held = {} THEN IdleRequest
                       ELSE [pc |-> "listEpoch", user |-> u, todo |-> held,
                             shares |-> [c \in Creators |-> IF c \in held THEN Share(u, c)
                                                            ELSE NoRow],
                             listed |-> {}, asOf |-> version])
        /\ UNCHANGED <<outside, claims, claimedAt, history>>

ListEpoch(r, c) ==
    LET q == request[r]
    IN  /\ q.pc = "listEpoch"
        /\ c \in q.todo
        /\ Continue(r, IF epochs[c] = NoRow
                       THEN [q EXCEPT !.todo = @ \ {c}]
                       ELSE [pc |-> "listClaim", user |-> q.user, todo |-> q.todo \ {c},
                             shares |-> q.shares, listed |-> q.listed, asOf |-> q.asOf,
                             creator |-> c, epoch |-> epochs[c]])
        /\ UNCHANGED <<outside, claims, claimedAt, history>>

ListClaim(r) ==
    LET q == request[r]
        claimable == /\ IsClaimable(q.epoch.totalFees, q.shares[q.creator])
                     /\ ~HasClaimed(q.user, q.creator)
    IN  /\ q.pc = "listClaim"
        /\ Continue(r, [pc |-> "listEpoch", user |-> q.user, todo |-> q.todo,
                        shares |-> q.shares, asOf |-> q.asOf,
                        listed |-> IF claimable THEN q.listed \union {q.creator}
                                   ELSE q.listed])
        /\ UNCHANGED <<outside, claims, claimedAt, history>>

AnswerClaimable(r) ==
    /\ request[r].pc = "listEpoch"
    /\ request[r].todo = {}
    /\ Continue(r, IdleRequest)
    /\ UNCHANGED <<outside, claims, claimedAt, history>>

-----------------------------------------------------------------------------
(* initiateClaim reads the holding, the latest epoch, and inserts a claim;   *)
(* it does not look for claims that are there.                               *)
initiateClaim(r, u, c) ==
    /\ request[r] = IdleRequest
    /\ holdings[u][c] # NoRow
    /\ Continue(r, [pc |-> "initiateEpoch", user |-> u, creator |-> c, share |-> Share(u, c)])
    /\ UNCHANGED <<outside, claims, claimedAt, history>>

InitiateEpoch(r) ==
    LET q == request[r]
        row == [user |-> q.user, creator |-> q.creator,
                amount |-> ClaimableAmount(epochs[q.creator].totalFees, q.share),
                epoch |-> epochs[q.creator].epochNumber,
                tweetId |-> NoTweet, verified |-> FALSE]
        claimable == /\ epochs[q.creator] # NoRow
                     /\ IsClaimable(epochs[q.creator].totalFees, q.share)
    IN  /\ q.pc = "initiateEpoch"
        /\ claimedAt < MaxClaims
        /\ IF claimable
           THEN /\ Continue(r, [pc |-> "initiateInsert", id |-> claimedAt + 1, row |-> row])
                /\ claimedAt' = claimedAt + 1
           ELSE /\ Continue(r, IdleRequest)
                /\ UNCHANGED claimedAt
        /\ UNCHANGED <<outside, claims, history>>

InitiateInsert(r) ==
    LET q == request[r]
    IN  /\ q.pc = "initiateInsert"
        /\ claims' = [claims EXCEPT ![q.id] = q.row]
        /\ version' = version + 1
        /\ Continue(r, IdleRequest)
        /\ UNCHANGED <<outside, claimedAt, completions, contended>>

-----------------------------------------------------------------------------
(* Mistaken form: it is not looked at whether the claim was completed.       *)
IsAClaim(id) == claims[id] # NoRow

IsOpenClaim(id) == claims[id] # NoRow /\ ~claims[id].verified

Completes(r, id) == request[r].pc \in {"completeLoad", "completeUpdate"} /\ request[r].id = id

IsTweetUrl(tweet) == tweet \in Tweets

(* completeClaim takes any tweet for the claim, as the service does not look *)
(* at its text, and saves the row: save reads it again and updates what      *)
(* differs.  A tweet of another claim breaks the unique constraint.          *)
completeClaim(r, id, tweet) ==
    /\ request[r] = IdleRequest
    /\ IsOpenClaim(id)
    /\ IsTweetUrl(tweet)
    /\ completions[id] < MaxCompletions
    /\ Continue(r, [pc |-> "completeLoad", id |-> id,
                    row |-> [claims[id] EXCEPT !.tweetId = tweet, !.verified = TRUE]])
    /\ contended' = IF \E other \in Requests : Completes(other, id)
                    THEN contended \union {id} ELSE contended
    /\ UNCHANGED <<outside, claims, claimedAt, version, completions>>

CompleteLoad(r) ==
    LET q == request[r]
    IN  /\ q.pc = "completeLoad"
        /\ Continue(r, [pc |-> "completeUpdate", id |-> q.id, row |-> q.row,
                        seen |-> claims[q.id]])
        /\ UNCHANGED <<outside, claims, claimedAt, history>>

IsFreeTweet(id, tweet) ==
    \A other \in ClaimIds \ {id} : claims[other] = NoRow \/ claims[other].tweetId # tweet

Column(current, seen, copy) == IF copy = seen THEN current ELSE copy

UpdatedClaim(current, seen, copy) ==
    [current EXCEPT !.tweetId = Column(@, seen.tweetId, copy.tweetId),
                    !.verified = Column(@, seen.verified, copy.verified)]

CompleteUpdate(r) ==
    LET q == request[r]
        row == UpdatedClaim(claims[q.id], q.seen, q.row)
    IN  /\ q.pc = "completeUpdate"
        /\ IF IsFreeTweet(q.id, row.tweetId)
           THEN /\ claims' = [claims EXCEPT ![q.id] = row]
                /\ completions' = [completions EXCEPT ![q.id] = @ + 1]
                /\ version' = version + 1
           ELSE UNCHANGED <<claims, completions, version>>
        /\ Continue(r, IdleRequest)
        /\ UNCHANGED <<outside, claimedAt, contended>>

(* The database fails, or the server stops, before the next command.         *)
Abort(r) ==
    /\ request[r] # IdleRequest
    /\ Continue(r, IdleRequest)
    /\ UNCHANGED <<outside, claims, claimedAt, history>>

DividendsNext ==
    \/ \E u \in Users, c \in Creators, shares \in 0 .. MaxShares : RecordShares(u, c, shares)
    \/ \E c \in Creators, fees \in 0 .. MaxFees : Distribute(c, fees)
    \/ \E r \in Requests :
         \/ \E u \in Users : getClaimableDividends(r, u)
         \/ \E c \in Creators : ListEpoch(r, c)
         \/ ListClaim(r)
         \/ AnswerClaimable(r)
         \/ \E u \in Users, c \in Creators : initiateClaim(r, u, c)
         \/ InitiateEpoch(r)
         \/ InitiateInsert(r)
         \/ \E id \in ClaimIds, tweet \in Tweets \union {NoTweet} : completeClaim(r, id, tweet)
         \/ CompleteLoad(r)
         \/ CompleteUpdate(r)
         \/ Abort(r)

DividendsSpec == DividendsInit /\ [][DividendsNext]_dividendsVars

-----------------------------------------------------------------------------
(* Types of the state.                                                       *)
DividendsTypeOK ==
    /\ holdings \in [Users -> [Creators -> Nat \union {NoRow}]]
    /\ totalShares \in [Creators -> Nat]
    /\ epochs \in [Creators -> DividendEpoch \union {NoRow}]
    /\ claims \in [ClaimIds -> Claim \union {NoRow}]
    /\ claimedAt \in 0 .. MaxClaims
    /\ request \in [Requests -> Request]
    /\ version \in Nat
    /\ completions \in [ClaimIds -> Nat]
    /\ contended \in SUBSET ClaimIds

IsVerified(id) == claims[id] # NoRow /\ claims[id].verified

Alone(id) == id \notin contended

(* What a claim was made for does not change while it is completed, however  *)
(* requests overlap.  Unless two requests complete it at once, it keeps its  *)
(* tweet once it is completed, and completeClaim answers with a success only *)
(* to the request that completes it: "Claim already completed".              *)
ClaimsAreKept ==
    [][\A id \in ClaimIds : claims[id] # NoRow =>
         /\ claims'[id] = [claims[id] EXCEPT !.tweetId = claims'[id].tweetId,
                                             !.verified = claims'[id].verified]
         /\ IsVerified(id) => claims'[id].verified
         /\ Alone(id)' =>
              /\ IsVerified(id) => claims'[id] = claims[id]
              /\ completions'[id] # completions[id] =>
                   /\ ~IsVerified(id)
                   /\ claims'[id].verified]_dividendsVars

HasReadAll(q) == q.pc = "listEpoch" /\ q.todo = {} /\ q.asOf = version

(* Where no claim of the user was completed, getClaimableDividends lists the *)
(* creators whose dividends initiateClaim would let the user claim, and only *)
(* those, although it reads them one after the other - if the tables are     *)
(* still as they were at the first reading.                                  *)
UnclaimedIsListed ==
    \A r \in Requests : HasReadAll(request[r]) =>
        LET q == request[r]
        IN  \A c \in Creators :
              (\A id \in ClaimsOf(q.user, c) : ~IsVerified(id)) =>
                (c \in q.listed <=>
                   /\ holdings[q.user][c] # NoRow
                   /\ epochs[c] # NoRow
                   /\ IsClaimable(epochs[c].totalFees, Share(q.user, c)))

(* "If already claimed this epoch, skip" (dividends.service.ts): dividends   *)
(* of an epoch of which no claim was completed are listed.                   *)
LaterEpochsAreListed ==
    \A r \in Requests : HasReadAll(request[r]) =>
        LET q == request[r]
        IN  \A c \in Creators :
              (/\ holdings[q.user][c] # NoRow
               /\ epochs[c] # NoRow
               /\ IsClaimable(epochs[c].totalFees, Share(q.user, c))
               /\ \A id \in ClaimsOf(q.user, c) :
                     IsVerified(id) => claims[id].epoch # epochs[c].epochNumber)
              => c \in q.listed
=============================================================================
