--------------------------- MODULE EventListener ----------------------------
(***************************************************************************)
(* The start of a server of the backend, and its listeners to the events   *)
(* of the contracts: main.ts, contracts.service.ts,                        *)
(* event-listener.service.ts.                                              *)
(*                                                                         *)
(* The hooks of the two services run at the same time, each waiting for    *)
(* answers of the JSON-RPC provider; requests are served once both have    *)
(* ended.  A promise that is rejected with nobody to handle it ends the    *)
(* process, which its supervisor starts again.                             *)
(***************************************************************************)
EXTENDS Naturals, FiniteSets

CONSTANTS
    HasWallet,     \* a private key is configured
    Declared,      \* the events that the ABI of each contract declares
    Names,         \* names of the events that come in
    MAX_RETRIES,
    Tasks,         \* ids of the events that come in
    MaxTime        \* bound: milliseconds

VARIABLES
    process,   \* whether the process runs, and serves requests
    contracts, \* what ContractsService waits for, or how its hook ended
    listeners, \* what EventListenerService waits for, or how its hook ended
    rejected,  \* a promise was rejected that nobody handles
    subscribed, \* the contracts whose events are listened to
    records,   \* processedEvents, by key
    task,      \* the call of processEvent for each event
    now

listenerVars == <<process, contracts, listeners, rejected, subscribed, records, task, now>>
startup == <<process, contracts, listeners, rejected, subscribed>>

ASSUME EventListenerAssumption ==
    /\ HasWallet \in BOOLEAN
    /\ MAX_RETRIES \in Nat
    /\ MaxTime \in Nat

(* What is listened to: of the factory, of the markets, of the fee collector *)
(* and of the contract of one creator's shares.                              *)
FactoryListened == {"SharesCreated", "VolumeUpdated", "SharesUnlocked"}

MarketListened == {"MarketCreated", "BetPlaced", "MarketResolved", "WinningsClaimed"}

CollectorListened == {"EpochFinalized", "DividendsClaimed"}

ShareListened == {"SharesPurchased", "SharesSold", "DividendsClaimed", "FeesWithdrawn"}

Listened ==
    [factory |-> FactoryListened, market |-> MarketListened,
     collector |-> CollectorListened, share |-> ShareListened]

(* What the ABIs of the deployed contracts declare.                          *)
CreatorShareFactoryEvents ==
    {"MarketContractAdded", "MarketContractRemoved", "OwnershipTransferred", "SharesCreated",
     "SharesUnlocked", "VolumeUpdated"}

OpinionMarketEvents ==
    {"BetPlaced", "FeesCollected", "MarketCreated", "MarketPaused", "MarketResolved",
     "MarketUnpaused", "OwnershipTransferred", "WinningsClaimed"}

FeeCollectorEvents ==
    {"DepositorRemoved", "DepositorWhitelisted", "FeesDeposited", "FeesWithdrawn",
     "OwnershipTransferred"}

CreatorShareEvents ==
    {"Approval", "DividendsClaimed", "EpochFinalized", "OwnershipTransferred", "Paused",
     "PlatformFeesWithdrawn", "SharesPurchased", "SharesSold", "Transfer", "Unpaused"}

DeclaredByABIs ==
    [factory |-> CreatorShareFactoryEvents, market |-> OpinionMarketEvents,
     collector |-> FeeCollectorEvents, share |-> CreatorShareEvents]

(* The contracts of ContractsService; that of a creator's shares comes later. *)
Deployed == {"factory", "market", "collector"}

Keys == Names \X (0 .. MaxTime)

NoRecord == [processed |-> FALSE, retries |-> 0]

Waiting == [pc |-> "waiting"]

Task ==
    {Waiting}
    \union [pc : {"running", "sleeping", "processed", "failed", "lost"},
            key : Keys, attempt : 0 .. MAX_RETRIES]

(* A process that is starting.                                               *)
Starting ==
    /\ process' = "starting"
    /\ contracts' = "getNetwork"
    /\ listeners' = "getBlockNumber"
    /\ rejected' = FALSE
    /\ subscribed' = {}

ListenerInit ==
    /\ process = "starting"
    /\ contracts = "getNetwork"
    /\ listeners = "getBlockNumber"
    /\ rejected = FALSE
    /\ subscribed = {}
    /\ records = [key \in {} |-> NoRecord]
    /\ task = [t \in Tasks |-> Waiting]
    /\ now = 0

-----------------------------------------------------------------------------
(* The process goes on from one callback to the next while it runs and no    *)
(* rejection is open.                                                        *)
IsUp == process # "down" /\ ~rejected

AfterBlockNumber == IF HasWallet THEN "getBalance" ELSE "ready"

Connecting == contracts \in {"getNetwork", "getBlockNumber", "getBalance"}

(* testConnection waits for the network, the block number and the balance;   *)
(* then the contracts are created.                                           *)
ContractsAnswer ==
    /\ IsUp
    /\ Connecting
    /\ contracts' = CASE contracts = "getNetwork" -> "getBlockNumber"
                      [] contracts = "getBlockNumber" -> AfterBlockNumber
                      [] contracts = "getBalance" -> "ready"
    /\ UNCHANGED <<process, listeners, rejected, subscribed, records, task, now>>

(* Mistaken form: the hook logs its error and ends, as that of the listeners *)
(* does.                                                                     *)
ContractsErrorLogged ==
    /\ contracts' = "failed"
    /\ UNCHANGED rejected

(* An error fails the hook and with it listen, which bootstrap lets go.      *)
ContractsError ==
    /\ contracts' = "failed"
    /\ rejected' = TRUE

ContractsFail ==
    /\ IsUp
    /\ Connecting
    /\ ContractsError
    /\ UNCHANGED <<process, listeners, subscribed, records, task, now>>

(* A contract rejects a listener to an event that its ABI does not declare,  *)
(* and nobody awaits that promise.                                           *)
Subscribe(some) ==
    /\ subscribed' = subscribed \union some
    /\ rejected' = \E c \in some : ~(Listened[c] \subseteq Declared[c])

(* The listeners wait for the block number alone.  Without contracts their   *)
(* registration throws, which is logged.                                     *)
ListenersAnswer ==
    /\ IsUp
    /\ listeners = "getBlockNumber"
    /\ IF contracts = "ready"
       THEN /\ listeners' = "listening"
            /\ Subscribe(Deployed)
       ELSE /\ listeners' = "failed"
            /\ UNCHANGED <<rejected, subscribed>>
    /\ UNCHANGED <<process, contracts, records, task, now>>

ListenersFail ==
    /\ IsUp
    /\ listeners = "getBlockNumber"
    /\ listeners' = "failed"
    /\ UNCHANGED <<process, contracts, rejected, subscribed, records, task, now>>

(* However a hook ended, listen goes on unless a rejection is open.          *)
HooksEnded == listeners # "getBlockNumber" /\ ~Connecting

Listen ==
    /\ IsUp
    /\ process = "starting"
    /\ HooksEnded
    /\ process' = "serving"
    /\ UNCHANGED <<contracts, listeners, rejected, subscribed, records, task, now>>

(* What is in memory is lost.                                                *)
Lost == [t \in Tasks |-> IF task[t].pc \in {"running", "sleeping"}
                         THEN [task[t] EXCEPT !.pc = "lost"] ELSE task[t]]

Down ==
    /\ process # "down"
    /\ process' = "down"
    /\ records' = [key \in {} |-> NoRecord]
    /\ task' = Lost
    /\ UNCHANGED <<contracts, listeners, rejected, subscribed, now>>

Crash == rejected /\ Down

Stop == Down

Restart ==
    /\ process = "down"
    /\ Starting
    /\ UNCHANGED <<records, task, now>>

-----------------------------------------------------------------------------
(* The listeners of one creator's shares are added while the server runs.    *)
listenToSpecificShareEvents ==
    /\ IsUp
    /\ process = "serving"
    /\ Subscribe({"share"})
    /\ UNCHANGED <<process, contracts, listeners, records, task, now>>

(* stopListeners removes those of the deployed contracts, and leaves events  *)
(* that are in process, and the listeners of creators' shares.               *)
stopListeners ==
    /\ IsUp
    /\ listeners = "listening"
    /\ listeners' = "stopped"
    /\ subscribed' = subscribed \ Deployed
    /\ UNCHANGED <<process, contracts, rejected, records, task, now>>

(* processEvent records the event under its name and the time, which is all  *)
(* the key there is, and calls the processor up to 1 + MAX_RETRIES times.    *)
Put(key, record) ==
    records' = [k \in DOMAIN records \union {key} |-> IF k = key THEN record ELSE records[k]]

EventKey(name) == <<name, now>>

processEvent(t, name) ==
    /\ IsUp
    /\ process = "serving"
    /\ \E c \in subscribed : name \in Listened[c]
    /\ task[t] = Waiting
    /\ task' = [task EXCEPT ![t] = [pc |-> "running", key |-> EventKey(name), attempt |-> 0]]
    /\ Put(EventKey(name), NoRecord)
    /\ UNCHANGED <<startup, now>>

(* The record is changed if it is still there.                               *)
Note(key, record) == IF key \in DOMAIN records THEN Put(key, record) ELSE UNCHANGED records

Succeed(t) ==
    LET key == task[t].key
    IN  /\ IsUp
        /\ task[t].pc = "running"
        /\ Note(key, [records[key] EXCEPT !.processed = TRUE])
        /\ task' = [task EXCEPT ![t].pc = "processed"]
        /\ UNCHANGED <<startup, now>>

CanRetry(attempt) == attempt < MAX_RETRIES

(* The processor throws: a listener of the internal event may.               *)
Throw(t) ==
    LET key == task[t].key
        attempt == task[t].attempt
    IN  /\ IsUp
        /\ task[t].pc = "running"
        /\ Note(key, [records[key] EXCEPT !.retries = attempt + 1])
        /\ task' = [task EXCEPT ![t].pc = IF CanRetry(attempt) THEN "sleeping" ELSE "failed"]
        /\ UNCHANGED <<startup, now>>

(* Mistaken form: the attempts are not counted.                              *)
SameAttempt(attempt) == attempt

NextAttempt(attempt) == attempt + 1

(* The loop goes on after its delay.                                         *)
Wake(t) ==
    /\ IsUp
    /\ task[t].pc = "sleeping"
    /\ task' = [task EXCEPT ![t].pc = "running",
                            ![t].attempt = NextAttempt(@)]
    /\ UNCHANGED <<startup, records, now>>

(* Mistaken form: records of events in process are cleared too.              *)
IsPast(key, cutoff) == key[2] < cutoff

IsOld(key, cutoff) == key[2] < cutoff /\ records[key].processed

clearOldEvents(cutoff) ==
    /\ IsUp
    /\ records' = [key \in {k \in DOMAIN records : ~IsOld(k, cutoff)} |-> records[key]]
    /\ UNCHANGED <<startup, task, now>>

Tick ==
    /\ now < MaxTime
    /\ now' = now + 1
    /\ UNCHANGED <<startup, records, task>>

ListenerNext ==
    \/ ContractsAnswer
    \/ ContractsFail
    \/ ListenersAnswer
    \/ ListenersFail
    \/ Listen
    \/ Crash
    \/ Stop
    \/ Restart
    \/ \E t \in Tasks :
         \/ \E name \in Names : processEvent(t, name)
         \/ Succeed(t)
         \/ Throw(t)
         \/ Wake(t)
    \/ listenToSpecificShareEvents
    \/ stopListeners
    \/ \E cutoff \in 0 .. now : clearOldEvents(cutoff)
    \/ Tick

(* The provider answers or its request times out, timers expire, processors  *)
(* return or throw, a rejection ends the process, and the process is started *)
(* again; none of these is promised of anything else.                        *)
Fairness ==
    /\ WF_listenerVars(ContractsAnswer \/ ContractsFail)
    /\ WF_listenerVars(ListenersAnswer \/ ListenersFail)
    /\ WF_listenerVars(Listen)
    /\ WF_listenerVars(Crash)
    /\ WF_listenerVars(Restart)
    /\ \A t \in Tasks : WF_listenerVars(Succeed(t) \/ Throw(t)) /\ WF_listenerVars(Wake(t))

ListenerSpec == ListenerInit /\ [][ListenerNext]_listenerVars /\ Fairness

-----------------------------------------------------------------------------
(* getStatistics.                                                            *)
TotalEvents == Cardinality(DOMAIN records)

ProcessedEvents == Cardinality({key \in DOMAIN records : records[key].processed})

IsFailed(record) == ~record.processed /\ record.retries >= MAX_RETRIES

FailedEvents == Cardinality({key \in DOMAIN records : IsFailed(records[key])})

-----------------------------------------------------------------------------
(* Types of the state.                                                       *)
ListenerTypeOK ==
    /\ process \in {"starting", "serving", "down"}
    /\ contracts \in {"getNetwork", "getBlockNumber", "getBalance", "ready", "failed"}
    /\ listeners \in {"getBlockNumber", "listening", "stopped", "failed"}
    /\ rejected \in BOOLEAN
    /\ subscribed \subseteq DOMAIN Listened
    /\ DOMAIN records \subseteq Keys
    /\ \A key \in DOMAIN records :
         records[key] \in [processed : BOOLEAN, retries : 0 .. MAX_RETRIES + 1]
    /\ task \in [Tasks -> Task]
    /\ now \in 0 .. MaxTime

With(pcs) == {t \in Tasks : task[t].pc \in pcs}

IsAlone(t) == \A other \in Tasks \ {t} : task[other] = Waiting \/ task[other].key # task[t].key

(* The record of an event that has the key for itself stays until the event  *)
(* is processed and says what became of it, although calls of processEvent   *)
(* run between each other and old records are cleared at any time.  The      *)
(* statistics of the records, which events of one name and millisecond share, *)
(* count no event that did not come in, as processed none that was not, and  *)
(* as failed none whose retries are not used up but for the last.            *)
RecordsFollowEvents ==
    /\ \A t \in With({"running", "sleeping"}) :
         IsAlone(t) =>
             /\ task[t].key \in DOMAIN records
             /\ ~records[task[t].key].processed
             /\ records[task[t].key].retries =
                  IF task[t].pc = "running" THEN task[t].attempt ELSE task[t].attempt + 1
    /\ TotalEvents <= Cardinality(With({"running", "sleeping", "processed", "failed"}))
    /\ ProcessedEvents <= Cardinality(With({"processed"}))
    /\ FailedEvents <=
         Cardinality({t \in With({"running", "sleeping", "failed"}) :
                        task[t].attempt + 1 >= MAX_RETRIES})

(* The two hooks wait for the provider side by side, and one keeps its       *)
(* errors to itself: still, no process serves requests or is subscribed to   *)
(* anything without its contracts, and one that listens has all three of     *)
(* them, whichever hook was first, after any number of failed starts.        *)
ServesWithContracts ==
    /\ process = "serving" => contracts = "ready"
    /\ (process # "down" /\ subscribed # {}) => contracts = "ready"
    /\ listeners = "listening" => Deployed \subseteq subscribed

(* Every event that comes in is processed, or given up after its retries, or *)
(* lost with the process.                                                    *)
EventsEnd ==
    \A t \in Tasks : (task[t].pc = "running") ~> (task[t].pc \in {"processed", "failed", "lost"})

(* "Auto-start listeners on module initialization"                           *)
(* (event-listener.service.ts): some process gets to listen and serve.       *)
ListenersStart == []<>(process = "serving") => <>(process = "serving" /\ listeners = "listening")
=============================================================================
