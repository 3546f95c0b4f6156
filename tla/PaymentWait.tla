---------------------------- MODULE PaymentWait ----------------------------
(***************************************************************************)
(* payment_wait of src/nano/node/rpc.cpp and its payment_observer.  A      *)
(* payment_wait request runs on an RPC worker thread; its observer is      *)
(* completed by whichever of three threads gets there first: the handler   *)
(* itself (observer_action right after registration), the alarm thread     *)
(* (the timeout) or a block-observer call (a block applied for the         *)
(* account).  Each thread's steps are separate actions; a step is what the *)
(* code does between two points at which another thread can run (a mutex  *)
(* release, a flag test_and_set).                                          *)
(*                                                                         *)
(* The ledger is a collaborator: an account's balance changes by one unit  *)
(* per applied block (Receive/Spend), each followed by a block-observer    *)
(* call of observer_action for the account.                                *)
(***************************************************************************)
EXTENDS Naturals

CONSTANTS
    Accounts,      \* accounts a wait may watch
    Waits,         \* payment_wait requests (one worker thread each)
    Amounts,       \* amounts a payment_wait may ask for
    MaxBalance,    \* bound on an account's balance in the ledger
    MaxBlocks,     \* bound on the block-observer calls (blocks applied)
    None           \* no observer

ASSUME Amounts \subseteq 1..MaxBalance
ASSUME None \notin Accounts \cup Waits

VARIABLES
    balance,    \* ledger: node.balance (account)
    observers,  \* rpc.payment_observers: account -> observer (a wait)
    wacct,      \* payment_observer::account of each wait
    wamount,    \* payment_observer::amount of each wait
    wpc,        \* program counter of each payment_wait worker thread
    wobs,       \* observer the worker's observer_action looked up
    alarm,      \* state of each observer's timeout alarm
    completed,  \* payment_observer::completed flag
    status,     \* the status the wait responded with
    responses,  \* number of responses written to the wait's connection
    calls,      \* block-observer calls: observer_action (account)
    reached     \* history: the wait's balance reached its amount while it
                \* waited (no code state; it is the refinement's witness)

waitVars == <<observers, wacct, wamount, wpc, wobs, alarm, completed,
              status, responses>>
vars == <<balance, waitVars, calls, reached>>

Calls == 1..MaxBlocks
WaitPC == {"idle", "insert", "lookup", "observe", "complete", "erase", "done"}
AlarmState == {"unarmed", "armed", "erase", "fired"}
CallPC == {"unused", "lookup", "observe", "complete", "erase", "done"}
Status == {"none", "nothing", "success", "error"}

TypeOK ==
    /\ balance \in [Accounts -> 0..MaxBalance]
    /\ observers \in [Accounts -> Waits \cup {None}]
    /\ wacct \in [Waits -> Accounts \cup {None}]
    /\ wamount \in [Waits -> Amounts \cup {0}]
    /\ wpc \in [Waits -> WaitPC]
    /\ wobs \in [Waits -> Waits \cup {None}]
    /\ alarm \in [Waits -> AlarmState]
    /\ completed \in [Waits -> BOOLEAN]
    /\ status \in [Waits -> Status]
    /\ responses \in [Waits -> 0..2]
    /\ calls \in [Calls -> [pc : CallPC, acct : Accounts, obs : Waits \cup {None}]]
    /\ reached \in [Waits -> BOOLEAN]

Init ==
    /\ balance = [a \in Accounts |-> 0]
    /\ observers = [a \in Accounts |-> None]
    /\ wacct = [r \in Waits |-> None]
    /\ wamount = [r \in Waits |-> 0]
    /\ wpc = [r \in Waits |-> "idle"]
    /\ wobs = [r \in Waits |-> None]
    /\ alarm = [r \in Waits |-> "unarmed"]
    /\ completed = [r \in Waits |-> FALSE]
    /\ status = [r \in Waits |-> "none"]
    /\ responses = [r \in Waits |-> 0]
    /\ calls = [i \in Calls |-> [pc |-> "unused", acct |-> CHOOSE a \in Accounts : TRUE,
                                 obs |-> None]]
    /\ reached = [r \in Waits |-> FALSE]

-----------------------------------------------------------------------------
(* The connection of a request: rpc_connection::write_result.  The code    *)
(* sets `responded` and asserts it was clear; the model counts writes.     *)
Respond(r, s) ==
    /\ responses' = [responses EXCEPT ![r] = @ + 1]
    /\ status' = [status EXCEPT ![r] = s]

PaidOffByOne(o) == balance[wacct[o]] + 1 >= wamount[o]

(* payment_observer::observe: the balance has reached the amount.          *)
Paid(o) == balance[wacct[o]] >= wamount[o]

(* payment_observer::complete begins with completed.test_and_set (): the  *)
(* flag's old value, which tells a second caller to do nothing.            *)
AlreadyCompletedNever(o) == FALSE

AlreadyCompleted(o) == completed[o]

(* The rest of complete's first half, for the first caller: set the flag   *)
(* and write the response; the caller then goes on to erase the map entry. *)
CompleteRespond(o, s) ==
    /\ completed' = [completed EXCEPT ![o] = TRUE]
    /\ Respond(o, s)

(* The second half of complete: under rpc.mutex, erase the entry of the    *)
(* observer's account, whichever observer it holds now.                    *)
CompleteErase(o) ==
    observers' = [observers EXCEPT ![wacct[o]] = None]

(* rpc::observer_action: look the account up under rpc.mutex.              *)
LookupObserver(a) == observers[a]

-----------------------------------------------------------------------------
(* payment_wait: decode the request, make the observer and start() it:     *)
(* the alarm is armed before the observer is put in the map.  A client     *)
(* waits on an account again only after its earlier wait has answered.    *)
StartAlarmMissing(r) == alarm' = alarm

StartAlarm(r) == alarm' = [alarm EXCEPT ![r] = "armed"]

(* A wait is waiting from the moment its observer is made until a         *)
(* response is written to its connection.                                  *)
Waiting(w) == wpc[w] # "idle" /\ responses[w] = 0

payment_wait(r) ==
    /\ wpc[r] = "idle"
    /\ \E a \in Accounts, amt \in Amounts :
        /\ \A w \in Waits : wacct[w] = a => responses[w] > 0
        /\ wacct' = [wacct EXCEPT ![r] = a]
        /\ wamount' = [wamount EXCEPT ![r] = amt]
        /\ reached' = [reached EXCEPT ![r] = balance[a] >= amt]
    /\ StartAlarm(r)
    /\ wpc' = [wpc EXCEPT ![r] = "insert"]
    /\ UNCHANGED <<balance, observers, wobs, completed, status,
                   responses, calls>>

(* payment_wait with a bad account, amount or timeout: an error response.  *)
payment_wait_rejected(r) ==
    /\ wpc[r] = "idle"
    /\ Respond(r, "error")
    /\ wpc' = [wpc EXCEPT ![r] = "done"]
    /\ UNCHANGED <<balance, observers, wacct, wamount, wobs, alarm,
                   completed, calls, reached>>

(* Under rpc.mutex: rpc.payment_observers[account] = observer.             *)
payment_wait_insert(r) ==
    /\ wpc[r] = "insert"
    /\ observers' = [observers EXCEPT ![wacct[r]] = r]
    /\ wpc' = [wpc EXCEPT ![r] = "lookup"]
    /\ UNCHANGED <<balance, wacct, wamount, wobs, alarm, completed,
                   status, responses, calls, reached>>

(* rpc.observer_action (account), first part: the lookup.                  *)
payment_wait_lookup(r) ==
    /\ wpc[r] = "lookup"
    /\ wobs' = [wobs EXCEPT ![r] = LookupObserver(wacct[r])]
    /\ wpc' = [wpc EXCEPT ![r] = "observe"]
    /\ UNCHANGED <<balance, observers, wacct, wamount, alarm,
                   completed, status, responses, calls, reached>>

(* observer_action, second part, outside the mutex: observe() on what was  *)
(* looked up reads the balance (node.balance, a read transaction of its   *)
(* own); a block can be applied before complete (success) runs.           *)
payment_wait_observe(r) ==
    /\ wpc[r] = "observe"
    /\ wpc' = [wpc EXCEPT ![r] = IF wobs[r] # None /\ Paid(wobs[r])
                                 THEN "complete" ELSE "done"]
    /\ UNCHANGED <<balance, observers, wacct, wamount, wobs, alarm,
                   completed, status, responses, calls, reached>>

(* complete (success): the flag's test_and_set, and the response if it    *)
(* was clear.                                                              *)
payment_wait_complete(r) ==
    /\ wpc[r] = "complete"
    /\ IF ~AlreadyCompleted(wobs[r])
       THEN /\ CompleteRespond(wobs[r], "success")
            /\ wpc' = [wpc EXCEPT ![r] = "erase"]
       ELSE /\ wpc' = [wpc EXCEPT ![r] = "done"]
            /\ UNCHANGED <<completed, status, responses>>
    /\ UNCHANGED <<balance, observers, wacct, wamount, wobs, alarm,
                   calls, reached>>

payment_wait_erase(r) ==
    /\ wpc[r] = "erase"
    /\ CompleteErase(wobs[r])
    /\ wpc' = [wpc EXCEPT ![r] = "done"]
    /\ UNCHANGED <<balance, wacct, wamount, wobs, alarm, completed,
                   status, responses, calls, reached>>

(* The alarm of payment_observer::start fires: complete (nothing).         *)
alarm_fire(r) ==
    /\ alarm[r] = "armed"
    /\ IF ~AlreadyCompleted(r)
       THEN /\ CompleteRespond(r, "nothing")
            /\ alarm' = [alarm EXCEPT ![r] = "erase"]
       ELSE /\ alarm' = [alarm EXCEPT ![r] = "fired"]
            /\ UNCHANGED <<completed, status, responses>>
    /\ UNCHANGED <<balance, observers, wacct, wamount, wpc, wobs,
                   calls, reached>>

alarm_erase(r) ==
    /\ alarm[r] = "erase"
    /\ CompleteErase(r)
    /\ alarm' = [alarm EXCEPT ![r] = "fired"]
    /\ UNCHANGED <<balance, wacct, wamount, wpc, wobs, completed,
                   status, responses, calls, reached>>

-----------------------------------------------------------------------------
(* The ledger applies a block for an account (a receive paying it, or a    *)
(* send from it); the block observer of rpc::add_block_observer then calls *)
(* observer_action (account) on the thread that applied it.                *)
NewCall(a) ==
    \E i \in Calls :
        /\ calls[i].pc = "unused"
        /\ \A j \in Calls : j < i => calls[j].pc # "unused"
        /\ calls' = [calls EXCEPT ![i] = [pc |-> "lookup", acct |-> a, obs |-> None]]

Receive(a) ==
    /\ balance[a] < MaxBalance
    /\ balance' = [balance EXCEPT ![a] = @ + 1]
    /\ NewCall(a)
    /\ reached' = [w \in Waits |-> reached[w] \/
                     (Waiting(w) /\ wacct[w] = a /\ balance'[a] >= wamount[w])]
    /\ UNCHANGED <<waitVars>>

Spend(a) ==
    /\ balance[a] > 0
    /\ balance' = [balance EXCEPT ![a] = @ - 1]
    /\ NewCall(a)
    /\ UNCHANGED <<waitVars, reached>>

call_lookup(i) ==
    /\ calls[i].pc = "lookup"
    /\ calls' = [calls EXCEPT ![i].obs = LookupObserver(calls[i].acct),
                              ![i].pc = "observe"]
    /\ UNCHANGED <<balance, waitVars, reached>>

call_observe(i) ==
    /\ calls[i].pc = "observe"
    /\ LET o == calls[i].obs IN
       calls' = [calls EXCEPT ![i].pc = IF o # None /\ Paid(o) THEN "complete" ELSE "done"]
    /\ UNCHANGED <<balance, waitVars, reached>>

call_complete(i) ==
    /\ calls[i].pc = "complete"
    /\ IF ~AlreadyCompleted(calls[i].obs)
       THEN /\ CompleteRespond(calls[i].obs, "success")
            /\ calls' = [calls EXCEPT ![i].pc = "erase"]
       ELSE /\ calls' = [calls EXCEPT ![i].pc = "done"]
            /\ UNCHANGED <<completed, status, responses>>
    /\ UNCHANGED <<balance, observers, wacct, wamount, wpc, wobs,
                   alarm, reached>>

call_erase(i) ==
    /\ calls[i].pc = "erase"
    /\ CompleteErase(calls[i].obs)
    /\ calls' = [calls EXCEPT ![i].pc = "done"]
    /\ UNCHANGED <<balance, wacct, wamount, wpc, wobs, alarm,
                   completed, status, responses, reached>>

-----------------------------------------------------------------------------
WaitThread(r) ==
    \/ payment_wait_insert(r) \/ payment_wait_lookup(r)
    \/ payment_wait_observe(r) \/ payment_wait_complete(r)
    \/ payment_wait_erase(r)

CallThread(i) == call_lookup(i) \/ call_observe(i) \/ call_complete(i) \/ call_erase(i)

AlarmThread(r) == alarm_fire(r) \/ alarm_erase(r)

Next ==
    \/ \E r \in Waits : payment_wait(r) \/ payment_wait_rejected(r)
                        \/ WaitThread(r) \/ AlarmThread(r)
    \/ \E i \in Calls : CallThread(i)
    \/ \E a \in Accounts : Receive(a) \/ Spend(a)

(* Worker, alarm and block-processing threads run what they have started; *)
(* clients and the ledger need not do anything.                           *)
Fairness ==
    /\ \A r \in Waits : WF_vars(WaitThread(r)) /\ WF_vars(AlarmThread(r))
    /\ \A i \in Calls : WF_vars(CallThread(i))

Spec == Init /\ [][Next]_vars /\ Fairness

-----------------------------------------------------------------------------
(* A request's connection is written at most once: write_result asserts    *)
(* that `responded` was clear.  The handler, the alarm and block-observer  *)
(* calls all race to complete the same observer.                           *)
RespondOnce == \A r \in Waits : responses[r] <= 1

(* payment_wait implements the client's view of it, the specification    *)
(* Payment: a request is answered once, "success" only if its account's   *)
(* balance reached the amount at some moment while it waited (observe()   *)
(* reads the balance before complete() answers, and a block can land in  *)
(* between), and always eventually.  The history variable reached is the *)
(* abstract one.                                                           *)
Abstract == INSTANCE Payment WITH
    acct <- wacct,
    amount <- wamount,
    phase <- [r \in Waits |-> CASE responses[r] > 0 -> "answered"
                                [] wpc[r] # "idle" -> "waiting"
                                [] OTHER           -> "idle"],
    answer <- status

PaymentRefined == Abstract!Spec

(* Every payment_wait that got past decoding its request is eventually    *)
(* answered, "success" or "nothing" (the alarm is armed in start()).       *)
WaitAnswered == \A r \in Waits : wpc[r] = "insert" ~> responses[r] > 0

(* While a wait is registered and not completed, the map entry of its      *)
(* account is its observer, so every block observer_action for the account *)
(* observes it (otherwise a payment reaches it only through the timeout).  *)
PendingWaitReachable ==
    \A r \in Waits :
        (wpc[r] \in {"lookup", "observe", "erase", "done"}
            /\ wacct[r] # None /\ ~completed[r])
            => observers[wacct[r]] = r

(* The map never keeps an observer that has completed, except while the    *)
(* thread that completed it is about to erase it: complete() asserts the   *)
(* entry it erases is there.                                               *)
Erasing(a) ==
    \/ \E w \in Waits : wpc[w] = "erase" /\ wacct[wobs[w]] = a
    \/ \E w \in Waits : alarm[w] = "erase" /\ wacct[w] = a
    \/ \E i \in Calls : calls[i].pc = "erase" /\ wacct[calls[i].obs] = a

NoStaleObserver ==
    \A a \in Accounts :
        (observers[a] # None /\ completed[observers[a]]) => Erasing(a)
=============================================================================
