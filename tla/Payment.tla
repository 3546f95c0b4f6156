------------------------------ MODULE Payment ------------------------------
(***************************************************************************)
(* What the RPC action payment_wait promises a client, with no observers,  *)
(* alarms, mutex or map: a request either is refused at once ("error"),   *)
(* or waits on an account and amount; a waiting request is answered once,  *)
(* "success" only if the account's balance reached the amount at some      *)
(* moment while it waited, "nothing" at any time (the timeout); and it is *)
(* answered eventually.  Balances change by applied blocks, one unit at a *)
(* time.                                                                   *)
(***************************************************************************)
EXTENDS Naturals

CONSTANTS Accounts, Waits, Amounts, MaxBalance, None

VARIABLES
    balance,   \* the ledger balance of each account
    acct,      \* the account a request waits on
    amount,    \* the amount it waits for
    phase,     \* "idle", "waiting" or "answered"
    answer,    \* "none", "error", "success" or "nothing"
    reached    \* the balance reached the amount while the request waited

vars == <<balance, acct, amount, phase, answer, reached>>

Init ==
    /\ balance = [a \in Accounts |-> 0]
    /\ acct = [r \in Waits |-> None]
    /\ amount = [r \in Waits |-> 0]
    /\ phase = [r \in Waits |-> "idle"]
    /\ answer = [r \in Waits |-> "none"]
    /\ reached = [r \in Waits |-> FALSE]

Refuse(r) ==
    /\ phase[r] = "idle"
    /\ phase' = [phase EXCEPT ![r] = "answered"]
    /\ answer' = [answer EXCEPT ![r] = "error"]
    /\ UNCHANGED <<balance, acct, amount, reached>>

Wait(r) ==
    /\ phase[r] = "idle"
    /\ \E a \in Accounts, m \in Amounts :
         /\ acct' = [acct EXCEPT ![r] = a]
         /\ amount' = [amount EXCEPT ![r] = m]
         /\ reached' = [reached EXCEPT ![r] = balance[a] >= m]
    /\ phase' = [phase EXCEPT ![r] = "waiting"]
    /\ UNCHANGED <<balance, answer>>

Answer(r, s) ==
    /\ phase[r] = "waiting"
    /\ phase' = [phase EXCEPT ![r] = "answered"]
    /\ answer' = [answer EXCEPT ![r] = s]
    /\ UNCHANGED <<balance, acct, amount, reached>>

Succeed(r) ==
    /\ phase[r] = "waiting"
    /\ reached[r]
    /\ Answer(r, "success")

TimeOut(r) == Answer(r, "nothing")

Credit(a) ==
    /\ balance[a] < MaxBalance
    /\ balance' = [balance EXCEPT ![a] = @ + 1]
    /\ reached' = [r \in Waits |-> reached[r] \/
                     (phase[r] = "waiting" /\ acct[r] = a /\ balance'[a] >= amount[r])]
    /\ UNCHANGED <<acct, amount, phase, answer>>

Debit(a) ==
    /\ balance[a] > 0
    /\ balance' = [balance EXCEPT ![a] = @ - 1]
    /\ UNCHANGED <<acct, amount, phase, answer, reached>>

Next ==
    \/ \E r \in Waits : Refuse(r) \/ Wait(r) \/ Succeed(r) \/ TimeOut(r)
    \/ \E a \in Accounts : Credit(a) \/ Debit(a)

(* A waiting request does not wait forever: the timeout answers it.        *)
Spec == Init /\ [][Next]_vars /\ \A r \in Waits : WF_vars(Succeed(r) \/ TimeOut(r))
=============================================================================
