------------------------------ MODULE Payments ------------------------------
(***************************************************************************)
(* POST /v1/payments: each request is one transaction of a session of its  *)
(* own, on the merchant's row of merchant_limits and on the wallet's, and  *)
(* leaves at most one row of transactions.  Requests interleave at every   *)
(* statement.  The database is Postgres at READ COMMITTED: a row that is   *)
(* locked FOR UPDATE stays locked to the end of the transaction.           *)
(*                                                                         *)
(* A session keeps an identity map.  A row already loaded in it is not     *)
(* loaded again by a later SELECT, with FOR UPDATE or without: create_     *)
(* payment has the wallet from its first, unlocked read on.                *)
(*                                                                         *)
(* The rate limiter is RateWindow; here it refuses or it does not.         *)
(***************************************************************************)
EXTENDS Integers, FiniteSets

CONSTANTS
  Requests, Merchants,
  Payer, Amount,            \* whose request it is; amount_paise
  HasWallet, HasLimit,      \* merchants with the row
  Balance0, Limit, Used0,   \* the rows' balance_paise, limit_paise, used_paise
  MaxFailures,
  Nobody

ASSUME PaymentsAssumption ==
  /\ Payer \in [Requests -> Merchants] /\ Amount \in [Requests -> Nat \ {0}]
  /\ HasWallet \subseteq Merchants /\ HasLimit \subseteq Merchants
  /\ Balance0 \in [Merchants -> Nat] /\ Limit \in [Merchants -> Nat \ {0}]
  /\ Used0 \in [Merchants -> Nat] /\ \A m \in HasLimit : Used0[m] <= Limit[m]
  /\ MaxFailures \in Nat /\ Nobody \notin Requests /\ IsFiniteSet(Requests)

VARIABLES
  balance, used,            \* committed wallet_accounts and merchant_limits
  walletOwner, limitOwner,  \* the transaction that holds the row
  row,                      \* committed transactions row of the request, by its outcome
  step,                     \* where create_payment is
  seen, usedSeen,           \* this session's copies of the two rows
  code,                     \* of the decline it is about to commit
  answer,                   \* the response's status, 0 before it
  failures

storeVars   == <<balance, used, row>>
lockVars    == <<walletOwner, limitOwner>>
sessionVars == <<step, seen, usedSeen, code>>
paymentVars == <<storeVars, lockVars, sessionVars, answer, failures>>

Declines == {"DAILY_LIMIT_EXCEEDED", "INSUFFICIENT_BALANCE"}

PaymentsInit ==
  /\ balance = Balance0 /\ used = Used0
  /\ walletOwner = [m \in Merchants |-> Nobody]
  /\ limitOwner = [m \in Merchants |-> Nobody]
  /\ row = [r \in Requests |-> "none"]
  /\ step = [r \in Requests |-> "rate"]
  /\ seen = [r \in Requests |-> 0] /\ usedSeen = [r \in Requests |-> 0]
  /\ code = [r \in Requests |-> "none"]
  /\ answer = [r \in Requests |-> 0]
  /\ failures = 0

-----------------------------------------------------------------------------
\* The end of the transaction gives its rows back.
Released(owner, r) == [m \in Merchants |-> IF owner[m] = r THEN Nobody ELSE owner[m]]

StaysOpen(r) == UNCHANGED lockVars
Unlock(r) ==
  /\ walletOwner' = Released(walletOwner, r)
  /\ limitOwner' = Released(limitOwner, r)

Goto(r, next) == step' = [step EXCEPT ![r] = next]
Respond(r, status) == answer' = [answer EXCEPT ![r] = status]

\* require_rate_limit, which runs before the handler.
RateChecked(r) ==
  /\ step[r] = "rate"
  /\ \/ Goto(r, "find") /\ UNCHANGED answer
     \/ Goto(r, "done") /\ Respond(r, 429)
  /\ UNCHANGED <<storeVars, lockVars, seen, usedSeen, code, failures>>

\* get_by_merchant: a plain SELECT, which puts the wallet into the identity map.
FindWallet(r) ==
  /\ step[r] = "find"
  /\ IF Payer[r] \in HasWallet
     THEN Goto(r, "limit") /\ seen' = [seen EXCEPT ![r] = balance[Payer[r]]] /\ UNCHANGED answer
     ELSE Goto(r, "done") /\ Respond(r, 404) /\ UNCHANGED seen
  /\ UNCHANGED <<storeVars, lockVars, usedSeen, code, failures>>

ExceededAlready(r, usedPaise) == usedPaise > Limit[Payer[r]]
ExceededAtLimit(r, usedPaise) == usedPaise + Amount[r] >= Limit[Payer[r]]
Exceeded(r, usedPaise) == usedPaise + Amount[r] > Limit[Payer[r]]

Decline(r, why) == Goto(r, "declined") /\ code' = [code EXCEPT ![r] = why]

UnlockedRead(m) == TRUE
LimitFree(m) == limitOwner[m] = Nobody

\* check_daily_limit locks the row, which this session has not loaded before: it is the
\* committed one.  A merchant without the row is not limited.
LockLimit(r) ==
  LET m == Payer[r] IN
  /\ step[r] = "limit"
  /\ IF m \in HasLimit
     THEN /\ LimitFree(m)
          /\ limitOwner' = [limitOwner EXCEPT ![m] = r]
          /\ usedSeen' = [usedSeen EXCEPT ![r] = used[m]]
          /\ IF Exceeded(r, used[m]) THEN Decline(r, "DAILY_LIMIT_EXCEEDED")
                                     ELSE Goto(r, "debit") /\ UNCHANGED code
     ELSE Goto(r, "debit") /\ UNCHANGED <<limitOwner, usedSeen, code>>
  /\ UNCHANGED <<storeVars, walletOwner, seen, answer, failures>>

AnyBalance(r) == TRUE
Sufficient(r) == seen[r] >= Amount[r]

\* debit_if_sufficient locks the wallet and decides on the identity map's copy of it; the
\* UPDATE goes out with the flush of create(), both seen by nobody before the commit.
DebitIfSufficient(r) ==
  LET m == Payer[r] IN
  /\ step[r] = "debit" /\ walletOwner[m] = Nobody
  /\ walletOwner' = [walletOwner EXCEPT ![m] = r]
  /\ IF Sufficient(r) THEN Goto(r, "paid") /\ UNCHANGED code
                      ELSE Decline(r, "INSUFFICIENT_BALANCE")
  /\ UNCHANGED <<storeVars, limitOwner, seen, usedSeen, answer, failures>>

\* What COMMIT does: the debited copy, the usage where there is a limit, the row.
WriteDebit(r) == balance' = [balance EXCEPT ![Payer[r]] = seen[r] - Amount[r]]
WriteUsage(r) ==
  used' = IF Payer[r] \in HasLimit THEN [used EXCEPT ![Payer[r]] = usedSeen[r] + Amount[r]]
                                   ELSE used
WriteRow(r, outcome) == row' = [row EXCEPT ![r] = outcome]

WriteNothing(r) == UNCHANGED storeVars
DebitDeclined(r) == WriteRow(r, code[r]) /\ WriteDebit(r) /\ UNCHANGED used
WriteDecline(r) == WriteRow(r, code[r]) /\ UNCHANGED <<balance, used>>
WriteSuccess(r) == WriteRow(r, "succeeded") /\ WriteDebit(r) /\ WriteUsage(r)

\* The explicit commit of a decline, then the raise that reports it; get_db's rollback has
\* nothing left to undo.
CommitDecline(r) ==
  /\ step[r] = "declined"
  /\ WriteDecline(r) /\ Unlock(r) /\ Goto(r, "done") /\ Respond(r, 402)
  /\ UNCHANGED <<seen, usedSeen, code, failures>>

\* get_db's commit behind the handler.
CommitSuccess(r) ==
  /\ step[r] = "paid"
  /\ WriteSuccess(r) /\ Unlock(r) /\ Goto(r, "done") /\ Respond(r, 201)
  /\ UNCHANGED <<seen, usedSeen, code, failures>>

\* A statement or Redis fails, or the server's connection goes: get_db rolls back and
\* ErrorEnvelopeMiddleware answers 500.  A COMMIT that fails may have landed.
Fail(r) ==
  /\ step[r] # "done" /\ failures < MaxFailures
  /\ failures' = failures + 1
  /\ \/ UNCHANGED storeVars
     \/ step[r] = "declined" /\ WriteDecline(r)
     \/ step[r] = "paid" /\ WriteSuccess(r)
  /\ Unlock(r) /\ Goto(r, "done") /\ Respond(r, 500)
  /\ UNCHANGED <<seen, usedSeen, code>>

CreatePayment(r) ==
  \/ RateChecked(r) \/ FindWallet(r) \/ LockLimit(r) \/ DebitIfSufficient(r)
  \/ CommitDecline(r) \/ CommitSuccess(r)

PaymentsNext == \E r \in Requests : CreatePayment(r) \/ Fail(r)

PaymentsSpec == PaymentsInit /\ [][PaymentsNext]_paymentVars

\* Every handler runs on.
FairPayments == PaymentsSpec /\ \A r \in Requests : WF_paymentVars(CreatePayment(r))

\* GET /v1/payments/{id} after a request: the row, with the limit as it stands now when the
\* decline was the limit's.
LimitContext(m) == [limit |-> Limit[m], usedToday |-> used[m]]
PaymentStatus(r, m) ==
  IF row[r] = "none" \/ Payer[r] # m THEN [status |-> "not_found"]
  ELSE [status |-> row[r],
        context |-> IF row[r] = "DAILY_LIMIT_EXCEEDED" /\ m \in HasLimit
                    THEN LimitContext(m) ELSE [limit |-> 0, usedToday |-> 0]]

-----------------------------------------------------------------------------
PaidBy(m) == {r \in Requests : Payer[r] = m /\ row[r] = "succeeded"}

\* What they add up to: the paise they took, each of them once.
Paise(paid) == UNION {{r} \X (1..Amount[r]) : r \in paid}
Total(paid) == Cardinality(Paise(paid))

PaymentsTypeOK ==
  /\ balance \in [Merchants -> Nat] /\ used \in [Merchants -> Nat]
  /\ walletOwner \in [Merchants -> Requests \cup {Nobody}]
  /\ limitOwner \in [Merchants -> Requests \cup {Nobody}]
  /\ row \in [Requests -> Declines \cup {"none", "succeeded"}]
  /\ step \in [Requests -> {"rate", "find", "limit", "debit", "declined", "paid", "done"}]
  /\ seen \in [Requests -> Nat] /\ usedSeen \in [Requests -> Nat]
  /\ code \in [Requests -> Declines \cup {"none"}]
  /\ answer \in [Requests -> {0, 201, 402, 404, 429, 500}]
  /\ failures \in 0..MaxFailures

\* The day's usage is what the payments that succeeded add up to, whatever was declined,
\* failed or raced with them (payments.py: docs/12's SUM(successful payouts) = used_paise).
UsageIsPayouts == \A m \in HasLimit : used[m] = Used0[m] + Total(PaidBy(m))

\* No set of payments, concurrent ones included, jointly exceeds the daily limit
\* (check_daily_limit's with_for_update).
LimitHolds == \A m \in HasLimit : used[m] <= Limit[m]

\* A client that got 402 has a committed row that says why, one that got 201 has paid, and a
\* refusal before the handler's checks left nothing (the commit before the raise).
AnswerIsRecorded ==
  \A r \in Requests :
    /\ answer[r] = 402 => row[r] \in Declines
    /\ answer[r] = 201 => row[r] = "succeeded"
    /\ answer[r] \in {0, 404, 429} => row[r] = "none"

\* Asked later about a payment the limit declined, get_payment_status still shows a limit
\* that explains it: the usage it reads is the current one, not the decline's.
DeclineExplained ==
  \A r \in Requests :
    LET status == PaymentStatus(r, Payer[r])
    IN status.status = "DAILY_LIMIT_EXCEEDED" =>
         status.context.usedToday + Amount[r] > status.context.limit

\* A wallet never loses more than the payments that succeeded took: nothing is debited for a
\* payment that was declined, failed or rolled back.
NothingTakenUnpaid ==
  \A m \in HasWallet : balance[m] >= Balance0[m] - Total(PaidBy(m))

\* The wallet and the limit account for every payment, and for nothing else.
PaymentsSettle == UsageIsPayouts /\ LimitHolds /\ NothingTakenUnpaid

\* The client's answer stands, then and whenever it asks again.
AnswerIsBacked == AnswerIsRecorded /\ DeclineExplained

\* Every request is answered: no lock outlives its transaction and no two requests wait for
\* each other's rows.
RequestIsAnswered == \A r \in Requests : step[r] # "done" ~> step[r] = "done"

\* payments.py:212-214, "two concurrent payments must not both read 'sufficient balance'
\* before either commits", and wallet_repo.py:59-61, "there is no window between 'checked
\* sufficient' and 'decremented' for a second concurrent debit to slip through": what the
\* wallet lost is what was paid.
BalanceIsConserved ==
  \A m \in HasWallet : balance[m] = Balance0[m] - Total(PaidBy(m))
=============================================================================
