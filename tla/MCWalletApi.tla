----------------------------- MODULE MCWalletApi -----------------------------
(***************************************************************************)
(* One run of the models behind a merchant's wallet that share no state:   *)
(* the confirmation gate with the two writers of a limit request           *)
(* (ToolGate), the payments (Payments), and the limiter in front of the    *)
(* REST ones (RateWindow).  One moves only while the others are at their   *)
(* start, so that the run explores each and not their product.             *)
(***************************************************************************)
EXTENDS MCToolGate, MCPayments, RateWindow

WalletInit == Init /\ PaymentsInit /\ RateInit
WalletNext ==
  \/ PaymentsInit /\ RateInit /\ Next /\ UNCHANGED <<paymentVars, rateVars>>
  \/ Init /\ RateInit /\ PaymentsNext /\ UNCHANGED <<vars, rateVars>>
  \/ Init /\ PaymentsInit /\ RateNext /\ UNCHANGED <<vars, paymentVars>>
WalletSpec == WalletInit /\ [][WalletNext]_<<vars, paymentVars, rateVars>> /\ Fairness
=============================================================================
