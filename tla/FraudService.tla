---------------------------- MODULE FraudService ----------------------------
(***************************************************************************)
(* apps/fraud-service: the rules of runPrecheck.  The risk score is only   *)
(* logged by the caller; what counts is whether a rule rejects.            *)
(***************************************************************************)
EXTENDS Naturals

CONSTANTS
  MaxAmountThreshold,   \* fraud.maxAmountThreshold, in hundredths; 0 when NaN
  SupportedCurrencies,  \* fraud.supportedCurrencies
  BlacklistedMerchants  \* fraud.blacklistedMerchants

ASSUME ThresholdAssumption == MaxAmountThreshold \in Nat

(* get(...) || 10000000. *)
MaxThreshold == IF MaxAmountThreshold = 0 THEN 10000000 * 100 ELSE MaxAmountThreshold

AmountThresholdRule(amount) == amount <= MaxThreshold
UnsupportedCurrencyRule(currency) == currency \in SupportedCurrencies
BlacklistedMerchantRule(merchant) == merchant \notin BlacklistedMerchants

(* Placeholders: they approve everything. *)
VelocityThresholdRule == TRUE
KnownFraudPatternRule == TRUE

(* The first rule that rejects ends the loop with a 403. *)
RunPrecheck(merchant, amount, currency) ==
  /\ AmountThresholdRule(amount)
  /\ UnsupportedCurrencyRule(currency)
  /\ BlacklistedMerchantRule(merchant)
  /\ VelocityThresholdRule
  /\ KnownFraudPatternRule

=============================================================================
