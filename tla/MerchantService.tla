-------------------------- MODULE MerchantService --------------------------
(***************************************************************************)
(* apps/merchant-service, asked by the gateway's AuthMiddleware: API keys  *)
(* and the merchants they belong to.  No code of the repository changes a  *)
(* key or a merchant; an operator does, and may take it back.  lastUsedAt  *)
(* is written beside the answer and never read, and is left out.  A key    *)
(* the service does not know gets the answer of one that was revoked.      *)
(***************************************************************************)
EXTENDS Naturals, ClientRequests

CONSTANTS
  ApiKeys,     \* API keys the service knows
  KeyMerchant, \* the merchant of each key
  ApiKeyOf     \* the x-api-key of each request that carries one

ASSUME ApiKeysAssumption ==
  /\ DOMAIN KeyMerchant = ApiKeys
  /\ ApiKeyOf \in [Requests -> ApiKeys]

VARIABLES
  revoked,   \* keys that are inactive or have a revokedAt
  suspended  \* merchants whose status is not ACTIVE

merchantVars == <<revoked, suspended>>

Owners == {KeyMerchant[k] : k \in ApiKeys}

MerchantTypeOK == revoked \subseteq ApiKeys /\ suspended \subseteq Owners

MerchantInit == revoked = {} /\ suspended = {}

(* A bad key is a 401 whatever its merchant is. *)
ValidateMerchantApiKey(r) ==
  IF ApiKeyOf[r] \in revoked THEN "UNAUTHORIZED"
  ELSE IF KeyMerchant[ApiKeyOf[r]] \in suspended THEN "DISABLED"
  ELSE "VALID"

RevokeKey(k) ==
  /\ k \notin revoked
  /\ revoked' = revoked \cup {k}
  /\ UNCHANGED suspended

ReinstateKey(k) ==
  /\ k \in revoked
  /\ revoked' = revoked \ {k}
  /\ UNCHANGED suspended

SuspendMerchant(m) ==
  /\ m \notin suspended
  /\ suspended' = suspended \cup {m}
  /\ UNCHANGED revoked

ReinstateMerchant(m) ==
  /\ m \in suspended
  /\ suspended' = suspended \ {m}
  /\ UNCHANGED revoked

=============================================================================
