--------------------------- MODULE ClientRequests ---------------------------
(* What the services of the synchronous pipeline share: the attempts of    *)
(* clients.  A client that repeats a request makes another attempt.        *)

CONSTANTS
  Requests,  \* attempts of clients
  None       \* null

ASSUME RequestsAssumption == None \notin Requests

=============================================================================
