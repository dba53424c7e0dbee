---------------------------- MODULE MCPaymentBody ----------------------------
(* Small instances of PaymentBody for TLC. *)
EXTENDS PaymentBody, TLC

CONSTANTS r1, r2, r3

Symmetry == Permutations(Attempts)

AsNumber(t) == [kind |-> "number", text |-> t, more |-> <<>>]
AsString(t) == [kind |-> "string", text |-> t, more |-> <<>>]
Null == [kind |-> "null", text |-> "", more |-> <<>>]

(* A text with delimiters in it: after t, an order and a payment method. *)
AsFields(t, order, method) ==
  [AsString(t) EXCEPT !.more = <<[name |-> "orderId", text |-> order],
                                 [name |-> "paymentMethod", text |-> method]>>]

(* An amount as a number or as a string, a currency only the gateway       *)
(* knows, two free texts, the first of which is optional and may be null   *)
(* or empty, and a field the gateway's DTO does not have.                  *)
SmallKeys == <<"amount", "currency", "customerId", "orderId", "paymentMethod", "reference">>
SmallValues ==
  [amount        |-> {AsNumber("1"), AsNumber("2"), AsString("1")},
   currency      |-> {AsString("USD"), AsString("JPY")},
   customerId    |-> {Null, AsString("")},
   orderId       |-> {AsString("o1"), AsString("o2")},
   paymentMethod |-> {AsString("p")},
   reference     |-> {AsString("o1")}]
FreeTexts == {AsString(""), AsString("p"), AsFields("", "o2", "p"), AsFields("p", "o1", "p")}
SmallValid ==
  [SmallValues EXCEPT !.amount = {AsNumber("1"), AsNumber("2")},
                      !.customerId = FreeTexts,
                      !.paymentMethod = FreeTexts,
                      !.reference = {}]

Field(k, v) == <<[key |-> k, value |-> v]>>

(* Each subset of the fields, in alphabetical order and in the reverse. *)
Sent(k) == {<<>>} \cup {Field(k, v) : v \in SmallValues[k]}
Subsets ==
  UNION {{a \o c \o u \o o \o m \o r, r \o m \o o \o u \o c \o a} :
           a \in Sent("amount"), c \in Sent("currency"), u \in Sent("customerId"),
           o \in Sent("orderId"), m \in {Field("paymentMethod", AsString("p"))}, r \in Sent("reference")}

(* Bodies that differ in their order and their free texts. *)
FreelyWorded ==
  {Field("amount", AsNumber("1")) \o Field("currency", AsString("USD")) \o Field("customerId", u)
     \o Field("orderId", o) \o Field("paymentMethod", m) :
       u \in FreeTexts, o \in SmallValues["orderId"], m \in FreeTexts}

SmallBodies == Subsets \cup FreelyWorded

=============================================================================
