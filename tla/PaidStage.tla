------------------------------ MODULE PaidStage ------------------------------
(***************************************************************************)
(* What a provider stage promises to whoever reads its files: recorded     *)
(* spending only grows and never passes the limit, an answer once saved    *)
(* stays saved, a request refused for good stays refused, and the stage is *)
(* published only when every request has its answer.  No locks, processes, *)
(* reservations or crashes appear here.                                    *)
(***************************************************************************)
EXTENDS Integers

CONSTANTS
  Requests,  \* what has to be answered
  Limit      \* a natural number: spending never passes it

VARIABLES
  answer,    \* "open", "answered" or "frozen", for each request
  spent,     \* recorded spending
  published  \* the completion receipt exists

vars == <<answer, spent, published>>

Init ==
  /\ answer \in [Requests -> {"open", "answered"}]
  /\ spent = 0
  /\ published = FALSE

\* The fixture receipt, before anything else was spent.
Prepare ==
  /\ spent = 0
  /\ spent' \in 0 .. Limit
  /\ UNCHANGED <<answer, published>>

\* A paid answer is saved.
Save(r) ==
  /\ answer[r] = "open"
  /\ answer' = [answer EXCEPT ![r] = "answered"]
  /\ spent' \in spent .. Limit
  /\ UNCHANGED published

\* A failed call is charged; it leaves the request open or refuses it for good.
ChargeFailure(r) ==
  /\ answer[r] = "open"
  /\ \E a \in {"open", "frozen"} : answer' = [answer EXCEPT ![r] = a]
  /\ spent' \in spent .. Limit
  /\ UNCHANGED published

Publish ==
  /\ \A r \in Requests : answer[r] = "answered"
  /\ published' = TRUE
  /\ UNCHANGED <<answer, spent>>

Next ==
  \/ Prepare \/ Publish
  \/ \E r \in Requests : Save(r) \/ ChargeFailure(r)

Spec == Init /\ [][Next]_vars
=============================================================================
