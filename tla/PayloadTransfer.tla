-------------------------- MODULE PayloadTransfer ---------------------------
(***************************************************************************)
(* What posting or sending a payload promises                              *)
(* (src/src/Support/PostedPayload.h), without tokens, slots, messages or   *)
(* windows: a payload goes one way from its sender to one receiver, or     *)
(* nowhere; a sender that is told FALSE knows that nobody will be handed   *)
(* it from then on, and one that is told nothing yet may still be told     *)
(* either.                                                                 *)
(***************************************************************************)
CONSTANT Payload

VARIABLES
  holder,  \* who may free each payload
  answer   \* what its sender was told

vars == <<holder, answer>>

Holder == {"sender", "registry", "receiver", "nobody"}
Answer == {"none", "true", "false"}

TypeOK == holder \in [Payload -> Holder] /\ answer \in [Payload -> Answer]

Init ==
  /\ holder = [p \in Payload |-> "sender"]
  /\ answer = [p \in Payload |-> "none"]

\* Posting answers at once; sending waits.
Entrust(p, a) ==
  /\ holder[p] = "sender" /\ answer[p] = "none" /\ a \in {"none", "true"}
  /\ holder' = [holder EXCEPT ![p] = "registry"]
  /\ answer' = [answer EXCEPT ![p] = a]

Hand(p) ==
  /\ holder[p] = "registry" /\ answer[p] # "false"
  /\ holder' = [holder EXCEPT ![p] = "receiver"]
  /\ UNCHANGED answer

\* A window that goes away takes all of its payloads with it.
Forget(P) ==
  /\ \A p \in P : holder[p] = "registry"
  /\ holder' = [p \in Payload |-> IF p \in P THEN "nobody" ELSE holder[p]]
  /\ UNCHANGED answer

Withdraw(p) ==
  /\ holder[p] = "registry" /\ answer[p] = "none"
  /\ holder' = [holder EXCEPT ![p] = "nobody"]
  /\ answer' = [answer EXCEPT ![p] = "false"]

Tell(p, a) ==
  /\ holder[p] # "registry" /\ answer[p] = "none"
  /\ a = "true" => holder[p] # "sender"
  /\ a \in {"true", "false"}
  /\ answer' = [answer EXCEPT ![p] = a]
  /\ UNCHANGED holder

Discard(p) ==
  /\ \/ holder[p] = "receiver"
     \/ holder[p] = "sender" /\ answer[p] = "false"
  /\ holder' = [holder EXCEPT ![p] = "nobody"]
  /\ UNCHANGED answer

Next ==
  \/ \E p \in Payload : \/ Hand(p) \/ Withdraw(p) \/ Discard(p)
                        \/ \E a \in Answer : Entrust(p, a) \/ Tell(p, a)
  \/ \E P \in SUBSET Payload : Forget(P)

Spec == Init /\ [][Next]_vars

=============================================================================
