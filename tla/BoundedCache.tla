----------------------------- MODULE BoundedCache -----------------------------
(***************************************************************************)
(* What the prompt cache promises: a map from prompts to responses that    *)
(* keeps the Capacity prompts used last, where reading a prompt and        *)
(* storing a response for it both count as a use.                          *)
(***************************************************************************)
EXTENDS RecencyList

CONSTANTS
    Keys,       \* hashed prompts
    Texts,      \* texts a backend answers with
    Capacity    \* capacity

VARIABLES
    recent,     \* the cached prompts, the one used last first
    response    \* the response of every prompt, as a set of none or one

Responses == [of : Keys, text : Texts]

Init ==
    /\ recent = <<>>
    /\ response = [k \in Keys |-> {}]

\* The prompts after one of them has been used, those beyond the capacity gone.
Used(k) ==
    LET list == ToFront(recent, k)
    IN  IF Len(list) > Capacity THEN Front(list) ELSE list

Read(k) ==
    /\ k \in ToSet(recent)
    /\ recent' = Used(k)
    /\ UNCHANGED response

Write(k, r) ==
    /\ r.of = k
    /\ recent' = Used(k)
    /\ response' = [j \in Keys |-> IF j = k THEN {r}
                                   ELSE IF j \in ToSet(recent') THEN response[j]
                                   ELSE {}]

Flush ==
    /\ recent' = <<>>
    /\ response' = [k \in Keys |-> {}]

Next ==
    \/ \E k \in Keys : Read(k)
    \/ \E k \in Keys, r \in Responses : Write(k, r)
    \/ Flush

Spec == Init /\ [][Next]_<<recent, response>>

=============================================================================
