---------------------------- MODULE MCAdmission ----------------------------
(***************************************************************************)
(* Instances of Admission for TLC.  Retries: three calls with one key, one *)
(* of them for another request, and a fourth call without a key in the     *)
(* same conversation.  Queue: calls without keys that start conversations. *)
(***************************************************************************)
EXTENDS Admission, TLC

CONSTANTS a, b, c, d, k1, v1

RetryKey == [x \in Calls |-> IF x = d THEN NoKey ELSE k1]
RetryConv == [x \in Calls |-> v1]
RetryPayload == [x \in Calls |-> IF x = c THEN 2 ELSE 1]

QueueKey == [x \in Calls |-> NoKey]
QueueConv == [x \in Calls |-> NoConv]
QueuePayload == [x \in Calls |-> 1]
=============================================================================
