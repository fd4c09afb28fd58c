-------------------------- MODULE MessageLifecycle --------------------------
(***************************************************************************)
(* The life of one message as MemberCommunicationsService keeps it in      *)
(* memory: queued once, sent, delivered; a failure is recorded whatever    *)
(* the status was, and a failed message is queued again to be sent.        *)
(***************************************************************************)
VARIABLE status

Statuses == {"NONE", "QUEUED", "SENT", "DELIVERED", "FAILED"}

Init == status = "NONE"

Enqueue == status = "NONE" /\ status' = "QUEUED"
MarkSent == status = "QUEUED" /\ status' = "SENT"
MarkDelivered == status = "SENT" /\ status' = "DELIVERED"
MarkFailed == status # "NONE" /\ status' = "FAILED"
Retry == status = "FAILED" /\ status' = "QUEUED"

Next == Enqueue \/ MarkSent \/ MarkDelivered \/ MarkFailed \/ Retry

Spec == Init /\ [][Next]_status
=============================================================================
