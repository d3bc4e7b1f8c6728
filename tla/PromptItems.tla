------------------------------ MODULE PromptItems ------------------------------
(* The vocabulary of PaneFleet's prompt-queue store (server.js): the statuses   *)
(* an item may have, the predicates the server classifies items with, and the   *)
(* lifecycle rules validatePromptQueueStore enforces before every write.        *)
(*                                                                              *)
(* An item is a record. attemptId and claimedAt are set together by the one     *)
(* claim, so the field "claimed" stands for both; "sent" stands for sentAt and  *)
(* "completed" for completedAt being set. "footer" says whether the saved       *)
(* completion snapshot still holds a line matching Codex's "Worked for" footer. *)
EXTENDS Naturals

Statuses == {"queued", "dispatching", "sent", "needs_review", "canceled"}

Summaries == {"pending", "captured", "returned", "command_submitted",
              "operator_released", "unavailable"}

\* deliveryStage values a failed delivery leaves on an item under review.
DeliveryFailures == {"preflight", "lifecycle_guard", "literal", "literal_unknown",
                     "literal_confirmation", "submit", "confirmation", "unknown"}

\* deliveryStage values of an item whose completion could not be verified.
CompletionReviews == {"final_boundary_missing", "completion_marker_missing",
                      "goal_completion_review", "completion_superseded",
                      "completion_timeout"}

Stages == DeliveryFailures \cup CompletionReviews \cup
          {"", "dispatching", "accepted", "slash_command_submitted",
           "goal_command_submitted", "restart_reconciliation",
           "completion_target_replaced", "waiting_for_manual_submit",
           "manual_submit_accepted", "accepted_late", "monitoring_after_review",
           "monitoring_after_response", "return_marker_captured",
           "completion_recovered", "returned_to_ready", "operator_released",
           "operator_requeued_after_replacement", "literal_review_dismissed",
           "review_canceled", "dispatch_envelope_too_long"}

AwaitingCompletion(item) == item.status = "sent" /\ item.summary = "pending"

RecoverableCompletionReview(item) ==
  /\ item.status = "needs_review"
  /\ item.summary = "unavailable"
  /\ item.stage \in {"final_boundary_missing", "completion_marker_missing"}

AcceptanceRecoveryReview(item) ==
  /\ item.status = "needs_review"
  /\ item.summary = "unavailable"
  /\ item.stage \in {"confirmation", "waiting_for_manual_submit"}

ItemOpen(item) ==
  \/ item.status \in {"queued", "dispatching", "needs_review"}
  \/ AwaitingCompletion(item)

ItemFinal(item) ==
  \/ item.status = "canceled"
  \/ item.status = "sent" /\ ~AwaitingCompletion(item)

\* An open item that has left the queue: it holds its terminal line.
InFlight(item) == ItemOpen(item) /\ item.status # "queued"

\* The lifecycle part of validatePromptQueueStore, which refuses a whole store
\* when one item breaks it.
LifecycleValid(item) ==
  /\ item.summary \in {"captured", "returned", "operator_released"}
       => item.status = "sent" /\ item.completed
  /\ item.summary = "command_submitted" => item.status = "sent"
  /\ item.sent => item.claimed
  /\ item.completed => item.sent
  /\ item.status = "queued" => ~item.claimed
  /\ item.status = "dispatching" => item.claimed /\ ~item.sent
  /\ item.status = "sent" => item.sent
  /\ item.status = "needs_review" => item.claimed /\ ~item.completed

================================================================================
