---------------------------- MODULE FinanceRecords -----------------------------
(***************************************************************************)
(* The rows of the finance schema that Refunds, which decides about them,  *)
(* and PaymentsPage, which shows them, have in common.                     *)
(***************************************************************************)
CONSTANTS
    Payments,       \* finance.payments, by id
    Refunds         \* the requests that may be made; a row's refund_request_id
===============================================================================
