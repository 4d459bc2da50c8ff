------------------------------ MODULE MCIntake ------------------------------
(***************************************************************************)
(* Messages for Intake: a header is 2 bytes, the buffer 3.                 *)
(***************************************************************************)
EXTENDS Intake

Request(class, act, op, len) ==
    [class |-> class, act |-> act, req |-> TRUE, op |-> op, ok |-> TRUE, len |-> len]

\* A single request, a scheduled one, one that cannot be parsed and is no longer
\* than a header, one that announces less than a header, and one more than the
\* buffer.
Slice  == Request("SINGLE", "RAN_SLICE", "SET", 3)
Cell   == Request("SCHEDULE", "CELL_MEASURE", "UNSPECIFIED", 3)
Broken == [Request("SINGLE", "HANDOVER", "UNSPECIFIED", 2) EXCEPT !.ok = FALSE]
Short  == Request("SINGLE", "ECAP", "UNSPECIFIED", 1)

Long   == Request("SINGLE", "ECAP", "UNSPECIFIED", 4)

Messages == {Slice, Cell, Broken, Short, Long}

Callbacks == {"enb_setup_request", "handover_UE", "setup_request", "slice_request",
              "slice_add", "slice_rem", "slice_conf", "cell_measure"}
=============================================================================
