--------------------------- MODULE DurableRegister ---------------------------
(***************************************************************************)
(* What the transaction store promises its callers: one durable value.     *)
(* The value changes only by the publication of an offered record, by the  *)
(* withdrawal of a publication that was not acknowledged, or by a wipe;    *)
(* an acknowledged value is in place; a restart accepts whichever value it *)
(* finds.                                                                  *)
(***************************************************************************)
CONSTANTS Record, None

VARIABLES
  value,    \* what a restart would find
  settled,  \* the value last acknowledged to a caller or found by a restart
  prior,    \* the value that one replaced
  pending,  \* the record being published, until it is acknowledged
  wiping    \* a wipe has begun

vars == <<value, settled, prior, pending, wiping>>

Init ==
  /\ value = None /\ settled = None /\ prior = None /\ pending = None
  /\ wiping = FALSE

\* The publication of a record takes effect now or not at all.
Publish(record) ==
  /\ pending' = record
  /\ value' \in {value, record}
  /\ UNCHANGED <<settled, prior, wiping>>

Acknowledge ==
  /\ pending # None /\ value = pending
  /\ settled' = pending /\ prior' = settled /\ pending' = None
  /\ UNCHANGED <<value, wiping>>

\* A publication that cannot be acknowledged is taken back.
Withdraw ==
  /\ pending # None
  /\ value = pending /\ value' = settled
  /\ UNCHANGED <<settled, prior, pending, wiping>>

Restart ==
  /\ settled' = value /\ pending' = None /\ wiping' = FALSE
  /\ prior' = IF value = settled THEN prior ELSE settled
  /\ UNCHANGED value

WipeBegin ==
  /\ wiping' = TRUE
  /\ UNCHANGED <<value, settled, prior, pending>>

\* A wipe that fails half-way may uncover the value before the last.
WipeStep ==
  /\ wiping
  /\ value' \in {None, prior}
  /\ UNCHANGED <<settled, prior, pending, wiping>>

WipeDone ==
  /\ wiping /\ value = None
  /\ settled' = None /\ prior' = None /\ pending' = None /\ wiping' = FALSE
  /\ UNCHANGED value

Next ==
  \/ \E record \in Record : Publish(record)
  \/ Acknowledge \/ Withdraw \/ Restart
  \/ WipeBegin \/ WipeStep \/ WipeDone

Spec == Init /\ [][Next]_vars
=============================================================================
