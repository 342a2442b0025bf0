------------------------------ MODULE WifiConfig ------------------------------
(***************************************************************************)
(* The Deck's Wi-Fi configuration: the committed credentials, the candidate*)
(* under validation and the state the user is shown.  The flash behind it  *)
(* is the transaction store (TransactionStore); here a store operation     *)
(* either succeeds or fails and leaves the committed record as it was.     *)
(* The operators map the configuration before a call to the one after it.  *)
(***************************************************************************)
CONSTANTS Credentials, None

ConfigStates == {"no_active", "active", "validating", "auth_failed", "timed_out",
                 "connection_failed", "storage_error"}

\* status is the record status the store reported when it was opened: "valid",
\* or anything else that asks for recovery.
Configs == [state: ConfigStates, active: Credentials \union {None},
            candidate: Credentials \union {None},
            status: {"empty", "valid", "recovered"}, faulted: BOOLEAN]

\* What deck_wifi_config_create makes of a store: the active record, if it
\* has one, and a candidate an interrupted validation left behind.
InitialConfigs ==
    {c \in Configs :
        /\ c.state = IF c.faulted THEN "storage_error"
                     ELSE IF c.active # None THEN "active" ELSE "no_active"
        /\ (c.status = "empty") <=> (c.active = None)}

RecoveryRequired(c) ==
    c.active = None \/ c.state # "active" \/ c.status # "valid" \/ c.candidate # None

StorageFailure(c) == [c EXCEPT !.faulted = TRUE, !.state = "storage_error"]

\* The record is staged as the candidate before the station is told to try it.
Staged(c, credentials) == [c EXCEPT !.candidate = credentials]

ValidationBegun(c, begun) ==
    [c EXCEPT !.state = IF begun THEN "validating" ELSE "connection_failed"]

Committed(c) ==
    [c EXCEPT !.state = "active", !.active = c.candidate, !.candidate = None,
              !.status = "valid"]

ValidationFailed(c, how) == [c EXCEPT !.state = how]

\* The connection of the committed network came or went.  A validation in
\* progress and a faulted store keep their state.
RuntimeTracked(c) == c.active # None /\ c.state # "validating" /\ ~c.faulted

ActiveConnection(c, connected) ==
    IF RuntimeTracked(c)
    THEN [c EXCEPT !.state = IF connected THEN "active" ELSE "connection_failed"]
    ELSE c

Cleared(c) ==
    [c EXCEPT !.state = "no_active", !.active = None, !.candidate = None,
              !.status = "empty", !.faulted = FALSE]
=============================================================================
