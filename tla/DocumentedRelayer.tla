--------------------------- MODULE DocumentedRelayer ---------------------------
(***************************************************************************)
(* What relayer.js says of itself and does not do.                         *)
(***************************************************************************)
EXTENDS Relayer

VARIABLE handled  \* the events handled so far

Handles == \E seed \in Seeds : QueryPending(seed)

HandledSpec ==
    /\ RelayInit /\ handled = {}
    /\ [][ /\ RelayNext
           /\ handled' = IF Handles THEN handled \cup {Event} ELSE handled ]_<<relayVars, handled>>

\* "We rely on the height-based skip [...] to avoid re-processing
\* already-handled events" (relayer.js:142): no event is handled twice.  But a
\* block committed after getBlock is searched too, and again in the next poll.
ProcessedOnce == [][Handles => Event \notin handled]_<<relayVars, handled>>

================================================================================
