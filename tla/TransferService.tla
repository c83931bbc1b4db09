--------------------------- MODULE TransferService --------------------------
(***************************************************************************)
(* What the clients of memory/TransferManager rely on, without its queue,  *)
(* workers, streams or events: every accepted transfer is answered once;   *)
(* one cancelled before its source has been read is never completed; after *)
(* shutdown nothing is accepted.                                           *)
(***************************************************************************)
CONSTANT Transfer

VARIABLES
  phase,           \* how far each transfer is, or its answer
  cancelled,       \* the flag its handle sets
  closed           \* shutdown has been called

vars == <<phase, cancelled, closed>>

Answer == {"Completed", "Cancelled", "Failed"}
Phase == {"Free", "Waiting", "Reading", "Copying"} \cup Answer

Init ==
  /\ phase = [t \in Transfer |-> "Free"]
  /\ cancelled = [t \in Transfer |-> FALSE]
  /\ closed = FALSE

\* One transfer goes from one phase to another.
Advance(t, from, to) ==
  /\ phase[t] = from
  /\ phase' = [phase EXCEPT ![t] = to]
  /\ UNCHANGED <<cancelled, closed>>

Submit(t) == ~closed /\ Advance(t, "Free", "Waiting")

Cancel(t) ==
  /\ phase[t] \notin Answer \cup {"Free"}
  /\ cancelled' = [cancelled EXCEPT ![t] = TRUE]
  /\ UNCHANGED <<phase, closed>>

\* shutdown cancels transfers, but none whose work has begun.
Close ==
  /\ ~closed
  /\ closed' = TRUE
  /\ \E dropped \in SUBSET {t \in Transfer : phase[t] = "Waiting"} :
       cancelled' = [t \in Transfer |-> cancelled[t] \/ t \in dropped]
  /\ UNCHANGED phase

Drop(t) == cancelled[t] /\ Advance(t, "Waiting", "Cancelled")
Begin(t) == ~cancelled[t] /\ Advance(t, "Waiting", "Reading")
Discard(t) == cancelled[t] /\ Advance(t, "Reading", "Cancelled")
Proceed(t) == ~cancelled[t] /\ Advance(t, "Reading", "Copying")
Abandon(t) == cancelled[t] /\ Advance(t, "Copying", "Cancelled")
Finish(t) == Advance(t, "Copying", "Completed")
Fail(t) == \E from \in {"Reading", "Copying"} : Advance(t, from, "Failed")

Next ==
  \/ Close
  \/ \E t \in Transfer :
       \/ Submit(t) \/ Cancel(t)
       \/ Drop(t) \/ Begin(t) \/ Discard(t) \/ Proceed(t)
       \/ Abandon(t) \/ Finish(t) \/ Fail(t)

Spec == Init /\ [][Next]_vars
=============================================================================
