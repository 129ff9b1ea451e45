-------------------------- MODULE MCCommandDelivery --------------------------
(***************************************************************************)
(* Instances of CommandDelivery.  A task may be less urgent than a control *)
(* (50, the default of a task), as urgent (90), or more urgent (95).       *)
(***************************************************************************)
EXTENDS CommandDelivery

=============================================================================
