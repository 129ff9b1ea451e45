------------------------------ MODULE StopLatch ------------------------------
(***************************************************************************)
(* What the platform promises of the global emergency stop.  Between a     *)
(* request to change it and the answer the latch may be either way; once a *)
(* request has been answered with success, and nobody asks for the         *)
(* opposite, the latch stays as it was answered.                           *)
(***************************************************************************)
VARIABLES
  latch,  \* is the global stop in force?
  said    \* what the operators were told last: "on", "off", or "unsure"

Word(b) == IF b THEN "on" ELSE "off"

TypeOK == latch \in BOOLEAN /\ said \in {"on", "off", "unsure"}

Init == latch = FALSE /\ said = "off"

\* Somebody asks: nobody knows the latch until an answer arrives.
Ask == said' = "unsure" /\ latch' \in BOOLEAN

\* Requests in progress, failed requests and restarts move the latch.
Settle == said = "unsure" /\ latch' \in BOOLEAN /\ UNCHANGED said

\* An answer says what the latch is.
Answer == said' = Word(latch) /\ UNCHANGED latch

Next == Ask \/ Settle \/ Answer

Spec == Init /\ [][Next]_<<latch, said>>

\* What follows from it: the operators are never told the wrong thing.
Truthful == said # "unsure" => said = Word(latch)
=============================================================================
