--------------------------- MODULE CommandLedger ---------------------------
(***************************************************************************)
(* What the command path of a Nuki device promises, without how it does    *)
(* it: a request buys at most one command, commands do not overlap, the    *)
(* report topic says "retrying" only while one is in progress and tells    *)
(* its outcome when it ends.                                               *)
(***************************************************************************)
EXTENDS Naturals

VARIABLES
  requests, \* requests accepted so far
  rounds,   \* commands started so far
  busy,     \* a command is in progress
  report    \* the retry topic

ledgerVars == <<requests, rounds, busy, report>>

Init ==
  /\ requests = 0
  /\ rounds = 0
  /\ busy = FALSE
  /\ report = "--"

Request ==
  /\ requests' = requests + 1
  /\ UNCHANGED <<rounds, busy, report>>

Start ==
  /\ ~busy
  /\ rounds < requests
  /\ rounds' = rounds + 1
  /\ busy' = TRUE
  /\ UNCHANGED <<requests, report>>

Retry ==
  /\ busy
  /\ report' = "retrying"
  /\ UNCHANGED <<requests, rounds, busy>>

End ==
  /\ busy
  /\ busy' = FALSE
  /\ report' \in {"--", "failed"}
  /\ UNCHANGED <<requests, rounds>>

Next == Request \/ Start \/ Retry \/ End

Spec == Init /\ [][Next]_ledgerVars
============================================================================
