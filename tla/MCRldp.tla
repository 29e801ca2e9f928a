------------------------------- MODULE MCRldp -------------------------------
EXTENDS Rldp

\* A message of two parts, and queries whose answers are small, big, too big
\* with their header or too big altogether; with timeouts far away or not.
MCMessage(patient) ==
  [kind |-> "message", patient |-> patient, parts |-> [out |-> 2, back |-> 1],
   size |-> [out |-> "small", back |-> "small"]]
MCQuery(patient, size) ==
  [kind |-> "query", patient |-> patient, parts |-> [out |-> 1, back |-> 1],
   size |-> [out |-> "small", back |-> size]]
MCSetups ==
  {MCMessage(TRUE), MCMessage(FALSE), MCQuery(TRUE, "small"), MCQuery(TRUE, "big"),
   MCQuery(FALSE, "small"), MCQuery(FALSE, "header"), MCQuery(FALSE, "too big")}
=============================================================================
