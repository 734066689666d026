------------------------------ MODULE MCService ------------------------------
\* Two computers with one name, one list of edges; the unit may be started twice in an interval.
EXTENDS Service

CONSTANTS p, q, unit, manual

MCNameOf    == [f \in {p, q} |-> "computer"]
MCDefaultOf == [e \in {"edges"} |-> "edges"]

=============================================================================
