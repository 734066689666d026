\* A unit that may start twice in an interval and a service started once by hand, two computers
\* of one name, a channel for one command, two edits and one fault.
CONSTANTS
    p = p
    q = q
    unit = unit
    manual = manual
    Computers = {p, q}
    NameOf <- MCNameOf
    Layouts = {"edges"}
    DefaultOf <- MCDefaultOf
    Unit = unit
    Instances = {unit, manual}
    Chooser = chooser
    Nobody = nobody
    Clients = {k1}
    QueueMax = 1
    Burst = 2
    HandStarts = 1
    MaxFaults = 1
    MaxEdits = 2
SPECIFICATION FairSpec
INVARIANTS
    TrustsSelected
    AnswersTrue
PROPERTIES
    SavedKept
    Serves
CHECK_DEADLOCK FALSE
