\* One selection at a time, by type or by label, against two registrations and
\* one label revision: every ring operation can fall before or after the scan.
\* The cap of one label per instance refuses some of the revisions.
SPECIFICATION RegistrySpec
CONSTANTS
    a = a
    b = b
    t1 = t1
    t2 = t2
    l1 = l1
    l2 = l2
    Instances = {a, b}
    Types = {t1, t2}
    Labels = {l1, l2}
    EmptyLabel = EmptyLabel
    Offers = {{}, {l1}, {EmptyLabel, l2}}
    Support = {TRUE, FALSE}
    Requests <- PinnedAndPlain
    Capacity = 1
    MaxLabels = 1
    MaxGeneration = 2
    MaxInFlight = 1
    MaxRevisions = 1
    NoType = NoType
    NoLabel = NoLabel
SYMMETRY Symmetry
INVARIANTS
    RingsAgree
    NewestStaysRegistered
    SelectionHonest
