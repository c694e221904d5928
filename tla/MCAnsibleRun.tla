----------------------------- MODULE MCAnsibleRun -----------------------------
(***************************************************************************)
(* Small instances of AnsibleRun: the sets the configurations choose from.  *)
(***************************************************************************)
EXTENDS AnsibleRun

CONSTANTS p1, p2      \* two values of spec.forProvider

OneParams   == {p1}
TwoParams   == {p1, p2}
SpecOps     == {"edit", "touch", "apply", "deletionPolicy", "delete", "create"}
LifeOps     == {"edit", "delete", "create"}
PolicyOps   == {"edit", "runPolicy", "deletionPolicy", "delete"}
DeleteOps   == {"deletionPolicy", "delete", "create", "edit"}
EditOps     == {"edit", "touch"}

OAD         == {"ObserveAndDelete"}
CWO         == {"CheckWhenObserve"}
BothPolicies == OAD \cup CWO
AllPolicies == {"", "ObserveAndDelete", "CheckWhenObserve", "Unsupported"}

===============================================================================
