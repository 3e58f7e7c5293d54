\* Two calls of GetLink at a time, four in all, one change.
SPECIFICATION Spec
CONSTANTS
  Getter = {g, h}
  Subscriber = sub
  Writer = {w}
  Item = {"friend", "black", "black2", "black3"}
  List = {"a", "b", "c"}
  Object = {1, 2, 3}
  None = none
  Layouts <- Deployments
  Capacity = 1
  MaxWrites = 1
  MaxGets = 4
SYMMETRY Symmetry
INVARIANTS TypeOK Fresh NeverOlder
CHECK_DEADLOCK FALSE
