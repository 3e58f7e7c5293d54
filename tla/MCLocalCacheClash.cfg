\* The same with a list's key in the slot of the items.
SPECIFICATION Spec
CONSTANTS
  Getter = {g, h}
  Subscriber = sub
  Writer = {w}
  Item = {"friend", "black", "black2", "black3"}
  List = {"a", "b", "c"}
  Object = {1, 2, 3}
  None = none
  Layouts <- Clashing
  Capacity = 1
  MaxWrites = 1
  MaxGets = 4
INVARIANT NoSelfDeadlock
CHECK_DEADLOCK FALSE
