SPECIFICATION BindingsFairSpec
INVARIANTS OwnDial ContextsEnd
PROPERTIES CallsReturn
CONSTANTS
  n1 = n1  n2 = n2
  Node = {n1, n2}
  NoThread = NoThread
  MaxNews = 3
CHECK_DEADLOCK FALSE
