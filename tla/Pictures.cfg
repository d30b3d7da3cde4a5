\* Every kind of call, any picture: present, too large, of any components.
CONSTANTS
  W = 4 H = 3 Short = 4
  Calls <- AllCalls
  Stack = {0, 1, 3}
SPECIFICATION Spec
INVARIANTS TypeOK NothingHeld
PROPERTIES  ShowsPicture SpillsByOne
