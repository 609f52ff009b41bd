CONSTANTS
  Clients = {a, b, c, d}
  Here = {a, b}
  HighPing = {c}
SPECIFICATION Spec
INVARIANTS EachOnce
PROPERTIES NotWhileIterating AddressCleared
