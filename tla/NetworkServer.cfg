CONSTANTS
  Remote = {a, b}
  Host = host
  Nobody = nobody
  MaxPlayers = {2, 3}
  Unlisted = {b}
  BadLogin = {b}
  Banned = {a}
  Kicked = {b}
  Radmins = {a, b}
  Targets = {a, b}
  MaxCommands = 1
  Leaving = {a}
SPECIFICATION Spec
INVARIANTS ClientsSound KeysAgree NobodyForgotten
PROPERTIES SessionSpec  FailsForTheGone
\* The model stops where the program crashes.
CHECK_DEADLOCK FALSE
