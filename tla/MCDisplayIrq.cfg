\* Modes set while a connector is plugged and unplugged and a client trains.
SPECIFICATION FairSpec
CONSTANTS
  dp = dp
  vga = vga
  Encoders = {dp, vga}
  InDcb = {dp, vga}
  MaxEvents = 3
  None = None
INVARIANTS ScriptsComplete
PROPERTIES UpdatesEnd Told
CHECK_DEADLOCK FALSE
