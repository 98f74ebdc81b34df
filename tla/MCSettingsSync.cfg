CONSTANTS
  None = None
  Stamp <- NoStamp
  Device = {phone, laptop}
  App = {phone}
  Racing = {laptop}
  Careful = {phone}
  Ahead = {phone}
  Knobs = {k0, k1}
  Default = k0
  MaxSaves = 3
  MaxFailures = 1
SPECIFICATION Spec
INVARIANTS
  StampIsLastEdit
PROPERTIES
  DevicesAgree
