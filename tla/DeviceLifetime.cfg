SPECIFICATION LifetimeSpec
CONSTANTS
  Pipelines = {p, q}
  Pointers = {v, w}
  Devices = {d1, d2}
  None = None
SYMMETRY Symmetry
INVARIANT ObjectsOfOneDevice
PROPERTY DeviceOutlivesItsObjects
CHECK_DEADLOCK FALSE
