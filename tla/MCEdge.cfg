SPECIFICATION ProcessSpec
CONSTANTS
  usb = usb
  csi = csi
  wide = wide
  door = door
  relay = relay
  spare = spare
  Devices = {usb, csi}
  Regions = {wide, door}
  Nights <- Schedules
  Faulty = {usb}
  Bodies <- SomeBodies
  DEFAULTS <- Defaults
  Keep = Keep
  Torn = Torn
  None = None
  Channels = {relay}
  Day = 5
  Sunrise = 1
  Sunset = 4
  MaxFlips = 2
  Requests = {r1, r2}
  MaxAsked = 2
  MaxCrashes = 1
INVARIANTS SourcesInOrder SoloEditsStick NoStrayMotion LampKept
PROPERTY CameraServes
CHECK_DEADLOCK FALSE
