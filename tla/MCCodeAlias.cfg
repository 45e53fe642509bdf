\* As MCCodeCache, with stores through a second mapping of a code page.
SPECIFICATION Spec
CONSTANTS
  Spaces = {"kernel"}
  Frames <- MCFrames
  Contents = {"loop", "port_io"}
  Unliftable = {"port_io"}
  LastPage = 1
  PAGE_SIZE = 3
  Entries = {0, 1, 2, 4}
  LIFT_WINDOW = 3
  HOT_THRESHOLD = 2
  INELIGIBLE_CAP = 2
  BITMAP_BITS = 2
  Bypasses = {"alias"}
  f0 = f0
  f1 = f1
INVARIANT NativeCodeIsCurrent
