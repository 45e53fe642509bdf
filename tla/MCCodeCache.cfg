\* The lift windows of addresses 1 and 2 span both pages, and the loop from
\* 2 back to 1 runs on the first page only.  No change of code bypasses the
\* journal.
SPECIFICATION Spec
CONSTANTS
  Spaces = {"kernel"}
  Frames <- MCFrames
  Contents = {"loop", "port_io"}
  Unliftable = {"port_io"}
  LastPage = 1
  PAGE_SIZE = 3
  Entries = {0, 1, 2, 4}
  LIFT_WINDOW = 3
  HOT_THRESHOLD = 2
  INELIGIBLE_CAP = 2
  BITMAP_BITS = 2
  Bypasses = {}
  f0 = f0
  f1 = f1
INVARIANTS
  TypeOK
  NativeCodeIsCurrent
  CachedCodeIsWatched
  CleanMemoIsCurrent
