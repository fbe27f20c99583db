\* Any append or write may fail, the process may restart twice, the task may end
\* at any step, and the bytes on the disk may change.  Nothing more can happen once
\* the task is over and all its documents are damaged.
SPECIFICATION Spec
CONSTANTS
  f1 = f1
  f2 = f2
  r1 = r1
  r2 = r2
  Deliverable = Deliverable
  None = None
  Damaged = Damaged
  Uploads <- TwoFiles
  Rules <- TwoRules
  Inspected = TRUE
  MaxRenderings = 3
  MaxCrashes = 2
  StorageMayFail = TRUE
CHECK_DEADLOCK FALSE
SYMMETRY Alike
INVARIANTS
  RenderedOnAPass
  CheckedFileStays
  ServedAsRecorded
