SPECIFICATION Spec
CONSTANTS
  Tasks = {t1, t2}
  t1 = t1
  t2 = t2
  Emits = {"plan", "admitted", "checked", "failed", "upload", "previewed"}
  MaxEvents <- StreamBound
  MaxUploads = 3
  MaxClicks = 3
  MaxRetries = 1
INVARIANTS OncePerKey RefusedForGood ActsOnWhatWasSeen
\* The operator may stop, and the streams are bounded.
CHECK_DEADLOCK FALSE
