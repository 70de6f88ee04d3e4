\* A hint file that is written twice between two polls of the fetcher.
SPECIFICATION Spec
CONSTANTS
  Trains = {1, 2}
  Stations = {}
  Debounce = 1
  MinGap = 2
  MaxPerFlush = 1
  WritesFail = FALSE
PROPERTIES HintReachesPoll
CHECK_DEADLOCK FALSE
