SPECIFICATION Spec
CONSTANTS
  kernel = kernel  process = process  NONE = NONE  ABSENT = ABSENT
  Space = {kernel, process}
  GLOBAL = kernel
  USER = process
  Top <- MCTop
  TABLE = 8
  PER_PAGE = 3
  LENGTHS = {1, 2, 3}
  PHYS = {1, 2}
CONSTRAINT InStep
CHECK_DEADLOCK FALSE
INVARIANTS RegionsAgree SpacesAsAsked TranslationsMatch DataKept
