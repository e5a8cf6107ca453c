SPECIFICATION Spec
CONSTANTS
  Page = 2
  RelocAlign = 4
  PtAlign = 4
  PtSize = 3
  BootStart = 2
  VM_KERNEL_BASE = 100
  MaxPhdr = 3
  MaxBootinfoPhdrs = 2
  MemSizes = {7, 20, 27, 32}
  MaxMem = 32
  Images <- MCImages
INVARIANT PanicMeansMissing
