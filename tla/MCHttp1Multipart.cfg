SPECIFICATION UploadSpec
CONSTANTS
  Byte <- MCByte
  Form <- MCForm
  Boundary <- MCBoundary
  BlockSize = 40
  AllowEmpty = FALSE
  MaxFileSize = 4
  MaxFilesTotal = 5
  MaxFieldsTotal = 4
  MaxFiles = 1
  MaxFields = 2
  DiskSpace = 3
  Blank = {" ", "cr", "lf"}
  Lead = {"l"}
  Trail = {"t"}
  CleanReads = TRUE
INVARIANTS
  FormIsWhole
  SkipIsRest
  FormIsRead
CHECK_DEADLOCK FALSE
