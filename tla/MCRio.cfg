\* Lines longer and shorter than the line buffers, reads larger and smaller than the
\* buffer, a pipe that holds less than a line.
CONSTANTS
  Length = 6
  Newlines <- MCNewlines
  PIPE = 3
  RIO_BUFSIZE = 2
  Sizes = {1, 3, 4}
  SIGNALS = 2
SPECIFICATION Spec
PROPERTIES
  ImplementsByteStream
  CallsReturn
CHECK_DEADLOCK FALSE
