SPECIFICATION Spec
CONSTANTS
  w1 = w1
  w2 = w2
  r1 = r1
  None = None
  Writers = {w1, w2}
  Readers = {r1}
  OneServer = TRUE
  PageSize = 3
  MaxFaults = 1
CHECK_DEADLOCK FALSE
SYMMETRY Symmetry
INVARIANTS TypeOK NoDanglingMail MailsInOrder MailsReadable ReadsComplete
