SPECIFICATION Spec
CONSTANTS
  a = a
  b = b
  c = c
  Torrent = {a, b, c}
  Request = {r1, r2}
  Size <- MCSize
  ChunkSize = 2
  Results <- MCResults
  PacketsLimit = 2
  MaxDeliveries = 1
  NoTorrent = NoTorrent
  NoSending = NoSending
CHECK_DEADLOCK FALSE
SYMMETRY MCSymmetry
INVARIANTS LimitIsKept ReportedOnce OneTextQuery NothingSkipped
