\* Three processes on cpus 1, 2 and 5; queues of two packets; barrier 1 with
\* ssmp_color_app and color of ssmp.c.
CONSTANTS
  N = 3
  Cpus = {1, 2, 5}
  Colors <- LibraryColors
  Room = 2
  MaxSent = 2
  MaxRounds = 2
SPECIFICATION FairSpec
INVARIANTS Delivered Together IInv
PROPERTIES Released
\* A process may wait for a message that nobody sends.
CHECK_DEADLOCK FALSE
