CONSTANTS
  Task = {t1, t2, t3, t4}
  Worker = {w1, w2}
  NoTask = NoTask
SPECIFICATION LiveSpec
INVARIANTS EachTaskOnce NoSendOnClosed
PROPERTIES RefinesStream NobodyStaysBehind
CHECK_DEADLOCK FALSE
