\* One server, two applications that each make one deposit.
CONSTANTS
  N = 3
  DslPerCore = 3
  Accounts = {a1}
  NumOps = 1
  Ops = {"DEPOSIT"}
SPECIFICATION FairSpec
PROPERTY Finishes
\* The program may stop before its end: that is the question.
CHECK_DEADLOCK FALSE
