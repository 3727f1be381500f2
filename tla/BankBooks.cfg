\* Two servers, two applications, two operations each.
CONSTANTS
  N = 4
  DslPerCore = 2
  Accounts = {a1}
  NumOps = 2
  Ops = {"DEPOSIT", "WITHDRAW", "CHECK"}
SPECIFICATION Spec
INVARIANTS IInv Conserved NeverOverdrawn AnswersMatch
\* With two applications the program may stop before its end (see BankRace).
CHECK_DEADLOCK FALSE
