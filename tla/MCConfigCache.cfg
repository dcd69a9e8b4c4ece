SPECIFICATION Spec
CONSTANTS
  t1 = t1
  t2 = t2
  p1 = p1
  p2 = p2
  sale = sale
  Absent = Absent
  Procs = {p1, p2}
  Threads = {t1, t2}
  Home <- OwnProcess
  Params = {"mcp"}
  Models = {sale}
  Grants <- GrantsOfRead
  Gates <- ReadGates
  Initial <- OffAndOn
  MaxEdits = 2
INVARIANTS TypeOK ReadsAreRegular WizardSparesActive
