SPECIFICATION Spec
CONSTANTS
  Users = {u1, u2}
  Emails = {e1, e2}
  Registrations = {r1, r2}
  Addresses = {a1, a2}
  Transactions = {t1, t2, t3}
  Answers <- MCAnswers
  None = None
SYMMETRY Symmetry
INVARIANTS
  LinkedIsProven
  PartiesDiffer
  HeldGrantIsNarrow
PROPERTIES
  UnlinkedNeedsNewProof
  SubmissionSawBoth
