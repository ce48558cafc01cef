SPECIFICATION Spec
CONSTANTS
  h1 = h1
  h2 = h2
  a1 = a1
  a2 = a2
  l1 = l1
  l2 = l2
  l3 = l3
  e1 = e1
  e2 = e2
  s1 = s1
  s2 = s2
  None = None
  Handlers = {h1}
  Ids = {a1, a2}
  Lineages = {l1, l2}
  Emails = {e1}
  EmailOf <- OneMailbox
  SubjectOf <- Subjects
  MintedAt <- Minted
  MaxIat = 3
SYMMETRY Symmetry
INVARIANTS
  RoutableIsTrusted
  ImportedIsServing
  RolledBackIsUndone
  QuarantinedIsKept
PROPERTY
  KeepsPromise
