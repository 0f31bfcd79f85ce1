SPECIFICATION Spec
CONSTANTS
  Null = Null
  Torn = Torn
  Clerks = {c}
  s1 = s1
  s2 = s2
  f1 = f1
  f2 = f2
  Sources = {s1, s2}
  Findings = {f1, f2}
  Reviewers = {r}
  Url <- MCUrl
  Content <- MCContent
  KnownSubjects = {s1}
  Decisions = {"Approve", "Reject"}
  MaxReviews = 2
  MaxAttempts = 3
  MaxFaults = 1
INVARIANT
  RetriesDoNotDuplicate
CHECK_DEADLOCK FALSE
