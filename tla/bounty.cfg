CONSTANTS
  None = None
  Users = {u1, u2}
  Questions = {q1, q2}
  Answers = {a1, a2, a3, a4}
  Events = {e1, e2}
  Slots = {s1, s2}
  Author <- MutualAuthor
  People <- MutualPeople
  PerPerson <- MutualPerPerson
  QuestionOf <- MutualQuestionOf
  AnswerBy <- MutualAnswerBy
  EventUser <- MutualEventUser
  EventDelta <- MutualEventDelta
  MaxAborts = 1
SPECIFICATION Spec
INVARIANTS
  LedgerSound
  BountyFair
SYMMETRY Alike
