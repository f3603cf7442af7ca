SPECIFICATION FairSpec
CONSTANTS
  c1 = c1
  c2 = c2
  c3 = c3
  page = page
  docs = docs
  passage = passage
  Claims = {c1, c2, c3}
  Sources = {page, docs, passage}
  Documents = {passage}
  Official = {docs}
  MaxSubquestions = 2
  MaxCrosscheck = 2
  ExtractTop = 2
CHECK_DEADLOCK FALSE
INVARIANTS GraphInv
PROPERTIES FollowUpsNeverClose Answered
