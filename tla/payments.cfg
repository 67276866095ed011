SPECIFICATION Spec
CONSTANTS
  u1 = u1  u2 = u2  c1 = c1  c2 = c2  a1 = a1
  Users = {u1, u2}
  Charges = {c1, c2}
  Admins = {a1}
  None = None
  Term = 2  Reward = 1
  MaxUpsets = 1
SYMMETRY Alike
INVARIANTS TypeOK GrantedIsRecorded MemberPaymentRecorded RewardedOnce RefundedIsReturned DaysAreBought TierFollowsDays
