SPECIFICATION MemberSpec
CONSTANTS
  Keys = {tag, cap}
  MaxTime = 3
  Delta = 1
INVARIANT OrderFree
