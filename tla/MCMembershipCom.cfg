SPECIFICATION MemberSpec
CONSTANTS
  Keys = {tag}
  MaxTime = 3
  Delta = 1
INVARIANT ComOrderFree
