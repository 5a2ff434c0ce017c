SPECIFICATION Spec
CONSTANTS
  star = star
  kubectl = kubectl
  get = get
  pwd = pwd
  getPods = getPods
  pwdCall = pwdCall
  other = other
  Patterns = {star, kubectl, get, pwd}
  Star = star
  Rank <- Order
  Calls = {getPods, pwdCall, other}
  Matches <- Matching
  Commands <- ShellCommands
INVARIANT DenialNamesFirst
PROPERTY VerdictFollowsPolicy
