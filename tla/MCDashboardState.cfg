SPECIFICATION Spec
CONSTANTS
  a = a  b = b  quiet = quiet  missing = missing  jailed = jailed
  NoTitle = quiet
  Chains = {a, b}
  Network <- MCNetwork
  Title <- MCTitle
  MaxUpdates = 2  MaxWire = 1  MaxRequests = 2
INVARIANT StateNetworkFirst
