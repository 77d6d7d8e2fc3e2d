CONSTANTS
  de = de
  en = en
  m = m
  v1 = v1
  v2 = v2
  a1 = a1
  a2 = a2
  b2 = b2
  Absent = Absent
  NoPattern = NoPattern
  Refused = Refused
  LoadError = LoadError
  Locales = {de, en}
  Negotiations <- MCNegotiations
  ResIds <- MCResIds
  Loads <- MCLoads
  Ids = {m}
  Defs <- MCDefs
  AttrNames <- MCAttrNames
  Resources <- MCResources
  Overriding = {TRUE, FALSE}
SPECIFICATION Spec
INVARIANTS TypeOK ChainAsLoaded FirstBundleWins WholeMessage
