SPECIFICATION Spec
CONSTANTS
  s1 = s1  s2 = s2  c1 = c1  c2 = c2
  nodes = nodes  volumes = volumes  claims = claims  none = none
  Constructors = {s1}
  Creators = {c1, c2}
  BaseInformers = {nodes}
  PluginInformers = {volumes}
  None = none
  Cancellable = {c1}
CHECK_DEADLOCK FALSE
INVARIANTS
  StaysLive
