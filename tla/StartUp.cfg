SPECIFICATION Spec
CONSTANTS
  s1 = s1  s2 = s2  c1 = c1  c2 = c2
  nodes = nodes  volumes = volumes  claims = claims  none = none
  Constructors = {s1, s2}
  Creators = {c1, c2}
  BaseInformers = {nodes}
  PluginInformers = {volumes, claims}
  None = none
  Cancellable = {s1, c1, c2}
CHECK_DEADLOCK FALSE
INVARIANTS
  TypeOK
  ReadyMeansSynced
  MetricsFirst
PROPERTIES
  CallsReturn
