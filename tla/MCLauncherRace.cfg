CONSTANTS
  Analyses = {url, asset}
  UrlAnalyses = {url}
  MaxAttempts = 3
  MaxRestarts = 1
  Runs = {a, b}
  HeatmapMaxAttempts = 2
  MaxBaselineRetries = 1
  Jobs = {j1}
  DesignMaxAttempts = 3
  Captures = {c1, c2}
  Others = {backend, worker}
  Steps = 2
  Visits = {page, devices}
  DeviceVisits = {devices}
  MaxConcurrent = 1
  MaxRedirects = 0
  Profiles = 2
SPECIFICATION JobsSpec
INVARIANT AskedBeforeKilled
CHECK_DEADLOCK FALSE
