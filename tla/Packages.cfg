\* The installers, the rebuild, AutoLink and the builder: two processes that
\* install, three starts of the others, three edits of the dependencies.
SPECIFICATION PackagesSpec
CONSTANTS
  Installer = {p1, p2}
  Files = {exe, lib}
  Exe = exe
  Forcing = {}
  MaxRuns = 2
  Items = {fw, dll}
  Framework = fw
  Darwin = FALSE
  MaxCefRuns = 3
  HeaderFiles = {h1, h2}
  NativeModules = 2
  Windows = TRUE
  MaxRebuilds = 3
  Packages = {"a", "b"}
  Rank <- MCRank
  Targets <- MCTargets
  Apple = {"mac"}
  Artifacts = {"lib", "build", "link", "away"}
  Shape <- MCShape
  Pointed <- MCPointed
  Contents <- MCContents
  Posix = TRUE
  MaxEdits = 3
  Archs = {"x64", "arm64", "ia32"}
  HostArch = "arm64"
  BuilderConfigs <- MCConfigs
  CommandLines <- MCCommandLines
CHECK_DEADLOCK FALSE
INVARIANTS StagingAgrees BuiltAsAsked
PROPERTIES RuntimeImplements InstallersEnd InstalledIsWhole
