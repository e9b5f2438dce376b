CONSTANTS
  None = None
  Plugins <- MCPlugins
  Packages <- MCPackages
  DefaultTheme = "t.default"
  Host = "host"
  MaxReleases = 2
SPECIFICATION StartupSpec
INVARIANTS
  GrantsAreOfTheFirstInstall
  ThemesAreLoaded
