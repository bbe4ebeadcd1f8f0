\* With two plugins that provide one key, one line at a time.
SPECIFICATION Spec
CONSTANTS
  Plugins <- MCPlugins
  Keys <- MCKeys
  Isolates <- MCIsolates
  Private <- MCPrivate
  Inject <- MCNoInject
  Script <- MCShadowing
  Faulty = {3}
  Callers = {"a", "b"}
  Profiles <- Apart
  MaxForks = 4
INVARIANT RegisteredPluginWhole
\* INVARIANT NoResidue
