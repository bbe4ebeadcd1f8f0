\* With two goroutines on one plugin.
SPECIFICATION Spec
CONSTANTS
  Plugins <- MCPlugins
  Keys <- MCKeys
  Isolates <- MCIsolates
  Private <- MCPrivate
  Inject <- MCInject
  Script <- MCScript
  Faulty = {3}
  Callers = {"a", "b"}
  Profiles <- Together
  MaxForks = 4
INVARIANT NoResidue
