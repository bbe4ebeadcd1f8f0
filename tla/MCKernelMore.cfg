SPECIFICATION Spec
CONSTANTS
  Plugins <- MCPlugins
  Keys <- MCKeys
  Isolates <- MCIsolates
  Private <- MCPrivate
  Inject <- MCInject
  Script <- MCScript
  Faulty = {3}
  Callers = {"a", "b"}
  Profiles <- Apart
  MaxForks = 4
INVARIANTS
  TypeOK
  OneGeneration
