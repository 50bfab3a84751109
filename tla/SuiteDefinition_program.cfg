SPECIFICATION Spec
CONSTANTS
  Variable = {"v", "w"}
  Holder = {"h"}
  Catalog <- MCCatalog
CHECK_DEADLOCK FALSE
INVARIANTS NothingLostSilently RegistryOutlivesHandles
PROPERTIES DefinedAtOnce
