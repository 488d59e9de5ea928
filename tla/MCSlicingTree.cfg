SPECIFICATION Spec
CONSTANTS
  None = None
  Dir <- Dirs1
  Packages <- Packages1
  Closure <- Closure1
  Symbol <- Symbols
  Declared <- Declares
  Selectors = {"PROVIDES"}
  Prefix <- NamePrefixes
  StartsWith <- Starts
  AnySymbol = {"BR2_PACKAGE_"}
  Var <- Vars
  Owner <- Owners
  MakeFiles <- Texts
  MaxEdits = 2
INVARIANT WrittenEntriesExist
