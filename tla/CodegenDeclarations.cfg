SPECIFICATION Spec
CONSTANTS
  VarNames <- DeclVars
  Hints <- DeclHints
  Literals <- DeclLiterals
  Operators = {}
  Callees <- DeclCallees
  Signatures <- DeclSignatures
  Statements = {"let", "discard"}
  MaxFunctions = 2
  MaxDepth = 3
INVARIANTS TypeOK CallsWellTyped StorageMatchesSymbol OwnStorage SymbolsHaveStorage FunctionSymbolsResolve BuiltinNamesStable FailedLookupsStop
PROPERTIES ImplementsNameTables
