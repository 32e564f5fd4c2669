SPECIFICATION ScriptSpec
CONSTANTS
  Ints = {"0", "1", "2", "3", "4", "5", "11", "111", "1111", "0x11", "0b1"}
  Floats = {"1.5", "8.0", "1.50", "1e1", "02.0i"}
  Names = {"x", "f", "NAME", "INT", "FLOAT", "import", "ret", "throw", "break", "cont", "if", "elif", "else", "while", "for", "try", "x1"}
  Inputs <- ShortTokens
  MaxFails = 1
  Texts <- MCTexts
  Programs <- MCPrograms
  Spelling <- MCSpelling
  Worth <- MCWorth
  Trees <- MCTrees
  Nodes <- MCNodes
  Results <- MCResults
  MaxNum = 200
  Other = Other
  OutOfMemory = TRUE
INVARIANTS TilesSource LongestMatch
INVARIANTS ScriptTypeOK ReadsAsGrammar Balanced ShortBuffersHold EvalBalanced ValueRight
PROPERTIES ScriptEnds
CHECK_DEADLOCK FALSE
