SPECIFICATION StatementSpec
CONSTANTS
  Width = 2
  Types = {1, 2}
  Attribs = {2}
  Classes = {"chr_file"}
  Effects = {"XPERMS_ALLOWED"}
  Ranges <- OneDriver
  Any = Any
  Files <- MCFiles
  Target <- MCTarget
  MaxItems = 2
INVARIANT ComplementIsTheRest
