SPECIFICATION FairSpec
CONSTANTS
  c1 = c1
  c2 = c2
  Conns = {c1, c2}
  Reliable = {c1}
  Bytes <- MCBytes
  Streams <- MCStreams
  EmptyStore <- MCEmpty
  ReadBufSize = 8
  NoValue <- MCNoValue
  ErrorReply <- MCError
  parse <- MCParse
  encode_to_vec <- MCEncode
  dispatch_command <- MCDispatch
  Others <- MCOthers
  MaxKeyLen = 1
  MaxValLen = 2
  Capacity = 1
  W = 8192
INVARIANTS
  TypeOK
  AsWhole
  AnswersReadBack
  AnswerTrue
PROPERTIES
  AllAnswered
