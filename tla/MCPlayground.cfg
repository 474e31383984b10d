SPECIFICATION FairSpec
CONSTANTS
  NumRequests = 2
  MaxChunks <- MCMaxChunks
  StreamModes = {TRUE, FALSE}
  ChunkTexts <- MCChunkTexts
  Answers <- MCAnswers
INVARIANTS TypeOK OneStream ReloadSettles ShowsWhatArrived
PROPERTY GenerationEnds
