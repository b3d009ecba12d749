\* Both messages of the thread fit into the buffer; one of the sampler.
CONSTANTS
  MsgLen <- MCMsgLen
  SamplerLen = 4
  JSON_BUFFER_SIZE_MAX = 6
  Text = 5
  BYTE = 8
  MaxBehind = 1
  MaxSamples = 1
  HALF = 2
  CMD_FRAME_RCV_TIMEOUT = 1
SPECIFICATION Spec
INVARIANT FramesArrive
CHECK_DEADLOCK FALSE
