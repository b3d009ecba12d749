\* Two messages of the thread, of which the first fills the buffer, and one
\* of the sampler; the phone's ints have two bits.  The node stops when all
\* messages are sent.
CONSTANTS
  MsgLen <- MCMsgLen
  SamplerLen = 4
  JSON_BUFFER_SIZE_MAX = 5
  Text = 5
  BYTE = 6
  MaxBehind = 1
  MaxSamples = 1
  HALF = 2
  CMD_FRAME_RCV_TIMEOUT = 1
SPECIFICATION Spec
INVARIANTS TypeOK UnmixedReceived NoFalseMessages TimeoutExact
CHECK_DEADLOCK FALSE
