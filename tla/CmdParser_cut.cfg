\* No byte is lost and the clock does not wrap: a frame is lost all the same.
CONSTANTS
  Payloads <- MCPayloads
  Text <- MCText
  BYTE = 16
  UART0_RX_BUFFER_SIZE = 18
  CMD_MAX_FRAME_SIZE = 8
  CMD_UART_RCV_DATA_TIMEOUT = 1
  SECOND = 10
  TIME_WRAP = 100
  MaxSec = 4
  MaxOverruns = 0
SPECIFICATION Spec
INVARIANT NoFrameLost
