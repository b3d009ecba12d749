\* Three frames, of which two fit into the ring; a byte of text read as a
\* length announces more than a frame, or than g_data holds; the clock wraps in the third second.
CONSTANTS
  Payloads <- MCPayloads
  Text <- MCText
  BYTE = 16
  UART0_RX_BUFFER_SIZE = 18
  CMD_MAX_FRAME_SIZE = 8
  CMD_UART_RCV_DATA_TIMEOUT = 1
  SECOND = 10
  TIME_WRAP = 22
  MaxSec = 4
  MaxOverruns = 1
SPECIFICATION Spec
INVARIANTS TypeOK StaysInBounds HeadFrameReceived NoForgery LostOnlyIfCut
