SPECIFICATION Spec
CHECK_DEADLOCK FALSE
CONSTANTS
  SERIAL_USB_BUF_SIZE = 4
  SYSC_MAX_FILES = 2
  SYSC_NAME_MAX = 2
  RX_BUF_SIZE = 64
  OscTicks = 243
  OscNanoseconds = 12500
  Wendy2Rom <- Wendy2RomBytes
  Wendy2Cycles <- Wendy2Ticks
  W2Batch = 200
  W2Setups = {}
  INJECT_SIZE = 32
  REPAINT_WINDOW = 2
  SERIAL_BUF_SIZE = 4
  TicksPerMs = 20
  FILE_IO_MAX_HANDLES = 5
  PacePolls = 2
  NmosCycles <- NmosTicks
  NmosCap = 2000
  NmosRepaint = 50
  NmosPatience = 3
  NmosSetups = {}
  ServerScripts = {}
  ServerDisks <- ServerSmallDisks
  PS2_QUEUE_SIZE = 16
  MICHAEL_TICKS_PER_US = 1
  PS2_BIT_US = 4
  DETECT_IDLE_US = 12
  START_DELAY_US = 30
  REPLY_DELAY_US = 30
  BYTE_GAP_US = 90
  KEY_QUIET_US = 60
  KEY_INTERVAL_US = 100
  FPGA_TEXT_ROWS = 3
  FPGA_TEXT_COLS = 2
  ILI9341_LINES = 3
  ILI9341_WIDTH = 4
  CELL_W = 1
  CELL_H = 1
  CURSOR_ROWS = 1
  FPGA_TEXT_BLINK_US = 100
  Font <- DotFont
  W5500_SOCKETS = 2
  W5500_BUFFER = 8
  FPGA_REPLY_DEPTH = 4
  MichaelCycles <- MichaelTicks
  MiBatch = 250
  MiSetups = {}
  RB_CAPACITY = 2
  WORD = 4
  Sample = {0, 1}
  FrameCounts = {1, 3}
  Silence = 0
  OSC_TICK = 3
  OSC_PER_SAMPLE = 7
  AudioSamples = 0
  WEB_DISPLAY_BAND = 1
  WEB_MAX_CLIENTS = 1
  CLIENT_INBUF_SIZE = 4
  CLIENT_OUTBUF_SIZE = 60
  EVENT_QUEUE_SIZE = 3
  AUDIO_RING_CAPACITY = 3
  AUDIO_FRAME = 1
  DISPLAY_BUDGET = 20
  DISPLAY_LEAST = 2
  SNAPSHOT = 2
  FILE_SIZE = 8
  SOCKET_ROOM = 60
  WebColours = {7, 65535}
  WebSetups <- WebTurnsSetups
INVARIANT RectanglesFit
