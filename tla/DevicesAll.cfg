SPECIFICATION MCSpec
CONSTANTS
  Client = {c1}
  Buf = {b1, b2}
  RdBlock = {1, 2}
  RdData = {0, 1}
  RD_RETRIES = 2
  RdMaxSeq = 2
  Late = FALSE
  LfName = {"f", "g"}
  LfMayWrite <- MCLfMayWrite
  LF_BLKSIZ = 2
  LF_IBLEN = 1
  LfPerSector = 2
  LfIblks = 3
  LfSectors = 5
  Nlfl = 2
  LfTwice = FALSE
  LfMaxTrunc = 1
  LF_NUM_DIR_ENT = 2
  RfName = {"f"}
  RfByte = {"a", "b"}
  Nrfl = 1
  RF_RETRIES = 2
  RfMaxSeq = 3
  RfMaxPos = 1
  TY_IBUFLEN = 3
  TY_OBUFLEN = 2
  TY_EBUFLEN = 2
  UART_FIFO_SIZE = 2
  TtyKey = {"x", "nl", "bs", "kill", "eof", "stop", "start"}
  TtyWriter = {"w"}
  TtyChar = {"a", "nl"}
  TtyPrompt = TRUE
  NmDevs <- MCNmDevs
  NmRfs = {"RFILESYS", "SYSERR"}
  NmDir <- MCNmDir
  NmName <- MCNmName
  NmMounts <- MCNmMounts
  NM_PRELEN = 6
  NM_REPLLEN = 4
  NM_MAXLEN = 16
  NNAMES = 13
  NmCharMax = 7
  LxChar = {"a", " ", "&", "<", "'"}
  LxMaxLen = 5
  SHELL_MAXTOK = 3
  ShPids = 3
  ShBuiltin = {"k", "exit"}
  ShCommand = {"c", "k", "exit"}
  SdCards = 2
  dt_daylight = "AUTO"
  AsHours = {0, 1, 2, 23}
  AsLastYear = 2003
  QsKey = {1, 2, 3}
  QsMaxLen = 6
INVARIANTS RdPromisesKept LfFilesKept RfAcknowledgedKept
  TtyInputKept TtyOutputFaithful NamesKeepTheirMeaning LexanFaithful ShellSound SdReadsSelectedCard LibrarySound
CHECK_DEADLOCK FALSE
