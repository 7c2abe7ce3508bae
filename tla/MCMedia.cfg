SPECIFICATION MediaSpec
CONSTANTS
  Life = {1, 2}
  Producer <- MCProducer
  Apps <- MCApps
  InBuf = 1
  OutBuf = 1
  Infos = 1
  MaxCount = 1
  JavaThread = {t1, t2}
  MaxBuffers = 2
INVARIANTS OnlyLetGoFails ManualModeDelivers
PROPERTY StoppedCodecGoes FeederNotStuck
CHECK_DEADLOCK FALSE
