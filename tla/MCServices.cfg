SPECIFICATION ServicesSpec
CONSTANTS
  MAX_DEVICES = 2
  Sensors <- MCSensors
  CapacityInputs = {500, 7}
  WebSockets = {"ws"}
  I2C_COMMAND_CAPACITY = 1
  AddInputs <- MCAdds
  SlotInputs = {1, 2}
  MeasureInputs = {"MeasureBatterySoc", "MeasureExternalTemperature"}
  RawAddresses = {11}
  MaxI2cTimeouts = 1
  CanClients = {"a", "b"}
  CAN_EVENT_CAPACITY = 2
  CAN_COMMAND_CAPACITY = 2
  BitrateInputs = {250000, 9600}
  ModeInputs = {"loopback"}
  MaxFrames = 3
  MaxCanTimeouts = 2
  Browsers = {"a", "b"}
  AppNames = {"x"}
  CHUNK = 1
  MaxLength = 2
  MaxUploads = 2
  MaxAttaches = 1
INVARIANTS ServicesTypeOK AnswersKeepStep RegisteredIsAwake SettingsBelongToDevice
  FramesReachClients UploadIsWhole LateWritesBounded
CHECK_DEADLOCK FALSE
