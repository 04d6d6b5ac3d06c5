CONSTANTS
  LightBlocks = 2
  LightsPerBlock = 8
  InitialLights = 4
  LightStep = 4
  ForwardLights = 4
SPECIFICATION LightsSpec
INVARIANTS LightsTypeOK FrameDrawsTheCount
CHECK_DEADLOCK FALSE
