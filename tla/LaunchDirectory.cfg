INIT TextsInit
NEXT TypeText
CONSTANTS
  TextChars = {"a", ";", "#"}
  MaxText = 2
INVARIANT LaunchIsOneCommand
CHECK_DEADLOCK FALSE
