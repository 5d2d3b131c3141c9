SPECIFICATION KbdSpec
CONSTANTS
  Letters = {16}
  MaxHeld = 2
  UsbKeys = {20, 57}
  SLOTS = 2
PROPERTIES CtrlQQuits
