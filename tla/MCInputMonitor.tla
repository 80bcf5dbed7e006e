---------------------------- MODULE MCInputMonitor ----------------------------
(***************************************************************************)
(* A keyboard, a touchpad and a power button for two paths, so that every  *)
(* path can be taken over and one device is none the monitor wants.        *)
(***************************************************************************)
EXTENDS InputMonitor

CONSTANTS keyboard, touchpad, button

MCDevices  == {keyboard, touchpad, button}
MCSupports ==
  [d \in MCDevices |->
     CASE d = keyboard -> {"KEY_A", "KEY_ENTER", "KEY_SPACE"}
       [] d = touchpad -> {"BTN_TOUCH", "ABS_X", "ABS_Y"}
       [] d = button   -> {"KEY_POWER"}]
=============================================================================
