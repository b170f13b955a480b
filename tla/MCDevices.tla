------------------------------- MODULE MCDevices --------------------------------
(***************************************************************************)
(* Model checking of two drivers of the USB host that hand data from core  *)
(* 1 to a client of core 0: the audio stream and the BleuIO dongle with    *)
(* its serial bridge.  There is one device on the port at a time and the   *)
(* two share no channel, so that one of them, chosen at the beginning,     *)
(* takes all the steps.                                                    *)
(***************************************************************************)
EXTENDS AudioStream, BleuioManager

VARIABLE driver    \* the driver that is checked

devicesVars == <<driver, audioVars, bleuioVars>>

DevicesInit == driver \in {"audio", "bleuio"} /\ AudioInit /\ BleuioInit

OfAudio(A) == driver = "audio" /\ A /\ UNCHANGED <<driver, bleuioVars>>
OfBleuio(A) == driver = "bleuio" /\ A /\ UNCHANGED <<driver, audioVars>>

DevicesNext == OfAudio(AudioNext) \/ OfBleuio(BleuioNext)

\* Core 1 publishes what it has begun to and core 0 goes on with a scan of the
\* slots; the futures of the manager go on when they can, each transfer ending
\* within its time limit, and so does the serial task.  Nothing is assumed of
\* the devices and of the clients.
DevicesSpec ==
  /\ DevicesInit /\ [][DevicesNext]_devicesVars
  /\ WF_devicesVars(OfAudio(PublishNext))
  /\ WF_devicesVars(OfAudio(TakeNext))
  /\ WF_devicesVars(OfBleuio(UsbInNext))
  /\ WF_devicesVars(OfBleuio(CommandNext))
  /\ WF_devicesVars(OfBleuio(EndManager))
  /\ WF_devicesVars(OfBleuio(DeliverFrame))
  /\ WF_devicesVars(OfBleuio(ClientEnds \/ BridgeClosed \/ GiveUp \/ FlushTcp))

DevicesTypeOK == AudioTypeOK /\ BleuioTypeOK
================================================================================
