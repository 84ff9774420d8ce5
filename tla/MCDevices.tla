----------------------------- MODULE MCDevices -----------------------------
(* The components whose hazards are in their data: media, clocks, display buffers,
   frames, registers and coordinates; the mailbox, the storage, its services and the
   control transfers of the West Bridge chip; and the retries of an I2C register access.
   They share no state: part names the one that runs, and the others keep one of
   their initial states. *)
EXTENDS MCI2cReg, MsTick, LcdBuffers, WbLowLevel, WbStorage, WbServices,
        WbControl

CONSTANTS
    InLengths, KMaxWrites,
    KDiskSectorSize, KNVMemTransferBufferSize, DiskSize, MaxLength, Kinds, KMaxRequests,
    iBlockSize, Blocks, WbPositions, WbLengths, WbKinds, Tables,
    Times, KMaxDays,
    ua, ub,
    KMaxFrames, KFifo, KApart, FirstByte,
    Addresses, Modes, KMaxReads,
    KShift, Width, Height, Panels, Default

VARIABLES
    part,
    tx, host, finished,
    disk, rd, client, should, requests,
    medium, wb, answer, written, partitions,
    rtc, reader, got,
    line, mouse, reports,
    ctl, chip,
    config, panel, origin

In == INSTANCE UsbBulkIn WITH Lengths <- InLengths
Rd == INSTANCE MediaStaticRd
Wb == INSTANCE MediaWb
Time == INSTANCE TimeOfDay
Mouse == INSTANCE SerialMouse
Ctl == INSTANCE TouchController
Cal == INSTANCE Calibration

inVars == <<tx, host, finished>>
rdVars == <<disk, rd, client, should, requests>>
wbVars == <<medium, wb, answer, written, partitions>>
timeVars == <<rtc, reader, got>>
mouseVars == <<line, mouse, reports>>
chipVars == <<ctl, chip>>
calVars == <<config, panel, origin>>

\* The others stand still.
RegStill == UNCHANGED allVars
UsbStill == UNCHANGED inVars
MediaStill == UNCHANGED <<rdVars, wbVars>>
WestBridgeStill == UNCHANGED <<llVars, storageVars, servicesVars, controlVars>>
ClocksStill == UNCHANGED <<msTickVars, timeVars>>
ScreenStill == UNCHANGED <<lcdVars, chipVars, calVars>>
MouseStill == UNCHANGED mouseVars

-----------------------------------------------------------------------------
(* Instances of the data *)

\* Days of the four kinds of year, whose numbers DecimalToBcd() leaves as they are:
\* those below ten.
TheTimes == {days * 86400 + 3 * 3600 + 7 * 60 + 9 :
                days \in {35, 366 + 251, 366 + 365 + 365 + 218, 1461 + 33}}

\* Two requests of one context follow each other, one of two parts and waited for, the
\* other with a response of two; the firmware asks in both contexts.
TheContexts == [r \in Rqts |-> 0]
TheRequestParts == [r \in Rqts |-> IF r = "write" THEN 2 ELSE 1]
TheResponseParts == [r \in Rqts |-> IF r = "read" THEN 2 ELSE 1]
TheEvents == [c \in 0..(KContexts - 1) |-> IF c = 0 THEN <<2>> ELSE <<1>>]

Entry(boot, type, first, sectors) ==
    [boot |-> boot, type |-> type, first |-> first, sectors |-> sectors]
Entries == {Entry(FALSE, type, first, sectors) :
                type \in {"fat", "other"}, first \in {1, 3}, sectors \in {2, 9}}
           \cup {Entry(TRUE, "fat", 2, sectors) : sectors \in {0, 2}}
           \cup {Entry(FALSE, "none", 0, 0)}
TheTables == {<<>>} \cup [1..2 -> Entries]

\* A panel sees the screen shifted, scaled, sheared and turned over.
Corners == {"iTl", "iBl", "iBr"}
Panel(left, width, shear, top, height) ==
    [k \in Corners |-> [x |-> (IF k = "iBr" THEN left + width ELSE left)
                                  + (IF k = "iTl" THEN shear ELSE 0),
                        y |-> IF k = "iTl" THEN top ELSE top + height]]
ThePanels == {Panel(left, width, shear, tall[1], tall[2]) :
                  left \in {4, 20}, width \in {40, 70}, shear \in {0, 3},
                  tall \in {<<6, 50>>, <<50, -40>>, <<20, 35>>}}
TheDefault == [iR11 |-> 160, iR12 |-> 0, iR21 |-> 0, iR22 |-> -120, iTx |-> 0, iTy |-> 120]

-----------------------------------------------------------------------------
DevicesInit ==
    /\ part \in {"reg", "usb", "rd", "wb", "ll", "storage", "services", "control", "tick", 
                 "time", "lcd", "mouse", "chip", "cal"}
    /\ InitReg /\ In!TxInit /\ Rd!RdInit /\ Wb!WbInit /\ LlInit /\ StorageInit
    /\ ServicesInit /\ ControlInit
    /\ MsTickInit /\ Time!TimeInit /\ LcdInit /\ Mouse!MouseInit
    /\ Ctl!CtlInit /\ Cal!CalInit
    /\ part # "time" => rtc.set = CHOOSE time \in Times : TRUE
    /\ part # "cal" => panel = CHOOSE p \in Panels : TRUE
    /\ part # "services" => svc.count = 0

\* Disk and registers, clocks, screen and mouse.
IoStill == RegStill /\ UsbStill /\ MediaStill
UserStill == ClocksStill /\ ScreenStill /\ MouseStill
LlAlone == UNCHANGED part /\ IoStill /\ UserStill /\ UNCHANGED <<storageVars, servicesVars, controlVars>>
StorageAlone == UNCHANGED part /\ IoStill /\ UserStill /\ UNCHANGED <<llVars, servicesVars, controlVars>>
ServicesAlone == UNCHANGED part /\ IoStill /\ UserStill /\ UNCHANGED <<llVars, storageVars, controlVars>>
ControlAlone == UNCHANGED part /\ IoStill /\ UserStill /\ UNCHANGED <<llVars, storageVars, servicesVars>>

IoNext ==
    /\ part \in {"reg", "usb", "rd", "wb"} /\ UNCHANGED part /\ WestBridgeStill /\ UserStill
    /\ \/ part = "reg" /\ NextReg /\ UsbStill /\ MediaStill
       \/ part = "usb" /\ In!TxNext /\ RegStill /\ MediaStill
       \/ part = "rd" /\ Rd!RdNext /\ UNCHANGED wbVars /\ RegStill /\ UsbStill
       \/ part = "wb" /\ Wb!WbNext /\ UNCHANGED rdVars /\ RegStill /\ UsbStill

UserNext ==
    /\ part \in {"tick", "time", "lcd", "mouse", "chip", "cal"} /\ UNCHANGED part /\ WestBridgeStill /\ IoStill
    /\ \/ part = "tick" /\ MsTickNext /\ UNCHANGED timeVars /\ ScreenStill /\ MouseStill
       \/ part = "time" /\ Time!TimeNext /\ UNCHANGED msTickVars /\ ScreenStill /\ MouseStill
       \/ part = "lcd" /\ LcdNext /\ UNCHANGED <<chipVars, calVars>>
          /\ ClocksStill /\ MouseStill
       \/ part = "chip" /\ Ctl!CtlNext /\ UNCHANGED <<lcdVars, calVars>>
          /\ ClocksStill /\ MouseStill
       \/ part = "cal" /\ Cal!CalNext /\ UNCHANGED <<lcdVars, chipVars>>
          /\ ClocksStill /\ MouseStill
       \/ part = "mouse" /\ Mouse!MouseNext /\ ClocksStill /\ ScreenStill

DevicesNext ==
    \/ IoNext
    \/ UserNext
    \/ part = "ll" /\ LlNext /\ LlAlone
    \/ part = "storage" /\ StorageNext /\ StorageAlone
    \/ part = "services" /\ ServicesNext /\ ServicesAlone
    \/ part = "control" /\ ControlNext /\ ControlAlone

LlHost == part = "ll" /\ Host
LlInterrupt == part = "ll" /\ MailBoxInterrupt
LlFirmware == part = "ll" /\ Firmware
StorageThread == part = "storage" /\ OperThread
StorageCard == part = "storage" /\ Card
ServicesThread == part = "services" /\ Thread
ServicesDfc == part = "services" /\ Dfc
ServicesFirmware == part = "services" /\ FirmwareReplies

devicesVars == <<part, allVars, inVars, rdVars, wbVars, llVars, storageVars,
                 servicesVars, controlVars, msTickVars, timeVars, lcdVars, mouseVars, chipVars, calVars>>

\* LlFair, StorageFair, ServicesFair and ControlFair, each for its part.
DevicesSpec ==
    /\ DevicesInit /\ [][DevicesNext]_devicesVars
    /\ WF_llVars(LlHost) /\ WF_llVars(LlInterrupt) /\ WF_llVars(LlFirmware)
    /\ WF_storageVars(StorageThread) /\ WF_storageVars(StorageCard)
    /\ WF_servicesVars(ServicesThread) /\ WF_servicesVars(ServicesDfc)
    /\ WF_servicesVars(ServicesFirmware)
    /\ ControlFair

\* The properties of the parts; each is stated and explained in its module.
\* A write is completed when the host has it (UsbBulkIn).
WriteIsSent == In!WriteIsSent
\* Disk and buffer are as the requests say (MediaStaticRd); a read gives the bytes of the
\* medium, and partitions do not overlap (MediaWb).
MediaIsTrue == Rd!BytesAreRight /\ Wb!WbReadIsTrue /\ Wb!PartitionsAreDisjoint
\* Requests, storage operations, calls of the services and control transfers end
\* (WbLowLevel, WbStorage, WbServices, WbControl).
WestBridgeEnds == RequestsAnswered /\ StorageEnds /\ ServicesEnd /\ ControlEnds
\* A date that is read was the date at one moment (TimeOfDay).
DateIsOneMoment == Time!DateIsOneMoment
\* The frames reported are frames of the mouse (SerialMouse), a read returns the register
\* asked for (TouchController), and points touched are mapped to those shown (Calibration).
InputsAreTrue == Mouse!FramesAreTrue /\ Ctl!ReadsAreOfAddress /\ Cal!PointsMap
=============================================================================
