-------------------------------- MODULE Home --------------------------------
(***************************************************************************)
(* The devices of the house: the lock of the door, opened by the camera    *)
(* (applications/app_k210.c) and by the server (nb_devise/nb_callback.c);  *)
(* the lamp, switched by the light sensor (app_bh1750.c) and the server;   *)
(* the gas alarm (app_ADC.c).                                              *)
(*                                                                         *)
(* qsdk_th, which runs the commands of the server, is more urgent than the *)
(* threads "serial", "app_bh1750" and "app_adc": a command runs as one     *)
(* action up to its delay, and between any two statements of the others.   *)
(* Time passes in seconds; code that is ready to run takes less than one.  *)
(***************************************************************************)
EXTENDS Integers

CONSTANTS
    CameraOpen, ServerOpen,   \* seconds: 5 and 6 in the code
    WarnOn, WarnMax,          \* of warn_lux and ppm_warn: 5 and 200 in the code
    Volts,                    \* voltages of the gas sensor, in units of 10 mV
    ByteMax,                  \* 2^8: ppm is an 8-bit variable
    set_adc,                  \* the threshold of the alarm
    RxMax                     \* messages in rx_mq: 21 in the code

ASSUME DelayAssumption == CameraOpen \in Nat \ {0} /\ ServerOpen \in Nat \ {0}
ASSUME GasAssumption == Volts \subseteq Nat /\ ByteMax \in Nat \ {0} /\ set_adc \in Nat
ASSUME RxAssumption == RxMax \in Nat
ASSUME WarnAssumption == WarnOn \in Nat /\ WarnMax \in Nat /\ 1 < WarnOn /\ WarnOn < WarnMax

VARIABLES
    SUO, door_sta,            \* the lock (TRUE: open) and what is reported of it
    serial, camera_left,      \* where the thread "serial" is, and what is left of its delay
    rx,                       \* the number of messages in rx_mq
    qsdk, server_left,        \* the same for a command of the server
    fan,                      \* of the command in progress
    Fengshan,                 \* the fan
    LED3, ledflag,            \* the lamp and what is reported of it
    auto_flag, warn_lux,
    sensor,                   \* where the thread "app_bh1750" is
    ppm_warn, shown,          \* the alarm counter; the word on the display
    open_for,                 \* how long the door has been open, in seconds
    high                      \* the length of the unbroken row of high readings, up to WarnOn

door == <<SUO, door_sta, serial, camera_left, rx, open_for>>
command == <<qsdk, server_left, fan>>
lamp == <<LED3, ledflag, auto_flag, warn_lux, sensor>>
gas == <<ppm_warn, shown, high>>
home == <<door, command, Fengshan, lamp, gas>>

\* The initial values, rb_led_init and the start of main.
HomeInit ==
    /\ SUO = FALSE /\ door_sta = FALSE /\ open_for = 0
    /\ serial = "recv" /\ camera_left = 0 /\ rx = 0
    /\ qsdk = "idle" /\ server_left = 0 /\ fan = 0
    /\ Fengshan = FALSE
    /\ LED3 = FALSE /\ ledflag = FALSE /\ auto_flag = TRUE /\ warn_lux = 0 /\ sensor = "idle"
    /\ ppm_warn = 0 /\ shown = "none" /\ high = 0

-----------------------------------------------------------------------------
(* The camera: serial_thread_entry *)

\* uart_input, in the interrupt of the serial line; a message that finds the
\* queue full is lost.
uart_input ==
    /\ rx' = IF rx < RxMax THEN rx + 1 ELSE rx
    /\ UNCHANGED <<SUO, door_sta, serial, camera_left, open_for, command, Fengshan, lamp, gas>>

\* A message is read; if it is mask_flag the lock opens.
SerialRecv ==
    /\ serial = "recv" /\ rx > 0
    /\ rx' = rx - 1
    /\ \/ UNCHANGED <<SUO, serial, open_for>>
       \/ SUO' = TRUE /\ serial' = "opened" /\ open_for' = (IF SUO THEN open_for ELSE 0)
    /\ UNCHANGED <<door_sta, camera_left, command, Fengshan, lamp, gas>>

SerialReportOpen ==
    /\ serial = "opened"
    /\ door_sta' = TRUE
    /\ serial' = "delay" /\ camera_left' = CameraOpen
    /\ UNCHANGED <<SUO, rx, open_for, command, Fengshan, lamp, gas>>

\* Mutant: the lock is left to the server while a command holds it open.
SerialCloseUnlessServer ==
    /\ serial = "delay" /\ camera_left = 0
    /\ SUO' = (SUO /\ qsdk = "delay")
    /\ open_for' = IF qsdk = "delay" THEN open_for ELSE 0
    /\ serial' = "closed"
    /\ UNCHANGED <<door_sta, camera_left, rx, command, Fengshan, lamp, gas>>

SerialClose ==
    /\ serial = "delay" /\ camera_left = 0
    /\ SUO' = FALSE /\ open_for' = 0
    /\ serial' = "closed"
    /\ UNCHANGED <<door_sta, camera_left, rx, command, Fengshan, lamp, gas>>

SerialReportClosed ==
    /\ serial = "closed"
    /\ door_sta' = FALSE
    /\ serial' = "recv"
    /\ UNCHANGED <<SUO, camera_left, rx, open_for, command, Fengshan, lamp, gas>>

-----------------------------------------------------------------------------
(* The server: qsdk_mqtt_data_callback *)

CloseDoor == SUO' = FALSE /\ door_sta' = FALSE /\ open_for' = 0

\* The lamp and its mode.
CommandLamp(is_auto, light_sw, sm_light) ==
    LET manual == ~is_auto \/ sm_light = 1
        on == light_sw \/ sm_light = 1
    IN  /\ auto_flag' = ~manual
        /\ LED3' = IF manual THEN on ELSE LED3 /\ sm_light # 2
        /\ ledflag' = IF manual THEN on ELSE ledflag /\ sm_light # 2

\* A k210_flag of 0 closes the door, whoever opened it.
Closes(k210_flag) == k210_flag = 0

CommandFan(f) == Fengshan' = (CASE f = 1 -> TRUE [] f = 0 -> FALSE [] OTHER -> Fengshan)

\* A command arrives.  With dool = 1 the door opens and qsdk_th sleeps, the rest
\* of the command pending.
qsdk_mqtt_data_callback(is_auto, light_sw, sm_light, dool, k210, f) ==
    /\ qsdk = "idle"
    /\ CommandLamp(is_auto, light_sw, sm_light)
    /\ \/ /\ dool = 1
          /\ SUO' = TRUE /\ door_sta' = TRUE /\ open_for' = (IF SUO THEN open_for ELSE 0)
          /\ qsdk' = "delay" /\ server_left' = ServerOpen /\ fan' = f
          /\ UNCHANGED Fengshan
       \/ /\ dool # 1
          /\ IF dool = 0 \/ Closes(k210) THEN CloseDoor ELSE UNCHANGED <<SUO, door_sta, open_for>>
          /\ CommandFan(f)
          /\ UNCHANGED <<qsdk, server_left, fan>>
    /\ UNCHANGED <<serial, camera_left, rx, warn_lux, sensor, gas>>

\* Mutant: the end of a command closes the door but does not report it.
CommandEndsQuiet ==
    /\ qsdk = "delay" /\ server_left = 0
    /\ SUO' = FALSE /\ open_for' = 0
    /\ CommandFan(fan)
    /\ qsdk' = "idle" /\ fan' = 0
    /\ UNCHANGED <<door_sta, server_left, serial, camera_left, rx, lamp, gas>>

\* The delay of a command ends.  Its k210_flag finds the door closed.
CommandEnds ==
    /\ qsdk = "delay" /\ server_left = 0
    /\ CloseDoor
    /\ CommandFan(fan)
    /\ qsdk' = "idle" /\ fan' = 0
    /\ UNCHANGED <<server_left, serial, camera_left, rx, lamp, gas>>

-----------------------------------------------------------------------------
(* The light sensor: app_bh1750_thread_entry *)

CountUp(n) == IF n + 1 >= WarnMax THEN 1 ELSE n + 1

\* A reading, compared with set_lux; in manual mode nothing follows.
LuxSample(dark) ==
    LET warn == IF dark THEN CountUp(warn_lux) ELSE IF warn_lux = 0 THEN 0 ELSE warn_lux - 1
    IN  /\ sensor = "idle" /\ auto_flag
        /\ warn_lux' = warn
        /\ sensor' = CASE ~dark /\ warn_lux = 0 -> "off"
                       [] warn >= WarnOn -> "on"
                       [] OTHER -> "idle"
        /\ UNCHANGED <<LED3, ledflag, auto_flag, door, command, Fengshan, gas>>

LuxSwitch ==
    /\ sensor \in {"on", "off"}
    /\ LED3' = (sensor = "on")
    /\ sensor' = IF sensor = "on" THEN "report_on" ELSE "report_off"
    /\ UNCHANGED <<ledflag, auto_flag, warn_lux, door, command, Fengshan, gas>>

LuxReport ==
    /\ sensor \in {"report_on", "report_off"}
    /\ ledflag' = (sensor = "report_on")
    /\ sensor' = "idle"
    /\ UNCHANGED <<LED3, auto_flag, warn_lux, door, command, Fengshan, gas>>

-----------------------------------------------------------------------------
(* The gas sensor: app_adc_thread_entry *)

\* Mutant: the display follows the counter, which wraps.
GasSampleShowsCounter(volt) ==
    LET ppm == volt % ByteMax
        warn == IF ppm >= set_adc THEN (IF ppm_warn + 1 = WarnMax THEN 1 ELSE ppm_warn + 1) ELSE 0
    IN  /\ ppm_warn' = warn
        /\ shown' = IF warn >= WarnOn THEN "Warn" ELSE IF warn < 2 THEN "Safe" ELSE shown
        /\ high' = IF ppm < set_adc THEN 0 ELSE IF high = WarnOn THEN high ELSE high + 1
        /\ UNCHANGED <<door, command, Fengshan, lamp>>

\* A reading: ppm is the voltage cut to 8 bits.
GasSample(volt) ==
    LET ppm == volt % ByteMax
        warn == IF ppm >= set_adc THEN (IF ppm_warn + 1 = WarnMax THEN 1 ELSE ppm_warn + 1) ELSE 0
    IN  /\ ppm_warn' = warn
        /\ shown' = IF warn >= WarnOn THEN "Warn" ELSE IF ppm < set_adc THEN "Safe" ELSE shown
        /\ high' = IF ppm < set_adc THEN 0 ELSE IF high = WarnOn THEN high ELSE high + 1
        /\ UNCHANGED <<door, command, Fengshan, lamp>>

-----------------------------------------------------------------------------
\* Nothing is ready to run.
Idle ==
    /\ serial = "delay" => camera_left > 0
    /\ serial \notin {"opened", "closed"}
    /\ qsdk = "delay" => server_left > 0
    /\ sensor = "idle"

\* A second passes.
Second ==
    /\ Idle
    /\ camera_left' = IF serial = "delay" THEN camera_left - 1 ELSE camera_left
    /\ server_left' = IF qsdk = "delay" THEN server_left - 1 ELSE server_left
    /\ open_for' = IF SUO THEN open_for + 1 ELSE 0
    /\ UNCHANGED <<SUO, door_sta, serial, rx, qsdk, fan, Fengshan, lamp, gas>>

HomeNext ==
    \/ uart_input \/ SerialRecv \/ SerialReportOpen \/ SerialClose \/ SerialReportClosed
    \/ \E is_auto, light_sw \in BOOLEAN, sm_light \in 0..2, dool \in 0..2, k210 \in {0, 1, 22}, f \in 0..1 :
          qsdk_mqtt_data_callback(is_auto, light_sw, sm_light, dool, k210, f)
    \/ CommandEnds
    \/ (\E dark \in BOOLEAN : LuxSample(dark)) \/ LuxSwitch \/ LuxReport
    \/ \E volt \in Volts : GasSample(volt)
    \/ Second

HomeSpec == HomeInit /\ [][HomeNext]_home

-----------------------------------------------------------------------------
(* Properties *)

\* Types of the variables.
HomeTypeOK ==
    /\ SUO \in BOOLEAN /\ door_sta \in BOOLEAN /\ Fengshan \in BOOLEAN
    /\ LED3 \in BOOLEAN /\ ledflag \in BOOLEAN /\ auto_flag \in BOOLEAN
    /\ serial \in {"recv", "opened", "delay", "closed"} /\ qsdk \in {"idle", "delay"}
    /\ camera_left \in 0..CameraOpen /\ server_left \in 0..ServerOpen
    /\ rx \in 0..RxMax
    /\ fan \in 0..1
    /\ warn_lux \in 0..(WarnMax - 1) /\ ppm_warn \in 0..(WarnMax - 1)
    /\ sensor \in {"idle", "on", "off", "report_on", "report_off"}
    /\ shown \in {"none", "Safe", "Warn"}
    /\ high \in 0..WarnOn /\ open_for \in Nat

Longest == IF CameraOpen > ServerOpen THEN CameraOpen ELSE ServerOpen

\* However the camera and the server overlap, the door is not open without a
\* break for longer than the longer of their two delays, and nobody leaves it
\* open: whoever opened it is still there to close it.
DoorCloses ==
    /\ HomeTypeOK
    /\ open_for <= Longest
    /\ SUO => serial \in {"opened", "delay"} \/ qsdk = "delay"

\* door_sta and the lock agree again once both openers are done, although each
\* can be stopped between its writes to the one and to the other.
DoorReported == serial = "recv" /\ qsdk = "idle" => door_sta = SUO

\* The display says "Warn" exactly from the WarnOn-th high reading in a row on,
\* across the wrap of the counter.
WarnShown == (shown = "Warn") = (high = WarnOn)

\* ledflag is "led开关状态" (the state of the lamp's switch): it agrees with the
\* lamp while the sensor thread is between two readings.
LampReported == sensor = "idle" => ledflag = LED3
=============================================================================
