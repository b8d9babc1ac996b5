\* Delays of 2 and 3 seconds, counters of 4; 260 does not fit into 8 bits.
CONSTANTS
    CameraOpen = 2
    ServerOpen = 3
    WarnOn = 2
    WarnMax = 4
    Volts = {10, 100, 260}
    ByteMax = 256
    set_adc = 55
    RxMax = 1
SPECIFICATION HomeSpec
INVARIANTS DoorCloses DoorReported WarnShown
