SPECIFICATION FairSpec
CONSTANTS
    PayloadType = {0, 33, 96, 97}
    Absolute = {"rtsp://elsewhere/3"}
    Bodies <- MCBodies
INVARIANTS
    TypeOK
    PlayedIsTornDown
    UdpPairReleased
    RequestsAddressMpegTs
PROPERTY CancelEndsRelay
CHECK_DEADLOCK FALSE
