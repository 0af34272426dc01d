\* The comment of connection.c:23 against kivfs_reconnect.
CONSTANTS
    t1 = t1
    t2 = t2
    Ops = {t1, t2}
    Rescuer = Rescuer
    None = None
    MaxRows = 1
    MaxFaults = 2
SPECIFICATION FairSpec
PROPERTY SignalWakesRescuer
