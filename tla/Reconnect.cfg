\* Two FUSE threads and the rescuer share the main connection, which is lost several times.
CONSTANTS
    t1 = t1
    t2 = t2
    Ops = {t1, t2}
    Rescuer = Rescuer
    None = None
    MaxRows = 1
    MaxFaults = 2
SPECIFICATION FairSpec
INVARIANTS Inv OneOnWire
PROPERTIES Answered Reconnects
