SPECIFICATION Spec
CONSTANTS
    q1 = q1
    q2 = q2
    q3 = q3
    home = home
    phone = phone
    laptop = laptop
    OtherDevice = OtherDevice
    Queries = {q1, q2}
    Logged = {q1}
    Consented = {q1, q2}
    ProfileOf <- MCProfileOf
    DeviceOf <- MCDeviceOf
    EmitTimeout = 1
    MaxFaults = 1
    LogBatch = 1
    StatBatch = 2
    MaxOpenEntries = 4
    MaxDevices = 1
    ChunkSize = 3
    QuartersPerHour = 2
    HoursPerDay = 24
    MaxQuarter = 2
INVARIANTS CountedOnce CoarserNotBehind StatisticsFlushed WaitCoversFlush LoggedOnce
