SPECIFICATION Spec
CONSTANTS
    p1 = p1  p2 = p2  gma = gma  None = None
    Pubkeys = {p1, p2}  Filters = {p1}
    Snapshots = {gma}
    Covers <- OneSnapshot
    NodeBases = {0, 2}  SnapVersion = 100
    Buffer = 0  BufferStep = 1  OutOfOrder = 0  Retention = 1
    DedupQueueSize = 2  MaxErrors = 1  RetrySleep = 1  ErrorWindow = 10
    FirstSlot = 2  MaxSlot = 5  MaxWrites <- TwoOfWanted  MaxResnapshots = 1
INVARIANT TypeOK
INVARIANT SnapshotThenStreamIsComplete
INVARIANT OldSnapshotIsRequestedAgain
INVARIANT AnnouncedIsQueued
