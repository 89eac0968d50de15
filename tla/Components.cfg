SPECIFICATION Spec

\* PhyPatch
CONSTANT Kinds = {"check", "saving", "key", "plain"}
CONSTANT Chunks = 2
CONSTANT Words = 2
CONSTANT Slow = TRUE

\* LinkReport
CONSTANT Cpus = {"c1", "c2"}
CONSTANT Speeds = {1000}
CONSTANT SystemErrors = TRUE
CONSTANT MaxChanges = 2
CONSTANT MaxStarts = 1

\* RxFilter
CONSTANT Address <- Addresses
CONSTANT Zero = "zero"
CONSTANT MulticastBit <- Bits
CONSTANT MaxList = 2
CONSTANT Filters <- Asked
CONSTANT MaxRequests = 2

\* MulticastHash
CONSTANT Inputs <- Buffers

\* TxOffload, RxOffload
CONSTANT TxChips = {"old", "plus"}
CONSTANT Offsets = {54, 254, 255}
CONSTANT Offsets4 = {54}
CONSTANT Mss = {1460}
CONSTANT Vlans = {2748}
CONSTANT Priorities = {5}
CONSTANT MaxFragments = 1
CONSTANT RxChips = {"old", "new"}
CONSTANT Tags = {15036}

\* Config, Media
CONSTANT Sources = {"backup", "eeprom", "idr"}
CONSTANT Keys = {"*SpeedDuplex", "*FlowControl"}
CONSTANT MediaChips = {"gbe", "kb", "fast", "dlink36", "a25", "d25", "a5"}
CONSTANT Partners <- Ends

\* PhyAccess: PHYAR, and PHYOCPACCESS with pages other than 0
CONSTANT Families = {"8168d", "8168h"}
CONSTANT PhyPolls = 1
CONSTANT MaxRuns = 1

\* EriWindow: bytes of one bit, and an answer before, at or after the last poll
CONSTANT BitsOfByte = {"b1"}
CONSTANT Contents <- Patterns
CONSTANT WindowPolls = 2

\* Eeprom
CONSTANT Memories <- Images
CONSTANT Sizes = {46, 56}

INVARIANT PatchSound
INVARIANT SettledIsActual
INVARIANT FilterRight
INVARIANT AccessSound
INVARIANT WindowsExact
PROPERTY ReportConverges
PROPERTY FrameAsAsked
PROPERTY VerdictIsTheChips
PROPERTY SettingsRight
PROPERTY AddressesExact
CHECK_DEADLOCK FALSE
