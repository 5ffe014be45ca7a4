SPECIFICATION Spec
CONSTANTS
    NMessages = 5
    Filtered = {2}
    Channels = {"webhook", "bot"}
    Limit = 2
    Minute = 2
    SlackMaxTime = 6
    Budget <- OneOfEach
    cart = cart  mail = mail  shop = shop
    north = north  south = south
    Apps = {cart, mail, shop}
    Namespaces = {north, south}
    Home <- TwoHomes
    Room = 1
    Interval = 2
    Patience = 1
    MaxCards = 2
    MaxTime = 3
    MaxFailures = 1
    Operators = {op1, op2}
    MaxBootFaults = 1
    MaxWaits = 2
    MaxRemovals = 1
    NoReading = NoReading
    CastaiServices <- TwoServices
    MaxPodEvents = 2
    MaxCastaiFaults = 1
    NoGauge = NoGauge
    SiteChecks = {site}
    JsonChecks = {json}
    UrlCheck = url
    MaxAnswers = 2
    MaxLostGauges = 1
    Absent = Absent
    Workloads <- SomeWorkloads
    Files <- SomeFiles
    CacheTTL = 2
    Duration = 1
    MaxClock = 5
    MaxEdits = 2
CHECK_DEADLOCK FALSE
INVARIANTS PartsTypeOK
    RateRespected ResultIsTrue DigestSpacing NothingForgotten
    OneLossPerMap ServingIsEquipped
    ReadingsAreTrue GaugesAreTrue
    FullMarks FixingNeverHurts AlarmsAgree ScoresAreRecent
PROPERTIES AlwaysReopens ServesAtLast NoGaugeOnceOver PodsFollow SignalEnds GaugesFollow
