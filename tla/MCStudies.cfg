SPECIFICATION AllSpec
CONSTANTS
    Versions = {1, 2}
    MaxChanges = 2
    MaxEdits = 2
    MaxArchives = 1
    CapabilityRows = 2
    PublicRows = 2
    ByHand = {"capability", "public-tools", "private-repair", "freeze",
              "mqtt-first", "mqtt-repeat-1", "mqtt-repeat-2", "http"}
    Flash = 1
    Pro = 1
    Fixtures = 1
    Reservation = 2
    Ceiling = 13
    Prices = {1}
    Times = {10, 12}
    MaxStudies = 2
    MaxEvents = 4
INVARIANTS
    SamplesCount
    CampaignIsWhole
    PromotionIsSound
    CallsAreSound
PROPERTIES
    AttemptsAreKept
CHECK_DEADLOCK FALSE
