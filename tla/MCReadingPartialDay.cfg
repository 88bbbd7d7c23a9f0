CONSTANTS
    Hours = {0, 1}
    FirstDays <- MCFirstDays
    FirstToday = 2
    LastDay = 3
    MaxLogs = 3
    HourlyLookback = 1
    MayLag = TRUE
    AggFaults = 1
    Hour = 3
    Day = 4
    HourlyKept = 2
    MaxDays = 3
    Now = 43
    Caps <- MCCaps
    Rows <- MCRows
    fieldAliases <- MCAliases
    countryNeedles <- MCNeedles
    MaxQueryWords = 40
    Lookup <- MCLookup
    SubnetOf <- MCSubnetOf
    Usable = {"Russia", "Atlantis"}
    CountryCenters <- MCCountryCenters
    ContinentOf <- MCContinentOf
    ContinentCenters <- MCContinentCenters
    Reputation <- MCReputation
    Periods <- MCPeriods
    MapPeriods <- MCMapPeriods
    Wishes = {60}
    Logs <- MCLogs
    Hints <- MCHints
    Networks <- MCNetworks
    Filters <- MCFilters
    GeoTables <- MCTables
    GeoFiles <- MCFiles
    EditPlaces <- MCEditPlaces
    Width = 2
    NonPublic = {0}
    Topics = {"tables"}
SPECIFICATION ReadSpec
CHECK_DEADLOCK FALSE
INVARIANTS PreferAfterFullBackfill
CONSTRAINT Apart
