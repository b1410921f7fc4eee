SPECIFICATION FairSpec
CONSTANTS
    Transports = {usb, ble, none}
    NumConditions = 2
INVARIANTS
    PreferenceFollowed
PROPERTIES
    LookServed
