CONSTANTS
    s1 = s1
    array = array
    group = group
    t1 = t1
    k1 = k1
    k2 = k2
    Stores = {s1}
    Bucket <- MCBucket
    Contents = {array, group}
    ArrayContents = {array}
    Models = {t1}
    Calls = {k1, k2}
    MinSession = 1
    MaxSession = 1
    DefaultSession = 9
    MaxCreds = 2
SPECIFICATION FairSpec
INVARIANTS CredentialsAreBounded PopulatedZarrWasUploaded StoresDoNotDrift
PROPERTY UploadsEnd
CHECK_DEADLOCK FALSE
